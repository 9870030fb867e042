# A TLA+ verification of the match engine

The program runs matches between AI agents, scripted bots and people: games of
rounds and turns in which every seat talks, then acts, then is scored. One
Python process (FastAPI and asyncio) serves the requests, drives every running
match in a background task, and keeps everything that must survive in a
relational database. The specifications here model the part of it that is hard
to test: what the tasks, the requests and the background poller do to the rows
of one match when their steps interleave, fail, or start again.

## 1. Inventory

`PROJECT.json` lists every component with its files and its status; this is
what each one keeps and does, and what would make it correct.

**Simultaneous turn loop** (`engine/scheduler_turn_loop.py`,
`engine/turn_clock.py`). State: the `turns` row (phase, `talk_resolved_at`,
`resolved_at`, deadline), `matches.current_round/current_turn`, and, in memory
only, the task's position and the Match row it loaded when it started.
Operations: run rounds and turns, open a turn, wait for messages, flip to the
act phase, wait for moves, resolve, award, finalize. Hard: a task can die or
wedge at any await and is resumed from the rows alone. Correct when the rows
are always those of one ordered pass over the grid of turns, nothing is scored
twice or lost, and no live player loses time they were promised.

**Scheduler registry, watchdog, start-up** (`engine/scheduler.py`, `main.py`).
State: the task registry. Operations: start or stop a task, restart the dead
ones, cancel a match without players, start due games, resume everything at
start-up. Hard: each step works on rows read by an earlier one. Correct when a
match that should run has exactly one task and one that should not has none.

**Overdue-turn sweeper** (`engine/overdue_sweeper.py`). Finds a turn far past
its deadline, stops the task, re-checks, pushes the turn one phase on and
restarts the task. Correct when it works alone and gets every frozen match
going again.

**Round and match resolution** (`engine/resolver.py`, `engine/finish_order.py`).
Talk defaults, the round award with its `rounds_awarded` guard, the placement
chain, completion. State: `total_round_wins` (a float), `total_round_score`,
`winner_player_id`. Hard: a round win is split in floating point and added up
over rounds that a restarted loop awards again. Correct when each round hands out
one win, wins add up, and the chain decides between seats that are really level.

**State machine, cancellation, deletion** (`engine/state_machine.py`,
`engine/match_cancellation.py`, `engine/match_deletion.py`). Correct when
a terminal state is final.

**Move recording** (`engine/agent_play*.py`, `engine/player_move.py`,
`games/hoard_hurt_help/game.py`, `models/turn.py`). State: one row per turn and
seat in `turn_messages` and `turn_submissions`. Five writers: an agent, its
connector filling in, a human, the loop for bots and autopilot seats, the loop
closing a phase. Each reads, awaits, then commits. Correct when a genuine
answer survives all of them and is the one that is scored.

**Human play** (`routes/web_play.py`): join, leave (autopilot once the match
runs), talk, act.

**Hoard-Hurt-Help scoring** (`games/hoard_hurt_help/scoring.py`, `rules.py`).
State: `current_round_score` and the stored submissions, from which the value
of each pair's pact is recomputed at every turn. The same turn is priced in three
places: the preview an agent gets, `resolve_turn`, and the spectator's mirror.
Hard: takes are split among some attackers and not others, the floor is applied
to a sum here and hit by hit there, and the history crosses round boundaries.
Correct when the three agree where they say they do, and the payoffs keep the
order the rules are designed around.

**Bots** (`engine/bots/`): a pure decision per seat, seating, and the pass that
submits for bots and autopilot seats.

**Match lifecycle before the start** (`engine/arena.py`,
`engine/match_creation.py`, `engine/user_match_start.py`, `routes/web_join.py`)
and **seat holds** (`engine/seat_hold.py`). State: `matches.state`, the `players`
rows with `left_at` and `seat_reserved_until`. Operations: join, hold, confirm,
expire, leave, fill with bots, start by the poller, by a player, by an
administrator or by the last arrival, cancel by the poller, an administrator or a
page of the lobby, delete. Hard: nearly every one checks and commits apart, on a
Match object that is not loaded again. Correct when a match that is due is
decided, is not started after it was called off, gets its loop, and takes nobody's
seat away.

**Sequential driver and Liar's Dice** (`engine/turn_drivers.py`,
`games/liars_dice/`). State: one JSON document for the match, one for each
player, the turn rows, and the driver's locals. Operations: open a turn for the
seat on the clock, wait, record, resolve, hold a showdown, deal, finalize. Hard:
the document advances when a move is recorded, not when a turn is resolved, so a
resumed driver or a late submission meets a table that has moved on. Correct when
seats go out one at a time, once, and the last one wins.

**Next-turn serving and routing** (`engine/agent_play_next_turn.py`,
`engine/turn_routing.py`, ...) with **connection activity**
(`engine/connection_activity.py`). State: `players.served_by_connection_id` (the
pin), `connections.last_seen_at`, status and providers. Operations: poll, hold,
re-check, claim, answer, pause, resume, delete, toggle. Hard: death is a
judgement by age, made earlier than it is used, and a poll that is held ages the
connection it waits on. Correct when a pin stays with a live connection and every
seat is played as long as somebody can play it.

**Match resume** (`match_resume`) and the **replay's standings**
(`games/replay_standings`). An administrator builds a new match from the recorded
turns of another one; round wins and points are recomputed from the rows, as they are,
once more, by the replay. Hard: three folds over one history, one of them live and
through restarts. Correct when they agree.

The rest is around the engine: **onboarding and model verification**, **identity and milestones**, **read models and caches**,
**broadcast and SSE**, **routes**, **MCP server and connector**, **sign-in**,
**migrations, templates and tools**. Section 6 says why it is not modelled.

Interactions. The loop, the watchdog, the sweeper and the requests never call
each other about a match: they share its rows, and the registry's task. The
sweeper and the cancel route stop the task; the watchdog, the sweeper, the
start-up and the user start create it. SQLAlchemy adds a hidden piece of state:
sessions run with `expire_on_commit=False`, so an object that a session still
references keeps the values it was loaded with, and an update writes only the
columns that differ from them. Both matter below.

The hazards in `PROJECT.json` are listed by line, each with the properties that
would catch it going wrong; the one without says why.

## 2. Modules

| module | what it is |
|---|---|
| `MatchProgress` | what the loop promises: turns resolved in order, rounds awarded once, one completion |
| `TurnLoop` | one running match: loop task, poller (watchdog and sweeper), players, clock, administrator, faults, restarts |
| `MCTurnLoop` | TLC instances of it |
| `TurnLoopProofs` | theorems about `TurnLoop` |
| `MoveRecording` | the rows of one turn and everyone who writes them |
| `MCMoveRecording` | TLC instances of it |
| `MoveRecordingProofs` | theorems about `MoveRecording` |
| `Payoffs` | the rates and the arithmetic of one turn, as operators |
| `PDScoring` | the scores and pact values of a match over its rounds and turns, and the spectator's mirror |
| `MCPDScoring` | its TLC instances |
| `PDScoringProofs` | theorems about `PDScoring` |
| `FinishOrder` | round awards in floating point, the placement chain, the winner |
| `MCFinishOrder` | its TLC instances |
| `FinishOrderProofs` | theorems about `FinishOrder` |
| `MatchResume` | a match turn by turn, its copy from any turn, and the replay's count of wins |
| `MCMatchResume` | its TLC instance |
| `MatchResumeProofs` | theorems about `MatchResume` |
| `MatchLifecycle` | one match before and around its start: the poller, requests and the environment |
| `MCMatchLifecycle` | its TLC instance |
| `MatchLifecycleProofs` | theorems about `MatchLifecycle` |
| `DudoBids` | which bid raises which, the smallest raise, the showdown, who is next: operators |
| `LastStanding` | what Liar's Dice promises: seats go out one by one, the last one wins |
| `LiarsDice` | a match: the sequential driver, the game module, submissions |
| `MCLiarsDice` | its TLC instances |
| `LiarsDiceProofs` | theorems about the operators of `DudoBids` and about `LiarsDice`, the refinement of `LastStanding` among them |
| `TurnRouting` | connections, sessions, pins and held polls of one user |
| `MCTurnRouting` | its TLC instance |
| `TurnRoutingProofs` | theorems about `TurnRouting` |

The two machines overlap on purpose. `TurnLoop` has all turns of a match and
treats an answer as one step; `MoveRecording` has one turn and splits every
answer into check, read and commit. `PDScoring` and `FinishOrder` fill in the data
that these two abstract: what a resolved turn pays, and what an awarded round
adds up to. They take the control proved of `TurnLoop` (each turn resolved once,
in order; a round possibly awarded again) as their own steps. `MatchLifecycle` ends
where `TurnLoop` begins: its `Flip` and `Register` are the commit and the task of
`TurnLoop`'s initial state, and its watchdog and start-up are those of `TurnLoop`
seen from a match that may not have started. `LiarsDice` has the same driver role as
`TurnLoop` for the other kind of game, and `TurnRouting` is about who gets to make
the submissions that `MoveRecording` and `LiarsDice` receive.

### TurnLoop

An action is the code between two awaits with at most one commit in it. `pc` is
the next such step of the loop task, `poller` that of the poll loop:

| code | actions |
|---|---|
| `_run_game`, head of `run_match` | `Boot` |
| `_run_round` | `StartRound` (zeroing), `AfterTurn` |
| `_open_turn`, `_run_turn`'s resume branches | `OpenTurn` = `OpenNewTurn` or `ReuseTurn` |
| `auto_submit_bot_phase` | `BotsTalk`, `BotsAct`; a raising decision ends the task |
| `_wait_for_messages`, `_wait_for_turn` | `WaitTalk`, `WaitAct` |
| `finalize_talk_phase`, `_begin_act_phase`, `resolve_turn` | `FinalizeTalk`, `BeginAct`, `LoopResolves`; the sweeper uses the same operators |
| `award_round_winners`, `finalize_game` | `AwardRound`, `Finalize` |
| `_run_game_guarded` | `LoopCrashes` |
| `_watchdog` | `WatchdogScan`, `WatchdogCancels`, `WatchdogRestarts` |
| `_find_frozen_turns`, `_heal_match` | `FindFrozen`, `HealStops`, `HealLoads`, `HealTalk`, `HealBeginsAct`, `HealResolves`, `HealRestarts`, `HealFails` |
| `cancel_blocked_reason`, `cancel_match` | `AdminCancels`, three steps |
| `lifespan` | `ProcessDies`, `Startup` |

Scores are abstracted to provenance: for each turn, how many times its deltas
are in the current round scores and in the totals. Zeroing, resolving and
awarding treat all players of a match alike, so one counter per turn is enough
to see a turn lost or counted twice. The clock of the open turn is `running`,
`due` or `overdue` (past the sweeper's grace). A task that is cancelled never
takes its next step; a commit in flight at that moment lands before the
cancellation or not at all. The Match row of the loop's session is never
refreshed, so `Finalize` does not look at `state`. A process is one: the program
runs a single worker. Left out: a match with an unknown game, more than one
cancel request, and who the winner is.

### MoveRecording

`rows[phase][seat]` is a row of `turn_messages` or `turn_submissions`, reduced to
what it says and whether it is genuine (not `was_defaulted`). A request is
`Check` (the tests on match, turn, phase and deadline), `Load` (the seat's row;
an agent that has answered is acknowledged and done) and `Commit`, which repeats
no test. `Recorded` is the write: an INSERT where no row was found, which
conflicts if there is one by now, or a column-wise UPDATE (`Updated`). The loop's
bot pass (`BotsRead`, `BotsWrite`) and its closing of a phase (`CloseRead`,
`CloseWrite`) read and commit in separate steps as well, and a lost INSERT race
there ends the task until `Restart`. `pinned` and `pin` are the identity map: while
`_run_round` references the players it loaded, the bot pass sees their
`autopilot_at` as it was then. An answer's words, seat-name matching, masking and
milestones are abstracted; the bots' choices are free.

### PDScoring and Payoffs

`Payoffs` translates `rules.py` and the arithmetic of `resolve_turn`, by seat
rather than by submission: `Delta` is what a seat's own move earns it (`Earned`),
plus the HELPs it receives, minus the HURTs that land. `PDScoring` keeps the
running scores and, of each resolved turn, the pairs that helped each other,
which is all that `mutual_help_counts` and `mutual_help_pairs` read of its rows.
`StartRound` is the reset of `_run_round`, `ResolveTurn` is `resolve_turn` with a
HOARD for every seat that sent nothing. `PactValue` is what a pact pays there, `Shown`
what `current_pact_values` tells an agent before the turn, from a scan of its own, and
`PactFollowsPlay` holds them together. `Mirror` is `apply_inround_turn`, the
actions one after the other; its totals for a pact come from the caller, as in the
viewer. Invariants about a turn quantify over all turns that could come next.

### FinishOrder

A round ends with some scores and is awarded; until the next one opens, a restart
awards it again. `Share`, `Plus` and `More` are IEEE double arithmetic: a double is
a pair of limbs, rounded to nearest, ties to even, at the spacing of its binade, and
all sums of shares of up to 20 seats and 20 rounds, the limits of `create_match`, are
exactly those of the program (checked for all shares and 300 000 random matches against
Python's own floats). `trueWins` counts the same wins in whole parts, `WinParts` to a
win (the least common multiple of 1 to 20), without rounding. The five cooperation counts at the end of the placement chain are one
number per seat: only whether they tell two seats apart matters.

### MatchResume

The rounds are `FinishOrder`'s, instantiated as `Order` (its `Init`, `Award`,
`NextRound` and `Finalize` are steps here), with turns in them: `OpenTurn`,
`ResolveTurn`, and `Restart`, which zeroes the scores at turn 1 as `run_match` does.
`scoreAfter` is the record, `round_score_after` of each resolved turn; `position` is a
history of what the match stood at when each turn was opened. `ResumeFrom(at)` is
`resume_match_from`: it may come at any moment, for any turn of the grid, and from then
on the same variables are the copy's (`registering` until `Start`). `WinsIn`, `PointsIn`
and `InRound` are `_standings_at`; `Trailing` and `RailWins` are
`stamp_turn_standings`. A copy of a copy is the same operation on the same kind of
record and is left out.

### MatchLifecycle

A worker is the poller or the handler of one request; `job` is its next step and what
it has read. `snap` is the `state` of the Match object it holds: `start_game` asserts
its transition from that, and commits without looking again.

| code | actions |
|---|---|
| `start_game` | `ReleaseHeld` (the list of held seats), `Flip` (the commit), `Register` |
| `fill_and_start_auto_matches` | `SelectDueAuto`, `ReadDueAuto`, `FillAuto`, `CancelAuto`, then the start |
| `sweep_held_seats` | `ReadHeld`, `SweepHeld` |
| `start_due_games` | `LoadDue`, `DecideDue`, `CancelDue`, or the start |
| `_watchdog`, `resume_active_games_on_startup` | `Watchdog`, `Startup` |
| `join_submit`, `play_join` | `AskToJoin`, `Join` (after `join_submit` with no held seat, the start of a practice match) |
| `add_bots_submit` | `AskToAddBots`, `AddBots` |
| `leave_match`, `play_leave` | `AskToLeave`, `Leave` |
| `seat_connect_status` | `AskForSeat`, `AnswerForSeat` |
| `start_match_submit`, `start_match_for_user` | `AskToStart`, `Refresh`, `ChooseBots`, `SeatBots`, then the start |
| `cancel_match`, `delete_match` | `AskToCancel`, `Cancel`, `Stop`; `AskToDelete`, `StopToDelete`, `Erase` |
| `cancel_overdue_unfilled_games` | `ViewLobby`, `TidyLobby` |
| `start_match` of the administrator | `AdminStarts`, then the start |

Rows that are gone make an update fail, and a player for whom the loop has recorded
a move cannot be deleted (`MayDelete`, the foreign key of `turn_submissions`). Bots
are counted; since they take names from one list, two fills that chose from the same
count collide, which is `SeatingFails`. The page that adds bots offers the next names of
the same list, and the model has it take these; its roster may be refused for any
reason. A deleted match's id is not used again.

### LiarsDice, DudoBids, LastStanding

`DudoBids` translates `games/liars_dice/engine.py` over seats as places in the seat
order. `LiarsDice` adds the document (`blob`), the dice counts, the turn rows and the
submissions; the driver's steps are `Boot`, `FindActor`, `OpenTurn`, `Wait`,
`Decide`, `Record`, `Resolve`, `AwardRound`, `NextHand` and `Finalize`, each up to a
commit. A request is `Check` (all tests of `submit_action` and `validate_move`) and
`Submit` (`record_submission`, from its load of the document to its commit). What the
dice show is chosen at the showdown: no test before it looks at them. A bot's move is
any it could choose; a missed turn is `DefaultMove`. Any seat may answer any open
turn whose token it was given, and is only kept out by `active_actor`. Left out:
players who leave (a running match has no leaving), the views, and the bid history.

### TurnRouting

One user with some connections (a machine or a signed-in client), the client
sessions that poll over them, and the user's seats in one match, each seat of a
provider of its own. Time is in ticks of the hold's interval (5 s). A poll is `Call`
(the sign-in and its stamps), `ReadRoutes`, `ReadSeats`, `Claim` (the conditional
UPDATE) and, while it is held, `Recheck`; `Answer` is the submission, which does not
look at the pin. `dead` is the list of dead connections as it was read, which the
UPDATE still uses. `Stamp` writes only when the old stamp is older than the throttle.
The environment stops clients, pauses, resumes and deletes connections, toggles
providers, and opens the next turn. Left out: the order of urgency between matches,
and the clock of sequential matches (`_drop_seats_off_the_clock`).

## 3. Runs

| run | instance | checks |
|---|---|---|
| `turn_loop` | 2 rounds x 2 turns, a player and a bot, two raising decisions, 2 faults, cancel and wipe allowed; about 505 000 states | `TypeOK`, `IInv`, `TurnsInOrder`, `CountedOnce`, `HealNeverRacesLoop`, `CancelSticks`, `NoEarlyResolve`, `ProgressSpec`, `EventuallyOver` hold |
| `turn_loop_resume` | 1 x 2, 1 fault | `RoundScoreIntact` fails |
| `turn_loop_cancel` | 1 x 1, cancel and wipe | `TerminalIsFinal` fails |
| `move_recording` | an agent, a human, a bot, 2 requests, 2 answers, 1 fault; about 536 000 states | `TypeOK`, `KnownLeaversAnswer`, `GenuineStays`, `AgentAnswerStands`, `EventuallyResolved` hold |
| `move_recording_late` | the same | `RecordedIsScored` fails |
| `pd_scoring` | 3 seats, 2 rounds x 2 turns, modes decay and no_repeats; about 27 000 states up to renaming seats, and in each the 125 turns that can follow, in all row orders | `TypeOK`, `MirrorNeverBelow`, `BetrayalPaysBest`, `TakesStandAlone`, `PactFollowsPlay` hold |
| `finish_order` | 3 seats, 5 rounds, scores and cooperation 0 or 1; about 7 900 states | `TypeOK`, `OneWinPerRound`, `LeaderIsAhead`, `WinnerIsSole` hold |
| `match_resume` | 2 seats, 3 rounds x 2 turns, scores 0 or 1, a cut anywhere; about 130 000 states | `TypeOK`, `PositionCarried`, `RailAgrees` hold |
| `match_lifecycle` | each kind of match, a table of 2, an AI player, a human, 2 requests, 1 death; about 432 000 states | `TypeOK`, `ConfirmedStays`, `CancelHolds`, `DueIsDecided`, `ActiveIsDriven` hold |
| `liars_dice` | 3 seats with a bot, 1 die each, 2 faces, aces wild, 1 submission, 1 death; about 351 000 states | `TypeOK`, `OneOutPerHand`, `WinnerStands`, `StandingSpec`, `EventuallyWon` hold |
| `liars_dice_reroll` | the same table with 2 dice each, nobody submitting | `DiceShrink` fails |
| `turn_routing` | a laptop whose connector asks for both seats, a phone whose loop holds its poll for one; throttle 1, window 2, hold 3 ticks, 2 turns, 1 change; about 362 000 states | `TypeOK`, `HoldKeepsAlive`, `StickyPin`, `EventuallyPlayed` hold |

Why the bounds are enough. Two rounds of two turns have a first, a last and a
following turn in a first and a last round, every case the pointer arithmetic
distinguishes. Two faults let a crash hit the recovery from another one (a heal
that fails after a wedge, a restart after a crash); the raising decisions add two
faults that recur for ever. One bot and one player are all that `AllAnswered`
compares. Two requests are enough for every pairwise race of a row, with the
loop as the third party; two answers tell a replaced answer from a repeated
one. `MaxFaults` and `MaxCrashes` are the only counters that had to be bounded.

Three seats give every relation the payoffs distinguish: a helper, a betrayer and
a second attacker of one victim, a blocked pair and a bystander, two and three
hoarders. Two turns in each of two rounds put a repeated pact inside a round and
across its boundary. Only the modes that read history are run, the flat ones never
change a value and are covered by the theorems, as are more seats. In `FinishOrder`
a round's scores matter only by who tops it, so 0 and 1 give every pattern of
winners; five rounds are more than the three in which rounding first tells level
seats apart. Seats are interchangeable in both, hence the symmetry. Both stop when
the match is over, so they are checked without deadlock.

`match_resume`: three rounds of two turns have a cut at the start and in the middle of a
first, a middle and a last round, with a whole round before it that the source may have
played or not; two seats give a sole and a split winner.

`match_lifecycle`: two requests and the poller are three workers on one row, enough for
each pair of operations with the third undoing one of them; a table of two has a match
that is empty, under the floor, at it and, through a join that does not count, over
it. One AI player may be offline, held, confirmed, gone; one human shares the table.
`liars_dice`: one die a seat is the only setting in which the code's matches end (see
`DiceShrink`), so it is the one in which seats go out; the proofs are for any number.
Two faces are an ace and one other face; with three seats one can go out while two play
on. One submission against a driver that may die already gives a bid on top of a
default, after the showdown, and in the next hand. `MaxTurns` only bounds the rows in
use, `MaxRounds` is never reached. `turn_routing`: what matters is that the hold is
longer than the window and the throttle shorter, as in production (90, 90 and 10 s);
one connection is shared by both seats and one is not; with one change of the owner's a
connection may be paused, deleted, or lose a provider. All of these stop when the bounded
things are used up, so they are checked without deadlock.

What fails, and why (details and quotes in `PROJECT.json`, "findings"):

1. *A resumed round loses its first turn.* `run_match` zeroes the round's scores
   when it resumes at turn 1. The pointer stays at turn 1 until turn 2 is opened,
   so a task that dies in that gap, or any heal that resolves turn 1, drops
   turn 1's points from the round, against the docstring of `_run_round`.
   `CountedOnce` is stated for what the code does guarantee: never twice, and
   exactly once for every turn but a round's first.
2. *Cancel and completion overwrite each other.* `cancel_match` does not check
   again before its commit, `finalize_game` checks a stale row.
   The same completes a match that the watchdog cancelled for want of players,
   because its task is left running.
3. *A move can change after it was scored*: the late commit of a request that
   passed its checks in time.
4. *Liar's Dice does not end with more than one die a seat*: the die lost at a
   showdown is dealt again with the next hand.

Further observations, seen while modelling or in counterexamples to stronger
properties, that the runs no longer carry:

- A match can be resumed at a turn its source never got to, if no turn was open: the
  refusal asks whether the turns that exist before the cut are resolved, not whether all
  of them exist. "Every round before this one finished and was folded into the carried
  totals" (match_resume.py:192) is then not so: a round that was half played is awarded,
  one that was not played is skipped, and fewer wins are handed out than rounds counted.
  `RailAgrees` holds of such copies too, `PositionCarried` does not speak of them.
- The copy of a match seats everyone again, those who had left included.
- A source whose loop restarted between turns 1 and 2 has lost turn 1's points (finding
  1 above), its copy from turn 2 has them: the disjunct in `PositionCarried`.
- With one turn a round, which `create_match` admits, such a restart makes the live loop
  award a zeroed round, and neither copy nor replay agrees with it. `MatchResume` assumes
  two turns at least (`TurnsAssumption`).
- The table waits for a human who left during a round until the next one, because
  the loop keeps the player objects it loaded. `KnownLeaversAnswer` is what does hold.
- Seats level on round wins are told apart by rounding: 1 + 1 + 1/3 and 1/3 + 1 + 1
  differ in floating point, and the difference is compared before the total score.
  `LeaderIsAhead` shows that it never overturns a real lead.
- The note on pact values ("decays per repeat", game.py) is sent in `no_repeats` too,
  where a pact's value recovers.
- A held seat can survive the start: a join that passed its check commits after
  `start_game` has listed the held seats. The loop then plays defaults for it, and
  from then on each sweep fails as a whole at the foreign key when it deletes it.
- A seat can be confirmed, and its user sent on to the match, after the start or the
  sweep has listed it as held; it is deleted all the same. This is the exception in
  `ConfirmedStays`, which fails without it (the sweep confirms a seat between
  `ReleaseHeld` and `Flip` of a start).
- "This match is full." (web_play.py) and "capacity is all-or-nothing" (web_join.py)
  are not kept: an AI's join does not count the seats, and two joins by hand count
  before either commits, so a table may be overfull.
- A task that is stuck while no turn is open is found neither by the watchdog, which
  sees it alive, nor by the sweeper, which looks for an open turn past its deadline.
  `LoopWedges` is therefore only a step of an open turn, and `EventuallyOver` speaks
  of those.
- A fill by the poller that collides with a user's start takes the names for taken and
  cancels the match the user has just started. `CancelHolds` excepts, the other way
  round, a start that took its last look before the cancellation.
- A player who left before the start cannot come back: the old row keeps the key.
- A dead connection's list is as old as the poll's first read: a connection that comes
  back in between loses its pin (the exception `woke` in `StickyPin`). Two sessions of
  one connection may both be served a turn. A pin on a connection that is kept alive
  but no longer plays the seat is never taken over (`Stranded`).

`NoEarlyResolve` names an exception it found acceptable to state rather than to
hide: a turn healed between talk resolution and the phase flip gets a fresh act
deadline and is resolved at once. `AgentAnswerStands` likewise excepts requests
that had read a defaulted row.

Fairness. `WF(LoopStep)` and `WF(PollerStep)`: the asyncio event loop runs every
ready task, and both are chains of awaits that end. A wedged task is not fair:
none of its actions is enabled, which is what the sweeper is for. `WF(Tick)`: time
passes. `WF(Startup)`: the platform restarts the service. Nothing is assumed of
players, the administrator or faults, which are bounded but never forced. In
`MoveRecording` the same holds of `LoopStep`, which includes the restart that the
watchdog guarantees, and of `Tick`. `MatchLifecycle` asks for the poller and time only,
`LiarsDice` for the driver, the watchdog's restart and time; requests need never come
or end. `TurnRouting` also assumes that a client that has not stopped goes on calling
and answering, which is what its prompt or its connector has it do. `MoveRecording` is checked without deadlock
because its one turn ends.

## 4. Proofs

Every invariant and every action property of every passing run is a theorem, and so are
both refinements; what the runs show of a small instance holds for every value of the
constants that the assumptions admit. Only liveness is left to TLC.

`TurnLoopProofs`, for any grid, any finite set of seats, any bots and raising
decisions and any number of faults (`GridAssumption`, `SeatAssumption`,
`PoisonAssumption`, `BoundAssumption`):

- `TypeCorrect`, `Invariant`: `Spec => []TypeOK`, `Spec => []IInv`;
- `InOrder`, `TurnsCountedOnce`, `HealAlone`, `CancellationSticks`: `TurnsInOrder`,
  `CountedOnce`, `HealNeverRacesLoop` and `CancelSticks` always hold;
- `ResolvedForAReason`: every step is one that `NoEarlyResolve` admits;
- `OnePass`: `Spec => ProgressSpec`, the refinement of `MatchProgress`.

None of them is inductive. `IInv` has four parts. `PassInv` adds what the resume logic
silently relies on: `PointerInv` (a turn has a row exactly up to the pointer and everything
before it is resolved), `AwardInv` (`rounds_awarded` is the pointer's round minus
one, or that round when its last turn is closed), `ScoreInv` and `TotalInv`
(which turns the two scores count), `LoopInv` (at each step, where the task can
stand relative to the pointer: at it, just past it, or at the start of the next
round) and `HealInv` (while the sweeper heals the task is stopped, and it works
on the pointed turn). `CancelInv`: a committed cancellation leaves the match over, and
once its request is done the task can only boot and stop. `AnswerInv`: whoever is about
to resolve a turn, loop or sweeper, found a passed deadline or all answers in, and that
cannot be undone before it commits. `CountInv`: the number of resolved turns is the
length of the pass up to the pointer. `CountInv` is what makes the refinement go
through: a resolving step adds one turn to the resolved ones, so it is the next step of
the abstract pass; an award and a completion are its own steps, and all else a stutter.
The proof has one lemma per process and conjunct, and one case per action.

`MoveRecordingProofs`, for any seats, answers and number of requests:
`TypeCorrect` and `Invariant`, and from them `AnswersSurvive` (`GenuineStays`),
`AnswerStands` (`AgentAnswerStands`) and `LeaversAnswered` (`KnownLeaversAnswer`). The invariant says what a writer may still
rely on when it commits: a fill-in comes from an agent's connector, an agent's
request holds no genuine row, a row that was found is still there. The key lemma
is `RecordedGenuine`: a write without conflict loses a genuine answer only when
it puts a defaulted one over a genuine base, and no writer does. `LeaversAnswered` needs
a second invariant: between its bot pass and the end of a phase, the loop drives every
seat it has read as gone, and a pass that ends without a conflict has written for all it
drives.

`PDScoringProofs`, for any finite set of seats, any mode (the flat ones too) and any
length of match (`PlayersAssumption`, `ModesAssumption`, `GridAssumption`):
`TypeCorrect` (`TypeOK`, which is inductive and contains that no score falls below
the floor), and from it `BetrayalBest` (`BetrayalPaysBest`), `TakesAlone`
(`TakesStandAlone`) and `PactsFollowPlay` (`PactFollowsPlay`, whose half on the preview
is the lemma `ShownIsPaid`). `BetrayalBest`
compares a betrayal with every other move of the same seat: nothing else earns
more than 8 by itself, and the only move that spares its player a hit is a block,
which spares one, worth 8, and earns nothing: 14 exceeds both. `TakesAlone` rests on the betrayer not being in
`AttackersOn`, whose cardinality then does not change. `MirrorAbove` (`MirrorNeverBelow`)
is by induction on the rows: the display stays at or above the score before the turn plus
the sum of what the rows shown so far add to a seat (`ShownSum`), because a row either
adds points or takes a hit, and a floored hit takes less than a whole one; where the
score covers all hits, no partial sum is below zero and it stays exactly there. Once all
rows are shown the sum is `Delta`, in whatever order they came: a pact pays each side
with the partner's row in the one count and with its own in the other (`AllShown`).

`FinishOrderProofs`, for every match of at most 20 seats and 20 rounds (`PlayersAssumption`,
`RoundsAssumption`: `create_match` refuses more), any scores and any cooperation:
`TypeCorrect`, `OneWinEach` (`OneWinPerRound`), `LeaderAhead` (`LeaderIsAhead`) and
`SoleWinner` (`WinnerIsSole`). The invariant bounds the error of the floating point: a
sum is rounded by at most 512 units of 2^-57 and a share by at most 513, so after n awards
a seat's wins are within n * 1025 units of their exact value (`WinsNear`); two different
exact values are at least one part of a win, some 6 * 10^8 units, apart. `OneWinEach`
is about a sum over the seats, and rests on `SumMore`: adding a constant on a set of
seats adds it as often as the set has members. `SoleWinner` shows that the placement chain is a
strict order, has a top on a finite set, and leaves two seats at the top only if they are
level on all of it.

`MatchResumeProofs`, for the same sizes, any number of turns above one and a cut at any
turn (`TurnsAssumption`, `OrderAssumption`): `TypeCorrect`, `CarriesPosition`
(`PositionCarried`) and `RailsAgree` (`RailAgrees`). The standings are not recomputed by
the live match, and are recomputed by the copy and by the replay, each with its own fold
over the rows. The invariant says that the live standings are that fold over the rows of
the awarded rounds (`StandingsInv`), and that what the source stood at when it opened a
turn is the fold over the rows before that turn (`PositionInv`), which later rows leave
alone (`EarlierFolds`). The copy is then seeded with the same rows. Steps that are
`FinishOrder`'s use its theorems through an instance.

`MatchLifecycleProofs`, for any players, kinds of match, requests and deaths:
`TypeCorrect` (with the unique key on player and match), and from an invariant about
what each worker may hold, `SweepsSpareOthers` (`ConfirmedStays`) and `CancelledStays`
(`CancelHolds`). The invariant says that a list of held seats, however old, only has
seats that were held once: a row goes from held to lapsed to lifted or away, and its
id is not used again. For a seat that was confirmed each step also shows that what a
worker goes on with has no seat to release but those held now or listed before
(`Sound`), so that a confirmed seat on no list gets on none. One lemma per action, and two, `RowsChange` and `OutsideStep`,
for what most of them share.

`LiarsDiceProofs` first has the bids, for any number of faces and either rule on aces:
`RankOrder` (a raise is a step up one ladder of ranks, so raising is a strict total order,
as the docstring of `min_legal_raise` claims) and from it `MinLegalRaiseIsLeast`. Then, for
any seats, bots, dice, submissions and deaths: `TypeCorrect`, `AtMostOneOutPerHand`
(`OneOutPerHand`), `WinnerIsLastStanding` (`WinnerStands`) and the refinement
`KeepsThePromise` (`StandingSpec`). The invariant ties the document to the dice: who is
out has none, who has none is out once the first hand is dealt, nobody is out twice, and
a hand whose showdown is stamped has used up its one elimination.

`TurnRoutingProofs`, for any connections, sessions, scopes and seats, and any hold and
window above the throttle: `TypeCorrect`, `HoldsAreAlive` (`HoldKeepsAlive`) and
`PinsStick` (`StickyPin`). The invariant says how old a holding connection's stamp can
be at each step of the hold, and that a connection read as dead is still dead or has
woken since the last tick.

Recursive functions and folds are reasoned about through their defining equation, after a
lemma that it has a solution (`SumExists`, `FoldExists`, `MirrorExists`). Induction is over
a set of numbers or of subsets (`NumberInduction`, `SubsetInduction`), because the library's
induction theorems take an operator.

Only model-checked: liveness (`EventuallyOver`, `EventuallyResolved`, `EventuallyWon`,
`EventuallyPlayed`, `DueIsDecided`, `ActiveIsDriven`), which is out of the prover's reach.
That the limbs of `FinishOrder` are the program's doubles is a matter of the model, and was
compared with Python as said above.

## 5. Plan

What is left, in this order:

1. `_drop_seats_off_the_clock` in `TurnRouting`, with a sequential match beside the
   simultaneous one, and more than one match a user.
2. The stale-while-revalidate cache, and the unknown-game branch of `_run_game`.

## 6. Not modelled

- *Onboarding, model verification, badges, pacing hints*: read-only derivations of what
  to show or what to ask next from rows that others write.
- *Garbage collection and merging of connections*: deletions by age of rows that no
  match refers to; `TurnRouting` has the deletion of a connection that is in use.
- *Identity and milestones*: text filters and insert-or-ignore records.
- *Read models, caches, broadcast, SSE*: derived data and best-effort notices; no
  decision of a match reads them.
- *Routes*: parsing, authorisation and rendering. The checks they make on a match
  before they call the engine are part of the actions above.
- *MCP server and connector*: clients of the agent API. What they can do to a match,
  repeat, fill in, stop, poll over the same connection twice, is in `MoveRecording` and
  `TurnRouting`; transport, subprocesses and prompts are not.
- *Sign-in, migrations, templates*, and the tools under `tools/` and `scripts/` that
  were used to build the program (reviews, releases, workflow automation): most of the
  repository's lines, and no part of the running system.
