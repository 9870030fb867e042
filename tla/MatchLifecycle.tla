---------------------------- MODULE MatchLifecycle ----------------------------
(***************************************************************************)
(* A match before and around its start: players join and leave, seats are  *)
(* held for an AI that is not online yet, bots fill the table, and the     *)
(* poller, a player or the last arrival starts the match, or somebody      *)
(* cancels or deletes it.                                                  *)
(*                                                                         *)
(* Every worker, the poller or the handler of a request, works on a Match  *)
(* object it has loaded: sessions keep their objects across commits, so    *)
(* the state a worker decides by may be an old one. A step of a worker     *)
(* ends at an await after which what it has read can have changed.         *)
(*                                                                         *)
(* Abstractions. One match; a worker's queries between two commits are one *)
(* read where nothing is decided in between. Bots are counted: their names *)
(* are taken from one list in order, which is also what the page that adds *)
(* bots offers. The loop of the started match is only looked at for the    *)
(* rows it writes; TurnLoop is about the loop itself.                      *)
(***************************************************************************)
EXTENDS Integers, FiniteSets

CONSTANTS
  Kinds,        \* kinds of match: "manual", "auto" and "arena"
  Agents,       \* players' AI agents that may join, each of another user
  Humans,       \* people who may play by hand
  MinPlayers,   \* MIN_PLAYERS_TO_START
  MaxPlayers,   \* max_players of the match
  MaxBots,      \* AUTO_MATCH_BOT_COUNT_MAX
  MaxRows,      \* bound on the player rows of the match, bots apart
  MaxRequests,  \* bound on the requests
  MaxDeaths     \* bound on deaths of the process or the task

ASSUME LifecycleAssumption ==
  /\ Kinds \subseteq {"manual", "auto", "arena"}
  /\ Agents \cap Humans = {}
  /\ MinPlayers \in Nat \ {0} /\ MaxPlayers \in Nat \ {0} /\ MaxBots \in Nat
  /\ MaxRows \in Nat \ {0} /\ MaxRequests \in Nat /\ MaxDeaths \in Nat

VARIABLES
  kind,     \* matches.match_kind
  state,    \* matches.state, "deleted" when there is no row
  due,      \* has scheduled_start passed?
  rows,     \* the player rows of the match, in the order of their ids
  bots,     \* how many bots are seated
  live,     \* the agents whose AI runs its play loop
  running,  \* does the registry hold a live task for the match?
  job,      \* each worker's next step and what it has read
  deaths

vars == <<kind, state, due, rows, bots, live, running, job, deaths>>

Entrants == Agents \cup Humans
Rows == 1 .. MaxRows
Poller == 0
Workers == 0 .. MaxRequests
Requests == Workers \ {Poller}

NotStarted == {"scheduled", "registering"}
States == NotStarted \cup {"active", "cancelled", "deleted"}

Nobody == "nobody"
NoRow == [who |-> Nobody, hold |-> "none", left |-> FALSE, played |-> FALSE]
GoneRow == [NoRow EXCEPT !.hold = "gone"]      \* an id is not used again
Exists(r) == rows[r].who # Nobody
Seated(r) == Exists(r) /\ ~rows[r].left
Confirmed(r) == Seated(r) /\ rows[r].hold \in {"never", "lifted"}

(* Mutant: every seat is released, held or not.                            *)
IsTaken(r) == Exists(r)

IsHeld(r) == Exists(r) /\ rows[r].hold \in {"held", "lapsed"}
Lapsed(r) == rows[r].hold = "lapsed"

SeatedCount == Cardinality({r \in Rows : Seated(r)}) + bots
ConfirmedCount == Cardinality({r \in Rows : Confirmed(r)}) + bots

PlayerRow == [who : Entrants \cup {Nobody},
              hold : {"none", "gone", "never", "held", "lapsed", "lifted"},
              left : BOOLEAN, played : BOOLEAN]
Steps == {"unused", "over", "startup", "fill", "fillread", "fillseat", "fillcancel",
          "sweep", "sweepwrite", "due", "count", "duecancel", "watchdog",
          "release", "flip", "register", "joining", "holding", "leaving",
          "lifting", "dropping", "refresh", "choose", "seat", "adding",
          "cancelling", "stopping", "deleting", "erasing", "tidying"}
Job == [at : Steps, who : Entrants \cup {Nobody}, snap : States \cup {"none"},
        marked : SUBSET Rows, lifted : SUBSET Rows, count : 0 .. MaxPlayers,
        base : 0 .. MaxPlayers, then : {"over", "sweep", "watchdog"}]
Idle(at) == [at |-> at, who |-> Nobody, snap |-> "none", marked |-> {}, lifted |-> {},
             count |-> 0, base |-> 0, then |-> "over"]

TypeOK ==
  /\ kind \in Kinds /\ state \in States /\ due \in BOOLEAN
  /\ rows \in [Rows -> PlayerRow]
  /\ bots \in 0 .. MaxPlayers
  /\ live \subseteq Agents /\ running \in BOOLEAN
  /\ job \in [Workers -> Job]
  /\ deaths \in 0 .. MaxDeaths
  /\ \A q, r \in Rows : Exists(q) /\ Exists(r) /\ rows[q].who = rows[r].who => q = r

(* The match has been created, and one player may have joined before the   *)
(* requests that are looked at; the practice arena has one seat left.      *)
Opening == [r \in Rows |-> NoRow]
NewRow(e, hold) == [NoRow EXCEPT !.who = e, !.hold = hold]

Init ==
  /\ kind \in Kinds
  /\ state = IF kind = "auto" THEN "scheduled" ELSE "registering"
  /\ due = FALSE
  /\ \/ rows = Opening
     \/ /\ kind # "arena"
        /\ \E h \in Humans : rows = [Opening EXCEPT ![1] = NewRow(h, "never")]
  /\ bots = IF kind = "arena" THEN MaxPlayers - 1 ELSE 0
  /\ live \in SUBSET Agents
  /\ running = FALSE
  /\ job = [w \in Workers |-> IF w = Poller THEN Idle("fill") ELSE Idle("unused")]
  /\ deaths = 0

At(w, here) == job[w].at = here
Becomes(w, new) == job' = [job EXCEPT ![w] = new]
Goes(w, there) == Becomes(w, [job[w] EXCEPT !.at = there])
Leaves(w) == Becomes(w, Idle(job[w].then))

matchVars == <<kind, state, due, rows, bots, live, running, deaths>>

-----------------------------------------------------------------------------
(* Writes. A row that is gone makes an update of it fail, and so does the  *)
(* deletion of a player the match has recorded moves for.                  *)

MarkCancelled == state' = IF state = "deleted" THEN state ELSE "cancelled"

Without(gone) == [r \in Rows |-> IF r \in gone THEN GoneRow ELSE rows[r]]
MayDelete(gone) == \A r \in gone : ~rows[r].played

(* add_bots_to_game, for the names that were free when the job chose them. *)
SeatingFails(w) ==
  \/ bots # job[w].base
  \/ SeatedCount + job[w].count > MaxPlayers
  \/ state = "deleted"

-----------------------------------------------------------------------------
(* start_game, for whichever worker calls it.                              *)

ReleaseHeld(w) ==
  /\ At(w, "release")
  /\ \/ /\ job[w].snap \in NotStarted
        /\ Becomes(w, [job[w] EXCEPT !.at = "flip", !.marked = {r \in Rows : IsHeld(r)}])
     \/ job[w].snap \notin NotStarted /\ Leaves(w)
  /\ UNCHANGED matchVars

Flip(w) ==
  /\ At(w, "flip")
  /\ \/ /\ state # "deleted" /\ MayDelete(job[w].marked)
        /\ state' = "active" /\ rows' = Without(job[w].marked)
        /\ Becomes(w, [Idle("register") EXCEPT !.then = job[w].then])
     \/ /\ state = "deleted" \/ ~MayDelete(job[w].marked)
        /\ Leaves(w)
        /\ UNCHANGED <<state, rows>>
  /\ UNCHANGED <<kind, due, bots, live, running, deaths>>

Register(w) ==
  /\ At(w, "register")
  /\ running' = TRUE
  /\ Leaves(w)
  /\ UNCHANGED <<kind, state, due, rows, bots, live, deaths>>

StartGame(w) == ReleaseHeld(w) \/ Flip(w) \/ Register(w)

-----------------------------------------------------------------------------
(* The poller: fill_and_start_auto_matches, sweep_held_seats,              *)
(* start_due_games, the watchdog.                                          *)

SelectDueAuto ==
  /\ At(Poller, "fill")
  /\ IF kind = "auto" /\ state \in NotStarted /\ due
       THEN Goes(Poller, "fillread") ELSE Goes(Poller, "sweep")
  /\ UNCHANGED matchVars

(* The match is loaded again, its state is not looked at again.            *)
ReadDueAuto ==
  /\ At(Poller, "fillread")
  /\ LET n == IF MaxPlayers - SeatedCount <= MaxBots THEN MaxPlayers - SeatedCount ELSE MaxBots
         fill == [Idle("fillseat") EXCEPT !.snap = state, !.count = n, !.base = bots,
                                          !.then = "sweep"]
     IN Becomes(Poller,
          CASE state = "deleted" -> Idle("sweep")
            [] state # "deleted" /\ ~(\E r \in Rows : Seated(r)) -> Idle("fillcancel")
            [] state # "deleted" /\ (\E r \in Rows : Seated(r)) /\ n > 0 -> fill
            [] state # "deleted" /\ (\E r \in Rows : Seated(r)) /\ n <= 0 ->
                 [fill EXCEPT !.at = "release", !.count = 0])
  /\ UNCHANGED matchVars

(* When the names are taken already the match is cancelled, unless the     *)
(* other bots came so late that the insert itself fails.                   *)
FillAuto ==
  /\ At(Poller, "fillseat")
  /\ \/ /\ ~SeatingFails(Poller)
        /\ bots' = bots + job[Poller].count
        /\ Goes(Poller, "release")
     \/ /\ SeatingFails(Poller)
        /\ Becomes(Poller, Idle("fillcancel")) \/ Leaves(Poller)
        /\ UNCHANGED bots
  /\ UNCHANGED <<kind, state, due, rows, live, running, deaths>>

CancelAuto ==
  /\ At(Poller, "fillcancel")
  /\ MarkCancelled
  /\ Becomes(Poller, Idle("sweep"))
  /\ UNCHANGED <<kind, due, rows, bots, live, running, deaths>>

(* The seats to confirm and those to release, by the AI's state now.       *)
Online(r) == rows[r].who \in live

ReadHeld ==
  /\ At(Poller, "sweep")
  /\ LET held == {r \in Rows : IsHeld(r) /\ Seated(r)}
     IN Becomes(Poller, [Idle("sweepwrite") EXCEPT
          !.lifted = {r \in held : Online(r)},
          !.marked = {r \in held : ~Online(r) /\ Lapsed(r)}])
  /\ UNCHANGED matchVars

SweepHeld ==
  /\ At(Poller, "sweepwrite")
  /\ LET lifted == job[Poller].lifted
         marked == job[Poller].marked
     IN rows' = IF MayDelete(marked) /\ (\A r \in lifted : Exists(r))
                  THEN [r \in Rows |-> IF r \in lifted THEN [rows[r] EXCEPT !.hold = "lifted"]
                                       ELSE Without(marked)[r]]
                  ELSE rows
  /\ Becomes(Poller, Idle("due"))
  /\ UNCHANGED <<kind, state, due, bots, live, running, deaths>>

LoadDue ==
  /\ At(Poller, "due")
  /\ IF due /\ state \in NotStarted
       THEN Becomes(Poller, [Idle("count") EXCEPT !.snap = state, !.then = "watchdog"])
       ELSE Goes(Poller, "watchdog")
  /\ UNCHANGED matchVars

(* Mutant: an under-filled match is left for the next pass.                *)
DecideDueWaits ==
  /\ At(Poller, "count")
  /\ IF ConfirmedCount >= MinPlayers THEN Goes(Poller, "release") ELSE Goes(Poller, "watchdog")
  /\ UNCHANGED matchVars

DecideDue ==
  /\ At(Poller, "count")
  /\ IF ConfirmedCount >= MinPlayers THEN Goes(Poller, "release") ELSE Goes(Poller, "duecancel")
  /\ UNCHANGED matchVars

CancelDue ==
  /\ At(Poller, "duecancel")
  /\ MarkCancelled
  /\ Leaves(Poller)
  /\ UNCHANGED <<kind, due, rows, bots, live, running, deaths>>

(* Mutant: the watchdog only looks for matches without players.            *)
WatchdogCancelsOnly ==
  /\ At(Poller, "watchdog")
  /\ state' = IF state = "active" /\ SeatedCount = 0 THEN "cancelled" ELSE state
  /\ Goes(Poller, "fill")
  /\ UNCHANGED <<kind, due, rows, bots, live, running, deaths>>

Watchdog ==
  /\ At(Poller, "watchdog")
  /\ \/ /\ state = "active" /\ SeatedCount = 0
        /\ state' = "cancelled" /\ UNCHANGED running
     \/ /\ state = "active" /\ SeatedCount # 0
        /\ running' = TRUE /\ UNCHANGED state
     \/ state # "active" /\ UNCHANGED <<state, running>>
  /\ Goes(Poller, "fill")
  /\ UNCHANGED <<kind, due, rows, bots, live, deaths>>

(* resume_active_games_on_startup.                                         *)
Startup ==
  /\ At(Poller, "startup")
  /\ running' = (state = "active")
  /\ Goes(Poller, "fill")
  /\ UNCHANGED <<kind, state, due, rows, bots, live, deaths>>

PollerStep ==
  \/ SelectDueAuto \/ ReadDueAuto \/ FillAuto \/ CancelAuto \/ ReadHeld \/ SweepHeld
  \/ LoadDue \/ DecideDue \/ CancelDue \/ Watchdog \/ Startup \/ StartGame(Poller)

-----------------------------------------------------------------------------
(* Requests. Each is the next unused worker, with what it has read.        *)

Ask(w, at, who, row) ==
  /\ At(w, "unused") /\ \A v \in 1 .. (w - 1) : ~At(v, "unused")
  /\ Becomes(w, [Idle(at) EXCEPT !.snap = IF at \in {"joining", "holding", "release"}
                                             THEN state ELSE "none",
                                 !.who = who, !.marked = row])
  /\ UNCHANGED matchVars

(* join_submit and play_join. Only a human's seat is counted against the   *)
(* size of the table; a human who is seated gets no second seat.           *)
AskToJoin(w, e) ==
  /\ state \in NotStarted
  /\ ~(\E r \in Rows : Seated(r) /\ rows[r].who = e)
  /\ \/ e \in Humans /\ SeatedCount < MaxPlayers /\ Ask(w, "joining", e, {})
     \/ e \in Agents /\ e \in live /\ Ask(w, "joining", e, {})
     \/ e \in Agents /\ e \notin live /\ Ask(w, "holding", e, {})

(* Mutant: the table has no unique key on the player and the match.        *)
JoinAgain(w) ==
  /\ job[w].at \in {"joining", "holding"} /\ state # "deleted"
  /\ LET free == {r \in Rows : rows[r] = NoRow}
     IN \E r \in free : (\A s \in free : r <= s)
                        /\ rows' = [rows EXCEPT ![r] = NewRow(job[w].who, "never")]
  /\ Leaves(w)
  /\ UNCHANGED <<kind, state, due, bots, live, running, deaths>>

(* The insert, which fails for a player who has left a row behind. In the  *)
(* arena join_submit goes on to start the match with a seat that is not    *)
(* held; play_join, a human's other way in, starts nothing.                *)
Join(w) ==
  /\ job[w].at \in {"joining", "holding"}
  /\ LET e == job[w].who
         free == {r \in Rows : rows[r] = NoRow}
         fails == state = "deleted" \/ (\E r \in Rows : rows[r].who = e)
     IN \/ /\ ~fails
           /\ \E r \in free :
                /\ \A s \in free : r <= s
                /\ rows' = [rows EXCEPT ![r] =
                     NewRow(e, IF At(w, "holding") THEN "held" ELSE "never")]
           /\ \/ kind = "arena" /\ At(w, "joining") /\ Goes(w, "release")
              \/ (kind = "arena" /\ At(w, "joining") => e \in Humans) /\ Leaves(w)
        \/ fails /\ Leaves(w) /\ UNCHANGED rows
  /\ UNCHANGED <<kind, state, due, bots, live, running, deaths>>

RowsOf(e) == {r \in Rows : rows[r].who = e}

(* leave_match and play_leave: a seat in a running match stays.            *)
AskToLeave(w, e) ==
  /\ state # "active"
  /\ \E r \in RowsOf(e) : Seated(r) /\ Ask(w, "leaving", e, {r})

Leave(w) ==
  /\ At(w, "leaving")
  /\ rows' = [r \in Rows |-> IF r \in job[w].marked /\ Exists(r)
                               THEN [rows[r] EXCEPT !.left = TRUE] ELSE rows[r]]
  /\ Leaves(w)
  /\ UNCHANGED <<kind, state, due, bots, live, running, deaths>>

(* seat_connect_status: the countdown page of a held seat.                 *)
AskForSeat(w, e) ==
  /\ \E r \in RowsOf(e) :
       /\ IsHeld(r)
       /\ \/ Online(r) /\ Ask(w, "lifting", e, {r})
          \/ ~Online(r) /\ Lapsed(r) /\ Ask(w, "dropping", e, {r})

AnswerForSeat(w) ==
  /\ job[w].at \in {"lifting", "dropping"}
  /\ LET mine == {r \in job[w].marked : Exists(r)}
     IN rows' = IF At(w, "lifting")
                  THEN [r \in Rows |-> IF r \in mine THEN [rows[r] EXCEPT !.hold = "lifted"]
                                       ELSE rows[r]]
                  ELSE IF MayDelete(mine) THEN Without(mine) ELSE rows
  /\ Leaves(w)
  /\ UNCHANGED <<kind, state, due, bots, live, running, deaths>>

(* start_match_submit: the only player of a match starts it.               *)
AskToStart(w, e) ==
  /\ state \in NotStarted
  /\ \E r \in RowsOf(e) : Confirmed(r)
  /\ \A r \in Rows : Seated(r) => rows[r].who = e
  /\ ConfirmedCount + MaxPlayers - SeatedCount >= MinPlayers
  /\ Ask(w, "refresh", e, {})

(* Mutant: the start goes by the match that the page has loaded.           *)
RefreshSkipped(w) ==
  /\ At(w, "refresh")
  /\ Becomes(w, [job[w] EXCEPT !.at = "choose", !.snap = "registering"])
  /\ UNCHANGED matchVars

Refresh(w) ==
  /\ At(w, "refresh")
  /\ IF state \in NotStarted
       THEN Becomes(w, [job[w] EXCEPT !.at = "choose", !.snap = state])
       ELSE Leaves(w)
  /\ UNCHANGED matchVars

ChooseBots(w) ==
  /\ At(w, "choose")
  /\ LET n == IF SeatedCount < MaxPlayers THEN MaxPlayers - SeatedCount ELSE 0
     IN Becomes(w, [job[w] EXCEPT !.at = IF n = 0 THEN "release" ELSE "seat",
                                  !.count = n, !.base = bots])
  /\ UNCHANGED matchVars

SeatBots(w) ==
  /\ At(w, "seat")
  /\ \/ /\ ~SeatingFails(w)
        /\ bots' = bots + job[w].count
        /\ Goes(w, "release")
     \/ SeatingFails(w) /\ Leaves(w) /\ UNCHANGED bots
  /\ UNCHANGED <<kind, state, due, rows, live, running, deaths>>

(* add_bots_submit: the owner or an administrator adds some bots to the    *)
(* match. A roster that does not fit the table, or whose names are taken   *)
(* by now, is refused.                                                     *)
AskToAddBots(w) == state \in NotStarted /\ Ask(w, "adding", Nobody, {})

AddBots(w) ==
  /\ At(w, "adding")
  /\ \/ /\ state # "deleted"
        /\ \E n \in 1 .. MaxPlayers : SeatedCount + n <= MaxPlayers /\ bots' = bots + n
     \/ UNCHANGED bots
  /\ Leaves(w)
  /\ UNCHANGED <<kind, state, due, rows, live, running, deaths>>

(* cancel_match, by an administrator.                                      *)
AskToCancel(w) == state \in NotStarted \cup {"active"} /\ Ask(w, "cancelling", Nobody, {})

Cancel(w) ==
  /\ At(w, "cancelling")
  /\ MarkCancelled
  /\ IF state = "deleted" THEN Leaves(w) ELSE Goes(w, "stopping")
  /\ UNCHANGED <<kind, due, rows, bots, live, running, deaths>>

Stop(w) ==
  /\ At(w, "stopping")
  /\ running' = FALSE
  /\ Leaves(w)
  /\ UNCHANGED <<kind, state, due, rows, bots, live, deaths>>

(* delete_match; an administrator may delete a match in any state.         *)
AskToDelete(w) == state # "deleted" /\ Ask(w, "deleting", Nobody, {})

StopToDelete(w) ==
  /\ At(w, "deleting")
  /\ running' = FALSE
  /\ Goes(w, "erasing")
  /\ UNCHANGED <<kind, state, due, rows, bots, live, deaths>>

Erase(w) ==
  /\ At(w, "erasing")
  /\ state' = "deleted" /\ rows' = Without(Rows) /\ bots' = 0
  /\ Leaves(w)
  /\ UNCHANGED <<kind, due, live, running, deaths>>

(* cancel_overdue_unfilled_games, by a page of the lobby.                  *)
ViewLobby(w) ==
  /\ due /\ state \in NotStarted /\ ConfirmedCount < MinPlayers
  /\ Ask(w, "tidying", Nobody, {})

TidyLobby(w) ==
  /\ At(w, "tidying")
  /\ MarkCancelled
  /\ Leaves(w)
  /\ UNCHANGED <<kind, due, rows, bots, live, running, deaths>>

(* start_game from the page of an administrator.                           *)
AdminStarts(w) == state # "deleted" /\ Ask(w, "release", Nobody, {})

Request(w) ==
  \/ \E e \in Entrants :
       AskToJoin(w, e) \/ AskToLeave(w, e) \/ AskForSeat(w, e) \/ AskToStart(w, e)
  \/ AskToAddBots(w) \/ AskToCancel(w) \/ AskToDelete(w) \/ ViewLobby(w) \/ AdminStarts(w)
  \/ Join(w) \/ Leave(w) \/ AnswerForSeat(w)
  \/ Refresh(w) \/ ChooseBots(w) \/ SeatBots(w) \/ AddBots(w) \/ StartGame(w)
  \/ Cancel(w) \/ Stop(w) \/ StopToDelete(w) \/ Erase(w) \/ TidyLobby(w)

-----------------------------------------------------------------------------
(* The environment.                                                        *)

Tick == ~due /\ kind # "arena" /\ due' = TRUE
        /\ UNCHANGED <<kind, state, rows, bots, live, running, job, deaths>>

Lapse(r) ==
  /\ rows[r].hold = "held"
  /\ rows' = [rows EXCEPT ![r].hold = "lapsed"]
  /\ UNCHANGED <<kind, state, due, bots, live, running, job, deaths>>

GoesOnOrOff(a) ==
  /\ live' = IF a \in live THEN live \ {a} ELSE live \cup {a}
  /\ UNCHANGED <<kind, state, due, rows, bots, running, job, deaths>>

(* The loop resolves a turn: every player of the match has a row in it.    *)
Play ==
  /\ running /\ state # "deleted"
  /\ rows' = [r \in Rows |-> IF Exists(r) THEN [rows[r] EXCEPT !.played = TRUE] ELSE rows[r]]
  /\ rows' # rows
  /\ UNCHANGED <<kind, state, due, bots, live, running, job, deaths>>

ProcessDies ==
  /\ deaths < MaxDeaths /\ deaths' = deaths + 1
  /\ running' = FALSE
  /\ job' = [w \in Workers |-> IF w = Poller THEN Idle("startup")
                               ELSE IF At(w, "unused") THEN job[w] ELSE Idle("over")]
  /\ UNCHANGED <<kind, state, due, rows, bots, live>>

TaskDies ==
  /\ deaths < MaxDeaths /\ deaths' = deaths + 1
  /\ running /\ running' = FALSE
  /\ UNCHANGED <<kind, state, due, rows, bots, live, job>>

Next ==
  \/ PollerStep
  \/ \E w \in Requests : Request(w)
  \/ Tick \/ (\E r \in Rows : Lapse(r)) \/ (\E a \in Agents : GoesOnOrOff(a))
  \/ Play \/ ProcessDies \/ TaskDies

Spec == Init /\ [][Next]_vars

(* The event loop runs the poller, and time passes. Nobody has to ask for  *)
(* anything.                                                               *)
FairSpec == Spec /\ WF_vars(PollerStep) /\ WF_vars(Tick)

-----------------------------------------------------------------------------
(* Properties.                                                             *)

(* A seat that was live when it was taken is only given up by its player,  *)
(* or with the whole match, however old the lists of held seats are that   *)
(* the sweep, the countdown page and a start work on. A seat that was held *)
(* and then confirmed goes only on a list made while it was still held: if *)
(* none is under way when the AI's page says that the seat is locked, the  *)
(* seat stays and gets on no list any more.                                *)
Releasing == {"flip", "sweepwrite", "dropping"}
ToRelease(r) == \E w \in Workers : job[w].at \in Releasing /\ r \in job[w].marked

ConfirmedStays ==
  [][\A r \in Rows :
       /\ Exists(r) /\ rows[r].hold = "never"
            => (Exists(r) /\ rows[r].hold = "never")' \/ state' = "deleted"
       /\ Exists(r) /\ rows[r].hold = "lifted" /\ ~ToRelease(r)
            => \/ (Exists(r) /\ rows[r].hold = "lifted" /\ ~ToRelease(r))'
               \/ state' = "deleted"]_vars

(* A cancellation is only undone by a start that took its last look at the *)
(* row before: with none under way the match never starts any more.        *)
StartUnderWay == \E w \in Workers : job[w].snap \in NotStarted

CancelHolds ==
  [][state = "cancelled" /\ ~StartUnderWay
       => state' \in {"cancelled", "deleted"} /\ ~StartUnderWay']_vars

(* start_due_games: "a game must never sit past its start time unresolved".*)
DueIsDecided == due /\ state \in NotStarted ~> state \notin NotStarted

(* A match that was started gets its loop, whoever dies in between.        *)
ActiveIsDriven == state = "active" ~> running \/ state # "active"
=============================================================================
