------------------------------ MODULE TurnLoop ------------------------------
(***************************************************************************)
(* One running match of a simultaneous game: its rows in the database, the *)
(* asyncio task that drives it (SimultaneousDriver), the background poller *)
(* that restarts and heals it, the players who answer, and the             *)
(* administrator who may cancel it.                                        *)
(*                                                                         *)
(* An action is the code between two awaits that commits at most once.     *)
(* Everything a task holds in memory (its position, the stale Match row)   *)
(* is lost when the task or the process dies; the rows are not.            *)
(*                                                                         *)
(* Data.  A round score is a sum of per-turn deltas, so what matters about *)
(* it is which turns it counts: roundScore[<<r, k>>] says how many times   *)
(* the deltas of turn k of round r are in the players' current_round_score,*)
(* totalScore[<<r, k>>] how many times they are in total_round_score.      *)
(* Resolving, zeroing and awarding do the same to every player of the      *)
(* match, so one counter per turn stands for all of them.                  *)
(***************************************************************************)
EXTENDS Integers, FiniteSets

CONSTANTS
  TotalRounds,     \* matches.total_rounds
  TurnsPerRound,   \* matches.turns_per_round
  Seats,           \* the player rows of the match
  Bots,            \* the seats the server plays for
  Poison,          \* the <<round, turn, phase>> whose bot decision always raises
  MayCancel,       \* may an administrator cancel the match?
  MayWipe,         \* may a migration at startup remove the player rows?
  MaxFaults        \* bound: crashes of the loop, a heal or the process, wedges

Rounds == 1 .. TotalRounds
Turns == 1 .. TurnsPerRound
TurnIds == Rounds \X Turns
Phases == {"talk", "act"}
Terminal == {"COMPLETED", "CANCELLED"}

ASSUME GridAssumption ==
  TotalRounds \in Nat \ {0} /\ TurnsPerRound \in Nat \ {0}
ASSUME SeatAssumption == IsFiniteSet(Seats) /\ Bots \subseteq Seats
ASSUME PoisonAssumption == Poison \subseteq Rounds \X Turns \X Phases
ASSUME BoundAssumption ==
  MayCancel \in BOOLEAN /\ MayWipe \in BOOLEAN /\ MaxFaults \in Nat

VARIABLES
  (* rows *)
  state,          \* matches.state
  currentRound,   \* matches.current_round, 0 for NULL
  currentTurn,    \* matches.current_turn, 0 for NULL
  roundsAwarded,  \* matches.rounds_awarded
  completedAt,    \* is matches.completed_at set?
  phase,          \* turns.phase of each turn, "none" while there is no row
  talked,         \* is turns.talk_resolved_at set?
  resolved,       \* is turns.resolved_at set?
  clock,          \* the open turn's deadline_at: running, due, or overdue
                  \* (past it by OVERDUE_TURN_GRACE_SECONDS)
  seated,         \* players with left_at NULL
  messages,       \* seats with a genuine message in the open turn
  submissions,    \* seats with a genuine submission in the open turn
  roundScore,     \* turns counted in players.current_round_score
  totalScore,     \* turns counted in players.total_round_score
  (* the loop task *)
  pc,             \* its next step; stopped = no task, or a finished one
  round,          \* round_num of run_match
  turn,           \* turn_num of _run_round
  reset,          \* reset_scores of _run_round
  (* the poller *)
  poller,         \* its next step; down = the process is not running
  frozen,         \* the turn the sweeper is healing
  (* the environment *)
  admin,          \* the cancel request
  faults

matchVars  == <<state, currentRound, currentTurn, roundsAwarded, completedAt>>
turnVars   == <<phase, talked, resolved, clock>>
answerVars == <<seated, messages, submissions>>
scoreVars  == <<roundScore, totalScore>>
loopVars   == <<pc, round, turn, reset>>
pollerVars == <<poller, frozen>>
vars == <<matchVars, turnVars, answerVars, scoreVars, loopVars, pollerVars,
          admin, faults>>

OpenTurnSteps == {"botsTalk", "waitTalk", "finalizeTalk", "beginAct",
                  "botsAct", "waitAct", "resolveTurn"}
LoopSteps == OpenTurnSteps \cup
  {"boot", "startRound", "openTurn", "awardRound", "finalize", "wedged", "stopped"}
HealSteps == {"load", "healTalk", "healAct", "healFlip", "flipResolve",
              "healResolve", "restart"}
PollerSteps == HealSteps \cup
  {"down", "watchdog", "cancelPlayerless", "restartDead", "sweep", "stopTask"}

TypeOK ==
  /\ state \in {"ACTIVE"} \cup Terminal
  /\ currentRound \in 0 .. TotalRounds
  /\ currentTurn \in 0 .. TurnsPerRound
  /\ roundsAwarded \in 0 .. TotalRounds
  /\ completedAt \in BOOLEAN
  /\ phase \in [TurnIds -> {"none"} \cup Phases]
  /\ talked \in [TurnIds -> BOOLEAN]
  /\ resolved \in [TurnIds -> BOOLEAN]
  /\ clock \in {"running", "due", "overdue"}
  /\ seated \subseteq Seats
  /\ messages \subseteq Seats
  /\ submissions \subseteq Seats
  /\ roundScore \in [TurnIds -> Nat]
  /\ totalScore \in [TurnIds -> Nat]
  /\ pc \in LoopSteps
  /\ round \in Rounds
  /\ turn \in Turns
  /\ reset \in BOOLEAN
  /\ poller \in PollerSteps
  /\ frozen \in TurnIds
  /\ admin \in {"idle", "checked", "committed", "done"}
  /\ faults \in 0 .. MaxFaults

(* A match that start_game has just made ACTIVE: no turn is open yet, the  *)
(* task has been created and has not run.                                  *)
Init ==
  /\ state = "ACTIVE"
  /\ currentRound = 0 /\ currentTurn = 0
  /\ roundsAwarded = 0
  /\ completedAt = FALSE
  /\ phase = [t \in TurnIds |-> "none"]
  /\ talked = [t \in TurnIds |-> FALSE]
  /\ resolved = [t \in TurnIds |-> FALSE]
  /\ clock = "running"
  /\ seated = Seats /\ messages = {} /\ submissions = {}
  /\ roundScore = [t \in TurnIds |-> 0]
  /\ totalScore = [t \in TurnIds |-> 0]
  /\ pc = "boot" /\ round = 1 /\ turn = 1 /\ reset = TRUE
  /\ poller = "watchdog" /\ frozen = <<1, 1>>
  /\ admin = "idle"
  /\ faults = 0

-----------------------------------------------------------------------------
(* Writes to the turn rows that the loop and the sweeper share.            *)

(* resolver.finalize_talk_phase: seats that said nothing get a defaulted   *)
(* message, which is not a genuine one.                                    *)
FinalizeTalkPhase(t) ==
  /\ talked' = [talked EXCEPT ![t] = TRUE]
  /\ UNCHANGED <<phase, resolved, clock>>

(* _begin_act_phase: a fresh deadline, the same token.                     *)
BeginActPhase(t) ==
  /\ phase' = [phase EXCEPT ![t] = "act"]
  /\ clock' = "running"
  /\ UNCHANGED <<talked, resolved>>

(* scoring.resolve_turn: seats without a submission are defaulted, every   *)
(* player's delta goes into current_round_score, the turn is stamped.      *)
ResolveTurn(t) ==
  /\ resolved' = [resolved EXCEPT ![t] = TRUE]
  /\ roundScore' = [roundScore EXCEPT ![t] = @ + 1]
  /\ UNCHANGED <<phase, talked, clock, totalScore>>

(* SchedulerRegistry.start does nothing while a task runs; a finished or   *)
(* cancelled one does not count.                                           *)
StartTaskDone == pc' = pc
StartTask == pc' = (IF pc = "stopped" THEN "boot" ELSE pc)

(* SchedulerRegistry.stop: the cancelled task never reaches its next step. *)
StopTaskDropped == pc' = pc
StopTask == pc' = "stopped"

(* _all_messaged and _all_submitted compare two counts.                    *)
AnyAnswered(answers) == seated # {} /\ answers # {}
AllAnswered(answers) ==
  seated # {} /\ Cardinality(answers) >= Cardinality(seated)

CurrentTurnId == <<currentRound, currentTurn>>
TurnIsOpen ==
  CurrentTurnId \in TurnIds /\ phase[CurrentTurnId] # "none" /\ ~resolved[CurrentTurnId]

-----------------------------------------------------------------------------
(* The loop task.                                                          *)

Goto(step) == pc' = step /\ UNCHANGED <<round, turn, reset>>

(* _run_game and the head of run_match: a match no longer ACTIVE is left   *)
(* alone; otherwise the first round and turn come from the stored pointer. *)
BootSkips ==
  /\ pc = "boot"
  /\ \/ /\ state # "ACTIVE"
        /\ Goto("stopped")
     \/ /\ state = "ACTIVE"
        /\ round' = (IF currentRound = 0 THEN 1 ELSE currentRound)
        /\ turn' = (IF currentTurn < TurnsPerRound THEN currentTurn + 1 ELSE 1)
        /\ reset' = (turn' = 1)
        /\ pc' = "startRound"
  /\ UNCHANGED <<matchVars, turnVars, answerVars, scoreVars, pollerVars, admin, faults>>

Boot ==
  /\ pc = "boot"
  /\ \/ /\ state # "ACTIVE"
        /\ Goto("stopped")
     \/ /\ state = "ACTIVE"
        /\ round' = (IF currentRound = 0 THEN 1 ELSE currentRound)
        /\ turn' = (IF currentTurn = 0 THEN 1 ELSE currentTurn)
        /\ reset' = (turn' = 1)
        /\ pc' = "startRound"
  /\ UNCHANGED <<matchVars, turnVars, answerVars, scoreVars, pollerVars, admin, faults>>

(* The head of _run_round.                                                 *)
StartRound ==
  /\ pc = "startRound"
  /\ roundScore' = IF reset THEN [t \in TurnIds |-> 0] ELSE roundScore
  /\ Goto("openTurn")
  /\ UNCHANGED <<matchVars, turnVars, answerVars, totalScore, pollerVars, admin, faults>>

(* The for loop of _run_round.                                             *)
AfterTurnShort ==
  IF turn + 1 < TurnsPerRound
    THEN pc' = "openTurn" /\ turn' = turn + 1 /\ UNCHANGED <<round, reset>>
    ELSE Goto("awardRound")
AfterTurn ==
  IF turn < TurnsPerRound
    THEN pc' = "openTurn" /\ turn' = turn + 1 /\ UNCHANGED <<round, reset>>
    ELSE Goto("awardRound")

(* _open_turn gets or creates the row and moves the pointer; _run_turn then *)
(* picks up where the row says the turn is.                                *)
OpenNewTurn ==
  /\ phase[<<round, turn>>] = "none"
  /\ phase' = [phase EXCEPT ![<<round, turn>>] = "talk"]
  /\ clock' = "running"
  /\ messages' = {} /\ submissions' = {}
  /\ Goto("botsTalk")
  /\ UNCHANGED <<talked, resolved, seated>>

ReuseTurn ==
  /\ phase[<<round, turn>>] # "none"
  /\ \/ resolved[<<round, turn>>] /\ AfterTurn
     \/ ~resolved[<<round, turn>>] /\ ~talked[<<round, turn>>] /\ Goto("botsTalk")
     \/ /\ ~resolved[<<round, turn>>] /\ talked[<<round, turn>>]
        /\ Goto(IF phase[<<round, turn>>] = "act" THEN "botsAct" ELSE "beginAct")
  /\ UNCHANGED <<turnVars, answerVars>>

OpenTurn ==
  /\ pc = "openTurn"
  /\ currentRound' = round /\ currentTurn' = turn
  /\ OpenNewTurn \/ ReuseTurn
  /\ UNCHANGED <<state, roundsAwarded, completedAt, scoreVars, pollerVars, admin, faults>>

(* auto_submit_bot_phase: the seats the server plays for answer at once, in *)
(* one commit; a decision that raises takes the task down instead.         *)
Raises(ph) == Bots \cap seated # {} /\ <<round, turn, ph>> \in Poison

BotsTalk ==
  /\ pc = "botsTalk"
  /\ \/ /\ ~Raises("talk")
        /\ messages' = messages \cup (Bots \cap seated)
        /\ Goto("waitTalk")
     \/ /\ Raises("talk")
        /\ Goto("stopped") /\ UNCHANGED messages
  /\ UNCHANGED <<matchVars, turnVars, seated, submissions, scoreVars, pollerVars,
                 admin, faults>>

(* _wait_for_messages.                                                     *)
WaitTalk ==
  /\ pc = "waitTalk"
  /\ clock # "running" \/ AllAnswered(messages)
  /\ Goto("finalizeTalk")
  /\ UNCHANGED <<matchVars, turnVars, answerVars, scoreVars, pollerVars, admin, faults>>

FinalizeTalk ==
  /\ pc = "finalizeTalk"
  /\ FinalizeTalkPhase(<<round, turn>>)
  /\ Goto("beginAct")
  /\ UNCHANGED <<matchVars, answerVars, scoreVars, pollerVars, admin, faults>>

BeginAct ==
  /\ pc = "beginAct"
  /\ BeginActPhase(<<round, turn>>)
  /\ Goto("botsAct")
  /\ UNCHANGED <<matchVars, answerVars, scoreVars, pollerVars, admin, faults>>

BotsAct ==
  /\ pc = "botsAct"
  /\ \/ /\ ~Raises("act")
        /\ submissions' = submissions \cup (Bots \cap seated)
        /\ Goto("waitAct")
     \/ /\ Raises("act")
        /\ Goto("stopped") /\ UNCHANGED submissions
  /\ UNCHANGED <<matchVars, turnVars, seated, messages, scoreVars, pollerVars,
                 admin, faults>>

(* _wait_for_turn.                                                         *)
WaitAct ==
  /\ pc = "waitAct"
  /\ clock # "running" \/ AllAnswered(submissions)
  /\ Goto("resolveTurn")
  /\ UNCHANGED <<matchVars, turnVars, answerVars, scoreVars, pollerVars, admin, faults>>

LoopResolves ==
  /\ pc = "resolveTurn"
  /\ ResolveTurn(<<round, turn>>)
  /\ AfterTurn
  /\ UNCHANGED <<matchVars, answerVars, pollerVars, admin, faults>>

(* The for loop of run_match.                                              *)
AfterRoundPast ==
  IF round <= TotalRounds
    THEN pc' = "startRound" /\ round' = round + 1 /\ turn' = 1 /\ reset' = TRUE
    ELSE Goto("finalize")
AfterRound ==
  IF round < TotalRounds
    THEN pc' = "startRound" /\ round' = round + 1 /\ turn' = 1 /\ reset' = TRUE
    ELSE Goto("finalize")

(* award_round_winners.                                                    *)
AwardRoundAgain ==
  /\ pc = "awardRound"
  /\ roundsAwarded' = round
  /\ totalScore' = [t \in TurnIds |-> totalScore[t] + roundScore[t]]
  /\ AfterRound
  /\ UNCHANGED <<state, currentRound, currentTurn, completedAt, turnVars, answerVars,
                 roundScore, pollerVars, admin, faults>>

AwardRound ==
  /\ pc = "awardRound"
  /\ \/ round <= roundsAwarded /\ UNCHANGED <<roundsAwarded, totalScore>>
     \/ /\ round > roundsAwarded
        /\ roundsAwarded' = round
        /\ totalScore' = [t \in TurnIds |-> totalScore[t] + roundScore[t]]
  /\ AfterRound
  /\ UNCHANGED <<state, currentRound, currentTurn, completedAt, turnVars, answerVars,
                 roundScore, pollerVars, admin, faults>>

(* finalize_game asserts the transition from the Match row this session    *)
(* loaded in _run_game, which was ACTIVE and is never refreshed: the       *)
(* assertion cannot fail, whatever the row says by now.                    *)
Finalize ==
  /\ pc = "finalize"
  /\ state' = "COMPLETED" /\ completedAt' = TRUE
  /\ Goto("stopped")
  /\ UNCHANGED <<currentRound, currentTurn, roundsAwarded, turnVars, answerVars,
                 scoreVars, pollerVars, admin, faults>>

LoopStep ==
  \/ Boot \/ StartRound \/ OpenTurn
  \/ BotsTalk \/ WaitTalk \/ FinalizeTalk
  \/ BeginAct \/ BotsAct \/ WaitAct \/ LoopResolves
  \/ AwardRound \/ Finalize

-----------------------------------------------------------------------------
(* The poller: the watchdog, then the overdue-turn sweeper, for ever.      *)

PollerGoto(step) == poller' = step /\ UNCHANGED frozen

(* _watchdog, first half: the ACTIVE rows are read, and one without seated *)
(* players is cancelled by a later commit. No task is stopped.             *)
WatchdogScan ==
  /\ poller = "watchdog"
  /\ PollerGoto(IF state = "ACTIVE" /\ seated = {} THEN "cancelPlayerless"
                                                   ELSE "restartDead")
  /\ UNCHANGED <<matchVars, turnVars, answerVars, scoreVars, loopVars, admin, faults>>

WatchdogCancels ==
  /\ poller = "cancelPlayerless"
  /\ state' = "CANCELLED"
  /\ PollerGoto("restartDead")
  /\ UNCHANGED <<currentRound, currentTurn, roundsAwarded, completedAt, turnVars,
                 answerVars, scoreVars, loopVars, admin, faults>>

(* _watchdog, second half.                                                 *)
WatchdogRestarts ==
  /\ poller = "restartDead"
  /\ IF state = "ACTIVE" THEN StartTask ELSE UNCHANGED pc
  /\ PollerGoto("sweep")
  /\ UNCHANGED <<matchVars, turnVars, answerVars, scoreVars, round, turn, reset,
                 admin, faults>>

(* _find_frozen_turns.                                                     *)
FindFrozen ==
  /\ poller = "sweep"
  /\ \/ /\ state = "ACTIVE" /\ TurnIsOpen /\ clock = "overdue"
        /\ poller' = "stopTask" /\ frozen' = CurrentTurnId
     \/ /\ ~(state = "ACTIVE" /\ TurnIsOpen /\ clock = "overdue")
        /\ PollerGoto("watchdog")
  /\ UNCHANGED <<matchVars, turnVars, answerVars, scoreVars, loopVars, admin, faults>>

HealStops ==
  /\ poller = "stopTask"
  /\ StopTask
  /\ PollerGoto("load")
  /\ UNCHANGED <<matchVars, turnVars, answerVars, scoreVars, round, turn, reset,
                 admin, faults>>

(* _load_frozen_state: the freeze is verified again in a fresh session.    *)
StillFrozen ==
  /\ state = "ACTIVE"
  /\ phase[frozen] # "none" /\ ~resolved[frozen]
  /\ clock = "overdue"

HealLoads ==
  /\ poller = "load"
  /\ \/ ~StillFrozen /\ PollerGoto("restart")
     \/ StillFrozen /\ ~talked[frozen] /\ PollerGoto("healTalk")
     \/ /\ StillFrozen /\ talked[frozen]
        /\ PollerGoto(IF phase[frozen] = "act" THEN "healResolve" ELSE "healFlip")
  /\ UNCHANGED <<matchVars, turnVars, answerVars, scoreVars, loopVars, admin, faults>>

(* A turn stuck in talk: finalize_talk_phase, then _begin_act_phase.       *)
HealTalk ==
  /\ poller = "healTalk"
  /\ FinalizeTalkPhase(frozen)
  /\ PollerGoto("healAct")
  /\ UNCHANGED <<matchVars, answerVars, scoreVars, loopVars, admin, faults>>

(* _begin_act_phase ends the heal of a turn stuck in talk; between talk    *)
(* resolution and the phase flip it only prepares the resolution.          *)
HealBeginsAct ==
  /\ poller \in {"healAct", "healFlip"}
  /\ BeginActPhase(frozen)
  /\ PollerGoto(IF poller = "healAct" THEN "restart" ELSE "flipResolve")
  /\ UNCHANGED <<matchVars, answerVars, scoreVars, loopVars, admin, faults>>

(* A turn stuck in act: module.resolve_turn.                               *)
HealResolves ==
  /\ poller \in {"flipResolve", "healResolve"}
  /\ ResolveTurn(frozen)
  /\ PollerGoto("restart")
  /\ UNCHANGED <<matchVars, answerVars, loopVars, admin, faults>>

HealRestarts ==
  /\ poller = "restart"
  /\ StartTask
  /\ PollerGoto("watchdog")
  /\ UNCHANGED <<matchVars, turnVars, answerVars, scoreVars, round, turn, reset,
                 admin, faults>>

PollerStep ==
  \/ WatchdogScan \/ WatchdogCancels \/ WatchdogRestarts
  \/ FindFrozen \/ HealStops \/ HealLoads
  \/ HealTalk \/ HealBeginsAct \/ HealResolves \/ HealRestarts

-----------------------------------------------------------------------------
(* Players, time, the administrator, and what goes wrong.                  *)

(* submit_talk and submit_action of a live player, once per phase. A       *)
(* connector fallback is not a genuine answer and changes nothing here.    *)
PlayerAnswers(s) ==
  /\ poller # "down"
  /\ s \in seated \ Bots
  /\ state = "ACTIVE" /\ TurnIsOpen /\ clock = "running"
  /\ \/ /\ phase[CurrentTurnId] = "talk"
        /\ messages' = messages \cup {s} /\ UNCHANGED submissions
     \/ /\ phase[CurrentTurnId] = "act"
        /\ submissions' = submissions \cup {s} /\ UNCHANGED messages
  /\ UNCHANGED <<matchVars, turnVars, seated, scoreVars, loopVars, pollerVars,
                 admin, faults>>

Tick ==
  /\ TurnIsOpen
  /\ \/ clock = "running" /\ clock' = "due"
     \/ clock = "due" /\ clock' = "overdue"
  /\ UNCHANGED <<matchVars, phase, talked, resolved, answerVars, scoreVars, loopVars,
                 pollerVars, admin, faults>>

(* The cancel routes check the state, cancel_match commits, and only then  *)
(* stops the task: three steps of one request.                             *)
AdminStopsFirst ==
  /\ MayCancel /\ poller # "down"
  /\ \/ admin = "idle" /\ state \notin Terminal /\ admin' = "checked" /\ UNCHANGED <<state, pc>>
     \/ admin = "checked" /\ StopTask /\ admin' = "committed" /\ UNCHANGED state
     \/ admin = "committed" /\ state' = "CANCELLED" /\ admin' = "done" /\ UNCHANGED pc
  /\ UNCHANGED <<currentRound, currentTurn, roundsAwarded, completedAt, turnVars,
                 answerVars, scoreVars, round, turn, reset, pollerVars, faults>>

AdminCancels ==
  /\ MayCancel /\ poller # "down"
  /\ \/ admin = "idle" /\ state \notin Terminal /\ admin' = "checked" /\ UNCHANGED <<state, pc>>
     \/ admin = "checked" /\ state' = "CANCELLED" /\ admin' = "committed" /\ UNCHANGED pc
     \/ admin = "committed" /\ StopTask /\ admin' = "done" /\ UNCHANGED state
  /\ UNCHANGED <<currentRound, currentTurn, roundsAwarded, completedAt, turnVars,
                 answerVars, scoreVars, round, turn, reset, pollerVars, faults>>

Fault == faults < MaxFaults /\ faults' = faults + 1

(* Any exception in the loop, a lost unique-key race for instance:         *)
(* _run_game_guarded records it and the task is over.                      *)
LoopCrashes ==
  /\ Fault
  /\ pc \notin {"wedged", "stopped"}
  /\ Goto("stopped")
  /\ UNCHANGED <<matchVars, turnVars, answerVars, scoreVars, pollerVars, admin>>

(* A task that is alive and gets nowhere, while a turn is open: a stuck    *)
(* task is found by the turn that stays open past its deadline. One stuck  *)
(* anywhere else is found by nobody, and is left out.                      *)
LoopWedges ==
  /\ Fault
  /\ pc \in OpenTurnSteps
  /\ Goto("wedged")
  /\ UNCHANGED <<matchVars, turnVars, answerVars, scoreVars, pollerVars, admin>>

(* An exception in _heal_match: sweep_overdue_turns records it and moves   *)
(* on, without restarting the task.                                        *)
HealFails ==
  /\ Fault
  /\ poller \in HealSteps
  /\ PollerGoto("watchdog")
  /\ UNCHANGED <<matchVars, turnVars, answerVars, scoreVars, loopVars, admin>>

(* The process dies with its tasks and its requests.                       *)
ProcessDies ==
  /\ Fault
  /\ poller # "down"
  /\ PollerGoto("down")
  /\ Goto("stopped")
  /\ admin' = (IF admin = "checked" THEN "idle"
               ELSE IF admin = "committed" THEN "done" ELSE admin)
  /\ UNCHANGED <<matchVars, turnVars, answerVars, scoreVars>>

(* lifespan: migrations, resume_active_games_on_startup, start_poller. The *)
(* watchdog expects migrations that wipe the players table.                *)
Startup ==
  /\ poller = "down"
  /\ \/ UNCHANGED answerVars
     \/ MayWipe /\ seated' = {} /\ messages' = {} /\ submissions' = {}
  /\ IF state = "ACTIVE" THEN StartTask ELSE UNCHANGED pc
  /\ PollerGoto("watchdog")
  /\ UNCHANGED <<matchVars, turnVars, scoreVars, round, turn, reset, admin, faults>>

Next ==
  \/ LoopStep
  \/ PollerStep
  \/ \E s \in Seats : PlayerAnswers(s)
  \/ Tick
  \/ AdminCancels
  \/ LoopCrashes \/ LoopWedges \/ HealFails \/ ProcessDies
  \/ Startup

Spec == Init /\ [][Next]_vars

(* The event loop runs every ready task, time passes, and a dead process   *)
(* is restarted by the platform. No player has to answer.                  *)
Fairness ==
  /\ WF_vars(LoopStep)
  /\ WF_vars(PollerStep)
  /\ WF_vars(Tick)
  /\ WF_vars(Startup)

FairSpec == Spec /\ Fairness

-----------------------------------------------------------------------------
(* Properties.                                                             *)

Earlier(e, t) == e[1] < t[1] \/ (e[1] = t[1] /\ e[2] < t[2])

(* However often the loop is restarted or healed, a turn is opened only    *)
(* when every earlier turn of the match is resolved and every earlier      *)
(* round is awarded: get-or-create in _open_turn, the early return of      *)
(* _run_turn and rounds_awarded add up to one pass over the grid.          *)
TurnsInOrder ==
  \A t \in TurnIds : phase[t] # "none" =>
    /\ roundsAwarded >= t[1] - 1
    /\ \A e \in TurnIds : Earlier(e, t) => resolved[e]

(* No turn's points are ever folded twice into total_round_score, and      *)
(* every turn but the first of its round is folded exactly once: neither a *)
(* resumed loop nor the sweeper counts or drops them (award_round_winners  *)
(* claims to be idempotent; overdue_sweeper claims never to re-score).     *)
CountedOnce ==
  \A r \in Rounds, k \in Turns :
    /\ totalScore[<<r, k>>] <= 1
    /\ totalScore[<<r, k>>] = 1 => r <= roundsAwarded
    /\ r <= roundsAwarded /\ k > 1 => totalScore[<<r, k>>] = 1

(* The sweeper and the loop never drive the same turn at the same time:    *)
(* the reason _heal_match stops the task before it touches the turn.       *)
HealNeverRacesLoop ==
  poller \in HealSteps => pc = "stopped"

(* Committing the cancellation before stopping the task, as cancel_match   *)
(* insists, leaves nothing that brings the match back: no later watchdog   *)
(* pass or heal makes it run beyond _run_game's first check.               *)
CancelSticks ==
  admin = "done" => state \in Terminal /\ pc \in {"boot", "stopped"}

(* A turn is resolved before its act deadline only when every seated       *)
(* player has answered. The sweeper makes the one exception: a turn whose  *)
(* task died between talk resolution and the phase flip gets a fresh act   *)
(* deadline and is resolved without waiting for it.                        *)
NoEarlyResolve ==
  [][\A t \in TurnIds : resolved'[t] /\ ~resolved[t] =>
       \/ clock # "running"
       \/ seated \subseteq submissions
       \/ poller = "flipResolve"]_vars

(* The loop, its restarts and its heals implement one ordered pass over    *)
(* the rounds and turns that ends with a single completion.                *)
ResolvedTurns == {t \in TurnIds : resolved[t]}
Progress == INSTANCE MatchProgress
  WITH done <- Cardinality(ResolvedTurns),
       awarded <- roundsAwarded,
       completed <- completedAt
ProgressSpec == Progress!Spec

(* A match is brought to its end even if no player ever answers, a bot     *)
(* decision raises every time it is asked, tasks crash and wedge, a heal   *)
(* fails, and the process restarts: resume, watchdog and sweeper together. *)
(* It ends cancelled only when an administrator has cancelled it, or when  *)
(* its players are gone.                                                   *)
EventuallyOver ==
  <>[](\/ state = "COMPLETED"
       \/ state = "CANCELLED" /\ (admin \in {"committed", "done"} \/ seated = {}))

(* "a round resumed partway through neither re-zeroes scores nor replays   *)
(* turns it already finished" (_run_round): when a round is about to be    *)
(* awarded, current_round_score counts each of its turns once.             *)
RoundScoreIntact ==
  pc = "awardRound" /\ round > roundsAwarded =>
    \A k \in Turns : roundScore[<<round, k>>] = 1

(* "Allowed transitions. Anything not in this map is forbidden."           *)
(* (state_machine.ALLOWED): COMPLETED and CANCELLED have no successor.     *)
TerminalIsFinal ==
  [][(state \in Terminal) => (state' = state)]_state

-----------------------------------------------------------------------------
(* The inductive invariant behind the safety properties and ProgressSpec.  *)
(* A turn's place in the grid is compared with the stored pointer:         *)
(* everything before it is resolved, nothing after it has a row.           *)

BeforePointer(r, k) == r < currentRound \/ (r = currentRound /\ k < currentTurn)
AtPointer(r, k) == r = currentRound /\ k = currentTurn

(* The pointed turn, if any, is closed.                                    *)
PointedResolved == currentRound # 0 /\ resolved[<<currentRound, currentTurn>>]

PointerInv ==
  /\ currentRound = 0 <=> currentTurn = 0
  /\ \A r \in Rounds, k \in Turns :
       /\ phase[<<r, k>>] # "none" <=> (BeforePointer(r, k) \/ AtPointer(r, k))
       /\ BeforePointer(r, k) => resolved[<<r, k>>]
       /\ resolved[<<r, k>>] => phase[<<r, k>>] # "none"

(* A round is in progress, or the pointer is still in the one just awarded. *)
AwardInv ==
  /\ currentRound = 0 => roundsAwarded = 0
  /\ currentRound # 0 =>
       \/ roundsAwarded = currentRound - 1
       \/ roundsAwarded = currentRound /\ currentTurn = TurnsPerRound /\ PointedResolved

ScoreInv ==
  \A r \in Rounds, k \in Turns :
    /\ roundScore[<<r, k>>] <= 1
    /\ ~resolved[<<r, k>>] => roundScore[<<r, k>>] = 0
    /\ currentRound = roundsAwarded + 1 =>
         /\ r # currentRound => roundScore[<<r, k>>] = 0
         /\ r = currentRound /\ k > 1 /\ resolved[<<r, k>>] => roundScore[<<r, k>>] = 1

TotalInv ==
  \A r \in Rounds, k \in Turns :
    /\ r > roundsAwarded => totalScore[<<r, k>>] = 0
    /\ r <= roundsAwarded => totalScore[<<r, k>>] <= 1
    /\ r <= roundsAwarded /\ k > 1 => totalScore[<<r, k>>] = 1

(* Where _run_round can stand: at the pointer (a resumed loop), at the very *)
(* first turn, or just past a resolved pointer.                            *)
AtFirst == currentRound = 0 /\ round = 1 /\ turn = 1
PastTurn == PointedResolved /\ round = currentRound /\ turn = currentTurn + 1
PastRound == /\ PointedResolved /\ currentTurn = TurnsPerRound
             /\ roundsAwarded = currentRound
             /\ round = currentRound + 1 /\ turn = 1

LoopInv ==
  /\ pc = "startRound" =>
       \/ AtPointer(round, turn) /\ reset = (turn = 1)
       \/ AtFirst
       \/ PastRound /\ reset
  /\ pc = "openTurn" =>
       \/ AtPointer(round, turn)
       \/ AtFirst
       \/ PastTurn
       \/ PastRound /\ \A r \in Rounds, k \in Turns : roundScore[<<r, k>>] = 0
  /\ pc \in OpenTurnSteps => AtPointer(round, turn) /\ ~resolved[<<round, turn>>]
  /\ pc = "awardRound" =>
       round = currentRound /\ currentTurn = TurnsPerRound /\ PointedResolved
  /\ pc = "finalize" => roundsAwarded = TotalRounds

HealInv ==
  /\ poller \in HealSteps => pc = "stopped"
  /\ poller \in HealSteps \ {"load", "restart"} =>
       frozen = CurrentTurnId /\ currentRound # 0 /\ ~resolved[frozen]

RowsInv == PointerInv /\ AwardInv /\ ScoreInv /\ TotalInv

(* The rows are those of one ordered pass over the grid, the loop stands   *)
(* where that pass can continue, and a heal works on the one open turn.    *)
PassInv == TypeOK /\ RowsInv /\ LoopInv /\ HealInv

(* A committed cancellation is never undone, and once its request has also *)
(* stopped the task only an idle restart can follow.                       *)
CancelInv ==
  /\ admin \in {"committed", "done"} => state \in Terminal
  /\ admin = "done" => pc \in {"boot", "stopped"}

(* Whoever decided to resolve the open turn had a reason that still holds. *)
AnswerInv ==
  /\ submissions \subseteq seated
  /\ pc = "resolveTurn" => clock # "running" \/ seated \subseteq submissions
  /\ poller = "healResolve" => clock # "running"

(* How many turns a pass has resolved when it stands at the pointer.       *)
PassLength ==
  IF currentRound = 0 THEN 0
  ELSE (currentRound - 1) * TurnsPerRound + currentTurn
         - (IF PointedResolved THEN 0 ELSE 1)
CountInv == Cardinality(ResolvedTurns) = PassLength

IInv == PassInv /\ CancelInv /\ AnswerInv /\ CountInv
=============================================================================
