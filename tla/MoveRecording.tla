---------------------------- MODULE MoveRecording ----------------------------
(***************************************************************************)
(* The answers of one turn: the rows of turn_messages (talk phase) and     *)
(* turn_submissions (act phase), written by requests of agents, of their   *)
(* connectors and of human players, by the turn loop for the seats the     *)
(* server plays, and by the turn loop again when it closes a phase.        *)
(*                                                                         *)
(* Every writer reads first and commits later, in a transaction of its     *)
(* own. What keeps them apart is the unique key (turn, player): the second *)
(* of two INSERTs fails. Nothing keeps an UPDATE apart from anything: the  *)
(* ORM writes the columns whose value differs from the one it loaded, and  *)
(* leaves the others as they are by then.                                  *)
(*                                                                         *)
(* An answer is a message in the talk phase and a move in the act phase.   *)
(* The turn row goes through talk, talk resolved, act and resolved as in   *)
(* TurnLoop; here the loop's reads and commits are separate steps.         *)
(***************************************************************************)
EXTENDS Integers, FiniteSets

CONSTANTS
  Agents,         \* seats an AI plays through the API
  Humans,         \* seats a signed-in user plays in the browser
  Bots,           \* seats of scripted bots
  Requests,       \* request slots: the bound on submissions of the turn
  Answers,        \* what a message or a move can say
  Default,        \* the empty message, the HOARD move
  MayFallBack,    \* do connectors fill in for silent agents?
  FirstTurn,      \* is this the first turn of its round?
  MaxCrashes      \* bound: deaths of the loop for outside reasons

Seats == Agents \cup Humans \cup Bots
Phases == {"talk", "act"}

ASSUME SeatsAssumption ==
  /\ IsFiniteSet(Seats)
  /\ Agents \cap Humans = {} /\ Agents \cap Bots = {} /\ Humans \cap Bots = {}
NoAnswer == "none"
ASSUME AnswersAssumption == Default \in Answers /\ NoAnswer \notin Answers
ASSUME LimitsAssumption ==
  MayFallBack \in BOOLEAN /\ FirstTurn \in BOOLEAN /\ MaxCrashes \in Nat

VARIABLES
  phase,      \* turns.phase
  talked,     \* is turns.talk_resolved_at set?
  resolved,   \* is turns.resolved_at set?
  due,        \* has turns.deadline_at passed?
  rows,       \* each phase's row of each seat, None while there is none
  autopilot,  \* human seats with players.autopilot_at set
  requests,   \* the submissions in flight
  pc,         \* the loop's next step
  read,       \* the rows the loop's current step has read, a local variable
  driven,     \* the seats the loop's current bot pass plays for, likewise
  leftBefore, \* the seats on autopilot when that pass began
  pinned,     \* does _run_round hold the player objects of its session?
  pin,        \* the autopilot seats among them, as they were when loaded
  scored,     \* the move each seat was scored by, NoAnswer before
  crashes

turnVars == <<phase, talked, resolved, due>>
loopVars == <<pc, read, driven, leftBefore, pinned, pin>>
vars == <<turnVars, rows, autopilot, requests, loopVars, scored, crashes>>

Kinds == {"agent", "fallback", "human"}
Row == [answer : Answers, genuine : BOOLEAN]   \* genuine: not was_defaulted
None == [answer |-> NoAnswer, genuine |-> FALSE]   \* there is no row

(* A request that has passed its checks, and one that has also loaded the  *)
(* seat's row.                                                             *)
Passed == [at : {"passed"}, seat : Seats, ph : Phases, kind : Kinds, answer : Answers]
Loaded == [at : {"loaded"}, seat : Seats, ph : Phases, kind : Kinds, answer : Answers,
           base : Row \cup {None}]
Unused == [at |-> "unused"]
Over == [at |-> "over"]

NoRows == [s \in Seats |-> None]
ForgetReads == read' = NoRows /\ driven' = {}

TypeOK ==
  /\ phase \in Phases
  /\ talked \in BOOLEAN /\ resolved \in BOOLEAN /\ due \in BOOLEAN
  /\ rows \in [Phases -> [Seats -> Row \cup {None}]]
  /\ autopilot \subseteq Humans
  /\ requests \in [Requests -> Passed \cup Loaded \cup {Unused, Over}]
  /\ pc \in {"bots", "botsWrite", "wait", "close", "closeWrite", "beginAct",
             "stopped", "done"}
  /\ read \in [Seats -> Row \cup {None}]
  /\ driven \subseteq Seats /\ leftBefore \subseteq Humans
  /\ pinned \in BOOLEAN /\ pin \subseteq Humans
  /\ scored \in [Seats -> Answers \cup {NoAnswer}]
  /\ crashes \in 0 .. MaxCrashes

(* The turn has just been opened by a loop that has been in the round since *)
(* its start; some humans may have left since then, or before.             *)
Init ==
  /\ phase = "talk" /\ talked = FALSE /\ resolved = FALSE /\ due = FALSE
  /\ rows = [ph \in Phases |-> [s \in Seats |-> None]]
  /\ autopilot \in SUBSET Humans
  /\ requests = [q \in Requests |-> Unused]
  /\ pc = "bots"
  /\ read = NoRows
  /\ driven = {} /\ leftBefore = {}
  /\ pinned = TRUE /\ pin \in SUBSET autopilot
  /\ scored = [s \in Seats |-> NoAnswer]
  /\ crashes = 0

-----------------------------------------------------------------------------
(* Rows.                                                                   *)

Genuine(row) == row.genuine
Fresh(answer, genuine) == [answer |-> answer, genuine |-> genuine]

(* The UPDATE of a row that was loaded as base and given new values: only  *)
(* the changed columns are written.                                        *)
Updated(row, base, new) ==
  [answer  |-> IF new.answer # base.answer THEN new.answer ELSE row.answer,
   genuine |-> IF new.genuine # base.genuine THEN new.genuine ELSE row.genuine]

(* record_submission and record_message, once committed: INSERT where no   *)
(* row was found, UPDATE where one was.                                    *)
RecordedFlagOnly(row, base, new) == [row EXCEPT !.genuine = new.genuine]
Recorded(row, base, new) == IF base = None THEN new ELSE Updated(row, base, new)

(* An INSERT meets a row that was committed since the read.                *)
Conflict(row, base) == base = None /\ row # None

-----------------------------------------------------------------------------
(* Requests.                                                               *)

(* The checks of submit_talk, submit_action, play_talk and play_act on the *)
(* match, the turn and the seat.                                           *)
Check(q, s, kind, answer) ==
  /\ requests[q] = Unused
  /\ ~resolved /\ ~due
  /\ \/ s \in Agents /\ kind = "agent"
     \/ s \in Agents /\ kind = "fallback" /\ MayFallBack /\ answer = Default
     \/ s \in Humans \ autopilot /\ kind = "human"
  /\ requests' = [requests EXCEPT ![q] =
       [at |-> "passed", seat |-> s, ph |-> phase, kind |-> kind, answer |-> answer]]
  /\ UNCHANGED <<turnVars, rows, autopilot, loopVars, scored, crashes>>

(* Their read of the seat's row. An agent that has answered already is     *)
(* acknowledged again; a human's new choice replaces the old one.          *)
LoadReplaces(q) ==
  /\ requests[q].at = "passed"
  /\ LET r == requests[q] IN
     requests' = [requests EXCEPT ![q] =
       [at |-> "loaded", seat |-> r.seat, ph |-> r.ph, kind |-> r.kind,
        answer |-> r.answer, base |-> rows[r.ph][r.seat]]]
  /\ UNCHANGED <<turnVars, rows, autopilot, loopVars, scored, crashes>>

Load(q) ==
  /\ requests[q].at = "passed"
  /\ LET r == requests[q]
         row == rows[r.ph][r.seat]
     IN requests' = [requests EXCEPT ![q] =
          IF r.seat \in Agents /\ Genuine(row)
            THEN Over
            ELSE [at |-> "loaded", seat |-> r.seat, ph |-> r.ph, kind |-> r.kind,
                  answer |-> r.answer, base |-> row]]
  /\ UNCHANGED <<turnVars, rows, autopilot, loopVars, scored, crashes>>

(* The commit. No check is repeated: the phase may have closed meanwhile.  *)
Commit(q) ==
  /\ requests[q].at = "loaded"
  /\ LET r == requests[q]
         row == rows[r.ph][r.seat]
         new == Fresh(r.answer, r.kind # "fallback")
     IN \/ Conflict(row, r.base) /\ UNCHANGED rows
        \/ /\ ~Conflict(row, r.base)
           /\ rows' = [rows EXCEPT ![r.ph][r.seat] = Recorded(row, r.base, new)]
  /\ requests' = [requests EXCEPT ![q] = Over]
  /\ UNCHANGED <<turnVars, autopilot, loopVars, scored, crashes>>

(* play_leave in a running match.                                          *)
Leave(s) ==
  /\ s \in Humans \ autopilot
  /\ autopilot' = autopilot \cup {s}
  /\ UNCHANGED <<turnVars, rows, requests, loopVars, scored, crashes>>

Tick ==
  /\ ~resolved /\ ~due
  /\ due' = TRUE
  /\ UNCHANGED <<phase, talked, resolved, rows, autopilot, requests, loopVars, scored,
                 crashes>>

-----------------------------------------------------------------------------
(* The loop.                                                               *)

(* auto_submit_bot_phase, the reads: which seats to play for. The select   *)
(* finds the player objects that _run_round still holds and leaves their   *)
(* attributes as they were loaded.                                         *)
BotsReadPinned ==                                 \* mutant: a restart keeps no players
  /\ pc = "bots"
  /\ driven' = Bots \cup pin
  /\ leftBefore' = autopilot
  /\ read' = rows[phase]
  /\ pc' = "botsWrite"
  /\ UNCHANGED <<turnVars, rows, autopilot, requests, pinned, pin, scored, crashes>>

BotsRead ==
  /\ pc = "bots"
  /\ driven' = Bots \cup (IF pinned THEN pin ELSE autopilot)
  /\ leftBefore' = autopilot
  /\ read' = rows[phase]
  /\ pc' = "botsWrite"
  /\ UNCHANGED <<turnVars, rows, autopilot, requests, pinned, pin, scored, crashes>>

(* ... and its commit. A bot answers again whatever its row says, a seat   *)
(* on autopilot only if it has no genuine answer. A lost INSERT race takes *)
(* the loop down.                                                          *)
BotWrites == {s \in driven : s \in Bots \/ ~Genuine(read[s])}

BotsWriteBlind ==
  /\ pc = "botsWrite"
  /\ \/ /\ \E s \in driven : rows[phase][s] # None
        /\ pc' = "stopped" /\ UNCHANGED rows
     \/ /\ \A s \in driven : rows[phase][s] = None
        /\ rows' = [rows EXCEPT ![phase] =
             [s \in Seats |-> IF s \in driven THEN Fresh(Default, TRUE) ELSE @[s]]]
        /\ pc' = "wait"
  /\ ForgetReads
  /\ UNCHANGED <<turnVars, autopilot, requests, leftBefore, pinned, pin, scored, crashes>>

BotsWrite ==
  /\ pc = "botsWrite"
  /\ \/ /\ \E s \in BotWrites : Conflict(rows[phase][s], read[s])
        /\ pc' = "stopped" /\ UNCHANGED rows
     \/ /\ \A s \in BotWrites : ~Conflict(rows[phase][s], read[s])
        /\ \E choice \in [Bots -> Answers] :
             rows' = [rows EXCEPT ![phase] = [s \in Seats |->
               IF s \in BotWrites
                 THEN Recorded(@[s], read[s],
                               Fresh(IF s \in Bots THEN choice[s] ELSE Default, TRUE))
                 ELSE @[s]]]
        /\ pc' = "wait"
  /\ ForgetReads
  /\ UNCHANGED <<turnVars, autopilot, requests, leftBefore, pinned, pin, scored, crashes>>

(* _wait_for_messages and _wait_for_turn.                                  *)
Wait ==
  /\ pc = "wait"
  /\ due \/ \A s \in Seats : Genuine(rows[phase][s])
  /\ pc' = "close"
  /\ UNCHANGED <<turnVars, rows, autopilot, requests, read, driven, leftBefore, pinned,
                 pin, scored, crashes>>

(* finalize_talk_phase and resolve_turn read the rows of the phase ...     *)
CloseRead ==
  /\ pc = "close"
  /\ read' = rows[phase]
  /\ pc' = "closeWrite"
  /\ UNCHANGED <<turnVars, rows, autopilot, requests, driven, leftBefore, pinned, pin,
                 scored, crashes>>

(* ... then insert a default for every seat without one, and stamp the     *)
(* turn; resolve_turn scores the rows it read.                             *)
Silent == {s \in Seats : read[s] = None}

CloseWriteOverwrites ==
  /\ pc = "closeWrite"
  /\ rows' = [rows EXCEPT ![phase] = [s \in Seats |->
       IF s \in Silent THEN Fresh(Default, FALSE) ELSE @[s]]]
  /\ IF phase = "talk"
       THEN talked' = TRUE /\ pc' = "beginAct" /\ UNCHANGED <<resolved, scored>>
       ELSE /\ resolved' = TRUE /\ pc' = "done"
            /\ scored' = [s \in Seats |-> IF s \in Silent THEN Default ELSE read[s].answer]
            /\ UNCHANGED talked
  /\ ForgetReads
  /\ UNCHANGED <<phase, due, autopilot, requests, leftBefore, pinned, pin, crashes>>

CloseWrite ==
  /\ pc = "closeWrite"
  /\ \/ /\ \E s \in Silent : rows[phase][s] # None
        /\ pc' = "stopped"
        /\ UNCHANGED <<rows, talked, resolved, scored>>
     \/ /\ \A s \in Silent : rows[phase][s] = None
        /\ rows' = [rows EXCEPT ![phase] = [s \in Seats |->
             IF s \in Silent THEN Fresh(Default, FALSE) ELSE @[s]]]
        /\ \/ /\ phase = "talk"
              /\ talked' = TRUE /\ pc' = "beginAct"
              /\ UNCHANGED <<resolved, scored>>
           \/ /\ phase = "act"
              /\ resolved' = TRUE /\ pc' = "done"
              /\ scored' = [s \in Seats |->
                   IF s \in Silent THEN Default ELSE read[s].answer]
              /\ UNCHANGED talked
  /\ ForgetReads
  /\ UNCHANGED <<phase, due, autopilot, requests, leftBefore, pinned, pin, crashes>>

(* _begin_act_phase.                                                       *)
BeginAct ==
  /\ pc = "beginAct"
  /\ phase' = "act" /\ due' = FALSE
  /\ pc' = "bots"
  /\ UNCHANGED <<talked, resolved, rows, autopilot, requests, read, driven, leftBefore,
                 pinned, pin, scored, crashes>>

(* The watchdog starts the loop again, in a session that knows nothing. It *)
(* loads and keeps the players only when it zeroes the round's scores.     *)
Restart ==
  /\ pc = "stopped"
  /\ pinned' = FirstTurn /\ pin' = (IF FirstTurn THEN autopilot ELSE {})
  /\ pc' = (IF talked /\ phase = "talk" THEN "beginAct" ELSE "bots")
  /\ UNCHANGED <<turnVars, rows, autopilot, requests, read, driven, leftBefore, scored,
                 crashes>>

LoopDies ==
  /\ crashes < MaxCrashes /\ crashes' = crashes + 1
  /\ pc \notin {"stopped", "done"}
  /\ pc' = "stopped"
  /\ ForgetReads
  /\ UNCHANGED <<turnVars, rows, autopilot, requests, leftBefore, pinned, pin, scored>>

LoopStep ==
  \/ BotsRead \/ BotsWrite \/ Wait \/ CloseRead \/ CloseWrite \/ BeginAct \/ Restart

Next ==
  \/ LoopStep
  \/ LoopDies
  \/ Tick
  \/ \E q \in Requests :
       \/ Load(q) \/ Commit(q)
       \/ \E s \in Seats, kind \in Kinds, answer \in Answers : Check(q, s, kind, answer)
  \/ \E s \in Humans : Leave(s)

Spec == Init /\ [][Next]_vars

(* The event loop runs the loop task, the watchdog restarts it, time       *)
(* passes. Nobody has to submit anything.                                  *)
FairSpec == Spec /\ WF_vars(LoopStep) /\ WF_vars(Tick)

-----------------------------------------------------------------------------
(* Properties.                                                             *)

(* Whoever writes at the same time - a second request, a connector filling *)
(* in, the autopilot, the default of a phase that closes - a genuine       *)
(* answer is never turned back into a defaulted one or dropped. (It may be *)
(* replaced by another genuine one.)                                       *)
GenuineStays ==
  [][\A ph \in Phases, s \in Seats :
       Genuine(rows[ph][s]) => Genuine(rows'[ph][s])]_vars

(* A genuine answer of an agent is final: repeating the request, with the  *)
(* same answer or another one, changes nothing. The exception is a request *)
(* that found a defaulted row (a connector's fill-in, or the default of a  *)
(* phase that has just closed) and commits after another one that did.     *)
AgentAnswerStands ==
  [][\A ph \in Phases, s \in Agents : Genuine(rows[ph][s]) =>
       \/ rows'[ph][s] = rows[ph][s]
       \/ \E q \in Requests :
            /\ requests[q].at = "loaded" /\ requests[q].seat = s
            /\ requests[q].base # None /\ ~Genuine(requests[q].base)]_vars

(* Lost INSERT races stop the loop, but never for good: each restart reads *)
(* again, so the turn is resolved whatever the players do.                 *)
EventuallyResolved == <>resolved

(* "Re-submitting within an open phase replaces the pending choice"        *)
(* (web_play): outside an open phase nothing is replaced, so the moves of  *)
(* a resolved turn stay the ones it was scored by.                         *)
RecordedIsScored ==
  resolved => \A s \in Seats : rows["act"][s].answer = scored[s]

(* play_leave promises that "the table is never made to wait on a departed *)
(* human". The loop keeps that for those who had left when it loaded the   *)
(* players of the round, whatever it died of since: they have an answer in *)
(* every phase it waits in.                                                *)
KnownLeaversAnswer ==
  pc = "wait" =>
    \A s \in leftBefore : (pinned => s \in pin) => Genuine(rows[phase][s])
=============================================================================
