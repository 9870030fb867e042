------------------------- MODULE MoveRecordingProofs -------------------------
(***************************************************************************)
(* What is proved of MoveRecording for every set of seats, every set of    *)
(* answers and any number of requests in flight: types, that genuine       *)
(* answers survive the races between the writers, and that the loop never  *)
(* waits for a seat it knows has left.                                     *)
(***************************************************************************)
EXTENDS MoveRecording, TLAPS

Slots == Passed \cup Loaded \cup {Unused, Over}

(* Only an agent's connector fills in; a request of an agent that got as   *)
(* far as a read of a genuine answer ended there; a row that was found is  *)
(* still there.                                                            *)
RequestInv(r) ==
  /\ r.at \in {"passed", "loaded"} /\ r.kind = "fallback" => r.seat \in Agents
  /\ r.at = "loaded" =>
       /\ r.seat \in Agents => ~Genuine(r.base)
       /\ r.base # None => rows[r.ph][r.seat] # None

(* The same for what the loop has read, and whom it plays for.             *)
LoopInv ==
  /\ driven \cap Agents = {}
  /\ pc \in {"botsWrite", "closeWrite"} =>
       \A s \in Seats : read[s] # None => rows[phase][s] # None

IInv == TypeOK /\ (\A q \in Requests : RequestInv(requests[q])) /\ LoopInv

-----------------------------------------------------------------------------
(* Facts about rows and requests.                                          *)

LEMMA SlotKinds ==
  ASSUME NEW r \in Slots
  PROVE  /\ r.at = "passed" => r \in Passed
         /\ r.at = "loaded" => r \in Loaded
BY DEF Slots, Passed, Loaded, Unused, Over

LEMMA NoneIsNoRow == None \notin Row /\ ~Genuine(None)
BY AnswersAssumption DEF None, Row, Genuine

LEMMA FreshType == \A a \in Answers, g \in BOOLEAN : Fresh(a, g) \in Row
BY DEF Fresh, Row

LEMMA DefaultType == Default \in Answers
BY AnswersAssumption

(* A write without conflict leaves a row behind.                           *)
LEMMA RecordedType ==
  ASSUME NEW row \in Row \cup {None}, NEW base \in Row \cup {None}, NEW new \in Row,
         base # None => row # None
  PROVE  Recorded(row, base, new) \in Row
BY DEF Recorded, Updated, Row

(* A genuine row is only lost to a defaulted answer over a genuine base.   *)
LEMMA RecordedGenuine ==
  ASSUME NEW row \in Row, NEW base \in Row \cup {None}, NEW new \in Row,
         Genuine(row), ~Conflict(row, base),
         Genuine(new) \/ ~Genuine(base)
  PROVE  Genuine(Recorded(row, base, new))
<1>1. base # None
  BY NoneIsNoRow DEF Conflict
<1> QED BY <1>1 DEF Recorded, Updated, Genuine, Row

-----------------------------------------------------------------------------
(* The inductive invariant.                                                *)

LEMMA InitIInv == Init => IInv
<1> SUFFICES ASSUME Init PROVE IInv
  OBVIOUS
<1>1. TypeOK
  <2>1. /\ rows \in [Phases -> [Seats -> Row \cup {None}]]
        /\ read \in [Seats -> Row \cup {None}]
        /\ requests \in [Requests -> Passed \cup Loaded \cup {Unused, Over}]
        /\ scored \in [Seats -> Answers \cup {NoAnswer}]
    BY DEF Init, NoRows
  <2>2. autopilot \subseteq Humans /\ pin \subseteq Humans
    BY DEF Init
  <2>3. crashes \in 0 .. MaxCrashes
    BY LimitsAssumption DEF Init
  <2> QED BY <2>1, <2>2, <2>3 DEF Init, TypeOK, Phases
<1>2. \A q \in Requests : RequestInv(requests[q])
  BY DEF Init, RequestInv, Unused
<1>3. LoopInv
  BY DEF Init, LoopInv, NoRows
<1> QED BY <1>1, <1>2, <1>3 DEF IInv

(* Steps of requests touch their own slot; a commit also the seat's row.   *)
LEMMA CheckIInv ==
  ASSUME IInv, NEW q \in Requests, NEW s \in Seats, NEW kind \in Kinds,
         NEW answer \in Answers, Check(q, s, kind, answer)
  PROVE  IInv'
<1> DEFINE r == [at |-> "passed", seat |-> s, ph |-> phase, kind |-> kind,
                 answer |-> answer]
<1>1. r \in Passed /\ requests' = [requests EXCEPT ![q] = r]
  BY DEF Check, IInv, TypeOK, Passed
<1>2. kind = "fallback" => s \in Agents
  BY DEF Check, Kinds
<1>3. TypeOK'
  BY <1>1 DEF IInv, TypeOK, Check, turnVars, loopVars
<1>4. \A p \in Requests : RequestInv(requests[p])'
  <2> SUFFICES ASSUME NEW p \in Requests PROVE RequestInv(requests[p])'
    OBVIOUS
  <2>1. CASE p = q
    <3>1. requests'[p] = r
      BY <1>1, <2>1 DEF IInv, TypeOK
    <3> QED BY <3>1, <1>2 DEF RequestInv
  <2>2. CASE p # q
    <3>1. requests'[p] = requests[p]
      BY <1>1, <2>2 DEF IInv, TypeOK
    <3> QED BY <3>1 DEF IInv, RequestInv, Check
  <2> QED BY <2>1, <2>2
<1>5. LoopInv'
  BY DEF Check, IInv, LoopInv, turnVars, loopVars
<1> QED BY <1>3, <1>4, <1>5 DEF IInv

LEMMA LoadIInv ==
  ASSUME IInv, NEW q \in Requests, Load(q)
  PROVE  IInv'
<1> DEFINE r == requests[q]
           row == rows[r.ph][r.seat]
           new == IF r.seat \in Agents /\ Genuine(row)
                    THEN Over
                    ELSE [at |-> "loaded", seat |-> r.seat, ph |-> r.ph,
                          kind |-> r.kind, answer |-> r.answer, base |-> row]
<1>1. r \in Passed
  BY SlotKinds DEF Load, IInv, TypeOK, Slots
<1>2. /\ r.at = "passed" /\ r.seat \in Seats /\ r.ph \in Phases /\ r.kind \in Kinds
      /\ r.answer \in Answers
  BY <1>1 DEF Passed
<1>3. row \in Row \cup {None}
  BY <1>2 DEF IInv, TypeOK
<1>4. new \in Loaded \cup {Over} /\ requests' = [requests EXCEPT ![q] = new]
  BY <1>2, <1>3 DEF Load, Loaded
<1>5. TypeOK'
  BY <1>4 DEF IInv, TypeOK, Load, turnVars, loopVars
<1>6. \A p \in Requests : RequestInv(requests[p])'
  <2> SUFFICES ASSUME NEW p \in Requests PROVE RequestInv(requests[p])'
    OBVIOUS
  <2>1. CASE p = q
    <3>1. requests'[p] = new
      BY <1>4, <2>1 DEF IInv, TypeOK
    <3>2. CASE r.seat \in Agents /\ Genuine(row)
      BY <3>1, <3>2 DEF RequestInv, Over
    <3>3. CASE ~(r.seat \in Agents /\ Genuine(row))
      <4>1. r.kind = "fallback" => r.seat \in Agents
        BY <1>2 DEF IInv, RequestInv
      <4> QED BY <3>1, <3>3, <4>1 DEF RequestInv, Load
    <3> QED BY <3>2, <3>3
  <2>2. CASE p # q
    <3>1. requests'[p] = requests[p]
      BY <1>4, <2>2 DEF IInv, TypeOK
    <3> QED BY <3>1 DEF IInv, RequestInv, Load
  <2> QED BY <2>1, <2>2
<1>7. LoopInv'
  BY DEF Load, IInv, LoopInv, turnVars, loopVars
<1> QED BY <1>5, <1>6, <1>7 DEF IInv

(* What a commit does to the rows, and what it does not.                   *)
LEMMA CommitRows ==
  ASSUME IInv, NEW q \in Requests, Commit(q)
  PROVE  /\ requests[q] \in Loaded
         /\ rows' \in [Phases -> [Seats -> Row \cup {None}]]
         /\ \A ph \in Phases, s \in Seats : rows[ph][s] # None => rows'[ph][s] # None
<1> DEFINE r == requests[q]
           row == rows[r.ph][r.seat]
           new == Fresh(r.answer, r.kind # "fallback")
<1>1. r \in Loaded
  BY SlotKinds DEF Commit, IInv, TypeOK, Slots
<1>2. /\ r.at = "loaded" /\ r.seat \in Seats /\ r.ph \in Phases
      /\ r.answer \in Answers /\ r.base \in Row \cup {None}
  BY <1>1 DEF Loaded
<1>3. rows \in [Phases -> [Seats -> Row \cup {None}]] /\ row \in Row \cup {None}
  BY <1>2 DEF IInv, TypeOK
<1>4. CASE UNCHANGED rows
  BY <1>1, <1>3, <1>4
<1>5. CASE rows' = [rows EXCEPT ![r.ph][r.seat] = Recorded(row, r.base, new)]
  <2>1. new \in Row
    BY <1>2, FreshType
  <2>2. r.base # None => row # None
    BY <1>2 DEF IInv, RequestInv
  <2>3. Recorded(row, r.base, new) \in Row
    BY <1>2, <1>3, <2>1, <2>2, RecordedType
  <2> HIDE DEF row, new
  <2> QED BY <1>1, <1>2, <1>3, <1>5, <2>3, NoneIsNoRow
<1> QED BY <1>4, <1>5 DEF Commit

LEMMA CommitIInv ==
  ASSUME IInv, NEW q \in Requests, Commit(q)
  PROVE  IInv'
<1>1. /\ rows' \in [Phases -> [Seats -> Row \cup {None}]]
      /\ \A ph \in Phases, s \in Seats : rows[ph][s] # None => rows'[ph][s] # None
  BY CommitRows
<1>2. requests' = [requests EXCEPT ![q] = Over]
  BY DEF Commit
<1>3. TypeOK'
  BY <1>1, <1>2 DEF IInv, TypeOK, Commit, turnVars, loopVars
<1>4. \A p \in Requests : RequestInv(requests[p])'
  <2> SUFFICES ASSUME NEW p \in Requests PROVE RequestInv(requests[p])'
    OBVIOUS
  <2>1. CASE p = q
    <3>1. requests'[p] = Over
      BY <1>2, <2>1 DEF IInv, TypeOK
    <3> QED BY <3>1 DEF RequestInv, Over
  <2>2. CASE p # q
    <3>1. requests'[p] = requests[p] /\ requests[p] \in Slots
      BY <1>2, <2>2 DEF IInv, TypeOK, Slots
    <3>2. requests[p].at = "loaded" =>
            requests[p].ph \in Phases /\ requests[p].seat \in Seats
      BY <3>1, SlotKinds DEF Loaded
    <3> QED BY <3>1, <3>2, <1>1 DEF IInv, RequestInv
  <2> QED BY <2>1, <2>2
<1>5. LoopInv'
  BY <1>1 DEF Commit, IInv, TypeOK, LoopInv, turnVars, loopVars
<1> QED BY <1>3, <1>4, <1>5 DEF IInv

(* A step that leaves the requests alone and keeps every row there is.     *)
LEMMA RequestsStay ==
  ASSUME IInv, UNCHANGED requests,
         \A ph \in Phases, s \in Seats : rows[ph][s] # None => rows'[ph][s] # None
  PROVE  \A p \in Requests : RequestInv(requests[p])'
<1> SUFFICES ASSUME NEW p \in Requests PROVE RequestInv(requests[p])'
  OBVIOUS
<1>1. requests'[p] = requests[p] /\ requests[p] \in Slots
  BY DEF IInv, TypeOK, Slots
<1>2. requests[p].at = "loaded" =>
        requests[p].ph \in Phases /\ requests[p].seat \in Seats
  BY <1>1, SlotKinds DEF Loaded
<1> QED BY <1>1, <1>2 DEF IInv, RequestInv

(* The two writes of the loop.                                             *)
LEMMA BotsWriteRows ==
  ASSUME IInv, BotsWrite
  PROVE  /\ rows' \in [Phases -> [Seats -> Row \cup {None}]]
         /\ \A ph \in Phases, s \in Seats : rows[ph][s] # None => rows'[ph][s] # None
         /\ \A ph \in Phases, s \in Seats :
              Genuine(rows[ph][s]) => Genuine(rows'[ph][s])
         /\ \A ph \in Phases, s \in Agents : rows'[ph][s] = rows[ph][s]
<1>0. /\ rows \in [Phases -> [Seats -> Row \cup {None}]] /\ phase \in Phases
      /\ read \in [Seats -> Row \cup {None}] /\ driven \cap Agents = {}
      /\ Agents \subseteq Seats
  BY DEF IInv, TypeOK, LoopInv, Seats
<1>1. CASE UNCHANGED rows
  BY <1>0, <1>1
<1>2. CASE ~UNCHANGED rows
  <2> DEFINE new(choice, s) == Fresh(IF s \in Bots THEN choice[s] ELSE Default, TRUE)
             after(choice) == [s \in Seats |->
               IF s \in BotWrites THEN Recorded(rows[phase][s], read[s], new(choice, s))
                                  ELSE rows[phase][s]]
  <2>1. \A s \in BotWrites : ~Conflict(rows[phase][s], read[s])
    BY <1>2 DEF BotsWrite
  <2>2. PICK choice \in [Bots -> Answers] : rows' = [rows EXCEPT ![phase] = after(choice)]
    BY <1>2, <1>0 DEF BotsWrite
  <2>3. \A s \in Seats : new(choice, s) \in Row /\ Genuine(new(choice, s))
    BY <2>2, FreshType, DefaultType DEF Genuine, Fresh
  <2> HIDE DEF new
  <2>4. \A s \in Seats :
          /\ after(choice)[s] \in Row \cup {None}
          /\ rows[phase][s] # None => after(choice)[s] # None
          /\ Genuine(rows[phase][s]) => Genuine(after(choice)[s])
          /\ s \in Agents => after(choice)[s] = rows[phase][s]
    <3> SUFFICES ASSUME NEW s \in Seats
                 PROVE  /\ after(choice)[s] \in Row \cup {None}
                        /\ rows[phase][s] # None => after(choice)[s] # None
                        /\ Genuine(rows[phase][s]) => Genuine(after(choice)[s])
                        /\ s \in Agents => after(choice)[s] = rows[phase][s]
      OBVIOUS
    <3>1. CASE s \notin BotWrites
      BY <1>0, <3>1
    <3>2. CASE s \in BotWrites
      <4>1. after(choice)[s] = Recorded(rows[phase][s], read[s], new(choice, s))
        BY <3>2
      <4>2. read[s] # None => rows[phase][s] # None
        BY DEF IInv, LoopInv, BotsWrite
      <4>3. rows[phase][s] \in Row \cup {None} /\ read[s] \in Row \cup {None}
        BY <1>0
      <4>4. after(choice)[s] \in Row
        BY <4>1, <4>2, <4>3, <2>3, RecordedType
      <4>5. Genuine(rows[phase][s]) => Genuine(after(choice)[s])
        BY <4>1, <4>3, <2>1, <2>3, <3>2, NoneIsNoRow, RecordedGenuine
      <4>6. s \notin Agents
        BY <3>2, <1>0 DEF BotWrites
      <4> QED BY <4>4, <4>5, <4>6, NoneIsNoRow
    <3> QED BY <3>1, <3>2
  <2>5. after(choice) \in [Seats -> Row \cup {None}]
    BY <2>4
  <2> HIDE DEF after
  <2> QED BY <1>0, <2>2, <2>4, <2>5
<1> QED BY <1>1, <1>2

LEMMA CloseWriteRows ==
  ASSUME IInv, CloseWrite
  PROVE  /\ rows' \in [Phases -> [Seats -> Row \cup {None}]]
         /\ \A ph \in Phases, s \in Seats : rows[ph][s] # None => rows'[ph][s] = rows[ph][s]
<1>0. /\ rows \in [Phases -> [Seats -> Row \cup {None}]] /\ phase \in Phases
  BY DEF IInv, TypeOK
<1>1. CASE UNCHANGED rows
  BY <1>0, <1>1
<1>2. CASE ~UNCHANGED rows
  <2>1. /\ \A s \in Silent : rows[phase][s] = None
        /\ rows' = [rows EXCEPT ![phase] = [s \in Seats |->
             IF s \in Silent THEN Fresh(Default, FALSE) ELSE rows[phase][s]]]
    BY <1>0, <1>2 DEF CloseWrite
  <2>2. Fresh(Default, FALSE) \in Row
    BY FreshType, DefaultType
  <2> QED BY <1>0, <2>1, <2>2
<1> QED BY <1>1, <1>2

LEMMA NoRowsType == NoRows \in [Seats -> Row \cup {None}] /\ \A s \in Seats : NoRows[s] = None
BY DEF NoRows

LEMMA LoopIInv == ASSUME IInv, LoopStep PROVE IInv'
<1> USE DEF IInv
<1>1. CASE BotsRead
  <2>1. TypeOK'
    <3>1. driven' \subseteq Seats /\ leftBefore' \subseteq Humans
      BY <1>1 DEF BotsRead, TypeOK, Seats
    <3>2. read' \in [Seats -> Row \cup {None}]
      BY <1>1 DEF BotsRead, TypeOK
    <3> QED BY <1>1, <3>1, <3>2 DEF BotsRead, TypeOK, turnVars
  <2>2. LoopInv'
    BY <1>1, SeatsAssumption DEF BotsRead, TypeOK, LoopInv, turnVars
  <2>3. \A p \in Requests : RequestInv(requests[p])'
    BY <1>1, RequestsStay DEF BotsRead
  <2> QED BY <2>1, <2>2, <2>3
<1>2. CASE BotsWrite
  <2>1. TypeOK'
    BY <1>2, BotsWriteRows, NoRowsType DEF BotsWrite, TypeOK, turnVars, ForgetReads
  <2>2. LoopInv'
    BY <1>2, NoRowsType DEF BotsWrite, LoopInv, ForgetReads
  <2>3. \A p \in Requests : RequestInv(requests[p])'
    BY <1>2, BotsWriteRows, RequestsStay DEF BotsWrite
  <2> QED BY <2>1, <2>2, <2>3
<1>3. CASE Wait
  <2>1. TypeOK' /\ LoopInv'
    BY <1>3 DEF Wait, TypeOK, LoopInv, turnVars
  <2>2. \A p \in Requests : RequestInv(requests[p])'
    BY <1>3, RequestsStay DEF Wait
  <2> QED BY <2>1, <2>2
<1>4. CASE CloseRead
  <2>1. TypeOK' /\ LoopInv'
    BY <1>4 DEF CloseRead, TypeOK, LoopInv, turnVars
  <2>2. \A p \in Requests : RequestInv(requests[p])'
    BY <1>4, RequestsStay DEF CloseRead
  <2> QED BY <2>1, <2>2
<1>5. CASE CloseWrite
  <2>1. scored' \in [Seats -> Answers \cup {NoAnswer}]
    <3>1. \A s \in Seats \ Silent : read[s] \in Row
      BY DEF Silent, TypeOK
    <3>2. \A s \in Seats \ Silent : read[s].answer \in Answers
      BY <3>1 DEF Row
    <3> QED BY <1>5, <3>2, DefaultType DEF CloseWrite, TypeOK
  <2>2. TypeOK'
    BY <1>5, <2>1, CloseWriteRows, NoRowsType DEF CloseWrite, TypeOK, ForgetReads
  <2>3. LoopInv'
    BY <1>5, NoRowsType DEF CloseWrite, LoopInv, ForgetReads
  <2>4. \A p \in Requests : RequestInv(requests[p])'
    BY <1>5, CloseWriteRows, RequestsStay DEF CloseWrite
  <2> QED BY <2>2, <2>3, <2>4
<1>6. CASE BeginAct
  <2>1. TypeOK'
    BY <1>6 DEF BeginAct, TypeOK, Phases
  <2>2. LoopInv'
    BY <1>6 DEF BeginAct, LoopInv, TypeOK
  <2>3. \A p \in Requests : RequestInv(requests[p])'
    BY <1>6, RequestsStay DEF BeginAct
  <2> QED BY <2>1, <2>2, <2>3
<1>7. CASE Restart
  <2>1. TypeOK' /\ LoopInv'
    BY <1>7, LimitsAssumption DEF Restart, TypeOK, LoopInv, turnVars
  <2>2. \A p \in Requests : RequestInv(requests[p])'
    BY <1>7, RequestsStay DEF Restart, turnVars
  <2> QED BY <2>1, <2>2
<1> QED BY <1>1, <1>2, <1>3, <1>4, <1>5, <1>6, <1>7 DEF LoopStep

(* Every step preserves the invariant.                                     *)
LEMMA StepIInv == IInv /\ [Next]_vars => IInv'
<1> SUFFICES ASSUME IInv, [Next]_vars PROVE IInv'
  OBVIOUS
<1>1. CASE LoopStep
  BY <1>1, LoopIInv
<1>2. CASE LoopDies
  <2>1. crashes' \in 0 .. MaxCrashes
    BY <1>2, LimitsAssumption DEF LoopDies, IInv, TypeOK
  <2>2. TypeOK' /\ LoopInv'
    BY <1>2, <2>1, NoRowsType DEF LoopDies, IInv, TypeOK, LoopInv, ForgetReads, turnVars
  <2>3. \A p \in Requests : RequestInv(requests[p])'
    BY <1>2, RequestsStay DEF LoopDies
  <2> QED BY <2>2, <2>3 DEF IInv
<1>3. CASE Tick
  <2>1. TypeOK' /\ LoopInv'
    BY <1>3 DEF Tick, IInv, TypeOK, LoopInv, loopVars
  <2>2. \A p \in Requests : RequestInv(requests[p])'
    BY <1>3, RequestsStay DEF Tick
  <2> QED BY <2>1, <2>2 DEF IInv
<1>4. ASSUME NEW q \in Requests, Load(q) PROVE IInv'
  BY <1>4, LoadIInv
<1>5. ASSUME NEW q \in Requests, Commit(q) PROVE IInv'
  BY <1>5, CommitIInv
<1>6. ASSUME NEW q \in Requests, NEW s \in Seats, NEW kind \in Kinds,
             NEW answer \in Answers, Check(q, s, kind, answer)
      PROVE  IInv'
  BY <1>6, CheckIInv
<1>7. ASSUME NEW s \in Humans, Leave(s) PROVE IInv'
  <2>1. TypeOK' /\ LoopInv'
    BY <1>7 DEF Leave, IInv, TypeOK, LoopInv, loopVars, turnVars
  <2>2. \A p \in Requests : RequestInv(requests[p])'
    BY <1>7, RequestsStay DEF Leave
  <2> QED BY <2>1, <2>2 DEF IInv
<1>8. CASE UNCHANGED vars
  <2>1. TypeOK' /\ LoopInv'
    BY <1>8 DEF vars, IInv, TypeOK, LoopInv, loopVars, turnVars
  <2>2. \A p \in Requests : RequestInv(requests[p])'
    BY <1>8, RequestsStay DEF vars
  <2> QED BY <2>1, <2>2 DEF IInv
<1> QED BY <1>1, <1>2, <1>3, <1>4, <1>5, <1>6, <1>7, <1>8 DEF Next

(* Every reachable state of a turn's answers is well typed, and requests   *)
(* and loop only hold reads that their later write can still rely on.      *)
THEOREM Invariant == Spec => []IInv
<1>1. Init => IInv
  BY InitIInv
<1>2. IInv /\ [Next]_vars => IInv'
  BY StepIInv
<1> QED BY <1>1, <1>2, PTL DEF Spec

(* The rows of submit_talk, submit_action, auto_submit_bot_phase and the   *)
(* two closers are rows, for any number of writers.                        *)
THEOREM TypeCorrect == Spec => []TypeOK
<1>1. IInv => TypeOK
  BY DEF IInv
<1> QED BY <1>1, Invariant, PTL

-----------------------------------------------------------------------------
(* Genuine answers.                                                        *)

(* The commit of a request over a genuine row writes a genuine answer: a   *)
(* fill-in that found no row conflicts, and one that found a genuine row   *)
(* has ended at its read.                                                  *)
LEMMA CommitKeepsGenuine ==
  ASSUME IInv, NEW q \in Requests, Commit(q), NEW ph \in Phases, NEW s \in Seats,
         Genuine(rows[ph][s])
  PROVE  Genuine(rows'[ph][s])
<1> DEFINE r == requests[q]
           row == rows[r.ph][r.seat]
           new == Fresh(r.answer, r.kind # "fallback")
<1>0. rows \in [Phases -> [Seats -> Row \cup {None}]] /\ r \in Loaded
  BY CommitRows DEF IInv, TypeOK
<1>1. /\ r.at = "loaded" /\ r.seat \in Seats /\ r.ph \in Phases
      /\ r.answer \in Answers /\ r.base \in Row \cup {None}
  BY <1>0 DEF Loaded
<1>2. CASE UNCHANGED rows
  BY <1>2
<1>3. CASE ~UNCHANGED rows
  <2>1. /\ ~Conflict(row, r.base)
        /\ rows' = [rows EXCEPT ![r.ph][r.seat] = Recorded(row, r.base, new)]
    BY <1>3 DEF Commit
  <2>2. CASE ph = r.ph /\ s = r.seat
    <3>1. row \in Row /\ Genuine(row)
      BY <1>0, <1>1, <2>2, NoneIsNoRow
    <3>2. new \in Row
      BY <1>1, FreshType
    <3>3. Genuine(new) \/ ~Genuine(r.base)
      <4>1. r.kind = "fallback" => ~Genuine(r.base)
        BY <1>1 DEF IInv, RequestInv
      <4> QED BY <4>1 DEF Genuine, Fresh
    <3>4. Genuine(Recorded(row, r.base, new))
      BY <1>1, <2>1, <3>1, <3>2, <3>3, RecordedGenuine
    <3>5. rows'[ph][s] = Recorded(row, r.base, new)
      <4> HIDE DEF row, new
      <4> QED BY <1>0, <1>1, <2>1, <2>2
    <3> QED BY <3>4, <3>5
  <2>3. CASE ~(ph = r.ph /\ s = r.seat)
    <3>1. rows'[ph][s] = rows[ph][s]
      BY <1>0, <1>1, <2>1, <2>3
    <3> QED BY <3>1
  <2> QED BY <2>2, <2>3
<1> QED BY <1>2, <1>3

(* No step turns a genuine row back.                                       *)
LEMMA StepKeepsGenuine ==
  ASSUME IInv, [Next]_vars
  PROVE  \A ph \in Phases, s \in Seats : Genuine(rows[ph][s]) => Genuine(rows'[ph][s])
<1>1. CASE UNCHANGED rows
  BY <1>1
<1>2. ASSUME NEW q \in Requests, Commit(q)
      PROVE  \A ph \in Phases, s \in Seats :
               Genuine(rows[ph][s]) => Genuine(rows'[ph][s])
  BY <1>2, CommitKeepsGenuine
<1>3. CASE BotsWrite
  BY <1>3, BotsWriteRows
<1>4. CASE CloseWrite
  BY <1>4, CloseWriteRows, NoneIsNoRow
<1>5. UNCHANGED rows \/ BotsWrite \/ CloseWrite \/ \E q \in Requests : Commit(q)
  BY DEF Next, LoopStep, BotsRead, Wait, CloseRead, BeginAct, Restart, LoopDies, Tick,
         Load, Check, Leave, vars
<1> QED BY <1>1, <1>2, <1>3, <1>4, <1>5

(* A genuine answer is never turned back into a defaulted one or dropped,  *)
(* however many requests, fill-ins, autopilot moves, closings and restarts *)
(* race for the row.                                                       *)
THEOREM AnswersSurvive == Spec => GenuineStays
<1>1. IInv /\ [Next]_vars =>
        [\A ph \in Phases, s \in Seats :
           Genuine(rows[ph][s]) => Genuine(rows'[ph][s])]_vars
  BY StepKeepsGenuine
<1> QED BY <1>1, Invariant, PTL DEF Spec, GenuineStays

(* The answer of an agent stands: only a request that found a defaulted    *)
(* row can still change it.                                                *)
LEMMA StepKeepsAgentAnswer ==
  ASSUME IInv, [Next]_vars, NEW ph \in Phases, NEW s \in Agents, Genuine(rows[ph][s])
  PROVE  \/ rows'[ph][s] = rows[ph][s]
         \/ \E q \in Requests :
              /\ requests[q].at = "loaded" /\ requests[q].seat = s
              /\ requests[q].base # None /\ ~Genuine(requests[q].base)
<1>0. s \in Seats /\ rows[ph][s] # None
  BY NoneIsNoRow DEF Seats
<1>1. CASE UNCHANGED rows
  BY <1>1
<1>2. ASSUME NEW q \in Requests, Commit(q), ~UNCHANGED rows
      PROVE  \/ rows'[ph][s] = rows[ph][s]
             \/ /\ requests[q].at = "loaded" /\ requests[q].seat = s
                /\ requests[q].base # None /\ ~Genuine(requests[q].base)
  <2> DEFINE r == requests[q]
  <2>1. /\ rows \in [Phases -> [Seats -> Row \cup {None}]]
        /\ r.ph \in Phases /\ r.seat \in Seats /\ r.at = "loaded"
    BY <1>2, CommitRows DEF IInv, TypeOK, Loaded, Commit
  <2>2. PICK w : rows' = [rows EXCEPT ![r.ph][r.seat] = w]
    BY <1>2 DEF Commit
  <2>3. ~Conflict(rows[r.ph][r.seat], r.base)
    BY <1>2 DEF Commit
  <2>4. CASE ph = r.ph /\ s = r.seat
    <3>1. r.base # None
      BY <1>0, <2>3, <2>4 DEF Conflict
    <3>2. ~Genuine(r.base)
      BY <2>1, <2>4 DEF IInv, RequestInv
    <3> QED BY <2>1, <2>4, <3>1, <3>2
  <2>5. CASE ~(ph = r.ph /\ s = r.seat)
    BY <1>0, <2>1, <2>2, <2>5
  <2> QED BY <2>4, <2>5
<1>3. CASE BotsWrite
  BY <1>3, BotsWriteRows
<1>4. CASE CloseWrite
  BY <1>0, <1>4, CloseWriteRows
<1>5. UNCHANGED rows \/ BotsWrite \/ CloseWrite \/ \E q \in Requests : Commit(q)
  BY DEF Next, LoopStep, BotsRead, Wait, CloseRead, BeginAct, Restart, LoopDies, Tick,
         Load, Check, Leave, vars
<1> QED BY <1>1, <1>2, <1>3, <1>4, <1>5

(* A repeated submission of an agent changes nothing, for every number of  *)
(* repetitions in flight.                                                  *)
THEOREM AnswerStands == Spec => AgentAnswerStands
<1>1. IInv /\ [Next]_vars =>
        [\A ph \in Phases, s \in Agents : Genuine(rows[ph][s]) =>
           \/ rows'[ph][s] = rows[ph][s]
           \/ \E q \in Requests :
                /\ requests[q].at = "loaded" /\ requests[q].seat = s
                /\ requests[q].base # None /\ ~Genuine(requests[q].base)]_vars
  BY StepKeepsAgentAnswer
<1> QED BY <1>1, Invariant, PTL DEF Spec, AgentAnswerStands
-----------------------------------------------------------------------------
(* The seats of players who have left.                                     *)

(* The humans the loop knows to have left when a bot pass begins: all of   *)
(* them, or, while it holds players it loaded earlier, those left by then. *)
Known == {s \in leftBefore : pinned => s \in pin}

(* The pass in progress plays for every one it knows, what it read of them *)
(* is still true, and a pass that has ended has answered for them.         *)
LeaverInv ==
  /\ pc = "botsWrite" =>
       /\ Known \subseteq driven
       /\ \A s \in Seats : Genuine(read[s]) => Genuine(rows[phase][s])
  /\ pc = "wait" => \A s \in Known : Genuine(rows[phase][s])

LEMMA RecordedOverDefault ==
  ASSUME NEW row, NEW base \in Row \cup {None}, NEW new \in Row,
         Genuine(new), ~Genuine(base)
  PROVE  Genuine(Recorded(row, base, new))
<1>1. CASE base = None
  BY <1>1 DEF Recorded
<1>2. CASE base # None
  <2>1. new.genuine = TRUE /\ base.genuine = FALSE
    BY <1>2 DEF Row, Genuine
  <2> QED BY <1>2, <2>1 DEF Recorded, Updated, Genuine
<1> QED BY <1>1, <1>2

(* Whoever the pass plays for has a genuine answer when it has committed.  *)
LEMMA BotsWriteAnswers ==
  ASSUME IInv, LeaverInv, BotsWrite, pc' = "wait", NEW s \in driven
  PROVE  Genuine(rows'[phase][s])
<1>0. /\ rows \in [Phases -> [Seats -> Row \cup {None}]] /\ phase \in Phases
      /\ read \in [Seats -> Row \cup {None}] /\ s \in Seats
  BY DEF IInv, TypeOK
<1>1. Genuine(read[s]) => Genuine(rows[phase][s])
  BY <1>0 DEF LeaverInv, BotsWrite
<1>2. CASE s \notin BotWrites
  <2>1. Genuine(rows[phase][s])
    BY <1>1, <1>2 DEF BotWrites
  <2> QED BY <1>0, <2>1, BotsWriteRows
<1>3. CASE s \in BotWrites
  <2> DEFINE new(choice) == Fresh(IF s \in Bots THEN choice[s] ELSE Default, TRUE)
  <2>1. ~Conflict(rows[phase][s], read[s])
    BY <1>3 DEF BotsWrite
  <2>2. PICK choice \in [Bots -> Answers] :
          rows'[phase][s] = Recorded(rows[phase][s], read[s], new(choice))
    BY <1>0, <1>3 DEF BotsWrite
  <2>3. new(choice) \in Row /\ Genuine(new(choice))
    BY <2>2, FreshType, DefaultType DEF Genuine, Fresh
  <2> HIDE DEF new
  <2>4. CASE Genuine(rows[phase][s])
    BY <1>0, <2>4, BotsWriteRows
  <2>5. CASE ~Genuine(rows[phase][s])
    <3>1. ~Genuine(read[s])
      BY <1>1, <2>5
    <3>2. Genuine(Recorded(rows[phase][s], read[s], new(choice)))
      BY <1>0, <2>3, <3>1, RecordedOverDefault
    <3> QED BY <2>2, <3>2
  <2> QED BY <2>4, <2>5
<1> QED BY <1>2, <1>3

LEMMA LeaverStep == ASSUME IInv, LeaverInv, [Next]_vars PROVE LeaverInv'
<1>0. /\ TypeOK /\ Known \subseteq Seats /\ phase \in Phases
      /\ \A s \in Seats : Genuine(rows[phase][s]) => Genuine(rows'[phase][s])
  BY StepKeepsGenuine DEF IInv, TypeOK, Known, Seats
<1> USE DEF turnVars, loopVars
<1>1. CASE BotsRead
  BY <1>1 DEF BotsRead, LeaverInv, Known
<1>2. CASE BotsWrite
  <2>1. Known' = Known /\ phase' = phase /\ pc' \in {"wait", "stopped"}
    BY <1>2 DEF BotsWrite, Known
  <2>2. Known \subseteq driven
    BY <1>2 DEF BotsWrite, LeaverInv
  <2> QED BY <1>2, <2>1, <2>2, BotsWriteAnswers DEF LeaverInv
<1>3. CASE Wait \/ CloseRead \/ CloseWrite \/ BeginAct \/ Restart \/ LoopDies
  BY <1>3 DEF Wait, CloseRead, CloseWrite, BeginAct, Restart, LoopDies, LeaverInv
<1>4. CASE \/ Tick \/ UNCHANGED vars
           \/ \E s \in Humans : Leave(s)
           \/ \E q \in Requests :
                \/ Load(q) \/ Commit(q)
                \/ \E s \in Seats, kind \in Kinds, answer \in Answers :
                     Check(q, s, kind, answer)
  <2>1. UNCHANGED <<phase, pc, read, driven, leftBefore, pinned, pin>>
    BY <1>4 DEF Tick, vars, Leave, Load, Commit, Check
  <2> QED BY <1>0, <2>1 DEF LeaverInv, Known
<1> QED BY <1>1, <1>2, <1>3, <1>4 DEF Next, LoopStep

(* The table does not wait for the humans the loop knows to have left,     *)
(* for every number of seats and of writers racing for their rows.         *)
THEOREM LeaversAnswered == Spec => []KnownLeaversAnswer
<1>1. Init => LeaverInv
  <2> SUFFICES ASSUME Init PROVE LeaverInv
    OBVIOUS
  <2> QED BY DEF Init, LeaverInv
<1>2. IInv /\ LeaverInv /\ [Next]_vars => LeaverInv'
  BY LeaverStep
<1>3. LeaverInv => KnownLeaversAnswer
  BY DEF LeaverInv, KnownLeaversAnswer, Known
<1> QED BY <1>1, <1>2, <1>3, Invariant, PTL DEF Spec
=============================================================================
