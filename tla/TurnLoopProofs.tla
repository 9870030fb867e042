--------------------------- MODULE TurnLoopProofs ---------------------------
(***************************************************************************)
(* Theorems about TurnLoop for every grid, every set of seats and every    *)
(* number of faults.                                                       *)
(***************************************************************************)
EXTENDS TurnLoop, FiniteSetTheorems, TLAPS

-----------------------------------------------------------------------------
(* Typing, one lemma per process.                                          *)

LEMMA Grid ==
  /\ TotalRounds \in Nat /\ TurnsPerRound \in Nat
  /\ TotalRounds >= 1 /\ TurnsPerRound >= 1
  /\ 1 \in Rounds /\ 1 \in Turns
  BY GridAssumption DEF Rounds, Turns

LEMMA InitTypeOK == Init => TypeOK
<1> SUFFICES ASSUME Init PROVE TypeOK
  OBVIOUS
<1>1. pc \in LoopSteps /\ poller \in PollerSteps
  BY DEF Init, LoopSteps, PollerSteps
<1>2. frozen \in TurnIds /\ round \in Rounds /\ turn \in Turns
  BY Grid DEF Init, TurnIds
<1>3. /\ currentRound \in 0 .. TotalRounds /\ currentTurn \in 0 .. TurnsPerRound
      /\ roundsAwarded \in 0 .. TotalRounds /\ faults \in 0 .. MaxFaults
  BY Grid, BoundAssumption DEF Init
<1> QED BY <1>1, <1>2, <1>3 DEF Init, TypeOK, Phases

LEMMA LoopTypeOK == ASSUME TypeOK, LoopStep PROVE TypeOK'
<1> USE DEF TypeOK, matchVars, turnVars, answerVars, scoreVars,
      loopVars, pollerVars, Goto, Phases, Terminal
<1>0. /\ <<round, turn>> \in TurnIds
      /\ pc \in LoopSteps
      /\ {"startRound", "openTurn", "awardRound", "finalize", "stopped"} \subseteq LoopSteps
      /\ OpenTurnSteps \subseteq LoopSteps
  BY DEF TurnIds, LoopSteps
<1>01. {"botsTalk", "waitTalk", "finalizeTalk", "beginAct", "botsAct", "waitAct",
         "resolveTurn"} \subseteq LoopSteps
  BY DEF LoopSteps, OpenTurnSteps
<1>02. AfterTurn => pc' \in LoopSteps /\ round' \in Rounds /\ turn' \in Turns
                      /\ reset' \in BOOLEAN
  BY <1>0, Grid DEF AfterTurn, Turns
<1>03. AfterRound => pc' \in LoopSteps /\ round' \in Rounds /\ turn' \in Turns
                       /\ reset' \in BOOLEAN
  <2>1. round < TotalRounds => round + 1 \in Rounds
    BY Grid DEF Rounds
  <2> QED BY <1>0, <2>1, Grid DEF AfterRound
<1>1. CASE Boot
  <2>1. /\ currentRound # 0 => currentRound \in Rounds
        /\ currentTurn # 0 => currentTurn \in Turns
    BY Grid DEF Rounds, Turns
  <2>2. round' \in Rounds /\ turn' \in Turns /\ reset' \in BOOLEAN /\ pc' \in LoopSteps
    <3>1. CASE state = "ACTIVE"
      BY <1>1, <1>0, <2>1, <3>1, Grid DEF Boot
    <3>2. CASE state # "ACTIVE"
      BY <1>1, <1>0, <3>2 DEF Boot
    <3> QED BY <3>1, <3>2
  <2> QED BY <1>1, <2>2 DEF Boot
<1>2. CASE StartRound
  BY <1>2, <1>0 DEF StartRound
<1>3. CASE OpenTurn
  <2>1. currentRound' \in 0 .. TotalRounds /\ currentTurn' \in 0 .. TurnsPerRound
    BY <1>3 DEF OpenTurn, Rounds, Turns
  <2>2. CASE OpenNewTurn
    BY <1>3, <2>1, <2>2, <1>0, <1>01 DEF OpenTurn, OpenNewTurn
  <2>3. CASE ReuseTurn
    BY <1>3, <2>1, <2>3, <1>01, <1>02 DEF OpenTurn, ReuseTurn
  <2> QED BY <1>3, <2>2, <2>3 DEF OpenTurn
<1>4. CASE BotsTalk
  BY <1>4, <1>0, <1>01 DEF BotsTalk
<1>5. CASE WaitTalk
  BY <1>5, <1>0, <1>01 DEF WaitTalk
<1>6. CASE FinalizeTalk
  BY <1>6, <1>0, <1>01 DEF FinalizeTalk, FinalizeTalkPhase
<1>7. CASE BeginAct
  BY <1>7, <1>0, <1>01 DEF BeginAct, BeginActPhase
<1>8. CASE BotsAct
  BY <1>8, <1>0, <1>01 DEF BotsAct
<1>9. CASE WaitAct
  BY <1>9, <1>0, <1>01 DEF WaitAct
<1>10. CASE LoopResolves
  BY <1>10, <1>0, <1>02 DEF LoopResolves, ResolveTurn
<1>11. CASE AwardRound
  <2>1. roundsAwarded' \in 0 .. TotalRounds /\ totalScore' \in [TurnIds -> Nat]
    BY <1>11 DEF AwardRound, Rounds
  <2> QED BY <1>11, <2>1, <1>03 DEF AwardRound
<1>12. CASE Finalize
  BY <1>12, <1>0 DEF Finalize
<1> QED
  BY <1>1, <1>2, <1>3, <1>4, <1>5, <1>6, <1>7, <1>8, <1>9, <1>10, <1>11, <1>12
  DEF LoopStep

LEMMA PollerTypeOK == ASSUME TypeOK, PollerStep PROVE TypeOK'
<1> USE DEF TypeOK, matchVars, turnVars, answerVars, scoreVars, loopVars,
      pollerVars, PollerGoto, Phases, Terminal
<1>0. {"watchdog", "cancelPlayerless", "restartDead", "sweep", "stopTask", "load",
        "healTalk", "healAct", "healFlip", "flipResolve", "healResolve", "restart"}
        \subseteq PollerSteps
  BY DEF PollerSteps, HealSteps
<1>01. "boot" \in LoopSteps /\ "stopped" \in LoopSteps
  BY DEF LoopSteps
<1>1. CASE WatchdogScan
  BY <1>1, <1>0 DEF WatchdogScan
<1>2. CASE WatchdogCancels
  BY <1>2, <1>0 DEF WatchdogCancels
<1>3. CASE WatchdogRestarts
  BY <1>3, <1>0, <1>01 DEF WatchdogRestarts, StartTask
<1>4. CASE FindFrozen
  BY <1>4, <1>0 DEF FindFrozen, TurnIsOpen
<1>5. CASE HealStops
  BY <1>5, <1>0, <1>01 DEF HealStops, StopTask
<1>6. CASE HealLoads
  BY <1>6, <1>0 DEF HealLoads
<1>7. CASE HealTalk
  BY <1>7, <1>0 DEF HealTalk, FinalizeTalkPhase
<1>8. CASE HealBeginsAct
  BY <1>8, <1>0 DEF HealBeginsAct, BeginActPhase
<1>9. CASE HealResolves
  BY <1>9, <1>0 DEF HealResolves, ResolveTurn
<1>10. CASE HealRestarts
  BY <1>10, <1>0, <1>01 DEF HealRestarts, StartTask
<1> QED
  BY <1>1, <1>2, <1>3, <1>4, <1>5, <1>6, <1>7, <1>8, <1>9, <1>10 DEF PollerStep

Environment ==
  \/ \E s \in Seats : PlayerAnswers(s)
  \/ Tick
  \/ AdminCancels
  \/ LoopCrashes \/ LoopWedges \/ HealFails \/ ProcessDies
  \/ Startup

LEMMA EnvironmentTypeOK == ASSUME TypeOK, Environment PROVE TypeOK'
<1> USE DEF TypeOK, matchVars, turnVars, answerVars, scoreVars, loopVars,
      pollerVars, PollerGoto, Goto, Phases, Terminal
<1>0. "watchdog" \in PollerSteps /\ "down" \in PollerSteps
  BY DEF PollerSteps
<1>01. "boot" \in LoopSteps /\ "stopped" \in LoopSteps /\ "wedged" \in LoopSteps
  BY DEF LoopSteps
<1>02. Fault => faults' \in 0 .. MaxFaults
  BY BoundAssumption DEF Fault
<1>1. CASE \E s \in Seats : PlayerAnswers(s)
  BY <1>1 DEF PlayerAnswers
<1>2. CASE Tick
  BY <1>2 DEF Tick
<1>3. CASE AdminCancels
  BY <1>3, <1>01 DEF AdminCancels, StopTask
<1>4. CASE LoopCrashes
  BY <1>4, <1>01, <1>02 DEF LoopCrashes
<1>5. CASE LoopWedges
  BY <1>5, <1>01, <1>02 DEF LoopWedges
<1>6. CASE HealFails
  BY <1>6, <1>0, <1>02 DEF HealFails
<1>7. CASE ProcessDies
  BY <1>7, <1>0, <1>01, <1>02 DEF ProcessDies
<1>8. CASE Startup
  BY <1>8, <1>0, <1>01 DEF Startup, StartTask
<1> QED
  BY <1>1, <1>2, <1>3, <1>4, <1>5, <1>6, <1>7, <1>8 DEF Environment

LEMMA NextTypeOK == ASSUME TypeOK, [Next]_vars PROVE TypeOK'
<1>1. CASE LoopStep
  BY <1>1, LoopTypeOK
<1>2. CASE PollerStep
  BY <1>2, PollerTypeOK
<1>3. CASE Environment
  BY <1>3, EnvironmentTypeOK
<1>4. CASE UNCHANGED vars
  BY <1>4 DEF vars, TypeOK, matchVars, turnVars, answerVars, scoreVars, loopVars,
              pollerVars
<1> QED BY <1>1, <1>2, <1>3, <1>4 DEF Next, Environment

(* Every variable of the turn loop keeps its type, whatever crashes.       *)
THEOREM TypeCorrect == Spec => []TypeOK
<1>1. Init => TypeOK
  BY InitTypeOK
<1>2. TypeOK /\ [Next]_vars => TypeOK'
  BY NextTypeOK
<1> QED BY <1>1, <1>2, PTL DEF Spec

-----------------------------------------------------------------------------
(* The rows of the match under each write.                                 *)

rowVars == <<currentRound, currentTurn, roundsAwarded, phase, resolved,
             roundScore, totalScore>>

LEMMA RowsFrame == ASSUME RowsInv, UNCHANGED rowVars PROVE RowsInv'
  BY DEF rowVars, RowsInv, PointerInv, AwardInv, ScoreInv, TotalInv,
         BeforePointer, AtPointer, PointedResolved

LEMMA CellInGrid == ASSUME NEW r \in Rounds, NEW k \in Turns
                    PROVE <<r, k>> \in TurnIds
  BY DEF TurnIds

(* The pointer, when it points, points into the grid.                      *)
LEMMA PointerInGrid ==
  ASSUME TypeOK, RowsInv, currentRound # 0
  PROVE /\ currentRound \in Rounds /\ currentTurn \in Turns
        /\ CurrentTurnId \in TurnIds
        /\ phase[CurrentTurnId] # "none"
<1>1. currentRound \in Rounds /\ currentTurn \in Turns
  BY Grid DEF TypeOK, RowsInv, PointerInv, Rounds, Turns
<1> QED BY <1>1, CellInGrid DEF RowsInv, PointerInv, AtPointer, CurrentTurnId

(* The only row of the grid that is open is the pointed one.               *)
LEMMA OpenIsPointed ==
  ASSUME TypeOK, RowsInv, NEW t \in TurnIds, phase[t] # "none", ~resolved[t]
  PROVE t = CurrentTurnId /\ currentRound # 0
<1>1. PICK r \in Rounds, k \in Turns : t = <<r, k>>
  BY DEF TurnIds
<1>2. AtPointer(r, k)
  BY <1>1 DEF RowsInv, PointerInv
<1> QED BY <1>1, <1>2 DEF AtPointer, CurrentTurnId, Rounds

LEMMA BeginActRows ==
  ASSUME TypeOK, RowsInv, currentRound # 0, BeginActPhase(CurrentTurnId),
         UNCHANGED <<currentRound, currentTurn, roundsAwarded, roundScore, totalScore>>
  PROVE RowsInv'
<1>1. \A r \in Rounds, k \in Turns :
        (phase'[<<r, k>>] # "none") <=> (phase[<<r, k>>] # "none")
  BY PointerInGrid, CellInGrid DEF BeginActPhase, TypeOK, CurrentTurnId
<1>2. resolved' = resolved
  BY DEF BeginActPhase
<1>3. PointerInv'
  BY <1>1, <1>2 DEF RowsInv, PointerInv, BeforePointer, AtPointer
<1>4. AwardInv' /\ ScoreInv' /\ TotalInv'
  BY <1>2 DEF RowsInv, AwardInv, ScoreInv, TotalInv, PointedResolved
<1> QED BY <1>3, <1>4 DEF RowsInv

LEMMA ResolveRows ==
  ASSUME TypeOK, RowsInv, currentRound # 0, ~resolved[CurrentTurnId],
         ResolveTurn(CurrentTurnId),
         UNCHANGED <<currentRound, currentTurn, roundsAwarded>>
  PROVE RowsInv' /\ PointedResolved'
<1>1. currentRound \in Rounds /\ currentTurn \in Turns /\ CurrentTurnId \in TurnIds
  BY PointerInGrid
<1>2. \A r \in Rounds, k \in Turns :
        /\ AtPointer(r, k) => /\ resolved'[<<r, k>>]
                              /\ roundScore'[<<r, k>>] = roundScore[<<r, k>>] + 1
        /\ ~AtPointer(r, k) => /\ resolved'[<<r, k>>] = resolved[<<r, k>>]
                               /\ roundScore'[<<r, k>>] = roundScore[<<r, k>>]
  BY <1>1, CellInGrid DEF ResolveTurn, TypeOK, CurrentTurnId, AtPointer
<1>3. phase' = phase /\ totalScore' = totalScore
  BY DEF ResolveTurn
<1>4. PointedResolved'
  BY <1>1, <1>2 DEF PointedResolved, AtPointer
<1>5. PointerInv'
  BY <1>1, <1>2, <1>3, PointerInGrid
  DEF RowsInv, PointerInv, BeforePointer, AtPointer, CurrentTurnId
<1>6. roundsAwarded = currentRound - 1
  BY DEF RowsInv, AwardInv, PointedResolved, CurrentTurnId
<1>7. AwardInv'
  BY <1>6 DEF AwardInv
<1>8. TotalInv'
  BY <1>3 DEF RowsInv, TotalInv
<1>9. ScoreInv'
  <2>1. roundScore[<<currentRound, currentTurn>>] = 0
    BY <1>1 DEF RowsInv, ScoreInv, CurrentTurnId
  <2> SUFFICES ASSUME NEW r \in Rounds, NEW k \in Turns
               PROVE /\ roundScore'[<<r, k>>] <= 1
                     /\ ~resolved'[<<r, k>>] => roundScore'[<<r, k>>] = 0
                     /\ r # currentRound => roundScore'[<<r, k>>] = 0
                     /\ r = currentRound /\ k > 1 /\ resolved'[<<r, k>>]
                          => roundScore'[<<r, k>>] = 1
    BY DEF ScoreInv
  <2>2. currentRound = roundsAwarded + 1
    BY <1>1, <1>6 DEF TypeOK
  <2>3. /\ roundScore[<<r, k>>] <= 1
        /\ ~resolved[<<r, k>>] => roundScore[<<r, k>>] = 0
        /\ r # currentRound => roundScore[<<r, k>>] = 0
        /\ r = currentRound /\ k > 1 /\ resolved[<<r, k>>] => roundScore[<<r, k>>] = 1
    BY <2>2 DEF RowsInv, ScoreInv
  <2>4. CASE AtPointer(r, k)
    <3>1. r = currentRound /\ k = currentTurn
      BY <2>4 DEF AtPointer
    <3>2. resolved'[<<r, k>>] /\ roundScore'[<<r, k>>] = 1
      BY <1>2, <2>1, <2>4, <3>1
    <3> QED BY <3>1, <3>2
  <2>5. CASE ~AtPointer(r, k)
    BY <1>2, <2>3, <2>5
  <2> QED BY <2>4, <2>5
<1> QED BY <1>4, <1>5, <1>7, <1>8, <1>9 DEF RowsInv

-----------------------------------------------------------------------------
(* The loop task.                                                          *)

(* A step that leaves the rows alone and lands on a step LoopInv says      *)
(* nothing about.                                                          *)
LEMMA FreePc ==
  ASSUME pc' \in {"boot", "wedged", "stopped"} PROVE LoopInv'
  BY DEF LoopInv, OpenTurnSteps

LEMMA InTurn ==
  ASSUME PassInv, pc \in OpenTurnSteps
  PROVE /\ round = currentRound /\ turn = currentTurn /\ currentRound # 0
        /\ <<round, turn>> = CurrentTurnId /\ ~resolved[CurrentTurnId]
<1>1. round \in Rounds
  BY DEF PassInv, TypeOK
<1>2. AtPointer(round, turn) /\ ~resolved[<<round, turn>>]
  BY DEF PassInv, LoopInv
<1> QED BY <1>1, <1>2, Grid DEF AtPointer, CurrentTurnId, Rounds

LEMMA StayInTurn ==
  ASSUME PassInv, pc \in OpenTurnSteps, pc' \in OpenTurnSteps,
         UNCHANGED <<round, turn, currentRound, currentTurn, resolved>>
  PROVE LoopInv'
<1>1. AtPointer(round, turn)' /\ ~resolved'[<<round', turn'>>]
  BY InTurn DEF AtPointer, CurrentTurnId
<1> QED BY <1>1 DEF LoopInv, OpenTurnSteps

LEMMA BootPos == ASSUME PassInv, Boot PROVE RowsInv' /\ LoopInv'
<1>1. UNCHANGED rowVars
  BY DEF Boot, rowVars, matchVars, turnVars, scoreVars
<1>2. RowsInv'
  BY <1>1, RowsFrame DEF PassInv
<1>3. CASE state # "ACTIVE"
  BY <1>2, <1>3, FreePc DEF Boot, Goto
<1>4. CASE state = "ACTIVE"
  <2>1. currentRound = 0 <=> currentTurn = 0
    BY DEF PassInv, RowsInv, PointerInv
  <2>2. pc' = "startRound" /\ reset' = (turn' = 1)
    BY <1>4 DEF Boot
  <2>3. CASE currentRound = 0
    <3>1. AtFirst'
      BY <1>1, <1>4, <2>1, <2>3 DEF Boot, AtFirst, rowVars
    <3> QED BY <1>2, <2>2, <3>1 DEF LoopInv, OpenTurnSteps
  <2>4. CASE currentRound # 0
    <3>1. AtPointer(round, turn)'
      BY <1>1, <1>4, <2>1, <2>4 DEF Boot, AtPointer, rowVars
    <3> QED BY <1>2, <2>2, <3>1 DEF LoopInv, OpenTurnSteps
  <2> QED BY <2>3, <2>4
<1> QED BY <1>2, <1>3, <1>4

LEMMA StartRoundPos == ASSUME PassInv, StartRound PROVE RowsInv' /\ LoopInv'
<1>1. /\ UNCHANGED <<currentRound, currentTurn, roundsAwarded, phase, resolved, totalScore>>
      /\ UNCHANGED <<round, turn, reset>> /\ pc' = "openTurn"
  BY DEF StartRound, matchVars, turnVars, Goto
<1>2. TypeOK /\ RowsInv
  BY DEF PassInv
<1>3. CASE ~reset
  <2>1. UNCHANGED rowVars
    BY <1>1, <1>3 DEF StartRound, rowVars
  <2>2. AtPointer(round, turn) \/ AtFirst
    BY <1>3 DEF PassInv, LoopInv, StartRound
  <2>3. LoopInv'
    BY <1>1, <2>2 DEF LoopInv, OpenTurnSteps, AtPointer, AtFirst
  <2> QED BY <2>1, <2>3, <1>2, RowsFrame
<1>4. CASE reset
  <2>1. \A r \in Rounds, k \in Turns : roundScore'[<<r, k>>] = 0
    BY <1>4, CellInGrid DEF StartRound
  <2>2. LoopInv'
    BY <1>1, <1>4, <2>1
    DEF PassInv, LoopInv, StartRound, OpenTurnSteps, AtPointer, AtFirst, PastTurn,
        PastRound, PointedResolved
  <2>3. PointerInv' /\ AwardInv' /\ TotalInv'
    BY <1>1, <1>2 DEF RowsInv, PointerInv, AwardInv, TotalInv, BeforePointer,
                      AtPointer, PointedResolved
  <2>4. currentRound = roundsAwarded + 1 =>
          \A r \in Rounds, k \in Turns :
            r = currentRound /\ k > 1 => ~resolved[<<r, k>>]
    <3> SUFFICES ASSUME currentRound = roundsAwarded + 1
                 PROVE \A r \in Rounds, k \in Turns :
                         r = currentRound /\ k > 1 => ~resolved[<<r, k>>]
      OBVIOUS
    <3>1. AtPointer(round, turn) /\ turn = 1
      <4>1. currentRound # 0
        BY <1>2 DEF RowsInv, AwardInv
      <4>2. roundsAwarded # currentRound
        BY <1>2 DEF TypeOK
      <4> QED BY <1>4, <4>1, <4>2 DEF PassInv, LoopInv, StartRound, AtFirst, PastRound
    <3>2. currentTurn = 1
      BY <3>1 DEF AtPointer
    <3> SUFFICES ASSUME NEW k \in Turns, k > 1, currentRound \in Rounds
                 PROVE ~resolved[<<currentRound, k>>]
      OBVIOUS
    <3>3. ~BeforePointer(currentRound, k) /\ ~AtPointer(currentRound, k)
      BY <3>2, <1>2 DEF BeforePointer, AtPointer, Turns, TypeOK
    <3> QED BY <1>2, <3>3 DEF RowsInv, PointerInv
  <2>5. ScoreInv'
    <3>1. currentRound' = currentRound /\ roundsAwarded' = roundsAwarded /\ resolved' = resolved
      BY <1>1
    <3>2. \A r \in Rounds, k \in Turns :
            currentRound' = roundsAwarded' + 1 =>
              (r = currentRound' /\ k > 1 /\ resolved'[<<r, k>>]
                 => roundScore'[<<r, k>>] = 1)
      BY <2>4, <3>1
    <3>3. ASSUME NEW r \in Rounds, NEW k \in Turns PROVE roundScore'[<<r, k>>] <= 1
      <4>1. roundScore'[<<r, k>>] = 0
        BY <2>1
      <4> QED BY <4>1
    <3> QED BY <2>1, <3>2, <3>3 DEF ScoreInv
  <2> QED BY <2>2, <2>3, <2>5 DEF RowsInv
<1> QED BY <1>3, <1>4

(* After a resolved turn the loop stands just past it, or at the award.    *)
LEMMA AfterTurnPos ==
  ASSUME PassInv, AfterTurn, AtPointer(round, turn), PointedResolved',
         UNCHANGED <<currentRound, currentTurn>>
  PROVE LoopInv'
<1>1. round' = currentRound' /\ PointedResolved'
  BY DEF AfterTurn, Goto, AtPointer
<1>2. turn \in Turns /\ turn = currentTurn
  BY DEF PassInv, TypeOK, AtPointer
<1>3. CASE turn < TurnsPerRound
  <2>1. PastTurn' /\ pc' = "openTurn"
    BY <1>1, <1>2, <1>3 DEF AfterTurn, PastTurn
  <2> QED BY <2>1 DEF LoopInv, OpenTurnSteps
<1>4. CASE ~(turn < TurnsPerRound)
  <2>1. currentTurn' = TurnsPerRound /\ pc' = "awardRound"
    BY <1>2, <1>4, Grid DEF AfterTurn, Goto, Turns
  <2> QED BY <1>1, <2>1 DEF LoopInv, OpenTurnSteps
<1> QED BY <1>3, <1>4

(* Opening a turn just past the pointer: the new row is the next of the    *)
(* grid, and the round it belongs to starts from zero.                     *)
LEMMA OpenPastRows ==
  ASSUME PassInv, AtFirst \/ PastTurn \/ (PastRound /\ \A r \in Rounds, k \in Turns :
                                          roundScore[<<r, k>>] = 0),
         phase' = [phase EXCEPT ![<<round, turn>>] = "talk"],
         currentRound' = round, currentTurn' = turn,
         UNCHANGED <<roundsAwarded, resolved, roundScore, totalScore>>
  PROVE RowsInv' /\ ~resolved'[<<round, turn>>]
<1>0. /\ TypeOK /\ RowsInv
      /\ round \in Rounds /\ turn \in Turns /\ <<round, turn>> \in TurnIds
  BY CellInGrid DEF PassInv, TypeOK
<1>1. /\ currentRound \in Nat /\ currentTurn \in Nat
      /\ currentTurn <= TurnsPerRound /\ roundsAwarded \in Nat
      /\ TurnsPerRound \in Nat /\ TurnsPerRound >= 1
      /\ \A r \in Rounds : r \in Nat /\ r >= 1
      /\ \A k \in Turns : k \in Nat /\ k >= 1 /\ k <= TurnsPerRound
  BY <1>0, Grid DEF TypeOK, Rounds, Turns
<1>2. \A r \in Rounds, k \in Turns :
        (r < round \/ (r = round /\ k < turn)) <=> (BeforePointer(r, k) \/ AtPointer(r, k))
  BY <1>1, <1>0 DEF AtFirst, PastTurn, PastRound, BeforePointer, AtPointer
<1>3. \A r \in Rounds, k \in Turns : BeforePointer(r, k) \/ AtPointer(r, k) => resolved[<<r, k>>]
  BY <1>0, <1>1 DEF RowsInv, PointerInv, AtPointer, AtFirst, PastTurn, PastRound,
                    PointedResolved
<1>4. \A r \in Rounds, k \in Turns :
        /\ r = round /\ k = turn => phase'[<<r, k>>] = "talk"
        /\ ~(r = round /\ k = turn) => phase'[<<r, k>>] = phase[<<r, k>>]
  BY <1>0, CellInGrid DEF TypeOK
<1>5. PointerInv'
  <2>1. round # 0 /\ turn # 0
    BY <1>0, <1>1
  <2>2. ASSUME NEW r \in Rounds, NEW k \in Turns
        PROVE /\ phase'[<<r, k>>] # "none" <=> (BeforePointer(r, k)' \/ AtPointer(r, k)')
              /\ BeforePointer(r, k)' => resolved'[<<r, k>>]
              /\ resolved'[<<r, k>>] => phase'[<<r, k>>] # "none"
    <3>1. BeforePointer(r, k)' <=> BeforePointer(r, k) \/ AtPointer(r, k)
      BY <1>2 DEF BeforePointer
    <3>2. AtPointer(r, k)' <=> r = round /\ k = turn
      BY DEF AtPointer
    <3>3. /\ phase[<<r, k>>] # "none" <=> (BeforePointer(r, k) \/ AtPointer(r, k))
          /\ resolved[<<r, k>>] => phase[<<r, k>>] # "none"
      BY <1>0 DEF RowsInv, PointerInv
    <3> QED BY <1>3, <1>4, <3>1, <3>2, <3>3
  <2> QED BY <2>1, <2>2 DEF PointerInv
<1>6. ~resolved[<<round, turn>>]
  <2>1. ~(BeforePointer(round, turn) \/ AtPointer(round, turn))
    BY <1>0, <1>1, <1>2
  <2> QED BY <1>0, <2>1 DEF RowsInv, PointerInv
<1>7. AwardInv'
  <2>1. currentRound # 0 /\ PastTurn => roundsAwarded = round - 1
    BY <1>0, <1>1 DEF RowsInv, AwardInv, PastTurn, Turns
  <2>2. roundsAwarded = round - 1
    BY <1>0, <1>1, <2>1 DEF RowsInv, AwardInv, AtFirst, PastTurn, PastRound,
                            PointedResolved
  <2> QED BY <1>0, <1>1, <2>2 DEF AwardInv
<1>8. ScoreInv'
  <2>1. \A r \in Rounds, k \in Turns :
          /\ roundScore[<<r, k>>] <= 1
          /\ ~resolved[<<r, k>>] => roundScore[<<r, k>>] = 0
    BY <1>0 DEF RowsInv, ScoreInv
  <2>2. ASSUME NEW r \in Rounds, NEW k \in Turns
        PROVE /\ r # round => roundScore[<<r, k>>] = 0
              /\ r = round /\ k > 1 /\ resolved[<<r, k>>] => roundScore[<<r, k>>] = 1
    <3>1. CASE AtFirst
      <4>1. ~resolved[<<r, k>>]
        BY <1>0, <1>1, <3>1 DEF RowsInv, PointerInv, AtFirst, BeforePointer, AtPointer
      <4> QED BY <2>1, <4>1
    <3>2. CASE PastTurn
      <4>1. currentRound = roundsAwarded + 1 /\ round = currentRound
        BY <1>0, <1>1, <3>2 DEF RowsInv, AwardInv, PastTurn, PointedResolved, Turns
      <4> QED BY <1>0, <4>1 DEF RowsInv, ScoreInv
    <3>3. CASE PastRound /\ \A rr \in Rounds, kk \in Turns : roundScore[<<rr, kk>>] = 0
      <4>1. r = round => ~resolved[<<r, k>>]
        BY <1>0, <1>1, <3>3 DEF RowsInv, PointerInv, PastRound, BeforePointer, AtPointer
      <4> QED BY <3>3, <4>1
    <3> QED BY <3>1, <3>2, <3>3
  <2> QED BY <2>1, <2>2 DEF ScoreInv
<1>9. TotalInv'
  BY <1>0 DEF RowsInv, TotalInv
<1> QED BY <1>5, <1>6, <1>7, <1>8, <1>9 DEF RowsInv

LEMMA OpenTurnPos == ASSUME PassInv, OpenTurn PROVE RowsInv' /\ LoopInv'
<1>0. /\ TypeOK /\ RowsInv /\ pc = "openTurn"
      /\ currentRound' = round /\ currentTurn' = turn
      /\ round \in Rounds /\ turn \in Turns
      /\ UNCHANGED <<roundsAwarded, roundScore, totalScore>>
  BY DEF PassInv, TypeOK, OpenTurn, scoreVars
<1>1. \/ AtPointer(round, turn)
      \/ AtFirst \/ PastTurn
      \/ PastRound /\ \A r \in Rounds, k \in Turns : roundScore[<<r, k>>] = 0
  BY <1>0 DEF PassInv, LoopInv
<1>2. CASE AtPointer(round, turn)
  <2>1. phase[<<round, turn>>] # "none"
    BY <1>0, <1>2 DEF RowsInv, PointerInv
  <2>2. ReuseTurn
    BY <2>1 DEF OpenTurn, OpenNewTurn
  <2>3. UNCHANGED rowVars
    BY <1>0, <1>2, <2>2 DEF ReuseTurn, AtPointer, rowVars, turnVars
  <2>4. RowsInv'
    BY <1>0, <2>3, RowsFrame
  <2>5. CASE resolved[<<round, turn>>]
    <3>1. AfterTurn
      BY <2>2, <2>5 DEF ReuseTurn
    <3>2. PointedResolved' /\ UNCHANGED <<currentRound, currentTurn>>
      BY <1>0, <1>2, <2>3, <2>5, Grid DEF PointedResolved, AtPointer, rowVars, Rounds
    <3> QED BY <1>2, <2>4, <3>1, <3>2, AfterTurnPos
  <2>6. CASE ~resolved[<<round, turn>>]
    <3>1. pc' \in OpenTurnSteps /\ UNCHANGED <<round, turn>>
      BY <2>2, <2>6 DEF ReuseTurn, Goto, OpenTurnSteps
    <3>2. AtPointer(round, turn)' /\ ~resolved'[<<round', turn'>>]
      BY <1>0, <2>3, <2>6, <3>1 DEF AtPointer, rowVars
    <3> QED BY <2>4, <3>1, <3>2 DEF LoopInv, OpenTurnSteps
  <2> QED BY <2>5, <2>6
<1>3. CASE /\ ~AtPointer(round, turn)
           /\ \/ AtFirst \/ PastTurn
              \/ PastRound /\ \A r \in Rounds, k \in Turns : roundScore[<<r, k>>] = 0
  <2>1. phase[<<round, turn>>] = "none"
    <3>1. ~BeforePointer(round, turn)
      BY <1>0, <1>3, Grid DEF TypeOK, AtFirst, PastTurn, PastRound, BeforePointer,
                              Rounds, Turns
    <3> QED BY <1>0, <1>3, <3>1 DEF RowsInv, PointerInv
  <2>2. OpenNewTurn
    BY <2>1 DEF OpenTurn, ReuseTurn
  <2>3. /\ phase' = [phase EXCEPT ![<<round, turn>>] = "talk"]
        /\ UNCHANGED resolved
        /\ pc' = "botsTalk" /\ UNCHANGED <<round, turn>>
    BY <2>2 DEF OpenNewTurn, Goto
  <2>4. RowsInv' /\ ~resolved'[<<round, turn>>]
    BY <1>0, <1>3, <2>3, OpenPastRows
  <2>5. AtPointer(round, turn)' /\ ~resolved'[<<round', turn'>>]
    BY <1>0, <2>3, <2>4 DEF AtPointer
  <2> QED BY <2>3, <2>4, <2>5 DEF LoopInv, OpenTurnSteps
<1> QED BY <1>1, <1>2, <1>3

LEMMA AwardPos == ASSUME PassInv, AwardRound PROVE RowsInv' /\ LoopInv'
<1>0. /\ TypeOK /\ RowsInv /\ pc = "awardRound"
      /\ round = currentRound /\ currentTurn = TurnsPerRound /\ PointedResolved
      /\ round \in Rounds /\ round \in Nat /\ round >= 1 /\ roundsAwarded \in Nat
      /\ currentRound # 0
      /\ UNCHANGED <<currentRound, currentTurn, phase, resolved, roundScore>>
  BY Grid DEF PassInv, TypeOK, LoopInv, AwardRound, turnVars, PointedResolved, Rounds
<1>1. roundsAwarded' = currentRound /\ RowsInv'
  <2>1. CASE round <= roundsAwarded
    <3>1. UNCHANGED rowVars /\ roundsAwarded = currentRound
      BY <1>0, <2>1 DEF AwardRound, rowVars, RowsInv, AwardInv
    <3> QED BY <1>0, <3>1, RowsFrame DEF rowVars
  <2>2. CASE round > roundsAwarded
    <3>1. /\ roundsAwarded' = round
          /\ \A r \in Rounds, k \in Turns :
               totalScore'[<<r, k>>] = totalScore[<<r, k>>] + roundScore[<<r, k>>]
      BY <1>0, <2>2, CellInGrid DEF AwardRound
    <3>2. roundsAwarded = currentRound - 1
      BY <1>0, <2>2 DEF RowsInv, AwardInv
    <3>3. PointerInv' /\ AwardInv'
      BY <1>0, <3>1 DEF RowsInv, PointerInv, AwardInv, BeforePointer, AtPointer,
                        PointedResolved
    <3>4. ScoreInv'
      <4>1. currentRound' # roundsAwarded' + 1
        BY <1>0, <3>1
      <4> QED BY <1>0, <4>1 DEF RowsInv, ScoreInv
    <3>5. ASSUME NEW r \in Rounds, NEW k \in Turns
          PROVE /\ r > round => totalScore'[<<r, k>>] = 0
                /\ r <= round => totalScore'[<<r, k>>] <= 1
                /\ r <= round /\ k > 1 => totalScore'[<<r, k>>] = 1
      <4>1. /\ r \in Nat /\ k \in Nat /\ k >= 1 /\ k <= TurnsPerRound
            /\ roundScore[<<r, k>>] \in Nat /\ totalScore[<<r, k>>] \in Nat
        BY <1>0, CellInGrid, Grid DEF TypeOK, Rounds, Turns
      <4>2. /\ r > roundsAwarded => totalScore[<<r, k>>] = 0
            /\ r <= roundsAwarded => totalScore[<<r, k>>] <= 1
            /\ r <= roundsAwarded /\ k > 1 => totalScore[<<r, k>>] = 1
        BY <1>0 DEF RowsInv, TotalInv
      <4>3. /\ roundScore[<<r, k>>] <= 1
            /\ r # currentRound => roundScore[<<r, k>>] = 0
            /\ r = currentRound /\ k > 1 /\ resolved[<<r, k>>] => roundScore[<<r, k>>] = 1
        BY <1>0, <3>2 DEF RowsInv, ScoreInv
      <4>4. r = currentRound => resolved[<<r, k>>]
        <5>1. r = currentRound => BeforePointer(r, k) \/ k = currentTurn
          BY <1>0, <4>1, Grid DEF BeforePointer
        <5> QED BY <1>0, <5>1 DEF RowsInv, PointerInv, PointedResolved
      <4>5. totalScore'[<<r, k>>] = totalScore[<<r, k>>] + roundScore[<<r, k>>]
        BY <3>1
      <4>6. r < currentRound \/ r = currentRound \/ r > currentRound
        BY <1>0, <4>1
      <4> QED BY <1>0, <3>2, <4>1, <4>2, <4>3, <4>4, <4>5, <4>6
    <3>6. TotalInv'
      BY <3>1, <3>5 DEF TotalInv
    <3> QED BY <1>0, <3>1, <3>3, <3>4, <3>6 DEF RowsInv
  <2> QED BY <1>0, <2>1, <2>2
<1>2. LoopInv'
  <2>1. CASE round < TotalRounds
    <3>1. pc' = "startRound" /\ PastRound' /\ reset'
      BY <1>0, <1>1, <2>1 DEF AwardRound, AfterRound, PastRound, PointedResolved
    <3> QED BY <3>1 DEF LoopInv, OpenTurnSteps
  <2>2. CASE ~(round < TotalRounds)
    <3>1. pc' = "finalize" /\ roundsAwarded' = TotalRounds
      BY <1>0, <1>1, <2>2, Grid DEF AwardRound, AfterRound, Goto, Rounds
    <3> QED BY <3>1 DEF LoopInv, OpenTurnSteps
  <2> QED BY <2>1, <2>2
<1> QED BY <1>1, <1>2

LEMMA LoopStepInv == ASSUME PassInv, LoopStep PROVE PassInv'
<1>0. TypeOK' /\ RowsInv /\ poller \notin HealSteps
  <2>1. pc # "stopped"
    BY DEF LoopStep, Boot, StartRound, OpenTurn, BotsTalk, WaitTalk, FinalizeTalk,
           BeginAct, BotsAct, WaitAct, LoopResolves, AwardRound, Finalize
  <2> QED BY <2>1, LoopTypeOK DEF PassInv, HealInv
<1>1. HealInv'
  <2>1. UNCHANGED poller
    BY DEF LoopStep, Boot, StartRound, OpenTurn, BotsTalk, WaitTalk, FinalizeTalk,
           BeginAct, BotsAct, WaitAct, LoopResolves, AwardRound, Finalize, pollerVars
  <2> QED BY <1>0, <2>1 DEF HealInv
<1>2. CASE Boot
  BY <1>0, <1>1, <1>2, BootPos DEF PassInv
<1>3. CASE StartRound
  BY <1>0, <1>1, <1>3, StartRoundPos DEF PassInv
<1>4. CASE OpenTurn
  BY <1>0, <1>1, <1>4, OpenTurnPos DEF PassInv
<1>5. CASE BotsTalk \/ WaitTalk \/ FinalizeTalk \/ BotsAct
  <2>1. UNCHANGED rowVars
    BY <1>5 DEF BotsTalk, WaitTalk, FinalizeTalk, FinalizeTalkPhase, BotsAct, rowVars,
                matchVars, turnVars, scoreVars
  <2>2. /\ pc \in OpenTurnSteps
        /\ pc' \in OpenTurnSteps \cup {"stopped"}
        /\ UNCHANGED <<round, turn>>
    BY <1>5 DEF BotsTalk, WaitTalk, FinalizeTalk, BotsAct, Goto, OpenTurnSteps
  <2>3. LoopInv'
    BY <2>1, <2>2, StayInTurn, FreePc DEF rowVars
  <2> QED BY <1>0, <1>1, <2>1, <2>3, RowsFrame DEF PassInv
<1>6. CASE BeginAct
  <2>1. /\ pc \in OpenTurnSteps /\ pc' \in OpenTurnSteps
        /\ UNCHANGED <<round, turn, currentRound, currentTurn, resolved>>
        /\ BeginActPhase(<<round, turn>>)
        /\ UNCHANGED <<roundsAwarded, roundScore, totalScore>>
    BY <1>6 DEF BeginAct, BeginActPhase, Goto, OpenTurnSteps, matchVars, scoreVars
  <2>2. LoopInv'
    BY <2>1, StayInTurn
  <2>3. RowsInv'
    BY <2>1, InTurn, BeginActRows DEF PassInv
  <2> QED BY <1>0, <1>1, <2>2, <2>3 DEF PassInv
<1>7. CASE WaitAct
  <2>1. UNCHANGED rowVars
    BY <1>7 DEF WaitAct, rowVars, matchVars, turnVars, scoreVars
  <2>2. pc \in OpenTurnSteps /\ pc' \in OpenTurnSteps /\ UNCHANGED <<round, turn>>
    BY <1>7 DEF WaitAct, Goto, OpenTurnSteps
  <2> QED BY <1>0, <1>1, <2>1, <2>2, StayInTurn, RowsFrame DEF PassInv, rowVars
<1>8. CASE LoopResolves
  <2>1. /\ pc \in OpenTurnSteps /\ ResolveTurn(<<round, turn>>) /\ AfterTurn
        /\ UNCHANGED <<currentRound, currentTurn, roundsAwarded>>
    BY <1>8 DEF LoopResolves, OpenTurnSteps, matchVars
  <2>2. RowsInv' /\ PointedResolved'
    BY <2>1, InTurn, ResolveRows DEF PassInv
  <2>3. LoopInv'
    BY <2>1, <2>2, InTurn, AfterTurnPos DEF AtPointer
  <2> QED BY <1>0, <1>1, <2>2, <2>3 DEF PassInv
<1>9. CASE AwardRound
  BY <1>0, <1>1, <1>9, AwardPos DEF PassInv
<1>10. CASE Finalize
  <2>1. UNCHANGED rowVars /\ pc' = "stopped"
    BY <1>10 DEF Finalize, Goto, rowVars, turnVars, scoreVars
  <2> QED BY <1>0, <1>1, <2>1, RowsFrame, FreePc DEF PassInv
<1> QED
  BY <1>2, <1>3, <1>4, <1>5, <1>6, <1>7, <1>8, <1>9, <1>10 DEF LoopStep

-----------------------------------------------------------------------------
(* The poller.                                                             *)

(* A poller step that leaves rows and position alone and either leaves the *)
(* task alone or makes it run nothing yet.                                 *)
LEMMA QuietPos ==
  ASSUME PassInv, UNCHANGED rowVars, UNCHANGED <<round, turn, reset>>,
         pc' = pc \/ pc' \in {"boot", "wedged", "stopped"}
  PROVE RowsInv' /\ LoopInv'
<1>1. RowsInv'
  BY RowsFrame DEF PassInv
<1>2. CASE pc' = pc
  BY <1>1, <1>2 DEF PassInv, LoopInv, rowVars, AtPointer, AtFirst, PastTurn, PastRound,
                   PointedResolved
<1>3. CASE pc' \in {"boot", "wedged", "stopped"}
  BY <1>1, <1>3, FreePc
<1> QED BY <1>1, <1>2, <1>3

LEMMA PollerStepInv == ASSUME PassInv, PollerStep PROVE PassInv'
<1>0. TypeOK /\ TypeOK' /\ RowsInv /\ HealInv /\ LoopInv
  BY PollerTypeOK DEF PassInv
<1>1. CASE WatchdogScan \/ WatchdogCancels \/ WatchdogRestarts \/ FindFrozen
  <2>1. UNCHANGED rowVars /\ UNCHANGED <<round, turn, reset>> /\ (pc' = pc \/ pc' = "boot")
    BY <1>1 DEF WatchdogScan, WatchdogCancels, WatchdogRestarts, FindFrozen, rowVars,
                matchVars, turnVars, scoreVars, loopVars, StartTask
  <2>2. poller' \notin HealSteps
    BY <1>1 DEF WatchdogScan, WatchdogCancels, WatchdogRestarts, FindFrozen,
                PollerGoto, HealSteps
  <2> QED BY <1>0, <2>1, <2>2, QuietPos DEF PassInv, HealInv
<1>2. CASE HealStops
  <2>1. UNCHANGED rowVars /\ UNCHANGED <<round, turn, reset>>
        /\ pc' = "stopped" /\ poller' = "load"
    BY <1>2 DEF HealStops, StopTask, PollerGoto, rowVars, matchVars, turnVars, scoreVars
  <2> QED BY <1>0, <2>1, QuietPos DEF PassInv, HealInv
<1>3. CASE HealLoads
  <2>1. UNCHANGED rowVars /\ UNCHANGED <<pc, round, turn, reset, frozen>>
        /\ poller \in HealSteps
    BY <1>3 DEF HealLoads, PollerGoto, HealSteps, rowVars, matchVars, turnVars,
                scoreVars, loopVars
  <2>2. pc' = "stopped"
    BY <1>0, <2>1 DEF HealInv
  <2>3. HealInv'
    <3>1. CASE poller' \in {"load", "restart"}
      BY <2>2, <3>1 DEF HealInv
    <3>2. CASE poller' \notin {"load", "restart"}
      <4>1. StillFrozen
        BY <1>3, <3>2 DEF HealLoads, PollerGoto
      <4>2. frozen = CurrentTurnId /\ currentRound # 0 /\ ~resolved[frozen]
        BY <1>0, <4>1, OpenIsPointed DEF StillFrozen, TypeOK
      <4> QED BY <2>1, <2>2, <4>2 DEF HealInv, CurrentTurnId, rowVars
    <3> QED BY <3>1, <3>2
  <2> QED BY <1>0, <2>1, <2>3, QuietPos DEF PassInv
<1>4. CASE HealTalk
  <2>1. UNCHANGED rowVars /\ UNCHANGED <<pc, round, turn, reset, frozen>>
        /\ poller \in HealSteps \ {"load", "restart"} /\ poller' = "healAct"
    BY <1>4 DEF HealTalk, FinalizeTalkPhase, PollerGoto, HealSteps, rowVars, matchVars,
                scoreVars, loopVars
  <2>2. HealInv'
    BY <1>0, <2>1 DEF HealInv, CurrentTurnId, rowVars, HealSteps
  <2> QED BY <1>0, <2>1, <2>2, QuietPos DEF PassInv
<1>5. CASE HealBeginsAct
  <2>1. /\ poller \in HealSteps \ {"load", "restart"}
        /\ BeginActPhase(frozen) /\ UNCHANGED resolved
        /\ UNCHANGED <<currentRound, currentTurn, roundsAwarded, roundScore, totalScore>>
        /\ UNCHANGED <<pc, frozen>>
    BY <1>5 DEF HealBeginsAct, BeginActPhase, PollerGoto, HealSteps, matchVars,
                scoreVars, loopVars
  <2>2. pc = "stopped" /\ frozen = CurrentTurnId /\ currentRound # 0 /\ ~resolved[frozen]
    BY <1>0, <2>1 DEF HealInv
  <2>3. RowsInv' /\ LoopInv'
    BY <1>0, <2>1, <2>2, BeginActRows, FreePc
  <2>4. HealInv'
    BY <2>1, <2>2 DEF HealInv, CurrentTurnId
  <2> QED BY <1>0, <2>3, <2>4 DEF PassInv
<1>6. CASE HealResolves
  <2>1. /\ poller \in HealSteps \ {"load", "restart"} /\ poller' = "restart"
        /\ ResolveTurn(frozen)
        /\ UNCHANGED <<currentRound, currentTurn, roundsAwarded, pc>>
    BY <1>6 DEF HealResolves, PollerGoto, HealSteps, matchVars, loopVars
  <2>2. pc = "stopped" /\ frozen = CurrentTurnId /\ currentRound # 0 /\ ~resolved[frozen]
    BY <1>0, <2>1 DEF HealInv
  <2>3. RowsInv' /\ LoopInv'
    BY <1>0, <2>1, <2>2, ResolveRows, FreePc
  <2> QED BY <1>0, <2>1, <2>2, <2>3 DEF PassInv, HealInv
<1>7. CASE HealRestarts
  <2>1. UNCHANGED rowVars /\ UNCHANGED <<round, turn, reset>>
        /\ (pc' = pc \/ pc' = "boot") /\ poller' = "watchdog"
    BY <1>7 DEF HealRestarts, StartTask, PollerGoto, rowVars, matchVars, turnVars, scoreVars
  <2> QED BY <1>0, <2>1, QuietPos DEF PassInv, HealInv, HealSteps
<1> QED
  BY <1>1, <1>2, <1>3, <1>4, <1>5, <1>6, <1>7 DEF PollerStep

-----------------------------------------------------------------------------
(* Players, time, the administrator and faults.                            *)

LEMMA EnvironmentInv == ASSUME PassInv, Environment PROVE PassInv'
<1>0. TypeOK /\ TypeOK' /\ HealInv
  BY EnvironmentTypeOK DEF PassInv
<1>1. UNCHANGED rowVars /\ UNCHANGED <<round, turn, reset>>
  BY DEF Environment, PlayerAnswers, Tick, AdminCancels, LoopCrashes, LoopWedges,
         HealFails, ProcessDies, Startup, Goto, rowVars, matchVars, turnVars,
         scoreVars, loopVars
<1>2. pc' = pc \/ pc' \in {"boot", "wedged", "stopped"}
  BY DEF Environment, PlayerAnswers, Tick, AdminCancels, StopTask, LoopCrashes,
         LoopWedges, HealFails, ProcessDies, Startup, StartTask, Goto, loopVars
<1>3. RowsInv' /\ LoopInv'
  BY <1>1, <1>2, QuietPos
<1>4. HealInv'
  <2>1. CASE poller' \in HealSteps
    <3>1. UNCHANGED <<poller, frozen>>
      BY <2>1 DEF Environment, PlayerAnswers, Tick, AdminCancels, LoopCrashes, LoopWedges,
                  HealFails, ProcessDies, Startup, PollerGoto, pollerVars, HealSteps
    <3>2. pc = "stopped"
      BY <1>0, <2>1, <3>1 DEF HealInv
    <3>3. pc' = "stopped"
      BY <2>1, <3>1, <3>2
      DEF Environment, PlayerAnswers, Tick, AdminCancels, StopTask, LoopCrashes,
          LoopWedges, HealFails, ProcessDies, Startup, Goto, loopVars, HealSteps,
          OpenTurnSteps
    <3> QED BY <1>0, <1>1, <3>1, <3>3 DEF HealInv, CurrentTurnId, rowVars
  <2>2. CASE poller' \notin HealSteps
    BY <2>2 DEF HealInv
  <2> QED BY <2>1, <2>2
<1> QED BY <1>0, <1>3, <1>4 DEF PassInv

-----------------------------------------------------------------------------
LEMMA InitPass == Init => PassInv
<1> SUFFICES ASSUME Init PROVE PassInv
  OBVIOUS
<1>1. TypeOK
  BY InitTypeOK
<1>2. ASSUME NEW r \in Rounds, NEW k \in Turns
      PROVE /\ phase[<<r, k>>] = "none" /\ ~resolved[<<r, k>>]
            /\ roundScore[<<r, k>>] = 0 /\ totalScore[<<r, k>>] = 0
            /\ r \in Nat /\ k \in Nat /\ r >= 1 /\ k >= 1
  <2>1. <<r, k>> \in TurnIds
    BY DEF TurnIds
  <2>2. /\ phase[<<r, k>>] = "none" /\ ~resolved[<<r, k>>]
        /\ roundScore[<<r, k>>] = 0 /\ totalScore[<<r, k>>] = 0
    BY <2>1 DEF Init
  <2>3. r \in Nat /\ k \in Nat /\ r >= 1 /\ k >= 1
    BY Grid DEF Rounds, Turns
  <2> QED BY <2>2, <2>3
<1>3. PointerInv
  <2>1. currentRound = 0 /\ currentTurn = 0
    BY DEF Init
  <2>2. ASSUME NEW r \in Rounds, NEW k \in Turns
        PROVE ~BeforePointer(r, k) /\ ~AtPointer(r, k)
    <3>1. r \in Nat /\ r >= 1 /\ k \in Nat
      BY <1>2
    <3> QED BY <2>1, <3>1 DEF BeforePointer, AtPointer
  <2> QED BY <1>2, <2>1, <2>2 DEF PointerInv
<1>4. AwardInv
  BY DEF Init, AwardInv
<1>5. ScoreInv
  <2>1. currentRound # roundsAwarded + 1
    BY DEF Init
  <2>2. \A r \in Rounds, k \in Turns : roundScore[<<r, k>>] = 0
    BY <1>2
  <2>3. ASSUME NEW r \in Rounds, NEW k \in Turns PROVE roundScore[<<r, k>>] <= 1
    <3>1. roundScore[<<r, k>>] = 0
      BY <2>2
    <3> QED BY <3>1
  <2> QED BY <2>1, <2>2, <2>3 DEF ScoreInv
<1>6. TotalInv
  <2>1. \A r \in Rounds : ~(r <= roundsAwarded)
    BY DEF Init, Rounds
  <2> QED BY <1>2, <2>1 DEF TotalInv
<1>7. LoopInv
  BY DEF Init, LoopInv, OpenTurnSteps
<1>8. HealInv
  BY DEF Init, HealInv, HealSteps
<1> QED BY <1>1, <1>3, <1>4, <1>5, <1>6, <1>7, <1>8 DEF PassInv, RowsInv

LEMMA NextPass == ASSUME PassInv, [Next]_vars PROVE PassInv'
<1>1. CASE LoopStep
  BY <1>1, LoopStepInv
<1>2. CASE PollerStep
  BY <1>2, PollerStepInv
<1>3. CASE Environment
  BY <1>3, EnvironmentInv
<1>4. CASE UNCHANGED vars
  <2>1. TypeOK'
    BY <1>4, NextTypeOK DEF PassInv
  <2>2. UNCHANGED rowVars /\ UNCHANGED <<pc, round, turn, reset, poller, frozen>>
    BY <1>4 DEF vars, rowVars, matchVars, turnVars, scoreVars, loopVars, pollerVars
  <2>3. HealInv'
    BY <2>2 DEF PassInv, HealInv, CurrentTurnId, rowVars
  <2> QED BY <2>1, <2>2, <2>3, QuietPos DEF PassInv
<1> QED BY <1>1, <1>2, <1>3, <1>4 DEF Next, Environment

-----------------------------------------------------------------------------
(* Cancellation.                                                           *)

LEMMA CancelStep == ASSUME CancelInv, [Next]_vars PROVE CancelInv'
<1> USE DEF CancelInv, Terminal, matchVars, loopVars, Goto
<1>1. CASE LoopStep
  <2>1. UNCHANGED admin
    BY <1>1 DEF LoopStep, Boot, StartRound, OpenTurn, BotsTalk, WaitTalk, FinalizeTalk,
           BeginAct, BotsAct, WaitAct, LoopResolves, AwardRound, Finalize
  <2>2. state' = state \/ state' = "COMPLETED"
    BY <1>1 DEF LoopStep, Boot, StartRound, OpenTurn, BotsTalk, WaitTalk, FinalizeTalk,
           BeginAct, BotsAct, WaitAct, LoopResolves, AwardRound, Finalize
  <2>3. admin = "done" => pc' = "stopped"
    BY <1>1 DEF LoopStep, Boot, StartRound, OpenTurn, BotsTalk, WaitTalk, FinalizeTalk,
           BeginAct, BotsAct, WaitAct, LoopResolves, AwardRound, Finalize
  <2> QED BY <2>1, <2>2, <2>3
<1>2. CASE PollerStep
  <2>1. UNCHANGED admin /\ (state' = state \/ state' = "CANCELLED")
    BY <1>2 DEF PollerStep, WatchdogScan, WatchdogCancels, WatchdogRestarts, FindFrozen,
           HealStops, HealLoads, HealTalk, HealBeginsAct, HealResolves, HealRestarts
  <2>2. pc' = pc \/ pc' \in {"boot", "stopped"}
    BY <1>2 DEF PollerStep, WatchdogScan, WatchdogCancels, WatchdogRestarts, FindFrozen,
           HealStops, HealLoads, HealTalk, HealBeginsAct, HealResolves, HealRestarts,
           StartTask, StopTask
  <2> QED BY <2>1, <2>2
<1>3. CASE (\E s \in Seats : PlayerAnswers(s)) \/ Tick \/ HealFails \/ Startup
  <2>1. UNCHANGED <<admin, state>> /\ (pc' = pc \/ pc' = "boot")
    BY <1>3 DEF PlayerAnswers, Tick, HealFails, Startup, StartTask
  <2> QED BY <2>1
<1>4. CASE AdminCancels
  BY <1>4 DEF AdminCancels, StopTask
<1>5. CASE LoopCrashes \/ LoopWedges \/ ProcessDies
  <2>1. UNCHANGED state
    BY <1>5 DEF LoopCrashes, LoopWedges, ProcessDies
  <2>2. CASE LoopCrashes \/ ProcessDies
    BY <2>1, <2>2 DEF LoopCrashes, ProcessDies
  <2>3. CASE LoopWedges
    BY <2>1, <2>3 DEF LoopWedges, OpenTurnSteps
  <2> QED BY <1>5, <2>2, <2>3
<1>6. CASE UNCHANGED vars
  BY <1>6 DEF vars
<1> QED BY <1>1, <1>2, <1>3, <1>4, <1>5, <1>6 DEF Next

-----------------------------------------------------------------------------
(* Why a turn may be resolved.                                             *)

(* The two counts _all_submitted compares decide inclusion, because only   *)
(* seated players have submissions.                                        *)
LEMMA CountsCompare ==
  ASSUME TypeOK, submissions \subseteq seated, AllAnswered(submissions)
  PROVE  seated \subseteq submissions
<1>1. IsFiniteSet(seated)
  BY SeatAssumption, FS_Subset DEF TypeOK
<1>2. IsFiniteSet(submissions) /\ Cardinality(submissions) <= Cardinality(seated)
  BY <1>1, FS_Subset
<1>3. Cardinality(submissions) = Cardinality(seated)
  BY <1>1, <1>2, FS_CardinalityType DEF AllAnswered
<1>4. submissions = seated
  BY <1>1, <1>3, FS_Subset
<1> QED BY <1>4

LEMMA AnswerStep == ASSUME PassInv, AnswerInv, [Next]_vars PROVE AnswerInv'
<1> USE DEF AnswerInv, turnVars, answerVars, loopVars, pollerVars, Goto, PollerGoto
<1>0. TypeOK /\ HealInv
  BY DEF PassInv
<1>1. CASE LoopStep
  <2>0. UNCHANGED poller /\ poller # "healResolve"
    <3>1. UNCHANGED poller /\ pc # "stopped"
      BY <1>1 DEF LoopStep, Boot, StartRound, OpenTurn, BotsTalk, WaitTalk, FinalizeTalk,
             BeginAct, BotsAct, WaitAct, LoopResolves, AwardRound, Finalize
    <3> QED BY <1>0, <3>1 DEF HealInv, HealSteps
  <2>1. CASE OpenTurn
    BY <2>0, <2>1 DEF OpenTurn, OpenNewTurn, ReuseTurn, AfterTurn
  <2>2. CASE WaitAct
    BY <1>0, <2>0, <2>2, CountsCompare DEF WaitAct
  <2>3. CASE BotsAct
    BY <2>0, <2>3 DEF BotsAct
  <2>4. CASE LoopStep /\ ~OpenTurn /\ ~WaitAct /\ ~BotsAct
    <3>1. UNCHANGED <<seated, submissions>>
      BY <2>4 DEF LoopStep, Boot, StartRound, BotsTalk, WaitTalk, FinalizeTalk,
             BeginAct, LoopResolves, AwardRound, Finalize
    <3>2. pc' # "resolveTurn"
      BY <2>4 DEF LoopStep, Boot, StartRound, BotsTalk, WaitTalk, FinalizeTalk,
             BeginAct, LoopResolves, AwardRound, AfterTurn, AfterRound, Finalize
    <3> QED BY <2>0, <3>1, <3>2
  <2> QED BY <1>1, <2>1, <2>2, <2>3, <2>4
<1>2. CASE PollerStep
  <2>1. UNCHANGED <<seated, submissions>>
    BY <1>2 DEF PollerStep, WatchdogScan, WatchdogCancels, WatchdogRestarts, FindFrozen,
           HealStops, HealLoads, HealTalk, HealBeginsAct, HealResolves, HealRestarts
  <2>2. CASE poller \in HealSteps
    <3>1. pc' # "resolveTurn"
      <4>1. pc = "stopped"
        BY <1>0, <2>2 DEF HealInv
      <4> QED BY <1>2, <4>1
          DEF PollerStep, WatchdogScan, WatchdogCancels, WatchdogRestarts, FindFrozen,
              HealStops, HealLoads, HealTalk, HealBeginsAct, HealResolves, HealRestarts,
              StartTask, StopTask
    <3>2. poller' = "healResolve" => StillFrozen /\ clock' = clock
      BY <1>2, <2>2
      DEF PollerStep, WatchdogScan, WatchdogCancels, WatchdogRestarts, FindFrozen,
          HealStops, HealLoads, HealTalk, HealBeginsAct, HealResolves, HealRestarts
    <3> QED BY <2>1, <3>1, <3>2 DEF StillFrozen
  <2>3. CASE poller \notin HealSteps
    <3>1. UNCHANGED clock /\ poller' # "healResolve" /\ (pc' = "resolveTurn" => pc = pc')
      BY <1>2, <2>3
      DEF PollerStep, WatchdogScan, WatchdogCancels, WatchdogRestarts, FindFrozen,
          HealStops, HealLoads, HealTalk, HealBeginsAct, HealResolves, HealRestarts,
          StartTask, StopTask, HealSteps
    <3> QED BY <2>1, <3>1
  <2> QED BY <2>2, <2>3
<1>3. CASE \E s \in Seats : PlayerAnswers(s)
  BY <1>3 DEF PlayerAnswers
<1>4. CASE Tick
  BY <1>4 DEF Tick
<1>5. CASE Startup
  <2>1. UNCHANGED clock /\ poller' = "watchdog" /\ (pc' = "resolveTurn" => pc = pc')
    BY <1>5 DEF Startup, StartTask
  <2>2. \/ UNCHANGED <<seated, submissions>>
        \/ seated' = {} /\ submissions' = {}
    BY <1>5 DEF Startup
  <2> QED BY <2>1, <2>2
<1>6. CASE AdminCancels \/ LoopCrashes \/ LoopWedges \/ HealFails \/ ProcessDies
  <2>1. UNCHANGED <<clock, seated, submissions>>
    BY <1>6 DEF AdminCancels, LoopCrashes, LoopWedges, HealFails, ProcessDies
  <2>2. /\ pc' = "resolveTurn" => pc = pc'
        /\ poller' = "healResolve" => poller = poller'
    BY <1>6 DEF AdminCancels, LoopCrashes, LoopWedges, HealFails, ProcessDies, StopTask
  <2> QED BY <2>1, <2>2
<1>7. CASE UNCHANGED vars
  BY <1>7 DEF vars
<1> QED BY <1>1, <1>2, <1>3, <1>4, <1>5, <1>6, <1>7 DEF Next

-----------------------------------------------------------------------------
(* How many turns are resolved.                                            *)

LEMMA ResolvedFinite ==
  IsFiniteSet(ResolvedTurns) /\ Cardinality(ResolvedTurns) \in Nat
<1>1. IsFiniteSet(Rounds) /\ IsFiniteSet(Turns)
  BY Grid, FS_Interval DEF Rounds, Turns
<1>2. IsFiniteSet(TurnIds)
  BY <1>1, FS_Product DEF TurnIds
<1>3. IsFiniteSet(ResolvedTurns)
  BY <1>2, FS_Subset DEF ResolvedTurns
<1> QED BY <1>3, FS_CardinalityType

LEMMA CountFrame ==
  ASSUME CountInv, UNCHANGED <<currentRound, currentTurn, resolved>> PROVE CountInv'
  BY DEF CountInv, PassLength, PointedResolved, ResolvedTurns

LEMMA ResolveCounts ==
  ASSUME TypeOK, RowsInv, CountInv, currentRound # 0, ~resolved[CurrentTurnId],
         ResolveTurn(CurrentTurnId), UNCHANGED <<currentRound, currentTurn, roundsAwarded>>
  PROVE /\ CountInv'
        /\ Cardinality(ResolvedTurns)' = Cardinality(ResolvedTurns) + 1
        /\ Cardinality(ResolvedTurns) < currentRound * TurnsPerRound
<1>0. /\ currentRound \in Rounds /\ currentTurn \in Turns
      /\ CurrentTurnId \in TurnIds
  BY PointerInGrid
<1>1. ResolvedTurns' = ResolvedTurns \cup {CurrentTurnId}
  BY <1>0 DEF ResolveTurn, ResolvedTurns, TypeOK
<1>2. CurrentTurnId \notin ResolvedTurns
  BY DEF ResolvedTurns
<1>3. Cardinality(ResolvedTurns)' = Cardinality(ResolvedTurns) + 1
  BY <1>1, <1>2, ResolvedFinite, FS_AddElement
<1>4. ~PointedResolved /\ PointedResolved'
  BY ResolveRows DEF PointedResolved, CurrentTurnId
<1>5. DEFINE Before == (currentRound - 1) * TurnsPerRound
<1>6. /\ currentTurn \in Nat /\ currentTurn >= 1 /\ currentTurn <= TurnsPerRound
      /\ currentRound \in Nat
  BY <1>0, Grid DEF Rounds, Turns
<1>7. Before \in Int /\ Before + TurnsPerRound = currentRound * TurnsPerRound
  BY <1>6, Grid
<1>8. Cardinality(ResolvedTurns) = Before + currentTurn - 1
  BY <1>4 DEF CountInv, PassLength
<1>9. PassLength' = Before + currentTurn
  BY <1>4, <1>6, <1>7 DEF PassLength
<1>10. CountInv'
  <2> HIDE DEF Before
  <2> QED BY <1>3, <1>6, <1>7, <1>8, <1>9 DEF CountInv
<1>11. Cardinality(ResolvedTurns) < currentRound * TurnsPerRound
  <2> HIDE DEF Before
  <2> QED BY <1>6, <1>7, <1>8, Grid
<1> QED BY <1>3, <1>10, <1>11

(* Moving the pointer to the next turn of the grid resolves nothing.       *)
LEMMA OpenCounts == ASSUME PassInv, CountInv, OpenTurn PROVE CountInv'
<1>0. /\ TypeOK /\ RowsInv /\ pc = "openTurn" /\ RowsInv'
      /\ currentRound' = round /\ currentTurn' = turn
      /\ round \in Rounds /\ turn \in Turns /\ round # 0
      /\ resolved' = resolved
  BY OpenTurnPos, Grid DEF PassInv, TypeOK, OpenTurn, OpenNewTurn, ReuseTurn, turnVars, Rounds
<1>1. ResolvedTurns' = ResolvedTurns
  BY <1>0 DEF ResolvedTurns
<1>2. CASE AtPointer(round, turn)
  BY <1>0, <1>2, CountFrame DEF AtPointer
<1>3. CASE ~AtPointer(round, turn)
  <2>1. /\ AtFirst \/ PastTurn \/ PastRound
        /\ ~BeforePointer(round, turn)
    BY <1>0, <1>3, Grid DEF PassInv, LoopInv, TypeOK, AtFirst, PastTurn, PastRound,
                            BeforePointer, Rounds, Turns
  <2>2. ~resolved[<<round, turn>>]
    BY <1>0, <1>3, <2>1 DEF RowsInv, PointerInv
  <2>3. PassLength' = (round - 1) * TurnsPerRound + turn - 1
    BY <1>0, <2>2 DEF PassLength, PointedResolved
  <2>4. PassLength' = PassLength
    <3>0. /\ currentRound \in Nat /\ currentTurn \in Nat /\ TurnsPerRound \in Nat
          /\ (currentRound - 1) * TurnsPerRound \in Int
      BY <1>0, Grid DEF TypeOK
    <3>1. CASE AtFirst
      BY <2>3, <3>0, <3>1 DEF AtFirst, PassLength
    <3>2. CASE PastTurn
      BY <2>3, <3>0, <3>2 DEF PastTurn, PassLength, PointedResolved
    <3>3. CASE PastRound
      <4>1. PassLength = (currentRound - 1) * TurnsPerRound + TurnsPerRound
        BY <3>0, <3>3 DEF PastRound, PassLength, PointedResolved
      <4>2. PassLength' = currentRound * TurnsPerRound
        BY <2>3, <3>0, <3>3 DEF PastRound
      <4> QED BY <3>0, <4>1, <4>2
    <3> QED BY <2>1, <3>1, <3>2, <3>3
  <2> QED BY <1>1, <2>4 DEF CountInv
<1> QED BY <1>2, <1>3

(* Where scoring.resolve_turn is called.                                   *)
LEMMA ResolvesPointed ==
  ASSUME PassInv, LoopResolves \/ HealResolves
  PROVE /\ currentRound # 0 /\ ~resolved[CurrentTurnId]
        /\ ResolveTurn(CurrentTurnId)
        /\ UNCHANGED <<currentRound, currentTurn, roundsAwarded, completedAt>>
<1>1. CASE LoopResolves
  <2>1. pc \in OpenTurnSteps
    BY <1>1 DEF LoopResolves, OpenTurnSteps
  <2> QED BY <1>1, <2>1, InTurn DEF LoopResolves, matchVars
<1>2. CASE HealResolves
  <2>1. poller \in HealSteps \ {"load", "restart"}
    BY <1>2 DEF HealResolves, HealSteps
  <2> QED BY <1>2, <2>1 DEF HealResolves, PassInv, HealInv, matchVars
<1> QED BY <1>1, <1>2

(* Every other step leaves the resolved turns alone.                       *)
LEMMA ElseResolvedFrame ==
  ASSUME [Next]_vars, ~LoopResolves, ~HealResolves
  PROVE /\ resolved' = resolved
        /\ ~OpenTurn => UNCHANGED <<currentRound, currentTurn>>
        /\ ~AwardRound => roundsAwarded' = roundsAwarded
        /\ ~Finalize => completedAt' = completedAt
<1> USE DEF matchVars, turnVars
<1>1. CASE LoopStep
  BY <1>1 DEF LoopStep, Boot, StartRound, OpenTurn, OpenNewTurn, ReuseTurn, BotsTalk,
         WaitTalk, FinalizeTalk, FinalizeTalkPhase, BeginAct, BeginActPhase, BotsAct,
         WaitAct, AwardRound, Finalize
<1>2. CASE PollerStep
  BY <1>2 DEF PollerStep, WatchdogScan, WatchdogCancels, WatchdogRestarts, FindFrozen,
         HealStops, HealLoads, HealTalk, FinalizeTalkPhase, HealBeginsAct, BeginActPhase,
         HealRestarts
<1>3. CASE Environment
  BY <1>3 DEF Environment, PlayerAnswers, Tick, AdminCancels, LoopCrashes, LoopWedges,
         HealFails, ProcessDies, Startup
<1>4. CASE UNCHANGED vars
  BY <1>4 DEF vars
<1> QED BY <1>1, <1>2, <1>3, <1>4 DEF Next, Environment

LEMMA CountStep == ASSUME PassInv, CountInv, [Next]_vars PROVE CountInv'
<1>1. CASE LoopResolves \/ HealResolves
  BY <1>1, ResolvesPointed, ResolveCounts DEF PassInv
<1>2. CASE OpenTurn
  BY <1>2, OpenCounts
<1>3. CASE ~LoopResolves /\ ~HealResolves /\ ~OpenTurn
  BY <1>3, ElseResolvedFrame, CountFrame
<1> QED BY <1>1, <1>2, <1>3

-----------------------------------------------------------------------------
LEMMA InitInv == Init => IInv
<1> SUFFICES ASSUME Init PROVE IInv
  OBVIOUS
<1>1. PassInv
  BY InitPass
<1>2. CancelInv /\ AnswerInv
  BY DEF Init, CancelInv, AnswerInv
<1>3. ResolvedTurns = {}
  BY DEF Init, ResolvedTurns
<1>4. CountInv
  BY <1>3, FS_EmptySet DEF Init, CountInv, PassLength
<1> QED BY <1>1, <1>2, <1>4 DEF IInv

LEMMA NextInv == ASSUME IInv, [Next]_vars PROVE IInv'
  BY NextPass, CancelStep, AnswerStep, CountStep DEF IInv

(* The inductive invariant: the rows are always those of one ordered pass  *)
(* over the grid, whoever wrote them, a committed cancellation stands, and *)
(* a resolution under way still has its reason.                            *)
THEOREM Invariant == Spec => []IInv
<1>1. Init => IInv
  BY InitInv
<1>2. IInv /\ [Next]_vars => IInv'
  BY NextInv
<1> QED BY <1>1, <1>2, PTL DEF Spec

(* A turn is opened only after every earlier turn is resolved and every    *)
(* earlier round is awarded.                                               *)
THEOREM InOrder == Spec => []TurnsInOrder
<1>1. IInv => TurnsInOrder
  <2> SUFFICES ASSUME IInv, NEW t \in TurnIds, phase[t] # "none"
               PROVE /\ roundsAwarded >= t[1] - 1
                     /\ \A e \in TurnIds : Earlier(e, t) => resolved[e]
    BY DEF TurnsInOrder
  <2>1. PICK r \in Rounds, k \in Turns : t = <<r, k>>
    BY DEF TurnIds
  <2>2. BeforePointer(r, k) \/ AtPointer(r, k)
    BY <2>1 DEF IInv, PassInv, RowsInv, PointerInv
  <2>3. /\ r \in Nat /\ r >= 1 /\ currentRound \in Nat /\ roundsAwarded \in Nat
    BY Grid DEF IInv, PassInv, TypeOK, Rounds
  <2>4. roundsAwarded >= r - 1
    <3>1. r <= currentRound /\ currentRound # 0
      BY <2>2, <2>3 DEF BeforePointer, AtPointer
    <3>2. roundsAwarded = currentRound - 1 \/ roundsAwarded = currentRound
      BY <3>1 DEF IInv, PassInv, RowsInv, AwardInv
    <3> QED BY <2>3, <3>1, <3>2
  <2>5. ASSUME NEW e \in TurnIds, Earlier(e, t) PROVE resolved[e]
    <3>1. PICK q \in Rounds, j \in Turns : e = <<q, j>>
      BY DEF TurnIds
    <3>2. q < r \/ (q = r /\ j < k)
      BY <2>1, <2>5, <3>1 DEF Earlier
    <3>3. q \in Nat /\ j \in Nat /\ k \in Nat /\ currentTurn \in Nat
      BY Grid DEF IInv, PassInv, TypeOK, Rounds, Turns
    <3>4. BeforePointer(q, j)
      BY <2>2, <2>3, <3>2, <3>3 DEF BeforePointer, AtPointer
    <3> QED BY <3>1, <3>4 DEF IInv, PassInv, RowsInv, PointerInv
  <2> QED BY <2>1, <2>4, <2>5
<1> QED BY <1>1, Invariant, PTL

(* No turn's points enter total_round_score twice, and those of every turn *)
(* but the first of a round enter it exactly once.                         *)
THEOREM TurnsCountedOnce == Spec => []CountedOnce
<1>1. IInv => CountedOnce
  <2> SUFFICES ASSUME IInv, NEW r \in Rounds, NEW k \in Turns
               PROVE /\ totalScore[<<r, k>>] <= 1
                     /\ totalScore[<<r, k>>] = 1 => r <= roundsAwarded
                     /\ r <= roundsAwarded /\ k > 1 => totalScore[<<r, k>>] = 1
    BY DEF CountedOnce
  <2>1. r \in Nat /\ roundsAwarded \in Nat
    BY Grid DEF IInv, PassInv, TypeOK, Rounds
  <2>2. /\ r > roundsAwarded => totalScore[<<r, k>>] = 0
        /\ r <= roundsAwarded => totalScore[<<r, k>>] <= 1
        /\ r <= roundsAwarded /\ k > 1 => totalScore[<<r, k>>] = 1
    BY DEF IInv, PassInv, RowsInv, TotalInv
  <2>3. r > roundsAwarded \/ r <= roundsAwarded
    BY <2>1
  <2> QED BY <2>1, <2>2, <2>3
<1> QED BY <1>1, Invariant, PTL

(* The sweeper never touches a turn while a loop task could.               *)
THEOREM HealAlone == Spec => []HealNeverRacesLoop
<1>1. IInv => HealNeverRacesLoop
  BY DEF IInv, PassInv, HealInv, HealNeverRacesLoop
<1> QED BY <1>1, Invariant, PTL

(* No watchdog pass, heal or restart brings back a match whose cancel      *)
(* request has committed and stopped the task.                             *)
THEOREM CancellationSticks == Spec => []CancelSticks
<1>1. IInv => CancelSticks
  BY DEF IInv, CancelInv, CancelSticks
<1> QED BY <1>1, Invariant, PTL

(* Nobody resolves a turn before its deadline while a seated player has    *)
(* not answered, but the sweeper after a lost phase flip.                  *)
THEOREM ResolvedForAReason == Spec => NoEarlyResolve
<1> DEFINE Reason == \A t \in TurnIds : resolved'[t] /\ ~resolved[t] =>
                       \/ clock # "running"
                       \/ seated \subseteq submissions
                       \/ poller = "flipResolve"
<1>1. IInv /\ [Next]_vars => [Reason]_vars
  <2> SUFFICES ASSUME IInv, [Next]_vars PROVE Reason
    OBVIOUS
  <2>1. CASE LoopResolves
    BY <2>1 DEF IInv, AnswerInv, LoopResolves
  <2>2. CASE HealResolves
    BY <2>2 DEF IInv, AnswerInv, HealResolves
  <2>3. CASE ~LoopResolves /\ ~HealResolves
    BY <2>3, ElseResolvedFrame
  <2> QED BY <2>1, <2>2, <2>3
<1> QED BY <1>1, Invariant, PTL DEF Spec, NoEarlyResolve

-----------------------------------------------------------------------------
(* The refinement of MatchProgress.                                        *)

LEMMA ProgressStep ==
  ASSUME IInv, [Next]_vars PROVE [Progress!Next]_(Progress!progressVars)
<1>0. PassInv /\ CountInv /\ TypeOK /\ RowsInv
  BY DEF IInv, PassInv
<1> USE DEF Progress!progressVars
<1>1. CASE LoopResolves \/ HealResolves
  <2>1. /\ currentRound # 0 /\ ~resolved[CurrentTurnId]
        /\ UNCHANGED <<roundsAwarded, completedAt>>
    BY <1>0, <1>1, ResolvesPointed
  <2>2. /\ Cardinality(ResolvedTurns)' = Cardinality(ResolvedTurns) + 1
        /\ Cardinality(ResolvedTurns) < currentRound * TurnsPerRound
    BY <1>0, <1>1, ResolvesPointed, ResolveCounts
  <2>3. roundsAwarded = currentRound - 1 /\ currentRound \in Rounds
    BY <1>0, <2>1, PointerInGrid DEF RowsInv, AwardInv, PointedResolved, CurrentTurnId
  <2>4. roundsAwarded < TotalRounds /\ roundsAwarded + 1 = currentRound
    BY <2>3, Grid DEF Rounds
  <2> QED BY <2>1, <2>2, <2>4 DEF Progress!Next, Progress!ResolveTurn
<1>2. CASE ~LoopResolves /\ ~HealResolves /\ ~AwardRound /\ ~Finalize
  <2>1. UNCHANGED <<resolved, roundsAwarded, completedAt>>
    BY <1>2, ElseResolvedFrame
  <2>2. Cardinality(ResolvedTurns)' = Cardinality(ResolvedTurns)
    BY <2>1 DEF ResolvedTurns
  <2> QED BY <2>1, <2>2
<1>3. CASE AwardRound
  <2>1. /\ resolved' = resolved /\ completedAt' = completedAt
        /\ \/ roundsAwarded' = roundsAwarded
           \/ round > roundsAwarded /\ roundsAwarded' = round
    BY <1>3 DEF AwardRound, turnVars
  <2>2. Cardinality(ResolvedTurns)' = Cardinality(ResolvedTurns)
    BY <2>1 DEF ResolvedTurns
  <2>3. /\ round = currentRound /\ currentTurn = TurnsPerRound /\ PointedResolved
        /\ round \in Rounds
    BY <1>0, <1>3 DEF AwardRound, PassInv, LoopInv, TypeOK
  <2>4. CASE round > roundsAwarded /\ roundsAwarded' = round
    <3>1. roundsAwarded = currentRound - 1
      BY <1>0, <2>3, <2>4, Grid DEF RowsInv, AwardInv, PointedResolved, Rounds, TypeOK
    <3>2. roundsAwarded < TotalRounds /\ roundsAwarded + 1 = round
      BY <2>3, <3>1, Grid DEF Rounds
    <3>3. Cardinality(ResolvedTurns) = (currentRound - 1) * TurnsPerRound + TurnsPerRound
      BY <1>0, <2>3, Grid DEF CountInv, PassLength, PointedResolved, Rounds
    <3>4. Cardinality(ResolvedTurns) = (roundsAwarded + 1) * TurnsPerRound
      BY <2>3, <3>2, <3>3, Grid DEF Rounds
    <3> QED BY <2>1, <2>2, <2>4, <3>2, <3>4 DEF Progress!Next, Progress!AwardRound
  <2>5. CASE roundsAwarded' = roundsAwarded
    BY <2>1, <2>2, <2>5
  <2> QED BY <2>1, <2>4, <2>5
<1>4. CASE Finalize
  <2>1. /\ resolved' = resolved /\ roundsAwarded' = roundsAwarded
        /\ completedAt' = TRUE /\ roundsAwarded = TotalRounds
    BY <1>0, <1>4 DEF Finalize, PassInv, LoopInv, turnVars
  <2>2. Cardinality(ResolvedTurns)' = Cardinality(ResolvedTurns)
    BY <2>1 DEF ResolvedTurns
  <2>3. completedAt \in BOOLEAN
    BY <1>0 DEF TypeOK
  <2> QED BY <2>1, <2>2, <2>3 DEF Progress!Next, Progress!Complete
<1> QED BY <1>1, <1>2, <1>3, <1>4

(* The loop with its crashes, restarts and heals is one ordered pass over  *)
(* the rounds and turns: it resolves each turn once, awards a round only   *)
(* when all its turns are resolved, and completes at most once.            *)
THEOREM OnePass == Spec => ProgressSpec
<1>1. Init => Progress!Init
  <2> SUFFICES ASSUME Init PROVE Progress!Init
    OBVIOUS
  <2>1. ResolvedTurns = {}
    BY DEF Init, ResolvedTurns
  <2> QED BY <2>1, FS_EmptySet DEF Init, Progress!Init
<1>2. IInv /\ [Next]_vars => [Progress!Next]_(Progress!progressVars)
  BY ProgressStep
<1> QED BY <1>1, <1>2, Invariant, PTL DEF Spec, ProgressSpec, Progress!Spec
=============================================================================
