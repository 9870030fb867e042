--------------------------- MODULE MatchProgress ---------------------------
(***************************************************************************)
(* What the turn loop of a match promises, whatever crashes, restarts,     *)
(* watchdog passes and heals it takes: the turns of a match are resolved   *)
(* one after the other, each once; a round is awarded once, when all its   *)
(* turns are resolved and before any turn of the next round is; and the    *)
(* match is completed at most once, after its last round was awarded.      *)
(***************************************************************************)
EXTENDS Naturals

CONSTANTS TotalRounds,     \* matches.total_rounds
          TurnsPerRound    \* matches.turns_per_round

VARIABLES done,       \* how many turns have been resolved
          awarded,    \* how many rounds have been folded into the totals
          completed   \* has the match been stamped completed?

progressVars == <<done, awarded, completed>>

Init == done = 0 /\ awarded = 0 /\ completed = FALSE

ResolveTurn ==
  /\ awarded < TotalRounds
  /\ done < (awarded + 1) * TurnsPerRound
  /\ done' = done + 1
  /\ UNCHANGED <<awarded, completed>>

AwardRound ==
  /\ awarded < TotalRounds
  /\ done = (awarded + 1) * TurnsPerRound
  /\ awarded' = awarded + 1
  /\ UNCHANGED <<done, completed>>

Complete ==
  /\ awarded = TotalRounds
  /\ ~completed
  /\ completed' = TRUE
  /\ UNCHANGED <<done, awarded>>

Next == ResolveTurn \/ AwardRound \/ Complete

Spec == Init /\ [][Next]_progressVars
=============================================================================
