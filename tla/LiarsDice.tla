------------------------------ MODULE LiarsDice ------------------------------
(***************************************************************************)
(* A match of Liar's Dice: the sequential turn driver, the game module it  *)
(* calls, and the requests of the players. One seat is on the clock; a     *)
(* round is a hand, which lasts until a bid is challenged; the showdown    *)
(* costs a die; the last seat with dice wins.                              *)
(*                                                                         *)
(* The public state is a JSON document in one row, written as a whole: the *)
(* variable blob. A step of the driver ends where another task can run, so *)
(* that what it has read may have changed by its next step. A request      *)
(* checks the move against the state first and records it later.           *)
(*                                                                         *)
(* Abstractions. The statements of record_submission, from the load of the *)
(* blob to the commit, are one step. Dice are only counted: what they show *)
(* is picked at the showdown, since no check looks at it before. Turn rows *)
(* have no numbers; a row that nobody holds is used again for a new turn.  *)
(***************************************************************************)
EXTENDS DudoBids, Sequences

CONSTANTS
  DicePerPlayer,  \* dice each seat is dealt
  Bots,           \* seats of scripted bots
  MaxRequests,    \* bound on the submissions of the match
  MaxTurns,       \* bound on the turn rows in use at a time
  MaxRounds,      \* bound on the hands of the match
  MaxCrashes      \* bound on deaths of the driver for outside reasons

ASSUME MatchAssumption ==
  /\ DicePerPlayer \in Nat \ {0}
  /\ Bots \subseteq Seats
  /\ MaxRequests \in Nat /\ MaxTurns \in Nat /\ MaxRounds \in Nat /\ MaxCrashes \in Nat

VARIABLES
  round,      \* matches.current_round
  winners,    \* who matches.winner_player_id names; the match is then over
  blob,       \* match_state.state_json
  dice,       \* player_state's dice_count of each seat
  turns,      \* the turn rows and their submissions
  requests,   \* the submissions in flight
  pc,         \* the driver's next step, with its locals:
  actor,      \*   the seat it has found on the clock
  turn,       \*   the turn row it has opened
  move,       \*   the move it has decided on for the seat
  crashes

matchVars == <<round, winners, dice>>
locals == <<actor, turn, move>>
vars == <<matchVars, blob, turns, requests, pc, locals, crashes>>

Requests == 1 .. MaxRequests
Turns == 1 .. MaxTurns
NoTurn == 0

Challenge == NoBid          \* a move without quantity and face
Moves == Bid \cup {Challenge}
Answers == {"none", "defaulted", "genuine"}   \* a seat's row in turn_submissions
NoAnswers == [s \in Seats |-> "none"]
Blank == [open |-> FALSE, due |-> FALSE, answers |-> NoAnswers]
Unused == [at |-> "unused"]
Over == [at |-> "over"]

Alive == {s \in Seats : dice[s] > 0}
Gone == {blob.out[i] : i \in 1 .. Len(blob.out)}

Document ==
  [bid : Moves, by : Seats \cup {NoSeat}, active : Seats \cup {NoSeat},
   pending : BOOLEAN, challenger : Seats \cup {NoSeat}, nextLeader : Seats \cup {NoSeat},
   out : Seq(Seats), settled : 0 .. MaxRounds]
TurnRow == [open : BOOLEAN, due : BOOLEAN, answers : [Seats -> Answers]]
InFlight ==
  [at : {"checked"}, turn : Turns, seat : Seats, move : Moves, genuine : BOOLEAN,
   base : Answers]
DriverPlaces ==
  {"boot", "next", "open", "wait", "decide", "record", "resolve", "award", "deal",
   "finalize", "dead", "done"}

TypeOK ==
  /\ round \in 0 .. MaxRounds
  /\ winners \in SUBSET Seats
  /\ dice \in [Seats -> 0 .. DicePerPlayer]
  /\ blob \in Document
  /\ turns \in [Turns -> TurnRow]
  /\ requests \in [Requests -> {Unused, Over} \cup InFlight]
  /\ pc \in DriverPlaces
  /\ actor \in Seats \cup {NoSeat}
  /\ turn \in Turns \cup {NoTurn}
  /\ move \in Moves
  /\ crashes \in 0 .. MaxCrashes

(* The match has started, its driver has not run yet.                      *)
Init ==
  /\ round = 0 /\ winners = {}
  /\ dice = [s \in Seats |-> 0]
  /\ blob = [bid |-> NoBid, by |-> NoSeat, active |-> NoSeat, pending |-> FALSE,
             challenger |-> NoSeat, nextLeader |-> NoSeat, out |-> <<>>, settled |-> 0]
  /\ turns = [t \in Turns |-> Blank]
  /\ requests = [q \in Requests |-> Unused]
  /\ pc = "boot" /\ actor = NoSeat /\ turn = NoTurn /\ move = Challenge
  /\ crashes = 0

-----------------------------------------------------------------------------
(* The game module.                                                        *)

DiceInPlay == {d \in Seats \X (1 .. DicePerPlayer) : d[2] <= dice[d[1]]}
TotalDice == Cardinality(DiceInPlay)

(* record_submission's effect on the blob.                                 *)
Recorded(s, m) ==
  IF m = Challenge
    THEN [blob EXCEPT !.pending = TRUE, !.challenger = s, !.active = s]
    ELSE [blob EXCEPT !.bid = m, !.by = s, !.pending = FALSE, !.challenger = NoSeat,
                      !.active = NextAliveSeat(Alive, s)]

(* next_actor.                                                             *)
NextActor ==
  IF blob.pending THEN NoSeat
  ELSE IF blob.active \in Alive THEN blob.active
  ELSE NextAliveSeat(Alive, blob.active)

(* on_round_start. A seat that still has dice gets a full hand.            *)
Deal(r) ==
  /\ r <= MaxRounds
  /\ round' = r
  /\ dice' = [s \in Seats |-> IF r = 1 \/ dice[s] > 0 THEN DicePerPlayer ELSE 0]
  /\ blob' = [blob EXCEPT
       !.bid = NoBid, !.pending = FALSE, !.challenger = NoSeat, !.settled = 0,
       !.active = IF r = 1 THEN 1
                  ELSE IF blob.nextLeader # NoSeat THEN blob.nextLeader
                  ELSE NextAliveSeat(Alive, NoSeat),
       !.nextLeader = NoSeat]

(* award_round, with the seat that loses the showdown: nobody when the     *)
(* challenge has been bid over since, and nothing when it has no dice.     *)
SettledWhenQuiet == blob.bid = NoBid              \* mutant: the stamp is not read
Settled == blob.settled = round \/ blob.bid = NoBid

Loser(table) == IF Holds(blob.bid, table) THEN blob.challenger ELSE blob.by

DiceLeftUnclamped(loser) ==                       \* mutant: no floor at 0
  [s \in Seats |-> IF s = loser THEN dice[s] - 1 ELSE dice[s]]
DiceLeft(loser) ==
  [s \in Seats |-> IF s = loser /\ dice[s] > 0 THEN dice[s] - 1 ELSE dice[s]]

ShowdownForgets(loser) ==                         \* mutant: nobody is noted as out
  LET alive == {s \in Seats : DiceLeft(loser)[s] > 0}
  IN /\ dice' = DiceLeft(loser)
     /\ blob' = [blob EXCEPT !.bid = NoBid, !.pending = FALSE, !.active = NoSeat,
                            !.nextLeader = NextAliveSeat(alive, loser), !.settled = round]
ShowdownRepeats(loser) ==                         \* mutant: a seat without dice is out again
  LET alive == {s \in Seats : DiceLeft(loser)[s] > 0}
  IN /\ dice' = DiceLeft(loser)
     /\ blob' = [blob EXCEPT !.bid = NoBid, !.pending = FALSE, !.challenger = NoSeat,
                            !.active = NoSeat, !.nextLeader = NextAliveSeat(alive, loser),
                            !.settled = round,
                            !.out = IF loser \in Seats \ alive THEN Append(@, loser) ELSE @]
Showdown(loser) ==
  LET alive == {s \in Seats : DiceLeft(loser)[s] > 0}
  IN /\ dice' = DiceLeft(loser)
     /\ blob' = [blob EXCEPT
          !.bid = NoBid, !.pending = FALSE, !.challenger = NoSeat, !.active = NoSeat,
          !.nextLeader = IF loser \in alive \cup {NoSeat} THEN loser
                         ELSE NextAliveSeat(alive, loser),
          !.settled = round,
          !.out = IF loser \in Seats \ (alive \cup Gone) THEN Append(@, loser) ELSE @]

-----------------------------------------------------------------------------
(* The driver.                                                             *)

ForgetLocals == actor' = NoSeat /\ turn' = NoTurn /\ move' = Challenge

Boot ==
  /\ pc = "boot" /\ pc' = "next"
  /\ \/ round = 0 /\ Deal(1)
     \/ round # 0 /\ UNCHANGED <<round, dice, blob>>
  /\ UNCHANGED <<winners, turns, requests, locals, crashes>>

FindActor ==
  /\ pc = "next"
  /\ actor' = NextActor
  /\ pc' = IF NextActor = NoSeat THEN "award" ELSE "open"
  /\ UNCHANGED <<matchVars, blob, turns, requests, turn, move, crashes>>

(* A request in flight holds on to its turn row.                           *)
Held(t, qs) == \E q \in qs : requests[q].at = "checked" /\ requests[q].turn = t
Free == {t \in Turns : ~turns[t].open /\ ~Held(t, Requests)}

(* _open_actor_turn inserts a row, whatever turns are open already.        *)
OpenTurn ==
  /\ pc = "open" /\ Free # {}
  /\ turn' = CHOOSE t \in Free : \A u \in Free : t <= u
  /\ turns' = [turns EXCEPT ![turn'] = [Blank EXCEPT !.open = TRUE]]
  /\ pc' = IF actor \in Bots THEN "decide" ELSE "wait"
  /\ UNCHANGED <<matchVars, blob, requests, actor, move, crashes>>

(* _wait_for_actor, and whether there is an answer then.                   *)
WaitForEver ==                                    \* mutant: no deadline
  /\ pc = "wait" /\ turns[turn].answers[actor] = "genuine" /\ pc' = "resolve"
  /\ UNCHANGED <<matchVars, blob, turns, requests, locals, crashes>>
Wait ==
  /\ pc = "wait"
  /\ \/ turns[turn].answers[actor] = "genuine" /\ pc' = "resolve"
     \/ turns[turn].answers[actor] # "genuine" /\ turns[turn].due /\ pc' = "decide"
  /\ UNCHANGED <<matchVars, blob, turns, requests, locals, crashes>>

(* bot_move is any raise or a challenge; default_move is the smallest      *)
(* raise, and a challenge when there is none.                              *)
BotMoves ==
  IF blob.bid = NoBid THEN {b \in Offers(TotalDice) : ~Ace(b) \/ ~Wild}
  ELSE LegalRaises(blob.bid, TotalDice) \cup {Challenge}

DefaultMove == MinLegalRaise(blob.bid, TotalDice)

Decide ==
  /\ pc = "decide" /\ pc' = "record"
  /\ \/ actor \in Bots /\ move' \in BotMoves
     \/ actor \notin Bots /\ move' = DefaultMove
  /\ UNCHANGED <<matchVars, blob, turns, requests, actor, turn, crashes>>

(* The driver's record_submission always inserts: a row that is there by   *)
(* then takes the driver down.                                             *)
Record ==
  /\ pc = "record"
  /\ \/ /\ turns[turn].answers[actor] # "none"
        /\ pc' = "dead"
        /\ UNCHANGED <<blob, turns>>
     \/ /\ turns[turn].answers[actor] = "none"
        /\ pc' = "resolve"
        /\ blob' = Recorded(actor, move)
        /\ turns' = [turns EXCEPT ![turn].answers[actor] =
             IF actor \in Bots THEN "genuine" ELSE "defaulted"]
  /\ UNCHANGED <<matchVars, requests, locals, crashes>>

Closed(row, held) == IF held THEN [row EXCEPT !.open = FALSE] ELSE Blank

Resolve ==
  /\ pc = "resolve" /\ pc' = "next"
  /\ turns' = [turns EXCEPT ![turn] = Closed(@, Held(turn, Requests))]
  /\ ForgetLocals
  /\ UNCHANGED <<matchVars, blob, requests, crashes>>

AwardRound ==
  /\ pc = "award"
  /\ \/ Settled /\ UNCHANGED <<dice, blob>>
     \/ /\ ~Settled
        /\ \E table \in [DiceInPlay -> Faces] : Showdown(Loser(table))
  /\ pc' = IF Cardinality({s \in Seats : dice'[s] > 0}) = 1 THEN "finalize" ELSE "deal"
  /\ UNCHANGED <<round, winners, turns, requests, locals, crashes>>

NextHand ==
  /\ pc = "deal" /\ pc' = "next"
  /\ Deal(round + 1)
  /\ UNCHANGED <<winners, turns, requests, locals, crashes>>

(* finalize: the first seat that final_placement does not find among the   *)
(* eliminated ones has won.                                                *)
Finalize ==
  /\ pc = "finalize" /\ pc' = "done"
  /\ winners' = {s \in Seats \ Gone : \A r \in Seats \ Gone : s <= r}
  /\ UNCHANGED <<round, dice, blob, turns, requests, locals, crashes>>

DriverStep ==
  \/ Boot \/ FindActor \/ OpenTurn \/ Wait \/ Decide \/ Record \/ Resolve
  \/ AwardRound \/ NextHand \/ Finalize

(* The process or the task dies between two commits; its open turn stays.  *)
DriverDies ==
  /\ crashes < MaxCrashes /\ crashes' = crashes + 1
  /\ pc \notin {"dead", "done"} /\ pc' = "dead"
  /\ UNCHANGED <<matchVars, blob, turns, requests, locals>>

(* The watchdog starts the driver again; it knows only what is stored.     *)
Restart ==
  /\ pc = "dead" /\ pc' = "boot"
  /\ ForgetLocals
  /\ UNCHANGED <<matchVars, blob, turns, requests, crashes>>

-----------------------------------------------------------------------------
(* Players.                                                                *)

(* submit_action: the turn, the seat's row and validate_move. Before the   *)
(* next hand is dealt nobody is active, which any seat passes for.         *)
Legal(m) ==
  IF m = Challenge THEN blob.bid # NoBid
  ELSE m \in Offers(TotalDice) /\ IsLegalRaise(blob.bid, m)

Check(q, s, t, m, genuine) ==
  /\ requests[q] = Unused /\ \A p \in 1 .. (q - 1) : requests[p] # Unused
  /\ winners = {} /\ turns[t].open /\ ~turns[t].due
  /\ turns[t].answers[s] # "genuine"
  /\ blob.active \in {s, NoSeat}
  /\ Legal(m)
  /\ requests' = [requests EXCEPT ![q] =
       [at |-> "checked", turn |-> t, seat |-> s, move |-> m, genuine |-> genuine,
        base |-> turns[t].answers[s]]]
  /\ UNCHANGED <<matchVars, blob, turns, pc, locals, crashes>>

(* Its record_submission. The row is inserted, which fails if there is one *)
(* by now, or updated if there was one.                                    *)
Answered(row, r) ==
  [row EXCEPT !.answers[r.seat] =
     IF r.genuine THEN "genuine" ELSE IF @ = "none" THEN "defaulted" ELSE @]

Submit(q) ==
  /\ requests[q].at = "checked"
  /\ LET r == requests[q]
         row == turns[r.turn]
         fails == r.base = "none" /\ row.answers[r.seat] # "none"
         new == IF fails THEN row ELSE Answered(row, r)
     IN /\ blob' = IF fails THEN blob ELSE Recorded(r.seat, r.move)
        /\ turns' = [turns EXCEPT ![r.turn] =
             IF row.open THEN new ELSE Closed(new, Held(r.turn, Requests \ {q}))]
  /\ requests' = [requests EXCEPT ![q] = Over]
  /\ UNCHANGED <<matchVars, pc, locals, crashes>>

Tick(t) ==
  /\ turns[t].open /\ ~turns[t].due
  /\ turns' = [turns EXCEPT ![t].due = TRUE]
  /\ UNCHANGED <<matchVars, blob, requests, pc, locals, crashes>>

Next ==
  \/ DriverStep \/ DriverDies \/ Restart
  \/ \E t \in Turns : Tick(t)
  \/ \E q \in Requests :
       \/ Submit(q)
       \/ \E s \in Seats \ Bots, t \in Turns,
          m \in Offers(TotalDice) \cup {Challenge},
          genuine \in BOOLEAN :
            Check(q, s, t, m, genuine)

Spec == Init /\ [][Next]_vars

(* The event loop runs the driver, the watchdog restarts it, time passes.  *)
(* Nobody has to submit anything.                                          *)
FairSpec ==
  /\ Spec
  /\ WF_vars(DriverStep) /\ WF_vars(Restart)
  /\ \A t \in Turns : WF_vars(Tick(t))

-----------------------------------------------------------------------------
(* Properties.                                                             *)

(* However the driver dies and is resumed, and whatever is submitted       *)
(* meanwhile, a hand puts at most one seat out: award_round's stamp on the *)
(* hand is what a replayed showdown stops at.                              *)
OneOutPerHand == Len(blob.out) <= round

(* The match is over when one seat has dice left, and that seat has won,   *)
(* although final_placement only looks at who has been eliminated.         *)
WinnerStands == winners # {} => winners = Alive

(* The match keeps the promise of LastStanding.                            *)
Standing == INSTANCE LastStanding WITH out <- blob.out
StandingSpec == Standing!Spec

(* A match dealt one die a seat comes to an end, whoever is silent and     *)
(* wherever the driver dies. (With more dice it need not: DiceShrink.)     *)
EventuallyWon == <>(winners # {})

(* The design says of the match: "Total dice on the table shrink over the  *)
(* match, so it always terminates." After the first deal no die comes back.*)
DiceShrink == [][round > 0 => \A s \in Seats : dice'[s] <= dice[s]]_vars
=============================================================================
