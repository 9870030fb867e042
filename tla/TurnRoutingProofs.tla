-------------------------- MODULE TurnRoutingProofs --------------------------
(***************************************************************************)
(* What holds of every user, whatever the connections, sessions, seats and *)
(* windows, as long as the throttle of the stamps is below the window in   *)
(* which a connection counts as alive.                                     *)
(***************************************************************************)
EXTENDS TurnRouting, TLAPS

-----------------------------------------------------------------------------
(* The inductive invariant. A session whose request is being worked on, or *)
(* is held, has stamped its connection less than a throttle ago, or a tick *)
(* more when its next look is due; a hold that goes on has time left; and  *)
(* the dead that a session has read are dead, or have woken since the last *)
(* tick.                                                                   *)

Fresh(s) ==
  /\ job[s].at \in {"routes", "seats", "claim", "holding"} => age[ConnOf[s]] < Throttle
  /\ job[s].at = "due" => age[ConnOf[s]] <= Throttle
HoldOK(j) ==
  /\ j.held => j.at \in {"routes", "seats", "claim", "holding", "due"}
  /\ j.at = "holding" => j.held /\ j.left > 0
DeadOK(j) == j.at \in {"seats", "claim"} => \A c \in j.dead : Dead(c) \/ c \in woke

SessionOK(s) == Fresh(s) /\ HoldOK(job[s]) /\ DeadOK(job[s])

IInv == TypeOK /\ \A s \in Sessions : SessionOK(s)

-----------------------------------------------------------------------------
(* Lemmas.                                                                 *)

LEMMA IdleType ==
  /\ \A at \in Steps : Idle(at) \in Job
  /\ \A at : Idle(at).at = at /\ ~Idle(at).held /\ Idle(at).dead = {}
BY RoutingAssumption DEF Idle, Job

(* A stamp makes the connection young, and no connection older.            *)
LEMMA StampYoung ==
  ASSUME TypeOK, NEW k \in Conns, Stamp(k)
  PROVE  /\ age' \in [Conns -> 0 .. Never] /\ woke' \subseteq Conns
         /\ age'[k] < Throttle
         /\ \A c \in Conns : age'[c] <= age[c]
         /\ status' = status => \A c \in Conns : Dead(c) \/ c \in woke => Dead(c)' \/ c \in woke'
<1>1. /\ age \in [Conns -> 0 .. Never] /\ woke \subseteq Conns
      /\ Throttle \in Nat \ {0} /\ Window \in Nat
  BY RoutingAssumption DEF TypeOK
<1>2. age' = [age EXCEPT ![k] = IF @ < Throttle THEN @ ELSE 0]
  BY DEF Stamp
<1>3. \A c \in Conns : age'[c] = IF c = k THEN IF age[k] < Throttle THEN age[k] ELSE 0 ELSE age[c]
  BY <1>1, <1>2
<1>4. \A c \in Conns : age[c] \in Nat /\ age[c] <= Never
  BY <1>1 DEF Never
<1>5. age' \in [Conns -> 0 .. Never]
  BY <1>1, <1>2, <1>4 DEF Never
<1>6. woke' \subseteq Conns /\ woke \subseteq woke' /\ (Dead(k) => k \in woke')
  BY <1>1 DEF Stamp
<1>7. ASSUME status' = status, NEW c \in Conns, Dead(c) \/ c \in woke
      PROVE  Dead(c)' \/ c \in woke'
  <2>1. CASE c = k
    BY <1>6, <1>7, <2>1
  <2>2. CASE c # k
    BY <1>3, <1>6, <1>7, <2>2 DEF Dead
  <2> QED
    BY <2>1, <2>2
<1> QED
  BY <1>1, <1>3, <1>4, <1>5, <1>6, <1>7

(* What a session leaves alone stays in order when stamps only get younger *)
(* and the dead stay dead or wake.                                         *)
LEMMA OthersOK ==
  ASSUME IInv, NEW s \in Sessions, job'[s] = job[s],
         age' \in [Conns -> 0 .. Never],
         \A c \in Conns : age'[c] <= age[c],
         \A c \in Conns : Dead(c) \/ c \in woke => Dead(c)' \/ c \in woke'
  PROVE  SessionOK(s)'
<1>1. ConnOf[s] \in Conns /\ job[s] \in Job /\ Throttle \in Nat
  BY RoutingAssumption DEF IInv, TypeOK
<1>2. age[ConnOf[s]] \in Int /\ age'[ConnOf[s]] \in Int
  BY <1>1, RoutingAssumption DEF IInv, TypeOK, Never
<1>3. SessionOK(s) /\ age'[ConnOf[s]] <= age[ConnOf[s]]
  BY <1>1 DEF IInv
<1>4. Fresh(s)'
  BY <1>1, <1>2, <1>3 DEF SessionOK, Fresh
<1>5. HoldOK(job'[s])
  BY <1>3 DEF SessionOK, HoldOK
<1>6. job[s].dead \subseteq Conns
  BY <1>1 DEF Job
<1>7. DeadOK(job[s])'
  BY <1>3, <1>6 DEF SessionOK, DeadOK
<1> QED
  BY <1>4, <1>5, <1>7 DEF SessionOK, HoldOK

(* What NothingServed leaves behind, when the session was fresh.           *)
LEMMA NothingServedOK ==
  ASSUME IInv, NEW s \in Sessions, job[s].at \in {"seats", "claim"}, NothingServed(s)
  PROVE  /\ job' \in [Sessions -> Job]
         /\ \A r \in Sessions \ {s} : job'[r] = job[r]
         /\ HoldOK(job'[s]) /\ job'[s].at \in {"resting", "holding"}
<1>1. job \in [Sessions -> Job] /\ job[s] \in Job /\ Hold \in Nat \ {0}
  BY RoutingAssumption DEF IInv, TypeOK
<1>2. CASE s \in FanOut \/ (job[s].held /\ job[s].left = 0)
  <2>1. job' = [job EXCEPT ![s] = Idle("resting")]
    BY <1>2 DEF NothingServed, Becomes
  <2> QED
    BY <1>1, <2>1, IdleType DEF HoldOK, Steps
<1>3. CASE ~(s \in FanOut \/ (job[s].held /\ job[s].left = 0))
  <2> DEFINE new == [Idle("holding") EXCEPT !.held = TRUE,
                       !.left = IF job[s].held THEN job[s].left ELSE Hold]
  <2>1. job' = [job EXCEPT ![s] = new]
    BY <1>3 DEF NothingServed, Becomes
  <2>2. Idle("holding") \in Job
    BY IdleType DEF Steps
  <2>3. job[s].left \in 0 .. Hold
    BY <1>1 DEF Job
  <2> DEFINE left == IF job[s].held THEN job[s].left ELSE Hold
  <2>4. left \in 0 .. Hold /\ left > 0
    BY <1>1, <1>3, <2>3
  <2> HIDE DEF left
  <2>5. new = [Idle("holding") EXCEPT !.held = TRUE, !.left = left]
    BY DEF left
  <2>6. new \in Job /\ new.at = "holding" /\ new.held /\ new.left > 0
    BY <2>2, <2>4, <2>5 DEF Job, Idle
  <2> HIDE DEF new
  <2> QED
    BY <1>1, <2>1, <2>6 DEF HoldOK
<1> QED
  BY <1>2, <1>3

-----------------------------------------------------------------------------
(* Steps.                                                                  *)

LEMMA InitIInv == Init => IInv
<1> SUFFICES ASSUME Init PROVE IInv
  OBVIOUS
<1>1. TypeOK
  BY RoutingAssumption, IdleType DEF Init, TypeOK, Steps, Never
<1>2. \A s \in Sessions : job[s] = Idle("away")
  BY DEF Init
<1>3. \A s \in Sessions : job[s].at = "away" /\ ~job[s].held
  BY <1>2, IdleType
<1> QED
  BY <1>1, <1>3 DEF IInv, SessionOK, Fresh, HoldOK, DeadOK

(* A step that moves one session, and that may stamp its connection.       *)
LEMMA OneSession ==
  ASSUME IInv, TypeOK', NEW s \in Sessions,
         \A r \in Sessions \ {s} : job'[r] = job[r],
         \A c \in Conns : age'[c] <= age[c],
         \A c \in Conns : Dead(c) \/ c \in woke => Dead(c)' \/ c \in woke',
         SessionOK(s)'
  PROVE  IInv'
<1>1. age' \in [Conns -> 0 .. Never]
  BY DEF TypeOK
<1>2. \A r \in Sessions \ {s} : SessionOK(r)'
  BY <1>1, OthersOK
<1> QED
  BY <1>2 DEF IInv

(* ... and one that leaves the connections alone.                          *)
LEMMA SameConns ==
  ASSUME IInv, UNCHANGED <<age, status, woke>>
  PROVE  /\ \A c \in Conns : age'[c] <= age[c]
         /\ \A c \in Conns : Dead(c) \/ c \in woke => Dead(c)' \/ c \in woke'
<1>1. \A c \in Conns : age[c] \in Int
  BY RoutingAssumption DEF IInv, TypeOK, Never
<1> QED
  BY <1>1 DEF Dead

LEMMA Parts ==
  ASSUME IInv, NEW s \in Sessions
  PROVE  /\ ConnOf[s] \in Conns /\ job \in [Sessions -> Job] /\ job[s] \in Job
         /\ job[s].at \in Steps /\ job[s].dead \subseteq Conns /\ job[s].chosen \subseteq Seats
         /\ job[s].turn \in 0 .. MaxTurns /\ job[s].left \in 0 .. Hold /\ job[s].held \in BOOLEAN
         /\ SessionOK(s)
BY RoutingAssumption DEF IInv, TypeOK, Job

(* Every session that is not at work, due or holding is in order.          *)
LEMMA AtEase ==
  ASSUME NEW s \in Sessions, job[s].at \in {"away", "resting", "thinking"}, ~job[s].held
  PROVE  SessionOK(s)
BY DEF SessionOK, Fresh, HoldOK, DeadOK

LEMMA CallOK ==
  ASSUME IInv, NEW s \in Sessions, Call(s)
  PROVE  IInv'
<1> USE Parts
<1>1. CASE status[ConnOf[s]] = "active" /\ Stamp(ConnOf[s]) /\ Becomes(s, Idle("routes")) /\ UNCHANGED gone
  <2>1. job' = [job EXCEPT ![s] = Idle("routes")] /\ Idle("routes") \in Job
    BY <1>1, IdleType DEF Becomes, Steps
  <2>2. /\ age' \in [Conns -> 0 .. Never] /\ woke' \subseteq Conns
        /\ age'[ConnOf[s]] < Throttle
        /\ \A c \in Conns : age'[c] <= age[c]
        /\ \A c \in Conns : Dead(c) \/ c \in woke => Dead(c)' \/ c \in woke'
    BY <1>1, StampYoung DEF IInv, Call
  <2>3. TypeOK'
    BY <1>1, <2>1, <2>2 DEF IInv, TypeOK, Call
  <2>4. job'[s] = Idle("routes") /\ \A r \in Sessions \ {s} : job'[r] = job[r]
    BY <2>1
  <2>5. SessionOK(s)'
    BY <2>2, <2>4, IdleType DEF SessionOK, Fresh, HoldOK, DeadOK
  <2> QED
    BY <2>2, <2>3, <2>4, <2>5, OneSession
<1>2. CASE Becomes(s, Idle("resting")) /\ UNCHANGED <<age, woke, gone>>
  <2>1. job' = [job EXCEPT ![s] = Idle("resting")] /\ Idle("resting") \in Job
    BY <1>2, IdleType DEF Becomes, Steps
  <2>2. TypeOK'
    BY <1>2, <2>1 DEF IInv, TypeOK, Call
  <2>3. job'[s] = Idle("resting") /\ \A r \in Sessions \ {s} : job'[r] = job[r]
    BY <2>1
  <2>4. SessionOK(s)'
    BY <2>3, IdleType DEF SessionOK, Fresh, HoldOK, DeadOK
  <2> QED
    BY <1>2, <2>2, <2>3, <2>4, OneSession, SameConns DEF Call
<1>3. CASE gone' = gone \cup {s} /\ UNCHANGED <<age, woke, job>>
  <2>1. TypeOK'
    BY <1>3 DEF IInv, TypeOK, Call
  <2>2. SessionOK(s)'
    BY <1>3, <2>1, OthersOK, SameConns DEF Call, TypeOK
  <2> QED
    BY <1>3, <2>1, <2>2, OneSession, SameConns DEF Call
<1> QED
  BY <1>1, <1>2, <1>3 DEF Call

LEMMA ReadRoutesOK ==
  ASSUME IInv, NEW s \in Sessions, ReadRoutes(s)
  PROVE  IInv'
<1> USE Parts
<1> DEFINE new == [job[s] EXCEPT !.at = "seats", !.dead = {c \in Conns : Dead(c)}]
<1>1. job' = [job EXCEPT ![s] = new] /\ new \in Job
  BY DEF ReadRoutes, Becomes, Job, Steps
<1>2. new.at = "seats" /\ new.held = job[s].held /\ new.dead = {c \in Conns : Dead(c)}
  BY DEF Job
<1> HIDE DEF new
<1>3. TypeOK'
  BY <1>1 DEF IInv, TypeOK, ReadRoutes
<1>4. job'[s] = new /\ \A r \in Sessions \ {s} : job'[r] = job[r]
  BY <1>1
<1>5. SessionOK(s)'
  BY <1>2, <1>4 DEF SessionOK, Fresh, HoldOK, DeadOK, ReadRoutes, At, Dead
<1> QED
  BY <1>3, <1>4, <1>5, OneSession, SameConns DEF ReadRoutes

LEMMA ReadSeatsOK ==
  ASSUME IInv, NEW s \in Sessions, ReadSeats(s)
  PROVE  IInv'
<1> USE Parts
<1>1. job[s].at = "seats" /\ UNCHANGED <<age, status, covers, pin, turn, owed, gone, woke, changes>>
  BY DEF ReadSeats, At
<1>2. Candidates(s) \subseteq Seats /\ turn \in 0 .. MaxTurns
  BY RoutingAssumption DEF Candidates, IInv, TypeOK
<1>3. ASSUME NEW new \in Job, job' = [job EXCEPT ![s] = new],
             new.at = "claim", new.held = job[s].held, new.dead = job[s].dead
      PROVE  IInv'
  <2>1. TypeOK'
    BY <1>1, <1>3 DEF IInv, TypeOK
  <2>2. job'[s] = new /\ \A r \in Sessions \ {s} : job'[r] = job[r]
    BY <1>3
  <2>3. SessionOK(s)'
    BY <1>1, <1>3, <2>2 DEF SessionOK, Fresh, HoldOK, DeadOK, Dead
  <2> QED
    BY <1>1, <2>1, <2>2, <2>3, OneSession, SameConns
<1>4. CASE Candidates(s) # {} /\ s \in FanOut
  <2> DEFINE new == [job[s] EXCEPT !.at = "claim", !.turn = turn, !.chosen = Candidates(s)]
  <2>1. job' = [job EXCEPT ![s] = new]
    BY <1>4 DEF ReadSeats, Becomes
  <2>2. new \in Job /\ new.at = "claim" /\ new.held = job[s].held /\ new.dead = job[s].dead
    BY <1>2 DEF Job, Steps
  <2> QED
    BY <1>3, <2>1, <2>2
<1>5. CASE Candidates(s) # {} /\ s \notin FanOut
  <2> DEFINE new == [job[s] EXCEPT !.at = "claim", !.turn = turn, !.chosen = MostUrgent(Candidates(s))]
  <2>1. job' = [job EXCEPT ![s] = new]
    BY <1>5 DEF ReadSeats, Becomes
  <2>2. MostUrgent(Candidates(s)) \subseteq Seats
    BY <1>2 DEF MostUrgent
  <2>3. new \in Job /\ new.at = "claim" /\ new.held = job[s].held /\ new.dead = job[s].dead
    BY <1>2, <2>2 DEF Job, Steps
  <2> QED
    BY <1>3, <2>1, <2>3
<1>6. CASE NothingServed(s)
  <2>1. /\ job' \in [Sessions -> Job] /\ \A r \in Sessions \ {s} : job'[r] = job[r]
        /\ HoldOK(job'[s]) /\ job'[s].at \in {"resting", "holding"}
    BY <1>1, <1>6, NothingServedOK
  <2>2. TypeOK'
    BY <1>1, <2>1 DEF IInv, TypeOK
  <2>3. SessionOK(s)'
    BY <1>1, <2>1 DEF SessionOK, Fresh, HoldOK, DeadOK
  <2> QED
    BY <1>1, <2>1, <2>2, <2>3, OneSession, SameConns
<1> QED
  BY <1>4, <1>5, <1>6 DEF ReadSeats

LEMMA ClaimOK ==
  ASSUME IInv, NEW s \in Sessions, Claim(s)
  PROVE  IInv'
<1> USE Parts
<1>1. job[s].at = "claim" /\ UNCHANGED <<age, status, covers, turn, owed, gone, woke, changes>>
  BY DEF Claim, At
<1>2. pin' \in [Seats -> Conns \cup {NoConn}] /\ Claimed(s) \subseteq Seats
  BY DEF Claim, IInv, TypeOK, Claimed
<1>3. CASE NothingServed(s)
  <2>1. /\ job' \in [Sessions -> Job] /\ \A r \in Sessions \ {s} : job'[r] = job[r]
        /\ HoldOK(job'[s]) /\ job'[s].at \in {"resting", "holding"}
    BY <1>1, <1>3, NothingServedOK
  <2>2. TypeOK'
    BY <1>1, <1>2, <2>1 DEF IInv, TypeOK
  <2>3. SessionOK(s)'
    BY <1>1, <2>1 DEF SessionOK, Fresh, HoldOK, DeadOK
  <2> QED
    BY <1>1, <2>1, <2>2, <2>3, OneSession, SameConns
<1>4. CASE Becomes(s, [Idle("thinking") EXCEPT !.chosen = Claimed(s), !.turn = job[s].turn])
  <2> DEFINE new == [Idle("thinking") EXCEPT !.chosen = Claimed(s), !.turn = job[s].turn]
  <2>1. job' = [job EXCEPT ![s] = new]
    BY <1>4 DEF Becomes
  <2>2. Idle("thinking") \in Job
    BY IdleType DEF Steps
  <2>3. new \in Job /\ new.at = "thinking" /\ ~new.held
    BY <1>2, <2>2, IdleType DEF Job, Idle
  <2> HIDE DEF new
  <2>4. job'[s] = new /\ job' \in [Sessions -> Job] /\ \A r \in Sessions \ {s} : job'[r] = job[r]
    BY <2>1, <2>3
  <2>5. TypeOK'
    BY <1>1, <1>2, <2>4 DEF IInv, TypeOK
  <2>6. SessionOK(s)'
    BY <2>3, <2>4 DEF SessionOK, Fresh, HoldOK, DeadOK
  <2> QED
    BY <1>1, <2>4, <2>5, <2>6, OneSession, SameConns
<1> QED
  BY <1>3, <1>4 DEF Claim

LEMMA RecheckOK ==
  ASSUME IInv, NEW s \in Sessions, Recheck(s)
  PROVE  IInv'
<1> USE Parts
<1>1. job[s].at = "due" /\ UNCHANGED <<status, covers, pin, turn, owed, gone, changes>>
  BY DEF Recheck, At
<1>2. CASE Stamp(ConnOf[s]) /\ Becomes(s, [job[s] EXCEPT !.at = "routes"])
  <2> DEFINE new == [job[s] EXCEPT !.at = "routes"]
  <2>1. job' = [job EXCEPT ![s] = new] /\ new \in Job /\ new.at = "routes"
    BY <1>2 DEF Becomes, Job, Steps
  <2>2. /\ age' \in [Conns -> 0 .. Never] /\ woke' \subseteq Conns
        /\ age'[ConnOf[s]] < Throttle
        /\ \A c \in Conns : age'[c] <= age[c]
        /\ \A c \in Conns : Dead(c) \/ c \in woke => Dead(c)' \/ c \in woke'
    BY <1>1, <1>2, StampYoung DEF IInv
  <2> HIDE DEF new
  <2>3. TypeOK'
    BY <1>1, <2>1, <2>2 DEF IInv, TypeOK
  <2>4. job'[s] = new /\ \A r \in Sessions \ {s} : job'[r] = job[r]
    BY <2>1
  <2>5. SessionOK(s)'
    BY <2>1, <2>2, <2>4 DEF SessionOK, Fresh, HoldOK, DeadOK
  <2> QED
    BY <2>2, <2>3, <2>4, <2>5, OneSession
<1>3. CASE Becomes(s, Idle("resting")) /\ UNCHANGED <<age, woke>>
  <2>1. job' = [job EXCEPT ![s] = Idle("resting")] /\ Idle("resting") \in Job
    BY <1>3, IdleType DEF Becomes, Steps
  <2>2. TypeOK'
    BY <1>1, <1>3, <2>1 DEF IInv, TypeOK
  <2>3. job'[s] = Idle("resting") /\ \A r \in Sessions \ {s} : job'[r] = job[r]
    BY <2>1
  <2>4. SessionOK(s)'
    BY <2>3, IdleType DEF SessionOK, Fresh, HoldOK, DeadOK
  <2> QED
    BY <1>1, <1>3, <2>2, <2>3, <2>4, OneSession, SameConns
<1> QED
  BY <1>2, <1>3 DEF Recheck

LEMMA AnswerOK ==
  ASSUME IInv, NEW s \in Sessions, Answer(s)
  PROVE  IInv'
<1> USE Parts
<1>1. job[s].at = "thinking" /\ UNCHANGED <<status, covers, pin, turn, gone, changes>>
  BY DEF Answer, At
<1>2. ~job[s].held
  BY <1>1 DEF SessionOK, HoldOK
<1>3. CASE Becomes(s, Idle("resting")) /\ UNCHANGED <<age, woke, owed>>
  <2>1. job' = [job EXCEPT ![s] = Idle("resting")] /\ Idle("resting") \in Job
    BY <1>3, IdleType DEF Becomes, Steps
  <2>2. TypeOK'
    BY <1>1, <1>3, <2>1 DEF IInv, TypeOK
  <2>3. job'[s] = Idle("resting") /\ \A r \in Sessions \ {s} : job'[r] = job[r]
    BY <2>1
  <2>4. SessionOK(s)'
    BY <2>3, IdleType DEF SessionOK, Fresh, HoldOK, DeadOK
  <2> QED
    BY <1>1, <1>3, <2>2, <2>3, <2>4, OneSession, SameConns
<1>4. ASSUME Stamp(ConnOf[s]), NEW p \in job[s].chosen,
             owed' = IF job[s].turn = turn THEN owed \ {p} ELSE owed,
             Becomes(s, IF job[s].chosen = {p} THEN Idle("away")
                        ELSE [job[s] EXCEPT !.chosen = @ \ {p}])
      PROVE  IInv'
  <2> DEFINE new == IF job[s].chosen = {p} THEN Idle("away")
                    ELSE [job[s] EXCEPT !.chosen = @ \ {p}]
  <2>1. new \in Job /\ new.at \in {"away", "thinking"} /\ ~new.held
    <3>1. CASE job[s].chosen = {p}
      BY <3>1, IdleType DEF Steps
    <3>2. CASE job[s].chosen # {p}
      BY <1>1, <1>2, <3>2 DEF Job
    <3> QED
      BY <3>1, <3>2
  <2>2. job' = [job EXCEPT ![s] = new]
    BY <1>4 DEF Becomes
  <2> HIDE DEF new
  <2>3. /\ age' \in [Conns -> 0 .. Never] /\ woke' \subseteq Conns
        /\ \A c \in Conns : age'[c] <= age[c]
        /\ \A c \in Conns : Dead(c) \/ c \in woke => Dead(c)' \/ c \in woke'
    BY <1>1, <1>4, StampYoung DEF IInv
  <2>4. TypeOK'
    BY <1>1, <1>4, <2>1, <2>2, <2>3 DEF IInv, TypeOK
  <2>5. job'[s] = new /\ \A r \in Sessions \ {s} : job'[r] = job[r]
    BY <2>2
  <2>6. SessionOK(s)'
    BY <2>1, <2>5 DEF SessionOK, Fresh, HoldOK, DeadOK
  <2> QED
    BY <2>3, <2>4, <2>5, <2>6, OneSession
<1> QED
  BY <1>3, <1>4 DEF Answer

(* The owner and the match leave the sessions as they are.                 *)
LEMMA OwnerOK ==
  ASSUME IInv,
         \/ \E s \in Sessions : ClientStops(s)
         \/ \E c \in Conns, to \in {"active", "paused", "deleted"} : SetStatus(c, to)
         \/ \E c \in Conns, p \in Seats : Toggle(c, p)
         \/ NextTurn
         \/ UNCHANGED vars
  PROVE  IInv'
<1> DEFINE Calm == /\ job' = job /\ age' = age /\ TypeOK'
                   /\ \A c \in Conns : Dead(c) \/ c \in woke => Dead(c)' \/ c \in woke'
<1>1. Calm
  <2>1. CASE \E s \in Sessions : ClientStops(s)
    BY <2>1 DEF ClientStops, IInv, TypeOK, Dead
  <2>2. ASSUME NEW c \in Conns, NEW to \in {"active", "paused", "deleted"}, SetStatus(c, to)
        PROVE  Calm
    <3>1. job' = job /\ age' = age /\ status' = [status EXCEPT ![c] = to]
      BY <2>2 DEF SetStatus
    <3>2. status \in [Conns -> {"active", "paused", "deleted"}] /\ changes' \in 0 .. MaxChanges
      BY <2>2, RoutingAssumption DEF IInv, TypeOK, SetStatus
    <3>3. TypeOK'
      BY <2>2, <3>1, <3>2 DEF IInv, TypeOK, SetStatus
    <3>4. ASSUME NEW k \in Conns, Dead(k) \/ k \in woke
          PROVE  Dead(k)' \/ k \in woke'
      BY <2>2, <3>1, <3>2, <3>4 DEF SetStatus, Dead
    <3> QED
      BY <3>1, <3>3, <3>4
  <2>3. ASSUME NEW c \in Conns, NEW p \in Seats, Toggle(c, p)
        PROVE  Calm
    <3>1. changes' \in 0 .. MaxChanges
      BY <2>3, RoutingAssumption DEF IInv, TypeOK, Toggle
    <3>2. covers' \in [Conns -> SUBSET Seats]
      BY <2>3 DEF IInv, TypeOK, Toggle
    <3> QED
      BY <2>3, <3>1, <3>2 DEF IInv, TypeOK, Toggle, Dead
  <2>4. CASE NextTurn
    <3>1. turn' \in 1 .. MaxTurns
      BY <2>4, RoutingAssumption DEF IInv, TypeOK, NextTurn
    <3> QED
      BY <2>4, <3>1 DEF IInv, TypeOK, NextTurn, Dead
  <2>5. CASE UNCHANGED vars
    BY <2>5 DEF vars, IInv, TypeOK, Dead
  <2> QED
    BY <2>1, <2>2, <2>3, <2>4, <2>5
<1>2. \A c \in Conns : age'[c] <= age[c]
  BY <1>1, RoutingAssumption DEF IInv, TypeOK, Never
<1>3. \A s \in Sessions : SessionOK(s)'
  BY <1>1, <1>2, OthersOK DEF TypeOK
<1> QED
  BY <1>1, <1>3 DEF IInv

LEMMA TickOK ==
  ASSUME IInv, Tick
  PROVE  IInv'
<1> USE Parts
<1>1. /\ job' = [s \in Sessions |->
                   IF At(s, "holding") THEN [job[s] EXCEPT !.at = "due", !.left = @ - 1]
                   ELSE IF At(s, "resting") THEN Idle("away")
                   ELSE job[s]]
      /\ age' = [c \in Conns |-> IF age[c] = Never THEN Never ELSE age[c] + 1]
      /\ woke' = {} /\ UNCHANGED <<status, covers, pin, turn, owed, gone, changes>>
  BY DEF Tick
<1>2. age' \in [Conns -> 0 .. Never] /\ \A c \in Conns : age[c] \in Int /\ age'[c] <= age[c] + 1
  <2>1. age \in [Conns -> 0 .. Never] /\ Never \in Nat
    BY RoutingAssumption DEF IInv, TypeOK, Never
  <2>2. ASSUME NEW c \in Conns
        PROVE  age[c] \in Int /\ age'[c] \in 0 .. Never /\ age'[c] <= age[c] + 1
    <3>1. age'[c] = IF age[c] = Never THEN Never ELSE age[c] + 1
      BY <1>1
    <3>2. age[c] \in 0 .. Never
      BY <2>1
    <3> HIDE DEF Never
    <3> QED
      BY <2>1, <3>1, <3>2
  <2> QED
    BY <1>1, <2>2
<1>3. ASSUME NEW s \in Sessions
      PROVE  job'[s] \in Job /\ SessionOK(s)'
  <2>1. CASE At(s, "holding")
    <3> DEFINE new == [job[s] EXCEPT !.at = "due", !.left = @ - 1]
    <3>1. job[s].left > 0 /\ job[s].held /\ age[ConnOf[s]] < Throttle
      BY <2>1 DEF At, SessionOK, HoldOK, Fresh
    <3>2. job[s].left - 1 \in 0 .. Hold
      BY <3>1, RoutingAssumption
    <3>3. new \in Job /\ new.at = "due"
      BY <3>2 DEF Job, Steps
    <3> HIDE DEF new
    <3>4. job'[s] = new
      BY <1>1, <2>1 DEF new
    <3>5. age'[ConnOf[s]] <= Throttle
      BY <1>2, <3>1, RoutingAssumption DEF TypeOK, Never
    <3> QED
      BY <3>3, <3>4, <3>5 DEF SessionOK, Fresh, HoldOK, DeadOK
  <2>2. CASE At(s, "resting")
    <3>1. job'[s] = Idle("away")
      BY <1>1, <2>2 DEF At
    <3> QED
      BY <3>1, IdleType DEF SessionOK, Fresh, HoldOK, DeadOK, Steps
  <2>3. CASE ~At(s, "holding") /\ ~At(s, "resting")
    <3>1. job'[s] = job[s]
      BY <1>1, <2>3
    <3>2. job[s].at \in {"away", "thinking"}
      BY <2>3 DEF Tick, Working, At, Steps
    <3>3. ~job[s].held
      BY <3>2 DEF SessionOK, HoldOK
    <3> QED
      BY <3>1, <3>2, <3>3 DEF SessionOK, Fresh, HoldOK, DeadOK
  <2> QED
    BY <2>1, <2>2, <2>3
<1>4. job' \in [Sessions -> Job]
  BY <1>1, <1>3
<1>5. TypeOK'
  BY <1>1, <1>2, <1>4 DEF IInv, TypeOK
<1> QED
  BY <1>3, <1>5 DEF IInv

LEMMA NextOK ==
  ASSUME IInv, [Next]_vars
  PROVE  IInv'
<1>1. ASSUME NEW s \in Sessions, Session(s) PROVE IInv'
  BY <1>1, CallOK, ReadRoutesOK, ReadSeatsOK, ClaimOK, RecheckOK, AnswerOK DEF Session
<1>2. CASE Tick
  BY <1>2, TickOK
<1> QED
  BY <1>1, <1>2, OwnerOK DEF Next

LEMMA Inductive == Spec => []IInv
<1>1. IInv /\ [Next]_vars => IInv'
  BY NextOK
<1> QED
  BY InitIInv, <1>1, PTL DEF Spec

-----------------------------------------------------------------------------
(* Theorems.                                                               *)

(* Every variable keeps its type; above all, no hold outlives its          *)
(* deadline.                                                               *)
THEOREM TypeCorrect == Spec => []TypeOK
<1>1. IInv => TypeOK
  BY DEF IInv
<1> QED
  BY Inductive, <1>1, PTL

(* However long the server holds a poll, the connection that polls never   *)
(* looks dead meanwhile.                                                   *)
THEOREM HoldsAreAlive == Spec => []HoldKeepsAlive
<1>1. ASSUME IInv PROVE HoldKeepsAlive
  <2>1. ASSUME NEW s \in Sessions, job[s].held PROVE age[ConnOf[s]] <= Window
    <3>1. SessionOK(s) /\ ConnOf[s] \in Conns
      BY <1>1, Parts
    <3>2. age[ConnOf[s]] <= Throttle
      BY <1>1, <2>1, <3>1, RoutingAssumption DEF SessionOK, Fresh, HoldOK, IInv, TypeOK, Never
    <3> QED
      BY <1>1, <3>1, <3>2, RoutingAssumption DEF IInv, TypeOK, Never
  <2> QED
    BY <2>1 DEF HoldKeepsAlive
<1> QED
  BY Inductive, <1>1, PTL

(* The sticky rule: whoever races whom, a pin leaves a connection only     *)
(* when that is dead, or woke while the pin was being claimed.             *)
THEOREM PinsStick == Spec => StickyPin
<1>1. ASSUME IInv, [Next]_vars, NEW p \in Seats, pin[p] # NoConn, pin'[p] # pin[p]
      PROVE  Dead(pin[p]) \/ pin[p] \in woke
  <2>1. PICK s \in Sessions : Claim(s)
    BY <1>1 DEF Next, Session, Call, ReadRoutes, ReadSeats, Recheck, Answer, ClientStops,
                SetStatus, Toggle, NextTurn, Tick, vars
  <2>2. p \in Claimed(s) /\ pin[p] # ConnOf[s]
    BY <1>1, <2>1 DEF Claim
  <2>3. pin[p] \in job[s].dead
    BY <1>1, <2>2 DEF Claimed
  <2>4. SessionOK(s) /\ job[s].at = "claim"
    BY <1>1, <2>1, Parts DEF Claim, At
  <2> QED
    BY <2>3, <2>4 DEF SessionOK, DeadOK
<1>2. IInv /\ [Next]_vars
        => [\A p \in Seats : pin[p] # NoConn /\ pin'[p] # pin[p]
              => Dead(pin[p]) \/ pin[p] \in woke]_vars
  BY <1>1
<1> QED
  BY Inductive, <1>2, PTL DEF Spec, StickyPin
=============================================================================
