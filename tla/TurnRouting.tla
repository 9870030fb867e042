----------------------------- MODULE TurnRouting -----------------------------
(***************************************************************************)
(* How an open turn finds the one client that plays it. A user's clients   *)
(* poll over connections; a poll looks which seats it may serve, claims a  *)
(* seat's pin with one conditional UPDATE, and hands out the turn. A pin   *)
(* sticks to its connection until the connection is taken for dead, by the *)
(* age of its last call. A poll without a turn is held, and a held poll    *)
(* must keep its own connection from looking dead.                         *)
(*                                                                         *)
(* Abstractions. One user with seats in one match, ordered as              *)
(* select_next_turn breaks its ties; a phase of a turn is a turn. Time     *)
(* passes in ticks of LONG_POLL_INTERVAL_SECONDS, and a request that is    *)
(* not held is answered within one. How a move is recorded is in           *)
(* MoveRecording.                                                          *)
(***************************************************************************)
EXTENDS Integers, FiniteSets

CONSTANTS
  Conns,      \* connections of the user
  Sessions,   \* client sessions that poll
  ConnOf,     \* the connection a session calls over
  Scope,      \* the seats a session asks for (agent_id)
  FanOut,     \* the sessions that call get_next_turns
  Seats,      \* seats of the user's agents in the match
  Covered,    \* the seats whose provider a connection covers at first
  Throttle,   \* _HEARTBEAT_THROTTLE_SECONDS, _POLL_THROTTLE_SECONDS
  Window,     \* LIVE_WINDOW_SECONDS
  Hold,       \* LONG_POLL_HOLD_SECONDS
  MaxTurns,   \* bound on the turns that open
  MaxChanges  \* bound on what the owner changes on the connections

ASSUME RoutingAssumption ==
  /\ ConnOf \in [Sessions -> Conns] /\ Scope \in [Sessions -> SUBSET Seats]
  /\ Covered \in [Conns -> SUBSET Seats]
  /\ FanOut \subseteq Sessions /\ Seats \subseteq Nat
  /\ Throttle \in Nat \ {0} /\ Window \in Nat /\ Throttle < Window
  /\ Hold \in Nat \ {0} /\ MaxTurns \in Nat \ {0} /\ MaxChanges \in Nat

VARIABLES
  age,      \* ticks since each connection's last_seen_at
  status,   \* connections.status and deleted_at
  covers,   \* the seats whose provider is enabled on each connection
  pin,      \* players.served_by_connection_id
  turn,     \* how many turns have opened
  owed,     \* the seats without a genuine row in the open turn
  job,      \* each session's request and what it has read
  gone,     \* sessions whose client has stopped
  woke,     \* connections that have come back to life since the last tick
  changes

vars == <<age, status, covers, pin, turn, owed, job, gone, woke, changes>>

NoConn == "nobody"
Never == Window + 1        \* older than any window, or NULL
Dead(c) == status[c] # "active" \/ age[c] > Window

Steps == {"away", "resting", "routes", "seats", "claim", "holding", "due", "thinking"}
Job == [at : Steps, dead : SUBSET Conns, chosen : SUBSET Seats, turn : 0 .. MaxTurns,
        left : 0 .. Hold, held : BOOLEAN]
Idle(at) == [at |-> at, dead |-> {}, chosen |-> {}, turn |-> 0, left |-> 0, held |-> FALSE]

TypeOK ==
  /\ age \in [Conns -> 0 .. Never]
  /\ status \in [Conns -> {"active", "paused", "deleted"}]
  /\ covers \in [Conns -> SUBSET Seats]
  /\ pin \in [Seats -> Conns \cup {NoConn}]
  /\ turn \in 1 .. MaxTurns /\ owed \subseteq Seats
  /\ job \in [Sessions -> Job]
  /\ gone \subseteq Sessions /\ woke \subseteq Conns
  /\ changes \in 0 .. MaxChanges

Init ==
  /\ age = [c \in Conns |-> Never]
  /\ status = [c \in Conns |-> "active"]
  /\ covers = Covered
  /\ pin = [p \in Seats |-> NoConn]
  /\ turn = 1 /\ owed = Seats
  /\ job = [s \in Sessions |-> Idle("away")]
  /\ gone = {} /\ woke = {} /\ changes = 0

At(s, here) == job[s].at = here
Becomes(s, new) == job' = [job EXCEPT ![s] = new]
Working(s) == job[s].at \in {"routes", "seats", "claim", "due"}

(* mark_seen and mark_still_holding write the stamp when it is old enough. *)
Stamp(c) ==
  /\ age' = [age EXCEPT ![c] = IF @ < Throttle THEN @ ELSE 0]
  /\ woke' = IF Dead(c) THEN woke \cup {c} ELSE woke

-----------------------------------------------------------------------------
(* A poll.                                                                 *)

(* require_connection, mark_seen and mark_polled.                          *)
Call(s) ==
  /\ At(s, "away") /\ s \notin gone
  /\ \/ /\ status[ConnOf[s]] = "active"
        /\ Stamp(ConnOf[s])
        /\ Becomes(s, Idle("routes"))
        /\ UNCHANGED gone
     \/ /\ status[ConnOf[s]] = "paused"
        /\ Becomes(s, Idle("resting"))
        /\ UNCHANGED <<age, woke, gone>>
     \/ /\ status[ConnOf[s]] = "deleted"
        /\ gone' = gone \cup {s}
        /\ UNCHANGED <<age, woke, job>>
  /\ UNCHANGED <<status, covers, pin, turn, owed, changes>>

(* _load_route_states.                                                     *)
ReadRoutes(s) ==
  /\ At(s, "routes")
  /\ Becomes(s, [job[s] EXCEPT !.at = "seats", !.dead = {c \in Conns : Dead(c)}])
  /\ UNCHANGED <<age, status, covers, pin, turn, owed, gone, woke, changes>>

(* Mutant: a pin is for ever.                                              *)
CanClaimNoFailover(s, p) ==
  ConnOf[s] \notin job[s].dead /\ p \in covers[ConnOf[s]] /\ pin[p] \in {NoConn, ConnOf[s]}

(* can_connection_claim_turn, with the routes that were read.              *)
CanClaim(s, p) ==
  /\ ConnOf[s] \notin job[s].dead
  /\ p \in covers[ConnOf[s]]
  /\ pin[p] \in {NoConn, ConnOf[s]} \cup job[s].dead

Candidates(s) == {p \in owed \cap Scope[s] : CanClaim(s, p)}
MostUrgent(those) == {p \in those : \A q \in those : p <= q}

(* Mutant: the deadline of the hold is not looked at.                      *)
NothingServedForEver(s) ==
  IF s \in FanOut
    THEN Becomes(s, Idle("resting"))
    ELSE Becomes(s, [Idle("holding") EXCEPT !.held = TRUE,
                       !.left = IF job[s].held THEN job[s].left ELSE Hold])

(* With nothing to serve: get_next_turn starts or goes on with its hold,   *)
(* and answers when it is over; get_next_turns answers at once.            *)
NothingServed(s) ==
  IF s \in FanOut \/ (job[s].held /\ job[s].left = 0)
    THEN Becomes(s, Idle("resting"))
    ELSE Becomes(s, [Idle("holding") EXCEPT !.held = TRUE,
                       !.left = IF job[s].held THEN job[s].left ELSE Hold])

(* The rest of _collect_candidates, and select_next_turn.                  *)
ReadSeats(s) ==
  /\ At(s, "seats")
  /\ \/ /\ Candidates(s) # {}
        /\ Becomes(s, [job[s] EXCEPT !.at = "claim", !.turn = turn,
                         !.chosen = IF s \in FanOut THEN Candidates(s)
                                    ELSE MostUrgent(Candidates(s))])
     \/ Candidates(s) = {} /\ NothingServed(s)
  /\ UNCHANGED <<age, status, covers, pin, turn, owed, gone, woke, changes>>

(* Mutant: the UPDATE has no condition on the pin.                         *)
ClaimedBlind(s) == job[s].chosen

(* _claim_pin: the UPDATE goes by the pins that are there now, but by the  *)
(* dead that were read.                                                    *)
Claimed(s) == {p \in job[s].chosen : pin[p] \in {NoConn, ConnOf[s]} \cup job[s].dead}

Claim(s) ==
  /\ At(s, "claim")
  /\ pin' = [p \in Seats |-> IF p \in Claimed(s) THEN ConnOf[s] ELSE pin[p]]
  /\ \/ /\ Claimed(s) # {}
        /\ Becomes(s, [Idle("thinking") EXCEPT !.chosen = Claimed(s), !.turn = job[s].turn])
     \/ Claimed(s) = {} /\ NothingServed(s)
  /\ UNCHANGED <<age, status, covers, turn, owed, gone, woke, changes>>

(* Mutant: a held poll does not write the stamps.                          *)
RecheckUnseen(s) ==
  /\ At(s, "due")
  /\ Becomes(s, IF status[ConnOf[s]] = "active" THEN [job[s] EXCEPT !.at = "routes"]
                ELSE Idle("resting"))
  /\ UNCHANGED <<age, status, covers, pin, turn, owed, gone, woke, changes>>

(* A tick of the hold: the connection is looked at again, and its stamps   *)
(* are kept fresh.                                                         *)
Recheck(s) ==
  /\ At(s, "due")
  /\ \/ /\ status[ConnOf[s]] = "active"
        /\ Stamp(ConnOf[s])
        /\ Becomes(s, [job[s] EXCEPT !.at = "routes"])
     \/ /\ status[ConnOf[s]] # "active"
        /\ Becomes(s, Idle("resting"))
        /\ UNCHANGED <<age, woke>>
  /\ UNCHANGED <<status, covers, pin, turn, owed, gone, changes>>

(* The client answers one of its turns. Neither the pin nor the provider   *)
(* is looked at; a turn that is over, or a seat that has answered, is not  *)
(* answered again.                                                         *)
Answer(s) ==
  /\ At(s, "thinking") /\ s \notin gone
  /\ \/ /\ status[ConnOf[s]] = "active"
        /\ Stamp(ConnOf[s])
        /\ \E p \in job[s].chosen :
             /\ owed' = IF job[s].turn = turn THEN owed \ {p} ELSE owed
             /\ Becomes(s, IF job[s].chosen = {p} THEN Idle("away")
                           ELSE [job[s] EXCEPT !.chosen = @ \ {p}])
     \/ /\ status[ConnOf[s]] # "active"
        /\ Becomes(s, Idle("resting"))
        /\ UNCHANGED <<age, woke, owed>>
  /\ UNCHANGED <<status, covers, pin, turn, gone, changes>>

Session(s) ==
  \/ Call(s) \/ ReadRoutes(s) \/ ReadSeats(s) \/ Claim(s) \/ Recheck(s) \/ Answer(s)

-----------------------------------------------------------------------------
(* The environment.                                                        *)

(* A client stops. The server does not notice: it goes on with a poll that *)
(* it holds, and may serve it.                                             *)
ClientStops(s) ==
  /\ s \notin gone /\ gone' = gone \cup {s}
  /\ UNCHANGED <<age, status, covers, pin, turn, owed, job, woke, changes>>

(* pause_connection, resume_connection, delete_connection.                 *)
SetStatus(c, to) ==
  /\ changes < MaxChanges /\ changes' = changes + 1
  /\ status[c] # "deleted" /\ status[c] # to
  /\ status' = [status EXCEPT ![c] = to]
  /\ woke' = IF to = "active" THEN woke \cup {c} ELSE woke
  /\ UNCHANGED <<age, covers, pin, turn, owed, job, gone>>

(* toggle_provider.                                                        *)
Toggle(c, p) ==
  /\ changes < MaxChanges /\ changes' = changes + 1
  /\ covers' = [covers EXCEPT ![c] = IF p \in @ THEN @ \ {p} ELSE @ \cup {p}]
  /\ UNCHANGED <<age, status, pin, turn, owed, job, gone, woke>>

(* The turn loop goes on to the next turn.                                 *)
NextTurn ==
  /\ turn < MaxTurns /\ turn' = turn + 1
  /\ owed' = Seats
  /\ UNCHANGED <<age, status, covers, pin, job, gone, woke, changes>>

Tick ==
  /\ \A s \in Sessions : ~Working(s)
  /\ age' = [c \in Conns |-> IF age[c] = Never THEN Never ELSE age[c] + 1]
  /\ job' = [s \in Sessions |->
               IF At(s, "holding") THEN [job[s] EXCEPT !.at = "due", !.left = @ - 1]
               ELSE IF At(s, "resting") THEN Idle("away")
               ELSE job[s]]
  /\ woke' = {}
  /\ UNCHANGED <<status, covers, pin, turn, owed, gone, changes>>

Next ==
  \/ \E s \in Sessions : Session(s) \/ ClientStops(s)
  \/ \E c \in Conns :
       \/ \E to \in {"active", "paused", "deleted"} : SetStatus(c, to)
       \/ \E p \in Seats : Toggle(c, p)
  \/ NextTurn \/ Tick

Spec == Init /\ [][Next]_vars

(* The server works on what is asked of it, a client that has not stopped  *)
(* goes on playing, and time passes.                                       *)
FairSpec == Spec /\ WF_vars(Tick) /\ \A s \in Sessions : WF_vars(Session(s))

-----------------------------------------------------------------------------
(* Properties.                                                             *)

(* mark_still_holding: however long a poll is held, its connection is not  *)
(* taken for dead meanwhile, so nobody takes its seats away and it may     *)
(* claim the turn it waits for.                                            *)
HoldKeepsAlive ==
  \A s \in Sessions : job[s].held => age[ConnOf[s]] <= Window

(* "The sticky rule": a pin moves away from a connection only when that is *)
(* dead, or has come back to life while the other one was claiming.        *)
StickyPin ==
  [][\A p \in Seats : pin[p] # NoConn /\ pin'[p] # pin[p]
       => Dead(pin[p]) \/ pin[p] \in woke]_vars

(* Failover: a seat that owes its last turn is played in the end, unless   *)
(* no client is left that covers it, or its pin is found again and again   *)
(* on a connection that other calls keep alive while nobody plays the seat *)
(* over it.                                                                *)
CanPlay(s, p) ==
  /\ s \notin gone /\ p \in Scope[s] /\ p \in covers[ConnOf[s]]
  /\ status[ConnOf[s]] = "active"
Stranded(p) ==
  /\ pin[p] # NoConn /\ ~Dead(pin[p])
  /\ \A s \in Sessions : ConnOf[s] = pin[p] => ~CanPlay(s, p)

EventuallyPlayed ==
  \A p \in Seats : \/ <>(turn = MaxTurns /\ p \notin owed)
                   \/ <>[](turn < MaxTurns)
                   \/ <>[](\A s \in Sessions : ~CanPlay(s, p))
                   \/ []<>Stranded(p)
=============================================================================
