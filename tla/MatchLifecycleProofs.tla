------------------------- MODULE MatchLifecycleProofs -------------------------
(***************************************************************************)
(* What holds of every match before and around its start: for any players, *)
(* any number of requests and any number of deaths of the process.         *)
(***************************************************************************)
EXTENDS MatchLifecycle, FiniteSetTheorems, TLAPS

-----------------------------------------------------------------------------
(* The inductive invariant. What a worker has marked for release or for    *)
(* confirmation was held when it looked, and a row that was held once is   *)
(* never again one that was not; and a worker flips the match only after   *)
(* it has seen it in a state it can start from.                            *)

Spoken(r) == rows[r].hold \notin {"none", "never"}

JobOK(j) ==
  /\ j.at = "leaving" \/ \A r \in j.marked \cup j.lifted : Spoken(r)
  /\ j.at = "flip" => j.snap \in NotStarted

IInv == TypeOK /\ \A w \in Workers : JobOK(job[w])

(* The parts of a step that the theorems are about.                        *)
MatchOK ==
  /\ kind \in Kinds /\ state \in States /\ due \in BOOLEAN
  /\ rows \in [Rows -> PlayerRow]
  /\ bots \in 0 .. MaxPlayers
  /\ live \subseteq Agents /\ running \in BOOLEAN
  /\ deaths \in 0 .. MaxDeaths
  /\ \A q, r \in Rows : Exists(q) /\ Exists(r) /\ rows[q].who = rows[r].who => q = r

SpokenStays == \A r \in Rows : Spoken(r) => Spoken(r)'

HeldStep ==
  \A r \in Rows :
    /\ Exists(r) /\ rows[r].hold = "never"
         => (Exists(r) /\ rows[r].hold = "never")' \/ state' = "deleted"
    /\ Exists(r) /\ rows[r].hold = "lifted" /\ ~ToRelease(r)
         => (Exists(r) /\ rows[r].hold = "lifted")' \/ state' = "deleted"

ConfirmedStep ==
  \A r \in Rows :
    /\ Exists(r) /\ rows[r].hold = "never"
         => (Exists(r) /\ rows[r].hold = "never")' \/ state' = "deleted"
    /\ Exists(r) /\ rows[r].hold = "lifted" /\ ~ToRelease(r)
         => \/ (Exists(r) /\ rows[r].hold = "lifted" /\ ~ToRelease(r))'
            \/ state' = "deleted"

CancelStep ==
  state = "cancelled" /\ ~StartUnderWay
    => state' \in {"cancelled", "deleted"} /\ ~StartUnderWay'

Good == IInv' /\ ConfirmedStep /\ CancelStep

(* What a worker may go on with: it puts a seat on a list to release only  *)
(* while the seat is held.                                                 *)
Sound(j) ==
  /\ JobOK(j)
  /\ j.at \in Releasing => \A r \in j.marked : IsHeld(r) \/ ToRelease(r)

-----------------------------------------------------------------------------
(* Lemmas on types.                                                        *)

LEMMA TypeParts == TypeOK <=> MatchOK /\ job \in [Workers -> Job]
BY DEF TypeOK, MatchOK

LEMMA IdleType ==
  /\ \A at \in Steps : Idle(at) \in Job
  /\ \A at : /\ Idle(at).at = at /\ Idle(at).marked = {} /\ Idle(at).lifted = {}
             /\ Idle(at).snap = "none"
BY LifecycleAssumption DEF Idle, Job, States, NotStarted

LEMMA RowTypes ==
  /\ GoneRow \in PlayerRow /\ GoneRow.hold = "gone" /\ GoneRow.who = Nobody
  /\ NoRow \in PlayerRow /\ NoRow.hold = "none" /\ NoRow.who = Nobody
  /\ \A e \in Entrants \cup {Nobody}, hold \in {"never", "held"} :
       NewRow(e, hold) \in PlayerRow /\ NewRow(e, hold).hold = hold /\ NewRow(e, hold).who = e
BY DEF GoneRow, NoRow, NewRow, PlayerRow

LEMMA SeatedCountType ==
  ASSUME MatchOK
  PROVE  SeatedCount \in Nat /\ bots \in Nat /\ bots <= SeatedCount
<1>1. IsFiniteSet(Rows)
  BY FS_Interval, LifecycleAssumption DEF Rows
<1>2. IsFiniteSet({r \in Rows : Seated(r)})
  BY <1>1, FS_Subset
<1>3. Cardinality({r \in Rows : Seated(r)}) \in Nat
  BY <1>2, FS_CardinalityType
<1> QED
  BY <1>3, LifecycleAssumption DEF MatchOK, SeatedCount

(* Releasing rows takes nothing from the others.                           *)
LEMMA WithoutFacts ==
  ASSUME MatchOK, NEW gone \in SUBSET Rows
  PROVE  /\ Without(gone) \in [Rows -> PlayerRow]
         /\ \A r \in Rows : r \in gone => Without(gone)[r] = GoneRow
         /\ \A r \in Rows : r \notin gone => Without(gone)[r] = rows[r]
BY RowTypes DEF MatchOK, Without

-----------------------------------------------------------------------------
(* What a worker's step has to show.                                       *)

LEMMA WorkerStep ==
  ASSUME IInv, NEW w \in Workers, NEW new \in Job, Becomes(w, new),
         Sound(new), MatchOK', SpokenStays, HeldStep,
         state = "cancelled" /\ ~StartUnderWay
           => state' \in {"cancelled", "deleted"} /\ new.snap \notin NotStarted
  PROVE  Good
<1>1. /\ job' \in [Workers -> Job] /\ job'[w] = new
      /\ \A v \in Workers : v # w => job'[v] = job[v]
  BY DEF IInv, TypeOK, Becomes
<1>2. TypeOK'
  BY <1>1 DEF TypeOK, MatchOK
<1>3. ASSUME NEW j \in Job, JobOK(j) PROVE JobOK(j)'
  BY <1>3 DEF JobOK, SpokenStays, Job
<1>4. \A v \in Workers : JobOK(job[v])'
  <2> SUFFICES ASSUME NEW v \in Workers PROVE JobOK(job[v])'
    OBVIOUS
  <2>1. job'[v] \in Job /\ JobOK(job'[v])
    BY <1>1 DEF IInv, TypeOK, Sound
  <2> QED
    BY <2>1, <1>3
<1>5. CancelStep
  BY <1>1 DEF CancelStep, StartUnderWay
<1>6. ASSUME NEW r \in Rows, rows[r].hold = "lifted", ~ToRelease(r)
      PROVE  ~ToRelease(r)'
  <2>1. ~IsHeld(r)
    BY <1>6 DEF IsHeld
  <2> QED
    BY <1>1, <1>6, <2>1 DEF ToRelease, Sound
<1>7. ConfirmedStep
  BY <1>6 DEF ConfirmedStep, HeldStep
<1> QED
  BY <1>2, <1>4, <1>5, <1>7 DEF Good, IInv

LEMMA QuietStep ==
  ASSUME IInv, NEW w \in Workers, NEW new \in Job, Becomes(w, new), UNCHANGED matchVars,
         Sound(new),
         new.snap \in NotStarted => state \in NotStarted \/ job[w].snap \in NotStarted
  PROVE  Good
<1>1. MatchOK' /\ SpokenStays /\ HeldStep
  BY DEF IInv, TypeOK, MatchOK, matchVars, SpokenStays, Spoken, HeldStep, Exists
<1>2. state = "cancelled" /\ ~StartUnderWay
        => state' \in {"cancelled", "deleted"} /\ new.snap \notin NotStarted
  BY DEF matchVars, StartUnderWay, NotStarted
<1> QED
  BY <1>1, <1>2, WorkerStep

(* Leaving ends the work, going on keeps what was read.                    *)
LEMMA Moves ==
  ASSUME IInv, NEW w \in Workers
  PROVE  /\ Leaves(w) => \E new \in Job : /\ Becomes(w, new) /\ Sound(new)
                                          /\ new.snap \notin NotStarted
         /\ \A there \in Steps :
              Goes(w, there) /\ ~At(w, "leaving") /\ there \notin Releasing
                => \E new \in Job : /\ Becomes(w, new) /\ Sound(new)
                                    /\ new.snap = job[w].snap
         /\ \A there \in Steps : there \notin Releasing
              => Idle(there) \in Job /\ Sound(Idle(there)) /\ Idle(there).snap \notin NotStarted
<1>1. job[w] \in Job /\ JobOK(job[w])
  BY DEF IInv, TypeOK
<1>2. ASSUME Leaves(w)
      PROVE  \E new \in Job : Becomes(w, new) /\ Sound(new) /\ new.snap \notin NotStarted
  <2>1. job[w].then \in {"over", "sweep", "watchdog"}
    BY <1>1 DEF Job
  <2>2. Idle(job[w].then) \in Job /\ Sound(Idle(job[w].then))
    <3>1. job[w].then \in Steps /\ job[w].then \notin Releasing
      BY <2>1 DEF Releasing, Steps
    <3> QED
      BY <3>1, IdleType DEF Sound, Releasing, JobOK
  <2> QED
    BY <1>2, <2>2, IdleType DEF Leaves, NotStarted
<1>3. ASSUME NEW there \in Steps, Goes(w, there), ~At(w, "leaving"), there \notin Releasing
      PROVE  \E new \in Job : Becomes(w, new) /\ Sound(new) /\ new.snap = job[w].snap
  <2> DEFINE new == [job[w] EXCEPT !.at = there]
  <2>1. new \in Job /\ new.at = there /\ new.snap = job[w].snap
        /\ new.marked = job[w].marked /\ new.lifted = job[w].lifted
    BY <1>1 DEF Job
  <2>2. Sound(new)
    BY <1>1, <1>3, <2>1 DEF Sound, Releasing, JobOK, At
  <2> QED
    BY <1>3, <2>1, <2>2 DEF Goes
<1>4. ASSUME NEW there \in Steps, there \notin Releasing
      PROVE  Idle(there) \in Job /\ Sound(Idle(there)) /\ Idle(there).snap \notin NotStarted
  BY <1>4, IdleType DEF Sound, Releasing, JobOK, NotStarted
<1> QED
  BY <1>2, <1>3, <1>4

-----------------------------------------------------------------------------
(* What a step has to show when it leaves the rows alone, or releases some *)
(* that were held.                                                         *)

LEMMA RowsStay ==
  ASSUME MatchOK, UNCHANGED <<kind, rows, live>>, state' \in States, due' \in BOOLEAN,
         bots' \in 0 .. MaxPlayers, running' \in BOOLEAN, deaths' \in 0 .. MaxDeaths
  PROVE  MatchOK' /\ SpokenStays /\ HeldStep
BY DEF MatchOK, SpokenStays, Spoken, HeldStep, Exists

LEMMA RowsGo ==
  ASSUME MatchOK, NEW gone \in SUBSET Rows, rows' = Without(gone),
         state' = "deleted" \/ \A r \in gone : Spoken(r) /\ ToRelease(r),
         UNCHANGED <<kind, live>>, state' \in States, due' \in BOOLEAN,
         bots' \in 0 .. MaxPlayers, running' \in BOOLEAN, deaths' \in 0 .. MaxDeaths
  PROVE  MatchOK' /\ SpokenStays /\ HeldStep
<1>1. \A r \in Rows : r \in gone => rows'[r] = GoneRow
  BY WithoutFacts
<1>2. \A r \in Rows : r \notin gone => rows'[r] = rows[r]
  BY WithoutFacts
<1>3. rows' \in [Rows -> PlayerRow]
  BY WithoutFacts
<1>4. MatchOK'
  BY <1>1, <1>2, <1>3, RowTypes DEF MatchOK, Exists
<1> QED
  BY <1>1, <1>2, <1>4, RowTypes DEF SpokenStays, Spoken, HeldStep, Exists

(* A step that changes some fields of some rows, but not whose they are.   *)
LEMMA RowsChange ==
  ASSUME MatchOK, rows' \in [Rows -> PlayerRow],
         \A r \in Rows : rows'[r].who = rows[r].who,
         \A r \in Rows : rows'[r].hold = rows[r].hold \/ (Spoken(r) /\ Spoken(r)'),
         \A r \in Rows : rows[r].hold = "lifted" => rows'[r].hold = "lifted",
         UNCHANGED <<kind, state, due, bots, live, running, deaths>>
  PROVE  MatchOK' /\ SpokenStays /\ HeldStep
BY DEF MatchOK, SpokenStays, Spoken, HeldStep, Exists

-----------------------------------------------------------------------------
(* start_game.                                                             *)

LEMMA ReleaseHeldGood ==
  ASSUME IInv, NEW w \in Workers, ReleaseHeld(w)
  PROVE  Good
<1>1. job[w] \in Job /\ JobOK(job[w])
  BY DEF IInv, TypeOK
<1>2. UNCHANGED matchVars
  BY DEF ReleaseHeld
<1>3. CASE Leaves(w)
  BY <1>2, <1>3, Moves, QuietStep
<1>4. CASE job[w].snap \in NotStarted
           /\ Becomes(w, [job[w] EXCEPT !.at = "flip", !.marked = {r \in Rows : IsHeld(r)}])
  <2> DEFINE new == [job[w] EXCEPT !.at = "flip", !.marked = {r \in Rows : IsHeld(r)}]
  <2>1. /\ new \in Job /\ new.at = "flip" /\ new.snap = job[w].snap
        /\ new.marked = {r \in Rows : IsHeld(r)} /\ new.lifted = job[w].lifted
    BY <1>1 DEF Job, Steps
  <2>2. \A r \in Rows : IsHeld(r) => Spoken(r)
    BY DEF IsHeld, Spoken
  <2>3. job[w].at # "leaving"
    BY DEF ReleaseHeld, At
  <2>4. Sound(new)
    BY <1>1, <1>4, <2>1, <2>2, <2>3 DEF Sound, Releasing, JobOK
  <2> QED
    BY <1>2, <1>4, <2>1, <2>4, QuietStep
<1> QED
  BY <1>3, <1>4 DEF ReleaseHeld

LEMMA FlipGood ==
  ASSUME IInv, NEW w \in Workers, Flip(w)
  PROVE  Good
<1>1. job[w] \in Job /\ JobOK(job[w]) /\ MatchOK
  BY TypeParts DEF IInv, TypeOK
<1>2. job[w].at = "flip" /\ job[w].snap \in NotStarted
  BY <1>1 DEF Flip, At, JobOK
<1>3. CASE UNCHANGED <<state, rows>> /\ Leaves(w)
  BY <1>3, Moves, QuietStep DEF Flip, matchVars
<1>4. CASE /\ state' = "active" /\ rows' = Without(job[w].marked)
           /\ Becomes(w, [Idle("register") EXCEPT !.then = job[w].then])
  <2> DEFINE new == [Idle("register") EXCEPT !.then = job[w].then]
  <2>1. Idle("register") \in Job /\ job[w].then \in {"over", "sweep", "watchdog"}
    BY <1>1, IdleType DEF Job, Steps
  <2>2. /\ new \in Job /\ new.at = "register" /\ new.snap = "none"
        /\ new.marked = {} /\ new.lifted = {}
    BY <2>1, IdleType DEF Job
  <2>3. Sound(new)
    BY <2>2 DEF Sound, Releasing, JobOK
  <2>4. job[w].marked \in SUBSET Rows /\ \A r \in job[w].marked : Spoken(r) /\ ToRelease(r)
    BY <1>1, <1>2 DEF Job, JobOK, ToRelease, Releasing
  <2>5. MatchOK' /\ SpokenStays /\ HeldStep
    <3>1. UNCHANGED <<kind, live, due, bots, running, deaths>>
      BY DEF Flip
    <3>2. state' \in States
      BY <1>4 DEF States
    <3> QED
      BY <1>1, <1>4, <2>4, <3>1, <3>2, RowsGo DEF MatchOK
  <2>6. StartUnderWay
    BY <1>2 DEF StartUnderWay
  <2> QED
    BY <1>4, <2>2, <2>3, <2>5, <2>6, WorkerStep
<1> QED
  BY <1>3, <1>4 DEF Flip

LEMMA RegisterGood ==
  ASSUME IInv, NEW w \in Workers, Register(w)
  PROVE  Good
<1>1. MatchOK
  BY TypeParts DEF IInv
<1>2. MatchOK' /\ SpokenStays /\ HeldStep
  BY <1>1, RowsStay DEF Register, MatchOK
<1>3. state' = state
  BY DEF Register
<1>4. PICK new \in Job : Becomes(w, new) /\ Sound(new) /\ new.snap \notin NotStarted
  BY Moves DEF Register
<1> QED
  BY <1>2, <1>3, <1>4, WorkerStep

LEMMA StartGameGood ==
  ASSUME IInv, NEW w \in Workers, StartGame(w)
  PROVE  Good
BY ReleaseHeldGood, FlipGood, RegisterGood DEF StartGame

-----------------------------------------------------------------------------
(* The poller.                                                             *)

LEMMA PollerIsWorker == Poller \in Workers
BY LifecycleAssumption DEF Poller, Workers

LEMMA SelectDueAutoGood ==
  ASSUME IInv, SelectDueAuto
  PROVE  Good
<1>1. ~At(Poller, "leaving") /\ UNCHANGED matchVars
  BY DEF SelectDueAuto, At
<1>2. PICK there \in {"fillread", "sweep"} : Goes(Poller, there)
  BY DEF SelectDueAuto
<1>3. there \in Steps /\ there \notin Releasing
  BY <1>2 DEF Releasing, Steps
<1>4. PICK new \in Job : Becomes(Poller, new) /\ Sound(new) /\ new.snap = job[Poller].snap
  BY <1>1, <1>2, <1>3, Moves, PollerIsWorker
<1> QED
  BY <1>1, <1>4, QuietStep, PollerIsWorker

LEMMA ReadDueAutoGood ==
  ASSUME IInv, ReadDueAuto
  PROVE  Good
<1> DEFINE n == IF MaxPlayers - SeatedCount <= MaxBots THEN MaxPlayers - SeatedCount ELSE MaxBots
           fill == [Idle("fillseat") EXCEPT !.snap = state, !.count = n, !.base = bots,
                                            !.then = "sweep"]
           none == [fill EXCEPT !.at = "release", !.count = 0]
<1>1. MatchOK /\ UNCHANGED matchVars
  BY TypeParts DEF IInv, ReadDueAuto
<1>2. SeatedCount \in Nat
  BY <1>1, SeatedCountType
<1>3. \A there \in {"sweep", "fillcancel"} :
        Idle(there) \in Job /\ Sound(Idle(there)) /\ Idle(there).snap \notin NotStarted
  BY IdleType DEF Sound, Releasing, JobOK, NotStarted, Steps
<1>4. (n > 0 => fill \in Job) /\ none \in Job
  <2>1. n > 0 => n \in 0 .. MaxPlayers
    BY <1>2, LifecycleAssumption
  <2>2. 0 \in 0 .. MaxPlayers /\ Idle("fillseat") \in Job /\ "release" \in Steps
    BY LifecycleAssumption, IdleType DEF Steps
  <2>3. bots \in 0 .. MaxPlayers /\ state \in States
    BY <1>1 DEF MatchOK
  <2> HIDE DEF n
  <2> QED
    BY <2>1, <2>2, <2>3 DEF Job
<1>6. /\ fill.at = "fillseat" /\ fill.marked = {} /\ fill.lifted = {} /\ fill.snap = state
      /\ none.at = "release" /\ none.marked = {} /\ none.lifted = {} /\ none.snap = state
  BY DEF Idle
<1>7. Sound(fill) /\ Sound(none)
  BY <1>6 DEF Sound, Releasing, JobOK
<1>8. \/ Becomes(Poller, Idle("sweep")) \/ Becomes(Poller, Idle("fillcancel"))
      \/ (n > 0 /\ Becomes(Poller, fill)) \/ Becomes(Poller, none)
  <2> HIDE DEF n, fill, none
  <2>1. Becomes(Poller,
          CASE state = "deleted" -> Idle("sweep")
            [] state # "deleted" /\ ~(\E r \in Rows : Seated(r)) -> Idle("fillcancel")
            [] state # "deleted" /\ (\E r \in Rows : Seated(r)) /\ n > 0 -> fill
            [] state # "deleted" /\ (\E r \in Rows : Seated(r)) /\ n <= 0 -> none)
    BY DEF ReadDueAuto, n, fill, none
  <2>2. n \in Int
    BY <1>2, LifecycleAssumption DEF n
  <2> QED
    BY <2>1, <2>2
<1> QED
  BY <1>1, <1>3, <1>4, <1>6, <1>7, <1>8, QuietStep, PollerIsWorker

LEMMA SeatingType ==
  ASSUME IInv, NEW w \in Workers, ~SeatingFails(w)
  PROVE  bots + job[w].count \in 0 .. MaxPlayers
<1>1. MatchOK /\ job[w].count \in 0 .. MaxPlayers
  BY TypeParts DEF IInv, TypeOK, Job
<1> QED
  BY <1>1, SeatedCountType, LifecycleAssumption DEF SeatingFails

LEMMA FillAutoGood ==
  ASSUME IInv, FillAuto
  PROVE  Good
<1>1. MatchOK /\ ~At(Poller, "leaving")
  BY TypeParts DEF IInv, FillAuto, At
<1>2. UNCHANGED <<kind, state, due, rows, live, running, deaths>>
  BY DEF FillAuto
<1>3. CASE ~SeatingFails(Poller) /\ bots' = bots + job[Poller].count /\ Goes(Poller, "release")
  <2>1. MatchOK' /\ SpokenStays /\ HeldStep
    BY <1>1, <1>2, <1>3, SeatingType, PollerIsWorker, RowsStay DEF MatchOK
  <2>2. PICK new \in Job : Becomes(Poller, new) /\ Sound(new) /\ new.snap = job[Poller].snap
    BY <1>1, <1>3, Moves, PollerIsWorker DEF Releasing, Steps
  <2> QED
    BY <1>2, <2>1, <2>2, WorkerStep, PollerIsWorker DEF StartUnderWay
<1>4. CASE UNCHANGED bots /\ (Becomes(Poller, Idle("fillcancel")) \/ Leaves(Poller))
  BY <1>2, <1>4, Moves, PollerIsWorker, QuietStep DEF Releasing, matchVars, Steps
<1> QED
  BY <1>3, <1>4 DEF FillAuto

(* Every step that only marks the match as cancelled.                      *)
LEMMA MarkingGood ==
  ASSUME IInv, NEW w \in Workers, MarkCancelled,
         UNCHANGED <<kind, due, rows, bots, live, running, deaths>>,
         NEW new \in Job, Becomes(w, new), Sound(new),
         new.snap \in NotStarted => job[w].snap \in NotStarted
  PROVE  Good
<1>1. MatchOK
  BY TypeParts DEF IInv
<1>2. state' \in States /\ (state = "cancelled" => state' = "cancelled")
  BY <1>1 DEF MarkCancelled, States, MatchOK
<1>3. MatchOK' /\ SpokenStays /\ HeldStep
  BY <1>1, <1>2, RowsStay DEF MatchOK
<1> QED
  BY <1>2, <1>3, WorkerStep DEF StartUnderWay

LEMMA CancelAutoGood ==
  ASSUME IInv, CancelAuto
  PROVE  Good
BY Moves, PollerIsWorker, MarkingGood DEF Releasing, CancelAuto, Steps

LEMMA CancelDueGood ==
  ASSUME IInv, CancelDue
  PROVE  Good
BY Moves, PollerIsWorker, MarkingGood DEF CancelDue

LEMMA ReadHeldGood ==
  ASSUME IInv, ReadHeld
  PROVE  Good
<1> DEFINE held == {r \in Rows : IsHeld(r) /\ Seated(r)}
           new == [Idle("sweepwrite") EXCEPT
                     !.lifted = {r \in held : Online(r)},
                     !.marked = {r \in held : ~Online(r) /\ Lapsed(r)}]
<1>1. Becomes(Poller, new) /\ UNCHANGED matchVars
  BY DEF ReadHeld
<1>2. Idle("sweepwrite") \in Job
  BY IdleType DEF Steps
<1>3. /\ new \in Job /\ new.at = "sweepwrite" /\ new.snap = "none"
      /\ new.marked \subseteq held /\ new.lifted \subseteq held
  BY <1>2 DEF Job, Idle
<1>4. \A r \in held : Spoken(r)
  BY DEF IsHeld, Spoken
<1>5. Sound(new)
  BY <1>3, <1>4 DEF Sound, Releasing, JobOK
<1> QED
  BY <1>1, <1>3, <1>5, QuietStep, PollerIsWorker DEF NotStarted

LEMMA SweepHeldGood ==
  ASSUME IInv, SweepHeld
  PROVE  Good
<1> DEFINE lifted == job[Poller].lifted
           marked == job[Poller].marked
<1>1. MatchOK /\ job[Poller] \in Job /\ JobOK(job[Poller])
  BY TypeParts, PollerIsWorker DEF IInv, TypeOK
<1>2. lifted \in SUBSET Rows /\ marked \in SUBSET Rows /\ \A r \in marked \cup lifted : Spoken(r)
  BY <1>1 DEF Job, JobOK, SweepHeld, At
<1>3. UNCHANGED <<kind, state, due, bots, live, running, deaths>>
  BY DEF SweepHeld
<1>4. CASE rows' = rows
  BY <1>3, <1>4, Moves, PollerIsWorker, QuietStep DEF Releasing, SweepHeld, matchVars, Steps
<1>5. CASE /\ \A r \in lifted : Exists(r)
           /\ rows' = [r \in Rows |-> IF r \in lifted THEN [rows[r] EXCEPT !.hold = "lifted"]
                                      ELSE Without(marked)[r]]
  <2>1. /\ Without(marked) \in [Rows -> PlayerRow]
        /\ \A r \in Rows : Without(marked)[r] \in {GoneRow, rows[r]}
        /\ \A r \in Rows : r \notin marked => Without(marked)[r] = rows[r]
    BY <1>1, <1>2, WithoutFacts
  <2>2. \A r \in Rows : [rows[r] EXCEPT !.hold = "lifted"] \in PlayerRow
    BY <1>1 DEF MatchOK, PlayerRow
  <2>3. \A r \in Rows : r \in lifted => rows'[r].hold = "lifted" /\ rows'[r].who = rows[r].who
    BY <1>1, <1>5 DEF MatchOK, PlayerRow
  <2>4. \A r \in Rows : r \notin lifted => rows'[r] = Without(marked)[r]
    BY <1>5
  <2>5. rows' \in [Rows -> PlayerRow]
    BY <1>5, <2>1, <2>2
  <2>6. \A r \in Rows : rows'[r].who \in {Nobody, rows[r].who}
    BY <2>1, <2>3, <2>4, RowTypes
  <2>7. MatchOK'
    BY <1>1, <1>3, <2>5, <2>6 DEF MatchOK, Exists
  <2>8. \A r \in Rows : rows'[r] = rows[r] \/ (Spoken(r) /\ Spoken(r)')
    BY <1>2, <2>1, <2>3, <2>4, RowTypes DEF Spoken
  <2>9. \A r \in marked : ToRelease(r)
    BY PollerIsWorker DEF SweepHeld, At, ToRelease, Releasing
  <2>10. ASSUME NEW r \in Rows, Exists(r), rows[r].hold = "lifted", ~ToRelease(r)
         PROVE  (Exists(r) /\ rows[r].hold = "lifted")'
    BY <2>1, <2>3, <2>4, <2>9, <2>10 DEF Exists
  <2>11. SpokenStays /\ HeldStep
    BY <2>8, <2>10 DEF SpokenStays, HeldStep, Spoken, Exists
  <2>12. Idle("due") \in Job /\ Sound(Idle("due")) /\ Idle("due").snap \notin NotStarted
    BY IdleType DEF Sound, Releasing, JobOK, NotStarted, Steps
  <2> QED
    BY <1>3, <2>7, <2>11, <2>12, WorkerStep, PollerIsWorker DEF SweepHeld
<1> QED
  BY <1>4, <1>5 DEF SweepHeld

LEMMA LoadDueGood ==
  ASSUME IInv, LoadDue
  PROVE  Good
<1>1. MatchOK /\ UNCHANGED matchVars
  BY TypeParts DEF IInv, LoadDue
<1>2. CASE Goes(Poller, "watchdog")
  BY <1>1, <1>2, Moves, PollerIsWorker, QuietStep DEF Releasing, LoadDue, At, Steps
<1>3. CASE /\ state \in NotStarted
           /\ Becomes(Poller, [Idle("count") EXCEPT !.snap = state, !.then = "watchdog"])
  <2> DEFINE new == [Idle("count") EXCEPT !.snap = state, !.then = "watchdog"]
  <2>1. Idle("count") \in Job
    BY IdleType DEF Steps
  <2>2. new \in Job /\ new.at = "count" /\ new.marked = {} /\ new.lifted = {}
    BY <1>1, <2>1 DEF Job, Idle, MatchOK
  <2>3. Sound(new)
    BY <2>2 DEF Sound, Releasing, JobOK
  <2> QED
    BY <1>1, <1>3, <2>2, <2>3, QuietStep, PollerIsWorker
<1> QED
  BY <1>2, <1>3 DEF LoadDue

LEMMA DecideDueGood ==
  ASSUME IInv, DecideDue
  PROVE  Good
<1>1. UNCHANGED matchVars /\ ~At(Poller, "leaving")
  BY DEF DecideDue, At
<1>2. PICK there \in {"release", "duecancel"} : Goes(Poller, there)
  BY DEF DecideDue
<1>3. there \in Steps /\ there \notin Releasing
  BY <1>2 DEF Releasing, Steps
<1> QED
  BY <1>1, <1>2, <1>3, Moves, PollerIsWorker, QuietStep

LEMMA WatchdogGood ==
  ASSUME IInv, Watchdog
  PROVE  Good
<1>1. MatchOK /\ ~At(Poller, "leaving")
  BY TypeParts DEF IInv, Watchdog, At
<1>2. state' \in States /\ running' \in BOOLEAN /\ (state = "cancelled" => state' = state)
  BY <1>1 DEF Watchdog, MatchOK, States
<1>3. MatchOK' /\ SpokenStays /\ HeldStep
  BY <1>1, <1>2, RowsStay DEF Watchdog, MatchOK
<1>4. PICK new \in Job : Becomes(Poller, new) /\ Sound(new) /\ new.snap = job[Poller].snap
  BY <1>1, Moves, PollerIsWorker DEF Releasing, Watchdog, Steps
<1> QED
  BY <1>2, <1>3, <1>4, WorkerStep, PollerIsWorker DEF StartUnderWay

LEMMA StartupGood ==
  ASSUME IInv, Startup
  PROVE  Good
<1>1. MatchOK /\ ~At(Poller, "leaving")
  BY TypeParts DEF IInv, Startup, At
<1>2. MatchOK' /\ SpokenStays /\ HeldStep
  BY <1>1, RowsStay DEF Startup, MatchOK
<1>3. PICK new \in Job : Becomes(Poller, new) /\ Sound(new) /\ new.snap = job[Poller].snap
  BY <1>1, Moves, PollerIsWorker DEF Releasing, Startup, Steps
<1> QED
  BY <1>2, <1>3, WorkerStep, PollerIsWorker DEF StartUnderWay, Startup

LEMMA PollerGood ==
  ASSUME IInv, PollerStep
  PROVE  Good
BY SelectDueAutoGood, ReadDueAutoGood, FillAutoGood, CancelAutoGood, ReadHeldGood,
   SweepHeldGood, LoadDueGood, DecideDueGood, CancelDueGood, WatchdogGood, StartupGood,
   StartGameGood, PollerIsWorker
   DEF PollerStep

-----------------------------------------------------------------------------
(* Requests.                                                               *)

LEMMA AskGood ==
  ASSUME IInv, NEW w \in Workers, NEW at \in Steps \ {"flip", "sweepwrite"},
         NEW who \in Entrants \cup {Nobody}, NEW row \in SUBSET Rows, Ask(w, at, who, row),
         at = "leaving" \/ \A r \in row : Spoken(r) /\ IsHeld(r)
  PROVE  Good
<1> DEFINE new == [Idle(at) EXCEPT !.snap = IF at \in {"joining", "holding", "release"}
                                              THEN state ELSE "none",
                                   !.who = who, !.marked = row]
<1>1. MatchOK /\ UNCHANGED matchVars /\ Becomes(w, new)
  BY TypeParts DEF IInv, Ask
<1>2. Idle(at) \in Job
  BY IdleType
<1>3. /\ new \in Job /\ new.at = at /\ new.marked = row /\ new.lifted = {}
      /\ new.snap \in {state, "none"}
  BY <1>1, <1>2 DEF Job, Idle, MatchOK
<1>4. Sound(new)
  BY <1>3 DEF Sound, Releasing, JobOK
<1> QED
  BY <1>1, <1>3, <1>4, QuietStep DEF NotStarted

LEMMA AskingGood ==
  ASSUME IInv, NEW w \in Workers,
         \/ \E e \in Entrants : AskToJoin(w, e) \/ AskToLeave(w, e) \/ AskForSeat(w, e)
                                \/ AskToStart(w, e)
         \/ AskToAddBots(w) \/ AskToCancel(w) \/ AskToDelete(w) \/ ViewLobby(w)
         \/ AdminStarts(w)
  PROVE  Good
<1>1. CASE \E e \in Entrants : AskToJoin(w, e) \/ AskToStart(w, e)
  BY <1>1, AskGood DEF Releasing, AskToJoin, AskToStart, Steps
<1>2. CASE \E e \in Entrants : AskToLeave(w, e)
  <2>1. PICK e \in Entrants, r \in Rows : Ask(w, "leaving", e, {r})
    BY <1>2 DEF AskToLeave, RowsOf
  <2> QED
    BY <2>1, AskGood DEF Releasing, Steps
<1>3. CASE \E e \in Entrants : AskForSeat(w, e)
  <2>1. PICK e \in Entrants, r \in Rows, at \in {"lifting", "dropping"} :
          IsHeld(r) /\ Ask(w, at, e, {r})
    BY <1>3 DEF AskForSeat, RowsOf
  <2>2. Spoken(r)
    BY <2>1 DEF IsHeld, Spoken
  <2> QED
    BY <2>1, <2>2, AskGood DEF Releasing, Steps
<1>4. CASE \/ AskToAddBots(w) \/ AskToCancel(w) \/ AskToDelete(w) \/ ViewLobby(w)
           \/ AdminStarts(w)
  <2>1. PICK at \in {"adding", "cancelling", "deleting", "tidying", "release"} :
          Ask(w, at, Nobody, {})
    BY <1>4 DEF AskToAddBots, AskToCancel, AskToDelete, ViewLobby, AdminStarts
  <2>2. at \in Steps \ {"flip", "sweepwrite"}
    BY DEF Releasing, Steps
  <2> QED
    BY <2>1, <2>2, AskGood
<1> QED
  BY <1>1, <1>2, <1>3, <1>4

LEMMA JoinGood ==
  ASSUME IInv, NEW w \in Workers, Join(w)
  PROVE  Good
<1> DEFINE e == job[w].who
           free == {r \in Rows : rows[r] = NoRow}
           hold == IF At(w, "holding") THEN "held" ELSE "never"
<1>1. MatchOK /\ job[w] \in Job /\ ~At(w, "leaving")
  BY TypeParts DEF IInv, TypeOK, Join, At
<1>2. UNCHANGED <<kind, state, due, bots, live, running, deaths>>
  BY DEF Join
<1>3. CASE Leaves(w) /\ UNCHANGED rows
  BY <1>2, <1>3, Moves, QuietStep DEF matchVars
<1>4. CASE /\ ~(\E r \in Rows : rows[r].who = e)
           /\ \E r \in free : rows' = [rows EXCEPT ![r] = NewRow(e, hold)]
           /\ Goes(w, "release") \/ Leaves(w)
  <2>1. PICK r \in Rows : rows[r] = NoRow /\ rows' = [rows EXCEPT ![r] = NewRow(e, hold)]
    BY <1>4
  <2>2. e \in Entrants \cup {Nobody} /\ hold \in {"never", "held"}
    BY <1>1 DEF Job
  <2>3. NewRow(e, hold) \in PlayerRow /\ NewRow(e, hold).who = e
    BY <2>2, RowTypes
  <2>4. /\ rows' \in [Rows -> PlayerRow] /\ rows'[r].who = e
        /\ \A q \in Rows : q # r => rows'[q] = rows[q]
    BY <1>1, <2>1, <2>3 DEF MatchOK
  <2>5. MatchOK'
    BY <1>1, <1>2, <1>4, <2>4 DEF MatchOK, Exists
  <2>6. ~Spoken(r) /\ ~Exists(r)
    BY <2>1, RowTypes DEF Spoken, Exists
  <2>7. SpokenStays /\ HeldStep
    BY <2>4, <2>6 DEF SpokenStays, HeldStep, Spoken, Exists
  <2>8. PICK new \in Job : /\ Becomes(w, new) /\ Sound(new)
                           /\ new.snap \in NotStarted => job[w].snap \in NotStarted
    BY <1>1, <1>4, Moves DEF Releasing, Steps
  <2> QED
    BY <1>2, <2>5, <2>7, <2>8, WorkerStep DEF StartUnderWay
<1> QED
  BY <1>3, <1>4 DEF Join

LEMMA LeaveGood ==
  ASSUME IInv, NEW w \in Workers, Leave(w)
  PROVE  Good
<1>1. MatchOK
  BY TypeParts DEF IInv
<1>2. \A r \in Rows : /\ rows'[r] \in PlayerRow
                      /\ rows'[r].who = rows[r].who /\ rows'[r].hold = rows[r].hold
  BY <1>1 DEF Leave, MatchOK, PlayerRow
<1>3. rows' \in [Rows -> PlayerRow]
  BY <1>2 DEF Leave
<1>4. MatchOK' /\ SpokenStays /\ HeldStep
  BY <1>1, <1>2, <1>3, RowsChange DEF Leave
<1>5. PICK new \in Job : Becomes(w, new) /\ Sound(new) /\ new.snap \notin NotStarted
  BY Moves DEF Leave
<1> QED
  BY <1>4, <1>5, WorkerStep DEF Leave

LEMMA AnswerForSeatGood ==
  ASSUME IInv, NEW w \in Workers, AnswerForSeat(w)
  PROVE  Good
<1> DEFINE mine == {r \in job[w].marked : Exists(r)}
<1>1. MatchOK /\ job[w] \in Job /\ JobOK(job[w])
  BY TypeParts DEF IInv, TypeOK
<1>2. mine \in SUBSET Rows /\ \A r \in mine : Spoken(r)
  BY <1>1 DEF Job, JobOK, AnswerForSeat
<1>3. UNCHANGED <<kind, state, due, bots, live, running, deaths>>
  BY DEF AnswerForSeat
<1>4. PICK new \in Job : Becomes(w, new) /\ Sound(new) /\ new.snap \notin NotStarted
  BY Moves DEF AnswerForSeat
<1>5. CASE rows' = [r \in Rows |-> IF r \in mine THEN [rows[r] EXCEPT !.hold = "lifted"]
                                   ELSE rows[r]]
  <2>1. \A r \in Rows : /\ rows'[r] \in PlayerRow /\ rows'[r].who = rows[r].who
                        /\ IF r \in mine THEN rows'[r].hold = "lifted"
                           ELSE rows'[r].hold = rows[r].hold
    BY <1>1, <1>5 DEF MatchOK, PlayerRow
  <2>2. \A r \in Rows : rows'[r].hold = rows[r].hold \/ (Spoken(r) /\ Spoken(r)')
    BY <1>2, <2>1 DEF Spoken
  <2>3. rows' \in [Rows -> PlayerRow]
    BY <1>5, <2>1
  <2>4. MatchOK' /\ SpokenStays /\ HeldStep
    BY <1>1, <1>3, <2>1, <2>2, <2>3, RowsChange
  <2> QED
    BY <1>3, <1>4, <2>4, WorkerStep
<1>6. CASE At(w, "dropping") /\ rows' = Without(mine)
  <2>1. \A r \in mine : ToRelease(r)
    BY <1>6 DEF At, ToRelease, Releasing
  <2>2. MatchOK' /\ SpokenStays /\ HeldStep
    BY <1>1, <1>2, <1>3, <1>6, <2>1, RowsGo DEF MatchOK
  <2> QED
    BY <1>3, <1>4, <2>2, WorkerStep
<1>7. CASE rows' = rows
  BY <1>3, <1>4, <1>7, QuietStep DEF matchVars
<1>8. job[w].at \in {"lifting", "dropping"}
  BY DEF AnswerForSeat
<1> QED
  BY <1>5, <1>6, <1>7, <1>8 DEF AnswerForSeat, At

LEMMA RefreshGood ==
  ASSUME IInv, NEW w \in Workers, Refresh(w)
  PROVE  Good
<1>1. MatchOK /\ job[w] \in Job /\ JobOK(job[w]) /\ UNCHANGED matchVars
  BY TypeParts DEF IInv, TypeOK, Refresh
<1>2. CASE Leaves(w)
  BY <1>1, <1>2, Moves, QuietStep
<1>3. CASE /\ state \in NotStarted
           /\ Becomes(w, [job[w] EXCEPT !.at = "choose", !.snap = state])
  <2> DEFINE new == [job[w] EXCEPT !.at = "choose", !.snap = state]
  <2>1. /\ new \in Job /\ new.at = "choose"
        /\ new.marked = job[w].marked /\ new.lifted = job[w].lifted
    BY <1>1 DEF Job, Steps, MatchOK
  <2>2. Sound(new)
    BY <1>1, <2>1 DEF Sound, Releasing, JobOK, Refresh, At
  <2> QED
    BY <1>1, <1>3, <2>1, <2>2, QuietStep
<1> QED
  BY <1>2, <1>3 DEF Refresh

LEMMA ChooseBotsGood ==
  ASSUME IInv, NEW w \in Workers, ChooseBots(w)
  PROVE  Good
<1> DEFINE n == IF SeatedCount < MaxPlayers THEN MaxPlayers - SeatedCount ELSE 0
           there == IF n = 0 THEN "release" ELSE "seat"
           new == [job[w] EXCEPT !.at = there, !.count = n, !.base = bots]
<1>1. MatchOK /\ job[w] \in Job /\ JobOK(job[w])
  BY TypeParts DEF IInv, TypeOK
<1>2. n \in 0 .. MaxPlayers /\ bots \in 0 .. MaxPlayers
  BY <1>1, SeatedCountType, LifecycleAssumption DEF MatchOK
<1>3. there \in Steps /\ there \notin Releasing
  BY DEF Releasing, Steps
<1>4. Becomes(w, new) /\ UNCHANGED matchVars /\ job[w].at # "leaving"
  BY DEF ChooseBots, At
<1> HIDE DEF n, there
<1>5. /\ new \in Job /\ new.at = there /\ new.snap = job[w].snap
      /\ new.marked = job[w].marked /\ new.lifted = job[w].lifted
  BY <1>1, <1>2, <1>3 DEF Job
<1>6. Sound(new)
  BY <1>1, <1>3, <1>4, <1>5 DEF Sound, Releasing, JobOK
<1> QED
  BY <1>4, <1>5, <1>6, QuietStep

LEMMA SeatBotsGood ==
  ASSUME IInv, NEW w \in Workers, SeatBots(w)
  PROVE  Good
<1>1. MatchOK /\ ~At(w, "leaving")
  BY TypeParts DEF IInv, SeatBots, At
<1>2. UNCHANGED <<kind, state, due, rows, live, running, deaths>>
  BY DEF SeatBots
<1>3. CASE ~SeatingFails(w) /\ bots' = bots + job[w].count /\ Goes(w, "release")
  <2>1. MatchOK' /\ SpokenStays /\ HeldStep
    BY <1>1, <1>2, <1>3, SeatingType, RowsStay DEF MatchOK
  <2>2. PICK new \in Job : Becomes(w, new) /\ Sound(new) /\ new.snap = job[w].snap
    BY <1>1, <1>3, Moves DEF Releasing, Steps
  <2> QED
    BY <1>2, <2>1, <2>2, WorkerStep DEF StartUnderWay
<1>4. CASE UNCHANGED bots /\ Leaves(w)
  BY <1>2, <1>4, Moves, QuietStep DEF matchVars
<1> QED
  BY <1>3, <1>4 DEF SeatBots

LEMMA AddBotsGood ==
  ASSUME IInv, NEW w \in Workers, AddBots(w)
  PROVE  Good
<1>1. MatchOK /\ UNCHANGED <<kind, state, due, rows, live, running, deaths>>
  BY TypeParts DEF IInv, AddBots
<1>2. bots' \in 0 .. MaxPlayers
  BY <1>1, SeatedCountType, LifecycleAssumption DEF AddBots, MatchOK
<1>3. MatchOK' /\ SpokenStays /\ HeldStep
  BY <1>1, <1>2, RowsStay DEF MatchOK
<1>4. PICK new \in Job : Becomes(w, new) /\ Sound(new) /\ new.snap \notin NotStarted
  BY Moves DEF AddBots
<1> QED
  BY <1>1, <1>3, <1>4, WorkerStep

LEMMA CancelGood ==
  ASSUME IInv, NEW w \in Workers, Cancel(w)
  PROVE  Good
<1>1. PICK new \in Job : /\ Becomes(w, new) /\ Sound(new)
                         /\ new.snap \in NotStarted => job[w].snap \in NotStarted
  <2>1. ~At(w, "leaving") /\ (Leaves(w) \/ Goes(w, "stopping"))
    BY DEF Cancel, At
  <2>2. "stopping" \in Steps /\ "stopping" \notin Releasing
    BY DEF Releasing, Steps
  <2> QED
    BY <2>1, <2>2, Moves
<1> QED
  BY <1>1, MarkingGood DEF Cancel

LEMMA TidyLobbyGood ==
  ASSUME IInv, NEW w \in Workers, TidyLobby(w)
  PROVE  Good
BY Moves, MarkingGood DEF TidyLobby

LEMMA StopGood ==
  ASSUME IInv, NEW w \in Workers, Stop(w) \/ StopToDelete(w)
  PROVE  Good
<1>1. MatchOK /\ ~At(w, "leaving")
  BY TypeParts DEF IInv, Stop, StopToDelete, At
<1>2. UNCHANGED <<kind, state, due, rows, bots, live, deaths>> /\ running' = FALSE
  BY DEF Stop, StopToDelete
<1>3. MatchOK' /\ SpokenStays /\ HeldStep
  BY <1>1, <1>2, RowsStay DEF MatchOK
<1>4. PICK new \in Job : /\ Becomes(w, new) /\ Sound(new)
                         /\ new.snap \in NotStarted => job[w].snap \in NotStarted
  <2>1. "erasing" \in Steps /\ "erasing" \notin Releasing
    BY DEF Releasing, Steps
  <2> QED
    BY <1>1, <2>1, Moves DEF Stop, StopToDelete
<1> QED
  BY <1>2, <1>3, <1>4, WorkerStep DEF StartUnderWay

LEMMA EraseGood ==
  ASSUME IInv, NEW w \in Workers, Erase(w)
  PROVE  Good
<1>1. MatchOK
  BY TypeParts DEF IInv
<1>2. state' = "deleted" /\ "deleted" \in States /\ 0 \in 0 .. MaxPlayers
  BY LifecycleAssumption DEF Erase, States
<1>3. MatchOK' /\ SpokenStays /\ HeldStep
  BY <1>1, <1>2, RowsGo DEF Erase, MatchOK
<1>4. PICK new \in Job : Becomes(w, new) /\ Sound(new) /\ new.snap \notin NotStarted
  BY Moves DEF Erase
<1> QED
  BY <1>2, <1>3, <1>4, WorkerStep

LEMMA RequestGood ==
  ASSUME IInv, NEW w \in Workers, Request(w)
  PROVE  Good
BY AskingGood, JoinGood, LeaveGood, AnswerForSeatGood, RefreshGood, ChooseBotsGood,
   SeatBotsGood, AddBotsGood, StartGameGood, CancelGood, StopGood, EraseGood, TidyLobbyGood
   DEF Request

-----------------------------------------------------------------------------
(* The environment.                                                        *)

LEMMA OutsideStep ==
  ASSUME IInv, UNCHANGED job, MatchOK', SpokenStays, HeldStep, state' = state
  PROVE  Good
<1>1. TypeOK'
  BY DEF IInv, TypeOK, MatchOK
<1>2. ASSUME NEW w \in Workers PROVE JobOK(job[w])'
  <2>1. job[w] \in Job /\ JobOK(job[w])
    BY DEF IInv, TypeOK
  <2> QED
    BY <2>1 DEF JobOK, SpokenStays, Job
<1>3. ConfirmedStep
  BY DEF HeldStep, ConfirmedStep, ToRelease
<1> QED
  BY <1>1, <1>2, <1>3 DEF Good, IInv, CancelStep, StartUnderWay

LEMMA PlayGood ==
  ASSUME IInv, Play
  PROVE  Good
<1>1. MatchOK
  BY TypeParts DEF IInv
<1>2. \A r \in Rows : /\ rows'[r] \in PlayerRow
                      /\ rows'[r].who = rows[r].who /\ rows'[r].hold = rows[r].hold
  BY <1>1 DEF Play, MatchOK, PlayerRow
<1>3. rows' \in [Rows -> PlayerRow]
  BY <1>2 DEF Play
<1> QED
  BY <1>1, <1>2, <1>3, RowsChange, OutsideStep DEF Play

LEMMA LapseGood ==
  ASSUME IInv, NEW r \in Rows, Lapse(r)
  PROVE  Good
<1>1. MatchOK
  BY TypeParts DEF IInv
<1>2. /\ rows'[r] \in PlayerRow /\ rows'[r].who = rows[r].who
      /\ rows'[r].hold = "lapsed" /\ rows[r].hold = "held"
  BY <1>1 DEF Lapse, MatchOK, PlayerRow
<1>3. rows' \in [Rows -> PlayerRow] /\ \A q \in Rows : q # r => rows'[q] = rows[q]
  BY <1>1, <1>2 DEF Lapse, MatchOK
<1>4. \A q \in Rows : rows'[q].hold = rows[q].hold \/ (Spoken(q) /\ Spoken(q)')
  BY <1>2, <1>3 DEF Spoken
<1> QED
  BY <1>1, <1>2, <1>3, <1>4, RowsChange, OutsideStep DEF Lapse

LEMMA ProcessDiesGood ==
  ASSUME IInv, ProcessDies
  PROVE  Good
<1>1. MatchOK /\ job \in [Workers -> Job]
  BY TypeParts DEF IInv
<1>2. deaths' \in 0 .. MaxDeaths
  BY <1>1, LifecycleAssumption DEF ProcessDies, MatchOK
<1>3. MatchOK' /\ SpokenStays /\ HeldStep
  BY <1>1, <1>2, RowsStay DEF ProcessDies, MatchOK
<1>4. \A w \in Workers : job'[w] \in {Idle("startup"), Idle("over"), job[w]}
  BY DEF ProcessDies
<1>5. \A at \in {"startup", "over"} : Idle(at) \in Job /\ Idle(at).snap = "none" /\ Idle(at).at = at
                                     /\ Idle(at).marked = {} /\ Idle(at).lifted = {}
  BY IdleType DEF Steps
<1>6. \A w \in Workers : job'[w] \in Job
  BY <1>1, <1>4, <1>5
<1>7. job' \in [Workers -> Job]
  BY <1>6 DEF ProcessDies
<1>8. ASSUME NEW w \in Workers PROVE JobOK(job[w])'
  <2>1. job[w] \in Job /\ JobOK(job[w])
    BY DEF IInv, TypeOK
  <2>2. CASE job'[w] = job[w]
    BY <1>3, <2>1, <2>2 DEF JobOK, SpokenStays, Job
  <2>3. CASE job'[w] \in {Idle("startup"), Idle("over")}
    BY <1>5, <2>3 DEF JobOK
  <2> QED
    BY <1>4, <2>2, <2>3
<1>9. CancelStep
  BY <1>4, <1>5 DEF CancelStep, StartUnderWay, ProcessDies, NotStarted
<1>10. \A r \in Rows : ToRelease(r)' => ToRelease(r)
  BY <1>4, <1>5 DEF ToRelease, Releasing
<1>11. ConfirmedStep
  BY <1>3, <1>10 DEF HeldStep, ConfirmedStep
<1> QED
  BY <1>3, <1>7, <1>8, <1>9, <1>11 DEF Good, IInv, TypeOK, MatchOK

LEMMA OutsideGood ==
  ASSUME IInv,
         Tick \/ (\E a \in Agents : GoesOnOrOff(a)) \/ TaskDies
  PROVE  Good
<1>1. MatchOK
  BY TypeParts DEF IInv
<1>2. UNCHANGED <<kind, state, rows, bots, job>> /\ state' = state
  BY DEF Tick, GoesOnOrOff, TaskDies
<1>3. live' \subseteq Agents /\ due' \in BOOLEAN /\ running' \in BOOLEAN
  BY <1>1 DEF Tick, GoesOnOrOff, TaskDies, MatchOK
<1>4. deaths' \in 0 .. MaxDeaths
  BY <1>1, LifecycleAssumption DEF Tick, GoesOnOrOff, TaskDies, MatchOK
<1>5. MatchOK' /\ SpokenStays /\ HeldStep
  BY <1>1, <1>2, <1>3, <1>4 DEF MatchOK, SpokenStays, Spoken, HeldStep, Exists
<1> QED
  BY <1>2, <1>5, OutsideStep

-----------------------------------------------------------------------------
(* The theorems.                                                           *)

LEMMA InitIInv == Init => IInv
<1> SUFFICES ASSUME Init PROVE IInv
  OBVIOUS
<1>1. rows \in [Rows -> PlayerRow]
  <2>1. Opening \in [Rows -> PlayerRow]
    BY RowTypes DEF Opening
  <2>2. \A h \in Humans : NewRow(h, "never") \in PlayerRow
    BY RowTypes DEF Entrants
  <2> QED
    BY <2>1, <2>2 DEF Init
<1>2. \A q, r \in Rows : Exists(q) /\ Exists(r) => q = r
  <2>1. \A r \in Rows : Opening[r] = NoRow
    BY DEF Opening
  <2>2. \A r \in Rows : r # 1 => rows[r] = NoRow \/ rows = Opening
    BY <2>1 DEF Init, Opening
  <2>3. \A r \in Rows : r # 1 => ~Exists(r)
    BY <2>1, <2>2, RowTypes DEF Exists
  <2>4. (\E r \in Rows : Exists(r)) => \A r \in Rows : Exists(r) => r = 1
    BY <2>3
  <2> QED
    BY <2>4
<1>3. bots \in 0 .. MaxPlayers /\ 0 \in 0 .. MaxDeaths /\ state \in States
  BY LifecycleAssumption DEF Init, States, NotStarted
<1>4. \A at \in {"fill", "unused"} : Idle(at) \in Job /\ JobOK(Idle(at))
  BY IdleType DEF Steps, JobOK
<1>5. job \in [Workers -> Job] /\ \A w \in Workers : JobOK(job[w])
  BY <1>4 DEF Init
<1> QED
  BY <1>1, <1>2, <1>3, <1>5 DEF Init, IInv, TypeOK

LEMMA NextGood ==
  ASSUME IInv, [Next]_vars
  PROVE  Good
<1>1. CASE PollerStep
  BY <1>1, PollerGood
<1>2. CASE \E w \in Requests : Request(w)
  BY <1>2, RequestGood DEF Requests
<1>3. CASE Play
  BY <1>3, PlayGood
<1>4. CASE \E r \in Rows : Lapse(r)
  BY <1>4, LapseGood
<1>5. CASE ProcessDies
  BY <1>5, ProcessDiesGood
<1>6. CASE Tick \/ (\E a \in Agents : GoesOnOrOff(a)) \/ TaskDies
  BY <1>6, OutsideGood
<1>7. CASE UNCHANGED vars
  <2>1. MatchOK' /\ SpokenStays /\ HeldStep /\ state' = state /\ UNCHANGED job
    BY <1>7, TypeParts DEF IInv, vars, MatchOK, SpokenStays, Spoken, HeldStep, Exists
  <2> QED
    BY <2>1, OutsideStep
<1> QED
  BY <1>1, <1>2, <1>3, <1>4, <1>5, <1>6, <1>7 DEF Next

LEMMA Inductive == Spec => []IInv
<1>1. IInv /\ [Next]_vars => IInv'
  BY NextGood DEF Good
<1> QED
  BY InitIInv, <1>1, PTL DEF Spec

(* Every variable keeps its type: above all, no player gets two rows in a  *)
(* match, and the bots never make it larger than its table.                *)
THEOREM TypeCorrect == Spec => []TypeOK
<1>1. IInv => TypeOK
  BY DEF IInv
<1> QED
  BY Inductive, <1>1, PTL

(* sweep_held_seats, release_held_seats and the countdown page write after *)
(* they have looked, and release no seat that was never held, and none     *)
(* that is confirmed and on no list of held seats by now.                  *)
THEOREM SweepsSpareOthers == Spec => ConfirmedStays
<1>1. IInv /\ [Next]_vars
        => [\A r \in Rows :
              /\ Exists(r) /\ rows[r].hold = "never"
                   => (Exists(r) /\ rows[r].hold = "never")' \/ state' = "deleted"
              /\ Exists(r) /\ rows[r].hold = "lifted" /\ ~ToRelease(r)
                   => \/ (Exists(r) /\ rows[r].hold = "lifted" /\ ~ToRelease(r))'
                      \/ state' = "deleted"]_vars
  BY NextGood DEF Good, ConfirmedStep
<1> QED
  BY Inductive, <1>1, PTL DEF Spec, ConfirmedStays

(* start_game overwrites a cancellation only when it has looked at the     *)
(* match before it: no later request, poll or restart revives the match.   *)
THEOREM CancelledStays == Spec => CancelHolds
<1>1. IInv /\ [Next]_vars
        => [state = "cancelled" /\ ~StartUnderWay
              => state' \in {"cancelled", "deleted"} /\ ~StartUnderWay']_vars
  BY NextGood DEF Good, CancelStep
<1> QED
  BY Inductive, <1>1, PTL DEF Spec, CancelHolds
=============================================================================
