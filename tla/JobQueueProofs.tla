---------------------------- MODULE JobQueueProofs ----------------------------
(***************************************************************************)
(* Proofs about JobQueue for every set of jobs and workers, every lease,   *)
(* budget and backoff: types, the attempt budget, the exclusive lease, no  *)
(* return of a settled job, and the implementation of WorkQueue.           *)
(***************************************************************************)
EXTENDS JobQueue, TLAPS

-----------------------------------------------------------------------------
(* Types. *)

\* The delay after a failed attempt is a distance, so wait stays in Nat.
LEMMA DelaysAreDistances ==
    ASSUME NEW a \in 1..MaxAttempts, NEW delay \in Delays(a)
    PROVE  delay \in Nat
BY JobQueueAssumption DEF Delays

LEMMA SoonerIsADistance ==
    ASSUME NEW distance \in Lapsed..LeaseSeconds
    PROVE  /\ Sooner(distance) \in Lapsed..LeaseSeconds
           /\ Sooner(distance) # Lapsed => distance # Lapsed
BY JobQueueAssumption DEF Sooner, Lapsed

\* A job is only held, reported or failed after a claim, so the budget says its
\* attempts index the backoff table; TypeOK alone does not.
Budgeted ==
    \A j \in Jobs :
        /\ job[j].attempts <= MaxAttempts
        /\ job[j].status = "pending" => job[j].attempts < MaxAttempts
        /\ job[j].status = "claimed" => job[j].attempts > 0
        /\ job[j].status \in Settled => job[j].attempts > 0
        /\ job[j].status = "absent" => job[j].attempts = 0

\* A granted job was handed out at least once.
GrantedWasClaimed ==
    \A w \in Workers : grant[w].job # None => job[grant[w].job].attempts > 0

Inv == TypeOK /\ Budgeted /\ GrantedWasClaimed

\* What the arithmetic below needs of the constants.
LEMMA Constants ==
    /\ MaxAttempts \in Nat /\ MaxAttempts > 0
    /\ LeaseSeconds \in Lapsed..LeaseSeconds
    /\ Lapsed \in Lapsed..LeaseSeconds
BY JobQueueAssumption DEF Lapsed

LEMMA NoRowIsARow == NoRow \in Row /\ NoGrant \in Grant
BY Constants DEF NoRow, NoGrant, Row, Grant, Statuses

LEMMA InitInv == Init => Inv
<1> SUFFICES ASSUME Init PROVE Inv
  OBVIOUS
<1>1. TypeOK
  BY NoRowIsARow DEF Init, TypeOK
<1>2. Budgeted
  <2>1. \A j \in Jobs : job[j].status = "absent" /\ job[j].attempts = 0
    BY DEF Init, NoRow
  <2>2. 0 <= MaxAttempts
    BY Constants
  <2>3. QED
    BY <2>1, <2>2 DEF Budgeted, Settled
<1>3. GrantedWasClaimed
  BY DEF Init, GrantedWasClaimed, NoGrant
<1>4. QED
  BY <1>1, <1>2, <1>3 DEF Inv

LEMMA StepInv == Inv /\ [Next]_vars => Inv'
<1> SUFFICES ASSUME Inv, [Next]_vars PROVE Inv'
  OBVIOUS
<1>0. TypeOK /\ Budgeted /\ GrantedWasClaimed
  BY DEF Inv
<1>1. ASSUME NEW j \in Jobs, NEW priority \in Priorities, Enqueue(j, priority)
      PROVE  Inv'
  <2> DEFINE row == [NoRow EXCEPT !.status = "pending", !.priority = priority]
  <2>1. job' = [job EXCEPT ![j] = row] /\ UNCHANGED << grant, late >>
    BY <1>1 DEF Enqueue
  <2>2. row \in Row /\ row.status = "pending" /\ row.attempts = 0
    BY NoRowIsARow DEF Row, NoRow, Statuses
  <2> HIDE DEF row
  <2>3. TypeOK'
    BY <1>0, <2>1, <2>2 DEF TypeOK
  <2>4. Budgeted'
    BY <1>0, <2>1, <2>2, Constants DEF TypeOK, Budgeted, Settled
  <2>5. GrantedWasClaimed'
    BY <1>0, <1>1, <2>1, <2>2 DEF TypeOK, Budgeted, GrantedWasClaimed, Enqueue, Grant
  <2>6. QED
    BY <2>3, <2>4, <2>5 DEF Inv
<1>2. ASSUME NEW w \in Workers, NEW j \in Jobs, Claim(w, j)
      PROVE  Inv'
  <2> DEFINE row == [job[j] EXCEPT !.status = "claimed", !.owner = w,
                                   !.lease = LeaseSeconds,
                                   !.attempts = job[j].attempts + 1]
             told == [job |-> j, attempts |-> job[j].attempts + 1,
                      lease |-> LeaseSeconds]
  <2>1. /\ job' = [job EXCEPT ![j] = row]
        /\ grant' = [grant EXCEPT ![w] = told]
        /\ late' = late
    BY <1>2 DEF Claim
  <2>2. job[j] \in Row /\ job[j].status = "pending"
    BY <1>0, <1>2 DEF TypeOK, Claim, Available
  <2>3. row \in Row /\ row.status = "claimed" /\ row.attempts = job[j].attempts + 1
    <3>1. job[j].attempts + 1 \in Nat
      BY <2>2 DEF Row
    <3>2. QED
      BY <2>2, <3>1, Constants DEF Row, Statuses
  <2>4. told \in Grant /\ told.job = j
    BY <2>2, Constants DEF Row, Grant
  <2>5. job[j].attempts \in Nat
    BY <2>2 DEF Row
  <2> HIDE DEF row, told
  <2>6. TypeOK'
    BY <1>0, <2>1, <2>3, <2>4 DEF TypeOK
  <2>7. Budgeted'
    BY <1>0, <2>1, <2>2, <2>3, <2>5, Constants DEF TypeOK, Budgeted, Settled
  <2>8. GrantedWasClaimed'
    BY <1>0, <2>1, <2>3, <2>4, <2>5 DEF TypeOK, GrantedWasClaimed, Row, Grant
  <2>9. QED
    BY <2>6, <2>7, <2>8 DEF Inv
<1>3. ASSUME NEW w \in Workers, ExtendLease(w)
      PROVE  Inv'
  <2>1. grant[w].job \in Jobs
    BY <1>0, <1>3 DEF TypeOK, ExtendLease, Holds, Grant
  <2>2. \A j \in Jobs : /\ job'[j].status = job[j].status
                        /\ job'[j].attempts = job[j].attempts
    BY <1>0, <1>3, <2>1 DEF TypeOK, ExtendLease, Row
  <2>3. \A v \in Workers : grant'[v].job = grant[v].job
    BY <1>0, <1>3 DEF TypeOK, ExtendLease, Grant
  <2>4. TypeOK'
    BY <1>0, <1>3, <2>1, Constants DEF TypeOK, ExtendLease, Row, Grant
  <2>5. QED
    BY <1>0, <2>2, <2>3, <2>4 DEF Inv, TypeOK, Budgeted, GrantedWasClaimed, Grant
<1>4. ASSUME NEW w \in Workers, Complete(w)
      PROVE  Inv'
  <2> DEFINE g == grant[w].job
             row == [job[g] EXCEPT !.status = "succeeded"]
  <2>1. /\ job' = [job EXCEPT ![g] = row]
        /\ grant' = [grant EXCEPT ![w] = NoGrant]
        /\ late' \in {late, late \cup {g}}
    BY <1>4 DEF Complete, Report
  <2>2. g \in Jobs /\ job[g] \in Row /\ job[g].attempts > 0
    BY <1>0, <1>4 DEF TypeOK, GrantedWasClaimed, Complete, Report, Grant
  <2>3. row \in Row /\ row.status = "succeeded" /\ row.attempts = job[g].attempts
    BY <2>2 DEF Row, Statuses
  <2> HIDE DEF g, row
  <2>4. TypeOK'
    BY <1>0, <2>1, <2>2, <2>3, NoRowIsARow DEF TypeOK
  <2>5. Budgeted'
    BY <1>0, <2>1, <2>2, <2>3, Constants DEF TypeOK, Budgeted, Settled
  <2>6. GrantedWasClaimed'
    BY <1>0, <2>1, <2>2, <2>3 DEF TypeOK, GrantedWasClaimed, NoGrant, Grant
  <2>7. QED
    BY <2>4, <2>5, <2>6 DEF Inv
<1>5. ASSUME NEW w \in Workers, NEW retry \in BOOLEAN, Fail(w, retry)
      PROVE  Inv'
  <2> DEFINE g == grant[w].job
  <2>1. /\ grant' = [grant EXCEPT ![w] = NoGrant]
        /\ late' \in {late, late \cup {g}}
    BY <1>5 DEF Fail, Report
  <2>2. g \in Jobs /\ job[g] \in Row /\ job[g].attempts \in 1..MaxAttempts
    <3>1. g # None
      BY <1>5 DEF Fail, Report
    <3>2. g \in Jobs /\ job[g] \in Row /\ job[g].attempts > 0
      BY <1>0, <3>1 DEF TypeOK, GrantedWasClaimed, Grant
    <3>3. job[g].attempts <= MaxAttempts /\ job[g].attempts \in Nat
      BY <1>0, <3>2 DEF Budgeted, Row
    <3>4. QED
      BY <3>2, <3>3, Constants
  <2>3. PICK row \in Row : /\ job' = [job EXCEPT ![g] = row]
                           /\ row.attempts = job[g].attempts
                           /\ \/ row.status = "failed"
                              \/ row.status = "pending" /\ ~OutOfAttempts(g)
    <3>1. CASE ~retry \/ OutOfAttempts(g)
      <4> DEFINE row == [job[g] EXCEPT !.status = "failed"]
      <4>1. job' = [job EXCEPT ![g] = row]
        BY <1>5, <3>1 DEF Fail
      <4>2. row \in Row /\ row.attempts = job[g].attempts /\ row.status = "failed"
        BY <2>2 DEF Row, Statuses
      <4>3. QED
        BY <4>1, <4>2
    <3>2. CASE ~(~retry \/ OutOfAttempts(g))
      <4>1. PICK delay \in Delays(job[g].attempts) :
                job' = [job EXCEPT ![g] = [@ EXCEPT !.status = "pending", !.wait = delay]]
        BY <1>5, <3>2 DEF Fail
      <4> DEFINE row == [job[g] EXCEPT !.status = "pending", !.wait = delay]
      <4>2. delay \in Nat
        BY <2>2, <4>1, DelaysAreDistances
      <4>3. row \in Row /\ row.attempts = job[g].attempts /\ row.status = "pending"
        BY <2>2, <4>2 DEF Row, Statuses
      <4>4. job' = [job EXCEPT ![g] = row]
        BY <4>1
      <4>5. QED
        BY <3>2, <4>3, <4>4
    <3>3. QED
      BY <3>1, <3>2
  <2> HIDE DEF g
  <2>4. TypeOK'
    BY <1>0, <2>1, <2>2, <2>3, NoRowIsARow DEF TypeOK
  <2>5. Budgeted'
    BY <1>0, <2>2, <2>3, Constants DEF TypeOK, Budgeted, Settled, OutOfAttempts
  <2>6. GrantedWasClaimed'
    BY <1>0, <2>1, <2>2, <2>3 DEF TypeOK, GrantedWasClaimed, NoGrant, Grant
  <2>7. QED
    BY <2>4, <2>5, <2>6 DEF Inv
<1>6. ASSUME NEW w \in Workers, Die(w)
      PROVE  Inv'
  <2>1. TypeOK'
    BY <1>0, <1>6, NoRowIsARow DEF TypeOK, Die
  <2>2. Budgeted' /\ GrantedWasClaimed'
    BY <1>0, <1>6 DEF TypeOK, Budgeted, GrantedWasClaimed, Die, NoGrant, Grant
  <2>3. QED
    BY <2>1, <2>2 DEF Inv
<1>7. ASSUME ReapExpired
      PROVE  Inv'
  <2>1. \A j \in Jobs : /\ job'[j] \in Row
                        /\ job'[j].attempts = job[j].attempts
                        /\ \/ job'[j].status = job[j].status
                           \/ /\ job[j].status = "claimed"
                              /\ job'[j].status = Reclaimed(j)
    BY <1>0, <1>7 DEF TypeOK, ReapExpired, Expired, Reclaimed, Row, Statuses
  <2>2. TypeOK'
    BY <1>0, <1>7, <2>1 DEF TypeOK, ReapExpired
  <2>3. Budgeted'
    <3> SUFFICES ASSUME NEW j \in Jobs
                 PROVE  /\ job'[j].attempts <= MaxAttempts
                        /\ job'[j].status = "pending" => job'[j].attempts < MaxAttempts
                        /\ job'[j].status = "claimed" => job'[j].attempts > 0
                        /\ job'[j].status \in Settled => job'[j].attempts > 0
                        /\ job'[j].status = "absent" => job'[j].attempts = 0
      BY DEF Budgeted
    <3>1. job[j].attempts \in Nat
      BY <1>0 DEF TypeOK, Row
    <3>2. QED
      BY <1>0, <2>1, <3>1, Constants DEF Budgeted, Reclaimed, OutOfAttempts, Settled
  <2>4. GrantedWasClaimed'
    BY <1>0, <1>7, <2>1 DEF TypeOK, GrantedWasClaimed, ReapExpired, Grant
  <2>5. QED
    BY <2>2, <2>3, <2>4 DEF Inv
<1>8. ASSUME Tick
      PROVE  Inv'
  <2>1. \A j \in Jobs : /\ job'[j] \in Row
                        /\ job'[j].status = job[j].status
                        /\ job'[j].attempts = job[j].attempts
    <3> SUFFICES ASSUME NEW j \in Jobs
                 PROVE  /\ job'[j] \in Row
                        /\ job'[j].status = job[j].status
                        /\ job'[j].attempts = job[j].attempts
      OBVIOUS
    <3> DEFINE wait == IF job[j].wait = 0 THEN 0 ELSE job[j].wait - 1
    <3>1. job'[j] = [job[j] EXCEPT !.lease = Sooner(@), !.wait = wait]
      BY <1>8 DEF Tick
    <3>2. job[j] \in Row /\ wait \in Nat
      BY <1>0 DEF TypeOK, Row
    <3>3. Sooner(job[j].lease) \in Lapsed..LeaseSeconds
      BY <3>2, SoonerIsADistance DEF Row
    <3> HIDE DEF wait
    <3>4. QED
      BY <3>1, <3>2, <3>3 DEF Row
  <2>2. \A w \in Workers : grant'[w] \in Grant /\ grant'[w].job = grant[w].job
    <3> SUFFICES ASSUME NEW w \in Workers
                 PROVE  grant'[w] \in Grant /\ grant'[w].job = grant[w].job
      OBVIOUS
    <3>1. grant'[w] = [grant[w] EXCEPT !.lease = Sooner(@)] /\ grant[w] \in Grant
      BY <1>0, <1>8 DEF TypeOK, Tick
    <3>2. Sooner(grant[w].lease) \in Lapsed..LeaseSeconds
      BY <3>1, SoonerIsADistance DEF Grant
    <3>3. QED
      BY <3>1, <3>2 DEF Grant
  <2>3. TypeOK'
    BY <1>0, <1>8, <2>1, <2>2 DEF TypeOK, Tick
  <2>4. QED
    BY <1>0, <2>1, <2>2, <2>3 DEF Inv, TypeOK, Budgeted, GrantedWasClaimed, Grant
<1>9. CASE UNCHANGED vars
  BY <1>0, <1>9 DEF Inv, TypeOK, Budgeted, GrantedWasClaimed, vars
<1>10. QED
  BY <1>1, <1>2, <1>3, <1>4, <1>5, <1>6, <1>7, <1>8, <1>9 DEF Next

\* Inv holds in every reachable state.
THEOREM Invariance == Spec => []Inv
<1>1. QED
  BY InitInv, StepInv, PTL DEF Spec

\* Every row and every grant keeps its column types.
THEOREM TypeCorrect == Spec => []TypeOK
<1>1. Inv => TypeOK
  BY DEF Inv
<1>2. QED
  BY <1>1, Invariance, PTL

\* No job is handed out more than max_attempts times (queue_sqlite.py, claim
\* against fail and reap_expired).
THEOREM BudgetHolds == Spec => []AttemptBudget
<1>1. Inv => AttemptBudget
  BY DEF Inv, Budgeted, AttemptBudget
<1>2. QED
  BY <1>1, Invariance, PTL
-----------------------------------------------------------------------------
(* The exclusive lease. *)

\* Who holds a job under a running lease is the only one who does.
LEMMA HolderIsUnique ==
    ASSUME NEW v \in Workers, NEW w \in Workers,
           Holds(v), Holds(w), grant[v].job = grant[w].job
    PROVE  v = w
BY DEF Holds

\* What the clock does to one row and to one grant.
LEMMA TickRow ==
    ASSUME TypeOK, Tick, NEW j \in Jobs
    PROVE  /\ job'[j].status = job[j].status
           /\ job'[j].owner = job[j].owner
           /\ job'[j].attempts = job[j].attempts
           /\ job'[j].lease = Sooner(job[j].lease)
<1>1. /\ job'[j] = [job[j] EXCEPT !.lease = Sooner(@),
                                  !.wait = IF @ = 0 THEN 0 ELSE @ - 1]
      /\ job[j] \in Row
  BY DEF TypeOK, Tick
<1>2. QED
  BY <1>1 DEF Row

LEMMA TickGrant ==
    ASSUME TypeOK, Tick, NEW w \in Workers
    PROVE  /\ grant'[w].job = grant[w].job
           /\ grant'[w].attempts = grant[w].attempts
           /\ grant'[w].lease = Sooner(grant[w].lease)
<1>1. grant'[w] = [grant[w] EXCEPT !.lease = Sooner(@)] /\ grant[w] \in Grant
  BY DEF TypeOK, Tick
<1>2. QED
  BY <1>1 DEF Grant

\* queue.fail changes the row it names and leaves it unclaimed.
LEMMA FailedRow ==
    ASSUME TypeOK, NEW w \in Workers, NEW retry \in BOOLEAN, Fail(w, retry)
    PROVE  /\ job'[grant[w].job].status # "claimed"
           /\ \A j \in Jobs : j # grant[w].job => job'[j] = job[j]
<1> DEFINE g == grant[w].job
<1>1. g \in Jobs /\ job[g] \in Row
  BY DEF TypeOK, Fail, Report, Grant
<1>2. CASE ~retry \/ OutOfAttempts(g)
  <2>1. job' = [job EXCEPT ![g].status = "failed"]
    BY <1>2 DEF Fail
  <2>2. QED
    BY <1>1, <2>1 DEF TypeOK, Row
<1>3. CASE ~(~retry \/ OutOfAttempts(g))
  <2>1. PICK delay \in Delays(job[g].attempts) :
            job' = [job EXCEPT ![g] = [@ EXCEPT !.status = "pending", !.wait = delay]]
    BY <1>3 DEF Fail
  <2>2. QED
    BY <1>1, <2>1 DEF TypeOK, Row
<1>4. QED
  BY <1>2, <1>3

\* A row that is held says what its holder was told, even after the lease ran
\* out: only a new claim changes attempts and only the holder renews the lease.
AsTold(w) ==
    Holds(w) => /\ job[grant[w].job].attempts = grant[w].attempts
                /\ job[grant[w].job].lease = grant[w].lease

RowsAreAsTold == \A w \in Workers : AsTold(w)

\* A worker whose lease runs still holds the row, or the row was reported late.
LeaseOf(w) ==
    (grant[w].job # None /\ grant[w].lease # Lapsed /\ grant[w].job \notin late)
        => Holds(w)

LInv == RowsAreAsTold /\ \A w \in Workers : LeaseOf(w)

LEMMA LInvIsStronger == LInv => LeaseIsExclusive
BY DEF LInv, RowsAreAsTold, AsTold, LeaseOf, LeaseIsExclusive

LEMMA AsToldStep == Inv /\ RowsAreAsTold /\ [Next]_vars => RowsAreAsTold'
<1> SUFFICES ASSUME Inv, RowsAreAsTold, [Next]_vars, NEW u \in Workers, Holds(u)'
             PROVE  /\ job'[grant'[u].job].attempts = grant'[u].attempts
                    /\ job'[grant'[u].job].lease = grant'[u].lease
  BY DEF RowsAreAsTold, AsTold
<1> DEFINE g == grant[u].job
<1>0. TypeOK /\ AsTold(u)
  BY DEF Inv, RowsAreAsTold
<1>h. g # None => g \in Jobs
  BY <1>0 DEF TypeOK, Grant
<1>k. ASSUME grant'[u] = grant[u], job'[g] = job[g]
      PROVE  /\ job'[grant'[u].job].attempts = grant'[u].attempts
             /\ job'[grant'[u].job].lease = grant'[u].lease
  BY <1>0, <1>k DEF AsTold, Holds
<1>1. ASSUME NEW j \in Jobs, NEW priority \in Priorities, Enqueue(j, priority)
      PROVE  job'[g] = job[g] /\ grant'[u] = grant[u]
  BY <1>0, <1>h, <1>1 DEF TypeOK, Enqueue, Holds, NoRow
<1>2. ASSUME NEW w \in Workers, NEW j \in Jobs, Claim(w, j)
      PROVE  /\ job'[grant'[u].job].attempts = grant'[u].attempts
             /\ job'[grant'[u].job].lease = grant'[u].lease
  <2>1. /\ job[j] \in Row
        /\ job'[j] = [job[j] EXCEPT !.status = "claimed", !.owner = w,
                                    !.lease = LeaseSeconds,
                                    !.attempts = job[j].attempts + 1]
        /\ \A i \in Jobs : i # j => job'[i] = job[i]
    BY <1>0, <1>2 DEF TypeOK, Claim
  <2>2. /\ job'[j].owner = w /\ job'[j].lease = LeaseSeconds
        /\ job'[j].attempts = job[j].attempts + 1
    BY <2>1 DEF Row
  <2>3. CASE u = w
    BY <1>0, <1>2, <2>2, <2>3 DEF TypeOK, Claim
  <2>4. CASE u # w
    <3>1. grant'[u] = grant[u] /\ g # j
      BY <1>0, <1>2, <2>2, <2>4 DEF TypeOK, Claim, Holds
    <3>2. QED
      BY <1>h, <1>k, <2>1, <3>1 DEF Holds
  <2>5. QED
    BY <2>3, <2>4
<1>3. ASSUME NEW w \in Workers, ExtendLease(w)
      PROVE  /\ job'[grant'[u].job].attempts = grant'[u].attempts
             /\ job'[grant'[u].job].lease = grant'[u].lease
  <2>1. grant[w].job \in Jobs /\ grant[w] \in Grant /\ job[grant[w].job] \in Row
    BY <1>0, <1>3 DEF TypeOK, ExtendLease, Holds, Grant
  <2>2. job'[grant[w].job] = [job[grant[w].job] EXCEPT !.lease = LeaseSeconds]
    BY <1>0, <1>3, <2>1 DEF TypeOK, ExtendLease
  <2>3. CASE u = w
    <3>1. grant'[u] = [grant[u] EXCEPT !.lease = LeaseSeconds]
      BY <1>0, <1>3, <2>3 DEF TypeOK, ExtendLease
    <3>2. /\ grant'[u].job = g /\ grant'[u].lease = LeaseSeconds
          /\ grant'[u].attempts = grant[u].attempts
      BY <2>1, <2>3, <3>1 DEF Grant
    <3>3. job'[g].lease = LeaseSeconds /\ job'[g].attempts = job[g].attempts
      BY <2>1, <2>2, <2>3 DEF Row
    <3>4. QED
      BY <1>0, <1>3, <2>3, <3>2, <3>3 DEF AsTold, ExtendLease
  <2>4. CASE u # w
    <3>1. grant'[u] = grant[u] /\ g \in Jobs
      BY <1>0, <1>h, <1>3, <2>4 DEF TypeOK, ExtendLease, Holds
    <3>2. g # grant[w].job
      <4>1. /\ job'[grant[w].job].status = job[grant[w].job].status
            /\ job'[grant[w].job].owner = job[grant[w].job].owner
        BY <2>1, <2>2 DEF Row
      <4>2. QED
        BY <1>3, <2>4, <3>1, <4>1 DEF Holds, ExtendLease
    <3>3. job'[g] = job[g]
      BY <1>0, <1>3, <3>1, <3>2 DEF TypeOK, ExtendLease
    <3>4. QED
      BY <1>k, <3>1, <3>3
  <2>5. QED
    BY <2>3, <2>4
<1>4. ASSUME NEW w \in Workers, Report(w), grant[w].job \in Jobs,
             job'[grant[w].job].status # "claimed",
             \A j \in Jobs : j # grant[w].job => job'[j] = job[j]
      PROVE  job'[g] = job[g] /\ grant'[u] = grant[u]
  <2>1. u # w /\ grant'[u] = grant[u]
    BY <1>0, <1>4 DEF TypeOK, Report, Holds, NoGrant
  <2>2. QED
    BY <1>h, <1>4, <2>1 DEF Holds
<1>5. ASSUME NEW w \in Workers, Complete(w)
      PROVE  job'[g] = job[g] /\ grant'[u] = grant[u]
  <2>1. Report(w) /\ grant[w].job \in Jobs /\ job[grant[w].job] \in Row
    BY <1>0, <1>5 DEF TypeOK, Complete, Report, Grant
  <2>2. /\ job'[grant[w].job] = [job[grant[w].job] EXCEPT !.status = "succeeded"]
        /\ \A j \in Jobs : j # grant[w].job => job'[j] = job[j]
    BY <1>0, <1>5, <2>1 DEF TypeOK, Complete
  <2>3. job'[grant[w].job].status # "claimed"
    BY <2>1, <2>2 DEF Row
  <2>4. QED
    BY <1>4, <2>1, <2>2, <2>3
<1>6. ASSUME NEW w \in Workers, NEW retry \in BOOLEAN, Fail(w, retry)
      PROVE  job'[g] = job[g] /\ grant'[u] = grant[u]
  <2>1. Report(w) /\ grant[w].job \in Jobs /\ job[grant[w].job] \in Row
    BY <1>0, <1>6 DEF TypeOK, Fail, Report, Grant
  <2>2. /\ job'[grant[w].job].status # "claimed"
        /\ \A j \in Jobs : j # grant[w].job => job'[j] = job[j]
    BY <1>0, <1>6, <2>1, FailedRow DEF TypeOK
  <2>3. QED
    BY <1>4, <2>1, <2>2
<1>7. ASSUME NEW w \in Workers, Die(w)
      PROVE  job'[g] = job[g] /\ grant'[u] = grant[u]
  BY <1>0, <1>7 DEF TypeOK, Die, Holds, NoGrant
<1>8. ASSUME ReapExpired
      PROVE  job'[g] = job[g] /\ grant'[u] = grant[u]
  <2>1. grant' = grant /\ g \in Jobs
    BY <1>h, <1>8 DEF ReapExpired, Holds
  <2>2. job[g] \in Row
    BY <1>0, <2>1 DEF TypeOK
  <2>3. ~Expired(g)
    BY <1>8, <2>1, <2>2 DEF ReapExpired, Holds, Reclaimed, Row
  <2>4. QED
    BY <1>8, <2>1, <2>3 DEF ReapExpired
<1>9. ASSUME Tick
      PROVE  /\ job'[grant'[u].job].attempts = grant'[u].attempts
             /\ job'[grant'[u].job].lease = grant'[u].lease
  <2>1. /\ grant'[u].job = g
        /\ grant'[u].attempts = grant[u].attempts
        /\ grant'[u].lease = Sooner(grant[u].lease)
    BY <1>0, <1>9, TickGrant
  <2>2. g \in Jobs
    BY <1>h, <2>1 DEF Holds
  <2>3. /\ job'[g].status = job[g].status /\ job'[g].owner = job[g].owner
        /\ job'[g].attempts = job[g].attempts
        /\ job'[g].lease = Sooner(job[g].lease)
    BY <1>0, <1>9, <2>2, TickRow
  <2>4. QED
    BY <1>0, <2>1, <2>3 DEF AsTold, Holds
<1>10. CASE UNCHANGED vars
  BY <1>10, <1>k DEF vars
<1>11. QED
  BY <1>k, <1>1, <1>2, <1>3, <1>5, <1>6, <1>7, <1>8, <1>9, <1>10 DEF Next

\* A step that leaves a worker's grant and its row alone keeps its lease; late
\* only grows.
LEMMA LeaseKept ==
    ASSUME NEW w \in Workers, LeaseOf(w), late \subseteq late',
           grant'[w] = grant[w],
           \/ grant[w].job = None
           \/ grant[w].job \in late'
           \/ grant[w].lease = Lapsed
           \/ job'[grant[w].job] = job[grant[w].job]
    PROVE  LeaseOf(w)'
BY DEF LeaseOf, Holds

LEMMA LeaseStep == Inv /\ LInv /\ [Next]_vars => LInv'
<1> SUFFICES ASSUME Inv, LInv, [Next]_vars, NEW u \in Workers
             PROVE  LeaseOf(u)'
  BY AsToldStep DEF LInv
<1>0. TypeOK /\ LeaseOf(u) /\ AsTold(u)
  BY DEF Inv, LInv, RowsAreAsTold
<1>h. grant[u].job # None => grant[u].job \in Jobs
  BY <1>0 DEF TypeOK, Grant
<1>1. ASSUME NEW j \in Jobs, NEW priority \in Priorities, Enqueue(j, priority)
      PROVE  LeaseOf(u)'
  <2>1. grant[u].job = j => LeaseOf(u)'
    BY <1>0, <1>1 DEF LeaseOf, Holds, Enqueue
  <2>2. grant[u].job # j => LeaseOf(u)'
    BY <1>0, <1>h, <1>1, LeaseKept DEF TypeOK, Enqueue
  <2>3. QED
    BY <2>1, <2>2
<1>2. ASSUME NEW w \in Workers, NEW j \in Jobs, Claim(w, j)
      PROVE  LeaseOf(u)'
  <2>1. CASE u = w
    <3>1. /\ grant'[u].job = j
          /\ job'[j] = [job[j] EXCEPT !.status = "claimed", !.owner = w,
                                      !.lease = LeaseSeconds,
                                      !.attempts = job[j].attempts + 1]
      BY <1>0, <1>2, <2>1 DEF TypeOK, Claim
    <3>2. job'[j].status = "claimed" /\ job'[j].owner = w
      BY <1>0, <3>1 DEF TypeOK, Row
    <3>3. QED
      BY <1>0, <2>1, <3>1, <3>2 DEF LeaseOf, Holds, TypeOK, Grant
  <2>2. CASE u # w
    <3>1. grant[u].job = j => LeaseOf(u)'
      BY <1>0, <1>2, <2>2 DEF TypeOK, LeaseOf, Holds, Claim, Available
    <3>2. grant[u].job # j => LeaseOf(u)'
      BY <1>0, <1>h, <1>2, <2>2, LeaseKept DEF TypeOK, Claim
    <3>3. QED
      BY <3>1, <3>2
  <2>3. QED
    BY <2>1, <2>2
<1>3. ASSUME NEW w \in Workers, ExtendLease(w)
      PROVE  LeaseOf(u)'
  <2>1. CASE u = w
    <3>1. /\ grant'[u].job = grant[u].job
          /\ grant[u].job \in Jobs
          /\ job'[grant[u].job] = [job[grant[u].job] EXCEPT !.lease = LeaseSeconds]
      BY <1>0, <1>h, <1>3, <2>1 DEF TypeOK, ExtendLease, Holds, Grant
    <3>2. /\ job'[grant[u].job].status = job[grant[u].job].status
          /\ job'[grant[u].job].owner = job[grant[u].job].owner
      BY <1>0, <3>1 DEF TypeOK, Row
    <3>3. QED
      BY <1>3, <2>1, <3>1, <3>2 DEF LeaseOf, Holds, ExtendLease
  <2>2. CASE u # w
    <3>1. CASE grant[u].job = grant[w].job
      <4>1. ~Holds(u)
        BY <1>3, <2>2, <3>1, HolderIsUnique DEF ExtendLease
      <4>2. QED
        BY <1>0, <1>3, <2>2, <4>1, LeaseKept DEF TypeOK, LeaseOf, ExtendLease
    <3>2. CASE grant[u].job # grant[w].job
      BY <1>0, <1>h, <1>3, <2>2, <3>2, LeaseKept DEF TypeOK, ExtendLease
    <3>3. QED
      BY <3>1, <3>2
  <2>3. QED
    BY <2>1, <2>2
<1>4. ASSUME NEW w \in Workers, Report(w),
             \A j \in Jobs : j # grant[w].job => job'[j] = job[j]
      PROVE  LeaseOf(u)'
  <2>1. CASE u = w
    BY <1>0, <1>4, <2>1 DEF TypeOK, LeaseOf, Report, NoGrant
  <2>2. CASE u # w
    <3>1. grant'[u] = grant[u] /\ late \subseteq late'
      BY <1>0, <1>4, <2>2 DEF TypeOK, Report
    <3>2. CASE grant[u].job = grant[w].job
      <4>1. CASE Holds(w)
        <5>1. ~Holds(u)
          BY <2>2, <3>2, <4>1, HolderIsUnique
        <5>2. QED
          BY <1>0, <3>1, <5>1, LeaseKept DEF LeaseOf
      <4>2. CASE ~Holds(w)
        <5>1. grant[u].job \in late'
          BY <1>4, <3>2, <4>2 DEF Report
        <5>2. QED
          BY <1>0, <3>1, <5>1, LeaseKept
      <4>3. QED
        BY <4>1, <4>2
    <3>3. CASE grant[u].job # grant[w].job
      BY <1>0, <1>h, <1>4, <3>1, <3>3, LeaseKept
    <3>4. QED
      BY <3>2, <3>3
  <2>3. QED
    BY <2>1, <2>2
<1>5. ASSUME NEW w \in Workers, Complete(w)
      PROVE  LeaseOf(u)'
  <2>1. Report(w) /\ \A j \in Jobs : j # grant[w].job => job'[j] = job[j]
    BY <1>0, <1>5 DEF TypeOK, Complete
  <2>2. QED
    BY <1>4, <2>1
<1>6. ASSUME NEW w \in Workers, NEW retry \in BOOLEAN, Fail(w, retry)
      PROVE  LeaseOf(u)'
  <2>1. Report(w)
    BY <1>6 DEF Fail
  <2>2. \A j \in Jobs : j # grant[w].job => job'[j] = job[j]
    <3>1. CASE ~retry \/ OutOfAttempts(grant[w].job)
      BY <1>0, <1>6, <3>1 DEF TypeOK, Fail
    <3>2. CASE ~(~retry \/ OutOfAttempts(grant[w].job))
      <4>1. PICK delay \in Delays(job[grant[w].job].attempts) :
                job' = [job EXCEPT ![grant[w].job] =
                            [@ EXCEPT !.status = "pending", !.wait = delay]]
        BY <1>6, <3>2 DEF Fail
      <4>2. QED
        BY <1>0, <4>1 DEF TypeOK
    <3>3. QED
      BY <3>1, <3>2
  <2>3. QED
    BY <1>4, <2>1, <2>2
<1>7. ASSUME NEW w \in Workers, Die(w)
      PROVE  LeaseOf(u)'
  <2>1. CASE u = w
    BY <1>0, <1>7, <2>1 DEF TypeOK, LeaseOf, Die, NoGrant
  <2>2. CASE u # w
    BY <1>0, <1>7, <2>2, LeaseKept DEF TypeOK, Die
  <2>3. QED
    BY <2>1, <2>2
<1>8. ASSUME ReapExpired
      PROVE  LeaseOf(u)'
  <2>1. grant' = grant /\ late' = late
    BY <1>8 DEF ReapExpired
  <2>2. CASE grant[u].job # None /\ grant[u].lease # Lapsed /\ grant[u].job \notin late
    <3>1. ~Expired(grant[u].job)
      BY <1>0, <2>2 DEF LeaseOf, AsTold, Expired
    <3>2. job'[grant[u].job] = job[grant[u].job]
      BY <1>h, <1>8, <2>2, <3>1 DEF ReapExpired
    <3>3. QED
      BY <1>0, <2>1, <3>2, LeaseKept
  <2>3. CASE ~(grant[u].job # None /\ grant[u].lease # Lapsed /\ grant[u].job \notin late)
    BY <2>1, <2>3 DEF LeaseOf
  <2>4. QED
    BY <2>2, <2>3
<1>9. ASSUME Tick
      PROVE  LeaseOf(u)'
  <2>1. /\ grant'[u].job = grant[u].job /\ late' = late
        /\ grant'[u].lease = Sooner(grant[u].lease)
    BY <1>0, <1>9, TickGrant DEF Tick
  <2>2. grant[u].job \in Jobs => /\ job'[grant[u].job].status = job[grant[u].job].status
                                /\ job'[grant[u].job].owner = job[grant[u].job].owner
    BY <1>0, <1>9, TickRow
  <2>3. QED
    BY <1>0, <1>h, <2>1, <2>2 DEF LeaseOf, Holds, Sooner
<1>10. CASE UNCHANGED vars
  BY <1>0, <1>10, LeaseKept DEF vars
<1>11. QED
  BY <1>1, <1>2, <1>3, <1>5, <1>6, <1>7, <1>8, <1>9, <1>10 DEF Next

\* A worker whose lease still runs has the row to itself (queue_sqlite.py: claim,
\* extend_lease and reap_expired against one another), unless it was reported
\* late.
THEOREM LeaseHolds == Spec => []LeaseIsExclusive
<1>1. Init => LInv
  BY DEF Init, LInv, RowsAreAsTold, AsTold, LeaseOf, Holds, NoGrant
<1>2. Spec => []LInv
  BY <1>1, LeaseStep, Invariance, PTL DEF Spec
<1>3. QED
  BY <1>2, LInvIsStronger, PTL

\* Two workers never work on one job under running leases.
THEOREM HoldersExclude == Spec => []NoTwoHolders
<1>1. LeaseIsExclusive => NoTwoHolders
  BY HolderIsUnique DEF NoTwoHolders, LeaseIsExclusive
<1>2. QED
  BY <1>1, LeaseHolds, PTL
-----------------------------------------------------------------------------
(* A settled job stays settled. *)

Unsettled(j) == job[j].status \in Settled /\ job'[j].status \notin Settled

LEMMA SettledStep ==
    Inv /\ [Next]_vars => \A j \in Jobs : Unsettled(j) => j \in late'
<1> SUFFICES ASSUME Inv, [Next]_vars, NEW i \in Jobs, Unsettled(i)
             PROVE  i \in late'
  OBVIOUS
<1>0. TypeOK /\ job[i] \in Row /\ job[i].status \in Settled /\ job'[i] # job[i]
  BY DEF Inv, TypeOK, Unsettled
<1>1. ASSUME NEW j \in Jobs, NEW priority \in Priorities, Enqueue(j, priority)
      PROVE  FALSE
  <2>1. i = j
    BY <1>0, <1>1 DEF TypeOK, Enqueue
  <2>2. QED
    BY <1>0, <1>1, <2>1 DEF Enqueue, Settled
<1>2. ASSUME NEW w \in Workers, NEW j \in Jobs, Claim(w, j)
      PROVE  FALSE
  <2>1. i = j
    BY <1>0, <1>2 DEF TypeOK, Claim
  <2>2. QED
    BY <1>0, <1>2, <2>1 DEF Claim, Available, Settled
<1>3. ASSUME NEW w \in Workers, ExtendLease(w)
      PROVE  FALSE
  <2>1. i = grant[w].job
    BY <1>0, <1>3 DEF TypeOK, ExtendLease
  <2>2. QED
    BY <1>0, <1>3, <2>1 DEF ExtendLease, Holds, Settled
<1>4. ASSUME NEW w \in Workers, Complete(w)
      PROVE  FALSE
  <2>1. i = grant[w].job /\ job' = [job EXCEPT ![i] = [job[i] EXCEPT !.status = "succeeded"]]
    BY <1>0, <1>4 DEF TypeOK, Complete
  <2>2. job'[i].status = "succeeded"
    BY <1>0, <2>1 DEF TypeOK, Row
  <2>3. QED
    BY <2>2 DEF Unsettled, Settled
<1>5. ASSUME NEW w \in Workers, NEW retry \in BOOLEAN, Fail(w, retry)
      PROVE  i \in late'
  <2>1. i = grant[w].job
    BY <1>0, <1>5, FailedRow
  <2>2. ~Holds(w)
    BY <1>0, <2>1 DEF Holds, Settled
  <2>3. QED
    BY <1>5, <2>1, <2>2 DEF Fail, Report
<1>6. ASSUME NEW w \in Workers, Die(w)
      PROVE  FALSE
  BY <1>0, <1>6 DEF Die
<1>7. ASSUME ReapExpired
      PROVE  FALSE
  BY <1>0, <1>7 DEF ReapExpired, Expired, Settled
<1>8. ASSUME Tick
      PROVE  FALSE
  BY <1>0, <1>8, TickRow DEF Unsettled
<1>9. CASE UNCHANGED vars
  BY <1>0, <1>9 DEF vars
<1>10. QED
  BY <1>1, <1>2, <1>3, <1>4, <1>5, <1>6, <1>7, <1>8, <1>9 DEF Next

\* A settled job never comes back to the queue but by a late report
\* (queue_sqlite.py: fail does not look at the status it replaces).
THEOREM SettledStays == Spec => SettledStaysSettled
<1>1. Inv /\ [Next]_vars
        => [\A j \in Jobs :
              (job[j].status \in Settled /\ job'[j].status \notin Settled)
                => j \in late']_vars
  BY SettledStep DEF Unsettled
<1>2. QED
  BY <1>1, Invariance, PTL DEF Spec, SettledStaysSettled
-----------------------------------------------------------------------------
(* The table implements the promise of WorkQueue. *)

statusOf == [j \in Jobs |-> job[j].status]
attemptsOf == [j \in Jobs |-> job[j].attempts]

\* A step that changes the status of one row only.
LEMMA OneRow ==
    ASSUME NEW j \in Jobs, NEW STATE status, NEW STATE attempts,
           \A i \in Jobs : i # j => job'[i] = job[i],
           job'[j].status = status, job'[j].attempts = attempts
    PROVE  /\ statusOf' = [statusOf EXCEPT ![j] = status]
           /\ attemptsOf' = [attemptsOf EXCEPT ![j] = attempts]
BY DEF statusOf, attemptsOf

\* A step that changes no status and no attempts.
LEMMA NoRowMoves ==
    ASSUME \A i \in Jobs : job'[i].status = job[i].status /\ job'[i].attempts = job[i].attempts
    PROVE  UNCHANGED WQ!queueVars
<1>1. /\ [j \in Jobs |-> job'[j].status] = [j \in Jobs |-> job[j].status]
      /\ [j \in Jobs |-> job'[j].attempts] = [j \in Jobs |-> job[j].attempts]
  OBVIOUS
<1>2. QED
  BY <1>1 DEF WQ!queueVars

LEMMA WorkQueueInit == Init => WQ!QueueInit
BY DEF Init, NoRow, WQ!QueueInit

LEMMA WorkQueueStep == Inv /\ [Next]_vars => [WQ!QueueNext]_(WQ!queueVars)
<1> SUFFICES ASSUME Inv, [Next]_vars
             PROVE  WQ!QueueNext \/ UNCHANGED WQ!queueVars
  OBVIOUS
<1>0. TypeOK
  BY DEF Inv
<1>1. ASSUME NEW j \in Jobs, NEW priority \in Priorities, Enqueue(j, priority)
      PROVE  WQ!Enqueue(j)
  <2>1. /\ job'[j].status = "pending" /\ job'[j].attempts = 0
        /\ \A i \in Jobs : i # j => job'[i] = job[i]
    BY <1>0, <1>1 DEF TypeOK, Enqueue, NoRow
  <2>2. /\ statusOf' = [statusOf EXCEPT ![j] = "pending"]
        /\ attemptsOf' = [attemptsOf EXCEPT ![j] = 0]
    BY <2>1, OneRow
  <2>3. QED
    BY <1>1, <2>2 DEF Enqueue, statusOf, attemptsOf, WQ!Enqueue, WQ!IsNextId
<1>2. ASSUME NEW w \in Workers, NEW j \in Jobs, Claim(w, j)
      PROVE  WQ!Claim(j)
  <2>1. job[j] \in Row /\ job[j].status = "pending"
    BY <1>0, <1>2 DEF TypeOK, Claim, Available
  <2>2. /\ job'[j] = [job[j] EXCEPT !.status = "claimed", !.owner = w,
                                    !.lease = LeaseSeconds,
                                    !.attempts = job[j].attempts + 1]
        /\ \A i \in Jobs : i # j => job'[i] = job[i]
    BY <1>0, <1>2 DEF TypeOK, Claim
  <2>3. job'[j].status = "claimed" /\ job'[j].attempts = job[j].attempts + 1
    BY <2>1, <2>2 DEF Row
  <2> DEFINE attempts == job[j].attempts + 1
  <2> HIDE DEF attempts
  <2>4. job'[j].attempts = attempts
    BY <2>3 DEF attempts
  <2>5. /\ statusOf' = [statusOf EXCEPT ![j] = "claimed"]
        /\ attemptsOf' = [attemptsOf EXCEPT ![j] = attempts]
    BY <2>2, <2>3, <2>4 DEF statusOf, attemptsOf
  <2>6. QED
    BY <2>1, <2>5 DEF statusOf, attemptsOf, attempts, WQ!Claim
<1>3. ASSUME NEW w \in Workers, ExtendLease(w)
      PROVE  UNCHANGED WQ!queueVars
  <2>1. \A i \in Jobs : job'[i].status = job[i].status /\ job'[i].attempts = job[i].attempts
    BY <1>0, <1>3 DEF TypeOK, ExtendLease, Row
  <2>2. QED
    BY <2>1, NoRowMoves
<1>4. ASSUME NEW w \in Workers, Complete(w)
      PROVE  \E j \in Jobs : WQ!Complete(j)
  <2> DEFINE g == grant[w].job
  <2>1. g \in Jobs /\ job[g] \in Row /\ job[g].attempts > 0
    BY <1>0, <1>4 DEF Inv, TypeOK, GrantedWasClaimed, Complete, Report, Grant
  <2>2. job[g].status # "absent"
    BY <1>0, <2>1 DEF Inv, Budgeted
  <2>3. /\ job'[g].status = "succeeded" /\ job'[g].attempts = job[g].attempts
        /\ \A i \in Jobs : i # g => job'[i] = job[i]
    BY <1>0, <1>4, <2>1 DEF TypeOK, Complete, Row
  <2>4. /\ statusOf' = [statusOf EXCEPT ![g] = "succeeded"]
        /\ attemptsOf' = [attemptsOf EXCEPT ![g] = job[g].attempts]
    BY <2>1, <2>3, OneRow
  <2>5. attemptsOf' = attemptsOf
    BY <2>1, <2>4 DEF attemptsOf
  <2>6. QED
    BY <2>1, <2>2, <2>4, <2>5 DEF statusOf, attemptsOf, WQ!Complete
<1>5. ASSUME NEW w \in Workers, NEW retry \in BOOLEAN, Fail(w, retry)
      PROVE  \E j \in Jobs : WQ!Fail(j, retry)
  <2> DEFINE g == grant[w].job
             to == IF retry THEN (IF OutOfAttempts(g) THEN "failed" ELSE "pending") ELSE "failed"
  <2>1. g \in Jobs /\ job[g] \in Row /\ job[g].attempts > 0
    BY <1>0, <1>5 DEF Inv, TypeOK, GrantedWasClaimed, Fail, Report, Grant
  <2>2. job[g].status # "absent"
    BY <1>0, <2>1 DEF Inv, Budgeted
  <2>3. job'[g].status = to /\ job'[g].attempts = job[g].attempts
    <3>1. CASE ~retry \/ OutOfAttempts(g)
      <4>1. job' = [job EXCEPT ![g].status = "failed"] /\ to = "failed"
        BY <1>5, <3>1 DEF Fail
      <4>2. QED
        BY <1>0, <2>1, <4>1 DEF TypeOK, Row
    <3>2. CASE ~(~retry \/ OutOfAttempts(g))
      <4>1. /\ to = "pending"
            /\ \E delay \in Delays(job[g].attempts) :
                  job' = [job EXCEPT ![g] = [@ EXCEPT !.status = "pending", !.wait = delay]]
        BY <1>5, <3>2 DEF Fail
      <4>2. QED
        BY <1>0, <2>1, <4>1 DEF TypeOK, Row
    <3>3. QED
      BY <3>1, <3>2
  <2>4. \A i \in Jobs : i # g => job'[i] = job[i]
    BY <1>0, <1>5, FailedRow
  <2> HIDE DEF to
  <2>5. /\ statusOf' = [statusOf EXCEPT ![g] = to]
        /\ attemptsOf' = [attemptsOf EXCEPT ![g] = job[g].attempts]
    BY <2>1, <2>3, <2>4, OneRow
  <2>6. attemptsOf' = attemptsOf
    BY <2>1, <2>5 DEF attemptsOf
  <2>7. to = IF retry THEN WQ!BackTo(g) ELSE "failed"
    BY <2>1 DEF to, OutOfAttempts, WQ!BackTo
  <2>8. QED
    BY <2>1, <2>2, <2>5, <2>6, <2>7 DEF statusOf, attemptsOf, WQ!Fail
<1>6. ASSUME NEW w \in Workers, Die(w)
      PROVE  UNCHANGED WQ!queueVars
  BY <1>6, NoRowMoves DEF Die
<1>7. ASSUME ReapExpired
      PROVE  \E lapsed \in SUBSET Jobs : WQ!ReapExpired(lapsed)
  <2> DEFINE lapsed == {j \in Jobs : Expired(j)}
  <2>1. \A j \in Jobs : /\ job'[j].attempts = job[j].attempts
                        /\ job'[j].status = IF j \in lapsed THEN WQ!BackTo(j) ELSE job[j].status
    BY <1>0, <1>7 DEF TypeOK, ReapExpired, Reclaimed, OutOfAttempts, Row, WQ!BackTo
  <2>2. \A j \in lapsed : job[j].status = "claimed"
    BY DEF Expired
  <2>3. lapsed \in SUBSET Jobs
    OBVIOUS
  <2> HIDE DEF lapsed
  <2>4. QED
    BY <2>1, <2>2, <2>3 DEF WQ!ReapExpired
<1>8. ASSUME Tick
      PROVE  UNCHANGED WQ!queueVars
  BY <1>0, <1>8, TickRow, NoRowMoves
<1>9. CASE UNCHANGED vars
  BY <1>9, NoRowMoves DEF vars
<1>10. CASE \E j \in Jobs, priority \in Priorities : Enqueue(j, priority)
  BY <1>1, <1>10 DEF WQ!QueueNext
<1>11. CASE \E w \in Workers, j \in Jobs : Claim(w, j)
  BY <1>2, <1>11 DEF WQ!QueueNext
<1>12. CASE \E w \in Workers : Complete(w)
  BY <1>4, <1>12 DEF WQ!QueueNext
<1>13. CASE \E w \in Workers : \E retry \in BOOLEAN : Fail(w, retry)
  BY <1>5, <1>13 DEF WQ!QueueNext
<1>14. CASE ReapExpired
  BY <1>7, <1>14 DEF WQ!QueueNext
<1>15. QED
  BY <1>3, <1>6, <1>8, <1>9, <1>10, <1>11, <1>12, <1>13, <1>14 DEF Next

\* Every behaviour of the table, clocks and leases forgotten, is one of WorkQueue:
\* what RunLifecycle builds on is what queue_sqlite.py does.
THEOREM QueueRefinement == Spec => ImplementsWorkQueue
<1>1. Spec => WQ!QueueInit /\ [][WQ!QueueNext]_(WQ!queueVars)
  BY WorkQueueInit, WorkQueueStep, Invariance, PTL DEF Spec
<1>2. QED
  BY <1>1 DEF ImplementsWorkQueue, WQ!QueueSpec
=============================================================================
