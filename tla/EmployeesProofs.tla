---------------------------- MODULE EmployeesProofs ----------------------------
(***************************************************************************)
(* Proofs about Employees, for any versions and specifications: the        *)
(* current version is the approved one, the enabled schedule is its        *)
(* schedule, approvals go forward, scheduled runs are of approved          *)
(* versions, and a saved workflow is kept and executed in one order.       *)
(***************************************************************************)
EXTENDS Employees, FiniteSetTheorems, SequenceTheorems, WellFoundedInduction, TLAPS

\* Versions are saved in the order of their numbers.
SavedInOrder ==
    \A v, w \in Versions :
        (w < v /\ workflow[v].status # "absent") => workflow[w].status # "absent"

\* What was not decided about is newer than the current version.
DraftsAreNewer ==
    \A v \in Versions :
        (employee.current # None /\ workflow[v].status \in {"absent", "pending"})
            => v > employee.current

\* What was saved was valid, and stays what it was.
SavedIsValid ==
    \A v \in Versions : workflow[v].status # "absent" => workflow[v].spec \in Valid

\* An employee that is not there has nothing.
NothingYet ==
    employee.status = "absent" => \A v \in Versions : workflow[v].status = "absent"

\* What the scheduler read of a schedule, its trigger, is still true.
Scheduled(v, trigger) ==
    /\ workflow[v].status # "absent"
    /\ workflow[v].spec.trigger = trigger

TriggersAreKnown ==
    /\ wanted # None => \A v \in wanted : Scheduled(v, "cron")
    /\ \A v \in jobs : Scheduled(v, "cron")
    /\ \A d \in due : Scheduled(d[1], d[2])

IInv ==
    /\ TypeOK
    /\ CurrentIsApproved
    /\ EnabledIfActive
    /\ SavedInOrder
    /\ DraftsAreNewer
    /\ NothingYet
    /\ SavedIsValid
    /\ TriggersAreKnown

WorkflowRow == [status : WorkflowStatus, spec : Specs \cup {None}, enabled : BOOLEAN]

-----------------------------------------------------------------------------
(* Numbers. *)

LEMMA Smallest ==
    ASSUME NEW S, S \subseteq Nat, S # {}
    PROVE  \E n \in S : \A m \in S : n <= m
<1>1. PICK n \in S : \A m \in S : << m, n >> \notin OpToRel(<, Nat)
  BY NatLessThanWellFounded, WFMin
<1>2. n \in S /\ \A m \in S : ~(m < n)
  BY <1>1 DEF OpToRel
<1>3. \A m \in S : m \in Nat /\ n \in Nat
  OBVIOUS
<1>4. \A m \in S : n <= m
  BY <1>2, <1>3
<1> QED  BY <1>2, <1>4

LEMMA Greatest ==
    ASSUME NEW L \in Nat, NEW S, S \subseteq 1 .. L, S # {}
    PROVE  Max(S) \in S /\ \A s \in S : s <= Max(S)
<1> DEFINE T == {L - s : s \in S}
<1>1. T \subseteq Nat
  <2>1. \A s \in S : s \in Int /\ L - s >= 0
    OBVIOUS
  <2> QED  BY <2>1
<1>2. T # {}
  OBVIOUS
<1>3. \E n \in T : \A m \in T : n <= m
  <2> HIDE DEF T
  <2> QED  BY <1>1, <1>2, Smallest
<1>4. PICK n \in T : \A m \in T : n <= m
  BY <1>3
<1>5. L - n \in S /\ \A y \in S : L - n >= y
  BY <1>4
<1> QED  BY <1>5 DEF Max

-----------------------------------------------------------------------------
(* A workflow that was validated has an order. *)

\* Induction, for a set of natural numbers.
LEMMA EveryNatural ==
    ASSUME NEW P, 0 \in P, \A n \in Nat : n \in P => n + 1 \in P
    PROVE  \A n \in Nat : n \in P
<1> SUFFICES ASSUME Nat \ P # {} PROVE FALSE
  OBVIOUS
<1>1. PICK n \in Nat \ P : \A m \in Nat \ P : n <= m
  BY Smallest
<1> QED  BY <1>1

\* One turn of the loop of topo_order.
Ready(steps, edges, done) ==
    {i \in DOMAIN steps : /\ steps[i] \notin ToSet(done)
                          /\ Parents(steps, edges, steps[i]) \subseteq ToSet(done)}
Longer(steps, edges, done) ==
    IF Ready(steps, edges, done) = {} THEN done
    ELSE Append(done, steps[Min(Ready(steps, edges, done))])

\* The recursive function topo_order stands for exists, and does what it says.
LEMMA OrderUnfolds ==
    ASSUME NEW steps, NEW edges, Len(steps) \in Nat
    PROVE  \E order :
            /\ TopoOrder(steps, edges) = order[Len(steps)]
            /\ order[0] = << >>
            /\ \A n \in Nat : n < Len(steps) => order[n + 1] = Longer(steps, edges, order[n])
<1> DEFINE F(f, n) == IF n = 0 THEN << >> ELSE Longer(steps, edges, f[n - 1])
           L == Len(steps)
           Upto(n) == \E f : f = [m \in 0 .. n |-> F(f, m)]
           order == CHOOSE f : f = [m \in 0 .. L |-> F(f, m)]
<1>1. TopoOrder(steps, edges) = order[L]
  BY DEF TopoOrder, Longer, Ready
<1>2. Upto(0)
  <2> DEFINE f == [m \in 0 .. 0 |-> << >>]
  <2>1. f = [m \in 0 .. 0 |-> F(f, m)]
    OBVIOUS
  <2> QED  BY <2>1
<1>3. ASSUME NEW n \in Nat, Upto(n)
      PROVE  Upto(n + 1)
  <2>1. PICK f : f = [m \in 0 .. n |-> F(f, m)]
    BY <1>3
  <2> DEFINE g == [m \in 0 .. (n + 1) |-> IF m = n + 1 THEN Longer(steps, edges, f[n]) ELSE f[m]]
  <2>2. \A m \in 0 .. (n + 1) : g[m] = F(g, m)
    <3> TAKE m \in 0 .. (n + 1)
    <3>1. CASE m = n + 1
      <4>1. g[m] = Longer(steps, edges, f[n]) /\ g[m - 1] = f[n] /\ m # 0
        BY <3>1
      <4> QED  BY <4>1
    <3>2. CASE m # n + 1
      <4>0. m \in 0 .. n
        BY <3>2
      <4>1. g[m] = f[m] /\ f[m] = F(f, m)
        <5> HIDE DEF F
        <5> QED  BY <2>1, <3>2, <4>0
      <4>2. m # 0 => g[m - 1] = f[m - 1]
        BY <3>2
      <4> QED  BY <4>0, <4>1, <4>2
    <3> QED  BY <3>1, <3>2
  <2>3. g = [m \in 0 .. (n + 1) |-> F(g, m)]
    <3>1. g = [m \in 0 .. (n + 1) |-> g[m]]
      OBVIOUS
    <3> QED  BY <3>1, <2>2
  <2> QED  BY <2>3
<1>4. Upto(L)
  <2> DEFINE P == {n \in Nat : Upto(n)}
  <2>1. 0 \in P /\ \A n \in Nat : n \in P => n + 1 \in P
    <3> HIDE DEF Upto
    <3> QED  BY <1>2, <1>3
  <2>2. \A n \in Nat : n \in P
    <3> HIDE DEF P
    <3> QED  BY <2>1, EveryNatural
  <2> QED  BY <2>2
<1>5. order = [m \in 0 .. L |-> F(order, m)]
  BY <1>4
<1> HIDE DEF order
<1>6. \A m \in 0 .. L : order[m] = F(order, m)
  BY <1>5
<1>7. order[0] = << >> /\ \A n \in Nat : n < L => order[n + 1] = Longer(steps, edges, order[n])
  BY <1>6
<1> QED  BY <1>1, <1>7

\* One turn of the validator's loop.
Visit(steps, edges, seen) == {k \in ToSet(steps) : Parents(steps, edges, k) \subseteq seen}

LEMMA VisitedUnfolds ==
    ASSUME NEW steps, NEW edges, Len(steps) \in Nat, NoCycles(steps, edges)
    PROVE  \E visited :
            /\ visited[Len(steps)] = ToSet(steps)
            /\ visited[0] = {}
            /\ \A n \in Nat : n < Len(steps) => visited[n + 1] = Visit(steps, edges, visited[n])
<1> DEFINE F(f, n) == IF n = 0 THEN {} ELSE Visit(steps, edges, f[n - 1])
           L == Len(steps)
           Upto(n) == \E f : f = [m \in 0 .. n |-> F(f, m)]
           visited == CHOOSE f : f = [m \in 0 .. L |-> F(f, m)]
<1>1. visited[L] = ToSet(steps)
  BY DEF NoCycles, Visit
<1>2. Upto(0)
  <2> DEFINE f == [m \in 0 .. 0 |-> {}]
  <2>1. f = [m \in 0 .. 0 |-> F(f, m)]
    OBVIOUS
  <2> QED  BY <2>1
<1>3. ASSUME NEW n \in Nat, Upto(n)
      PROVE  Upto(n + 1)
  <2>1. PICK f : f = [m \in 0 .. n |-> F(f, m)]
    BY <1>3
  <2> DEFINE g == [m \in 0 .. (n + 1) |-> IF m = n + 1 THEN Visit(steps, edges, f[n]) ELSE f[m]]
  <2>2. \A m \in 0 .. (n + 1) : g[m] = F(g, m)
    <3> TAKE m \in 0 .. (n + 1)
    <3>1. CASE m = n + 1
      <4>1. g[m] = Visit(steps, edges, f[n]) /\ g[m - 1] = f[n] /\ m # 0
        BY <3>1
      <4> QED  BY <4>1
    <3>2. CASE m # n + 1
      <4>0. m \in 0 .. n
        BY <3>2
      <4>1. g[m] = f[m] /\ f[m] = F(f, m)
        <5> HIDE DEF F
        <5> QED  BY <2>1, <3>2, <4>0
      <4>2. m # 0 => g[m - 1] = f[m - 1]
        BY <3>2
      <4> QED  BY <4>0, <4>1, <4>2
    <3> QED  BY <3>1, <3>2
  <2>3. g = [m \in 0 .. (n + 1) |-> F(g, m)]
    <3>1. g = [m \in 0 .. (n + 1) |-> g[m]]
      OBVIOUS
    <3> QED  BY <3>1, <2>2
  <2> QED  BY <2>3
<1>4. Upto(L)
  <2> DEFINE P == {n \in Nat : Upto(n)}
  <2>1. 0 \in P /\ \A n \in Nat : n \in P => n + 1 \in P
    <3> HIDE DEF Upto
    <3> QED  BY <1>2, <1>3
  <2>2. \A n \in Nat : n \in P
    <3> HIDE DEF P
    <3> QED  BY <2>1, EveryNatural
  <2> QED  BY <2>2
<1>5. visited = [m \in 0 .. L |-> F(visited, m)]
  BY <1>4
<1> HIDE DEF visited
<1>6. \A m \in 0 .. L : visited[m] = F(visited, m)
  BY <1>5
<1>7. visited[0] = {} /\ \A n \in Nat : n < L => visited[n + 1] = Visit(steps, edges, visited[n])
  BY <1>6
<1> QED  BY <1>1, <1>7

\* No step twice, and none in front of a step it depends on.
InOrder(steps, edges, done) ==
    /\ done \in Seq(ToSet(steps))
    /\ \A i, j \in 1 .. Len(done) : i < j => done[i] # done[j]
    /\ \A j \in 1 .. Len(done) :
        Parents(steps, edges, done[j]) \subseteq {done[i] : i \in 1 .. (j - 1)}

\* The loop keeps it so, and goes on as long as a step is ready.
LEMMA LongerIsInOrder ==
    ASSUME NEW steps, NEW edges, steps \in Seq(ToSet(steps)), NEW done,
           InOrder(steps, edges, done)
    PROVE  /\ InOrder(steps, edges, Longer(steps, edges, done))
           /\ Ready(steps, edges, done) # {} =>
                Len(Longer(steps, edges, done)) = Len(done) + 1
<1> DEFINE ready == Ready(steps, edges, done)
<1>1. CASE ready = {}
  BY <1>1 DEF Longer
<1>2. CASE ready # {}
  <2> DEFINE m == Min(ready)
             next == Append(done, steps[m])
             n == Len(done)
  <2>1. DOMAIN steps \subseteq Nat
    OBVIOUS
  <2>2. ready \subseteq Nat
    BY <2>1 DEF Ready
  <2>3. m \in ready
    <3>1. PICK i \in ready : \A j \in ready : i <= j
      BY <1>2, <2>2, Smallest
    <3> QED  BY <3>1 DEF Min
  <2> HIDE DEF m
  <2>4. /\ m \in DOMAIN steps /\ steps[m] \in ToSet(steps) /\ steps[m] \notin ToSet(done)
        /\ Parents(steps, edges, steps[m]) \subseteq ToSet(done)
    BY <2>3 DEF Ready, ToSet
  <2>5. /\ done \in Seq(ToSet(steps)) /\ n \in Nat /\ DOMAIN done = 1 .. n
    BY DEF InOrder
  <2>6. ToSet(done) = {done[i] : i \in 1 .. n}
    BY <2>5 DEF ToSet
  <2>7. /\ next \in Seq(ToSet(steps)) /\ Len(next) = n + 1
        /\ next[n + 1] = steps[m] /\ \A i \in 1 .. n : next[i] = done[i]
    BY <2>4, <2>5
  <2>8. Longer(steps, edges, done) = next
    BY <1>2 DEF Longer, m
  <2> HIDE DEF next
  <2>9. ASSUME NEW i \in 1 .. (n + 1), NEW j \in 1 .. (n + 1), i < j
        PROVE  next[i] # next[j]
    <3>1. i \in 1 .. n /\ next[i] = done[i] /\ done[i] \in ToSet(done)
      BY <2>5, <2>6, <2>7, <2>9
    <3>2. CASE j = n + 1
      BY <2>4, <2>7, <3>1, <3>2
    <3>3. CASE j # n + 1
      <4>1. j \in 1 .. n /\ next[j] = done[j]
        BY <2>5, <2>7, <3>3
      <4> QED  BY <2>9, <3>1, <4>1 DEF InOrder
    <3> QED  BY <3>2, <3>3
  <2>10. ASSUME NEW j \in 1 .. (n + 1)
         PROVE  Parents(steps, edges, next[j]) \subseteq {next[i] : i \in 1 .. (j - 1)}
    <3>1. CASE j = n + 1
      <4>1. j - 1 = n
        BY <2>5, <3>1
      <4>2. {next[i] : i \in 1 .. n} = {done[i] : i \in 1 .. n}
        BY <2>7
      <4> QED  BY <2>4, <2>6, <2>7, <3>1, <4>1, <4>2
    <3>2. CASE j # n + 1
      <4>1. j \in 1 .. n /\ next[j] = done[j]
        BY <2>5, <2>7, <3>2
      <4>2. {next[i] : i \in 1 .. (j - 1)} = {done[i] : i \in 1 .. (j - 1)}
        BY <2>5, <2>7, <4>1
      <4> QED  BY <4>1, <4>2 DEF InOrder
    <3> QED  BY <3>1, <3>2
  <2> QED  BY <2>7, <2>8, <2>9, <2>10 DEF InOrder
<1> QED  BY <1>1, <1>2

\* As long as a step is missing, some step is ready.
LEMMA SomeStepIsReady ==
    ASSUME NEW steps, NEW edges, Len(steps) \in Nat, NoCycles(steps, edges), NEW done,
           ~(ToSet(steps) \subseteq ToSet(done))
    PROVE  Ready(steps, edges, done) # {}
<1> DEFINE L == Len(steps)
<1>1. PICK visited :
            /\ visited[L] = ToSet(steps)
            /\ visited[0] = {}
            /\ \A n \in Nat : n < L => visited[n + 1] = Visit(steps, edges, visited[n])
  BY VisitedUnfolds
<1> DEFINE P == {n \in 0 .. L : ~(visited[n] \subseteq ToSet(done))}
<1>2. P \subseteq Nat /\ P # {}
  BY <1>1
<1>3. PICK n \in P : \A m \in P : n <= m
  BY <1>2, Smallest
<1>4. n # 0 /\ n \in 1 .. L
  BY <1>1, <1>3
<1>5. visited[n - 1] \subseteq ToSet(done)
  BY <1>3, <1>4
<1>6. visited[n] = Visit(steps, edges, visited[n - 1])
  <2>1. n - 1 \in Nat /\ n - 1 < L /\ n = (n - 1) + 1
    BY <1>4
  <2> QED  BY <1>1, <2>1
<1>7. PICK k \in visited[n] : k \notin ToSet(done)
  BY <1>3
<1>8. k \in ToSet(steps) /\ Parents(steps, edges, k) \subseteq ToSet(done)
  BY <1>5, <1>6, <1>7 DEF Visit
<1> QED  BY <1>7, <1>8 DEF Ready, ToSet

\* A sequence without repetitions has as many elements as places.
LEMMA Counted ==
    ASSUME NEW S, NEW s \in Seq(S), \A i, j \in 1 .. Len(s) : i < j => s[i] # s[j]
    PROVE  IsFiniteSet(ToSet(s)) /\ Cardinality(ToSet(s)) = Len(s)
<1>1. Len(s) \in Nat /\ DOMAIN s = 1 .. Len(s)
  OBVIOUS
<1>2. ToSet(s) = {s[i] : i \in 1 .. Len(s)}
  BY <1>1 DEF ToSet
<1>3. s \in Bijection(1 .. Len(s), ToSet(s))
  <2>1. s \in [1 .. Len(s) -> ToSet(s)]
    BY <1>1, <1>2, LenProperties
  <2>2. \A i, j \in 1 .. Len(s) : s[i] = s[j] => i = j
    BY <1>1
  <2>3. \A x \in ToSet(s) : \E i \in 1 .. Len(s) : s[i] = x
    BY <1>2
  <2>4. DOMAIN s = 1 .. Len(s)
    BY <1>1
  <2> QED  BY <2>1, <2>2, <2>3, <2>4 DEF Bijection, Injection, Surjection, IsInjective
<1>4. IsFiniteSet(1 .. Len(s)) /\ Cardinality(1 .. Len(s)) = Len(s)
  BY <1>1, FS_Interval
<1> QED  BY <1>3, <1>4, FS_Bijection DEF ExistsBijection

\* topo_order raises for no workflow that V-2 and V-3 let pass: whatever the graph,
\* its order has every step, none of them twice, and each behind all the steps it
\* depends on, which is what ExecutionAssumption asks of Workflow.
THEOREM ValidatedIsOrdered ==
    ASSUME NEW steps, NEW edges, steps \in Seq(ToSet(steps)), IsValid(steps, edges)
    PROVE  LET order == TopoOrder(steps, edges) IN
           /\ IsOrdered(steps, edges)
           /\ ToSet(order) = ToSet(steps)
           /\ InOrder(steps, edges, order)
<1> DEFINE L == Len(steps)
<1>1. L \in Nat /\ DOMAIN steps = 1 .. L
  OBVIOUS
<1>2. IsFiniteSet(ToSet(steps)) /\ Cardinality(ToSet(steps)) = L
  <2>1. \A i, j \in 1 .. L : i < j => steps[i] # steps[j]
    BY <1>1 DEF IsValid, UniqueKeysAndRealEdges, IsInjective
  <2> QED  BY <2>1, Counted
<1>3. PICK order :
            /\ TopoOrder(steps, edges) = order[L]
            /\ order[0] = << >>
            /\ \A n \in Nat : n < L => order[n + 1] = Longer(steps, edges, order[n])
  BY <1>1, OrderUnfolds
<1> DEFINE P == {n \in Nat : n <= L =>
                    InOrder(steps, edges, order[n]) /\ Len(order[n]) = n}
<1>4. 0 \in P
  <2>1. << >> \in Seq(ToSet(steps)) /\ Len(<< >>) = 0 /\ 1 .. 0 = {}
    OBVIOUS
  <2>2. InOrder(steps, edges, << >>)
    BY <2>1 DEF InOrder
  <2> QED  BY <1>3, <2>1, <2>2
<1>5. ASSUME NEW n \in Nat, n \in P
      PROVE  n + 1 \in P
  <2> SUFFICES ASSUME n + 1 <= L
               PROVE  InOrder(steps, edges, order[n + 1]) /\ Len(order[n + 1]) = n + 1
    OBVIOUS
  <2>1. /\ n < L /\ InOrder(steps, edges, order[n]) /\ Len(order[n]) = n
        /\ order[n + 1] = Longer(steps, edges, order[n])
    BY <1>1, <1>3, <1>5
  <2>2. ToSet(order[n]) # ToSet(steps)
    <3>1. Cardinality(ToSet(order[n])) = n
      BY <2>1, Counted DEF InOrder
    <3> QED  BY <1>1, <1>2, <2>1, <3>1
  <2>3. ToSet(order[n]) \subseteq ToSet(steps)
    BY <2>1 DEF InOrder, ToSet
  <2>4. Ready(steps, edges, order[n]) # {}
    BY <1>1, <2>2, <2>3, SomeStepIsReady DEF IsValid
  <2> QED  BY <2>1, <2>4, LongerIsInOrder
<1>6. L \in P
  <2> HIDE DEF P
  <2> QED  BY <1>1, <1>4, <1>5, EveryNatural
<1>7. InOrder(steps, edges, order[L]) /\ Len(order[L]) = L
  BY <1>1, <1>6
<1>8. ToSet(order[L]) \subseteq ToSet(steps)
  BY <1>7 DEF InOrder, ToSet
<1>9. ToSet(order[L]) = ToSet(steps)
  <2>1. Cardinality(ToSet(order[L])) = L
    BY <1>7, Counted DEF InOrder
  <2> QED  BY <1>2, <1>8, <2>1, FS_Subset
<1> QED  BY <1>3, <1>7, <1>9 DEF IsOrdered


-----------------------------------------------------------------------------
(* Levels. *)

\* The places in the order of the parents of the step on place i.
Behind(steps, edges, order, i) ==
    {j \in 1 .. (i - 1) : order[j] \in Parents(steps, edges, order[i])}

\* One turn of the loop of topo_levels.
LevelOf(steps, edges, order, level, i) ==
    IF Behind(steps, edges, order, i) = {} THEN 1
    ELSE 1 + Max({level[j] : j \in Behind(steps, edges, order, i)})

\* The recursive function topo_levels stands for exists, and does what it says.
LEMMA LevelsUnfold ==
    ASSUME NEW steps, NEW edges, NEW L \in Nat, NEW order, Len(order) = L
    PROVE  LET level == CHOOSE f : f = [i \in 1 .. L |-> LevelOf(steps, edges, order, f, i)]
           IN  level = [i \in 1 .. L |-> LevelOf(steps, edges, order, level, i)]
<1> DEFINE F(f, i) == LevelOf(steps, edges, order, f, i)
           Upto(n) == \E f : f = [i \in 1 .. n |-> F(f, i)]
<1>1. Upto(0)
  <2> DEFINE f == [i \in 1 .. 0 |-> 1]
  <2>1. f = [i \in 1 .. 0 |-> F(f, i)]
    OBVIOUS
  <2> QED  BY <2>1
<1>2. ASSUME NEW n \in Nat, Upto(n)
      PROVE  Upto(n + 1)
  <2>1. PICK f : f = [i \in 1 .. n |-> F(f, i)]
    BY <1>2
  <2> DEFINE g == [i \in 1 .. (n + 1) |-> IF i = n + 1 THEN F(f, n + 1) ELSE f[i]]
  <2>2. ASSUME NEW i \in 1 .. (n + 1)
        PROVE  F(g, i) = F(f, i)
    <3>1. \A j \in Behind(steps, edges, order, i) : g[j] = f[j]
      BY DEF Behind
    <3>2. {g[j] : j \in Behind(steps, edges, order, i)} = {f[j] : j \in Behind(steps, edges, order, i)}
      <4> HIDE DEF g
      <4> QED  BY <3>1
    <3> HIDE DEF g
    <3> QED  BY <3>2 DEF LevelOf
  <2>3. ASSUME NEW i \in 1 .. (n + 1)
        PROVE  g[i] = F(f, i)
    <3>1. CASE i = n + 1
      BY <3>1
    <3>2. CASE i # n + 1
      <4>1. i \in 1 .. n
        BY <3>2
      <4>2. f[i] = F(f, i)
        <5> HIDE DEF F
        <5> QED  BY <2>1, <4>1
      <4>3. g[i] = f[i]
        BY <3>2
      <4> QED  BY <4>2, <4>3
    <3> QED  BY <3>1, <3>2
  <2>4. g = [i \in 1 .. (n + 1) |-> g[i]]
    OBVIOUS
  <2>5. g = [i \in 1 .. (n + 1) |-> F(g, i)]
    <3> HIDE DEF g, F
    <3> QED  BY <2>2, <2>3, <2>4
  <2> QED  BY <2>5
<1>3. Upto(L)
  <2> DEFINE P == {n \in Nat : Upto(n)}
  <2>1. 0 \in P /\ \A n \in Nat : n \in P => n + 1 \in P
    <3> HIDE DEF Upto
    <3> QED  BY <1>1, <1>2
  <2>2. \A n \in Nat : n \in P
    <3> HIDE DEF P
    <3> QED  BY <2>1, EveryNatural
  <2> QED  BY <2>2
<1> QED  BY <1>3

\* Every step of the order has a level, above those of the steps it depends on.
LEMMA LevelsRise ==
    ASSUME NEW steps, NEW edges, steps \in Seq(ToSet(steps)), IsValid(steps, edges)
    PROVE  LET level == TopoLevels(steps, edges) IN
           /\ \A k \in ToSet(steps) : level[k] \in Nat
           /\ \A k \in ToSet(steps) : \A p \in Parents(steps, edges, k) :
                p \in ToSet(steps) /\ level[p] < level[k]
<1> DEFINE order == TopoOrder(steps, edges)
           L == Len(order)
           level == CHOOSE f : f = [i \in 1 .. L |-> LevelOf(steps, edges, order, f, i)]
           place(k) == CHOOSE i \in DOMAIN order : order[i] = k
<1>1. ToSet(order) = ToSet(steps) /\ InOrder(steps, edges, order)
  BY ValidatedIsOrdered
<1>2. TopoLevels(steps, edges) = [k \in ToSet(order) |-> level[place(k)]]
  BY DEF TopoLevels, LevelOf, Behind
<1> HIDE DEF order
<1>3. L \in Nat /\ DOMAIN order = 1 .. L /\ order \in Seq(ToSet(steps))
  BY <1>1 DEF InOrder
<1>4. level = [i \in 1 .. L |-> LevelOf(steps, edges, order, level, i)]
  BY <1>3, LevelsUnfold
<1> HIDE DEF level
<1>5. \A i \in 1 .. L : level[i] = LevelOf(steps, edges, order, level, i)
  BY <1>4
<1> HIDE DEF L
\* If no earlier step is on a level beyond its place, this one is not either, and it
\* is above the steps behind it.
<1>6. ASSUME NEW i \in 1 .. L, \A j \in 1 .. (i - 1) : level[j] \in 1 .. j
      PROVE  /\ level[i] \in 1 .. i
             /\ \A j \in Behind(steps, edges, order, i) : level[j] < level[i]
  <2> DEFINE B == Behind(steps, edges, order, i)
             S == {level[j] : j \in B}
  <2>1. B \subseteq 1 .. (i - 1) /\ i \in Nat /\ i - 1 \in Nat /\ 1 <= i
    BY <1>3 DEF Behind
  <2>2. level[i] = IF B = {} THEN 1 ELSE 1 + Max(S)
    BY <1>5 DEF LevelOf
  <2>3. S \subseteq 1 .. (i - 1)
    <3> HIDE DEF B
    <3>1. \A j \in B : level[j] \in 1 .. j /\ j <= i - 1 /\ j \in Int
      BY <1>6, <2>1
    <3> QED  BY <2>1, <3>1
  <2>4. CASE B = {}
    BY <2>1, <2>2, <2>4
  <2>5. CASE B # {}
    <3>1. Max(S) \in S /\ \A s \in S : s <= Max(S)
      <4> HIDE DEF B
      <4>1. S # {}
        BY <2>5
      <4> HIDE DEF S
      <4> QED  BY <2>1, <2>3, <4>1, Greatest
    <3> HIDE DEF B
    <3>2. \A j \in B : level[j] \in S
      OBVIOUS
    <3> HIDE DEF S
    <3> DEFINE m == Max(S)
    <3>3. m \in 1 .. (i - 1) /\ level[i] = 1 + m
      BY <2>2, <2>3, <2>5, <3>1
    <3>4. \A j \in B : level[j] \in 1 .. (i - 1) /\ level[j] <= m
      BY <2>3, <3>1, <3>2
    <3> HIDE DEF m
    <3>5. level[i] \in 1 .. i /\ \A j \in B : level[j] < level[i]
      BY <2>1, <3>3, <3>4
    <3> QED  BY <3>5 DEF B
  <2> QED  BY <2>4, <2>5
<1>7. \A i \in 1 .. L : level[i] \in 1 .. i
  <2> DEFINE P == {n \in Nat : \A j \in 1 .. n : j <= L => level[j] \in 1 .. j}
  <2>1. 0 \in P
    OBVIOUS
  <2>2. ASSUME NEW n \in Nat, n \in P
        PROVE  n + 1 \in P
    <3> SUFFICES ASSUME n + 1 <= L PROVE level[n + 1] \in 1 .. (n + 1)
      BY <1>3, <2>2
    <3>1. n + 1 \in 1 .. L /\ \A j \in 1 .. ((n + 1) - 1) : level[j] \in 1 .. j
      BY <1>3, <2>2
    <3> QED  BY <1>6, <3>1
  <2>3. L \in P
    <3> HIDE DEF P
    <3> QED  BY <1>3, <2>1, <2>2, EveryNatural
  <2> QED  BY <1>3, <2>3
<1>8. ASSUME NEW k \in ToSet(steps)
      PROVE  place(k) \in 1 .. L /\ order[place(k)] = k
  BY <1>1, <1>3, <1>8 DEF ToSet
<1>9. ASSUME NEW k \in ToSet(steps), NEW p \in Parents(steps, edges, k)
      PROVE  p \in ToSet(steps) /\ level[place(p)] < level[place(k)]
  <2>1. p \in ToSet(steps)
    BY DEF Parents
  <2>2. /\ place(p) \in 1 .. L /\ order[place(p)] = p
        /\ place(k) \in 1 .. L /\ order[place(k)] = k
    BY <1>8, <2>1
  <2> HIDE DEF place
  <2>3. PICK j \in 1 .. (place(k) - 1) : order[j] = p
    BY <1>1, <2>2 DEF InOrder, L
  <2>4. j \in 1 .. L /\ j = place(p)
    <3>1. j \in 1 .. L
      BY <1>3, <2>2
    <3> QED  BY <1>1, <1>3, <2>2, <2>3, <3>1 DEF InOrder, L
  <2>5. place(p) \in Behind(steps, edges, order, place(k))
    BY <2>2, <2>3, <2>4 DEF Behind
  <2> QED  BY <1>6, <1>7, <2>1, <2>2, <2>5, <1>3
<1>10. \A k \in ToSet(steps) : TopoLevels(steps, edges)[k] = level[place(k)]
  BY <1>1, <1>2
<1>11. \A k \in ToSet(steps) : level[place(k)] \in Nat
  BY <1>3, <1>7, <1>8
<1> HIDE DEF place
<1> QED  BY <1>9, <1>10, <1>11

-----------------------------------------------------------------------------
(* The order in which a workflow is kept. *)

\* The step on place j comes before the one on place i.
InFront(steps, level, j, i) ==
    \/ level[steps[j]] < level[steps[i]]
    \/ level[steps[j]] = level[steps[i]] /\ j < i

Ahead(steps, level, i) == {j \in DOMAIN steps : InFront(steps, level, j, i)}

\* Sorting is a permutation of the places.
LEMMA SortedPlaces ==
    ASSUME NEW steps, steps \in Seq(ToSet(steps)), NEW level,
           \A k \in ToSet(steps) : level[k] \in Nat
    PROVE  \E place \in [1 .. Len(steps) -> 1 .. Len(steps)] :
            /\ \A n \in 1 .. Len(steps) : place[n] =
                CHOOSE i \in DOMAIN steps : Cardinality(Ahead(steps, level, i)) = n - 1
            /\ \A i \in 1 .. Len(steps) : \E n \in 1 .. Len(steps) : place[n] = i
            /\ \A m, n \in 1 .. Len(steps) :
                m < n => InFront(steps, level, place[m], place[n])
<1> DEFINE L == Len(steps)
           D == 1 .. L
           ahead(i) == Ahead(steps, level, i)
           count(i) == Cardinality(ahead(i))
<1>1. L \in Nat /\ DOMAIN steps = D /\ IsFiniteSet(D) /\ Cardinality(D) = L
  <2>1. L \in Nat /\ DOMAIN steps = D
    OBVIOUS
  <2> QED  BY <2>1, FS_Interval
<1> HIDE DEF L
<1>2. \A i \in D : level[steps[i]] \in Nat
  BY <1>1 DEF ToSet
<1>3. \A i, j \in D : i # j => InFront(steps, level, i, j) \/ InFront(steps, level, j, i)
  BY <1>1, <1>2 DEF InFront
<1>4. \A i, j \in D : ~(InFront(steps, level, i, j) /\ InFront(steps, level, j, i))
  BY <1>1, <1>2 DEF InFront
<1>5. \A i, j, k \in D :
        InFront(steps, level, i, j) /\ InFront(steps, level, j, k) => InFront(steps, level, i, k)
  BY <1>1, <1>2 DEF InFront
<1>6. ASSUME NEW i \in D
      PROVE  IsFiniteSet(ahead(i)) /\ count(i) \in 0 .. (L - 1)
  <2>1. ahead(i) \subseteq D /\ i \notin ahead(i)
    BY <1>1, <1>4 DEF Ahead
  <2>2. /\ IsFiniteSet(ahead(i)) /\ count(i) <= L
        /\ count(i) = L => D = ahead(i)
    BY <1>1, <2>1, FS_Subset
  <2>3. count(i) \in Nat
    BY <2>2, FS_CardinalityType
  <2> QED  BY <1>1, <2>1, <2>2, <2>3
<1>7. ASSUME NEW i \in D, NEW j \in D, InFront(steps, level, i, j)
      PROVE  count(i) < count(j)
  <2>1. ahead(i) \subseteq ahead(j)
    BY <1>1, <1>5, <1>7 DEF Ahead
  <2>2. i \in ahead(j) /\ i \notin ahead(i)
    BY <1>1, <1>4, <1>7 DEF Ahead
  <2>3. IsFiniteSet(ahead(j)) /\ count(i) \in Nat /\ count(j) \in Nat
    BY <1>6
  <2>4. count(i) <= count(j) /\ count(i) # count(j)
    <3> HIDE DEF ahead
    <3> QED  BY <2>1, <2>2, <2>3, FS_Subset
  <2> QED  BY <2>3, <2>4
<1> DEFINE rank == [i \in D |-> count(i) + 1]
<1>8. rank \in Injection(D, D)
  <2> HIDE DEF count
  <2>1. \A i \in D : count(i) + 1 \in D
    BY <1>1, <1>6
  <2>2. \A i, j \in D : count(i) + 1 = count(j) + 1 => i = j
    <3>1. \A i \in D : count(i) \in Nat
      BY <1>6, <1>1
    <3> QED  BY <1>3, <1>7, <3>1
  <2> QED  BY <2>1, <2>2 DEF Injection, IsInjective
<1>9. rank \in Surjection(D, D)
  <2> HIDE DEF rank
  <2> QED  BY <1>1, <1>8, FS_Injection
<1>10. ASSUME NEW n \in D
       PROVE  \E i \in D : count(i) = n - 1
  <2>1. PICK i \in D : rank[i] = n
    BY <1>9 DEF Surjection
  <2> QED  BY <1>1, <1>6, <2>1
<1> DEFINE place == [n \in D |-> CHOOSE i \in DOMAIN steps : count(i) = n - 1]
<1>11. \A n \in D : place[n] \in D /\ count(place[n]) = n - 1
  <2> HIDE DEF count
  <2> QED  BY <1>1, <1>10
<1>12. place \in [D -> D]
  BY <1>11
<1>13. ASSUME NEW i \in D
       PROVE  \E n \in D : place[n] = i
  <2> DEFINE n == count(i) + 1
  <2>1. n \in D /\ count(i) = n - 1
    BY <1>1, <1>6
  <2> HIDE DEF n, place
  <2>2. place[n] \in D /\ count(place[n]) = count(i)
    BY <1>11, <2>1
  <2>3. place[n] = i
    <3>1. \A j \in D : count(j) \in Int
      BY <1>6, <1>1
    <3> HIDE DEF count
    <3> QED  BY <1>3, <1>7, <2>2, <3>1
  <2> QED  BY <2>1, <2>3
<1>14. ASSUME NEW m \in D, NEW n \in D, m < n
       PROVE  InFront(steps, level, place[m], place[n])
  <2> HIDE DEF place, count
  <2>1. /\ place[m] \in D /\ count(place[m]) = m - 1
        /\ place[n] \in D /\ count(place[n]) = n - 1
    BY <1>11
  <2>2. place[m] # place[n] /\ ~(count(place[n]) < count(place[m]))
    BY <1>1, <1>14, <2>1
  <2> QED  BY <1>3, <1>7, <2>1, <2>2
<1>15. \A n \in D : place[n] = CHOOSE i \in DOMAIN steps : Cardinality(Ahead(steps, level, i)) = n - 1
  OBVIOUS
<1> HIDE DEF place
<1> QED  BY <1>12, <1>13, <1>14, <1>15 DEF L

\* What is in order is the order topo_order gives.
LEMMA InOrderIsKept ==
    ASSUME NEW steps, NEW edges, steps \in Seq(ToSet(steps)), InOrder(steps, edges, steps)
    PROVE  TopoOrder(steps, edges) = steps
<1> DEFINE L == Len(steps)
<1>1. L \in Nat /\ DOMAIN steps = 1 .. L
  OBVIOUS
<1>2. PICK order :
            /\ TopoOrder(steps, edges) = order[L]
            /\ order[0] = << >>
            /\ \A n \in Nat : n < L => order[n + 1] = Longer(steps, edges, order[n])
  BY <1>1, OrderUnfolds
<1> DEFINE first(n) == [i \in 1 .. n |-> steps[i]]
           P == {n \in Nat : n <= L => order[n] = first(n)}
<1>3. 0 \in P
  <2>1. first(0) = << >>
    OBVIOUS
  <2> QED  BY <1>2, <2>1
<1>4. ASSUME NEW n \in Nat, n \in P
      PROVE  n + 1 \in P
  <2> SUFFICES ASSUME n + 1 <= L
               PROVE  order[n + 1] = first(n + 1)
    OBVIOUS
  <2> DEFINE done == first(n)
             ready == Ready(steps, edges, done)
  <2>1. order[n + 1] = Longer(steps, edges, done)
    BY <1>1, <1>2, <1>4
  <2>2. ToSet(done) = {steps[i] : i \in 1 .. n}
    BY DEF ToSet
  <2>3. n + 1 \in 1 .. L /\ 1 .. n \subseteq 1 .. L
    BY <1>1
  <2>4. n + 1 \in ready
    <3>1. steps[n + 1] \notin ToSet(done)
      BY <2>2, <2>3 DEF InOrder
    <3>2. Parents(steps, edges, steps[n + 1]) \subseteq {steps[i] : i \in 1 .. ((n + 1) - 1)}
      BY <2>3 DEF InOrder
    <3>3. (n + 1) - 1 = n
      OBVIOUS
    <3> HIDE DEF done
    <3> QED  BY <1>1, <2>2, <2>3, <3>1, <3>2, <3>3 DEF Ready
  <2>5. \A i \in ready : n + 1 <= i
    <3> SUFFICES ASSUME NEW i \in ready, ~(n + 1 <= i) PROVE FALSE
      OBVIOUS
    <3>1. i \in 1 .. L /\ steps[i] \notin ToSet(done)
      BY <1>1 DEF Ready
    <3>2. i \in 1 .. n
      BY <1>1, <3>1
    <3> QED  BY <2>2, <3>1, <3>2
  <2>6. Min(ready) = n + 1
    <3> DEFINE m == CHOOSE x \in ready : \A y \in ready : x <= y
    <3>1. m \in ready /\ m <= n + 1
      <4>1. \E x \in ready : \A y \in ready : x <= y
        BY <2>4, <2>5
      <4> HIDE DEF ready
      <4> QED  BY <2>4, <4>1
    <3>2. m \in Int
      BY <1>1, <3>1 DEF Ready
    <3> HIDE DEF ready
    <3>3. m = n + 1
      <4>1. n + 1 <= m
        BY <2>5, <3>1
      <4> HIDE DEF m
      <4> QED  BY <3>1, <3>2, <4>1
    <3> QED  BY <3>3 DEF Min
  <2>7. Longer(steps, edges, done) = Append(done, steps[n + 1])
    BY <2>4, <2>6 DEF Longer
  <2>8. Append(done, steps[n + 1]) = first(n + 1)
    <3>1. done \in Seq(ToSet(steps)) /\ Len(done) = n /\ steps[n + 1] \in ToSet(steps)
      <4>1. \A i \in 1 .. n : steps[i] \in ToSet(steps)
        BY <1>1, <2>3 DEF ToSet
      <4>2. steps[n + 1] \in ToSet(steps)
        BY <1>1, <2>3 DEF ToSet
      <4> QED  BY <4>1, <4>2, SeqDef
    <3>2. /\ Len(Append(done, steps[n + 1])) = n + 1
          /\ Append(done, steps[n + 1]) \in Seq(ToSet(steps))
          /\ \A i \in 1 .. (n + 1) : Append(done, steps[n + 1])[i] = first(n + 1)[i]
      BY <3>1
    <3>3. Append(done, steps[n + 1]) = [i \in 1 .. (n + 1) |-> Append(done, steps[n + 1])[i]]
      <4> HIDE DEF done
      <4> QED  BY <3>2
    <3> HIDE DEF done
    <3> QED  BY <3>2, <3>3
  <2> QED  BY <2>1, <2>7, <2>8
<1>5. L \in P
  <2> HIDE DEF P
  <2> QED  BY <1>1, <1>3, <1>4, EveryNatural
<1>6. first(L) = steps
  BY <1>1
<1> QED  BY <1>1, <1>2, <1>5, <1>6

\* However the steps of a validated workflow were declared, the workflow keeps each of
\* them once, behind the steps it depends on, and is executed in that order.
THEOREM KeptIsExecuted ==
    ASSUME NEW steps, NEW edges, steps \in Seq(ToSet(steps)), IsValid(steps, edges)
    PROVE  LET kept == Stored(steps, edges) IN
           /\ ToSet(kept) = ToSet(steps) /\ Len(kept) = Len(steps)
           /\ InOrder(kept, edges, kept)
           /\ TopoOrder(kept, edges) = kept
<1> DEFINE L == Len(steps)
           level == TopoLevels(steps, edges)
           kept == Stored(steps, edges)
<1>1. L \in Nat /\ DOMAIN steps = 1 .. L
  OBVIOUS
<1>2. /\ \A k \in ToSet(steps) : level[k] \in Nat
      /\ \A k \in ToSet(steps) : \A p \in Parents(steps, edges, k) :
            p \in ToSet(steps) /\ level[p] < level[k]
  BY LevelsRise
<1>3. kept = [n \in DOMAIN steps |->
                steps[CHOOSE i \in DOMAIN steps : Cardinality(Ahead(steps, level, i)) = n - 1]]
  BY DEF Stored, Ahead, InFront
<1> HIDE DEF level, kept
<1>4. PICK place \in [1 .. L -> 1 .. L] :
            /\ \A n \in 1 .. L : place[n] =
                CHOOSE i \in DOMAIN steps : Cardinality(Ahead(steps, level, i)) = n - 1
            /\ \A i \in 1 .. L : \E n \in 1 .. L : place[n] = i
            /\ \A m, n \in 1 .. L : m < n => InFront(steps, level, place[m], place[n])
  BY <1>2, SortedPlaces
<1>5. kept = [n \in 1 .. L |-> steps[place[n]]]
  BY <1>1, <1>3, <1>4
<1>6. \A n \in 1 .. L : /\ place[n] \in 1 .. L /\ kept[n] = steps[place[n]]
                        /\ kept[n] \in ToSet(steps)
  BY <1>1, <1>4, <1>5 DEF ToSet
<1>7. kept \in Seq(ToSet(steps)) /\ Len(kept) = L /\ DOMAIN kept = 1 .. L
  <2>1. kept \in [1 .. L -> ToSet(steps)]
    BY <1>5, <1>6
  <2> QED  BY <1>1, <2>1, SeqDef
<1>8. ToSet(kept) = ToSet(steps)
  <2>1. ASSUME NEW k \in ToSet(steps)
        PROVE  k \in ToSet(kept)
    <3>1. PICK i \in 1 .. L : k = steps[i]
      BY <1>1 DEF ToSet
    <3>2. PICK n \in 1 .. L : place[n] = i
      BY <1>4
    <3> QED  BY <1>6, <1>7, <3>1, <3>2 DEF ToSet
  <2>2. ToSet(kept) = {kept[n] : n \in 1 .. L}
    BY <1>7 DEF ToSet
  <2>3. ToSet(kept) \subseteq ToSet(steps)
    BY <1>6, <2>2
  <2> QED  BY <2>1, <2>3
<1>9. \A k : Parents(kept, edges, k) = Parents(steps, edges, k)
  BY <1>8 DEF Parents
<1>10. InOrder(kept, edges, kept)
  <2>1. \A m, n \in 1 .. L : m < n => kept[m] # kept[n]
    <3> SUFFICES ASSUME NEW m \in 1 .. L, NEW n \in 1 .. L, m < n PROVE kept[m] # kept[n]
      OBVIOUS
    <3>1. InFront(steps, level, place[m], place[n])
      BY <1>4
    <3>2. place[m] # place[n]
      BY <1>2, <1>6, <3>1 DEF InFront
    <3>3. IsInjective(steps)
      BY DEF IsValid, UniqueKeysAndRealEdges
    <3> QED  BY <1>1, <1>6, <3>2, <3>3 DEF IsInjective
  <2>2. ASSUME NEW n \in 1 .. L, NEW p \in Parents(steps, edges, kept[n])
        PROVE  p \in {kept[m] : m \in 1 .. (n - 1)}
    <3>1. p \in ToSet(kept) /\ level[p] < level[kept[n]] /\ level[p] \in Nat
      BY <1>2, <1>6, <1>8
    <3>2. PICK m \in 1 .. L : p = kept[m]
      BY <1>7, <3>1 DEF ToSet
    <3>3. ~(n < m) /\ m # n
      <4>1. n < m => InFront(steps, level, place[n], place[m])
        BY <1>4
      <4>2. level[kept[n]] \in Nat
        BY <1>2, <1>6
      <4>3. kept[n] = steps[place[n]] /\ p = steps[place[m]]
        BY <1>6, <3>2
      <4>4. ~InFront(steps, level, place[n], place[m])
        BY <3>1, <4>2, <4>3 DEF InFront
      <4>5. level[kept[n]] # level[p]
        BY <3>1, <4>2
      <4> QED  BY <3>2, <4>1, <4>4, <4>5
    <3> QED  BY <1>1, <3>2, <3>3
  <2> QED  BY <1>7, <1>8, <1>9, <2>1, <2>2 DEF InOrder
<1>11. TopoOrder(kept, edges) = kept
  BY <1>7, <1>8, <1>10, InOrderIsKept
<1> QED  BY <1>7, <1>8, <1>10, <1>11 DEF kept

-----------------------------------------------------------------------------
(* The steps of Next. *)

LEMMA SyncKeepsRows ==
    ASSUME NEW emp, NEW versions \in [Versions -> WorkflowRow]
    PROVE  /\ SyncScheduleEnabled(emp, versions) \in [Versions -> WorkflowRow]
           /\ \A v \in Versions :
                /\ SyncScheduleEnabled(emp, versions)[v].status = versions[v].status
                /\ SyncScheduleEnabled(emp, versions)[v].spec = versions[v].spec
                /\ SyncScheduleEnabled(emp, versions)[v].enabled
                        <=> emp.status = "active" /\ v = emp.current
    BY DEF SyncScheduleEnabled, WorkflowRow

LEMMA ArchiveKeepsRows ==
    ASSUME TypeOK, NEW v \in Versions
    PROVE  /\ ArchiveOthers(v) \in [Versions -> WorkflowRow]
           /\ \A w \in Versions :
                /\ ArchiveOthers(v)[w].spec = workflow[w].spec
                /\ ArchiveOthers(v)[w].status =
                        IF w # v /\ workflow[w].status \in {"approved", "pending"}
                        THEN "archived" ELSE workflow[w].status
    BY DEF TypeOK, ArchiveOthers, WorkflowRow, WorkflowStatus

LEMMA Initially == Init => IInv
    BY EmployeesAssumption DEF Init, IInv, TypeOK, CurrentIsApproved, EnabledIfActive,
        SavedInOrder, DraftsAreNewer, NothingYet, SavedIsValid, TriggersAreKnown, Scheduled, NoWorkflow,
        EmployeeStatus, WorkflowStatus

\* A version is saved: its row is the only one that changes.
LEMMA SavedVersion ==
    ASSUME IInv, NEW v \in Versions, NEW spec \in Offered[v], SaveNewVersion(v, spec)
    PROVE  /\ workflow' \in [Versions -> WorkflowRow]
           /\ workflow[v].status = "absent"
           /\ workflow'[v].status = "pending" /\ workflow'[v].enabled = FALSE
           /\ workflow'[v].spec \in Valid
           /\ \A w \in Versions : w # v => workflow'[w] = workflow[w]
           /\ \A w \in Versions : w < v => workflow[w].status # "absent"
    BY DEF IInv, TypeOK, SaveNewVersion, WorkflowRow, WorkflowStatus, Specs

LEMMA SavePreserves ==
    ASSUME IInv, NEW v \in Versions, NEW spec \in Offered[v], SaveNewVersion(v, spec),
           UNCHANGED << run, wanted, jobs, due, restarts >>,
           \/ UNCHANGED employee /\ employee.status # "absent"
           \/ employee' = [employee EXCEPT !.status = "draft"] /\ employee.status = "absent"
    PROVE  IInv'
<1>0. /\ workflow[v].status = "absent" /\ workflow'[v].status = "pending"
      /\ \A w \in Versions : w # v => workflow'[w] = workflow[w]
    BY SavedVersion
<1>1. /\ employee' \in [status : EmployeeStatus, current : Versions \cup {None}]
      /\ employee'.current = employee.current
      /\ employee'.status # "absent"
      /\ employee'.status = "active" => employee.status = "active"
      /\ employee.status = "active" => employee'.status = "active"
    BY DEF IInv, TypeOK, EmployeeStatus
<1>2. TypeOK'
    BY <1>1, SavedVersion DEF IInv, TypeOK, WorkflowRow
<1>3. employee.current # v
    BY <1>0, EmployeesAssumption DEF IInv, CurrentIsApproved
<1>4. CurrentIsApproved'
    <2>1. \A w \in Versions : workflow'[w].status = "approved" <=> workflow[w].status = "approved"
        BY <1>0
    <2> QED BY <1>1, <2>1 DEF IInv, CurrentIsApproved
<1>5. EnabledIfActive'
    BY <1>1, <1>3, SavedVersion DEF IInv, EnabledIfActive
<1>6. SavedInOrder'
    BY SavedVersion, EmployeesAssumption DEF IInv, SavedInOrder
<1>7. DraftsAreNewer'
    BY <1>1, SavedVersion DEF IInv, DraftsAreNewer
<1>8. NothingYet'
    BY <1>1 DEF NothingYet
<1>9. ASSUME NEW w, NEW trigger, Scheduled(w, trigger), w \in Versions PROVE Scheduled(w, trigger)'
    BY <1>0, <1>9 DEF Scheduled
<1>10. TriggersAreKnown'
    BY <1>9 DEF IInv, TypeOK, TriggersAreKnown
<1>11. SavedIsValid'
    BY SavedVersion DEF IInv, SavedIsValid, Valid
<1> QED BY <1>2, <1>4, <1>5, <1>6, <1>7, <1>8, <1>10, <1>11 DEF IInv

LEMMA ApprovePreserves ==
    ASSUME IInv, NEW v \in Versions, Approve(v)
    PROVE  IInv'
<1> DEFINE approved == [ArchiveOthers(v) EXCEPT ![v].status = "approved"]
<1>1. /\ approved \in [Versions -> WorkflowRow]
      /\ approved[v].status = "approved"
      /\ \A w \in Versions : approved[w].spec = workflow[w].spec
      /\ \A w \in Versions : w # v => approved[w].status =
            IF workflow[w].status \in {"approved", "pending"} THEN "archived" ELSE workflow[w].status
    BY ArchiveKeepsRows DEF IInv, WorkflowRow, WorkflowStatus
<1>2. /\ workflow' \in [Versions -> WorkflowRow]
      /\ workflow'[v].status = "approved"
      /\ \A w \in Versions : workflow'[w].spec = workflow[w].spec
      /\ \A w \in Versions : w # v => workflow'[w].status =
            IF workflow[w].status \in {"approved", "pending"} THEN "archived" ELSE workflow[w].status
      /\ \A w \in Versions :
            workflow'[w].enabled <=> employee'.status = "active" /\ w = employee'.current
    <2> HIDE DEF approved
    <2>1. workflow' = SyncScheduleEnabled(employee', approved)
        BY DEF Approve, approved
    <2>2. /\ workflow' \in [Versions -> WorkflowRow]
          /\ \A w \in Versions :
                /\ workflow'[w].status = approved[w].status
                /\ workflow'[w].spec = approved[w].spec
                /\ workflow'[w].enabled <=> employee'.status = "active" /\ w = employee'.current
        BY <1>1, <2>1, SyncKeepsRows
    <2> QED BY <1>1, <2>2
<1>3. /\ employee' \in [status : EmployeeStatus, current : Versions \cup {None}]
      /\ employee'.current = v
      /\ employee'.status # "absent"
    BY DEF Approve, IInv, TypeOK, NothingYet, EmployeeStatus
<1>4. UNCHANGED << run, wanted, jobs, due, restarts >> /\ workflow[v].status # "absent"
    BY DEF Approve
<1> HIDE DEF approved
<1>5. TypeOK'
    BY <1>2, <1>3, <1>4 DEF IInv, TypeOK, WorkflowRow
<1>6. CurrentIsApproved'
    <2>1. \A w \in Versions : workflow'[w].status = "approved" <=> w = v
        BY <1>2
    <2>2. v # None
        BY EmployeesAssumption
    <2>3. {w \in Versions : workflow'[w].status = "approved"} = {v} \ {None}
        BY <2>1, <2>2
    <2> QED BY <1>3, <2>2, <2>3 DEF CurrentIsApproved
<1>7. EnabledIfActive'
    BY <1>2 DEF EnabledIfActive
<1>8. \A w \in Versions : workflow'[w].status = "absent" <=> workflow[w].status = "absent"
    BY <1>2, <1>4
<1>9. SavedInOrder'
    BY <1>8 DEF IInv, SavedInOrder
<1>10. DraftsAreNewer'
    <2> SUFFICES ASSUME NEW w \in Versions, workflow'[w].status \in {"absent", "pending"}
                 PROVE  w > v
        BY <1>3 DEF DraftsAreNewer
    <2>1. w # v /\ workflow[w].status = "absent"
        BY <1>2
    <2>2. ~(w < v)
        BY <2>1, <1>4 DEF IInv, SavedInOrder
    <2> QED BY <2>1, <2>2, EmployeesAssumption
<1>11. NothingYet'
    BY <1>3 DEF NothingYet
<1>12. ASSUME NEW w, NEW trigger, Scheduled(w, trigger), w \in Versions PROVE Scheduled(w, trigger)'
    BY <1>2, <1>8, <1>12 DEF Scheduled
<1>13. TriggersAreKnown'
    BY <1>4, <1>12 DEF IInv, TypeOK, TriggersAreKnown
<1>14. SavedIsValid'
    BY <1>2, <1>8 DEF IInv, SavedIsValid, Valid
<1> QED BY <1>5, <1>6, <1>7, <1>9, <1>10, <1>11, <1>13, <1>14 DEF IInv

\* What SetStatus and Archive have in common.
ChangeStatus(status) ==
    /\ employee.status # "absent"
    /\ status = "active" => employee.current # None
    /\ employee' = [employee EXCEPT !.status = status]
    /\ workflow' = SyncScheduleEnabled(employee', workflow)
    /\ UNCHANGED << run, wanted, jobs, due, restarts >>

\* A change of status leaves the versions as they are, but for the flag.
LEMMA StatusPreserves ==
    ASSUME IInv, NEW status \in {"active", "paused", "archived"}, ChangeStatus(status)
    PROVE  IInv'
<1>1. /\ workflow' \in [Versions -> WorkflowRow]
      /\ \A w \in Versions : /\ workflow'[w].status = workflow[w].status
                             /\ workflow'[w].spec = workflow[w].spec
                             /\ workflow'[w].enabled
                                    <=> employee'.status = "active" /\ w = employee'.current
    <2>1. workflow \in [Versions -> WorkflowRow]
        BY DEF IInv, TypeOK, WorkflowRow
    <2>2. workflow' = SyncScheduleEnabled(employee', workflow)
        BY DEF ChangeStatus
    <2> QED BY <2>1, <2>2, SyncKeepsRows
<1>2. /\ employee' \in [status : EmployeeStatus, current : Versions \cup {None}]
      /\ employee'.current = employee.current
      /\ employee'.status = status /\ employee.status # "absent"
    BY DEF ChangeStatus, IInv, TypeOK, EmployeeStatus
<1>3. TypeOK'
    BY <1>1, <1>2 DEF ChangeStatus, IInv, TypeOK, WorkflowRow
<1>4. CurrentIsApproved'
    BY <1>1, <1>2 DEF ChangeStatus, IInv, CurrentIsApproved
<1>5. EnabledIfActive'
    BY <1>1 DEF EnabledIfActive
<1>6. SavedInOrder' /\ DraftsAreNewer' /\ NothingYet'
    BY <1>1, <1>2 DEF IInv, SavedInOrder, DraftsAreNewer, NothingYet
<1>7. ASSUME NEW w, NEW trigger, Scheduled(w, trigger), w \in Versions PROVE Scheduled(w, trigger)'
    BY <1>1, <1>7 DEF Scheduled
<1>8. TriggersAreKnown'
    BY <1>7 DEF ChangeStatus, IInv, TypeOK, TriggersAreKnown
<1>9. SavedIsValid'
    BY <1>1 DEF IInv, SavedIsValid, Valid
<1> QED BY <1>3, <1>4, <1>5, <1>6, <1>8, <1>9 DEF IInv

\* What does not touch the employee and its versions need only keep the rest.
LEMMA OthersPreserve ==
    ASSUME IInv, UNCHANGED << employee, workflow >>,
           TypeOK', TriggersAreKnown'
    PROVE  IInv'
    BY DEF IInv, CurrentIsApproved, EnabledIfActive, SavedInOrder, DraftsAreNewer, NothingYet,
        SavedIsValid, Valid

\* A scheduled run is of the version whose schedule it was, which is approved.
LEMMA ScheduledRun ==
    ASSUME IInv, NEW v \in Versions, NEW trigger \in {"cron", "file_watch"},
           CreateScheduledRun(v, trigger), StillWanted(v)
    PROVE  /\ employee.current = v
           /\ workflow[v].status = "approved"
           /\ workflow[v].spec.trigger = trigger
<1>1. employee.current = v
    BY DEF StillWanted
<1>2. workflow[v].status = "approved"
    BY <1>1, EmployeesAssumption DEF IInv, CurrentIsApproved
<1>3. Scheduled(v, trigger)
    BY DEF CreateScheduledRun, IInv, TriggersAreKnown
<1> QED BY <1>1, <1>2, <1>3 DEF Scheduled

LEMMA RunType ==
    ASSUME IInv, MayCreateRun, NEW trigger \in {"manual", "cron", "file_watch"}
    PROVE  NewRun(trigger) \in [version : Versions \cup {None},
                                trigger : {"manual", "cron", "file_watch"}, active : BOOLEAN]
    BY DEF IInv, TypeOK, MayCreateRun, NewRun

LEMMA Inductive == IInv /\ [Next]_vars => IInv'
<1> SUFFICES ASSUME IInv, [Next]_vars PROVE IInv'
    OBVIOUS
<1>1. CASE \E v \in Versions : \E spec \in Offered[v] : Create(v, spec) \/ UpdateWorkflow(v, spec)
    BY <1>1, SavePreserves DEF Create, UpdateWorkflow
<1>2. CASE \E v \in Versions : Approve(v)
    BY <1>2, ApprovePreserves
<1>3. CASE (\E status \in {"active", "paused", "archived"} : SetStatus(status)) \/ Archive
    BY <1>3, StatusPreserves DEF SetStatus, Archive, ChangeStatus
<1>4. CASE TriggerRun \/ RunEndsOrResumes
    <2>1. TypeOK'
        BY <1>4, RunType DEF TriggerRun, RunEndsOrResumes, IInv, TypeOK
    <2>2. TriggersAreKnown'
        BY <1>4 DEF TriggerRun, RunEndsOrResumes, IInv, TriggersAreKnown, Scheduled
    <2> QED BY <1>4, <2>1, <2>2, OthersPreserve DEF TriggerRun, RunEndsOrResumes
<1>5. CASE ReadSchedules
    <2>1. TypeOK'
        BY <1>5 DEF ReadSchedules, ActiveSchedules, IInv, TypeOK
    <2>2. \A v \in ActiveSchedules("cron") : Scheduled(v, "cron")
        BY EmployeesAssumption DEF ActiveSchedules, Scheduled, IInv, CurrentIsApproved
    <2>3. TriggersAreKnown'
        BY <1>5, <2>2 DEF ReadSchedules, IInv, TriggersAreKnown, Scheduled
    <2> QED BY <1>5, <2>1, <2>3, OthersPreserve DEF ReadSchedules
<1>6. CASE RegisterJobs
    <2>1. TypeOK'
        BY <1>6 DEF RegisterJobs, Registered, IInv, TypeOK
    <2>2. TriggersAreKnown'
        BY <1>6 DEF RegisterJobs, Registered, IInv, TriggersAreKnown, Scheduled
    <2> QED BY <1>6, <2>1, <2>2, OthersPreserve DEF RegisterJobs
<1>7. CASE \E v \in Versions : CronFires(v) \/ WatchFolders(v)
    <2> PICK v \in Versions : CronFires(v) \/ WatchFolders(v)
        BY <1>7
    <2>1. TypeOK'
        BY DEF CronFires, WatchFolders, IInv, TypeOK
    <2>2. WatchFolders(v) => Scheduled(v, "file_watch")
        BY EmployeesAssumption
        DEF WatchFolders, ActiveSchedules, Scheduled, IInv, CurrentIsApproved
    <2>3. TriggersAreKnown'
        BY <2>2 DEF CronFires, WatchFolders, IInv, TriggersAreKnown, Scheduled
    <2> QED BY <2>1, <2>3, OthersPreserve DEF CronFires, WatchFolders
<1>8. CASE \E v \in Versions, trigger \in {"cron", "file_watch"} : CreateScheduledRun(v, trigger)
    <2> PICK v \in Versions, trigger \in {"cron", "file_watch"} : CreateScheduledRun(v, trigger)
        BY <1>8
    <2>1. TypeOK'
        BY RunType DEF CreateScheduledRun, IInv, TypeOK
    <2>2. TriggersAreKnown'
        BY DEF CreateScheduledRun, IInv, TriggersAreKnown, Scheduled
    <2> QED BY <2>1, <2>2, OthersPreserve DEF CreateScheduledRun
<1>9. CASE Restart
    <2>1. TypeOK'
        BY <1>9, EmployeesAssumption DEF Restart, IInv, TypeOK
    <2>2. TriggersAreKnown'
        BY <1>9 DEF Restart, TriggersAreKnown
    <2> QED BY <1>9, <2>1, <2>2, OthersPreserve DEF Restart
<1>10. CASE UNCHANGED vars
    BY <1>10 DEF vars, IInv, TypeOK, CurrentIsApproved, EnabledIfActive, SavedInOrder,
        DraftsAreNewer, NothingYet, SavedIsValid, Valid, TriggersAreKnown, Scheduled
<1> QED BY <1>1, <1>2, <1>3, <1>4, <1>5, <1>6, <1>7, <1>8, <1>9, <1>10 DEF Next

\* IInv holds in every state.
THEOREM Invariance == Spec => []IInv
    BY Initially, Inductive, PTL DEF Spec

\* The rows keep their columns, for any number of versions and any
\* specifications.
THEOREM TypeCorrect == Spec => []TypeOK
<1>1. IInv => TypeOK
    BY DEF IInv
<1> QED BY <1>1, Invariance, PTL

\* However drafts are saved, approved and archived, the version the employee
\* points at is its only approved one.
THEOREM ApprovedIsCurrent == Spec => []CurrentIsApproved
<1>1. IInv => CurrentIsApproved
    BY DEF IInv
<1> QED BY <1>1, Invariance, PTL

\* The flags of the schedules are never out of step with the employee.
THEOREM EnabledFollows == Spec => []EnabledIfActive
<1>1. IInv => EnabledIfActive
    BY DEF IInv
<1> QED BY <1>1, Invariance, PTL

\* No approval goes back to a version older than the current one.
THEOREM ApprovalsAdvance == Spec => CurrentAdvances
<1>1. IInv /\ [Next]_vars =>
        [employee'.current # employee.current =>
            employee.current = None \/ employee'.current > employee.current]_employee
    <2> SUFFICES ASSUME IInv, [Next]_vars, employee'.current # employee.current,
                        employee.current # None
                 PROVE  employee'.current > employee.current
        OBVIOUS
    <2>1. PICK v \in Versions : Approve(v)
        BY DEF Next, vars, Create, UpdateWorkflow, SetStatus, Archive, TriggerRun,
            RunEndsOrResumes, ReadSchedules, RegisterJobs, CronFires, WatchFolders,
            CreateScheduledRun, Restart, IInv, TypeOK
    <2>2. employee'.current = v
        BY <2>1 DEF Approve
    <2>3. workflow[v].status = "pending"
        BY <2>1, <2>2, EmployeesAssumption DEF Approve, IInv, CurrentIsApproved
    <2> QED BY <2>2, <2>3 DEF IInv, DraftsAreNewer
<1> QED BY <1>1, Invariance, PTL DEF Spec, CurrentAdvances

\* Whatever the scheduler read, and however late it acts on it, the run it makes
\* is of the approved version, by that version's own trigger.
THEOREM ScheduledRunsApproved == Spec => FiresWhatIsApproved
<1>1. IInv /\ [Next]_vars =>
        [(run' # run /\ run'.active /\ ~run.active /\ due' # due) =>
            /\ workflow[run'.version].status = "approved"
            /\ workflow[run'.version].spec.trigger = run'.trigger
            /\ employee.status = "active"]_vars
    <2> SUFFICES ASSUME IInv, [Next]_vars, run' # run, due' # due
                 PROVE  /\ workflow[run'.version].status = "approved"
                        /\ workflow[run'.version].spec.trigger = run'.trigger
                        /\ employee.status = "active"
        OBVIOUS
    <2>1. PICK v \in Versions, trigger \in {"cron", "file_watch"} : CreateScheduledRun(v, trigger)
        BY DEF Next, vars, Create, UpdateWorkflow, Approve, SetStatus, Archive, TriggerRun,
            RunEndsOrResumes, ReadSchedules, RegisterJobs, CronFires, WatchFolders, Restart
    <2>2. StillWanted(v) /\ run' = NewRun(trigger)
        BY <2>1 DEF CreateScheduledRun
    <2>3. run'.version = employee.current /\ run'.trigger = trigger
        BY <2>2 DEF NewRun
    <2> QED BY <2>1, <2>2, <2>3, ScheduledRun DEF StillWanted
<1> QED BY <1>1, Invariance, PTL DEF Spec, FiresWhatIsApproved

\* Of a valid specification, what is kept is in order, and is the order of execution.
LEMMA ValidIsKept ==
    ASSUME NEW s \in Valid
    PROVE  /\ ToSet(StoredSteps[s]) = ToSet(s.steps)
           /\ Len(StoredSteps[s]) = Len(s.steps)
           /\ InOrder(StoredSteps[s], s.edges, StoredSteps[s])
           /\ ExecutionOrder[s] = StoredSteps[s]
<1>1. s.steps \in Seq(ToSet(s.steps)) /\ IsValid(s.steps, s.edges)
    BY OfferedAssumption DEF Valid, Specs
<1>2. StoredSteps[s] = Stored(s.steps, s.edges)
    BY DEF StoredSteps
<1>3. ExecutionOrder[s] = TopoOrder(StoredSteps[s], s.edges)
    BY DEF ExecutionOrder
<1> QED BY <1>1, <1>2, <1>3, KeptIsExecuted

\* A workflow is executed in the order in which it is kept and shown, whatever
\* the steps and edges of its specification.
THEOREM WorkflowsRunAsShown == Spec => []ExecutedAsShown
<1>1. IInv => ExecutedAsShown
    BY ValidIsKept DEF IInv, SavedIsValid, ExecutedAsShown
<1> QED BY <1>1, Invariance, PTL

\* Every step of a saved workflow has its place in the order of execution, behind
\* every step it depends on.
THEOREM OrdersRespectEdges == Spec => []OrderRespectsEdges
<1>1. ASSUME NEW s \in Valid, NEW e \in ToSet(s.edges)
      PROVE  Position(s, e.from) < Position(s, e.to)
    <2> DEFINE kept == StoredSteps[s]
    <2>1. /\ ToSet(kept) = ToSet(s.steps) /\ InOrder(kept, s.edges, kept)
          /\ ExecutionOrder[s] = kept
        BY ValidIsKept
    <2>2. e.from \in ToSet(kept) /\ e.to \in ToSet(kept)
        BY <2>1 DEF Valid, IsValid, UniqueKeysAndRealEdges
    <2> HIDE DEF kept
    <2>3. DOMAIN kept = 1 .. Len(kept) /\ Len(kept) \in Nat
        BY <2>1 DEF InOrder
    <2>4. e.from \in Parents(kept, s.edges, e.to)
        BY <2>2 DEF Parents
    <2> DEFINE i == Position(s, e.from)
               j == Position(s, e.to)
    <2>5. i \in 1 .. Len(kept) /\ kept[i] = e.from /\ j \in 1 .. Len(kept) /\ kept[j] = e.to
        BY <2>1, <2>2, <2>3 DEF Position, ToSet
    <2> HIDE DEF i, j
    <2>6. PICK m \in 1 .. (j - 1) : kept[m] = e.from
        <3>1. Parents(kept, s.edges, kept[j]) \subseteq {kept[m] : m \in 1 .. (j - 1)}
            BY <2>1, <2>5 DEF InOrder
        <3> QED BY <2>4, <2>5, <3>1
    <2>7. m = i
        <3>1. m \in 1 .. Len(kept)
            BY <2>3, <2>5
        <3> QED BY <2>1, <2>3, <2>5, <2>6, <3>1 DEF InOrder
    <2>8. i < j
        BY <2>3, <2>5, <2>6, <2>7
    <2> QED BY <2>8 DEF i, j
<1>2. IInv => OrderRespectsEdges
    BY <1>1, ValidIsKept DEF IInv, SavedIsValid, OrderRespectsEdges
<1> QED BY <1>2, Invariance, PTL
=============================================================================
