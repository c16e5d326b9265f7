------------------------------- MODULE Workflows -------------------------------
(***************************************************************************)
(* The graph of a workflow and what the services compute from it: the      *)
(* order in which the steps are executed, their levels, and the part of    *)
(* the graph a run goes through after a review.                            *)
(*                                                                         *)
(* steps is the sequence of step keys in their declared order, edges a     *)
(* sequence of records [from, to, condition].                              *)
(***************************************************************************)
EXTENDS Integers, Sequences, SequencesExt, FiniteSetsExt

\* A condition is what PASS_CONDITIONS and FAIL_CONDITIONS make of its text.
Conditions == {"pass", "fail", "none"}

\* The edges into key, in the order of the workflow's edges.
Incoming(edges, key) == SelectSeq(edges, LAMBDA e : e.to = key)

\* The declared steps that key waits for; edges to unknown steps do not count.
Parents(steps, edges, key) ==
    {k \in ToSet(steps) : \E e \in ToSet(edges) : e.from = k /\ e.to = key}

\* A mutated form of TopoOrder: a step is ready as soon as one parent is done.
TopoOrderEager(steps, edges) ==
    LET order[n \in 0 .. Len(steps)] ==
            IF n = 0 THEN << >>
            ELSE LET done == order[n - 1]
                     ready == {i \in DOMAIN steps :
                                 /\ steps[i] \notin ToSet(done)
                                 /\ \/ Parents(steps, edges, steps[i]) = {}
                                    \/ Parents(steps, edges, steps[i]) \cap ToSet(done) # {}}
                 IN IF ready = {} THEN done ELSE Append(done, steps[Min(ready)])
    IN order[Len(steps)]

\* Kahn's algorithm: of the steps whose parents are all in the order already, the
\* first declared one is next.  In-degrees are what is left of the parents.  The
\* result is shorter than steps, which is an error to the caller, if there is a
\* cycle.
TopoOrder(steps, edges) ==
    LET order[n \in 0 .. Len(steps)] ==
            IF n = 0 THEN << >>
            ELSE LET done == order[n - 1]
                     ready == {i \in DOMAIN steps :
                                 /\ steps[i] \notin ToSet(done)
                                 /\ Parents(steps, edges, steps[i]) \subseteq ToSet(done)}
                 IN IF ready = {} THEN done ELSE Append(done, steps[Min(ready)])
    IN order[Len(steps)]

\* topo_order raises ValidationFailed otherwise.
IsOrdered(steps, edges) == Len(TopoOrder(steps, edges)) = Len(steps)

\* What V-2 and V-3 ask of a specification.  The other validators look at the
\* catalogue of tools, at parameters and at folders, and are left out.
UniqueKeysAndRealEdges(steps, edges) ==
    /\ IsInjective(steps)
    /\ \A e \in ToSet(edges) : {e.from, e.to} \subseteq ToSet(steps)

NoCycles(steps, edges) ==
    LET visited[n \in 0 .. Len(steps)] ==
            IF n = 0 THEN {}
            ELSE {k \in ToSet(steps) : Parents(steps, edges, k) \subseteq visited[n - 1]}
    IN visited[Len(steps)] = ToSet(steps)

IsValid(steps, edges) == UniqueKeysAndRealEdges(steps, edges) /\ NoCycles(steps, edges)

\* A mutated form of TopoLevels: the shortest way counts.
TopoLevelsShortest(steps, edges) ==
    LET order == TopoOrder(steps, edges)
        level[i \in 1 .. Len(order)] ==
            LET before == {j \in 1 .. (i - 1) : order[j] \in Parents(steps, edges, order[i])}
            IN IF before = {} THEN 1 ELSE 1 + Min({level[j] : j \in before})
    IN [k \in ToSet(order) |-> level[CHOOSE i \in DOMAIN order : order[i] = k]]

\* The level of each step: 1, or one more than its deepest parent.
TopoLevels(steps, edges) ==
    LET order == TopoOrder(steps, edges)
        level[i \in 1 .. Len(order)] ==
            LET before == {j \in 1 .. (i - 1) : order[j] \in Parents(steps, edges, order[i])}
            IN IF before = {} THEN 1 ELSE 1 + Max({level[j] : j \in before})
    IN [k \in ToSet(order) |-> level[CHOOSE i \in DOMAIN order : order[i] = k]]

\* The steps as a workflow keeps them: by level, and in their declared order
\* within a level.  The n-th is the one that has n - 1 in front of it.
Stored(steps, edges) ==
    LET level == TopoLevels(steps, edges)
        before(i, j) == \/ level[steps[i]] < level[steps[j]]
                        \/ level[steps[i]] = level[steps[j]] /\ i < j
        ahead(i) == Cardinality({j \in DOMAIN steps : before(j, i)})
    IN [n \in DOMAIN steps |-> steps[CHOOSE i \in DOMAIN steps : ahead(i) = n - 1]]

\* The targets of pass edges and every step behind them: the closure is reached
\* after as many rounds as there are steps.
DownstreamOfPass(steps, edges) ==
    LET reached[n \in 0 .. Len(steps)] ==
            IF n = 0 THEN {e.to : e \in {f \in ToSet(edges) : f.condition = "pass"}}
            ELSE reached[n - 1] \cup {e.to : e \in {f \in ToSet(edges) : f.from \in reached[n - 1]}}
    IN reached[Len(steps)]
=============================================================================
