------------------------------ MODULE MCEmployees ------------------------------
(***************************************************************************)
(* The first version is any graph over three steps, and some that are not  *)
(* graphs; the later ones are a chain with a schedule.                     *)
(***************************************************************************)
EXTENDS Employees

Edge(a, b) == [from |-> a, to |-> b, condition |-> "none"]
Specification(steps, edges, trigger) ==
    [steps |-> steps, edges |-> edges, trigger |-> trigger]

Chain(trigger) == Specification(<< 1, 2, 3 >>, << Edge(1, 2), Edge(2, 3) >>, trigger)

AllEdges == [n \in 1 .. 9 |-> Edge(1 + ((n - 1) \div 3), 1 + ((n - 1) % 3))]
Graphs == {Specification(<< 1, 2, 3 >>, SelectSeq(AllEdges, LAMBDA e : e \in edges), "manual") :
               edges \in SUBSET ToSet(AllEdges)}
NotGraphs == {Specification(<< 1, 2, 1 >>, << >>, "manual"),
              Specification(<< 1, 2 >>, << Edge(1, 3) >>, "manual")}

ThreeVersions == 1 .. 3
SomeSpecifications ==
    << Graphs \cup NotGraphs \cup {Chain("cron")}, {Chain("cron")}, {Chain("file_watch")} >>
=============================================================================
