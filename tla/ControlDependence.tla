------------------------- MODULE ControlDependence -------------------------
(***************************************************************************)
(* The control dependence graph of lib/CDG.cpp: which branch decides       *)
(* whether a block runs. `cdg` is the set of its edges between blocks; a   *)
(* block no edge leads to hangs off the root.                              *)
(***************************************************************************)
EXTENDS ControlFlow

ProperlyPostDominates(f, b, a) == a # b /\ PostDominates(f, b, a)

\* isControlDependent: b need not run when a does, and some edge of a makes it.
IsControlDependent(f, b, a) ==
  /\ ~ ProperlyPostDominates(f, b, a)
  /\ \E s \in Succs(f, a) : PostDominates(f, b, s)

\* getEdgeKind: which way the branch of a goes for b to run. Decided by what
\* a successor can reach, back edges included.
EdgeKind(f, a, b) ==
  IF \/ f.succ[a][1] = b
     \/ ~ (Len(f.succ[a]) > 1 /\ f.succ[a][2] = b) /\ b \in ReachedFrom(f, {f.succ[a][1]}, {})
  THEN "true" ELSE "false"

\* calculateCDG
ControlDependenceGraph(f) ==
  {[src |-> e[1], dst |-> e[2], kind |-> EdgeKind(f, e[1], e[2])] :
     e \in {x \in Blocks(f) \X Blocks(f) : IsControlDependent(f, x[2], x[1])}}

Controls(cdg, a, b) == \E e \in cdg : e.src = a /\ e.dst = b

\* getControlDependencySources: the branches that decide b, in function order.
ControlDependencySources(f, cdg, b) ==
  SelectSeq(f.block, LAMBDA a : Controls(cdg, a, b))
\* getControlDependencySource: the first of them; 0 if b always runs.
ControlDependencySource(f, cdg, b) ==
  LET sources == ControlDependencySources(f, cdg, b)
  IN  IF sources = <<>> THEN 0 ELSE sources[1]
=============================================================================
