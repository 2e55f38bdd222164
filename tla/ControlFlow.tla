---------------------------- MODULE ControlFlow ----------------------------
(***************************************************************************)
(* Control flow and def-use helpers of include/CommonLLVM.h, and what the  *)
(* passes take from LLVM: dominators, loops, strongly connected            *)
(* components.                                                             *)
(*                                                                         *)
(* A function f is a record:                                               *)
(*   block  the basic blocks (positive numbers) in function order, the     *)
(*          entry first                                                    *)
(*   succ   the successors of each block, in branch order                  *)
(*   instr  the instructions (positive numbers) of each block, in order,   *)
(*          without its terminator                                         *)
(*   kind   "load", "store", "phi", "op", or "recv" and "send" on a pipe   *)
(*          of the program, for each instruction                           *)
(*   base   the memory an access goes to                                   *)
(*   ptr    the value an access has as its address; 0 is a constant        *)
(*   uses   the instructions a value has as operands; the terminator of    *)
(*          block b is the value -b                                        *)
(*   incoming  of each phi, the value for each block control comes from    *)
(***************************************************************************)
EXTENDS Integers, Sequences, FiniteSets, SequencesExt, FiniteSetsExt

Blocks(f) == ToSet(f.block)
Succs(f, b) == ToSet(f.succ[b])
Preds(f, b) == {p \in Blocks(f) : b \in Succs(f, p)}
Entry(f) == f.block[1]
Terminator(b) == -b
Position(s, x) == SelectInSeq(s, LAMBDA y : y = x)

\* The last block of the function that returns.
ReturnBlock(f) == f.block[SelectLastInSeq(f.block, LAMBDA b : f.succ[b] = <<>>)]

\* The blocks control can reach from `start` if it stops on entering a block
\* of `stop`.
ReachedFrom(f, start, stop) ==
  LET Grown[k \in 0 .. Len(f.block)] ==
        IF k = 0 THEN start
        ELSE LET before == Grown[k - 1]
             IN  before \cup UNION {Succs(f, b) : b \in before \ stop}
  IN  Grown[Len(f.block)]

Dominates(f, a, b) == a = b \/ b \notin ReachedFrom(f, {Entry(f)} \ {a}, {a})
PostDominates(f, a, b) ==
  a = b \/ \A x \in ReachedFrom(f, {b}, {a}) \ {a} : f.succ[x] # <<>>

\* What the edges lead to from a.
LeadsTo(edges, a) ==
  LET Grown[k \in 0 .. Cardinality(edges)] ==
        IF k = 0 THEN {e[2] : e \in {x \in edges : x[1] = a}}
        ELSE LET before == Grown[k - 1]
             IN  before \cup {e[2] : e \in {x \in edges : x[1] \in before}}
  IN  Grown[Cardinality(edges)]

-----------------------------------------------------------------------------
(* LoopInfo. A loop is named by its header; 0 is no loop.                  *)

IsLoopHeader(f, h) == \E p \in Preds(f, h) : Dominates(f, h, p)
Latch(f, h) == CHOOSE p \in Preds(f, h) : Dominates(f, h, p)
NaturalLoop(f, h) ==
  {b \in Blocks(f) : /\ Dominates(f, h, b)
                     /\ b = h \/ Latch(f, h) \in ReachedFrom(f, {b}, {h})}
\* The smallest of the loops, given as header |-> blocks, that satisfy P.
Innermost(loops, P(_)) ==
  LET in == {h \in DOMAIN loops : P(h)}
  IN  IF in = {} THEN 0
      ELSE CHOOSE h \in in : \A g \in in : loops[h] \subseteq loops[g]
LoopInfo(f) ==
  LET header == {h \in Blocks(f) : IsLoopHeader(f, h)}
      body   == [h \in header |-> NaturalLoop(f, h)]
  IN  [header    |-> header,
       body      |-> body,
       latch     |-> [h \in header |-> Latch(f, h)],
       loopFor   |-> [b \in Blocks(f) |-> Innermost(body, LAMBDA h : b \in body[h])],
       parent    |-> [h \in header |->
                        Innermost(body, LAMBDA g : g # h /\ h \in body[g])],
       depth     |-> [h \in header |->
                        Cardinality({g \in header : h \in body[g]})],
       preheader |-> [h \in header |-> CHOOSE p \in Preds(f, h) : p \notin body[h]],
       exit      |-> [h \in header |-> CHOOSE x \in Blocks(f) \ body[h] :
                                          Preds(f, x) \cap body[h] # {}]]

\* Can control go from one block of loop h to another without the back edge?
SlipThroughBackEdge(f, li, from, to, h) == to = li.latch[h] \/ to \in ReachedFrom(f, {from}, {})
IsReachableWithinLoop(f, li, from, to, h) ==
  to = li.latch[h] \/ to \in ReachedFrom(f, {from}, {li.latch[h]})

\* The blocks of loop h that are in no loop inside it.
UniqueLoopBlocks(li, h) ==
  li.body[h] \ UNION {li.body[g] : g \in {x \in li.header : li.parent[x] = h}}

-----------------------------------------------------------------------------
(* Orders.                                                                 *)

\* A depth-first walk: the order blocks are entered and left in.
DepthFirst(f) ==
  LET Walk[k \in 0 .. 2 * Len(f.block) - 1] ==
        IF k = 0 THEN [stack |-> <<Entry(f)>>, pre |-> <<Entry(f)>>, post |-> <<>>]
        ELSE LET w == Walk[k - 1]
                 new(b) == ~ Contains(w.pre, b)
                 next == SelectSeq(f.succ[Last(w.stack)], new)
             IN  IF next # <<>>
                 THEN [w EXCEPT !.stack = Append(@, next[1]),
                                !.pre = Append(@, next[1])]
                 ELSE [w EXCEPT !.stack = Front(@),
                                !.post = Append(@, Last(w.stack))]
  IN  Walk[2 * Len(f.block) - 1]

\* getTopologicalOrder: the strongly connected components in topological
\* order; within one, the order a depth-first walk enters its blocks.
TopologicalOrder(f) ==
  LET walk == DepthFirst(f)
      component(b) == {x \in Blocks(f) : /\ x \in ReachedFrom(f, {b}, {})
                                         /\ b \in ReachedFrom(f, {x}, {})}
      scc  == [b \in Blocks(f) |-> component(b)]
      root == [b \in Blocks(f) |->
                 walk.pre[Min({Position(walk.pre, x) : x \in scc[b]})]]
      before(a, b) ==
        IF root[a] = root[b] THEN Position(walk.pre, a) < Position(walk.pre, b)
        ELSE Position(walk.post, root[a]) > Position(walk.post, root[b])
  IN  SortSeq(f.block, before)

\* breadth_first: blocks by the distance from `start`, along successor order.
BreadthFirst(f, start) ==
  LET Walk[k \in 0 .. Len(f.block)] ==
        IF k = 0 THEN <<start>>
        ELSE LET w == Walk[k - 1]
                 new(b) == ~ Contains(w, b)
             IN  IF k > Len(w) THEN w ELSE w \o SelectSeq(f.succ[w[k]], new)
  IN  Walk[Len(f.block)]

-----------------------------------------------------------------------------
(* Def-use.                                                                *)

Values(f) == DOMAIN f.uses
InBlock(f, i) == CHOOSE b \in Blocks(f) : Contains(f.instr[b], i)
Terminators(f, i) ==
  IF i \in DOMAIN f.incoming THEN {Terminator(p) : p \in DOMAIN f.incoming[i]} ELSE {}

\* isInDefUsePath: may `src` be executed on a path of definitions to one of
\* the values `dst`? A phi depends on the branches of its incoming blocks.
IsInDefUsePath(f, src, dst) ==
  LET Walked[k \in 0 .. Cardinality(Values(f))] ==
        IF k = 0 THEN dst
        ELSE LET seen == Walked[k - 1]
             IN  seen \cup UNION {f.uses[v] \cup Terminators(f, v) : v \in seen}
  IN  \E v \in Walked[Cardinality(Values(f))] : src \in f.uses[v]
=============================================================================
