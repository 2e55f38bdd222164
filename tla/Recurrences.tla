----------------------------- MODULE Recurrences -----------------------------
(***************************************************************************)
(* lib/CDDDAnalysis.cpp: which basic blocks and loops get a processing     *)
(* element of their own. A block on a recurrence that only sometimes runs  *)
(* makes the whole loop as slow as its slowest path; a decoupled block is  *)
(* activated by a predicate and runs beside the loop.                      *)
(*                                                                         *)
(* The result of the analysis is a record:                                 *)
(*   blocks       the blocks to decouple                                   *)
(*   start, end   of each, the phis in the header and in the latch its     *)
(*                recurrence starts and ends with                          *)
(*   in, out      of each, the values it needs and the values it gives     *)
(*   hoist        of each, those that can be sent once per loop            *)
(*   loops, loopIn, loopOut   the same for decoupled loops (headers)       *)
(***************************************************************************)
EXTENDS DataHazards

IsPhi(f, i) == i \in DOMAIN f.incoming
Phis(f, b) == SelectSeq(f.instr[b], LAMBDA i : IsPhi(f, i))
NonPhis(f, b) == SelectSeq(f.instr[b], LAMBDA i : ~ IsPhi(f, i))
Users(f, i) == {v \in Values(f) : i \in f.uses[v]}
\* The block of an instruction or of a terminator.
HomeBlock(f, v) == IF v < 0 THEN -v ELSE InBlock(f, v)
PathII(f, path) == FoldLeft(LAMBDA ii, i : ii + f.latency[i], 0, path)

-----------------------------------------------------------------------------
(* getSCCPaths: the ways around a recurrence, from its first node back to  *)
(* it. An edge is taken once per depth of the walk, whatever the prefix.   *)

PathEdges(f, scc, path, p, done) ==
  SelectSeq(scc, LAMBDA t : /\ <<path[p], t>> \in f.depends
                            /\ t = scc[1] \/ ~ Contains(path, t)
                            /\ <<p, path[p], t>> \notin done)
SCCPaths(f, scc) ==
  LET limit == Len(scc) * Cardinality({e \in ToSet(scc) \X ToSet(scc) : e \in f.depends})
      \* Back to the deepest node with an edge not taken, and along that edge.
      Next(path, done, found) ==
        LET open == {p \in 1 .. Len(path) : PathEdges(f, scc, path, p, done) # <<>>}
            p    == Max(open)
        IN  IF open = {} THEN [path |-> <<>>, to |-> 0, done |-> done, found |-> found]
            ELSE [path |-> SubSeq(path, 1, p), to |-> PathEdges(f, scc, path, p, done)[1],
                  done |-> done, found |-> found]
      Walk[k \in 0 .. limit] ==
        IF k = 0 THEN Next(<<scc[1]>>, {}, <<>>)
        ELSE LET w    == Walk[k - 1]
                 done == w.done \cup {<<Len(w.path), Last(w.path), w.to>>}
             IN  IF w.path = <<>> THEN w
                 ELSE IF w.to = scc[1] THEN Next(w.path, done, Append(w.found, w.path))
                 ELSE Next(Append(w.path, w.to), done, w.found)
  IN  Walk[limit].found

-----------------------------------------------------------------------------
(* collectBlocksToDecouple, over all paths of all recurrences.             *)

RecurrencePhi(f, path, b) ==
  LET at == SelectSeq(path, LAMBDA i : IsPhi(f, i) /\ InBlock(f, i) = b)
  IN  IF at = <<>> THEN 0 ELSE Last(at)
\* The block runs only when a branch other than a loop's says so.
IsConditional(f, li, cdg, b) ==
  LET source == ControlDependencySource(f, cdg, b)
  IN  source # 0 /\ source \notin li.header
BlocksOnPath(f, li, cdg, path) ==
  LET h == li.loopFor[InBlock(f, path[1])]
      isRecurrence == h # 0 /\ RecurrencePhi(f, path, h) # 0
                            /\ RecurrencePhi(f, path, li.latch[h]) # 0
      blocks == AddAll(<<>>, [k \in 1 .. Len(path) |-> InBlock(f, path[k])])
  IN  IF ~ isRecurrence \/ PathII(f, path) <= 1 \/ h \in f.unrolled THEN <<>>
      ELSE SelectSeq(blocks, LAMBDA b : /\ IsConditional(f, li, cdg, b)
                                        /\ PathII(f, f.instr[b]) > 1)

\* The decoupled blocks, each with the phis of the last path that asks for it.
BlocksToDecouple(f, li, cdg) ==
  LET paths == FlattenSeq([k \in 1 .. Len(f.recurrence) |-> SCCPaths(f, f.recurrence[k])])
      Collect(r, path) ==
        LET found == BlocksOnPath(f, li, cdg, path)
            h     == li.loopFor[InBlock(f, path[1])]
        IN  IF found = <<>> THEN r
            ELSE [blocks |-> AddAll(r.blocks, found),
                  start  |-> [b \in ToSet(found) |-> RecurrencePhi(f, path, h)] @@ r.start,
                  end    |-> [b \in ToSet(found) |-> RecurrencePhi(f, path, li.latch[h])] @@ r.end]
  IN  FoldLeft(Collect, [blocks |-> <<>>, start |-> <<>>, end |-> <<>>],
               IF f.noPe THEN <<>> ELSE paths)

\* collectBlockInOutDependencies. The block's phis stay in the main kernel.
BlockInputs(f, b) ==
  LET own == ToSet(NonPhis(f, b))
      operands(i) == SelectSeq(SetToSortSeq(f.uses[i], <),
                       LAMBDA v : v > 0 /\ InBlock(f, v) # Entry(f) /\ v \notin own)
      used == NonPhis(f, b)
  IN  AddAll(Phis(f, b), FlattenSeq([k \in 1 .. Len(used) |-> operands(used[k])]))
BlockOutputs(f, b) ==
  SelectSeq(NonPhis(f, b), LAMBDA i : Users(f, i) \ ToSet(NonPhis(f, b)) # {})

\* collectDependenciesToHoist: the recurrence lives in the block alone, so its
\* value crosses once before the loop and once after it.
DependenciesToHoist(f, li, r, b) ==
  LET h     == li.loopFor[b]
      start == r.start[b]
      given == ToSet(BlockOutputs(f, b))
      ends  == {f.incoming[r.end[b]][p] : p \in DOMAIN f.incoming[r.end[b]]} \ {0}
      usedElsewhere == {v \in Users(f, start) :
                          HomeBlock(f, v) \in li.body[h] \ {b, li.latch[h]}}
      madeElsewhere == {v \in ends : InBlock(f, v) \notin {h, b}}
  IN  IF usedElsewhere = {} /\ madeElsewhere = {} /\ start \in ends /\ ends \cap given # {}
      THEN {start} \cup (ends \cap given) ELSE {}

-----------------------------------------------------------------------------
(* collectLoopsToDecouple                                                  *)

LoopMemories(f, li, h) ==
  {f.base[i] : i \in {x \in UNION {ToSet(f.instr[b]) : b \in UniqueLoopBlocks(li, h)} :
                        IsLoad(f, x) \/ IsStore(f, x)}}
StoredMemories(f, li) ==
  {f.base[i] : i \in {x \in UNION {ToSet(f.instr[b]) : b \in UNION {li.body[h] : h \in li.header}} :
                        IsStore(f, x)}}
\* Another loop uses a value of this loop's header.
FeedsLoop(f, li, h, other) ==
  \E i \in ToSet(f.instr[h]), v \in Values(f) :
     i \in f.uses[v] /\ HomeBlock(f, v) \in UniqueLoopBlocks(li, other)

LoopsToDecouple(f, li, cdg) ==
  LET order   == SortSeq(SelectSeq(f.block, LAMBDA h : h \in li.header), LAMBDA g, h :
                   \/ li.depth[g] < li.depth[h]
                   \/ li.depth[g] = li.depth[h] /\ Position(f.block, g) < Position(f.block, h))
      top     == SelectSeq(order, LAMBDA h : li.parent[h] = 0)
      alone(h) == \A g \in li.header : li.depth[g] = li.depth[h] => g = h
      conditional(h) == IsConditional(f, li, cdg, h)
      separate(h) == \A g \in li.header \ {h} :
                       LoopMemories(f, li, h) \cap LoopMemories(f, li, g)
                         \cap StoredMemories(f, li) = {}
      Visit(r, h) ==
        IF \/ h \in f.unrolled \/ h \in r.fed \/ h = Last(top)
           \/ alone(h) /\ ~ conditional(h)
        THEN r
        ELSE LET fed == {g \in li.header \ {h} : FeedsLoop(f, li, h, g)}
             IN  [fed   |-> r.fed \cup fed,
                  loops |-> IF separate(h) /\ (fed = {} \/ conditional(h))
                            THEN Append(r.loops, h) ELSE r.loops]
  IN  IF f.noPe THEN <<>> ELSE FoldLeft(Visit, [fed |-> {}, loops |-> <<>>], order).loops

\* collectLoopInOutDependencies
LoopInputs(f, li, h) ==
  SelectSeq(InstrsOf(f, Tail(f.block)),
            LAMBDA i : /\ InBlock(f, i) \notin li.body[h]
                       /\ \E v \in Users(f, i) : HomeBlock(f, v) \in li.body[h])
LoopOutputs(f, li, h) ==
  SelectSeq(InstrsOf(f, Tail(f.block)),
            LAMBDA i : /\ InBlock(f, i) \in li.body[h]
                       /\ \E v \in Users(f, i) : HomeBlock(f, v) \notin li.body[h])

-----------------------------------------------------------------------------
(* The analysis.                                                           *)

ControlDependentDataDependencies(f, li, cdg) ==
  LET r     == BlocksToDecouple(f, li, cdg)
      loops == LoopsToDecouple(f, li, cdg)
  IN  [blocks  |-> r.blocks, start |-> r.start, end |-> r.end,
       in      |-> [b \in ToSet(r.blocks) |-> BlockInputs(f, b)],
       out     |-> [b \in ToSet(r.blocks) |-> BlockOutputs(f, b)],
       hoist   |-> [b \in ToSet(r.blocks) |-> DependenciesToHoist(f, li, r, b)],
       loops   |-> loops,
       loopIn  |-> [h \in ToSet(loops) |-> LoopInputs(f, li, h)],
       loopOut |-> [h \in ToSet(loops) |-> LoopOutputs(f, li, h)]]
=============================================================================
