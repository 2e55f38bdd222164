---------------------------- MODULE DataHazards ----------------------------
(***************************************************************************)
(* lib/DataHazardAnalysis.cpp: which accesses go through a load-store      *)
(* queue, whether their address generation can run ahead of the kernel,    *)
(* where requests are hoisted to make that possible (Algorithm 1), and     *)
(* where hoisted requests that were not needed are poisoned (Algorithm 2). *)
(*                                                                         *)
(* Beside the fields of ControlFlow a function f has                       *)
(*   analyzable  the stores whose address scalar evolution can predict     *)
(*   depends     the data dependence graph, pairs of instructions          *)
(*   recurrence  its pi-blocks (strongly connected components), each a     *)
(*               sequence of instructions                                  *)
(*   latency     of each instruction, from TableOperationLatency.h         *)
(*   unrolled    the loops (headers) marked for unrolling                  *)
(*   backedges   of each loop, the constant number of its back edges       *)
(*   onChip      the memories of known size                                *)
(*   noAgu       the environment variable NO_AGU_DECOUPLING                *)
(***************************************************************************)
EXTENDS ControlDependence

Add(s, x) == IF Contains(s, x) THEN s ELSE Append(s, x)
AddAll(s, t) == FoldLeft(Add, s, t)
IsLoad(f, i) == f.kind[i] = "load"
IsStore(f, i) == f.kind[i] = "store"
Loads(f, s) == SelectSeq(s, LAMBDA i : IsLoad(f, i))
Stores(f, s) == SelectSeq(s, LAMBDA i : IsStore(f, i))
InstrsOf(f, blocks) == FlattenSeq([k \in 1 .. Len(blocks) |-> f.instr[blocks[k]]])

-----------------------------------------------------------------------------
(* The constructor: accesses that form a hazard, one cluster per memory.   *)

\* Loops outermost first, each top-level loop (the last one first) with the
\* loops inside it.
LoopsInOrder(f, li) ==
  LET headers == SelectSeq(f.block, LAMBDA b : b \in li.header)
      top     == Reverse(SelectSeq(headers, LAMBDA h : li.parent[h] = 0))
      inside(t) == SortSeq(SelectSeq(headers, LAMBDA h : h \in li.body[t]),
                     LAMBDA g, h : \/ li.depth[g] < li.depth[h]
                                   \/ /\ li.depth[g] = li.depth[h]
                                      /\ Position(headers, g) < Position(headers, h))
  IN  FlattenSeq([k \in 1 .. Len(top) |-> inside(top[k])])

LoopInstrs(f, li, h) ==
  InstrsOf(f, SelectSeq(BreadthFirst(f, h), LAMBDA b : b \in li.body[h]))

\* hasSpecialCtrlDep: the store runs or not depending on a load of the same
\* memory in the same loop.
HasSpecialCtrlDep(f, li, cdg, h, st) ==
  LET source == ControlDependencySource(f, cdg, InBlock(f, st))
  IN  /\ source # 0
      /\ \E ld \in ToSet(Loads(f, LoopInstrs(f, li, h))) :
           f.base[ld] = f.base[st] /\ IsInDefUsePath(f, ld, {Terminator(source)})

\* The stores that start a cluster, in the order they are found.
HazardStores(f, li, cdg) ==
  LET found(h) == SelectSeq(Stores(f, LoopInstrs(f, li, h)),
                    LAMBDA st : \/ HasSpecialCtrlDep(f, li, cdg, h, st)
                                \/ st \notin f.analyzable)
      loops == LoopsInOrder(f, li)
  IN  AddAll(<<>>, FlattenSeq([k \in 1 .. Len(loops) |-> found(loops[k])]))

\* hazardInstrs: first those stores, then every other access to the memory.
HazardInstrs(f, li, cdg) ==
  LET seeds == HazardStores(f, li, cdg)
      bases == AddAll(<<>>, [k \in 1 .. Len(seeds) |-> f.base[seeds[k]]])
      accesses(m) == SelectSeq(InstrsOf(f, f.block),
                       LAMBDA i : f.kind[i] \in {"load", "store"} /\ f.base[i] = m)
      cluster(m) == AddAll(SelectSeq(seeds, LAMBDA i : f.base[i] = m), accesses(m))
  IN  SelectSeq([k \in 1 .. Len(bases) |-> cluster(bases[k])],
                LAMBDA c : Loads(f, c) # <<>>)

-----------------------------------------------------------------------------
(* Loss of decoupling: an address or a branch waits for a load of a queue. *)

QueueLoads(f, hazards) == UNION {ToSet(Loads(f, c)) : c \in ToSet(hazards)}

\* getLodDataDependencySrc, as a predicate on values.
WaitsForLoad(f, hazards, v) ==
  \E ld \in QueueLoads(f, hazards) : v = ld \/ IsInDefUsePath(f, ld, {v})
LodBranches(f, hazards) ==
  {b \in Blocks(f) : \E ld \in QueueLoads(f, hazards) : IsInDefUsePath(f, ld, {Terminator(b)})}

\* getLodCtrlDepSources: the branches on a load that decide whether b runs,
\* directly or through branches of its loop that do not wait for a load.
LodCtrlDepSources(f, li, cdg, lod, b) ==
  LET Visit(w, a) ==
        IF a \in lod THEN [w EXCEPT !.result = Append(@, a)]
        ELSE IF a # li.loopFor[b] /\ a \notin w.done
             THEN [w EXCEPT !.work = Add(@, a)] ELSE w
      Walk[k \in 0 .. Len(f.block)] ==
        IF k = 0 THEN [work |-> <<b>>, done |-> {}, result |-> <<>>]
        ELSE LET w == Walk[k - 1]
             IN  IF w.work = <<>> THEN w
                 ELSE FoldLeft(Visit, [w EXCEPT !.work = Front(@), !.done = @ \cup {Last(w.work)}],
                               ControlDependencySources(f, cdg, Last(w.work)))
  IN  Walk[Len(f.block)].result

\* calculateDecoupling and calculateSpeculation
DecouplingDecisions(f, hazards) ==
  [q \in DOMAIN hazards |->
     ~ f.noAgu /\ \A i \in ToSet(hazards[q]) : ~ WaitsForLoad(f, hazards, f.ptr[i])]
SpeculationDecisions(f, li, cdg, lod, hazards, decoupled) ==
  [q \in DOMAIN hazards |->
     decoupled[q] /\ \E i \in ToSet(hazards[q]) :
                       LodCtrlDepSources(f, li, cdg, lod, InBlock(f, i)) # <<>>]

-----------------------------------------------------------------------------
(* Algorithm 1. requestMap is a function from blocks to the sequence of    *)
(* requests they hold; its keys are visited in topological order.          *)

RequestMap(f, li, cdg, lod, hazards, speculated) ==
  LET ops == FlattenSeq([q \in DOMAIN hazards |->
                            IF speculated[q] THEN hazards[q] ELSE <<>>])
  IN  [b \in Blocks(f) |->
         IF LodCtrlDepSources(f, li, cdg, lod, b) = <<>> THEN <<>>
         ELSE SelectSeq(ops, LAMBDA i : InBlock(f, i) = b)]

\* Visits the requests of block `from` in a range-for whose body removes the
\* visited one: removal shifts the rest down, so the visit goes on with what
\* the vector's memory then holds, up to its original end.
VisitRemoving(rm, from, Body(_, _)) ==
  LET n == Len(rm[from])
      Visit[k \in 0 .. n] ==
        IF k = 0 THEN [rm |-> rm, memory |-> rm[from]]
        ELSE LET v    == Visit[k - 1]
                 r    == v.memory[k]
                 next == Body(v.rm, r)
             IN  [rm |-> next, memory |-> next[from] \o SubSeq(v.memory, Len(next[from]) + 1, n)]
  IN  Visit[n].rm
Removed(rm, b, r) == [rm EXCEPT ![b] = SelectSeq(@, LAMBDA x : x # r)]

\* One pass over the map: every request of a block moves to the branches on
\* a load that decide the block, if they are in its loop.
HoistTargets(f, li, cdg, lod, from) ==
  SelectSeq(LodCtrlDepSources(f, li, cdg, lod, from),
            LAMBDA to : li.loopFor[to] = li.loopFor[from])
HoistRound(f, li, cdg, lod, rm) ==
  LET Move(to, m, from) ==
        VisitRemoving(m, from,
          LAMBDA x, r : Removed([x EXCEPT ![to] = Add(@, r)], from, r))
      HoistFrom(m, from) ==
        IF m[from] = <<>> THEN m
        ELSE FoldLeft(LAMBDA x, to : Move(to, x, from), m,
                      HoistTargets(f, li, cdg, lod, from))
  IN  FoldLeft(HoistFrom, rm, TopologicalOrder(f))
SlipMovedOnce(f, li, cdg, lod, rm) ==
  \A b \in Blocks(f) : \A i \in ToSet(rm[b]) : InBlock(f, i) # b
HoistingDone(f, li, cdg, lod, rm) ==
  \A b \in Blocks(f) : rm[b] # <<>> => HoistTargets(f, li, cdg, lod, b) = <<>>

\* The clean-up: requests that did not move are not speculated.
WithoutUnmoved(f, rm) ==
  LET Clean(m, b) == VisitRemoving(m, b,
                       LAMBDA x, r : IF InBlock(f, r) = b THEN Removed(x, b, r) ELSE x)
  IN  FoldLeft(Clean, rm, TopologicalOrder(f))

\* getSpeculationBlock: the first block that holds the request; 0 if none.
SpeculationBlock(f, rm, i) ==
  LET holds == SelectSeq(TopologicalOrder(f), LAMBDA b : Contains(rm[b], i))
  IN  IF holds = <<>> THEN 0 ELSE holds[1]

-----------------------------------------------------------------------------
(* Algorithm 2.                                                            *)

\* getAllBlockPathsInLoop: every path from b to the latch of its loop (or the
\* return) that enters no loop header, breadth first.
AllBlockPathsInLoop(f, li, b) ==
  LET stop == IF li.loopFor[b] # 0 THEN li.latch[li.loopFor[b]] ELSE ReturnBlock(f)
      Extensions(p) ==
        IF Last(p) = stop THEN <<>>
        ELSE LET next == SelectSeq(f.succ[Last(p)], LAMBDA s : s \notin li.header)
             IN  [k \in 1 .. Len(next) |-> Append(p, next[k])]
      OfLength[n \in 1 .. Len(f.block)] ==
        IF n = 1 THEN <<<<b>>>>
        ELSE LET shorter == OfLength[n - 1]
             IN  FlattenSeq([k \in 1 .. Len(shorter) |-> Extensions(shorter[k])])
  IN  SelectSeq(FlattenSeq([n \in 1 .. Len(f.block) |-> OfLength[n]]),
                LAMBDA p : Last(p) = stop)

\* The edges of a path on which its pending requests are poisoned. A request
\* is settled on the edge into its own block, which ends the visit of the
\* edge, or poisoned on the first edge from whose end its block is out of reach.
PoisonsOnPath(f, li, requests, path) ==
  LET h == li.loopFor[path[1]]
      trueBlocks == AddAll(<<>>, [k \in 1 .. Len(requests) |-> InBlock(f, requests[k])])
      Visit(dst, w, b) ==
        IF b \notin w.pending \/ w.arrived THEN w
        ELSE IF dst = b THEN [w EXCEPT !.pending = @ \ {b}, !.arrived = TRUE]
        ELSE IF IsReachableWithinLoop(f, li, dst, b, h) THEN w
        ELSE [w EXCEPT !.pending = @ \ {b},
                       !.poison = @ \o <<[block |-> b, edge |-> <<w.src, dst>>]>>]
      AlongEdge(w, dst) ==
        [FoldLeft(LAMBDA x, b : Visit(dst, x, b), [w EXCEPT !.arrived = FALSE], trueBlocks)
           EXCEPT !.src = dst]
  IN  FoldLeft(AlongEdge,
               [src |-> path[1], pending |-> ToSet(trueBlocks), arrived |-> FALSE, poison |-> <<>>],
               Tail(path)).poison

\* calculatePoisonBlocks, for the requests of one speculation block: the
\* poison edges of each of its requests, added to those found before.
PoisonLocations(f, li, rm, specBlock, locations) ==
  LET paths == AllBlockPathsInLoop(f, li, specBlock)
      found == FlattenSeq([k \in 1 .. Len(paths) |->
                             PoisonsOnPath(f, li, rm[specBlock], paths[k])])
      edges(r) == LET mine == SelectSeq(found, LAMBDA p : p.block = InBlock(f, r))
                  IN  [k \in 1 .. Len(mine) |-> mine[k].edge]
  IN  [r \in DOMAIN locations |->
         IF Contains(rm[specBlock], r) THEN AddAll(locations[r], edges(r)) ELSE locations[r]]

\* The poison edges of every access to a queue.
PoisonEdges(f, li, hazards, rm) ==
  LET holders == SelectSeq(TopologicalOrder(f), LAMBDA b : rm[b] # <<>>)
  IN  FoldLeft(LAMBDA locations, b : PoisonLocations(f, li, rm, b, locations),
               [i \in UNION {ToSet(hazards[q]) : q \in DOMAIN hazards} |-> <<>>], holders)

-----------------------------------------------------------------------------
(* getStoreQueueSize.                                                      *)

MostInOneLoop(li, f, ops) ==
  Max({1} \cup {Cardinality({i \in ToSet(ops) : li.loopFor[InBlock(f, i)] = h}) : h \in li.header})

\* The latency of one recurrence; the instructions of an unrolled loop count
\* once, as the number of its iterations (times those of an unrolled loop
\* directly inside or around it).
RecurrenceDelay(f, li, ops, cycle) ==
  LET Count(w, i) ==
        LET h == li.loopFor[InBlock(f, i)]
            nested == {g \in w.counted : li.parent[g] = h \/ li.parent[h] = g}
        IN  IF h \in f.unrolled \ w.counted
            THEN [delay |-> w.delay + FoldSet(LAMBDA g, n : n * f.backedges[g],
                                              1 + f.backedges[h], nested),
                  counted |-> w.counted \cup {h}]
            ELSE [w EXCEPT !.delay = @ + f.latency[i]]
  IN  FoldLeft(Count, [delay |-> 2 + MostInOneLoop(li, f, Loads(f, ops)), counted |-> {}],
               cycle).delay

StoreQueueSize(f, li, ops, speculated) ==
  LET delays == {RecurrenceDelay(f, li, ops, c) : c \in ToSet(f.recurrence)}
      needed == Max({4} \cup {d * MostInOneLoop(li, f, Stores(f, ops)) :
                                d \in delays \cup {2 + MostInOneLoop(li, f, Loads(f, ops))}})
      size   == needed + (IF speculated THEN 4 ELSE 0)
  IN  IF size < 32 THEN Min({p \in {1, 2, 4, 8, 16, 32} : p >= size}) ELSE size
=============================================================================
