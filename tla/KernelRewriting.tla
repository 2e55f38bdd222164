--------------------------- MODULE KernelRewriting ---------------------------
(***************************************************************************)
(* lib/ElasticTransform.cpp: every kernel starts as a copy of the original *)
(* function and is edited by the rewrite rules of the report.              *)
(*                                                                         *)
(* A kernel is a record:                                                   *)
(*   succ      the successors of each block                                *)
(*   ops       the operations of each block                                *)
(*   incoming  of each phi, the value for each block control comes from    *)
(*   test      of each block a processing element adds, the predicate that *)
(*             sends control to its first successor                        *)
(*   crashed   a rule used a block that no rule had made yet               *)
(* An operation has the original instruction it stands for, a pipe, a      *)
(* queue whose tag it uses, and the number it adds to the tag (or a        *)
(* predicate).                                                             *)
(***************************************************************************)
EXTENDS KernelComposition

NoPipe == <<"", 0, 0>>
Op(do, i, pipe, q, n) == [do |-> do, i |-> i, pipe |-> pipe, q |-> q, n |-> n]
Original(i) == Op("instr", i, NoPipe, 0, 0)

\* The predicates a processing element is sent.
EXECUTE == 0
RESET == 1
EXIT == 2
POISON == 3

\* The blocks a processing element and poisons add.
PreHeader == 901
Header == 902
BeforeExiting == 903
PoisonBlock == 904
Exiting == 905
EdgeBlock(p, s) == 1000 + 100 * p + s
IsEdgeBlock(b) == b > 1000
\* The register a processing element receives a hoisted value in.
HoistedIn(i) == 1000 + i

-----------------------------------------------------------------------------
(* Edits.                                                                  *)

Without(k, i) ==
  [k EXCEPT !.ops = [b \in DOMAIN @ |-> SelectSeq(@[b], LAMBDA o : o # Original(i))]]
IsPhiOp(k, o) == o.do = "instr" /\ o.i \in DOMAIN k.incoming
PhisOf(k, blocks) == {o.i : o \in {x \in UNION {ToSet(k.ops[b]) : b \in blocks} : IsPhiOp(k, x)}}
AtEnd(k, b, o) == [k EXCEPT !.ops[b] = Append(@, o)]
AtStart(k, b, o) ==
  [k EXCEPT !.ops[b] = SelectSeq(@, LAMBDA x : IsPhiOp(k, x)) \o <<o>>
                        \o SelectSeq(@, LAMBDA x : ~ IsPhiOp(k, x))]
\* Puts the operations `new` where instruction i is.
InPlace(k, i, new) ==
  [k EXCEPT !.ops = [b \in DOMAIN @ |->
     LET at == Position(@[b], Original(i))
     IN  IF at = 0 THEN @[b] ELSE SubSeq(@[b], 1, at - 1) \o new \o SubSeq(@[b], at + 1, Len(@[b]))]]

\* createBlockOnEdge: a block for an edge, made once. The phis of every
\* successor of p take the new block for p.
OnEdge(k, p, s) ==
  LET e == EdgeBlock(p, s)
      phis == PhisOf(k, ToSet(k.succ[p]))
      renamed(in) == [x \in {IF y = p THEN e ELSE y : y \in DOMAIN in} |-> in[IF x = e THEN p ELSE x]]
  IN  IF e \in DOMAIN k.ops THEN k
      ELSE [k EXCEPT !.ops = (e :> <<>>) @@ @,
                     !.succ = (e :> <<s>>) @@ [@ EXCEPT ![p] = [n \in DOMAIN @ |-> IF @[n] = s THEN e ELSE @[n]]],
                     !.incoming = [i \in DOMAIN @ |-> IF i \in phis THEN renamed(@[i]) ELSE @[i]]]

\* hoistBlock
HoistBlock(k, b, to) ==
  IF to = 0 \/ to = b THEN k
  ELSE [k EXCEPT !.ops[to] = @ \o k.ops[b], !.ops[b] = <<>>]

\* createTag is the zero a kernel's tag registers start with.
CreateTag(lsqs) == [q \in DOMAIN lsqs |-> 0]

-----------------------------------------------------------------------------
(* splitCode and deleteCode: what a kernel does not keep of the function.  *)

KernelCopy(f) ==
  [succ |-> f.succ, incoming |-> f.incoming, test |-> <<>>, crashed |-> FALSE,
   ops |-> [b \in Blocks(f) |-> [n \in DOMAIN f.instr[b] |-> Original(f.instr[b][n])]]]

\* Another loop is skipped: its header goes straight to its exit.
SplitCode(f, li, pes, kernel) ==
  LET skipped == {pes[p].block : p \in {x \in DOMAIN pes : pes[x].type = "loop" /\ Pe(x) # kernel}}
  IN  [KernelCopy(f) EXCEPT !.succ = [b \in DOMAIN @ |-> IF b \in skipped THEN <<li.exit[b]>> ELSE @[b]]]

InstrsToDelete(f, pes, kernel) ==
  UNION {IF Pe(p) = kernel
         THEN ToSet(f.instr[ReturnBlock(f)]) \cup
              (IF pes[p].type = "block" THEN ToSet(Phis(f, pes[p].block)) ELSE {})
         ELSE IF pes[p].type = "block" THEN ToSet(f.instr[pes[p].block])
         ELSE ToSet(Phis(f, pes[p].block)) : p \in DOMAIN pes}
\* Address generation has no side effects but on pipes. Operations on pipes
\* stay, in every kernel that keeps their block.
DeleteCode(f, pes, kernel, k) ==
  LET gone == IF kernel[1] = "agu"
              THEN {i \in UNION {ToSet(f.instr[b]) : b \in Blocks(f) \ {Entry(f)}} : IsStore(f, i)}
              ELSE InstrsToDelete(f, pes, kernel)
  IN  [k EXCEPT !.ops = [b \in DOMAIN @ |->
         SelectSeq(@[b], LAMBDA o : ~ (o.do = "instr" /\ o.i \in gone /\ f.kind[o.i] \notin {"recv", "send"}))]]

-----------------------------------------------------------------------------
(* Rules of the load-store queues.                                         *)

Tagged(lsq) == lsq.numStoreValPipes > 1

\* doLdReqWrite
LdReqWrite(k, r, lsq) ==
  LET ldTag == IF lsq.onChip /\ lsq.numLoadPipes > 1 THEN 1 ELSE 0
      req   == Op("ldReq", r.instr, r.pipe, r.lsq, ldTag)
      h     == IF r.spec # 0 THEN HoistBlock(InPlace(k, r.instr, <<req, Original(r.instr)>>), r.block, r.spec)
               ELSE InPlace(k, r.instr, <<req, Original(r.instr)>>)
  IN  IF lsq.decoupled THEN Without(h, r.instr) ELSE h

\* doStReqWrite: a store request first counts the store.
StReqWrite(k, r, lsq) ==
  LET req == Op("stReq", r.instr, r.pipe, r.lsq, 1)
      h   == HoistBlock(InPlace(k, r.instr, <<req, Original(r.instr)>>), r.block, r.spec)
  IN  IF lsq.decoupled THEN Without(h, r.instr) ELSE h

\* doLdValRead: the load becomes a read, moved to where the load is requested.
LdValRead(k, r) ==
  LET read == Op("read", r.instr, r.pipe, 0, 0)
  IN  IF r.spec = 0 THEN InPlace(k, r.instr, <<read>>) ELSE AtEnd(Without(k, r.instr), r.spec, read)

\* doStValWrite: unless the request is written by the same kernel, the value
\* counts the store.
StValWrite(k, r, lsq) ==
  InPlace(k, r.instr, <<Op("stVal", r.instr, r.pipe, r.lsq,
                           IF Tagged(lsq) /\ lsq.decoupled THEN 1 ELSE 0)>>)

\* doPoisonLdRead: the read, for a value nobody uses, at the speculation block.
PoisonLdRead(k, r) == AtEnd(k, r.spec, Op("read", 0, r.pipe, 0, 0))

\* doPoisonStWrite: on the edge, or where it leads if only it leads there.
PoisonStWrite(f, li, k, r, lsq) ==
  LET poison == Op("poison", r.instr, r.pipe, r.lsq, IF Tagged(lsq) THEN 1 ELSE 0)
  IN  IF IsReachableWithinLoop(f, li, r.block, r.succ, li.loopFor[r.block])
      THEN AtEnd(OnEdge(k, r.pred, r.succ), EdgeBlock(r.pred, r.succ), poison)
      ELSE AtStart(k, r.succ, poison)

\* doEndLsqSignalWrite
EndLsqSignalWrite(k, r) == AtEnd(k, r.block, Op("end", 0, r.pipe, 0, 0))

-----------------------------------------------------------------------------
(* Rules of block processing elements.                                     *)

Predicate(r, code) == Op("pred", 0, r.pipe, 0, code)

\* doPredBbWrite
SlipNoExit(f, li, k, r, reset) ==
  LET run == AtStart(k, r.block, Predicate(r, EXECUTE))
  IN  IF reset THEN AtStart(run, li.exit[li.loopFor[r.block]], Predicate(r, RESET)) ELSE run
PredBbWrite(f, li, k, r, reset) ==
  LET exit == li.exit[li.loopFor[r.block]]
      run  == AtStart(k, r.block, Predicate(r, EXECUTE))
  IN  IF reset THEN AtStart(AtStart(run, exit, Predicate(r, RESET)), ReturnBlock(f), Predicate(r, EXIT))
      ELSE AtStart(run, exit, Predicate(r, EXIT))

\* doPredBbRead: the states of the element.
PredBbRead(f, k, r, poison) ==
  LET made == [k EXCEPT
        !.ops  = (PreHeader :> <<>>) @@ (Header :> <<Op("predRead", 0, r.pipe, 0, 0)>>)
                 @@ (Exiting :> <<>>) @@ @,
        !.succ = (PreHeader :> <<Header>>) @@ (Header :> <<r.block, Exiting>>)
                 @@ (Exiting :> <<PreHeader, ReturnBlock(f)>>)
                 @@ [@ EXCEPT ![Entry(f)] = <<PreHeader>>, ![r.block] = <<Header>>],
        !.test = (Header :> EXECUTE) @@ (Exiting :> RESET)]
  IN  IF ~ poison THEN made
      ELSE [made EXCEPT !.ops  = (BeforeExiting :> <<>>) @@ (PoisonBlock :> <<>>) @@ @,
                        !.succ = (BeforeExiting :> <<PoisonBlock, Exiting>>) @@ (PoisonBlock :> <<Header>>)
                                 @@ [@ EXCEPT ![Header] = <<r.block, BeforeExiting>>],
                        !.test = (BeforeExiting :> POISON) @@ @]

\* doSsaBbInWrite
SsaBbInWrite(f, li, k, r, reset) ==
  LET pre  == li.preheader[li.loopFor[r.block]]
      once == Op("value", IF r.hoisted THEN f.incoming[r.recStart][pre] ELSE r.instr, r.pipe, 0, 0)
      send == AtEnd(k, pre, once)
  IN  IF ~ r.hoisted THEN AtStart(k, r.block, once)
      ELSE IF reset THEN AtStart(send, ReturnBlock(f), once) ELSE send

\* doSsaBbInRead: a hoisted value starts the recurrence, which the element's
\* header now carries from one execution to the next.
SsaBbInRead(f, k, r) ==
  LET next == f.incoming[r.recEnd][r.block]
      phi  == (PreHeader :> HoistedIn(r.instr)) @@ (r.block :> next) @@ (PoisonBlock :> r.recStart)
      in   == AtEnd(Without(k, r.recStart), PreHeader, Op("read", HoistedIn(r.instr), r.pipe, 0, 0))
  IN  IF ~ r.hoisted THEN AtStart(k, r.block, Op("read", r.instr, r.pipe, 0, 0))
      ELSE IF PreHeader \notin DOMAIN k.ops THEN [k EXCEPT !.crashed = TRUE]
      ELSE [in EXCEPT !.ops[Header] = <<Original(r.recStart)>> \o @,
                      !.incoming[r.recStart] = phi]

\* doSsaBbOutWrite
SsaBbOutWrite(k, r) ==
  IF ~ r.hoisted THEN AtEnd(k, r.block, Op("value", r.instr, r.pipe, 0, 0))
  ELSE IF Exiting \notin DOMAIN k.ops THEN [k EXCEPT !.crashed = TRUE]
  ELSE AtEnd(k, Exiting, Op("value", r.recStart, r.pipe, 0, 0))

\* doSsaBbOutRead: a hoisted value is read at the loop exit, before its first
\* use, and once more at the end if the element is reset.
SsaBbOutRead(f, li, k, r, reset) ==
  LET exit  == li.exit[li.loopFor[r.block]]
      read  == Op("read", r.recStart, r.pipe, 0, 0)
      uses  == {n \in DOMAIN k.ops[exit] : /\ k.ops[exit][n].i \in DOMAIN f.uses
                                              /\ r.recStart \in f.uses[k.ops[exit][n].i]}
      at    == IF uses = {} THEN Len(k.ops[exit]) + 1 ELSE Min(uses)
      once  == [Without(Without(k, r.recStart), r.recEnd) EXCEPT
                  !.ops[exit] = SubSeq(@, 1, at - 1) \o <<read>> \o SubSeq(@, at, Len(@))]
  IN  IF ~ r.hoisted THEN AtEnd(k, r.block, Op("read", r.instr, r.pipe, 0, 0))
      ELSE IF reset THEN AtEnd(once, ReturnBlock(f), read) ELSE once

-----------------------------------------------------------------------------
(* Rules of loop processing elements.                                      *)

\* doPredLoopWrite
PredLoopWrite(f, k, r) ==
  AtStart(AtStart(k, r.block, Predicate(r, EXECUTE)), ReturnBlock(f), Predicate(r, EXIT))

\* doPredLoopRead: the loop runs once per predicate; its exit goes back to wait.
PredLoopRead(f, li, k, r) ==
  LET h     == r.block
      entry == [x \in {li.latch[h], Header} |-> IF x = Header THEN li.preheader[h] ELSE x]
      fromHeader(in) == [x \in DOMAIN entry |-> in[entry[x]]]
  IN  [k EXCEPT !.ops  = (Header :> <<Op("predRead", 0, r.pipe, 0, 0)>>) @@ @,
                !.succ = (Header :> <<h, ReturnBlock(f)>>)
                         @@ [@ EXCEPT ![Entry(f)] = <<Header>>, ![li.exit[h]] = <<Header>>],
                !.test = Header :> EXECUTE,
                !.incoming = [i \in DOMAIN @ |->
                                IF i \in ToSet(Phis(f, h)) THEN fromHeader(@[i]) ELSE @[i]]]

\* doSsaLoopInWrite: once more at the end, for the predicate that ends the element.
SsaLoopInWrite(f, k, r) ==
  LET send == Op("value", r.instr, r.pipe, 0, 0)
  IN  AtEnd(AtStart(k, r.block, send), ReturnBlock(f), send)
\* doSsaLoopInRead
SsaLoopInRead(k, r) ==
  IF Header \notin DOMAIN k.ops THEN [k EXCEPT !.crashed = TRUE]
  ELSE AtStart(k, Header, Op("read", r.instr, r.pipe, 0, 0))
\* doSsaLoopOutWrite
SsaLoopOutWrite(li, k, r) == AtEnd(k, li.exit[r.block], Op("value", r.instr, r.pipe, 0, 0))
\* doSsaLoopOutRead
SsaLoopOutRead(k, r) == AtEnd(k, r.block, Op("read", r.instr, r.pipe, 0, 0))

-----------------------------------------------------------------------------
(* Rules that carry store tags and poisons to processing elements.         *)

\* doStValTagInRead
StValTagInRead(k, r, type) ==
  LET block == IF type = "loop" THEN Header ELSE IF r.pred # 0 THEN PoisonBlock ELSE r.block
  IN  AtStart(k, block, Op("recvTag", 0, r.pipe, r.lsq, 0))

\* doStValTagToBBWrite: the sender counts the block's stores as done.
StValTagToBBWrite(k, r) ==
  LET send == Op("sendTag", 0, r.pipe, r.lsq, r.numStoresInBlock)
  IN  IF r.pred = 0 THEN AtStart(k, r.block, send)
      ELSE AtStart(OnEdge(k, r.pred, r.succ), EdgeBlock(r.pred, r.succ), send)

\* doPoisonPredBbWrite
PoisonPredBbWrite(k, r) ==
  AtEnd(OnEdge(k, r.pred, r.succ), EdgeBlock(r.pred, r.succ), Predicate(r, POISON))

\* doPoisonInBbPeLdRead
PoisonInBbPeLdRead(k, r) == AtEnd(k, PoisonBlock, Op("read", 0, r.pipe, 0, 0))

\* doPoisonInBbPeStWrite
PoisonInBbPeStWrite(k, r, lsq) ==
  AtEnd(k, PoisonBlock, Op("poison", r.instr, r.pipe, r.lsq, IF Tagged(lsq) THEN 1 ELSE 0))

\* doStValTagToLoopWrite: if the stores can be counted, the count per iteration
\* times the back edges taken (a multiple of the tag's modulus stands for a
\* count the report lost); once more at the end.
StValTagToLoopWrite(f, k, r) ==
  LET n == IF r.canBuild THEN r.numStoresInLoop * f.backedges[r.block] ELSE 0
  IN  AtStart(AtStart(k, r.block, Op("sendTag", 0, r.pipe, r.lsq, n)),
              ReturnBlock(f), Op("sendTag", 0, r.pipe, r.lsq, 0))

\* doStValTagLoopOutWrite: the exit of the loop around the block it is given.
StValTagLoopOutWrite(li, k, r) ==
  IF li.loopFor[r.block] = 0 THEN [k EXCEPT !.crashed = TRUE]
  ELSE AtStart(k, li.exit[li.loopFor[r.block]], Op("sendTag", 0, r.pipe, r.lsq, 0))

-----------------------------------------------------------------------------
(* mergePoisonBlocks, after all rules: poison blocks with the same calls   *)
(* become one, wherever they lead.                                         *)

PoisonCalls(k, b) ==
  LET calls == SelectSeq(k.ops[b], LAMBDA o : o.pipe # NoPipe)
  IN  [n \in DOMAIN calls |-> <<calls[n].do, calls[n].pipe>>]
Equivalent(k, a, b) == PoisonCalls(k, a) # <<>> /\ PoisonCalls(k, a) = PoisonCalls(k, b)

\* Branches to b go to a instead. What follows then comes from a: the phis
\* after b lose their value for b.
Merge(k, a, b) ==
  [k EXCEPT !.succ = [x \in DOMAIN @ |-> [n \in DOMAIN @[x] |-> IF @[x][n] = b THEN a ELSE @[x][n]]]]

\* Poison blocks precede the block their edge leads to.
MergePoisonBlocks(f, k) ==
  LET before(a, b) == \/ Position(f.block, k.succ[a][1]) < Position(f.block, k.succ[b][1])
                      \/ k.succ[a] = k.succ[b] /\ a < b
      all   == FlattenSeq([n \in DOMAIN f.block |-> [m \in DOMAIN f.succ[f.block[n]] |->
                 EdgeBlock(f.block[n], f.succ[f.block[n]][m])]])
      edges == SortSeq(SelectSeq(all, LAMBDA b : b \in DOMAIN k.ops), before)
      pairs == FlattenSeq([m \in DOMAIN edges |-> [n \in DOMAIN edges |-> <<edges[m], edges[n]>>]])
      MergePair(x, p) == IF p[1] # p[2] /\ Equivalent(k, p[1], p[2]) THEN Merge(x, p[1], p[2]) ELSE x
  IN  FoldLeft(MergePair, k, pairs)

-----------------------------------------------------------------------------
(* run: the rules of a kernel, one after the other. A rule that was given  *)
(* up leaves its pipe call at the start of the kernel.                     *)

ApplyRule(f, li, report, k, r) ==
  LET lsq   == report.lsqs[r.lsq]
      pe    == report.pes[r.pe]
      reset == NeedsReset(li, pe)
  IN  CASE r.type = "LD_REQ_WRITE"         -> LdReqWrite(k, r, lsq)
        [] r.type = "ST_REQ_WRITE"         -> StReqWrite(k, r, lsq)
        [] r.type = "LD_VAL_READ"          -> LdValRead(k, r)
        [] r.type = "ST_VAL_WRITE"         -> StValWrite(k, r, lsq)
        [] r.type = "POISON_LD_READ"       -> PoisonLdRead(k, r)
        [] r.type = "POISON_ST_WRITE"      -> PoisonStWrite(f, li, k, r, lsq)
        [] r.type = "END_LSQ_SIGNAL_WRITE" -> EndLsqSignalWrite(k, r)
        [] r.type = "PRED_BB_WRITE"        -> PredBbWrite(f, li, k, r, reset)
        [] r.type = "PRED_BB_READ"         -> PredBbRead(f, k, r, pe.needsPoison)
        [] r.type = "SSA_BB_IN_WRITE"      -> SsaBbInWrite(f, li, k, r, reset)
        [] r.type = "SSA_BB_IN_READ"       -> SsaBbInRead(f, k, r)
        [] r.type = "SSA_BB_OUT_WRITE"     -> SsaBbOutWrite(k, r)
        [] r.type = "SSA_BB_OUT_READ"      -> SsaBbOutRead(f, li, k, r, reset)
        [] r.type = "PRED_LOOP_WRITE"      -> PredLoopWrite(f, k, r)
        [] r.type = "PRED_LOOP_READ"       -> PredLoopRead(f, li, k, r)
        [] r.type = "SSA_LOOP_IN_WRITE"    -> SsaLoopInWrite(f, k, r)
        [] r.type = "SSA_LOOP_IN_READ"     -> SsaLoopInRead(k, r)
        [] r.type = "SSA_LOOP_OUT_WRITE"   -> SsaLoopOutWrite(li, k, r)
        [] r.type = "SSA_LOOP_OUT_READ"    -> SsaLoopOutRead(k, r)
        [] r.type = "ST_VAL_TAG_IN_READ"   -> StValTagInRead(k, r, pe.type)
        [] r.type = "ST_VAL_TAG_TO_BB_WRITE"    -> StValTagToBBWrite(k, r)
        [] r.type = "POISON_PRED_BB_WRITE"      -> PoisonPredBbWrite(k, r)
        [] r.type = "POISON_IN_BB_PE_LD_READ"   -> PoisonInBbPeLdRead(k, r)
        [] r.type = "POISON_IN_BB_PE_ST_WRITE"  -> PoisonInBbPeStWrite(k, r, lsq)
        [] r.type = "ST_VAL_TAG_TO_LOOP_WRITE"  -> StValTagToLoopWrite(f, k, r)
        [] r.type = "ST_VAL_TAG_LOOP_OUT_WRITE" -> StValTagLoopOutWrite(li, k, r)
        [] OTHER -> AtEnd(k, Entry(f), Op("stray", r.instr, r.pipe, r.lsq, 0))

TransformedKernel(f, li, report, kernel) ==
  LET start == IF kernel[1] = "agu" THEN KernelCopy(f) ELSE SplitCode(f, li, report.pes, kernel)
      ruled == FoldLeft(LAMBDA k, r : IF k.crashed THEN k ELSE ApplyRule(f, li, report, k, r),
                        start, KernelRules(report, kernel))
  IN  IF ruled.crashed THEN ruled
      ELSE DeleteCode(f, report.pes, kernel, MergePoisonBlocks(f, ruled))

Kernels(report) ==
  {Main} \cup {Pe(p) : p \in DOMAIN report.pes} \cup {report.lsqs[q].agu : q \in DOMAIN report.lsqs}
=============================================================================
