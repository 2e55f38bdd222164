---------------------------- MODULE RewriteRules ----------------------------
(***************************************************************************)
(* lib/ElasticAnalysisPrinter.cpp and include/AnalysisReportSchema.h: from *)
(* the analyses to the rewrite rules that split a kernel, and the report   *)
(* that carries the rules to the transformation.                           *)
(*                                                                         *)
(* A rule names the kernel it is for, the instruction and block it is      *)
(* about, and the pipe it uses; 0 stands for no block, queue or element.   *)
(* The kernels are named Main, Agu(q) and Pe(p).                           *)
(***************************************************************************)
EXTENDS Recurrences

Main == <<"main", 0>>
Pe(p) == <<"pe", p>>
\* One address generation unit per queue, or one for all; the main kernel if
\* the addresses are not decoupled.
AguKernelName(f, q, decoupled) ==
  IF decoupled THEN <<"agu", IF f.oneAgu THEN 0 ELSE q>> ELSE Main

NewRule(type, kernel, i, b) ==
  [type |-> type, kernel |-> kernel, instr |-> i, block |-> b, pipe |-> <<"", 0, 0>>,
   lsq |-> 0, pe |-> 0, recStart |-> 0, recEnd |-> 0, hoisted |-> FALSE,
   numStoresInBlock |-> 0, numStoresInLoop |-> -1, canBuild |-> FALSE,
   spec |-> 0, pred |-> 0, succ |-> 0]

\* getKernelName: the kernel a block ends up in.
KernelOf(li, pes, b) ==
  LET block == SelectInSeq(pes, LAMBDA e : e.type = "block" /\ e.block = b)
      loop  == SelectInSeq(pes, LAMBDA e : e.type = "loop" /\ b \in li.body[e.block])
  IN  IF block # 0 THEN Pe(block) ELSE IF loop # 0 THEN Pe(loop) ELSE Main

-----------------------------------------------------------------------------
(* Processing elements. A value or predicate pipe is written on one side   *)
(* and read on the other, so rules come in pairs.                          *)

PEArray(cddd) ==
  [k \in 1 .. Len(cddd.blocks) |->
     [type |-> "block", block |-> cddd.blocks[k], needsPoison |-> FALSE]]
  \o [k \in 1 .. Len(cddd.loops) |->
     [type |-> "loop", block |-> cddd.loops[k], needsPoison |-> FALSE]]

Pair(rule, writeType, readType, reader) ==
  <<[rule EXCEPT !.type = writeType],
    [rule EXCEPT !.type = readType, !.kernel = reader]>>

\* generateInfoBlockPE
BlockPERules(cddd, p) ==
  LET b == cddd.blocks[p]
      rule(i, pipe) == [NewRule("", Main, i, b) EXCEPT
                          !.pipe = pipe, !.pe = p, !.hoisted = i \in cddd.hoist[b],
                          !.recStart = cddd.start[b], !.recEnd = cddd.end[b]]
      in(d)  == Pair(rule(cddd.in[b][d], <<"bb_dep_in", p, d>>),
                     "SSA_BB_IN_WRITE", "SSA_BB_IN_READ", Pe(p))
      out(d) == Pair([rule(cddd.out[b][d], <<"bb_dep_out", p, d>>) EXCEPT !.kernel = Pe(p)],
                     "SSA_BB_OUT_WRITE", "SSA_BB_OUT_READ", Main)
  IN  FlattenSeq([d \in 1 .. Len(cddd.in[b]) |-> in(d)])
      \o FlattenSeq([d \in 1 .. Len(cddd.out[b]) |-> out(d)])
      \o Pair([NewRule("", Main, 0, b) EXCEPT !.pipe = <<"bb_pred", p, 0>>, !.pe = p],
              "PRED_BB_WRITE", "PRED_BB_READ", Pe(p))

\* generateInfoLoopPE
LoopPERules(cddd, p) ==
  LET h == cddd.loops[p - Len(cddd.blocks)]
      rule(i, pipe) == [NewRule("", Main, i, h) EXCEPT !.pipe = pipe, !.pe = p]
      in(d)  == Pair(rule(cddd.loopIn[h][d], <<"loop_dep_in", p, d>>),
                     "SSA_LOOP_IN_WRITE", "SSA_LOOP_IN_READ", Pe(p))
      out(d) == Pair([rule(cddd.loopOut[h][d], <<"loop_dep_out", p, d>>) EXCEPT !.kernel = Pe(p)],
                     "SSA_LOOP_OUT_WRITE", "SSA_LOOP_OUT_READ", Main)
  IN  FlattenSeq([d \in 1 .. Len(cddd.loopIn[h]) |-> in(d)])
      \o FlattenSeq([d \in 1 .. Len(cddd.loopOut[h]) |-> out(d)])
      \o Pair(rule(0, <<"loop_pred", p, 0>>), "PRED_LOOP_WRITE", "PRED_LOOP_READ", Pe(p))

-----------------------------------------------------------------------------
(* Load-store queues. `dha` is the result of the data hazard analysis.     *)

\* canReuseLSQPipes: one pipe may serve several accesses if they all stay in
\* the main kernel or all move to one element's block.
CanReuseLSQPipes(f, li, pes, ops) ==
  LET blocks == {InBlock(f, i) : i \in ToSet(ops)}
      moved  == {b \in blocks : KernelOf(li, pes, b) # Main}
  IN  moved = {} \/ (Cardinality(moved) = 1 /\ moved = blocks)

\* The pipe of the n-th access: its place among the accesses of its loop, or
\* one of its own.
PipeIndex(f, li, reuse, ops, n) ==
  IF ~ reuse THEN n
  ELSE Cardinality({m \in 1 .. n : li.loopFor[InBlock(f, ops[m])] = li.loopFor[InBlock(f, ops[n])]})

LSQLoadRules(f, li, cddd, dha, pes, lsq, q, n) ==
  LET ops   == Loads(f, dha.hazards[q])
      ld    == ops[n]
      b     == InBlock(f, ld)
      idx   == PipeIndex(f, li, lsq.reuseLd, ops, n)
      moved == b \in ToSet(cddd.blocks)
      rule(type, kernel, name) ==
        [NewRule(type, kernel, ld, b) EXCEPT
           !.pipe = <<name, q, idx>>, !.lsq = q, !.spec = dha.specBlock[ld]]
      poison(e) == [rule("POISON_LD_READ", Main, "ld_val") EXCEPT !.pred = e[1], !.succ = e[2]]
      edges == IF moved /\ dha.specBlock[ld] # 0 THEN dha.poison[ld] ELSE <<>>
  IN  [k \in 1 .. Len(edges) |-> poison(edges[k])]
      \o <<rule("LD_REQ_WRITE", lsq.agu, "ld_req"),
           [rule("LD_VAL_READ", KernelOf(li, pes, b), "ld_val") EXCEPT
              !.spec = IF moved THEN 0 ELSE @]>>

\* The pipe of a store's poisons: a new one if there are several on chip.
OwnPoisonPipe(dha, lsq, st) ==
  dha.specBlock[st] # 0 /\ Len(dha.poison[st]) > 1 /\ lsq.onChip
LSQStoreRules(f, li, dha, lsq, q, n) ==
  LET ops   == Stores(f, dha.hazards[q])
      st    == ops[n]
      idx   == PipeIndex(f, li, lsq.reuseSt, ops, n)
      extra == Cardinality({m \in 1 .. n : OwnPoisonPipe(dha, lsq, ops[m])})
      edges == IF dha.specBlock[st] # 0 THEN dha.poison[st] ELSE <<>>
      rule(type, kernel, name, at) ==
        [NewRule(type, kernel, st, InBlock(f, st)) EXCEPT !.pipe = <<name, q, at>>, !.lsq = q]
      poisonIdx == IF OwnPoisonPipe(dha, lsq, st) THEN lsq.numStoreReqPipes + extra ELSE idx
      poison(e) == [rule("POISON_ST_WRITE", Main, "st_val", poisonIdx) EXCEPT
                      !.pred = e[1], !.succ = e[2], !.spec = dha.specBlock[st]]
  IN  <<[rule("ST_REQ_WRITE", lsq.agu, "st_req", idx) EXCEPT !.spec = dha.specBlock[st]],
        rule("ST_VAL_WRITE", Main, "st_val", idx)>>
      \o [k \in 1 .. Len(edges) |-> poison(edges[k])]

\* generateInfoLSQ
LSQInfo(f, li, dha, pes, q) ==
  LET lds == Loads(f, dha.hazards[q])
      sts == Stores(f, dha.hazards[q])
      reuseLd == CanReuseLSQPipes(f, li, pes, lds)
      reuseSt == CanReuseLSQPipes(f, li, pes, sts)
      pipes(reuse, ops) == IF reuse THEN MostInOneLoop(li, f, ops) ELSE Len(ops)
      info == [reuseLd |-> reuseLd, reuseSt |-> reuseSt,
               numLoadPipes |-> pipes(reuseLd, lds),
               numStoreReqPipes |-> pipes(reuseSt, sts),
               numStoreValPipes |-> pipes(reuseSt, sts),
               onChip |-> f.base[lds[1]] \in f.onChip,
               decoupled |-> dha.decoupled[q],
               agu |-> AguKernelName(f, q, dha.decoupled[q]),
               size |-> dha.queueSize[q]]
  IN  [info EXCEPT !.numStoreValPipes =
         @ + Cardinality({m \in 1 .. Len(sts) : OwnPoisonPipe(dha, info, sts[m])})]

EndSignalRule(f, q) ==
  [NewRule("END_LSQ_SIGNAL_WRITE", Main, 0, ReturnBlock(f)) EXCEPT !.pipe = <<"end", q, 0>>]
LSQRules(f, li, cddd, dha, pes, lsqs, q) ==
  LET lds == Loads(f, dha.hazards[q])
      sts == Stores(f, dha.hazards[q])
  IN  FlattenSeq([n \in 1 .. Len(lds) |-> LSQLoadRules(f, li, cddd, dha, pes, lsqs[q], q, n)])
      \o FlattenSeq([n \in 1 .. Len(sts) |-> LSQStoreRules(f, li, dha, lsqs[q], q, n)])
      \o <<EndSignalRule(f, q)>>
=============================================================================
