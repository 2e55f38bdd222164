-------------------------- MODULE KernelComposition --------------------------
(***************************************************************************)
(* composeDecoupledKernels of lib/ElasticAnalysisPrinter.cpp: accesses to  *)
(* a load-store queue that ended up in processing elements. The rules of   *)
(* such accesses move to the element's kernel, and new rules carry store   *)
(* tags and poison predicates to it. Then the report: what of a rule the   *)
(* transformation gets to see.                                             *)
(*                                                                         *)
(* c is the state of the visit of the rules: the rules (new ones are       *)
(* appended, and not visited), the elements, and which new rules exist.    *)
(* The C++ code appends to the vector it iterates over; this module is     *)
(* what it does as long as the vector is not reallocated.                  *)
(***************************************************************************)
EXTENDS RewriteRules

IsBlockPE(pes, kernel) == kernel[1] = "pe" /\ pes[kernel[2]].type = "block"
IsLoopPE(pes, kernel) == kernel[1] = "pe" /\ pes[kernel[2]].type = "loop"
CountStores(rules, q, blocks) ==
  Cardinality({k \in DOMAIN rules : /\ rules[k].type = "ST_VAL_WRITE" /\ rules[k].lsq = q
                                    /\ rules[k].block \in blocks})
\* countUncondStoresInLoop: -1 if some store of the loop need not run.
CountUncondStores(f, li, cdg, rules, q, h) ==
  IF \E k \in DOMAIN rules :
       /\ rules[k].type = "ST_VAL_WRITE" /\ rules[k].lsq = q /\ rules[k].block \in li.body[h]
       /\ ControlDependencySource(f, cdg, rules[k].block) # h
  THEN -1 ELSE CountStores(rules, q, li.body[h])

Appended(c, new) == [c EXCEPT !.rules = @ \o new]
KernelAfterPlacement(li, c, rule) == KernelOf(li, c.pes, rule.block)
ParentKernel(li, c, rule) ==
  LET h == li.loopFor[rule.block] IN IF h # 0 THEN KernelOf(li, c.pes, h) ELSE rule.kernel

-----------------------------------------------------------------------------
(* Store tags: a kernel that stores must know how many stores came before. *)

\* To a block: the sender counts the block's stores itself.
TagToBlock(li, c, rule) ==
  LET pe == KernelAfterPlacement(li, c, rule)
      wr == [rule EXCEPT !.type = "ST_VAL_TAG_TO_BB_WRITE", !.kernel = ParentKernel(li, c, rule),
                         !.pipe = <<"bb_st_val_tag_in", pe[2], rule.lsq>>, !.pe = pe[2],
                         !.numStoresInBlock = CountStores(c.rules, rule.lsq, {rule.block})]
  IN  <<wr, [wr EXCEPT !.type = "ST_VAL_TAG_IN_READ", !.kernel = pe]>>

\* To a loop: if its stores cannot be counted the tag should come back, but the
\* rule that would read it is a second write.
TagToLoop(f, li, cdg, c, rule) ==
  LET h     == li.loopFor[rule.block]
      pe    == KernelAfterPlacement(li, c, rule)
      count == CountUncondStores(f, li, cdg, c.rules, rule.lsq, h)
      inWr  == [rule EXCEPT !.type = "ST_VAL_TAG_TO_LOOP_WRITE", !.kernel = ParentKernel(li, c, rule),
                            !.block = h, !.pipe = <<"loop_st_val_tag_in", pe[2], rule.lsq>>,
                            !.numStoresInLoop = count,
                            !.canBuild = count # -1 /\ h \in DOMAIN f.backedges]
      inRd  == [inWr EXCEPT !.type = "ST_VAL_TAG_IN_READ", !.kernel = pe, !.pe = pe[2]]
      outWr == [inRd EXCEPT !.type = "ST_VAL_TAG_LOOP_OUT_WRITE", !.block = li.exit[h]]
  IN  <<inWr, inRd>> \o (IF inWr.canBuild THEN <<>> ELSE <<outWr, inWr>>)

ComposeAccess(f, li, cdg, lsqs, c, k) ==
  LET rule   == c.rules[k]
      kernel == KernelAfterPlacement(li, c, rule)
      placed == [c EXCEPT !.rules[k].kernel = kernel]
      needsTag == rule.type = "ST_VAL_WRITE" /\ ~ lsqs[rule.lsq].reuseSt
  IN  IF needsTag /\ IsBlockPE(c.pes, kernel) /\ <<rule.lsq, rule.block>> \notin c.blockTags
      THEN [Appended(placed, TagToBlock(li, c, rule)) EXCEPT !.blockTags = @ \cup {<<rule.lsq, rule.block>>}]
      ELSE IF needsTag /\ IsLoopPE(c.pes, kernel) /\ <<rule.lsq, li.loopFor[rule.block]>> \notin c.loopTags
      THEN [Appended(placed, TagToLoop(f, li, cdg, c, [rule EXCEPT !.kernel = kernel]))
              EXCEPT !.loopTags = @ \cup {<<rule.lsq, li.loopFor[rule.block]>>}]
      ELSE placed

-----------------------------------------------------------------------------
(* Poisons of a block's accesses: the element gets a poison predicate and  *)
(* does all its poison accesses in one poison block.                       *)

PoisonInBlock(li, c, rule) ==
  [rule EXCEPT !.type = IF rule.type = "POISON_ST_WRITE" THEN "POISON_IN_BB_PE_ST_WRITE"
                        ELSE "POISON_IN_BB_PE_LD_READ",
               !.kernel = KernelAfterPlacement(li, c, rule), !.pe = KernelAfterPlacement(li, c, rule)[2]]
PoisonPredicate(li, c, rule) ==
  [rule EXCEPT !.type = "POISON_PRED_BB_WRITE", !.kernel = ParentKernel(li, c, rule),
               !.pipe = <<"bb_pred", KernelAfterPlacement(li, c, rule)[2], 0>>,
               !.numStoresInBlock = CountStores(c.rules, rule.lsq, {rule.block})]

ComposePoison(li, lsqs, c, k) ==
  LET rule   == c.rules[k]
      pe     == KernelAfterPlacement(li, c, rule)
      site   == <<rule.lsq, rule.pred, rule.succ>>
      first  == rule.instr \notin c.poisons
      asked  == site \in c.predicates
      tagged == rule.type = "POISON_ST_WRITE" /\ site \notin c.edgeTags /\ ~ lsqs[rule.lsq].reuseSt
      tags   == TagToBlock(li, c, rule)
      inBlock == IF first THEN <<PoisonInBlock(li, c, rule)>> ELSE <<>>
      forTag  == IF ~ tagged THEN <<>> ELSE IF rule.lsq \in c.tagReads THEN <<tags[1]>> ELSE tags
  IN  IF ~ IsBlockPE(c.pes, pe) THEN [c EXCEPT !.rules[k].kernel = pe]
      ELSE [Appended([c EXCEPT !.rules[k] = IF asked THEN [rule EXCEPT !.type = "UNDEF", !.kernel = pe]
                                            ELSE PoisonPredicate(li, c, rule)],
                     inBlock \o forTag)
              EXCEPT !.pes[pe[2]].needsPoison = TRUE,
                     !.poisons = @ \cup {rule.instr},
                     !.predicates = @ \cup {site},
                     !.edgeTags = IF tagged THEN @ \cup {site} ELSE @,
                     !.tagReads = IF tagged THEN @ \cup {rule.lsq} ELSE @]

-----------------------------------------------------------------------------
ComposeRule(f, li, cdg, lsqs, c, k) ==
  LET rule == c.rules[k]
      h    == li.loopFor[rule.block]
  IN  IF rule.type \in {"LD_VAL_READ", "ST_VAL_WRITE"} THEN ComposeAccess(f, li, cdg, lsqs, c, k)
      ELSE IF rule.type \in {"POISON_LD_READ", "POISON_ST_WRITE"} THEN ComposePoison(li, lsqs, c, k)
      ELSE IF rule.type \in {"SSA_BB_IN_WRITE", "SSA_BB_OUT_READ", "PRED_BB_WRITE"}
      THEN [c EXCEPT !.rules[k].kernel = ParentKernel(li, c, rule)]
      ELSE IF rule.type \in {"SSA_LOOP_IN_WRITE", "SSA_LOOP_OUT_READ", "PRED_LOOP_WRITE"}
              /\ li.parent[h] # 0
      THEN [c EXCEPT !.rules[k].kernel = KernelOf(li, c.pes, li.parent[h])]
      ELSE c

\* The loop goes over the rules there were at first; what it has met of poisons
\* and tags decides what it adds to them. The vector is taken to have room for
\* those: were it moved, the loop would go on over the memory it has left.
Unvisited(info) ==
  [at |-> 1, last |-> Len(info.rules), poisons |-> {}, blockTags |-> {}, predicates |-> {},
   edgeTags |-> {}, tagReads |-> {}, loopTags |-> {}] @@ info
AllVisited(c) == c.at > c.last
Visited(f, li, cdg, c) == [ComposeRule(f, li, cdg, c.lsqs, c, c.at) EXCEPT !.at = c.at + 1]
Composed(c) == [rules |-> c.rules, pes |-> c.pes, lsqs |-> c.lsqs]

\* run, up to composeDecoupledKernels.
GeneratedInfo(f, li, dha, cddd) ==
  LET pes   == PEArray(cddd)
      lsqs  == [q \in DOMAIN dha.hazards |-> LSQInfo(f, li, dha, pes, q)]
      rules == FlattenSeq([p \in 1 .. Len(cddd.blocks) |-> BlockPERules(cddd, p)])
               \o FlattenSeq([k \in 1 .. Len(cddd.loops) |-> LoopPERules(cddd, Len(cddd.blocks) + k)])
               \o FlattenSeq([q \in DOMAIN lsqs |-> LSQRules(f, li, cddd, dha, pes, lsqs, q)])
  IN  [rules |-> rules, pes |-> pes, lsqs |-> lsqs]

\* jsonToRewriteRule after rewriteRuleToJson: the number of stores in a loop is
\* not written, and only one kind of rule says whether it can be computed.
FromJson(rule) ==
  [rule EXCEPT !.numStoresInLoop = -1,
               !.canBuild = @ /\ rule.type = "ST_VAL_TAG_TO_LOOP_WRITE"]
\* jsonToPEInfo: an element inside a nested loop is reset.
NeedsReset(li, pe) == li.depth[li.loopFor[pe.block]] > 1
KernelRules(report, kernel) ==
  LET mine == SelectSeq(report.rules, LAMBDA r : r.kernel = kernel)
  IN  [k \in 1 .. Len(mine) |-> FromJson(mine[k])]
=============================================================================
