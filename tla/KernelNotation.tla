---------------------------- MODULE KernelNotation ----------------------------
(***************************************************************************)
(* A notation for the functions the passes get from LLVM: blocks of        *)
(* instructions, each with its successors and the values its branch tests. *)
(* The rest of a function (latencies, recurrences, which addresses scalar  *)
(* evolution predicts) follows from the blocks.                            *)
(***************************************************************************)
EXTENDS ControlFlow

\* LATENCY_TABLE_ARRIA10. The second entry for fptrunc has no effect.
LatencyTable ==
  [fadd |-> 3, fsub |-> 3, fmul |-> 3, fptrunc |-> 3, fdiv |-> 14, fptoui |-> 1, fptosi |-> 1,
   uitofp |-> 1, sitofp |-> 1, fpext |-> 1, mul |-> 3, add |-> 1, sub |-> 1, udiv |-> 4,
   sdiv |-> 4, urem |-> 9, srem |-> 9, frem |-> 9, trunc |-> 1, zext |-> 1, sext |-> 1,
   shl |-> 1, lshr |-> 1, ashr |-> 1, and |-> 1, or |-> 1, xor |-> 1, icmp |-> 1, fcmp |-> 1,
   select |-> 1]
Latency(op) == IF op \in DOMAIN LatencyTable THEN LatencyTable[op] ELSE 0

Instr(i, op, base, ptr, uses, in) ==
  [i |-> i, op |-> op, base |-> base, ptr |-> ptr, uses |-> uses, in |-> in]
Phi(i, in) == Instr(i, "phi", "", 0, {in[p] : p \in DOMAIN in}, in)
Calc(i, op, args) == Instr(i, op, "", 0, args, <<>>)
Load(i, base, ptr) == Instr(i, "load", base, ptr, {ptr}, <<>>)
Store(i, base, ptr, value) == Instr(i, "store", base, ptr, {ptr, value}, <<>>)
Receive(i, pipe) == Instr(i, "recv", pipe, 0, {}, <<>>)
Send(i, pipe, value) == Instr(i, "send", pipe, 0, {value}, <<>>)
Block(b, code, to, test) == [b |-> b, code |-> code, to |-> to, test |-> test]

\* A load depends on the stores to its memory that control can come from.
MayFollow(f, a, b) ==
  LET x == InBlock(f, a)
      y == InBlock(f, b)
  IN  \/ y \in ReachedFrom(f, Succs(f, x), {})
      \/ x = y /\ Position(f.instr[x], a) < Position(f.instr[x], b)
DependsOn(f, a, b) ==
  \/ a \in f.uses[b]
  \/ f.kind[a] = "store" /\ f.kind[b] = "load" /\ f.base[a] = f.base[b] /\ MayFollow(f, a, b)
Dependences(f) == {e \in (DOMAIN f.kind) \X (DOMAIN f.kind) : DependsOn(f, e[1], e[2])}
\* A recurrence is a strongly connected component of the data dependences.
PiBlocks(f) ==
  LET edges  == f.depends
      leads  == UNION {{<<a, b>> : b \in LeadsTo(edges, a)} : a \in DOMAIN f.kind}
      loop   == {e \in leads : <<e[2], e[1]>> \in leads}
      order  == FlattenSeq([k \in 1 .. Len(f.block) |-> f.instr[f.block[k]]])
      scc(i) == SelectSeq(order, LAMBDA x : <<i, x>> \in loop)
      first  == SelectSeq(order, LAMBDA i : <<i, i>> \in loop /\ scc(i)[1] = i)
  IN  [k \in 1 .. Len(first) |-> scc(first[k])]

\* Scalar evolution predicts an address unless a load is needed to compute it.
PredictableStores(f) ==
  {s \in DOMAIN f.kind : /\ f.kind[s] = "store"
                         /\ ~ \E l \in DOMAIN f.kind :
                                f.kind[l] = "load" /\ (f.ptr[s] = l \/ IsInDefUsePath(f, l, {f.ptr[s]}))}

\* A function, with the memories of known size and the blocks that head a
\* loop marked for unrolling, with its back edges.
FunctionOf(blocks, onChip, unrolled) ==
  LET code(k) == blocks[k].code
      all  == UNION {ToSet(code(k)) : k \in DOMAIN blocks}
      ids  == {x.i : x \in all}
      the(i) == CHOOSE x \in all : x.i = i
      bids == {blocks[k].b : k \in DOMAIN blocks}
      blk(b) == CHOOSE x \in ToSet(blocks) : x.b = b
      f == [block    |-> [k \in DOMAIN blocks |-> blocks[k].b],
            succ     |-> [b \in bids |-> blk(b).to],
            instr    |-> [b \in bids |-> [n \in DOMAIN blk(b).code |-> blk(b).code[n].i]],
            kind     |-> [i \in ids |-> IF the(i).op \in {"load", "store", "phi", "recv", "send"}
                                        THEN the(i).op ELSE "op"],
            base     |-> [i \in ids |-> the(i).base],
            ptr      |-> [i \in ids |-> the(i).ptr],
            uses     |-> [v \in {0} \cup ids \cup {Terminator(b) : b \in bids} |->
                            IF v = 0 THEN {} ELSE (IF v > 0 THEN the(v).uses ELSE blk(-v).test) \ {0}],
            incoming |-> [i \in {x.i : x \in {y \in all : y.op = "phi"}} |-> the(i).in],
            latency  |-> [i \in ids |-> Latency(the(i).op)]]
      g == f @@ [depends |-> Dependences(f)]
  IN  g @@ [analyzable |-> PredictableStores(g), recurrence |-> PiBlocks(g),
            unrolled |-> DOMAIN unrolled, backedges |-> unrolled, onChip |-> onChip,
            noAgu |-> FALSE, noPe |-> FALSE, oneAgu |-> FALSE]
=============================================================================
