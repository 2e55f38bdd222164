--------------------------- MODULE PipeDeduplication ---------------------------
(***************************************************************************)
(* lib/PipeDeduplicationPass.cpp: the kernels are copies of one function,  *)
(* so a pipe of the program may be read or written in several of them.     *)
(* Such writes are deleted in the address generation units; of several     *)
(* readers one reads the pipe and forwards what it read to the others.     *)
(*                                                                         *)
(* The functions of the module are kept in a map ordered by their          *)
(* addresses: `order` is a sequence of the kernels.                        *)
(***************************************************************************)
EXTENDS KernelRewriting

IsPipeOp(f, o, kind, pipe) == o.do = "instr" /\ f.kind[o.i] = kind /\ f.base[o.i] = pipe
UserPipes(f, kind) == {f.base[i] : i \in {x \in DOMAIN f.kind : f.kind[x] = kind}}

KernelOrders(f, names) ==
  IF UserPipes(f, "recv") \cup UserPipes(f, "send") = {} THEN {SetToSeq(names)} ELSE SetToSeqs(names)

\* getPipeCallsWithName, in block order
PipeCalls(f, k, kind, pipe) ==
  LET blocks == SelectSeq(f.block, LAMBDA b : b \in DOMAIN k.ops)
      ops == FlattenSeq([n \in 1 .. Len(blocks) |-> k.ops[blocks[n]]])
  IN  SelectSeq(ops, LAMBDA o : IsPipeOp(f, o, kind, pipe))

\* getDuplicatePipes: the kernels that share an end of a pipe.
Sharing(f, kernels, order, kind, pipe) ==
  LET with == SelectSeq(order, LAMBDA x : PipeCalls(f, kernels[x], kind, pipe) # <<>>)
  IN  IF Len(with) > 1 THEN with ELSE <<>>

\* deleteDuplicateWrites
SlipFirstKeepsItsWrite(f, kernels, order) ==
  LET others(s) == SubSeq(s, 2, Len(s))
      duplicate(x, o) == \E pipe \in UserPipes(f, "send") :
        /\ IsPipeOp(f, o, "send", pipe)
        /\ x[1] = "agu" /\ Contains(others(Sharing(f, kernels, order, "send", pipe)), x)
  IN  [x \in DOMAIN kernels |->
         [kernels[x] EXCEPT !.ops = [b \in DOMAIN @ |->
            SelectSeq(@[b], LAMBDA o : ~ duplicate(x, o))]]]
WithoutDuplicateWrites(f, kernels, order) ==
  LET duplicate(x, o) == \E pipe \in UserPipes(f, "send") :
        /\ IsPipeOp(f, o, "send", pipe)
        /\ x[1] = "agu" /\ Contains(Sharing(f, kernels, order, "send", pipe), x)
  IN  [x \in DOMAIN kernels |->
         [kernels[x] EXCEPT !.ops = [b \in DOMAIN @ |->
            SelectSeq(@[b], LAMBDA o : ~ duplicate(x, o))]]]

BroadcastSource(sharing) ==
  LET agus == SelectSeq(sharing, LAMBDA x : x[1] = "agu")
  IN  IF agus # <<>> THEN agus[1] ELSE sharing[1]

\* The new pipe to a kernel.
Relay(pipe, dst) == <<pipe, IF dst[1] = "agu" THEN 100 + dst[2] ELSE dst[2], 1>>

\* forwardDuplicatedReads, for one pipe: the n-th read of the source is
\* forwarded, the n-th read of each destination comes from its new pipe.
ForwardReads(f, kernels, sharing, pipe) ==
  LET src      == BroadcastSource(sharing)
      dsts     == SelectSeq(sharing, LAMBDA x : x # src)
      reads(x) == PipeCalls(f, kernels[x], "recv", pipe)
      forward(o) == <<o>> \o [n \in 1 .. Len(dsts) |-> Op("value", o.i, Relay(pipe, dsts[n]), 0, 0)]
      forwarded == FoldLeft(LAMBDA k, o : InPlace(k, o.i, forward(o)), kernels[src], reads(src))
      renamed(x) == FoldLeft(LAMBDA k, o : InPlace(k, o.i, <<Op("read", o.i, Relay(pipe, x), 0, 0)>>),
                             [kernels[x] EXCEPT !.crashed = @ \/ Len(reads(x)) < Len(reads(src))],
                             SubSeq(reads(x), 1, Min({Len(reads(x)), Len(reads(src))})))
  IN  IF sharing = <<>> THEN kernels
      ELSE [x \in DOMAIN kernels |->
              IF x = src THEN forwarded ELSE IF Contains(dsts, x) THEN renamed(x) ELSE kernels[x]]

\* run
DeduplicatedPipes(f, kernels, order) ==
  LET pipes == SetToSeq(UserPipes(f, "recv"))
  IN  FoldLeft(LAMBDA ks, pipe : ForwardReads(f, ks, Sharing(f, ks, order, "recv", pipe), pipe),
               WithoutDuplicateWrites(f, kernels, order), pipes)
=============================================================================
