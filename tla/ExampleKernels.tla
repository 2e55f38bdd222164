---------------------------- MODULE ExampleKernels ----------------------------
(***************************************************************************)
(* The kernels of the experiments, as the passes get them: one store or    *)
(* load per access, a phi for each variable of a loop. Counters of loops   *)
(* and what only they need are left out where no address uses them.        *)
(***************************************************************************)
EXTENDS KernelNotation

\* for (i) { x = hist[idx[i]]; if (x >= 0) hist[idx[i]] = x + 1; }
HistogramIf ==
  FunctionOf(<<Block(1, <<>>, <<2>>, {}),
               Block(2, <<Phi(1, 1 :> 0 @@ 5 :> 6)>>, <<3, 6>>, {1}),
               Block(3, <<Load(2, "idx", 1), Load(3, "hist", 2)>>, <<4, 5>>, {3}),
               Block(4, <<Calc(4, "add", {3}), Store(5, "hist", 2, 4)>>, <<5>>, {}),
               Block(5, <<Calc(6, "add", {1})>>, <<2>>, {}),
               Block(6, <<>>, <<>>, {})>>, {"hist"}, <<>>)

\* for (i) if (wet[i] > 0) { t += wet[i] * 2; etan += t; }  B[0] = etan;
IfMul ==
  FunctionOf(<<Block(1, <<>>, <<2>>, {}),
               Block(2, <<Phi(1, 1 :> 0 @@ 5 :> 10), Phi(2, 1 :> 0 @@ 5 :> 9), Phi(3, 1 :> 0 @@ 5 :> 8)>>,
                     <<3, 6>>, {1}),
               Block(3, <<Load(4, "wet", 1)>>, <<4, 5>>, {4}),
               Block(4, <<Calc(5, "fmul", {4}), Calc(6, "fadd", {2, 5}), Calc(7, "fadd", {3, 6})>>, <<5>>, {}),
               Block(5, <<Phi(8, 3 :> 3 @@ 4 :> 7), Phi(9, 3 :> 2 @@ 4 :> 6), Calc(10, "add", {1})>>, <<2>>, {}),
               Block(6, <<Store(11, "B", 0, 3)>>, <<>>, {})>>, {}, <<>>)

\* x = hist[idx[i]]; hist[idx[i]] = x + 10;
\* x2 = hist2[idx2[i]]; if (x2 > 0) hist2[idx2[i]] = x2 + 3;
Histogram2Addresses1Speculated ==
  FunctionOf(<<Block(1, <<>>, <<2>>, {}),
               Block(2, <<Phi(1, 1 :> 0 @@ 5 :> 10)>>, <<3, 6>>, {1}),
               Block(3, <<Load(2, "idx", 1), Load(3, "hist", 2), Calc(4, "add", {3}), Store(5, "hist", 2, 4),
                          Load(6, "idx2", 1), Load(7, "hist2", 6)>>, <<4, 5>>, {7}),
               Block(4, <<Calc(8, "add", {7}), Store(9, "hist2", 6, 8)>>, <<5>>, {}),
               Block(5, <<Calc(10, "add", {1})>>, <<2>>, {}),
               Block(6, <<>>, <<>>, {})>>, {}, <<>>)

\* The same with hist2[x2] = x2 + 3, if x2 > 0 && x2 < N.
Histogram2Addresses1Decoupled ==
  FunctionOf(<<Block(1, <<>>, <<2>>, {}),
               Block(2, <<Phi(1, 1 :> 0 @@ 6 :> 10)>>, <<3, 7>>, {1}),
               Block(3, <<Load(2, "idx", 1), Load(3, "hist", 2), Calc(4, "add", {3}), Store(5, "hist", 2, 4),
                          Load(6, "idx2", 1), Load(7, "hist2", 6)>>, <<4, 6>>, {7}),
               Block(4, <<>>, <<5, 6>>, {7}),
               Block(5, <<Calc(8, "add", {7}), Store(9, "hist2", 7, 8)>>, <<6>>, {}),
               Block(6, <<Calc(10, "add", {1})>>, <<2>>, {}),
               Block(7, <<>>, <<>>, {})>>, {}, <<>>)

\* x = hist[idx[i]]; three ways to write it back, by weight[i] and idx[i]; the
\* two stores of the innermost branch are one after LLVM's mldst-motion.
HistogramIf2 ==
  FunctionOf(<<Block(1, <<>>, <<2>>, {}),
               Block(2, <<Phi(1, 1 :> 0 @@ 11 :> 13)>>, <<3, 12>>, {1}),
               Block(3, <<Load(2, "weight", 1), Load(3, "idx", 1), Load(4, "hist", 3)>>, <<4, 5>>, {2}),
               Block(4, <<Calc(5, "fadd", {4}), Store(6, "hist", 3, 5)>>, <<11>>, {}),
               Block(5, <<>>, <<6, 10>>, {2}),
               Block(6, <<>>, <<7, 8>>, {3}),
               Block(7, <<Calc(7, "fmul", {4})>>, <<9>>, {}),
               Block(8, <<Calc(8, "fsub", {4})>>, <<9>>, {}),
               Block(9, <<Phi(9, 7 :> 7 @@ 8 :> 8), Store(10, "hist", 3, 9)>>, <<11>>, {}),
               Block(10, <<Calc(11, "fsub", {4}), Store(12, "hist", 3, 11)>>, <<11>>, {}),
               Block(11, <<Calc(13, "add", {1})>>, <<2>>, {}),
               Block(12, <<>>, <<>>, {})>>, {}, <<>>)

\* Two vertices are matched with each other if both are free.
MaximalMatching ==
  FunctionOf(<<Block(1, <<>>, <<2>>, {}),
               Block(2, <<Phi(1, 1 :> 0 @@ 5 :> 13), Phi(2, 1 :> 0 @@ 5 :> 12)>>, <<3, 6>>, {1}),
               Block(3, <<Load(3, "edges", 1), Calc(4, "add", {1}), Load(5, "edges", 4),
                          Load(6, "vertices", 3), Load(7, "vertices", 5), Calc(8, "and", {6, 7})>>, <<4, 5>>, {8}),
               Block(4, <<Store(9, "vertices", 3, 7), Store(10, "vertices", 5, 6), Calc(11, "add", {2})>>, <<5>>, {}),
               Block(5, <<Phi(12, 3 :> 2 @@ 4 :> 11), Calc(13, "add", {1})>>, <<2>>, {}),
               Block(6, <<Store(14, "out", 0, 2)>>, <<>>, {})>>, {"vertices"}, <<>>)

\* if ((vertices[e1] < 0) && (vertices[e2] < 0)) five stores
MaximalMatching5Stores ==
  FunctionOf(<<Block(1, <<>>, <<2>>, {}),
               Block(2, <<Phi(1, 1 :> 0 @@ 6 :> 20), Phi(2, 1 :> 0 @@ 6 :> 19)>>, <<3, 7>>, {1}),
               Block(3, <<Load(3, "edges", 1), Calc(4, "add", {1}), Load(5, "edges", 4),
                          Load(6, "vertices", 3)>>, <<4, 6>>, {6}),
               Block(4, <<Load(7, "vertices", 5)>>, <<5, 6>>, {7}),
               Block(5, <<Store(8, "vertices", 3, 5), Store(9, "vertices", 5, 3),
                          Calc(10, "add", {3}), Store(11, "vertices", 10, 5),
                          Calc(12, "add", {5}), Store(13, "vertices", 12, 3),
                          Calc(14, "sub", {5}), Store(15, "vertices", 14, 3), Calc(16, "add", {2})>>, <<6>>, {}),
               Block(6, <<Phi(19, 3 :> 2 @@ 4 :> 2 @@ 5 :> 16), Calc(20, "add", {1})>>, <<2>>, {}),
               Block(7, <<Store(21, "out", 0, 2)>>, <<>>, {})>>, {}, <<>>)

\* Two loads and two stores of buffer, at addresses in M.
ChaosNcg ==
  FunctionOf(<<Block(1, <<>>, <<2>>, {}),
               Block(2, <<Phi(1, 1 :> 0 @@ 3 :> 17)>>, <<3, 4>>, {1}),
               Block(3, <<Calc(2, "sub", {1}), Load(3, "M", 2), Calc(4, "add", {1}), Load(5, "M", 4),
                          Load(6, "buffer", 3), Load(7, "buffer", 5), Calc(8, "xor", {6, 7}), Calc(9, "xor", {8}),
                          Calc(10, "xor", {7, 9}), Calc(11, "add", {10}), Load(12, "M", 1),
                          Store(13, "buffer", 12, 9), Calc(14, "add", {1}), Load(15, "M", 14),
                          Store(16, "buffer", 15, 11), Calc(17, "add", {1})>>, <<2>>, {}),
               Block(4, <<>>, <<>>, {})>>, {"buffer"}, <<>>)

\* s += s * s + 0.7; A[i] = s + d; if idxs[i] > 0
FilterSum ==
  FunctionOf(<<Block(1, <<>>, <<2>>, {}),
               Block(2, <<Phi(1, 1 :> 0 @@ 5 :> 11), Phi(2, 1 :> 0 @@ 5 :> 10)>>, <<3, 6>>, {1}),
               Block(3, <<Load(3, "A", 1), Load(4, "idxs", 1), Calc(5, "fadd", {3})>>, <<4, 5>>, {4}),
               Block(4, <<Calc(6, "fmul", {2}), Calc(7, "fadd", {2, 6}), Calc(8, "fadd", {5, 7}),
                          Store(9, "A", 1, 8)>>, <<5>>, {}),
               Block(5, <<Phi(10, 3 :> 2 @@ 4 :> 7), Calc(11, "add", {1})>>, <<2>>, {}),
               Block(6, <<>>, <<>>, {})>>, {}, <<>>)

\* The same with A[idxs[i]], and A copied before and after the loop.
FilterSum2 ==
  FunctionOf(<<Block(1, <<>>, <<2>>, {}),
               Block(2, <<Phi(1, 1 :> 0 @@ 3 :> 4)>>, <<3, 4>>, {1}),
               Block(3, <<Load(2, "A_dram", 1), Store(3, "A", 1, 2), Calc(4, "add", {1})>>, <<2>>, {}),
               Block(4, <<>>, <<5>>, {}),
               Block(5, <<Phi(5, 4 :> 0 @@ 8 :> 15), Phi(6, 4 :> 0 @@ 8 :> 14)>>, <<6, 9>>, {5}),
               Block(6, <<Load(7, "A_dram", 5), Load(8, "idxs", 5), Calc(9, "fadd", {7})>>, <<7, 8>>, {8}),
               Block(7, <<Calc(10, "fmul", {6}), Calc(11, "fadd", {6, 10}), Calc(12, "fadd", {9, 11}),
                          Store(13, "A", 8, 12)>>, <<8>>, {}),
               Block(8, <<Phi(14, 6 :> 6 @@ 7 :> 11), Calc(15, "add", {5})>>, <<5>>, {}),
               Block(9, <<>>, <<10>>, {}),
               Block(10, <<Phi(16, 9 :> 0 @@ 11 :> 19)>>, <<11, 12>>, {16}),
               Block(11, <<Load(17, "A", 16), Store(18, "A_dram", 16, 17), Calc(19, "add", {16})>>, <<10>>, {}),
               Block(12, <<>>, <<>>, {})>>, {"A"}, <<>>)

\* if (wet[i] > 0) { etan += ...; if (etan > 100) etan = ...; }
NestedIfMul ==
  FunctionOf(<<Block(1, <<>>, <<2>>, {}),
               Block(2, <<Phi(1, 1 :> 0 @@ 6 :> 12), Phi(2, 1 :> 0 @@ 6 :> 11)>>, <<3, 7>>, {1}),
               Block(3, <<Load(3, "wet", 1)>>, <<4, 6>>, {3}),
               Block(4, <<Calc(4, "fmul", {2, 3}), Calc(5, "fdiv", {4}), Calc(6, "fadd", {5}),
                          Calc(7, "fadd", {2, 6})>>, <<5, 6>>, {7}),
               Block(5, <<Calc(8, "fdiv", {7}), Calc(9, "fsub", {7, 8}), Calc(10, "fdiv", {9})>>, <<6>>, {}),
               Block(6, <<Phi(11, 3 :> 2 @@ 4 :> 7 @@ 5 :> 10), Calc(12, "add", {1})>>, <<2>>, {}),
               Block(7, <<Store(13, "B", 0, 2)>>, <<>>, {})>>, {}, <<>>)

\* The same with an else if that divides etan.
IfMul2 ==
  FunctionOf(<<Block(1, <<>>, <<2>>, {}),
               Block(2, <<Phi(1, 1 :> 0 @@ 8 :> 12), Phi(2, 1 :> 0 @@ 8 :> 11)>>, <<3, 9>>, {1}),
               Block(3, <<Load(3, "wet", 1)>>, <<4, 6>>, {3}),
               Block(4, <<Calc(4, "fmul", {2, 3}), Calc(5, "fadd", {4}), Calc(6, "fadd", {2, 5})>>, <<5, 8>>, {6}),
               Block(5, <<Calc(7, "fdiv", {6}), Calc(8, "fadd", {7}), Calc(9, "fsub", {6, 8})>>, <<8>>, {}),
               Block(6, <<>>, <<7, 8>>, {3}),
               Block(7, <<Calc(10, "fdiv", {2})>>, <<8>>, {}),
               Block(8, <<Phi(11, 4 :> 6 @@ 5 :> 9 @@ 6 :> 2 @@ 7 :> 10), Calc(12, "add", {1})>>, <<2>>, {}),
               Block(9, <<Store(13, "B", 0, 2)>>, <<>>, {})>>, {}, <<>>)

\* result = A[i] >= 20480 ? 4096 : polynomial(result); A[i] = result;
GetTanhIf ==
  FunctionOf(<<Block(1, <<>>, <<2>>, {}),
               Block(2, <<Phi(1, 1 :> 0 @@ 5 :> 8), Phi(2, 1 :> 0 @@ 5 :> 6)>>, <<3, 6>>, {1}),
               Block(3, <<Load(3, "A", 1)>>, <<5, 4>>, {3}),
               Block(4, <<Calc(4, "fmul", {2}), Calc(5, "fmul", {2, 4})>>, <<5>>, {}),
               Block(5, <<Phi(6, 3 :> 0 @@ 4 :> 5), Store(7, "A", 1, 6), Calc(8, "add", {1})>>, <<2>>, {}),
               Block(6, <<>>, <<>>, {})>>, {}, <<>>)

\* for (i) { for (j = i ..) if (A[j] > 0) s += ...; sum[i] = s; }
\* for (k) A[k] += sum[k] ...;
\* The accesses of the inner conditional block are given.
Doitgen(inner) ==
  FunctionOf(<<Block(1, <<>>, <<2>>, {}),
               Block(2, <<Phi(1, 1 :> 0 @@ 9 :> 13)>>, <<3, 10>>, {1}),
               Block(3, <<>>, <<4>>, {}),
               Block(4, <<Phi(2, 3 :> 1 @@ 7 :> 11), Phi(3, 3 :> 0 @@ 7 :> 10)>>, <<5, 8>>, {2}),
               Block(5, <<Load(4, "A", 2), Load(5, "w", 2)>>, <<6, 7>>, {4}),
               Block(6, <<Calc(6, "fmul", {4, 5}), Calc(7, "fmul", {3, 6}), Calc(8, "fmul", {3, 7}),
                          Calc(9, "fadd", {3, 8})>> \o inner, <<7>>, {}),
               Block(7, <<Phi(10, 5 :> 3 @@ 6 :> 9), Calc(11, "add", {2})>>, <<4>>, {}),
               Block(8, <<Store(12, "sum", 1, 3)>>, <<9>>, {}),
               Block(9, <<Calc(13, "add", {1})>>, <<2>>, {}),
               Block(10, <<>>, <<11>>, {}),
               Block(11, <<Phi(14, 10 :> 0 @@ 12 :> 20)>>, <<12, 13>>, {14}),
               Block(12, <<Load(15, "sum", 14), Load(16, "A", 14), Calc(17, "fmul", {15}),
                           Calc(18, "fadd", {16, 17}), Store(19, "A", 14, 18), Calc(20, "add", {14})>>, <<11>>, {}),
               Block(13, <<>>, <<>>, {})>>, {}, <<>>)
DoitgenTriple == Doitgen(<<>>)
\* A[idx[i]] = a + 1;
DoitgenTriple2 == Doitgen(<<Load(21, "idx", 1), Calc(22, "fadd", {4}), Store(23, "A", 21, 22)>>)

\* for (i) hist[i] += 1; for (i) hist2[i] += 2;
HistogramDram2Loops ==
  FunctionOf(<<Block(1, <<>>, <<2>>, {}),
               Block(2, <<Phi(1, 1 :> 0 @@ 3 :> 5)>>, <<3, 4>>, {1}),
               Block(3, <<Load(2, "hist", 1), Calc(3, "add", {2}), Store(4, "hist", 1, 3), Calc(5, "add", {1})>>, <<2>>, {}),
               Block(4, <<>>, <<5>>, {}),
               Block(5, <<Phi(6, 4 :> 0 @@ 6 :> 10)>>, <<6, 7>>, {6}),
               Block(6, <<Load(7, "hist2", 6), Calc(8, "add", {7}), Store(9, "hist2", 6, 8), Calc(10, "add", {6})>>, <<5>>, {}),
               Block(7, <<>>, <<>>, {})>>, {}, <<>>)

\* for (j) if (!all_zero[j]) for (i) data[i] += w[i * M + j] * data[i];
SpmvIf ==
  FunctionOf(<<Block(1, <<>>, <<2>>, {}),
               Block(2, <<Phi(1, 1 :> 0 @@ 8 :> 9)>>, <<3, 9>>, {1}),
               Block(3, <<Load(2, "all_zero", 1)>>, <<4, 8>>, {2}),
               Block(4, <<>>, <<5>>, {}),
               Block(5, <<Phi(3, 4 :> 0 @@ 6 :> 8)>>, <<6, 7>>, {3}),
               Block(6, <<Calc(4, "add", {1, 3}), Load(5, "w", 4), Load(6, "data", 3), Calc(7, "mul", {5, 6}),
                          Store(10, "data", 3, 7), Calc(8, "add", {3})>>, <<5>>, {}),
               Block(7, <<>>, <<8>>, {}),
               Block(8, <<Calc(9, "add", {1})>>, <<2>>, {}),
               Block(9, <<>>, <<>>, {})>>, {}, <<>>)

\* The same with data[w[i]] += w[i * M + j] * data[i].
SpmvIfPeAndLsq ==
  FunctionOf(<<Block(1, <<>>, <<2>>, {}),
               Block(2, <<Phi(1, 1 :> 0 @@ 8 :> 13)>>, <<3, 9>>, {1}),
               Block(3, <<Load(2, "all_zero", 1)>>, <<4, 8>>, {2}),
               Block(4, <<>>, <<5>>, {}),
               Block(5, <<Phi(3, 4 :> 0 @@ 6 :> 12)>>, <<6, 7>>, {3}),
               Block(6, <<Calc(4, "add", {1, 3}), Load(5, "w", 4), Load(6, "data", 3), Calc(7, "mul", {5, 6}),
                          Load(8, "w", 3), Load(9, "data", 8), Calc(10, "add", {7, 9}),
                          Store(11, "data", 8, 10), Calc(12, "add", {3})>>, <<5>>, {}),
               Block(7, <<>>, <<8>>, {}),
               Block(8, <<Calc(13, "add", {1})>>, <<2>>, {}),
               Block(9, <<>>, <<>>, {})>>, {"data"}, <<>>)

\* for (i) for (j) data[addr_in[..]] += ...; for (k) data[addr_out[k]] = ...;
Bnn ==
  FunctionOf(<<Block(1, <<>>, <<2>>, {}),
               Block(2, <<Phi(1, 1 :> 0 @@ 6 :> 9)>>, <<3, 7>>, {1}),
               Block(3, <<>>, <<4>>, {}),
               Block(4, <<Phi(2, 3 :> 0 @@ 5 :> 8)>>, <<5, 6>>, {2}),
               Block(5, <<Calc(3, "add", {1, 2}), Load(4, "addr_in", 3), Load(5, "data", 4), Calc(6, "add", {5}),
                          Store(7, "data", 4, 6), Calc(8, "add", {2})>>, <<4>>, {}),
               Block(6, <<Calc(9, "add", {1})>>, <<2>>, {}),
               Block(7, <<>>, <<8>>, {}),
               Block(8, <<Phi(10, 7 :> 0 @@ 12 :> 17)>>, <<9, 13>>, {10}),
               Block(9, <<Load(11, "addr_out", 10), Load(12, "data", 11)>>, <<10, 11>>, {12}),
               Block(10, <<Calc(13, "sub", {12})>>, <<12>>, {}),
               Block(11, <<Calc(14, "add", {12})>>, <<12>>, {}),
               Block(12, <<Phi(15, 10 :> 13 @@ 11 :> 14), Store(16, "data", 11, 15), Calc(17, "add", {10})>>, <<8>>, {}),
               Block(13, <<>>, <<>>, {})>>, {"data"}, <<>>)
\* for (i) { wt = weight[i]; if (hist[idx[i]] > 0) hist[idx[i]] = 10 + wt; }
HistogramIf3 ==
  FunctionOf(<<Block(1, <<>>, <<2>>, {}),
               Block(2, <<Phi(1, 1 :> 0 @@ 5 :> 7)>>, <<3, 6>>, {1}),
               Block(3, <<Load(2, "weight", 1), Load(3, "idx", 1), Load(4, "hist", 3)>>, <<4, 5>>, {4}),
               Block(4, <<Calc(5, "add", {2}), Store(6, "hist", 3, 5)>>, <<5>>, {}),
               Block(5, <<Calc(7, "add", {1})>>, <<2>>, {}),
               Block(6, <<>>, <<>>, {})>>, {}, <<>>)

\* for (i) memory[to[i]] = value of memory[from[i]]
Gather(memory, from, to) ==
  LET same == from = to
      address == IF same THEN 2 ELSE 3
  IN  FunctionOf(<<Block(1, <<>>, <<2>>, {}),
                   Block(2, <<Phi(1, 1 :> 0 @@ 3 :> 7)>>, <<3, 4>>, {1}),
                   Block(3, <<Load(2, from, 1)>> \o (IF same THEN <<>> ELSE <<Load(3, to, 1)>>)
                            \o <<Load(4, memory, 2), Calc(5, "add", {4}), Store(6, memory, address, 5),
                                 Calc(7, "add", {1})>>, <<2>>, {}),
                   Block(4, <<>>, <<>>, {})>>, {memory}, <<>>)
Histogram == Gather("hist", "idx", "idx")
GetTanhDouble == Gather("A", "addr_in", "addr_out")

\* for (i) A[b[i]] = polynomial(A[i]);
VecTrans ==
  FunctionOf(<<Block(1, <<>>, <<2>>, {}),
               Block(2, <<Phi(1, 1 :> 0 @@ 3 :> 6)>>, <<3, 4>>, {1}),
               Block(3, <<Load(2, "A", 1), Load(3, "b", 1), Calc(4, "mul", {2}), Store(5, "A", 3, 4),
                          Calc(6, "add", {1})>>, <<2>>, {}),
               Block(4, <<>>, <<>>, {})>>, {"A"}, <<>>)

\* for (i) { beta = A[idx[i]]; if (beta < 20480) result = ...; A[idx[i]] = result; }
GetTanh ==
  FunctionOf(<<Block(1, <<>>, <<2>>, {}),
               Block(2, <<Phi(1, 1 :> 0 @@ 5 :> 7)>>, <<3, 6>>, {1}),
               Block(3, <<Load(2, "idx", 1), Load(3, "A", 2)>>, <<4, 5>>, {3}),
               Block(4, <<Calc(4, "sdiv", {3})>>, <<5>>, {}),
               Block(5, <<Phi(5, 3 :> 0 @@ 4 :> 4), Store(6, "A", 2, 5), Calc(7, "add", {1})>>, <<2>>, {}),
               Block(6, <<>>, <<>>, {})>>, {"A"}, <<>>)

\* hist[idx[i]] += 10; hist2[idx2[i]] += 3;
Histogram2Addresses ==
  FunctionOf(<<Block(1, <<>>, <<2>>, {}),
               Block(2, <<Phi(1, 1 :> 0 @@ 3 :> 10)>>, <<3, 4>>, {1}),
               Block(3, <<Load(2, "idx", 1), Load(3, "hist", 2), Calc(4, "fadd", {3}), Store(5, "hist", 2, 4),
                          Load(6, "idx2", 1), Load(7, "hist2", 6), Calc(8, "add", {7}), Store(9, "hist2", 6, 8),
                          Calc(10, "add", {1})>>, <<2>>, {}),
               Block(4, <<>>, <<>>, {})>>, {}, <<>>)

\* for (k) for (p) { matrix[row[ptr]] += a[p] * matrix[col[ptr]]; ptr++; }
Spmv ==
  FunctionOf(<<Block(1, <<>>, <<2>>, {}),
               Block(2, <<Phi(1, 1 :> 0 @@ 6 :> 14), Phi(2, 1 :> 0 @@ 6 :> 4)>>, <<3, 7>>, {1}),
               Block(3, <<>>, <<4>>, {}),
               Block(4, <<Phi(3, 3 :> 0 @@ 5 :> 13), Phi(4, 3 :> 2 @@ 5 :> 12)>>, <<5, 6>>, {3}),
               Block(5, <<Load(5, "a", 3), Load(6, "col", 4), Load(7, "matrix", 6), Calc(8, "mul", {5, 7}),
                          Load(9, "row", 4), Load(10, "matrix", 9), Calc(15, "add", {8, 10}),
                          Store(11, "matrix", 9, 15), Calc(12, "add", {4}), Calc(13, "add", {3})>>, <<4>>, {}),
               Block(6, <<Calc(14, "add", {1})>>, <<2>>, {}),
               Block(7, <<>>, <<>>, {})>>, {"matrix"}, <<>>)

\* for (i) { d = A[i] + B[i]; if (d >= 0) s += polynomial(d); }  *res = s;
Gsum ==
  FunctionOf(<<Block(1, <<>>, <<2>>, {}),
               Block(2, <<Phi(1, 1 :> 0 @@ 5 :> 9), Phi(2, 1 :> 0 @@ 5 :> 8)>>, <<3, 6>>, {1}),
               Block(3, <<Load(3, "A", 1), Load(4, "B", 1), Calc(5, "fadd", {3, 4})>>, <<4, 5>>, {5}),
               Block(4, <<Calc(6, "fmul", {5}), Calc(7, "fadd", {2, 6})>>, <<5>>, {}),
               Block(5, <<Phi(8, 3 :> 2 @@ 4 :> 7), Calc(9, "add", {1})>>, <<2>>, {}),
               Block(6, <<Store(10, "res", 0, 2)>>, <<>>, {})>>, {}, <<>>)

\* for (i) { b = board[i]; if (b is a king) centralityValue *= magnitude(b) * c(i); }
EvalPos ==
  FunctionOf(<<Block(1, <<>>, <<2>>, {}),
               Block(2, <<Phi(1, 1 :> 0 @@ 5 :> 9), Phi(2, 1 :> 0 @@ 5 :> 8)>>, <<3, 6>>, {1}),
               Block(3, <<Load(3, "board", 1), Calc(4, "and", {3})>>, <<4, 5>>, {4}),
               Block(4, <<Calc(5, "fsub", {1}), Calc(6, "fmul", {3, 5}), Calc(7, "fmul", {2, 6})>>, <<5>>, {}),
               Block(5, <<Phi(8, 3 :> 2 @@ 4 :> 7), Calc(9, "add", {1})>>, <<2>>, {}),
               Block(6, <<Store(10, "res", 0, 2)>>, <<>>, {})>>, {}, <<>>)

\* for (i) { d = a[i]; if (d < 1) weight = polynomial(d) * weight; }
\* for (i) r[i] += a[i] / (weight + 1);
VecNormTrans ==
  FunctionOf(<<Block(1, <<>>, <<2>>, {}),
               Block(2, <<Phi(1, 1 :> 0 @@ 5 :> 8), Phi(2, 1 :> 0 @@ 5 :> 7)>>, <<3, 6>>, {1}),
               Block(3, <<Load(3, "a", 1)>>, <<4, 5>>, {3}),
               Block(4, <<Calc(4, "fmul", {3}), Calc(5, "fmul", {2}), Calc(6, "fadd", {4, 5})>>, <<5>>, {}),
               Block(5, <<Phi(7, 3 :> 2 @@ 4 :> 6), Calc(8, "add", {1})>>, <<2>>, {}),
               Block(6, <<>>, <<7>>, {}),
               Block(7, <<Phi(10, 6 :> 0 @@ 8 :> 16)>>, <<8, 9>>, {10}),
               Block(8, <<Load(11, "a", 10), Calc(9, "fadd", {2}), Calc(12, "fdiv", {9, 11}), Load(13, "r", 10), Calc(14, "fadd", {12, 13}),
                          Store(15, "r", 10, 14), Calc(16, "add", {10})>>, <<7>>, {}),
               Block(9, <<>>, <<>>, {})>>, {}, <<>>)

\* hist[idx[i]] += 1; if (idx[i] == 0) { s += s * s; A[i] = s + A[i]; }
HistogramTest ==
  FunctionOf(<<Block(1, <<>>, <<2>>, {}),
               Block(2, <<Phi(1, 1 :> 0 @@ 5 :> 13), Phi(2, 1 :> 0 @@ 5 :> 12)>>, <<3, 6>>, {1}),
               Block(3, <<Load(3, "idx", 1), Load(4, "hist", 3), Calc(5, "add", {4}), Store(6, "hist", 3, 5)>>,
                     <<4, 5>>, {3}),
               Block(4, <<Calc(7, "fmul", {2}), Calc(8, "fadd", {2, 7}), Load(9, "A", 1), Calc(10, "fadd", {8, 9}),
                          Store(11, "A", 1, 10)>>, <<5>>, {}),
               Block(5, <<Phi(12, 3 :> 2 @@ 4 :> 8), Calc(13, "add", {1})>>, <<2>>, {}),
               Block(6, <<>>, <<>>, {})>>, {"hist"}, <<>>)

\* for (j) { x = w[M + j]; if (!all_zero[j]) for (i) { data[i] += w[i * M + j]
\* * data[i]; x += i; }  w[M + j] = x; }
SpmvIf2 ==
  FunctionOf(<<Block(1, <<>>, <<2>>, {}),
               Block(2, <<Phi(1, 1 :> 0 @@ 8 :> 9)>>, <<3, 9>>, {1}),
               Block(3, <<Calc(11, "add", {1}), Load(12, "w", 11), Load(2, "all_zero", 1)>>, <<4, 8>>, {2}),
               Block(4, <<>>, <<5>>, {}),
               Block(5, <<Phi(3, 4 :> 0 @@ 6 :> 8), Phi(13, 4 :> 12 @@ 6 :> 14)>>, <<6, 7>>, {3}),
               Block(6, <<Calc(4, "add", {1, 3}), Load(5, "w", 4), Load(6, "data", 3), Calc(7, "mul", {5, 6}),
                          Store(10, "data", 3, 7), Calc(14, "add", {3, 13}), Calc(8, "add", {3})>>, <<5>>, {}),
               Block(7, <<>>, <<8>>, {}),
               Block(8, <<Phi(15, 3 :> 12 @@ 7 :> 13), Store(16, "w", 11, 15), Calc(9, "add", {1})>>, <<2>>, {}),
               Block(9, <<>>, <<>>, {})>>, {}, <<>>)

\* for (j) for (i) hist[i] += 1; for (i) hist2[i] += 2;
HistogramDram2Loops1Nested ==
  FunctionOf(<<Block(1, <<>>, <<2>>, {}),
               Block(2, <<Phi(11, 1 :> 0 @@ 8 :> 12)>>, <<9, 4>>, {11}),
               Block(9, <<>>, <<10>>, {}),
               Block(10, <<Phi(1, 9 :> 0 @@ 3 :> 5)>>, <<3, 8>>, {1}),
               Block(3, <<Load(2, "hist", 1), Calc(3, "add", {2}), Store(4, "hist", 1, 3), Calc(5, "add", {1})>>, <<10>>, {}),
               Block(8, <<Calc(12, "add", {11})>>, <<2>>, {}),
               Block(4, <<>>, <<5>>, {}),
               Block(5, <<Phi(6, 4 :> 0 @@ 6 :> 10)>>, <<6, 7>>, {6}),
               Block(6, <<Load(7, "hist2", 6), Calc(8, "add", {7}), Store(9, "hist2", 6, 8), Calc(10, "add", {6})>>, <<5>>, {}),
               Block(7, <<>>, <<>>, {})>>, {}, <<>>)

\* for (i) hist[idx[i]] += 1; for (i) hist2[idx[i]] += 2;
HistogramDram2Loops2Lsqs ==
  FunctionOf(<<Block(1, <<>>, <<2>>, {}),
               Block(2, <<Phi(1, 1 :> 0 @@ 3 :> 6)>>, <<3, 4>>, {1}),
               Block(3, <<Load(2, "idx", 1), Load(3, "hist", 2), Calc(4, "add", {3}), Store(5, "hist", 2, 4),
                          Calc(6, "add", {1})>>, <<2>>, {}),
               Block(4, <<>>, <<5>>, {}),
               Block(5, <<Phi(7, 4 :> 0 @@ 6 :> 12)>>, <<6, 7>>, {7}),
               Block(6, <<Load(8, "idx", 7), Load(9, "hist2", 8), Calc(10, "add", {9}), Store(11, "hist2", 8, 10),
                          Calc(12, "add", {7})>>, <<5>>, {}),
               Block(7, <<>>, <<>>, {})>>, {}, <<>>)

\* for (k) { for (j) for (i) hist[i] += 1; for (i) hist2[i] += 2; }
HistogramDram4Loops1TripleNested ==
  FunctionOf(<<Block(1, <<>>, <<2>>, {}),
               Block(2, <<Phi(1, 1 :> 0 @@ 13 :> 13)>>, <<3, 14>>, {1}),
               Block(3, <<>>, <<4>>, {}),
               Block(4, <<Phi(2, 3 :> 0 @@ 8 :> 7)>>, <<5, 9>>, {2}),
               Block(5, <<>>, <<6>>, {}),
               Block(6, <<Phi(3, 5 :> 0 @@ 7 :> 6)>>, <<7, 8>>, {3}),
               Block(7, <<Load(4, "hist", 3), Calc(14, "add", {4}), Store(5, "hist", 3, 14), Calc(6, "add", {3})>>,
                     <<6>>, {}),
               Block(8, <<Calc(7, "add", {2})>>, <<4>>, {}),
               Block(9, <<>>, <<10>>, {}),
               Block(10, <<Phi(8, 9 :> 0 @@ 11 :> 12)>>, <<11, 13>>, {8}),
               Block(11, <<Load(9, "hist2", 8), Calc(10, "add", {9}), Store(11, "hist2", 8, 10), Calc(12, "add", {8})>>,
                     <<10>>, {}),
               Block(13, <<Calc(13, "add", {1})>>, <<2>>, {}),
               Block(14, <<>>, <<>>, {})>>, {}, <<>>)

\* Three nested loops around the innermost blocks, of which 7 is entered and
\* `last` goes back; 1, 2 and 3 are their counters.
Triple(innermost, last, onChip) ==
  FunctionOf(<<Block(1, <<>>, <<2>>, {}),
               Block(2, <<Phi(1, 1 :> 0 @@ 11 :> 11)>>, <<3, 12>>, {1}),
               Block(3, <<>>, <<4>>, {}),
               Block(4, <<Phi(2, 3 :> 0 @@ 10 :> 10)>>, <<5, 11>>, {2}),
               Block(5, <<>>, <<6>>, {}),
               Block(6, <<Phi(3, 5 :> 0 @@ last :> 9)>>, <<7, 10>>, {3})>>
             \o innermost
             \o <<Block(last, <<Calc(9, "add", {3})>>, <<6>>, {}),
                  Block(10, <<Calc(10, "add", {2})>>, <<4>>, {}),
                  Block(11, <<Calc(11, "add", {1})>>, <<2>>, {}),
                  Block(12, <<>>, <<>>, {})>>, onChip, <<>>)

\* for (k) for (i) for (j) if (dist[i, j] > dist[i, k] + dist[k, j])
\*   dist[i, j] = dist[i, k] + dist[k, j];
FloydWarshall ==
  Triple(<<Block(7, <<Calc(12, "add", {2, 3}), Load(13, "dist", 12), Calc(14, "add", {1, 2}), Load(15, "dist", 14),
                      Calc(16, "add", {1, 3}), Load(17, "dist", 16), Calc(18, "add", {15, 17})>>, <<8, 9>>, {13, 18}),
           Block(8, <<Store(19, "dist", 12, 18)>>, <<9>>, {})>>, 9, {"dist"})

\* for (k) for (j) for (i) { l = i ^ j; if (l > i && A[i] and A[l] are in the
\* wrong order) swap A[i] and A[l]; }
BitonicSort ==
  Triple(<<Block(7, <<Calc(12, "xor", {2, 3})>>, <<8, 20>>, {3, 12}),
           Block(8, <<Load(13, "A", 3), Load(14, "A", 12), Calc(15, "or", {1, 3, 13, 14})>>, <<9, 20>>, {15}),
           Block(9, <<Store(16, "A", 3, 14), Store(17, "A", 12, 13)>>, <<20>>, {})>>, 20, {"A"})

\* for (i) { for (j) { t_tmp += A[i, j] * x[j]; t_y += B[i, j] * x[j]; }
\* tmp[i] = t_tmp; y[i] = ..; }  A[0] = t_tmp;
Gesummv ==
  FunctionOf(<<Block(1, <<>>, <<2>>, {}),
               Block(2, <<Phi(1, 1 :> 0 @@ 6 :> 20), Phi(2, 1 :> 0 @@ 6 :> 4)>>, <<3, 7>>, {1}),
               Block(3, <<>>, <<4>>, {}),
               Block(4, <<Phi(3, 3 :> 0 @@ 5 :> 14), Phi(4, 3 :> 0 @@ 5 :> 10), Phi(5, 3 :> 0 @@ 5 :> 13)>>, <<5, 6>>, {3}),
               Block(5, <<Load(6, "x", 3), Calc(7, "add", {1, 3}), Load(8, "A", 7), Calc(9, "fmul", {6, 8}),
                          Calc(10, "fadd", {4, 9}), Load(11, "B", 7), Calc(12, "fmul", {6, 11}),
                          Calc(13, "fadd", {5, 12}), Calc(14, "add", {3})>>, <<4>>, {}),
               Block(6, <<Store(15, "tmp", 1, 4), Calc(16, "fmul", {4}), Calc(17, "fmul", {5}),
                          Calc(18, "fadd", {16, 17}), Store(19, "y", 1, 18), Calc(20, "add", {1})>>, <<2>>, {}),
               Block(7, <<Store(21, "A", 0, 2)>>, <<>>, {})>>, {}, <<>>)

\* for (j) { for (i) m += data[i, j]; m /= ..; for (i) data[i, j] -= m; }
\* for (i) for (j) { for (k) c += data[k, i] * data[k, j]; cov[i, j] = cov[j, i] = c; }
Covariance ==
  FunctionOf(<<Block(1, <<>>, <<2>>, {}),
               Block(2, <<Phi(1, 1 :> 0 @@ 9 :> 15)>>, <<3, 10>>, {1}),
               Block(3, <<>>, <<4>>, {}),
               Block(4, <<Phi(2, 3 :> 0 @@ 5 :> 7), Phi(3, 3 :> 0 @@ 5 :> 6)>>, <<5, 6>>, {2}),
               Block(5, <<Calc(4, "add", {1, 2}), Load(5, "data", 4), Calc(6, "fadd", {3, 5}), Calc(7, "add", {2})>>,
                     <<4>>, {}),
               Block(6, <<Calc(8, "fdiv", {3})>>, <<7>>, {}),
               Block(7, <<Phi(9, 6 :> 0 @@ 8 :> 14)>>, <<8, 9>>, {9}),
               Block(8, <<Calc(10, "add", {1, 9}), Load(11, "data", 10), Calc(12, "fsub", {8, 11}),
                          Store(13, "data", 10, 12), Calc(14, "add", {9})>>, <<7>>, {}),
               Block(9, <<Calc(15, "add", {1})>>, <<2>>, {}),
               Block(10, <<>>, <<11>>, {}),
               Block(11, <<Phi(16, 10 :> 0 @@ 18 :> 32)>>, <<12, 19>>, {16}),
               Block(12, <<>>, <<13>>, {}),
               Block(13, <<Phi(17, 12 :> 16 @@ 17 :> 31)>>, <<14, 18>>, {17}),
               Block(14, <<>>, <<15>>, {}),
               Block(15, <<Phi(18, 14 :> 0 @@ 16 :> 26), Phi(19, 14 :> 0 @@ 16 :> 25)>>, <<16, 17>>, {18}),
               Block(16, <<Calc(20, "add", {16, 18}), Load(21, "data", 20), Calc(22, "add", {17, 18}), Load(23, "data", 22),
                           Calc(24, "fmul", {21, 23}), Calc(25, "fadd", {19, 24}), Calc(26, "add", {18})>>, <<15>>, {}),
               Block(17, <<Calc(27, "fdiv", {19}), Calc(28, "add", {16, 17}), Store(29, "cov", 28, 27),
                           Calc(33, "add", {16, 17}), Store(30, "cov", 33, 27), Calc(31, "add", {17})>>, <<13>>, {}),
               Block(18, <<Calc(32, "add", {16})>>, <<11>>, {}),
               Block(19, <<Load(34, "cov", 0), Store(35, "data", 0, 34)>>, <<>>, {})>>, {}, <<>>)

\* The kernels of the same names for arrays off chip.
OffChip(f) == [f EXCEPT !.onChip = {}]
HistogramIfDram == OffChip(HistogramIf)
HistogramDram == OffChip(Histogram)
FilterSum2Dram == OffChip(FilterSum2)
MaximalMatchingDram == OffChip(MaximalMatching)
ChaosNcgDram == OffChip(ChaosNcg)
BnnDram == OffChip(Bnn)
SpmvDram == OffChip(Spmv)
SpmvIfPeAndLsqDram == OffChip(SpmvIfPeAndLsq)
GetTanhDram == OffChip(GetTanh)
GetTanhDoubleDram == OffChip(GetTanhDouble)
VecTransDram == OffChip(VecTrans)
FloydWarshallDram == OffChip(FloydWarshall)
BitonicSortDram == OffChip(BitonicSort)

=============================================================================
