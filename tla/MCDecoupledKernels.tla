-------------------------- MODULE MCDecoupledKernels --------------------------
(* DecoupledKernels on the kernels of the experiments and a few more. *)
EXTENDS DecoupledKernels, ExampleKernels

\* for (i) { x = in::read(); if (hist[x] > 0) hist[x] += 1; out::write(x); }
StreamHistogram ==
  FunctionOf(<<Block(1, <<>>, <<2>>, {}),
               Block(2, <<Phi(1, 1 :> 0 @@ 5 :> 6)>>, <<3, 6>>, {1}),
               Block(3, <<Receive(2, "in"), Load(3, "hist", 2)>>, <<4, 5>>, {3}),
               Block(4, <<Calc(4, "add", {3}), Store(5, "hist", 2, 4)>>, <<5>>, {}),
               Block(5, <<Send(7, "out", 2), Calc(6, "add", {1})>>, <<2>>, {}),
               Block(6, <<>>, <<>>, {})>>, {}, <<>>)

\* for (i) { d = A[i]; sums[i] = s; <more>
\*           if (<test>) { s += s * s; A[idxs[i]] = d + s; } }
\* filter_sum_2 with the sums kept: that s is used outside of its branch makes
\* its element take and return it with each execution.
FilterSums(more, test) ==
  FunctionOf(<<Block(1, <<>>, <<2>>, {}),
               Block(2, <<Phi(1, 1 :> 0 @@ 5 :> 11), Phi(2, 1 :> 0 @@ 5 :> 10)>>, <<3, 6>>, {1}),
               Block(3, <<Load(3, "A", 1), Load(4, "idxs", 1), Store(12, "sums", 1, 2), Calc(5, "fadd", {3})>> \o more,
                     <<4, 5>>, {test}),
               Block(4, <<Calc(6, "fmul", {2}), Calc(7, "fadd", {2, 6}), Calc(8, "fadd", {5, 7}),
                          Store(9, "A", 4, 8)>>, <<5>>, {}),
               Block(5, <<Phi(10, 3 :> 2 @@ 4 :> 7), Calc(11, "add", {1})>>, <<2>>, {}),
               Block(6, <<>>, <<>>, {})>>, {"A"}, <<>>)
FilterSumsByIndex == FilterSums(<<>>, 4)
FilterSumsByValue == FilterSums(<<>>, 3)
FilterSumsTagged == FilterSums(<<Store(13, "A", 1, 5)>>, 4)
FilterSumsPoisoned == FilterSums(<<Store(13, "A", 1, 5)>>, 3)
\* The first, once for each iteration of a loop around it.
FilterSumsNested ==
  FunctionOf(<<Block(1, <<>>, <<2>>, {}),
               Block(2, <<Phi(14, 1 :> 0 @@ 8 :> 15)>>, <<3, 9>>, {14}),
               Block(3, <<>>, <<4>>, {}),
               Block(4, <<Phi(1, 3 :> 0 @@ 7 :> 11), Phi(2, 3 :> 0 @@ 7 :> 10)>>, <<5, 8>>, {1}),
               Block(5, <<Load(3, "A", 1), Load(4, "idxs", 1), Store(12, "sums", 1, 2), Calc(5, "fadd", {3})>>,
                     <<6, 7>>, {4}),
               Block(6, <<Calc(6, "fmul", {2}), Calc(7, "fadd", {2, 6}), Calc(8, "fadd", {5, 7}),
                          Store(9, "A", 4, 8)>>, <<7>>, {}),
               Block(7, <<Phi(10, 5 :> 2 @@ 6 :> 7), Calc(11, "add", {1})>>, <<4>>, {}),
               Block(8, <<Calc(15, "add", {14})>>, <<2>>, {}),
               Block(9, <<>>, <<>>, {})>>, {"A"}, <<>>)
Own == <<FilterSumsByIndex, FilterSumsByValue, FilterSumsTagged, FilterSumsPoisoned, FilterSumsNested,
         OffChip(FilterSumsByValue), OffChip(FilterSumsPoisoned)>>

\* How often a function stays in each of its loops.
Bounded(functions, trips) == [n \in DOMAIN functions |-> functions[n] @@ [trips |-> trips]]

All ==
  Bounded(<<HistogramIf, IfMul, Histogram2Addresses1Decoupled, HistogramIf2, MaximalMatching, ChaosNcg,
            FilterSum, NestedIfMul, GetTanhIf, HistogramDram2Loops, SpmvIf, StreamHistogram,
            HistogramIf3, Histogram, GetTanhDouble, VecTrans, GetTanh, Gsum, EvalPos, VecNormTrans,
            HistogramIfDram, HistogramDram, ChaosNcgDram, GetTanhDram, GetTanhDoubleDram, VecTransDram,
            IfMul2, DoitgenTriple, SpmvIfPeAndLsq, Bnn, Histogram2Addresses, Spmv, HistogramTest, SpmvIf2,
            HistogramDram2Loops1Nested, MaximalMatchingDram, SpmvDram, Gesummv, Covariance,
            HistogramDram4Loops1TripleNested>>, 2)
  \o Bounded(<<Histogram2Addresses1Speculated, MaximalMatching5Stores, FilterSum2, FilterSum2Dram,
               DoitgenTriple2, BnnDram, SpmvIfPeAndLsqDram, HistogramDram2Loops2Lsqs,
               FloydWarshall, BitonicSort, FloydWarshallDram, BitonicSortDram>>, 1)
  \o Bounded(Own, 2)

ElementsWithInputs == Bounded(<<IfMul, SpmvIf>>, 1)
ElementWithQueue == Bounded(<<HistogramDram2Loops2Lsqs>>, 1)
===============================================================================
