# Verification of elastic-sycl-hls

The repository makes high-level synthesis of SYCL kernels *elastic*: compiler
passes cut a kernel into concurrent kernels joined by FIFO pipes, and memory
accesses whose dependencies are only known at run time go through load-store
queues (LSQs). This directory holds TLA+ models of the passes, of the kernels they
produce and of the queues, TLC configurations that check them on small instances,
and TLAPS proofs of what matters most for every instance.

    tlc -config bram_safety.cfg MCLSQBram      # model-check one run
    tlapm LSQBramProofs.tla                    # check the proofs of one module

## 1. The system

### Components

| component | code | state | operations | modules |
|---|---|---|---|---|
| on-chip LSQ | `lsq/LoadStoreQueueBRAM.hpp` | array `DATA`, store queue (`st_alloc_*`), load queue (`ld_*`), latched value, last store tag, registers of the store value mux | one II=1 loop iteration: take a store value and commit, return a load value, take a load request, mark loads safe, shift both queues, take a store request, see the end signal | `LSQBram` |
| tag multiplexers | same file 84-224, `lsq/LoadStoreQueueDRAM.hpp` 125-160 | one held request per port, next tag | poll ports, forward the request whose tag is next, end | `TagMux` |
| off-chip LSQ | `lsq/LoadStoreQueueDRAM.hpp` | allocation queue, commit queue, one load queue per port, end signal | store stage, a load stage per port; store port, load ports and load muxes as kernels of their own | `LSQDram` |
| control dependence graph | `lib/CDG.cpp` | dependence edges | build, query | `ControlDependence` |
| data hazard analysis | `lib/DataHazardAnalysis.cpp` | hazard clusters, speculation and poison maps | decide decoupling, hoist requests (Algorithm 1), place poisons (Algorithm 2), size the store queue | `DataHazards` |
| recurrence analysis | `lib/CDDDAnalysis.cpp` | recurrence paths | find blocks and loops worth decoupling | `Recurrences` |
| analysis printer, report | `lib/ElasticAnalysisPrinter.cpp`, `include/AnalysisReportSchema.h` | rewrite rules, ports, elements | make rules, compose decoupled kernels, serialise | `RewriteRules`, `KernelComposition` |
| transformation: AGU and main kernel, block and loop PEs, store tags | `lib/ElasticTransform.cpp` | a copy of the function per kernel | split code, apply each rule, delete what is dead | `KernelRewriting` |
| pipe deduplication | `lib/PipeDeduplicationPass.cpp` | calls of each pipe | delete duplicate writes, forward reads | `PipeDeduplication` |
| the pass pipeline | `elastic_pass.sh`, scripts | the intermediate files | run the passes in order, generate pipes and kernels | `ElasticCompiler` (text generation left out) |
| the kernels at run time | what the above generates | position, values, store and load tags, predicate of each kernel | send, receive, access memory, branch | `KernelExecution`, `DecoupledKernels` |
| experiments | `experiments/*` | - | the functions to compile | `KernelNotation`, `ExampleKernels` |
| small passes, SYCL utilities | `lib/HoistConstantGepTransform.cpp`, `lib/DDGDotPrinter.cpp`, `include_sycl` | - | clean-ups, printing, compile-time helpers | none |

### How they interact

    function -> hazards, recurrences, control dependences -> report of rules
             -> one copy of the function per kernel, edited by its rules
             -> pipes of the program made point-to-point -> kernels

    AGU --requests--> [tag mux] --> LSQ --load values--> main kernel (CU) <--> PEs
                                     ^                       |                  |
                                     +-----[tag mux]---------+ store values, <--+
                                                               end signal

The AGU and the main kernel follow the same control flow and never talk to each
other: their requests meet only in the LSQ, by order and by tag. A store gets the next
tag, a load the tag of the youngest store before it. Store values carry no
address and store requests no value, so a value must meet its own request.
Block and loop processing elements (PEs) hang off the main kernel: predicates and
values go in, values come out; if a PE writes to a queue, the store tag and the poison
predicates travel with them. The analysis decides all of it at compile time and
hands it to the transformation as a report of rewrite rules. The rules of one kernel
never see those of another: that the pipes balance is nowhere checked by the compiler.

### What is hard

* **Interleaving and latency.** Every pipe has latency; a non-blocking read may
  miss a token that was written. Three to a dozen kernels run at once.
* **Order.** Loads overtake stores; values of several store instructions merge;
  memory ports are not synchronised with one another; poisons are placed edge by edge
  but must come out in the order of the requests they answer.
* **Stale state.** The memory read of an iteration sees old data; a safe flag must
  not outlive its load; rules name blocks that other rules have edited.
* **Boundaries.** Full pipes (answers latched and retried), two-entry queues,
  queue length against store latency, wrapping tags.
* **Ending.** The queue stops on a signal that may come while requests are under
  way; every other kernel must still finish.
* **Speculation.** Requests sent on paths not taken must be poisoned, once, in
  order.

### What makes each component correct

* LSQs: every load returns what program order says (they implement a plain
  array); poisoned stores leave no trace; loads do pass unrelated stores; the
  kernels around a queue never wait for one another in a circle; all
  kernels finish; off-chip, nothing is lost when the queue stops.
* Tag multiplexers: the output is the requests in program order; none lost or
  confused with one a whole tag range away; the oldest request can always move; they end.
* Speculation: on every path a hoisted request is settled once, by a value or by a poison,
  and no loaded value decides whether a decoupled kernel sends a request.
* The compiled kernels, PEs, tags and pipes together: they write each memory as the original
  function does, in its order; nobody is left waiting, but a PE for a queue that has stopped; no
  pipe has two ends of a kind; and what is left over at the end is just the stores that a queue
  stopped over.

The list of hazards, each at its line with the properties that watch it, is in
`PROJECT.json`.

## 2. Plan

In order of importance, and what became of it:

1. **LSQBram**, with `MemoryProgram` (what the kernels run) and the abstract
   specification `SequentialMemory`. *Done.*
2. **TagMux**, one model for the four multiplexer kernels. *Done.*
3. **LSQDram**, with its port kernels, implementing the same
   `SequentialMemory`. *Done.*
4. **LSQBramProofs**, **LSQBramSafety**: `IInv` is inductive, hence loads return
   program order for every program and size; **LSQBramRefinement**: the queue implements
   `SequentialMemory`. *Done.*
5. **Speculation** (Algorithms 1 and 2), **processing elements**, **store tags** and the
   **analyses**. Planned as separate modules on enumerated control flow graphs; *done* as one chain
   instead. The hard properties relate what different passes decide, and the
   functions that matter are those the front end produces: `DecoupledKernels` takes the
   kernels of the experiments through every pass and runs the result against the original.
6. **TagMuxProofs**: program order for every number of ports, with tags that wrap. *Done.*
7. **LSQDramProofs**, **LSQDramSafety**, **LSQDramRefinement**: settled reads, program order and
   `SequentialMemory` for every number of ports, queue size and store latency. *Done.*
8. **BramHasNoDeadlock**, **OldestRequestCanMove** and **LSQDramDeadlock**: what is safety in
   "all kernels finish", proved for every size. *Done.*
9. Left: invariants of `DecoupledKernels` that do not depend on what the passes compute;
   composition of the queue models themselves with the compiled kernels (`DecoupledKernels` uses
   what `SequentialMemory` promises instead).

## 3. The modules and the code

### Queues and multiplexers

**MemoryProgram** is the data the kernels run on: a sequence of stores (address,
poisoned or not, value port) and a sequence of loads (address, tag, port). The tags
fix their interleaving, which is exactly what the passes encode with them
(`ElasticTransform.cpp` 342-345, 399-404). Store number s writes the value s, so
every value names its store. `decoupled` says whether the address generation
runs on its own.

**SequentialMemory** is the promise: one operation at a time on a plain array.

**LSQBram** has the kernel's registers as variables under the source's names
(`st_alloc_addr`/`tag`/`addr_valid` are the fields of `stQ[i]`, the load arrays those of
`ldQ[i]`; arrays start at 1 here). `Iterate` is one iteration of the loop. Its stages are
operators composed in source order, because each rule reads registers the previous one
updated: `LdQAfterShift(LdQAfterMark(LdQAfterRequest(LdQAfterReturn(..))))`.
Non-blocking reads take a Boolean that says whether a waiting token is
delivered in this iteration, which is the pipe's latency. `inFlight` is the store
of the previous iteration, that the memory read does not yet see (the
`ivdep`/OLD_DATA comments at 294-299). The AGU sends
requests, blocking on a full pipe; the CU reads load values and writes store
values. Inlined and absent value multiplexers are both modelled (`InlinedMux`).
`arrived` and `returned` count the store values taken and loads answered; they, `id`
fields and `got` are history, and no rule reads them.

**TagMux** is one algorithm under four names. An iteration polls the
ports that hold nothing and compares those that do; a request chosen is written
blocking, which is a step of its own (`WriteChosen`).

**LSQDram** splits the loop body at its blocking writes: `StoreStage`, then
`LoadStage(k)` for each port. `StorePort`, `LoadPort` and `LoadMux` are the port
kernels; `PortEnds` their end signals. The store port's pipe stands for its
load-store unit too. The commit queue's length and the bound on the store latency are
two constants, so the assumption that ties them is explicit.

**BoundedPrograms** enumerates programs for TLC. **LSQBramInv**, **TagMuxInv** and
**LSQDramInv** hold the inductive invariants; **LSQBramProofs**, **LSQBramSafety**,
**LSQBramRefinement**, **TagMuxProofs**, **LSQDramProofs**, **LSQDramSafety**,
**LSQDramRefinement** and **LSQDramDeadlock** the proofs; **MC...** the instances.

The guard of a blocking step is a definition of its own (`CanSendLoad`, `CanWriteStore`,
`CanIssue(k)`, `MaySend`, ...), which the action and the deadlock properties share.

### Compiler

A function is a record (module **ControlFlow**): blocks, successors, instructions with their kind,
memory, address and operands. The module also has the helpers of `CommonLLVM.h` and the
dominators, post-dominators and loops that the passes take from LLVM. What only LLVM can say
(which addresses scalar evolution predicts, latencies, components of the dependence graph) comes with
the function; **KernelNotation** derives it from the blocks, and **ExampleKernels** writes
down the functions.

* **ControlDependence** is `CDG.cpp`, edge kinds by reachability included.
* **DataHazards** is `DataHazardAnalysis.cpp`. One round of `hoistSpeculativeRequests` is
  one action of the compiler (`HoistRequests`), repeated until nothing moves.
* **Recurrences** is `CDDDAnalysis.cpp`: the paths around a recurrence, each path's delay, the
  blocks and loops whose decoupling pays, and the values they need.
* **RewriteRules** makes the rules of `ElasticAnalysisPrinter.cpp`. **KernelComposition** is
  `composeDecoupledKernels`, one rule at a time since the code appends to the vector it
  visits, and the report: what `FromJson` reads back is not all that was known
  (`numStoresInLoop`).
* **KernelRewriting** is `ElasticTransform.cpp` on a kernel record: `SplitCode`, one
  operator per rule, the blocks added for predicates and poisons, and dead code. A rule that
  uses a block no rule has made sets `crashed` (a null pointer in the code), which is the end
  of the compiler's behaviour (phase `"crashed"`).
* **PipeDeduplication** edits all kernels at once, in any order of the kernels: the pass keeps
  them in a map ordered by address.
* **ElasticCompiler** is the pipeline, a pass or a round of a pass to an action.

### Kernels at run time

**KernelExecution** says what an operation does to the thread that runs it. Values are
symbolic: an instruction, a version of the memory it read, its operands. Two values
are equal only if every program gives them the same data, so comparing the kernels with the
function compares them for all data. A value a kernel does not have is `Undef`, which spreads.

**DecoupledKernels** first runs the original function. The outcome of a branch is free, but the
same for the same tested values (`choice`), and kept for the kernels. What the function leaves in
each memory and pipe is `expected`. `Deploy` then starts a thread for every kernel, and
they run in every interleaving (`SendMessage`, `ReceiveMessage`, `Access`, `Branch`) with
the queues (`TakeStoreRequest`, `ShiftStores`, `TakeStoreValue`, `AnswerLoad`, `EndQueue`). A queue
is what `LSQBram`, `TagMux` and `LSQDram` are shown to be: it takes requests and values of several
ports in tag order and answers a load with what the stores up to its tag left. Its stores are a
shift register of the report's length: while the head is empty (`HeadIsEmpty`) it may take
a request, shift a store to the head, or stop on the end signal, whatever is still behind the
head or in a pipe (`LoadStoreQueueBRAM.hpp` 292, `LoadStoreQueueDRAM.hpp` 200). So a queue
may stop over stores. `FinishesLikeTheProgram` says that what is missing from a memory at the
end is a suffix of its stores, whose values are still in the value pipes, and that the queue
and its pipes hold as many requests as values; every other message has been taken.

**SequentialProgram** is the promise: a trace of writes per memory and pipe is said first, and then
each is written in its own order.

### Mistakes

Definitions named `Slip...` are plausible mistakes, each placed before the definition
it imitates; no specification uses one. They show that a property is able to fail.

## 4. The runs

| run | instance | shows |
|---|---|---|
| `bram_safety` | all programs of up to 3 stores (at most one poisoned of three) and 2 loads, 2 addresses, decoupled, queues of 2, pipes of 1 | loads return program order; safe loads have no hazard; memory is a prefix of the program; the store queue holds the pending stores; latched values survive; the queue implements `SequentialMemory` |
| `bram_ports` | 2 stores, 2 loads, 2 load ports, 2 value ports, 3 tags, decoupled and coupled | types; no deadlock (`NoDeadlock`); the inlined value mux never matches twice and loses no value (`SentValuesHeld`); nothing is lost or reordered on a load's way; `IInv` is an invariant |
| `bram_live` | 2 stores, some poisoned, and 1 load, or 2 stores and 2 loads; 2 value ports, request pipes of 2 | all kernels finish; a load without a hazard is answered by the clock alone |
| `bram_wrap` | 4 stores, 4 tags | *violation*: after the tag wraps, a load is marked safe too early |
| `mux_merge` | 2 ports: 4 requests of a writer per port, or 6 of one writer whose tags wrap while the queue may stop early; 4 tags | program order, nothing lost, no two matches, the oldest request can move (`OldestCanMove`), everything forwarded, the mux ends; `MuxInv` is an invariant |
| `dram_safety` | 2 stores, 2 loads, 2 load and 2 value ports, store latency 2, decoupled | types, program order, settled reads, safe loads; the value mux never matches twice and loses nothing (`SentValuesHeld`); refinement; `IInv` is an invariant |
| `dram_live` | 2 stores and 2 loads, poisoned stores, or 3 stores and 5 loads; 1 load port, store value pipe as long as the store queue, decoupled and coupled | poisoned stores leave no trace; no deadlock (`NoDeadlock`), even when a load that cannot be issued halts the loop; all kernels finish with the store port drained |
| `dram_stop` | one store, not poisoned | *violation*: the queue stops with a store it has accepted, whose value was sent, not committed |
| `dram_parallel` | one load to one port ahead of several to the other | *violation*: the loop deadlocks between two load ports |
| `kernels` | 59 functions, 51 experiments and 8 of the model's own, through the whole compiler; 13 end there at a missing block, the kernels of the other 46 run with pipes of one message in every interleaving | hoisted requests settled once; address generation runs ahead; pipes have two ends; the kernels write what the function writes, in its order, and miss only stores a queue stopped over; nobody waits for ever but a PE for a stopped queue |
| `missing_block` | a block PE with hoisted inputs, a loop PE with inputs | *violation*: the rule that reads the input uses a block that a later rule makes, a null pointer |
| `element_stop` | `histogram_dram_2loops_2lsqs`, whose first loop is a PE without inputs | *violation*: the queue stops while the PE still has a store to send |

### Bounds and why they are enough

* Two-entry queues make every slot a boundary: head, tail, bubbles between them.
  The source needs at least two (`ld_is_safe` is computed for the first two).
* Two addresses: equal or different is all any rule asks.
* Two or three stores give a store that commits, one that waits and one whose
  address has not arrived; two loads give a latched answer with one behind it.
* Pipes of one slot make full pipes frequent. `bram_live` needs request pipes
  that hold `NumStVals * StValDepth` requests: with shorter ones, the CU may run so far ahead
  that the queue, stopped early, strands the AGU on a full pipe (see hazards).
* Tags: `bram_ports` uses the smallest range that does not wrap, `mux_merge` one
  that wraps; one narrower fails in both.
* `dram_*`: the commit queue is exactly as long as the store latency; one entry
  less breaks `MemoryReadsAreSettled`.
* `bram_safety` and `dram_safety` take decoupled programs only: all that `decoupled` does is to lift
  guards of the AGU and the CU, so a coupled program's steps are among those of the decoupled
  one. `bram_ports` and `dram_live` have both, since waiting can cost progress.
* `dram_live` has, besides the small programs, some with five loads on their port, two more than the pipes
  there hold, behind two of three stores: the loop is halted while the CU still has to write them. The
  store value pipe holds as many values as the store queue has entries, the least that `NoDeadlock`
  requires; with one fewer the loop is halted for ever (see below). Poisoned stores come with one
  load at most, as in `bram_live`. Request pipes of two, for the reason given for `bram_live`.
* `JunkTags` are the values a tag the source leaves uninitialised may hold; only
  invalid entries have one, so a single value is enough for the runs. The proofs
  are for any set.
* Addresses and ports are chosen up to renaming (the first load is to
  address 0, and so on).
* `kernels`: every function decides at most twice to stay in each of its loops (once for the
  twelve largest; the model's own functions always twice), so that a recurrence goes round, a PE is entered again after a
  reset, and a second iteration meets what the first left behind. Pipes of one message block
  as early as any. The compiler has no bound: it takes the functions whole.

### Reductions and idealisations of `kernels`

* Kernels take their branches first (`NoBranchLeft`). A branch reads and writes only its own thread
  and nothing disables it, so every state in which none is left is reached all the same.
* Operations nobody else can see (arithmetic, loads of memory nobody writes) are done
  together with the operation before them.
* The rules of a kernel are applied in the order they were pushed, as in the code. In 13 of the
  experiments that meets a null pointer (`missing_block`): `if_mul`, `filter_sum`, `gsum`,
  `eval_pos`, `vec_norm_trans`, `doitgen_triple` and `doitgen_triple_2`, `histogram_test`,
  `filter_sum_2` and its off-chip form have a block PE with a hoisted input or output; `spmv_if`
  and its two variants with an element and a queue have a loop PE with an input. For these the properties of
  the analyses hold, no kernel exists, and the run-time properties say nothing. What other
  experiments do not reach, the model's own functions do: in `FilterSums...` the sum is used
  outside its branch, so that nothing is hoisted, and the block PE stores to a queue, takes store
  tags, receives poisons and, in `FilterSumsNested`, is reset. `StreamHistogram` has pipes of the program.
* A queue answers a load when all older stores have their values; the code may answer earlier, when the
  older stores are to other addresses. So the main kernel never runs as far ahead of address
  generation here as it may in the code, where a queue stopped early can strand the
  AGU on a full pipe. The queue models have the code's own test.
* The vector of rules has room for what `composeDecoupledKernels` appends while it iterates over it;
  otherwise its behaviour is undefined.
* Loops are in the form before LLVM rotates them, and an address that no load computes is
  predictable. The rotations of `get_tanh`'s CORDIC loop are one instruction, and what `#if TEST` adds to an
  experiment is left out, except in `filter_sum_2`.

### Fairness

Kernels are hardware: they clock for ever, and pipe latency is finite. `ClockSpec`
gives weak fairness to an iteration that is delivered all that was written.
What a property needs of the AGU and the CU it states itself (`Fairness => ...`), so that
`LoadsPassUnrelatedStores` holds even when the CU stops. In `LSQDram` the stages of the loop
take turns, so a stage that polls is not continuously enabled: there the
eager stages have strong fairness, the port kernels weak fairness.

`DecoupledKernels` needs none. Its steps are never idle (nothing polls) and a function's loops are
bounded, so every behaviour is finite; that it ends well is the absence of any other state in which
nobody can go on, `NobodyWaitsForEver`, and TLC's deadlock check.

### What the violations say

* `bram_wrap`: line 410 of the on-chip queue says a load is safe only "if previous store
  addresses arrived", and 411 tests `ld_tag <= last_st_req_tag` on unsigned tags, which
  wrap. It needs 2^32 stores; the model has four tags. Equality of tags, all
  that the multiplexers use, is safe (`mux_merge`, `MergesInProgramOrder`).
* `dram_stop`: line 199 of the off-chip queue says it can stop only "if the commit queue
  has cleared", and 200 tests one entry of the allocation queue. The AGU sends the one store, the CU its
  value and the end signal; the queue sees the signal with entry 0 empty, takes the request
  into its last entry in the same iteration, and stops. The on-chip queue
  has the same test at 292, where a store lost at the end is lost in an array
  that dies with the kernel.
* `dram_parallel`: line 294 says "All loads proceed in parallel", but each port's
  writes block the loop they share. A deadlock needs a port to fill its pipes ahead of
  the compute unit, some two dozen loads with the depths the scripts generate. One port
  is enough when the store queue is longer than the value pipe, whose depth is fixed
  (`ASTTransform.py` 152: 16): loads pass stores whose values do not fit, and then
  halt the loop that would take them. **DramHasNoOtherDeadlock** says that these two are
  all: with one port and `StQSize <= StValDepth`, or with coupled address generation, there is none.
* `missing_block`: `AnalysisReportSchema.h` 21-22 says that the enum of rule types is "the
  easiest order in which the transformations should be performed"; there a PE's predicate rule,
  which makes its blocks, comes before the rules of its inputs. The printer pushes the inputs
  first (`ElasticAnalysisPrinter.cpp` 276-277 before 314-315, for loops 355-356 before 392-393), and
  the report and the loop over its rules (`AnalysisReportSchema.h` 443-444, 457-461;
  `ElasticTransform.cpp` 991) keep that order, so `ElasticTransform.cpp` 651, 684 or 796 uses a
  block that is still null.
* `element_stop`: each queue gets its end signal "at the end of the function"
  (`ElasticAnalysisPrinter.cpp` 223), but that is the end of the main kernel, which
  does not wait for its PEs (`ElasticTransform.cpp` 514). The PE then waits for the value of its
  load for ever, and the host for the PE. `NobodyWaitsForEver` allows just that, a PE that
  waits for a stopped queue, and nothing else.

## 5. The proofs

All are for every array size, queue size, pipe depth, number of ports (on chip up to
three value ports, line 76), tag range and program.

`LSQBramProofs`:

* **TypeCorrect**: `Spec => []TypeOK`. `TypeOK` is inductive by itself; one lemma per
  kernel (`AguType`, `CuType`, `IterateType`), and within an iteration one step per group
  of registers.
* the one-state lemmas on the inductive invariant `IInv` (module `LSQBramInv`):
  `HeadStore` (the head of the store queue is the oldest store without a value),
  `ArrivingValue` (the value that arrives is the head's own), `CommitIffNotPoisoned`,
  `UnreadLoad`, `HeadLoad`, and `ReturnedValue`: whichever way the head load gets its value
  - bypass, latched, or memory - it is the program-order one.

`LSQBramSafety`:

* **InvariantHolds**: `Spec => []IInv`, and from it **LoadsReturnInProgramOrder**,
  **SafeMeansHazardFree**, **MemoryFollowsProgram**, **StoreQueueIsExact** and
  **LoadsKeepTheirOrder**;
* **LatchedValuesStay**: `Spec => LatchedValueIsKept`, an action property. `IterateKeepsLoads`
  follows one load through the four stages of the load queue; `IInv` gives that no two entries
  hold the same load and that the request just taken is a new one.

`LoadsReturnProgramOrder` is far from inductive. `IInv` adds what it rests on: requests are in order,
the two queues hold exactly the accepted and unfinished operations in order,
values in pipes are paired with their stores, memory with the write in flight is the
effect of the stores whose value arrived, safe loads have no hazard, and the CU has not
passed an unread load. The last is what keeps a younger store from overwriting memory
before an older load reads it.

The steps of the AGU and the CU touch little of `IInv`; lemmas `...Untouched` carry the
rest over. An iteration has one lemma per group of registers (`StepStoreValues`,
`StepMemory`, `StepStoreQueue`, `StepLoadQueue`, `StepLoadValues`), and `StepLoadQueue` one
per stage of the load queue (`StageReturn`, `StageRequest`, `StageMark`, `StageShift`), tied by the
predicate `Staged`. The safe rule is the crux: `SafeIsClear` shows that what it
compares rules out every store that waits for a value, `ClearIsHazardFree` that this survives the
iteration in which the next value arrives.

Assumptions: `SizesAssumption`, `ProgramsAssumption`, `QueueAssumption`,
`SpeculationAssumption`, and, for everything on `IInv`, `NoTagWrap` (fewer stores than tags;
`bram_wrap` shows why).

`LSQBramRefinement`:

* **SentValuesAreHeld**: `Spec => []SentValuesHeld`, an invariant relative to `IInv`: the values on
  their way are exactly those sent and not arrived, each once, at its own port, oldest first,
  through the registers of the inlined multiplexer. Hence **OnlyOneValueMatches**.
* **QueueImplementsMemory**: `Spec => ImplementsSequentialMemory`. The abstract array is `data` with
  the write in flight and the values on their way laid over it. `SentValuesHeld` makes that,
  at each address, the latest store the CU has sent, which is unique (`LatestIsUnique`). So
  `CuWriteStore` is `Store`, `CuReadLoad` is `Load` by `LoadsReturnProgramOrder`, and the steps of the AGU and of the
  queue itself leave the abstract array alone, although they move what it is made of.

`TagMuxProofs`, for every number of ports, pipe depth, program and tag range:

* **MuxTypeCorrect**: `TypeOK`, without any assumption on tags or initial registers.
* **MuxInvariantHolds**: `MuxInv` (module `TagMuxInv`), and from it **MergesInProgramOrder**,
  **HoldsWhatWasSent** and **OnlyOneRequestMatches**.

Order is not inductive by itself: `MuxInv` adds that what was forwarded is a prefix, that each port
holds the rest of what was sent to it in ascending order, and that nothing is lost. The crux is
`MatchIsNext`: a held request whose tag is the next one *is* the next one, although
tags wrap. With one writer, requests older than a held one have all been sent, so each lies
in another port; `HeldIsNear` maps them into the `(NumPorts - 1) * (InDepth + 1)` places there
(the register and the pipe of each) by an injection, so a held request is less than a tag range
ahead, and `TagsFarApart` does the rest. Assumption: `TagsAssumption` (registers start empty; per
program, tags do not wrap, or there is one writer and more tags than those places). `mux_merge`
has both kinds of program, the second with the smallest range the assumption allows.

`LSQDramProofs`, `LSQDramSafety` and `LSQDramRefinement`, for every array, queue and pipe size,
number of load and value ports, program, and store latency no longer than the commit queue. Tags
are natural numbers in `LSQDram`, so these theorems are about programs of fewer stores than tags.

* **TypeCorrect**: `Spec => []TypeOK`, one lemma per kernel and one per stage of the queue.
* **InvariantHolds**: `IInv` (module `LSQDramInv`) is inductive, and from it
  **LoadsReturnInProgramOrder**, **ReadsFindMemorySettled**, **SafeLoadsStayClear** and
  **MemoryFollowsProgram**.
* **SentValuesAreHeld**, **OnlyOneValueMatches** and **QueueImplementsMemory**: as for the on-chip queue, with the writes in
  the store port laid over memory too. Only two steps are seen from outside
  (`OnlyCuIsSeen`): the CU's read of a load value and its write of a store value.

What is new against the on-chip queue is that nothing waits for memory. `IInv` rests on three ideas.

*Time.* A write in the store port carries its age in iterations, and the memory lands it within
`StoreLatency`. `StorePortInOrder` says that a write younger than the commit queue is long is still
in that queue, at a place that its age bounds (`Remembered`): the queue drops its oldest entry at
most once an iteration. A load is marked safe in one iteration and issued in a later one
(lines 296 and 325-357), and by then the commit queue may have moved on. `SafeLoadsAreReady`
bridges the gap. A safe load either holds the program-order value, or whatever the store port had
of its address was already old enough to land before the port runs again, so the queue
cannot enter its next iteration with that write outstanding. `LandedWrite` and `MarkedAtHand` are the
lemmas; `LatencyAssumption` is used in the second and nowhere else. Hence `MemoryReadsAreSettled`.

*Place.* The loads of a port are in its value pipe, with its load mux, in its load queue and in
its request pipe. `LoadsInOrder` says that three numbers cut the port's unread loads into those four
parts, each in ascending order. An action moves one cut by one load of the port (`IdsTail`,
`IdsAppend`, `OldestLeaves`, `OldestEnters`). `RoutesInOrder` ties the mux's selections to what
the bypass and memory pipes hold, so the mux never pairs a selection with another load's value.

*Value.* `LoadValuesCorrect` says that every value on its way to the CU is the program-order one.
A forwarded value is the youngest of its address in the commit queue, and that is the program-order
one because a safe load has no store to its address left to arrive and the CU has not passed
an unread load (`CuInOrder`). A value from memory is right because memory is settled when it is read.

A load stage composes four operators, as the code does; one lemma follows the identity of loads
through each (`IssueIds`, `RequestIds`, `MarkIds`, `ShiftIds`), and `StageQueue` joins them.

Assumptions: `SizesAssumption`, `ProgramsAssumption`, `QueueAssumption`, `SpeculationAssumption` and
`LatencyAssumption` (line 28).

### Absence of deadlock

`AllKernelsFinish` and `EveryRequestForwarded` have a part that needs no fairness: in every
reachable state somebody can move. It is stated with the guards of the steps, written out,
and not with ENABLED: a blocking call goes on when its pipe has room or a token, and an
iteration of a polling kernel counts only if it would move something.

* **OldestRequestCanMove** (`TagMuxProofs`): the oldest request the queue has not taken can be sent,
  polled, chosen, written or taken, until the queue stops. It is in the register of its port or at the
  front of its pipe (`OldestIsHeld`), or its writer may send it (`OldestIsUnsent`), and no
  younger request blocks it there. `MuxInv` gets a second part,
  `EndsInOrder`, which says that the queue's end signal and the mux's own come in that order.
* **BramHasNoDeadlock** (`LSQBramRefinement`). `AguInOrder` (lemma `AguIsInOrder`) is what
  `IInv` and `SentValuesHeld` lack: the AGU does not pass the load it sends next, a coupled one is in
  step with the CU, and the end signal waits for the queue. Then two cases: a store
  at the head of the queue, whose value is on its way, or still to come from the CU, or behind a
  load; and no store there.
* **DramHasNoOtherDeadlock** (`LSQDramDeadlock`). The argument follows what the CU
  does next. A store's value needs a place in its pipe: `ValuesAreFew` counts the values sent and not
  arrived. A load is, wherever it is held, the oldest of its port, so nothing of the port is
  in its way, and it waits for stores only; those are in the queue, and the CU has sent
  their values. A halted loop takes no values. With one port (`OnePortGoesOn`), the CU is then at
  a load whose value is in its pipe, or at a store older than the halted load, hence one in the queue.
  `PendingAreFew` bounds those by `StQSize`, so a value pipe of that depth has room for this one. A coupled
  AGU asks for one load at a time and never halts the loop (`CoupledIsNotHalted`). Behind the loop, every port kernel still running
  has something to fetch, a place to put it, or may end.

That exception is not a weakness of the proof: with it the code does deadlock (`dram_parallel`).

Only model-checked: liveness of both queues and of the multiplexers (`AllKernelsFinish`,
`LoadsPassUnrelatedStores`, `EveryRequestForwarded`, `StopsAfterQueue`), and everything about the
compiler and its kernels (the invariants of `DecoupledKernels`: `TypeOK`,
`HoistedRequestsAreSettledOnce`, `RequestsRunAhead`, `PipesHaveTwoEnds`, `FinishesLikeTheProgram`
and `NobodyWaitsForEver`). The passes are recursive functions and folds over a function's control
flow graph, and what those compute for every input takes induction over data, which is out of the
prover's reach; besides, the invariants hold of what the compiler makes of the functions of
the experiments, and are no theorem about every function, as `missing_block` and
`element_stop` show. Of liveness, the absence of deadlock is proved and what fairness adds is
left to TLC.

## 6. What is not modelled

* Initial garbage in registers that the off-chip kernels leave uninitialised
  (`LoadStoreQueueDRAM.hpp` 129-130, 167-191): they start as zero here. `TagMux` takes the
  initial registers as constants; with arbitrary ones `OnlyOneMatches` fails at once.
* Speculated addresses outside the array, in particular one equal to the invalid
  address.
* Word widths other than the tag's; stored data is the store's number, or symbolic.
* Five experiments. `sssp`, `hough_transform`, `gram_schmidt` and `delaunay_triangulation` have too
  many loops and accesses for all interleavings. `doitgen_triple_3` reaches a rule that
  `composeDecoupledKernels` drops but whose pipe call is already in the kernel: its kernel then
  writes to a pipe nobody reads and blocks once the pipe is full. The model does the
  same (the last case of `ApplyRule`), so the function is not among those of `kernels`.
* The run time of PEs with hoisted dependencies and of loop PEs with inputs: their rules are modelled
  and applied, but the transformation ends at a null pointer before such a PE exists.
* A decoupled loop whose stores need tags: modelled (the advance of the main kernel's tag past the loop,
  and the count the report loses), but no experiment has one, so no run depends on it.
* Text: the JSON of the report, generated pipe declarations and kernel skeletons. What the text
  means (depths, kernels, order of passes) is in `ElasticCompiler` and `DecoupledKernels`.
* `HoistConstantGepTransform` and `DDGDotPrinter` (a clean-up and a printer) and the SYCL
  utilities (vendored compile-time helpers).
