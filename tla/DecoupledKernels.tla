-------------------------- MODULE DecoupledKernels --------------------------
(***************************************************************************)
(* The whole system: the compiler turns a function into kernels, and the   *)
(* kernels run side by side, connected by pipes and load-store queues. The *)
(* original function, run by itself, says what they should do.             *)
(*                                                                         *)
(* A load-store queue is reduced to what LSQBram and LSQDram show it does: *)
(* it takes store requests and values in the order of their tags, and      *)
(* answers a load with what the stores before it left.                     *)
(*                                                                         *)
(* A function has one more field, trips: how often it decides to stay in   *)
(* each of its loops.                                                      *)
(***************************************************************************)
EXTENDS ElasticCompiler, KernelExecution

CONSTANT PipeDepth  \* messages a pipe holds

VARIABLES
  program, choice, expected,   \* the original function: its thread, the outcomes
                               \* of its branches, and the world it leaves
  threads, pipes, queues, world

source == <<program, choice, expected>>
machine == <<threads, pipes, queues, world>>
vars == <<compiler, source, machine>>

Init ==
  /\ CompilerInit
  /\ program = <<>> /\ choice = <<>> /\ expected = World(f)
  /\ threads = <<>> /\ pipes = <<>> /\ queues = <<>> /\ world = World(f)

Unstarted == UNCHANGED <<source, machine>>
Compile ==
  \/ Analyse /\ Unstarted
  \/ FindHazards /\ Unstarted
  \/ HoistRequests /\ Unstarted
  \/ PlacePoisons /\ Unstarted
  \/ FindRecurrences /\ Unstarted
  \/ GenerateInfo /\ Unstarted
  \/ ComposeNextRule /\ Unstarted
  \/ WriteReport /\ Unstarted
  \/ TransformKernel /\ Unstarted
  \/ DeduplicatePipes /\ Unstarted

-----------------------------------------------------------------------------
(* The original function.                                                  *)

copy == KernelCopy(f)
QueueMemory(q) == f.base[hazards[q][1]]
QueueMemories == {QueueMemory(q) : q \in DOMAIN hazards}

Start ==
  /\ phase = "compiled"
  /\ phase' = "program"
  /\ program' = Started(f, copy, {})
  /\ UNCHANGED <<analyses, hazardAnalysis, cddd, report, kernels, choice, expected, machine>>

ProgramAccess ==
  /\ phase = "program"
  /\ Does(copy, program, {"instr"})
  /\ LET r == AfterAccess(f, expected, QueueMemories, program, Upcoming(copy, program).i)
     IN  /\ program' = After(f, copy, r.t)
         /\ expected' = r.world
  /\ UNCHANGED <<compiler, choice, machine>>

\* A branch goes the same way whenever it tests the same values. The number of
\* times it stays in its loop is bounded.
Stays(b, n) == LET h == li.loopFor[b] IN h # 0 /\ copy.succ[b][n] \in li.body[h]
LeavesLoop(b) == \E n \in DOMAIN copy.succ[b] : li.loopFor[b] # 0 /\ ~ Stays(b, n)
StaysTaken(b) == Cardinality({e \in DOMAIN choice : e[1] = b /\ Stays(b, choice[e])})
ProgramBranch ==
  /\ phase = "program"
  /\ AtBranch(copy, program)
  /\ LET b  == program.block
         to == copy.succ[b]
     IN  IF to = <<>>
         THEN /\ program' = [program EXCEPT !.done = TRUE]
              /\ UNCHANGED choice
         ELSE \E n \in DOMAIN to :
                /\ to[n] \in Outcomes(f, copy, program, choice)
                /\ LeavesLoop(b) /\ Stays(b, n) /\ Tested(f, program) \notin DOMAIN choice
                     => StaysTaken(b) < f.trips
                /\ program' = Enter(f, copy, program, to[n])
                /\ choice' = IF Len(to) = 1 THEN choice ELSE (Tested(f, program) :> n) @@ choice
  /\ UNCHANGED <<compiler, expected, machine>>

-----------------------------------------------------------------------------
(* The kernels.                                                            *)

\* The stores a queue has taken, how many of them have been at its head, how many
\* have got their value, and the loads it has answered.
NewQueue == [stores |-> <<>>, head |-> 0, values |-> 0, loads |-> 0, ended |-> FALSE]

Deploy ==
  /\ phase = "program"
  /\ program.done
  /\ phase' = "run"
  /\ threads' = [x \in DOMAIN kernels |-> Started(f, kernels[x], DOMAIN hazards)]
  /\ queues' = [q \in DOMAIN hazards |-> NewQueue]
  /\ UNCHANGED <<analyses, hazardAnalysis, cddd, report, kernels, source, pipes, world>>

Contents(p) == IF p \in DOMAIN pipes THEN pipes[p] ELSE <<>>
SlipRoomOffByOne(p) == Len(Contents(p)) <= PipeDepth
Room(p) == Len(Contents(p)) < PipeDepth
Appending(p, m) == (p :> Append(Contents(p), m)) @@ pipes
Taking(p) == [pipes EXCEPT ![p] = Tail(@)]

Operation(x) == Upcoming(kernels[x], threads[x])
Proceeds(x, t) == threads' = [threads EXCEPT ![x] = After(f, kernels[x], t)]

CanSend(x) == Does(kernels[x], threads[x], Sends) /\ Room(Operation(x).pipe)
SendMessage(x) ==
  /\ CanSend(x)
  /\ LET o == Operation(x)
     IN  /\ pipes' = Appending(o.pipe, SentBy(f, threads[x], o))
         /\ Proceeds(x, Counted(threads[x], o))
  /\ UNCHANGED <<compiler, source, queues, world>>

CanReceive(x) == Does(kernels[x], threads[x], Receives) /\ Contents(Operation(x).pipe) # <<>>
ReceiveMessage(x) ==
  /\ CanReceive(x)
  /\ LET o == Operation(x)
     IN  /\ pipes' = Taking(o.pipe)
         /\ Proceeds(x, ReceivedBy(threads[x], o, Head(pipes[o.pipe])))
  /\ UNCHANGED <<compiler, source, queues, world>>

\* An access the passes left in the kernel. A load of a queue's memory would
\* read the memory behind the queue's back.
CanAccess(x) == Does(kernels[x], threads[x], {"instr"})
Access(x) ==
  /\ CanAccess(x)
  /\ LET i == Operation(x).i
         r == AfterAccess(f, world, QueueMemories, threads[x], i)
     IN  IF IsLoad(f, i) /\ f.base[i] \in QueueMemories
         THEN /\ Proceeds(x, Set(threads[x], i, Undef))
              /\ UNCHANGED world
         ELSE /\ Proceeds(x, r.t)
              /\ world' = r.world
  /\ UNCHANGED <<compiler, source, pipes, queues>>

Branch(x) ==
  /\ AtBranch(kernels[x], threads[x])
  /\ LET k == kernels[x]
     IN  IF k.succ[threads[x].block] = <<>>
         THEN threads' = [threads EXCEPT ![x].done = TRUE]
         ELSE \E to \in Outcomes(f, k, threads[x], choice) :
                threads' = [threads EXCEPT ![x] = Enter(f, k, threads[x], to)]
  /\ UNCHANGED <<compiler, source, pipes, queues, world>>

-----------------------------------------------------------------------------
(* The load-store queues.                                                  *)

\* The next message in order, if the queue still runs: several pipes are merged
\* by tag.
Arrived(q, name, count, tag) ==
  {p \in DOMAIN pipes : /\ p[1] = name /\ p[2] = q /\ pipes[p] # <<>> /\ ~ queues[q].ended
                        /\ count > 1 => Head(pipes[p]).tag = tag}

\* The queue is a shift register that moves while its head is empty. Only then it
\* takes a request, into the last place.
HeadIsEmpty(q) == queues[q].head = queues[q].values
Pending(q) == Len(queues[q].stores) - queues[q].values
StoreRequests(q) ==
  IF HeadIsEmpty(q) /\ Pending(q) < report.lsqs[q].size
  THEN Arrived(q, "st_req", report.lsqs[q].numStoreReqPipes, Len(queues[q].stores) + 1)
  ELSE {}
TakeStoreRequest(q) ==
  /\ \E p \in StoreRequests(q) :
       /\ queues' = [queues EXCEPT ![q].stores =
                       Append(@, [address |-> Head(pipes[p]).v, value |-> Awaited])]
       /\ pipes' = Taking(p)
  /\ UNCHANGED <<compiler, source, threads, world>>

CanShift(q) == ~ queues[q].ended /\ HeadIsEmpty(q) /\ Pending(q) > 0
ShiftStores(q) ==
  /\ CanShift(q)
  /\ queues' = [queues EXCEPT ![q].head = @ + 1]
  /\ UNCHANGED <<compiler, source, threads, pipes, world>>

\* A value for the store at the head. Only a valid one is stored.
StoreValues(q) ==
  IF HeadIsEmpty(q) THEN {}
  ELSE Arrived(q, "st_val", report.lsqs[q].numStoreValPipes, queues[q].values + 1)
TakeStoreValue(q) ==
  /\ \E p \in StoreValues(q) :
       LET n == queues[q].values + 1
           v == Head(pipes[p]).v
       IN  /\ queues' = [queues EXCEPT ![q].stores[n].value = v, ![q].values = n]
           /\ pipes' = Taking(p)
           /\ world' = IF v = Invalid THEN world
                       ELSE Put(world, QueueMemory(q), queues[q].stores[n].address, v)
  /\ UNCHANGED <<compiler, source, threads>>

\* The n-th port of an off-chip queue takes its requests in their order; the
\* ports of an on-chip queue are merged. A load waits for the values before it.
Answer(p) == <<"ld_val", p[2], p[3]>>
SlipLoadsEarly(q) ==
  {p \in Arrived(q, "ld_req", IF report.lsqs[q].onChip THEN report.lsqs[q].numLoadPipes ELSE 1, queues[q].loads) :
     Head(pipes[p]).st <= Len(queues[q].stores) /\ Room(Answer(p))}
SafeLoads(q) ==
  {p \in Arrived(q, "ld_req", IF report.lsqs[q].onChip THEN report.lsqs[q].numLoadPipes ELSE 1, queues[q].loads) :
     Head(pipes[p]).st <= queues[q].values /\ Room(Answer(p))}
AnswerLoad(q) ==
  /\ \E p \in SafeLoads(q) :
       LET m == Head(pipes[p])
           before == SubSeq(queues[q].stores, 1, m.st)
           version == Len(SelectSeq(before, LAMBDA s : s.value \notin {Invalid, Awaited}))
           value == Made(Memory(f, QueueMemory(q)), version, {m.v})
       IN  pipes' = (Answer(p) :> Append(Contents(Answer(p)), Message(value, 0, 0))) @@ Taking(p)
  /\ queues' = [queues EXCEPT ![q].loads = @ + 1]
  /\ UNCHANGED <<compiler, source, threads, world>>

\* The queue stops at the end signal, which it reads whenever its head is empty:
\* requests and values may still be on their way, a store behind the head too.
CanEnd(q) == HeadIsEmpty(q) /\ Contents(<<"end", q, 0>>) # <<>>
EndQueue(q) ==
  /\ CanEnd(q)
  /\ pipes' = Taking(<<"end", q, 0>>)
  /\ queues' = [queues EXCEPT ![q].ended = TRUE]
  /\ UNCHANGED <<compiler, source, threads, world>>

Queue(q) == TakeStoreRequest(q) \/ ShiftStores(q) \/ TakeStoreValue(q) \/ AnswerLoad(q) \/ EndQueue(q)
Kernel(x) == SendMessage(x) \/ ReceiveMessage(x) \/ Access(x)
\* The main kernel and the address generation units have finished and every queue
\* has stopped; an element that has not finished waits for one of them.
WaitsForStopped(x) ==
  /\ x[1] = "pe"
  /\ Does(kernels[x], threads[x], Sends \cup Receives)
  /\ ~ CanSend(x) /\ ~ CanReceive(x)
  /\ LET p == Operation(x).pipe
     IN  p[1] \in {"ld_req", "ld_val", "st_req", "st_val"} /\ queues[p[2]].ended
Over ==
  /\ phase = "run"
  /\ threads[Main].done
  /\ \A x \in DOMAIN threads : threads[x].done \/ WaitsForStopped(x)
  /\ \A q \in DOMAIN queues : queues[q].ended
Finished == Over /\ \A x \in DOMAIN threads : threads[x].done
Terminated == (Over \/ phase = "crashed") /\ UNCHANGED vars

\* A branch changes nothing that others see, and no other step disables it: the
\* kernels take theirs first, and every state in which none is left to take is
\* reached all the same.
NoBranchLeft == \A x \in DOMAIN threads : ~ AtBranch(kernels[x], threads[x])
Run ==
  /\ phase = "run"
  /\ \/ \E x \in DOMAIN threads : Branch(x)
     \/ NoBranchLeft /\ \E x \in DOMAIN threads : Kernel(x)
     \/ NoBranchLeft /\ \E q \in DOMAIN queues : Queue(q)

Next == Compile \/ Start \/ ProgramAccess \/ ProgramBranch \/ Deploy \/ Run \/ Terminated

Spec == Init /\ [][Next]_vars

-----------------------------------------------------------------------------
(* Properties.                                                             *)

\* Every kernel of the report gets a thread that stays in its blocks and
\* numbers its accesses upwards; no pipe or queue holds more than it has room for, and
\* no value passes the store at the head of its queue.
TypeOK ==
  /\ DOMAIN kernels \subseteq (IF report = <<>> THEN {} ELSE Kernels(report))
  /\ DOMAIN threads \subseteq DOMAIN kernels
  /\ \A x \in DOMAIN threads :
       /\ threads[x].block \in DOMAIN kernels[x].ops
       /\ threads[x].at \in 1 .. Len(kernels[x].ops[threads[x].block]) + 1
       /\ \A q \in DOMAIN queues : threads[x].st[q] \in Nat /\ threads[x].ld[q] \in Nat
  /\ \A p \in DOMAIN pipes : Len(pipes[p]) \in 0 .. PipeDepth
  /\ \A q \in DOMAIN queues :
       /\ queues[q].values \in 0 .. queues[q].head
       /\ queues[q].head \in {queues[q].values, queues[q].values + 1} \cap (0 .. Len(queues[q].stores))
       /\ Pending(q) <= report.lsqs[q].size

\* Algorithm 2: on every path from the block a request was hoisted to until the
\* end of the iteration, either its own block runs or one poison is met, and
\* never both or two (calculatePoisonBlocks).
HoistedRequestsAreSettledOnce ==
  phase = "decouple" =>
    \A b \in Blocks(f) : \A i \in ToSet(requestMap[b]), path \in ToSet(AllBlockPathsInLoop(f, li, b)) :
      LET poisons == {n \in 1 .. Len(path) - 1 : Contains(poison[i], <<path[n], path[n + 1]>>)}
      IN  Cardinality(poisons) + (IF Contains(path, InBlock(f, i)) THEN 1 ELSE 0) = 1

\* Algorithm 1: no branch on a loaded value decides, directly or through other
\* branches, whether a decoupled kernel sends a request where it was hoisted to
\* (hoistSpeculativeRequests).
RequestsRunAhead ==
  LET controls == {<<e.src, e.dst>> : e \in cdg}
      sentIn(i) == LET holders == {b \in Blocks(f) : Contains(requestMap[b], i)}
                   IN  IF holders = {} THEN {InBlock(f, i)} ELSE holders
  IN  phase = "poison" =>
        \A q \in {x \in DOMAIN hazards : decoupled[x]} : \A i \in ToSet(hazards[q]) :
          \A b \in lod : LeadsTo(controls, b) \cap sentIn(i) = {}

\* No pipe has two writers or two readers, those of the program included
\* (elastic_pass.sh 36-37, PipeDeduplicationPass).
PipesHaveTwoEnds ==
  LET ops(x) == UNION {ToSet(kernels[x].ops[b]) : b \in DOMAIN kernels[x].ops}
      pipesOf(x, does, kind) ==
        {o.pipe : o \in {y \in ops(x) : y.do \in does}}
          \cup {<<f.base[o.i], 0, 0>> : o \in {y \in ops(x) : y.do = "instr" /\ f.kind[y.i] = kind}}
      alone(does, kind) ==
        \A x, y \in DOMAIN kernels : x # y => pipesOf(x, does, kind) \cap pipesOf(y, does, kind) = {}
  IN  phase = "compiled" => alone(Sends, "send") /\ alone(Receives, "recv")

\* When every kernel has finished, the memories and pipes of the program have got
\* what the original function gives them, but for the stores a queue has stopped
\* over (BRAM 292, DRAM 200): the values of just those are still in its pipes, with
\* as many requests waiting for them as values, and no other message is left.
LeftMessages(q, name) ==
  UNION {{p} \X DOMAIN pipes[p] : p \in {x \in DOMAIN pipes : x[1] = name /\ x[2] = q}}
FinishesLikeTheProgram ==
  Finished =>
    /\ world.received = expected.received
    /\ \A m \in DOMAIN expected.sent :
         LET values == UNION {LeftMessages(q, "st_val") : q \in {x \in DOMAIN queues : QueueMemory(x) = m}}
             lost   == {x \in values : pipes[x[1]][x[2]].v # Invalid}
             stored == Len(expected.sent[m]) - Cardinality(lost)
         IN  /\ stored >= 0
             /\ world.sent[m] = SubSeq(expected.sent[m], 1, stored)
             /\ {pipes[x[1]][x[2]].v : x \in lost}
                  = {expected.sent[m][n][2] : n \in stored + 1 .. Len(expected.sent[m])}
    /\ \A q \in DOMAIN queues :
         Pending(q) + Cardinality(LeftMessages(q, "st_req")) = Cardinality(LeftMessages(q, "st_val"))
    /\ \A p \in DOMAIN pipes : pipes[p] # <<>> => p[1] \in {"st_req", "st_val"}

\* The kernels write each memory in the order of the original function, values
\* and addresses included, whatever the interleaving.
Sequential == INSTANCE SequentialProgram WITH trace <- expected.sent, effect <- world.sent
ImplementsProgram == Sequential!Spec

\* Nobody waits for ever for a message, a predicate, or room in a pipe, but an element
\* for a queue that has stopped: until the main kernel and every address generation
\* unit have finished and every queue has stopped, and each element has finished or
\* waits for a stopped queue, some kernel or queue can go on.
NobodyWaitsForEver ==
  phase = "run" =>
    \/ Over
    \/ \E x \in DOMAIN threads : AtBranch(kernels[x], threads[x]) \/ CanAccess(x) \/ CanSend(x) \/ CanReceive(x)
    \/ \E q \in DOMAIN queues :
         StoreRequests(q) \cup StoreValues(q) \cup SafeLoads(q) # {} \/ CanShift(q) \/ CanEnd(q)

\* "The easiest order in which the transformations should be performed"
\* (AnalysisReportSchema.h 21-22): every rule finds the blocks of its element that
\* other rules make.
RulesFindTheirBlocks == phase # "crashed"

\* A queue that has stopped and has taken all that was sent to it has stored all that
\* the original function stores: its end signal is sent at the end of the function.
QueuesStopAtTheEnd ==
  \A q \in DOMAIN queues :
    /\ queues[q].ended
    /\ Pending(q) = 0
    /\ LeftMessages(q, "st_req") \cup LeftMessages(q, "st_val") = {}
    => world.sent[QueueMemory(q)] = expected.sent[QueueMemory(q)]
=============================================================================
