-------------------------------- MODULE TagMux --------------------------------
(***************************************************************************)
(* The multiplexer kernels in front of a load-store queue: StoreReqInMux,  *)
(* StoreValInMux and LoadReqInMux of src/lsq/LoadStoreQueueBRAM.hpp and    *)
(* StoreReqMux of src/lsq/LoadStoreQueueDRAM.hpp.  Requests arrive on one  *)
(* pipe per memory instruction, each with a tag numbered in program order; *)
(* the kernel holds one request per port and forwards the one whose tag is *)
(* next.  When the queue has stopped it signals the multiplexer to stop.   *)
(*                                                                         *)
(* Request n (1, 2, ...) has the tag FirstTag + n - 1, modulo TagMod.      *)
(***************************************************************************)
EXTENDS Integers, Sequences, FiniteSets

CONSTANTS NumPorts,      \* NUM_ST_REQ, NUM_ST_VAL or NUM_LDS
          FirstTag,      \* next_tag starts at 1 for stores, at 0 for loads
          TagMod,        \* tags are unsigned, modulo 2^32 in the code
          InDepth,       \* capacity of each port's pipe
          OutDepth,      \* capacity of the pipe into the queue
          InitSucc,      \* what read_succ may hold at the start,
          InitTags,      \* and the tags of the registers
          Programs       \* records of the number of requests; whether one kernel
                         \* sends them all, in program order (singleWriter); whether
                         \* the queue may stop with some outstanding (earlyStop)

ASSUME MuxAssumption ==
  /\ NumPorts \in Nat \ {0} /\ TagMod \in Nat \ {0}
  /\ FirstTag \in 0 .. TagMod - 1
  /\ InDepth \in Nat \ {0} /\ OutDepth \in Nat \ {0}
  /\ Programs \subseteq [requests : Nat, singleWriter : BOOLEAN, earlyStop : BOOLEAN]
  /\ InitSucc \subseteq BOOLEAN /\ InitSucc # {}
  /\ InitTags \subseteq 0 .. TagMod - 1 /\ InitTags # {}

VARIABLES
  program,            \* one of Programs
  portOf,             \* the port of every request, fixed by the control flow
  sent,               \* the requests written to their pipes
  inPipe, outPipe,    \* the pipes of the ports, the pipe into the queue
  reg, readSucc,      \* st_req_tuple, read_succ_tuple
  nextTag, toWrite,   \* next_tag; the request chosen and not yet written
  taken, stopped,     \* what the queue has read; the queue has stopped
  endPipe, endSignal, done

writerVars == <<program, portOf, sent>>
muxVars == <<reg, readSucc, nextTag, toWrite, endSignal, done>>
readerVars == <<taken, stopped>>
vars == <<writerVars, inPipe, outPipe, muxVars, readerVars, endPipe>>

Ports == 0 .. NumPorts - 1
NumReqs == program.requests
Reqs == 1 .. NumReqs
SlipTagNeverWraps(n) == FirstTag + n - 1
TagOf(n) == (FirstTag + n - 1) % TagMod
Request == [id : 0 .. NumReqs, tag : 0 .. TagMod - 1]
NoRequest == [id : {0}, tag : InitTags]   \* what a register holds at the start

SlipFirstTagIsNext == (FirstTag + 1) % TagMod
FirstExpected == FirstTag

Init ==
  /\ program \in Programs
  /\ portOf \in [Reqs -> Ports]
  /\ sent = {}
  /\ inPipe = [k \in Ports |-> <<>>] /\ outPipe = <<>>
  /\ reg \in [Ports -> NoRequest]
  /\ readSucc \in [Ports -> InitSucc]
  /\ nextTag = FirstExpected
  /\ toWrite = <<>>
  /\ taken = <<>> /\ stopped = FALSE
  /\ endPipe = <<>> /\ endSignal = FALSE /\ done = FALSE

(* A writer sends the requests of a port in program order and blocks on a  *)
(* full pipe.  The address generation kernel sends those of all ports;     *)
(* store values may come from loops that run as kernels of their own.      *)
MaySend(n) ==
  /\ n \notin sent
  /\ \A m \in 1 .. n - 1 : program.singleWriter \/ portOf[m] = portOf[n] => m \in sent
  /\ Len(inPipe[portOf[n]]) < InDepth
Send(n) ==
  /\ MaySend(n)
  /\ inPipe' = [inPipe EXCEPT ![portOf[n]] = Append(@, [id |-> n, tag |-> TagOf(n)])]
  /\ sent' = sent \cup {n}
  /\ UNCHANGED <<program, portOf, outPipe, muxVars, readerVars, endPipe>>

(* One iteration: the ports that hold a request compare its tag, the others *)
(* poll their pipe; polled are those whose read succeeds.                   *)
SlipMatchesAnyTag == {k \in Ports : readSucc[k]}
Matches == {k \in Ports : readSucc[k] /\ reg[k].tag = nextTag}
SlipPollsWhenAllEmpty(delivering) ==
  {k \in delivering : (\A j \in Ports : ~readSucc[j]) /\ inPipe[k] # <<>>}
SlipPollsHeldPorts(delivering) == {k \in delivering : inPipe[k] # <<>>}
Polled(delivering) == {k \in delivering : ~readSucc[k] /\ inPipe[k] # <<>>}
SlipKeepsMatched(delivering) ==
  [k \in Ports |-> readSucc[k] \/ k \in Polled(delivering)]
ReadSuccNext(delivering) ==
  [k \in Ports |-> (readSucc[k] /\ k \notin Matches) \/ k \in Polled(delivering)]
(* The last match is the one kept; a load request is told its port. *)
Chosen ==
  IF Matches = {} THEN <<>>
  ELSE LET k == CHOOSE k \in Matches : \A j \in Matches : j <= k IN
       <<[id |-> reg[k].id, port |-> k]>>

SlipEndOnlyWhileHolding == endPipe # <<>> /\ \E k \in Ports : readSucc[k]
EndSeen == endPipe # <<>>

Iterate(delivering, endRdy) ==
  /\ toWrite = <<>> /\ ~endSignal
  /\ endSignal' = (endRdy /\ EndSeen)
  /\ endPipe' = IF endSignal' THEN Tail(endPipe) ELSE endPipe
  /\ reg' = [k \in Ports |-> IF k \in Polled(delivering) THEN Head(inPipe[k]) ELSE reg[k]]
  /\ readSucc' = ReadSuccNext(delivering)
  /\ inPipe' = [k \in Ports |-> IF k \in Polled(delivering) THEN Tail(inPipe[k]) ELSE inPipe[k]]
  /\ toWrite' = Chosen
  /\ UNCHANGED <<writerVars, outPipe, nextTag, done, readerVars>>

(* The chosen request is written to the queue's pipe, blocking. *)
WriteChosen ==
  /\ toWrite # <<>>
  /\ Len(outPipe) < OutDepth
  /\ outPipe' = outPipe \o toWrite
  /\ toWrite' = <<>>
  /\ nextTag' = (nextTag + 1) % TagMod
  /\ UNCHANGED <<writerVars, inPipe, reg, readSucc, endSignal, done, readerVars, endPipe>>

Leave ==
  /\ endSignal /\ toWrite = <<>> /\ ~done
  /\ done' = TRUE
  /\ UNCHANGED <<writerVars, inPipe, outPipe, reg, readSucc, nextTag, toWrite, endSignal,
                 readerVars, endPipe>>

(* The load-store queue reads the merged requests and signals the end. *)
Take ==
  /\ outPipe # <<>> /\ ~stopped
  /\ taken' = Append(taken, Head(outPipe))
  /\ outPipe' = Tail(outPipe)
  /\ UNCHANGED <<writerVars, inPipe, muxVars, stopped, endPipe>>

Stop ==
  /\ ~stopped
  /\ program.earlyStop \/ Len(taken) = NumReqs
  /\ stopped' = TRUE
  /\ endPipe' = Append(endPipe, TRUE)
  /\ UNCHANGED <<writerVars, inPipe, outPipe, muxVars, taken>>

Writer == \E n \in Reqs : Send(n)
Mux == (\E delivering \in SUBSET Ports, endRdy \in BOOLEAN : Iterate(delivering, endRdy))
       \/ WriteChosen \/ Leave
Reader == Take \/ Stop
Next == Writer \/ Mux \/ Reader

Spec == Init /\ [][Next]_vars

(* Kernels never stop clocking and pipe latency is finite. *)
EagerMux == Iterate(Ports, TRUE) \/ WriteChosen \/ Leave
Fairness == WF_vars(Writer) /\ WF_vars(EagerMux) /\ WF_vars(Reader)
FairSpec == Spec /\ Fairness

------------------------------------------------------------------------------
(* Correctness. *)

(* Registers and pipes hold values of their kind, pipes within capacity. *)
TypeOK ==
  /\ portOf \in [Reqs -> Ports] /\ sent \subseteq Reqs
  /\ inPipe \in [Ports -> Seq(Request)] /\ \A k \in Ports : Len(inPipe[k]) <= InDepth
  /\ outPipe \in Seq([id : 0 .. NumReqs, port : Ports]) /\ Len(outPipe) <= OutDepth
  /\ toWrite \in Seq([id : 0 .. NumReqs, port : Ports]) /\ Len(toWrite) <= 1
  /\ reg \in [Ports -> Request] /\ readSucc \in [Ports -> BOOLEAN]
  /\ nextTag \in 0 .. TagMod - 1
  /\ taken \in Seq([id : 0 .. NumReqs, port : Ports])
  /\ stopped \in BOOLEAN /\ endSignal \in BOOLEAN /\ done \in BOOLEAN

(* "Only one will match": no two held requests carry the next tag, so the   *)
(* unrolled selection drops none (BRAM lines 111, 156, 205, DRAM line 144). *)
OnlyOneMatches == Cardinality(Matches) <= 1

(* The merged stream is the requests in program order, each labelled with   *)
(* the port it came from, whichever order the ports deliver in and although *)
(* tags are compared modulo the tag width.                                  *)
Merged == taken \o outPipe \o toWrite
MergedInProgramOrder ==
  \A i \in 1 .. Len(Merged) : i \in Reqs /\ Merged[i] = [id |-> i, port |-> portOf[i]]

(* A request sent and not yet forwarded is held exactly once, in its port's *)
(* pipe or register, and nothing else is held.                              *)
HeldAt(k) == (IF readSucc[k] THEN <<reg[k].id>> ELSE <<>>) \o [i \in 1 .. Len(inPipe[k]) |-> inPipe[k][i].id]
SentRequestsHeldOnce ==
  \A k \in Ports :
    LET held == HeldAt(k)
    IN /\ {held[i] : i \in 1 .. Len(held)} = {n \in sent : portOf[n] = k /\ n > Len(Merged)}
       /\ \A i, j \in 1 .. Len(held) : i < j => held[i] < held[j]

(* The oldest request the queue has not taken is never blocked, wherever it *)
(* is: its port's pipe has room for it (a pipe holds later requests only    *)
(* behind it), the register it is in is matched or empty when it is next,   *)
(* and the pipe into the queue is empty when it is chosen.  So the ports    *)
(* never wait for one another in a circle.  A queue that stops with         *)
(* everything taken leaves nothing that could keep the kernel from ending.  *)
CanMove(n) ==
  LET k == portOf[n]
  IN \/ MaySend(n)
     \/ /\ toWrite = <<>> /\ ~endSignal
        /\ \/ k \in Polled(Ports) /\ Head(inPipe[k]).id = n
           \/ k \in Matches /\ reg[k].id = n
     \/ toWrite # <<>> /\ toWrite[1].id = n /\ Len(outPipe) < OutDepth
     \/ outPipe # <<>> /\ outPipe[1].id = n
OldestCanMove ==
  /\ ~stopped /\ Len(taken) < NumReqs => CanMove(Len(taken) + 1)
  /\ stopped /\ ~program.earlyStop /\ ~done => toWrite = <<>> /\ (endSignal \/ endPipe # <<>>)

(* Every request of the program reaches the queue: the ports never wait for *)
(* one another in a circle, whatever their pipe depths.                     *)
EveryRequestForwarded == ~program.earlyStop => <>(Len(taken) = NumReqs)

(* When the queue has stopped with everything taken, so does the multiplexer *)
(* kernel.                                                                  *)
StopsAfterQueue == stopped /\ ~program.earlyStop ~> done
==============================================================================
