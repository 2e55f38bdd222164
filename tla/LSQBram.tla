------------------------------- MODULE LSQBram -------------------------------
(***************************************************************************)
(* The load-store queue kernel for on-chip arrays                          *)
(* (src/lsq/LoadStoreQueueBRAM.hpp) with the two kernels that use it: the  *)
(* address generation unit (AGU), which sends the addresses of all loads   *)
(* and stores, and the compute unit (CU), which receives load values and   *)
(* sends store values.  The three run concurrently, joined by FIFO pipes.  *)
(*                                                                         *)
(* One iteration of the kernel's II=1 loop is one action.  Its stages are  *)
(* operators on the registers, composed in the order of the source.        *)
(*                                                                         *)
(* A definition named Slip... is a plausible mistake in the definition     *)
(* that follows it; no action uses one.                                    *)
(***************************************************************************)
EXTENDS MemoryProgram

CONSTANTS StQSize, LdQSize,      \* ST_Q_SIZE, LD_Q_SIZE
          UseSpeculation,        \* USE_SPECULATION
          TagMod,                \* tags are unsigned, modulo 2^32 in the code
          JunkTags,              \* values an uninitialised tag may hold
          ReqDepth, LdValDepth, StValDepth  \* pipe capacities

(* With more than MAX_INLINED_ST_VAL_MUX = 3 store value ports the values   *)
(* come through a TagMux kernel and the queue sees one port.               *)
ASSUME QueueAssumption ==
  /\ NumStVals <= 3
  /\ StQSize \in Nat /\ StQSize >= 2
  /\ LdQSize \in Nat /\ LdQSize >= 2
  /\ UseSpeculation \in BOOLEAN
  /\ TagMod \in Nat \ {0}
  /\ JunkTags \subseteq 0 .. TagMod - 1 /\ JunkTags # {}
  /\ ReqDepth \in Nat \ {0} /\ LdValDepth \in Nat \ {0} /\ StValDepth \in Nat \ {0}

(* Without speculation no store is poisoned. *)
ASSUME SpeculationAssumption ==
  UseSpeculation \/ \A p \in Programs : \A s \in 1 .. Len(p.stores) : p.stores[s].ok

VARIABLES
  prog,                                   \* the program the kernels run
  aguSt, aguLd,                           \* AGU: requests sent
  cuSt, got, cuEnded,                     \* CU: values sent, values read, end sent
  stReqPipe, ldReqPipe, stValPipe, ldValPipe, endPipe,
  data, inFlight,                         \* DATA, and the store still in the pipeline
  stQ, lastStReqTag,                      \* st_alloc_*, last_st_req_tag
  ldQ, ldVal,                             \* ld_*, ld_val
  stValRead, stValReadSucc, nextStValTag, \* registers of the store value mux
  arrived, returned,                      \* history: store values taken, load values returned
  done                                    \* the kernel has left its loop

aguVars == <<aguSt, aguLd>>
cuVars == <<cuSt, got, cuEnded>>
lsqVars == <<data, inFlight, stQ, lastStReqTag, ldQ, ldVal, stValRead,
             stValReadSucc, nextStValTag, arrived, returned, done>>
vars == <<prog, aguVars, cuVars, stReqPipe, ldReqPipe, stValPipe, ldValPipe,
          endPipe, lsqVars>>

------------------------------------------------------------------------------
(* Records.  The load id is a history field: no rule of the kernel reads it. *)
InvalidAddr == -1
QAddr == Addr \cup {InvalidAddr}
Tags == 0 .. TagMod - 1
SlipTagNeverWraps(n) == n
Tag(n) == n % TagMod

StReq == [addr : Addr, tag : Tags]
LdReq == [addr : Addr, tag : Tags, port : LdPorts, id : Nat]
StValTok == [value : Nat, tag : Tags, valid : BOOLEAN]
LdValTok == [value : Nat, id : Nat]
StEntry == [addr : QAddr, tag : Tags, valid : BOOLEAN]
LdEntry == [addr : Addr, tag : Tags, valid : BOOLEAN, valValid : BOOLEAN,
            isSafe : BOOLEAN, port : LdPorts, id : Nat]
Write == [addr : QAddr, value : Nat]

EmptySt == [addr |-> InvalidAddr, tag |-> 0, valid |-> FALSE]
EmptyLd == [addr |-> 0, tag |-> 0, valid |-> FALSE, valValid |-> FALSE,
            isSafe |-> FALSE, port |-> 0, id |-> 0]
NoStVal == [value |-> 0, tag |-> 0, valid |-> FALSE]
NoWrite == [addr |-> InvalidAddr, value |-> 0]

InlinedMux == NumStVals > 1

Init ==
  /\ prog \in Programs
  /\ aguSt = 0 /\ aguLd = 0
  /\ cuSt = 0 /\ got = <<>> /\ cuEnded = FALSE
  /\ stReqPipe = <<>> /\ ldReqPipe = <<>> /\ endPipe = <<>>
  /\ stValPipe = [k \in StPorts |-> <<>>]
  /\ ldValPipe = [k \in LdPorts |-> <<>>]
  /\ data = [a \in Addr |-> 0] /\ inFlight = NoWrite
  /\ stQ = [i \in 1 .. StQSize |-> EmptySt] /\ lastStReqTag = 0
  /\ ldQ = [i \in 1 .. LdQSize |-> EmptyLd] /\ ldVal = 0
  /\ stValRead = [k \in StPorts |-> NoStVal]
  /\ stValReadSucc = [k \in StPorts |-> FALSE]
  /\ nextStValTag = Tag(1)
  /\ arrived = 0 /\ returned = 0
  /\ done = FALSE

------------------------------------------------------------------------------
(* The AGU sends the requests in program order, blocking on a full pipe.  A *)
(* coupled kernel makes the request just before the access itself.          *)
MayRequest == prog.decoupled \/ (aguSt = cuSt /\ aguLd = Len(got))

CanSendLoad == AtLoad(prog, aguSt, aguLd) /\ MayRequest /\ Len(ldReqPipe) < ReqDepth
CanSendStore == AtStore(prog, aguSt, aguLd) /\ MayRequest /\ Len(stReqPipe) < ReqDepth

AguSendLoad ==
  /\ CanSendLoad
  /\ LET op == prog.loads[aguLd + 1] IN
     ldReqPipe' = Append(ldReqPipe, [addr |-> op.addr, tag |-> Tag(op.tag),
                                     port |-> op.port, id |-> aguLd + 1])
  /\ aguLd' = aguLd + 1
  /\ UNCHANGED <<prog, aguSt, cuVars, stReqPipe, stValPipe, ldValPipe, endPipe, lsqVars>>

AguSendStore ==
  /\ CanSendStore
  /\ stReqPipe' = Append(stReqPipe, [addr |-> prog.stores[aguSt + 1].addr,
                                     tag |-> Tag(aguSt + 1)])
  /\ aguSt' = aguSt + 1
  /\ UNCHANGED <<prog, aguLd, cuVars, ldReqPipe, stValPipe, ldValPipe, endPipe, lsqVars>>

(* The CU runs the program in order: a load blocks on the value pipe of its *)
(* port, a store (poisoned or not) writes a tagged value to its port.       *)
CanReadLoad == AtLoad(prog, cuSt, Len(got)) /\ ldValPipe[prog.loads[Len(got) + 1].port] # <<>>
CanWriteStore ==
  /\ AtStore(prog, cuSt, Len(got))
  /\ prog.decoupled \/ aguSt > cuSt
  /\ Len(stValPipe[prog.stores[cuSt + 1].port]) < StValDepth
CanEnd == AtEnd(prog, cuSt, Len(got)) /\ ~cuEnded

CuReadLoad ==
  /\ CanReadLoad
  /\ LET k == prog.loads[Len(got) + 1].port IN
     /\ got' = Append(got, Head(ldValPipe[k]).value)
     /\ ldValPipe' = [ldValPipe EXCEPT ![k] = Tail(@)]
  /\ UNCHANGED <<prog, aguVars, cuSt, cuEnded, stReqPipe, ldReqPipe, stValPipe, endPipe, lsqVars>>

CuWriteStore ==
  /\ CanWriteStore
  /\ LET op == prog.stores[cuSt + 1] IN
     stValPipe' = [stValPipe EXCEPT ![op.port] =
       Append(@, [value |-> cuSt + 1, tag |-> Tag(cuSt + 1), valid |-> op.ok])]
  /\ cuSt' = cuSt + 1
  /\ UNCHANGED <<prog, aguVars, got, cuEnded, stReqPipe, ldReqPipe, ldValPipe, endPipe, lsqVars>>

(* At the function's exit block the CU tells the queue to stop. *)
CuEnd ==
  /\ CanEnd
  /\ cuEnded' = TRUE
  /\ endPipe' = Append(endPipe, TRUE)
  /\ UNCHANGED <<prog, aguVars, cuSt, got, stReqPipe, ldReqPipe, stValPipe, ldValPipe, lsqVars>>

------------------------------------------------------------------------------
(* Stages of one iteration.  Pipes have latency, so a non-blocking read may *)
(* miss a token that was already written: vals are the store value ports    *)
(* that deliver in this iteration.                                          *)
SlipPollsOverHeldValue(vals) == {k \in vals : stQ[1].valid /\ stValPipe[k] # <<>>}
Polled(vals) == {k \in vals : stQ[1].valid /\ ~stValReadSucc[k] /\ stValPipe[k] # <<>>}
SlipMatchingIgnoresTag == {k \in StPorts : stQ[1].valid /\ stValReadSucc[k]}
Matching == {k \in StPorts : /\ stQ[1].valid /\ stValReadSucc[k]
                             /\ stValRead[k].tag = nextStValTag}

StValArrived(vals) == IF InlinedMux THEN Matching # {} ELSE Polled(vals) # {}
(* The ports are visited in order, so the last match decides the value. *)
StVal == IF InlinedMux THEN stValRead[CHOOSE k \in Matching : \A j \in Matching : j <= k]
                       ELSE Head(stValPipe[0])
SlipStValAlwaysValid(vals) == StValArrived(vals)
StValValid(vals) == StValArrived(vals) /\ (UseSpeculation => StVal.valid)

(* Rule for returning the load value to the client.  The memory read is of *)
(* the old data: it does not see the store of the previous iteration.      *)
SlipIsBypassAnyTag(vals) == StValValid(vals) /\ stQ[1].addr = ldQ[1].addr
IsBypass(vals) == /\ StValValid(vals)
                  /\ stQ[1].addr = ldQ[1].addr
                  /\ stQ[1].tag = ldQ[1].tag
Returning(vals) == ldQ[1].valid /\ (IsBypass(vals) \/ ldQ[1].isSafe)
ReturnValue(vals) == IF ldQ[1].valValid THEN ldVal
                     ELSE IF IsBypass(vals) THEN StVal.value
                     ELSE data[ldQ[1].addr]
PipeSucc(vals) == Returning(vals) /\ Len(ldValPipe[ldQ[1].port]) < LdValDepth

LdQAfterReturn(vals) ==
  IF ~Returning(vals) THEN ldQ
  ELSE [ldQ EXCEPT ![1].valid = ~PipeSucc(vals), ![1].valValid = ~PipeSucc(vals)]

(* Rule for reading a load request into the last slot; the flags of the    *)
(* slot are left as they are.                                              *)
LdReqTaken(q, ldRdy) == ~q[LdQSize].valid /\ ldRdy /\ ldReqPipe # <<>>
LdQAfterRequest(q, ldRdy) ==
  IF ~LdReqTaken(q, ldRdy) THEN q
  ELSE LET r == Head(ldReqPipe) IN
       [q EXCEPT ![LdQSize].addr = r.addr, ![LdQSize].tag = r.tag, ![LdQSize].valid = TRUE,
                 ![LdQSize].port = r.port, ![LdQSize].id = r.id]

(* Rule for setting ld_is_safe, on the first two entries. *)
SlipSafeBeforeAddressesArrive(e) ==
  e.valid /\ \A i \in 1 .. StQSize : ~(stQ[i].addr = e.addr /\ stQ[i].tag <= e.tag)
SlipSafeIgnoresEqualTag(e) ==
  /\ e.valid /\ e.tag <= lastStReqTag
  /\ \A i \in 1 .. StQSize : ~(stQ[i].addr = e.addr /\ stQ[i].tag < e.tag)
SlipSafeOnlyWhenQueueEmpty(e) ==
  e.valid /\ e.tag <= lastStReqTag /\ \A i \in 1 .. StQSize : ~stQ[i].valid
SafeNow(e) ==
  /\ e.valid
  /\ e.tag <= lastStReqTag
  /\ \A i \in 1 .. StQSize : ~(stQ[i].addr = e.addr /\ stQ[i].tag <= e.tag)
LdQAfterMark(q) ==
  [i \in 1 .. LdQSize |->
     [q[i] EXCEPT !.isSafe = @ \/ (i \in {1, 2} /\ SafeNow(q[i]))]]

SlipShiftForgetsSafe(q) ==
  IF q[1].valid THEN q
  ELSE [i \in 1 .. LdQSize |-> IF i < LdQSize THEN [q[i + 1] EXCEPT !.isSafe = FALSE] ELSE EmptyLd]
SlipShiftPastWaitingHead(q) ==
  [i \in 1 .. LdQSize |-> IF i < LdQSize THEN q[i + 1] ELSE EmptyLd]
LdQAfterShift(q) ==
  IF q[1].valid THEN q
  ELSE [i \in 1 .. LdQSize |-> IF i < LdQSize THEN q[i + 1] ELSE EmptyLd]

(* Rule for shifting the store queue and reading a store request.  With no *)
(* request the new entry is invalid and its tag is left uninitialised.     *)
SlipShiftOnlyOnValue(vals) == StValArrived(vals)
SlipShiftAlways(vals) == TRUE
StQShifts(vals) == StValArrived(vals) \/ ~stQ[1].valid
StReqTaken(vals, stRdy) == StQShifts(vals) /\ stRdy /\ stReqPipe # <<>>
NewStEntry(vals, stRdy, junk) ==
  IF StReqTaken(vals, stRdy)
  THEN [addr |-> Head(stReqPipe).addr, tag |-> Head(stReqPipe).tag, valid |-> TRUE]
  ELSE [addr |-> InvalidAddr, tag |-> junk, valid |-> FALSE]
StQAfterShift(vals, stRdy, junk) ==
  IF ~StQShifts(vals) THEN stQ
  ELSE [i \in 1 .. StQSize |-> IF i < StQSize THEN stQ[i + 1]
                               ELSE NewStEntry(vals, stRdy, junk)]

(* The end signal is polled only when the head of the store queue is free. *)
EndSeen(endRdy) == ~stQ[1].valid /\ endRdy /\ endPipe # <<>>

------------------------------------------------------------------------------
(* The groups of registers and pipes an iteration updates. *)
StoreValues(vals) ==
  /\ stValPipe' = [k \in StPorts |-> IF k \in Polled(vals) THEN Tail(stValPipe[k]) ELSE stValPipe[k]]
  /\ IF InlinedMux
     THEN /\ stValRead' = [k \in StPorts |-> IF k \in Polled(vals) THEN Head(stValPipe[k])
                                                                   ELSE stValRead[k]]
          /\ stValReadSucc' = [k \in StPorts |-> (k \in Polled(vals) \/ stValReadSucc[k])
                                                 /\ k \notin Matching]
     ELSE UNCHANGED <<stValRead, stValReadSucc>>
  /\ nextStValTag' = IF InlinedMux /\ StValArrived(vals) THEN Tag(nextStValTag + 1) ELSE nextStValTag
  /\ arrived' = IF StValArrived(vals) THEN arrived + 1 ELSE arrived

Memory(vals) ==
  /\ data' = IF inFlight.addr \in Addr THEN [data EXCEPT ![inFlight.addr] = inFlight.value] ELSE data
  /\ inFlight' = IF StValValid(vals) THEN [addr |-> stQ[1].addr, value |-> StVal.value] ELSE NoWrite

Loads(vals, ldRdy) ==
  /\ ldVal' = IF Returning(vals) THEN ReturnValue(vals) ELSE ldVal
  /\ ldValPipe' = IF PipeSucc(vals)
       THEN [ldValPipe EXCEPT ![ldQ[1].port] = Append(@, [value |-> ReturnValue(vals), id |-> ldQ[1].id])]
       ELSE ldValPipe
  /\ returned' = IF PipeSucc(vals) THEN returned + 1 ELSE returned
  /\ LET q == LdQAfterReturn(vals) IN
     /\ ldReqPipe' = IF LdReqTaken(q, ldRdy) THEN Tail(ldReqPipe) ELSE ldReqPipe
     /\ ldQ' = LdQAfterShift(LdQAfterMark(LdQAfterRequest(q, ldRdy)))

StoreRequests(vals, stRdy, junk) ==
  /\ stQ' = StQAfterShift(vals, stRdy, junk)
  /\ stReqPipe' = IF StReqTaken(vals, stRdy) THEN Tail(stReqPipe) ELSE stReqPipe
  /\ lastStReqTag' = IF StReqTaken(vals, stRdy) THEN Head(stReqPipe).tag ELSE lastStReqTag

Iterate(vals, ldRdy, stRdy, endRdy, junk) ==
  /\ ~done
  /\ StoreValues(vals)
  /\ Memory(vals)
  /\ Loads(vals, ldRdy)
  /\ StoreRequests(vals, stRdy, junk)
  /\ done' = EndSeen(endRdy)
  /\ endPipe' = IF EndSeen(endRdy) THEN Tail(endPipe) ELSE endPipe
  /\ UNCHANGED <<prog, aguVars, cuVars>>

(* An iteration in which every token already written is delivered. *)
IterateEagerly == \E junk \in JunkTags : Iterate(StPorts, TRUE, TRUE, TRUE, junk)

Agu == AguSendLoad \/ AguSendStore
Cu == CuReadLoad \/ CuWriteStore \/ CuEnd
Lsq == \E vals \in SUBSET StPorts, ldRdy, stRdy, endRdy \in BOOLEAN, junk \in JunkTags :
         Iterate(vals, ldRdy, stRdy, endRdy, junk)

Next == Agu \/ Cu \/ Lsq

Spec == Init /\ [][Next]_vars

(* Hardware kernels never stop clocking, and pipe latency is finite.  The  *)
(* queue is fair by itself; the properties say what they need of the       *)
(* kernels that use it.                                                    *)
ClockSpec == Spec /\ WF_vars(IterateEagerly)
Fairness == WF_vars(Agu) /\ WF_vars(Cu)

------------------------------------------------------------------------------
(* Correctness. *)

(* The store requests the queue has taken from its pipe. *)
Accepted == aguSt - Len(stReqPipe)

(* Every register and pipe holds a value of its kind. *)
TypeOK ==
  /\ prog \in Programs
  /\ aguSt \in Nat /\ aguLd \in Nat /\ cuSt \in Nat
  /\ got \in Seq(Nat) /\ cuEnded \in BOOLEAN
  /\ stReqPipe \in Seq(StReq) /\ ldReqPipe \in Seq(LdReq) /\ endPipe \in Seq(BOOLEAN)
  /\ stValPipe \in [StPorts -> Seq(StValTok)]
  /\ ldValPipe \in [LdPorts -> Seq(LdValTok)]
  /\ data \in [Addr -> Nat] /\ inFlight \in Write
  /\ stQ \in [1 .. StQSize -> StEntry] /\ lastStReqTag \in Tags
  /\ ldQ \in [1 .. LdQSize -> LdEntry] /\ ldVal \in Nat
  /\ stValRead \in [StPorts -> StValTok]
  /\ stValReadSucc \in [StPorts -> BOOLEAN]
  /\ nextStValTag \in Tags
  /\ arrived \in Nat /\ returned \in Nat
  /\ done \in BOOLEAN

(* The point of the queue: every load the kernel has completed returned    *)
(* what program order says, although loads run ahead of stores (the safe   *)
(* and bypass rules, lines 360-428).                                       *)
LoadsReturnProgramOrder ==
  \A l \in 1 .. Len(got) : IsSequentialValue(prog, got[l], l)

(* A load marked safe has no read-after-write hazard left: every older     *)
(* store's address has been compared (line 410), none that still waits for *)
(* its value writes the load's address, and the write still travelling to  *)
(* the memory port, which the old-data read would miss (line 296), is to   *)
(* another address.                                                        *)
HazardFree(l) ==
  /\ prog.loads[l].tag <= Accepted
  /\ \A s \in arrived + 1 .. prog.loads[l].tag : prog.stores[s].addr # prog.loads[l].addr
  /\ inFlight.addr # prog.loads[l].addr
SafeLoadHasNoHazard ==
  \A i \in 1 .. LdQSize : ldQ[i].valid /\ ldQ[i].isSafe => HazardFree(ldQ[i].id)

(* The comment on the safe rule by itself (line 410): a load is marked     *)
(* safe only once all previous store addresses arrived.                    *)
SafeOnlyAfterAddressesArrived ==
  \A i \in 1 .. LdQSize :
    ldQ[i].valid /\ ldQ[i].isSafe => prog.loads[ldQ[i].id].tag <= Accepted

(* Of the store value ports only one holds the next tag (line 111), so the *)
(* order in which the unrolled multiplexer visits them does not matter,    *)
(* and a tag that matched is gone from every port.                         *)
OnlyOneStoreValueMatches ==
  /\ Cardinality(Matching) <= 1
  /\ \A k \in StPorts : stValReadSucc[k] => stValRead[k].value > arrived

(* Memory, with the write in flight, is the effect of the stores whose     *)
(* value arrived: every one is paired with its own address (line 354), and *)
(* poisoned ones leave no trace.                                           *)
Committed(a) == IF inFlight.addr = a THEN inFlight.value ELSE data[a]
MemoryIsProgramPrefix ==
  \A a \in Addr : IsLatest(prog, Committed(a), a, arrived)

(* The valid entries of the store queue are the accepted stores that wait  *)
(* for a value, each once, oldest first, whatever bubbles lie between them *)
(* (lines 451-477); an empty entry matches no load (line 453).             *)
HoldsStores(q, lo, hi) ==
  /\ \A i \in 1 .. StQSize :
       IF q[i].valid THEN q[i].tag \in lo + 1 .. hi /\ q[i].addr = prog.stores[q[i].tag].addr
                     ELSE q[i].addr = InvalidAddr
  /\ \A i, j \in 1 .. StQSize : i < j /\ q[i].valid /\ q[j].valid => q[i].tag < q[j].tag
  /\ \A s \in lo + 1 .. hi : \E i \in 1 .. StQSize : q[i].valid /\ q[i].tag = s
StoreQueueHoldsPending == arrived <= Accepted /\ HoldsStores(stQ, arrived, Accepted)

(* The load requests the queue has taken from its pipe. *)
AcceptedLds == aguLd - Len(ldReqPipe)

(* Nothing is lost or reordered on the way of a load: the value pipes hold *)
(* the loads answered and not yet read, each on its own port (line 375),   *)
(* the load queue those accepted and not yet answered, oldest first.       *)
LoadValuesInOrder ==
  /\ Len(got) <= returned
  /\ \A k \in LdPorts : \A i \in 1 .. Len(ldValPipe[k]) :
       /\ ldValPipe[k][i].id \in Len(got) + 1 .. returned
       /\ prog.loads[ldValPipe[k][i].id].port = k
  /\ \A k \in LdPorts : \A i, j \in 1 .. Len(ldValPipe[k]) :
       i < j => ldValPipe[k][i].id < ldValPipe[k][j].id
  /\ \A l \in Len(got) + 1 .. returned :
       \E i \in 1 .. Len(ldValPipe[prog.loads[l].port]) : ldValPipe[prog.loads[l].port][i].id = l

HoldsLoads(q, lo, hi) ==
  /\ \A i \in 1 .. LdQSize : q[i].valid => q[i].id \in lo + 1 .. hi
  /\ \A i, j \in 1 .. LdQSize : i < j /\ q[i].valid /\ q[j].valid => q[i].id < q[j].id
  /\ \A l \in lo + 1 .. hi : \E i \in 1 .. LdQSize : q[i].valid /\ q[i].id = l
LoadQueueInOrder == returned <= AcceptedLds /\ HoldsLoads(ldQ, returned, AcceptedLds)

LoadsStayInOrder == LoadValuesInOrder /\ LoadQueueInOrder

(* Once a load is marked as safe, it cannot go back to unsafe (line 424),  *)
(* and a load whose value is latched keeps that value until the client has *)
(* taken it (line 366), wherever the shifts move it.                       *)
LatchedValueIsKept ==
  [][\A i, j \in 1 .. LdQSize :
       ldQ[i].valid /\ ldQ'[j].valid /\ ldQ[i].id = ldQ'[j].id =>
         /\ ldQ[i].isSafe => ldQ'[j].isSafe
         /\ ldQ[i].valValid => ldQ'[j].valValid /\ ldVal' = ldVal]_vars

(* The kernels never wait for one another in a circle: until the queue has  *)
(* left its loop, the AGU or the CU can go on, or an iteration that gets    *)
(* what is in the pipes moves something.  The queue blocks on nothing; the  *)
(* two others block on its bounded pipes, its bounded queues fill, and a    *)
(* load waits for stores whose values come after it.                        *)
AguCanGo == CanSendLoad \/ CanSendStore
CuCanGo == CanReadLoad \/ CanWriteStore \/ CanEnd
Bubble(q) == ~q[1].valid /\ \E i \in DOMAIN q : q[i].valid
StoresCanGo == StValArrived(StPorts) \/ Polled(StPorts) # {} \/ StReqTaken(StPorts, TRUE) \/ Bubble(stQ)
LoadsCanGo ==
  \/ PipeSucc(StPorts) \/ LdReqTaken(LdQAfterReturn(StPorts), TRUE) \/ Bubble(ldQ)
  \/ SafeNow(ldQ[1]) /\ ~ldQ[1].isSafe
NoDeadlock == ~done => AguCanGo \/ CuCanGo \/ StoresCanGo \/ LoadsCanGo \/ EndSeen(TRUE)

(* All three kernels finish: no pipe, queue or multiplexer they block on   *)
(* stays full or empty for ever, and leaving the loop early strands nobody.*)
AllKernelsFinish == Fairness => <>(done /\ AtEnd(prog, aguSt, aguLd) /\ cuEnded)

(* Loads are executed early (file header, lines 5-6): a load at the head   *)
(* with every older address known and none of them equal is answered       *)
(* without waiting for any store value, i.e. even if the CU stops here.    *)
ReadyAtHead(l) ==
  /\ ldQ[1].valid /\ ldQ[1].id = l
  /\ prog.loads[l].tag <= Accepted
  /\ \A s \in arrived + 1 .. prog.loads[l].tag : prog.stores[s].addr # ldQ[1].addr
LoadsPassUnrelatedStores ==
  \A l \in 1 .. 3 : l <= Len(prog.loads) =>
    (ReadyAtHead(l) ~> (returned >= l \/ ldQ[1].valValid \/ done))

(* The queue implements a plain array: the abstract memory is the real one *)
(* overlaid with the write in flight and with the values the CU has sent   *)
(* that still wait in pipes and registers.                                 *)
SentValues ==
  (UNION {{stValPipe[k][i].value : i \in {j \in DOMAIN stValPipe[k] : stValPipe[k][j].valid}} : k \in StPorts})
  \cup {stValRead[k].value : k \in {j \in StPorts : stValReadSucc[j] /\ stValRead[j].valid}}
SentTo(a) == {s \in SentValues : prog.stores[s].addr = a}
AbstractMem ==
  [a \in Addr |-> IF SentTo(a) = {} THEN Committed(a)
                  ELSE CHOOSE s \in SentTo(a) : \A r \in SentTo(a) : r <= s]
Sequential == INSTANCE SequentialMemory WITH mem <- AbstractMem, st <- cuSt
ImplementsSequentialMemory == Sequential!Spec
=============================================================================
