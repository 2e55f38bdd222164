-------------------------------- MODULE LSQDram --------------------------------
(***************************************************************************)
(* The load-store queue kernel for off-chip arrays                         *)
(* (src/lsq/LoadStoreQueueDRAM.hpp) with the kernels it works with: the    *)
(* address generation unit (AGU) and the compute unit (CU) that use it,    *)
(* one store port, and per load instruction a load port and a load mux.    *)
(* Ports and queue are not synchronised: a store is issued and forgotten,  *)
(* and a commit queue as long as the longest store latency forwards its    *)
(* value to loads that would otherwise read memory too early.              *)
(*                                                                         *)
(* The kernel's loop body is one store stage and then one load stage per   *)
(* load port; each blocks when a pipe it must write is full.               *)
(*                                                                         *)
(* A definition named Slip... is a plausible mistake in the definition     *)
(* that follows it; no action uses one.                                    *)
(***************************************************************************)
EXTENDS MemoryProgram

CONSTANTS StQSize, LdQSize,      \* ST_Q_SIZE, LD_Q_SIZE
          CommitQSize,           \* LSU_STORE_LATENCY, as the queue's length
          StoreLatency,          \* LSU_STORE_LATENCY, as a bound on the memory
          UseSpeculation,        \* USE_SPECULATION
          JunkTags,              \* values an uninitialised tag may hold
          ReqDepth, LdValDepth, StValDepth,  \* capacities of the kernel's pipes
          StPortDepth, LdPortDepth           \* and of those to the ports

ASSUME QueueAssumption ==
  /\ StQSize \in Nat /\ StQSize >= 2
  /\ LdQSize \in Nat /\ LdQSize >= 2
  /\ CommitQSize \in Nat \ {0} /\ StoreLatency \in Nat
  /\ UseSpeculation \in BOOLEAN
  /\ JunkTags \subseteq Nat /\ JunkTags # {}
  /\ \A d \in {ReqDepth, LdValDepth, StValDepth, StPortDepth, LdPortDepth} : d \in Nat \ {0}

(* Line 28: the commit queue is as long as a store may take. *)
ASSUME LatencyAssumption == StoreLatency <= CommitQSize

(* Without speculation no store is poisoned. *)
ASSUME SpeculationAssumption ==
  UseSpeculation \/ \A p \in Programs : \A s \in 1 .. Len(p.stores) : p.stores[s].ok

VARIABLES
  prog,                                   \* the program the kernels run
  aguSt, aguLd,                           \* AGU: requests sent
  cuSt, got, cuEnded,                     \* CU: values sent, values read, end sent
  stReqPipe, ldReqPipe, stValPipe, ldValPipe, endPipe,
  stage, ending, done,                    \* the LSQ loop: stage, end_signal, left
  stQ, lastStReqTag,                      \* st_alloc_*, last_st_req_tag
  commitQ,                                \* st_commit_*
  stValRead, stValReadSucc, nextStValTag, \* registers of the store value mux
  ldQ,                                    \* ld_*, is_bypass, bypass_val
  stPortPipe, selPipe, addrPipe, bypassPipe, memValPipe,
  running,                                \* the port kernels still running
  data,                                   \* off-chip memory
  arrived                                 \* history: store values taken

aguVars == <<aguSt, aguLd>>
cuVars == <<cuSt, got, cuEnded>>
valueVars == <<stValRead, stValReadSucc, nextStValTag, arrived>>
storeVars == <<stQ, lastStReqTag, commitQ, valueVars>>
portVars == <<stPortPipe, selPipe, addrPipe, bypassPipe, memValPipe, running, data>>
lsqVars == <<stage, ending, done, storeVars, ldQ>>
vars == <<prog, aguVars, cuVars, stReqPipe, ldReqPipe, stValPipe, ldValPipe, endPipe,
          lsqVars, portVars>>

------------------------------------------------------------------------------
(* Records.  Load ids are history fields: no rule of the kernels reads them. *)
InvalidAddr == -1
QAddr == Addr \cup {InvalidAddr}

StReq == [addr : Addr, tag : Nat]
LdReq == [addr : Addr, tag : Nat, id : Nat]
StValTok == [value : Nat, tag : Nat, valid : BOOLEAN]
StEntry == [addr : QAddr, tag : Nat, valid : BOOLEAN]
LdEntry == [addr : Addr, tag : Nat, search : BOOLEAN, isSafe : BOOLEAN, bypass : Nat, id : Nat]
Commit == [addr : QAddr, value : Nat]
PortWrite == [addr : Addr, value : Nat, age : Nat]   \* to the store port
Selection == [bypass : BOOLEAN, id : Nat]            \* to a load mux
PortRead == [addr : Addr, id : Nat]                  \* to a load port
LdValTok == [value : Nat, id : Nat]                  \* a load's value
EmptySt == [addr |-> InvalidAddr, tag |-> 0, valid |-> FALSE]
EmptyLd == [addr |-> 0, tag |-> 0, search |-> FALSE, isSafe |-> FALSE, bypass |-> 0, id |-> 0]
NoStVal == [value |-> 0, tag |-> 0, valid |-> FALSE]
NoCommit == [addr |-> InvalidAddr, value |-> 0]
NoBypass == 0   \* every stored value is positive

PortKernels == {<<"StorePort", 0>>} \cup ({"LoadPort", "LoadMux"} \X LdPorts)

ValueMux == NumStVals > 1

(* The queue registers the source leaves uninitialised start as zero. *)
Init ==
  /\ prog \in Programs
  /\ aguSt = 0 /\ aguLd = 0
  /\ cuSt = 0 /\ got = <<>> /\ cuEnded = FALSE
  /\ stReqPipe = <<>> /\ endPipe = <<>> /\ stPortPipe = <<>>
  /\ stValPipe = [k \in StPorts |-> <<>>]
  /\ LET noTokens == [k \in LdPorts |-> <<>>] IN
     /\ ldReqPipe = noTokens /\ ldValPipe = noTokens /\ selPipe = noTokens
     /\ addrPipe = noTokens /\ bypassPipe = noTokens /\ memValPipe = noTokens
  /\ stage = 0 /\ ending = FALSE /\ done = FALSE
  /\ stQ = [i \in 1 .. StQSize |-> EmptySt] /\ lastStReqTag = 0
  /\ commitQ = [i \in 1 .. CommitQSize |-> NoCommit]
  /\ stValRead = [k \in StPorts |-> NoStVal]
  /\ stValReadSucc = [k \in StPorts |-> FALSE]
  /\ nextStValTag = 1 /\ arrived = 0
  /\ ldQ = [k \in LdPorts |-> [i \in 1 .. LdQSize |-> EmptyLd]]
  /\ running = PortKernels
  /\ data = [a \in Addr |-> 0]

------------------------------------------------------------------------------
(* The AGU and the CU, as for on-chip arrays, with a request pipe per load. *)
MayRequest == prog.decoupled \/ (aguSt = cuSt /\ aguLd = Len(got))
CanSendLoad ==
  /\ AtLoad(prog, aguSt, aguLd)
  /\ MayRequest
  /\ Len(ldReqPipe[prog.loads[aguLd + 1].port]) < ReqDepth
CanSendStore == AtStore(prog, aguSt, aguLd) /\ MayRequest /\ Len(stReqPipe) < ReqDepth

AguSendLoad ==
  /\ CanSendLoad
  /\ LET op == prog.loads[aguLd + 1] IN
     ldReqPipe' = [ldReqPipe EXCEPT ![op.port] =
       Append(@, [addr |-> op.addr, tag |-> op.tag, id |-> aguLd + 1])]
  /\ aguLd' = aguLd + 1
  /\ UNCHANGED <<prog, aguSt, cuVars, stReqPipe, stValPipe, ldValPipe, endPipe, lsqVars, portVars>>

AguSendStore ==
  /\ CanSendStore
  /\ stReqPipe' = Append(stReqPipe, [addr |-> prog.stores[aguSt + 1].addr, tag |-> aguSt + 1])
  /\ aguSt' = aguSt + 1
  /\ UNCHANGED <<prog, aguLd, cuVars, ldReqPipe, stValPipe, ldValPipe, endPipe, lsqVars, portVars>>

CanReadLoad == AtLoad(prog, cuSt, Len(got)) /\ ldValPipe[prog.loads[Len(got) + 1].port] # <<>>
CanWriteStore ==
  /\ AtStore(prog, cuSt, Len(got))
  /\ prog.decoupled \/ aguSt > cuSt
  /\ Len(stValPipe[prog.stores[cuSt + 1].port]) < StValDepth
CanEnd == AtEnd(prog, cuSt, Len(got)) /\ ~cuEnded

CuReadLoad ==
  /\ CanReadLoad
  /\ LET k == prog.loads[Len(got) + 1].port IN
     /\ got' = Append(got, Head(ldValPipe[k]).value)
     /\ ldValPipe' = [ldValPipe EXCEPT ![k] = Tail(@)]
  /\ UNCHANGED <<prog, aguVars, cuSt, cuEnded, stReqPipe, ldReqPipe, stValPipe, endPipe,
                 lsqVars, portVars>>

CuWriteStore ==
  /\ CanWriteStore
  /\ LET op == prog.stores[cuSt + 1] IN
     stValPipe' = [stValPipe EXCEPT ![op.port] =
       Append(@, [value |-> cuSt + 1, tag |-> cuSt + 1, valid |-> op.ok])]
  /\ cuSt' = cuSt + 1
  /\ UNCHANGED <<prog, aguVars, got, cuEnded, stReqPipe, ldReqPipe, ldValPipe, endPipe,
                 lsqVars, portVars>>

CuEnd ==
  /\ CanEnd
  /\ cuEnded' = TRUE
  /\ endPipe' = Append(endPipe, TRUE)
  /\ UNCHANGED <<prog, aguVars, cuSt, got, stReqPipe, ldReqPipe, stValPipe, ldValPipe,
                 lsqVars, portVars>>

------------------------------------------------------------------------------
(* The store stage.  vals are the store value ports whose pipe, written    *)
(* earlier, delivers in this iteration.                                    *)
SlipPollsOverHeldValue(vals) == {k \in vals : stQ[1].valid /\ stValPipe[k] # <<>>}
Polled(vals) == {k \in vals : stQ[1].valid /\ ~stValReadSucc[k] /\ stValPipe[k] # <<>>}
SlipMatchingIgnoresTag == {k \in StPorts : stQ[1].valid /\ stValReadSucc[k]}
Matching == {k \in StPorts : /\ stQ[1].valid /\ stValReadSucc[k]
                             /\ stValRead[k].tag = nextStValTag}
StValArrived(vals) == IF ValueMux THEN Matching # {} ELSE Polled(vals) # {}
StVal == IF ValueMux THEN stValRead[CHOOSE k \in Matching : \A j \in Matching : j <= k]
                     ELSE Head(stValPipe[0])
SlipStValAlwaysValid(vals) == StValArrived(vals)
StValValid(vals) == StValArrived(vals) /\ (UseSpeculation => StVal.valid)

StoreValues(vals) ==
  /\ stValPipe' = [k \in StPorts |-> IF k \in Polled(vals) THEN Tail(stValPipe[k]) ELSE stValPipe[k]]
  /\ IF ValueMux
     THEN /\ stValRead' = [k \in StPorts |-> IF k \in Polled(vals) THEN Head(stValPipe[k])
                                                                   ELSE stValRead[k]]
          /\ stValReadSucc' = [k \in StPorts |-> (k \in Polled(vals) \/ stValReadSucc[k])
                                                 /\ k \notin Matching]
     ELSE UNCHANGED <<stValRead, stValReadSucc>>
  /\ nextStValTag' = IF ValueMux /\ StValArrived(vals) THEN nextStValTag + 1 ELSE nextStValTag
  /\ arrived' = IF StValArrived(vals) THEN arrived + 1 ELSE arrived

(* A valid value is sent to the store port, blocking, and remembered in the *)
(* commit queue, which otherwise shifts until its oldest entry is in use.   *)
(* The age of a write counts the iterations since it was issued.            *)
Older(w) == [w EXCEPT !.age = @ + 1]
StorePortWrite(vals) ==
  LET waiting == [i \in 1 .. Len(stPortPipe) |-> Older(stPortPipe[i])] IN
  stPortPipe' = IF StValValid(vals)
                THEN Append(waiting, [addr |-> stQ[1].addr, value |-> StVal.value, age |-> 0])
                ELSE waiting
NewCommit(vals) == IF StValValid(vals) THEN [addr |-> stQ[1].addr, value |-> StVal.value] ELSE NoCommit
SlipCommitDropsWhenFull(vals) == commitQ[1].addr = InvalidAddr
CommitShifts(vals) == StValValid(vals) \/ commitQ[1].addr = InvalidAddr
CommitQAfterShift(vals) ==
  IF ~CommitShifts(vals) THEN commitQ
  ELSE [i \in 1 .. CommitQSize |-> IF i < CommitQSize THEN commitQ[i + 1] ELSE NewCommit(vals)]

SlipStQShiftsOnlyOnValue(vals) == StValArrived(vals)
StQShifts(vals) == StValArrived(vals) \/ ~stQ[1].valid
StReqTaken(vals, stRdy) == StQShifts(vals) /\ stRdy /\ stReqPipe # <<>>
NewStEntry(vals, stRdy, junk) ==
  IF StReqTaken(vals, stRdy)
  THEN [addr |-> Head(stReqPipe).addr, tag |-> Head(stReqPipe).tag, valid |-> TRUE]
  ELSE [addr |-> InvalidAddr, tag |-> junk, valid |-> FALSE]
StQAfterShift(vals, stRdy, junk) ==
  IF ~StQShifts(vals) THEN stQ
  ELSE [i \in 1 .. StQSize |-> IF i < StQSize THEN stQ[i + 1] ELSE NewStEntry(vals, stRdy, junk)]

EndSeen(endRdy) == ~stQ[1].valid /\ endRdy /\ endPipe # <<>>

StoreStage(vals, stRdy, endRdy, junk) ==
  /\ stage = 0 /\ ~done
  \* the memory keeps its promise: a write lands within StoreLatency iterations
  /\ \A i \in 1 .. Len(stPortPipe) : stPortPipe[i].age < StoreLatency
  /\ StValValid(vals) => Len(stPortPipe) < StPortDepth
  /\ ending' = EndSeen(endRdy)
  /\ endPipe' = IF EndSeen(endRdy) THEN Tail(endPipe) ELSE endPipe
  /\ StoreValues(vals)
  /\ StorePortWrite(vals)
  /\ commitQ' = CommitQAfterShift(vals)
  /\ stQ' = StQAfterShift(vals, stRdy, junk)
  /\ stReqPipe' = IF StReqTaken(vals, stRdy) THEN Tail(stReqPipe) ELSE stReqPipe
  /\ lastStReqTag' = IF StReqTaken(vals, stRdy) THEN lastStReqTag + 1 ELSE lastStReqTag
  /\ stage' = 1
  /\ UNCHANGED <<prog, aguVars, cuVars, ldReqPipe, ldValPipe, done, ldQ,
                 selPipe, addrPipe, bypassPipe, memValPipe, running, data>>

------------------------------------------------------------------------------
(* The load stage of port k. *)
Issuing(k) == ldQ[k][1].search /\ ldQ[k][1].isSafe

LdQAfterIssue(k) == IF Issuing(k) THEN [ldQ[k] EXCEPT ![1].search = FALSE] ELSE ldQ[k]

(* A free last slot waits for a request and is unsafe. *)
LdReqTaken(q, k, ldRdy) == ~q[LdQSize].search /\ ldRdy /\ ldReqPipe[k] # <<>>
SlipKeepsSafeFlag(q, k, ldRdy) ==
  IF LdReqTaken(q, k, ldRdy)
  THEN LET r == Head(ldReqPipe[k]) IN
       [q EXCEPT ![LdQSize].addr = r.addr, ![LdQSize].tag = r.tag, ![LdQSize].search = TRUE,
                 ![LdQSize].id = r.id]
  ELSE q
LdQAfterRequest(q, k, ldRdy) ==
  IF q[LdQSize].search THEN q
  ELSE IF LdReqTaken(q, k, ldRdy)
  THEN LET r == Head(ldReqPipe[k]) IN
       [q EXCEPT ![LdQSize].addr = r.addr, ![LdQSize].tag = r.tag, ![LdQSize].search = TRUE,
                 ![LdQSize].id = r.id, ![LdQSize].isSafe = FALSE]
  ELSE [q EXCEPT ![LdQSize].isSafe = FALSE]

(* A load is safe once every older address is known and none of the stores *)
(* that wait for a value matches; it forwards the youngest matching entry  *)
(* of the commit queue.  The first two slots are checked, in use or not.   *)
SafeNow(e) ==
  /\ e.tag <= lastStReqTag
  /\ \A i \in 1 .. StQSize : ~(stQ[i].addr = e.addr /\ stQ[i].tag <= e.tag)
SlipForwardsOldest(a) ==
  LET hits == {i \in 1 .. CommitQSize : commitQ[i].addr = a}
  IN IF hits = {} THEN NoBypass ELSE commitQ[CHOOSE i \in hits : \A j \in hits : i <= j].value
SlipForwardMissesOldest(a) ==
  LET hits == {i \in 2 .. CommitQSize : commitQ[i].addr = a}
  IN IF hits = {} THEN NoBypass ELSE commitQ[CHOOSE i \in hits : \A j \in hits : j <= i].value
Forwarded(a) ==
  LET hits == {i \in 1 .. CommitQSize : commitQ[i].addr = a}
  IN IF hits = {} THEN NoBypass ELSE commitQ[CHOOSE i \in hits : \A j \in hits : j <= i].value
LdQAfterMark(q) ==
  [i \in 1 .. LdQSize |->
     IF i \in {1, 2}
     THEN [q[i] EXCEPT !.isSafe = @ \/ SafeNow(q[i]), !.bypass = Forwarded(q[i].addr)]
     ELSE q[i]]
LdQAfterShift(q) ==
  IF q[1].search THEN q
  ELSE [i \in 1 .. LdQSize |-> IF i < LdQSize THEN q[i + 1]
                               ELSE [q[i] EXCEPT !.search = FALSE, !.isSafe = FALSE]]

SlipRoomOffByOne(pipe) == Len(pipe) <= LdPortDepth
Room(pipe) == Len(pipe) < LdPortDepth

(* A safe load at the head tells the load mux where its value comes from    *)
(* and sends the value or the address, blocking on a full pipe.             *)
CanIssue(k) ==
  Issuing(k) =>
    /\ Room(selPipe[k])
    /\ IF ldQ[k][1].bypass # NoBypass THEN Room(bypassPipe[k]) ELSE Room(addrPipe[k])
Issue(k) ==
  LET e == ldQ[k][1]
      forward == Issuing(k) /\ e.bypass # NoBypass
      fetch == Issuing(k) /\ e.bypass = NoBypass
  IN /\ CanIssue(k)
     /\ selPipe' = IF Issuing(k) THEN [selPipe EXCEPT ![k] = Append(@, [bypass |-> forward, id |-> e.id])]
                   ELSE selPipe
     /\ bypassPipe' = IF forward THEN [bypassPipe EXCEPT ![k] = Append(@, [value |-> e.bypass, id |-> e.id])]
                      ELSE bypassPipe
     /\ addrPipe' = IF fetch THEN [addrPipe EXCEPT ![k] = Append(@, [addr |-> e.addr, id |-> e.id])]
                    ELSE addrPipe

LoadStage(k, ldRdy) ==
  /\ stage = k + 1
  /\ Issue(k)
  /\ LET q == LdQAfterIssue(k) IN
     /\ ldReqPipe' = IF LdReqTaken(q, k, ldRdy) THEN [ldReqPipe EXCEPT ![k] = Tail(@)] ELSE ldReqPipe
     /\ ldQ' = [ldQ EXCEPT ![k] = LdQAfterShift(LdQAfterMark(LdQAfterRequest(q, k, ldRdy)))]
  /\ stage' = (stage + 1) % (NumLds + 1)
  /\ done' = (ending /\ k = NumLds - 1)
  /\ UNCHANGED <<prog, aguVars, cuVars, stReqPipe, stValPipe, ldValPipe, endPipe, ending,
                 storeVars, stPortPipe, memValPipe, running, data>>

------------------------------------------------------------------------------
(* The port kernels.  The store port's pipe stands for its load-store unit  *)
(* too: a write in it may reach memory at any time, in order.               *)
StorePort ==
  /\ stPortPipe # <<>>
  /\ data' = [data EXCEPT ![Head(stPortPipe).addr] = Head(stPortPipe).value]
  /\ stPortPipe' = Tail(stPortPipe)
  /\ UNCHANGED <<prog, aguVars, cuVars, stReqPipe, ldReqPipe, stValPipe, ldValPipe, endPipe,
                 lsqVars, selPipe, addrPipe, bypassPipe, memValPipe, running>>

CanFetch(k) == addrPipe[k] # <<>> /\ Room(memValPipe[k])
LoadPort(k) ==
  /\ CanFetch(k)
  /\ LET r == Head(addrPipe[k]) IN
     memValPipe' = [memValPipe EXCEPT ![k] = Append(@, [value |-> data[r.addr], id |-> r.id])]
  /\ addrPipe' = [addrPipe EXCEPT ![k] = Tail(@)]
  /\ UNCHANGED <<prog, aguVars, cuVars, stReqPipe, ldReqPipe, stValPipe, ldValPipe, endPipe,
                 lsqVars, stPortPipe, selPipe, bypassPipe, running, data>>

CanSelect(k) ==
  /\ selPipe[k] # <<>> /\ Len(ldValPipe[k]) < LdValDepth
  /\ IF Head(selPipe[k]).bypass THEN bypassPipe[k] # <<>> ELSE memValPipe[k] # <<>>
LoadMux(k) ==
  /\ CanSelect(k)
  /\ IF Head(selPipe[k]).bypass
     THEN /\ ldValPipe' = [ldValPipe EXCEPT ![k] = Append(@, Head(bypassPipe[k]))]
          /\ bypassPipe' = [bypassPipe EXCEPT ![k] = Tail(@)]
          /\ UNCHANGED memValPipe
     ELSE /\ ldValPipe' = [ldValPipe EXCEPT ![k] = Append(@, Head(memValPipe[k]))]
          /\ memValPipe' = [memValPipe EXCEPT ![k] = Tail(@)]
          /\ UNCHANGED bypassPipe
  /\ selPipe' = [selPipe EXCEPT ![k] = Tail(@)]
  /\ UNCHANGED <<prog, aguVars, cuVars, stReqPipe, ldReqPipe, stValPipe, endPipe,
                 lsqVars, stPortPipe, addrPipe, running, data>>

(* Having left its loop, the queue ends each port behind what it sent it. *)
NothingFor(kernel) ==
  CASE kernel[1] = "StorePort" -> stPortPipe = <<>>
    [] kernel[1] = "LoadPort" -> addrPipe[kernel[2]] = <<>>
    [] kernel[1] = "LoadMux" -> selPipe[kernel[2]] = <<>>
PortEnds(kernel) ==
  /\ done /\ kernel \in running
  /\ NothingFor(kernel)
  /\ running' = running \ {kernel}
  /\ UNCHANGED <<prog, aguVars, cuVars, stReqPipe, ldReqPipe, stValPipe, ldValPipe, endPipe,
                 lsqVars, stPortPipe, selPipe, addrPipe, bypassPipe, memValPipe, data>>

Agu == AguSendLoad \/ AguSendStore
Cu == CuReadLoad \/ CuWriteStore \/ CuEnd
Lsq == \/ \E vals \in SUBSET StPorts, stRdy, endRdy \in BOOLEAN, junk \in JunkTags :
            StoreStage(vals, stRdy, endRdy, junk)
       \/ \E k \in LdPorts, ldRdy \in BOOLEAN : LoadStage(k, ldRdy)
LoadPorts == \E k \in LdPorts : LoadPort(k) \/ LoadMux(k)
Next == Agu \/ Cu \/ Lsq \/ StorePort \/ LoadPorts \/ \E kernel \in PortKernels : PortEnds(kernel)

Spec == Init /\ [][Next]_vars

(* Hardware kernels never stop clocking, and pipe latency is finite: a     *)
(* stage that polls its pipes again and again is at last delivered all that *)
(* was written to them (strong, because the stages take turns).             *)
EagerStoreStage == \E junk \in JunkTags : StoreStage(StPorts, TRUE, TRUE, junk)
Fairness ==
  /\ WF_vars(Agu) /\ WF_vars(Cu) /\ WF_vars(Lsq) /\ WF_vars(StorePort)
  /\ SF_vars(EagerStoreStage) /\ \A k \in LdPorts : SF_vars(LoadStage(k, TRUE))
  /\ \A k \in LdPorts : WF_vars(LoadPort(k)) /\ WF_vars(LoadMux(k))
  /\ \A kernel \in PortKernels : WF_vars(PortEnds(kernel))
FairSpec == Spec /\ Fairness

------------------------------------------------------------------------------
(* Correctness. *)

Accepted == aguSt - Len(stReqPipe)

(* Registers hold values of their kind, pipes stay within their capacity.  *)
TypeOK ==
  /\ prog \in Programs
  /\ aguSt \in 0 .. Len(prog.stores) /\ aguLd \in 0 .. Len(prog.loads)
  /\ cuSt \in 0 .. Len(prog.stores) /\ got \in Seq(Nat) /\ cuEnded \in BOOLEAN
  /\ stReqPipe \in Seq(StReq) /\ Len(stReqPipe) <= ReqDepth
  /\ stValPipe \in [StPorts -> Seq(StValTok)] /\ endPipe \in Seq({TRUE})
  /\ \A k \in StPorts : Len(stValPipe[k]) <= StValDepth
  /\ stage \in 0 .. NumLds /\ ending \in BOOLEAN /\ done \in BOOLEAN
  /\ stQ \in [1 .. StQSize -> StEntry] /\ lastStReqTag \in Nat
  /\ \A i \in 1 .. StQSize : stQ[i].valid => stQ[i].addr \in Addr
  /\ commitQ \in [1 .. CommitQSize -> Commit]
  /\ stValRead \in [StPorts -> StValTok] /\ stValReadSucc \in [StPorts -> BOOLEAN]
  /\ nextStValTag \in Nat /\ arrived \in Nat
  /\ ldQ \in [LdPorts -> [1 .. LdQSize -> LdEntry]]
  /\ stPortPipe \in Seq(PortWrite) /\ Len(stPortPipe) <= StPortDepth
  /\ ldReqPipe \in [LdPorts -> Seq(LdReq)] /\ ldValPipe \in [LdPorts -> Seq(LdValTok)]
  /\ selPipe \in [LdPorts -> Seq(Selection)] /\ bypassPipe \in [LdPorts -> Seq(LdValTok)]
  /\ addrPipe \in [LdPorts -> Seq(PortRead)] /\ memValPipe \in [LdPorts -> Seq(LdValTok)]
  /\ \A k \in LdPorts : /\ Len(selPipe[k]) <= LdPortDepth /\ Len(addrPipe[k]) <= LdPortDepth
                        /\ Len(memValPipe[k]) <= LdPortDepth /\ Len(ldValPipe[k]) <= LdValDepth
                        /\ Len(bypassPipe[k]) <= LdPortDepth /\ Len(ldReqPipe[k]) <= ReqDepth
  /\ running \subseteq PortKernels
  /\ data \in [Addr -> Nat]

(* Every load the kernel has completed returned what program order says,   *)
(* although the ports work in parallel with one another and with the       *)
(* stores (lines 293-374).                                                 *)
LoadsReturnProgramOrder ==
  \A l \in 1 .. Len(got) : IsSequentialValue(prog, got[l], l)

(* A load that goes to memory finds it settled: nothing in the store port  *)
(* is to its address, though nothing synchronises the two ports.  This is  *)
(* what the length of the commit queue is for (lines 28, 254-262).         *)
MemoryReadsAreSettled ==
  \A k \in LdPorts : \A i \in 1 .. Len(addrPipe[k]) :
    \A j \in 1 .. Len(stPortPipe) : stPortPipe[j].addr # addrPipe[k][i].addr

(* A load marked safe stays clear of every older store that waits for its  *)
(* value (lines 325-340).                                                  *)
SafeLoadHasNoHazard ==
  \A k \in LdPorts, i \in 1 .. LdQSize :
    LET e == ldQ[k][i] IN
    e.search /\ e.isSafe =>
      /\ e.tag <= Accepted
      /\ \A s \in arrived + 1 .. e.tag : prog.stores[s].addr # e.addr

(* Of the store value ports only one holds the next tag (lines 223-237), so *)
(* the unrolled multiplexer, which lets go of every port that matches and   *)
(* keeps one value, drops none.                                             *)
OnlyOneStoreValueMatches == \A j, k \in Matching : j = k

(* Memory, with the writes still in the store port, is the effect of the   *)
(* stores whose value arrived; poisoned ones leave no trace.               *)
Issued(a) == {stPortPipe[i].value : i \in {j \in 1 .. Len(stPortPipe) : stPortPipe[j].addr = a}}
Committed(a) == IF Issued(a) = {} THEN data[a] ELSE CHOOSE v \in Issued(a) : \A w \in Issued(a) : w <= v
MemoryIsProgramPrefix ==
  \A a \in Addr : IsLatest(prog, Committed(a), a, arrived)

(* The queue stops only when every store it has accepted, and that is not   *)
(* poisoned, has got its value and is committed (line 199).                 *)
StopsOnlyWhenStoresCommitted ==
  done => \A s \in 1 .. Accepted : prog.stores[s].ok => s <= arrived

(* All loads proceed in parallel (line 294), so that every load of the     *)
(* program is answered, whichever port is ahead of the others.             *)
EveryLoadIsAnswered == <>(Len(got) = Len(prog.loads))

(* The kernels wait for one another in a circle in one case only: when the *)
(* loop is halted by a load it cannot issue (lines 298-307), and loads of  *)
(* another port, or more stores than a value pipe holds, can be between    *)
(* that load and what the CU does next.  Otherwise some kernel can go on   *)
(* until the loop ends; an iteration that gets what is in the pipes then   *)
(* moves something.  Behind the loop every port kernel can end.            *)
AguCanGo == CanSendLoad \/ CanSendStore
CuCanGo == CanReadLoad \/ CanWriteStore \/ CanEnd
PortsCanGo == stPortPipe # <<>> \/ \E k \in LdPorts : CanFetch(k) \/ CanSelect(k)
StoresCanGo ==
  \/ StValArrived(StPorts) \/ Polled(StPorts) # {} \/ StReqTaken(StPorts, TRUE)
  \/ ~stQ[1].valid /\ \E i \in 1 .. StQSize : stQ[i].valid
LoadsCanGo(k) ==
  \/ Issuing(k) \/ LdReqTaken(LdQAfterIssue(k), k, TRUE)
  \/ ~ldQ[k][1].search /\ \E i \in 1 .. LdQSize : ldQ[k][i].search
  \/ ldQ[k][1].search /\ ~ldQ[k][1].isSafe /\ SafeNow(ldQ[k][1])
Halted == \E k \in LdPorts : ~CanIssue(k)
LoopCanGo == ~Halted /\ (ending \/ EndSeen(TRUE) \/ StoresCanGo \/ \E k \in LdPorts : LoadsCanGo(k))
LoadsRunAhead == prog.decoupled /\ (NumLds > 1 \/ StQSize > StValDepth)
NoDeadlock ==
  /\ ~done => AguCanGo \/ CuCanGo \/ PortsCanGo \/ LoopCanGo \/ (Halted /\ LoadsRunAhead)
  /\ done /\ running # {} => stPortPipe # <<>> \/ \E kernel \in running : NothingFor(kernel)

(* Every kernel finishes, the port kernels too, the store port with all it *)
(* was given in memory: its event is the one the host waits for (line 392).*)
AllKernelsFinish ==
  <>(done /\ running = {} /\ AtEnd(prog, aguSt, aguLd) /\ cuEnded /\ stPortPipe = <<>>)

(* The queue implements a plain array: the memory, overlaid with the       *)
(* writes in the store port and the values the CU has sent.                *)
SentValues ==
  (UNION {{stValPipe[k][i].value : i \in {j \in DOMAIN stValPipe[k] : stValPipe[k][j].valid}} : k \in StPorts})
  \cup {stValRead[k].value : k \in {j \in StPorts : stValReadSucc[j] /\ stValRead[j].valid}}
SentTo(a) == {s \in SentValues : prog.stores[s].addr = a}
AbstractMem ==
  [a \in Addr |-> IF SentTo(a) = {} THEN Committed(a)
                  ELSE CHOOSE s \in SentTo(a) : \A r \in SentTo(a) : r <= s]
Sequential == INSTANCE SequentialMemory WITH mem <- AbstractMem, st <- cuSt
ImplementsSequentialMemory == Sequential!Spec
==============================================================================
