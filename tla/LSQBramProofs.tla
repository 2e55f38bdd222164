---------------------------- MODULE LSQBramProofs ----------------------------
(***************************************************************************)
(* Proofs about the on-chip load-store queue, for every array size, queue  *)
(* size, pipe depth, number of load ports and program.                     *)
(***************************************************************************)
EXTENDS LSQBramInv, SequenceTheorems, TLAPS

USE DEF LdPorts, StPorts, Addr, QAddr, Tags, InvalidAddr

------------------------------------------------------------------------------
(* Facts about the constants and the programs. *)

LEMMA ModType == ASSUME NEW n \in Nat PROVE Tag(n) \in Tags
BY QueueAssumption DEF Tag

LEMMA ProgramType ==
  ASSUME NEW p \in Programs
  PROVE  /\ p.stores \in Seq(StoreOp)
         /\ p.loads \in Seq(LoadOp)
         /\ \A l \in 1 .. Len(p.loads) : p.loads[l] \in LoadOp /\ p.loads[l].tag <= Len(p.stores)
         /\ \A s \in 1 .. Len(p.stores) : p.stores[s] \in StoreOp
         /\ \A l, m \in 1 .. Len(p.loads) : l <= m => p.loads[l].tag <= p.loads[m].tag
BY ProgramsAssumption DEF WellFormed

------------------------------------------------------------------------------
(* Type correctness. *)

(* A nonempty set of store value ports has a largest one: there are at     *)
(* most three.                                                             *)
LEMMA LargestPort ==
  ASSUME NEW S \in SUBSET StPorts, S # {}
  PROVE  (CHOOSE k \in S : \A j \in S : j <= k) \in S
<1>1. S \subseteq {0, 1, 2}
  BY SizesAssumption, QueueAssumption
<1>2. \E k \in S : \A j \in S : j <= k
  <2>1. CASE 2 \in S
    BY <1>1, <2>1
  <2>2. CASE 2 \notin S /\ 1 \in S
    BY <1>1, <2>2
  <2>3. CASE 2 \notin S /\ 1 \notin S
    <3>1. S = {0}
      BY <1>1, <2>3
    <3>2. QED
      BY <3>1
  <2>4. QED
    BY <2>1, <2>2, <2>3
<1>3. QED
  BY <1>2

LEMMA StValType ==
  ASSUME TypeOK, NEW vals \in SUBSET StPorts, StValArrived(vals)
  PROVE  StVal \in StValTok
<1>1. CASE InlinedMux
  <2>1. Matching \in SUBSET StPorts /\ Matching # {}
    BY <1>1 DEF StValArrived, Matching
  <2>2. QED
    BY <1>1, <2>1, LargestPort, Zenon DEF StVal, TypeOK
<1>2. CASE ~InlinedMux
  <2>1. NumStVals = 1
    BY <1>2, SizesAssumption DEF InlinedMux
  <2>2. PICK k \in vals : stValPipe[k] # <<>>
    BY <1>2 DEF StValArrived, Polled
  <2>3. k = 0 /\ stValPipe[0] \in Seq(StValTok)
    BY <2>1 DEF TypeOK
  <2>4. QED
    BY <1>2, <2>2, <2>3 DEF StVal
<1>3. QED
  BY <1>1, <1>2

LEMMA QueueHeads == TypeOK => ldQ[1] \in LdEntry /\ stQ[1] \in StEntry /\ ldQ[LdQSize] \in LdEntry
BY QueueAssumption DEF TypeOK

LEMMA ReturnValueType ==
  ASSUME TypeOK, NEW vals \in SUBSET StPorts
  PROVE  ReturnValue(vals) \in Nat
<1>1. ldQ[1].addr \in Addr
  BY QueueHeads DEF LdEntry
<1>2. IsBypass(vals) => StVal.value \in Nat
  BY StValType DEF IsBypass, StValValid, StValTok
<1>3. QED
  BY <1>1, <1>2 DEF ReturnValue, TypeOK

(* The load queue stays a queue of entries through the stages of a step. *)
LEMMA LdQType ==
  ASSUME TypeOK, NEW vals \in SUBSET StPorts, NEW ldRdy \in BOOLEAN
  PROVE  LdQAfterShift(LdQAfterMark(LdQAfterRequest(LdQAfterReturn(vals), ldRdy)))
           \in [1 .. LdQSize -> LdEntry]
<1>. DEFINE q1 == LdQAfterReturn(vals)
            q2 == LdQAfterRequest(q1, ldRdy)
            q3 == LdQAfterMark(q2)
<1>1. q1 \in [1 .. LdQSize -> LdEntry]
  <2>1. ldQ \in [1 .. LdQSize -> LdEntry]
    BY DEF TypeOK
  <2>2. PipeSucc(vals) \in BOOLEAN
    BY DEF PipeSucc, Returning
  <2>3. [ldQ[1] EXCEPT !.valid = ~PipeSucc(vals), !.valValid = ~PipeSucc(vals)] \in LdEntry
    BY <2>2, QueueHeads DEF LdEntry
  <2>4. QED
    BY <2>1, <2>3 DEF LdQAfterReturn
<1>2. q2 \in [1 .. LdQSize -> LdEntry]
  <2>1. CASE LdReqTaken(q1, ldRdy)
    <3>1. Head(ldReqPipe) \in LdReq
      BY <2>1 DEF LdReqTaken, TypeOK
    <3>2. q1[LdQSize] \in LdEntry
      BY <1>1, QueueAssumption
    <3>. DEFINE r == Head(ldReqPipe)
                e == [q1[LdQSize] EXCEPT !.addr = r.addr, !.tag = r.tag, !.valid = TRUE,
                                         !.port = r.port, !.id = r.id]
    <3>3. e \in LdEntry
      BY <3>1, <3>2 DEF LdEntry, LdReq
    <3>4. q2 = [q1 EXCEPT ![LdQSize] = e]
      BY <2>1 DEF LdQAfterRequest
    <3>5. QED
      BY <1>1, <3>3, <3>4
  <2>2. QED
    BY <1>1, <2>1 DEF LdQAfterRequest
<1>3. q3 \in [1 .. LdQSize -> LdEntry]
  <2>1. ASSUME NEW e \in LdEntry, NEW b \in BOOLEAN
        PROVE  [e EXCEPT !.isSafe = b] \in LdEntry
    BY DEF LdEntry
  <2>2. ASSUME NEW i \in 1 .. LdQSize
        PROVE  (q2[i].isSafe \/ (i \in {1, 2} /\ SafeNow(q2[i]))) \in BOOLEAN
    BY <1>2 DEF LdEntry, SafeNow
  <2>3. QED
    BY <1>2, <2>1, <2>2 DEF LdQAfterMark
<1>4. EmptyLd \in LdEntry
  BY SizesAssumption, QueueAssumption DEF EmptyLd, LdEntry
<1>5. LdQAfterShift(q3) \in [1 .. LdQSize -> LdEntry]
  BY <1>3, <1>4, QueueAssumption DEF LdQAfterShift
<1>6. QED
  BY <1>5

LEMMA AguType == TypeOK /\ Agu => TypeOK'
<1>1. ASSUME TypeOK, AguSendLoad PROVE TypeOK'
  <2>. DEFINE op == prog.loads[aguLd + 1]
              r == [addr |-> op.addr, tag |-> Tag(op.tag), port |-> op.port, id |-> aguLd + 1]
  <2>1. op \in LoadOp
    BY <1>1, ProgramType DEF AguSendLoad, CanSendLoad, AtLoad, TypeOK
  <2>2. op.addr \in Addr /\ op.tag \in Nat /\ op.port \in LdPorts /\ aguLd + 1 \in Nat
    BY <1>1, <2>1 DEF LoadOp, TypeOK
  <2>3. Tag(op.tag) \in Tags
    BY <2>2, ModType
  <2>4. r \in LdReq
    BY <2>2, <2>3 DEF LdReq
  <2>5. ldReqPipe' \in Seq(LdReq) /\ aguLd' \in Nat
    BY <1>1, <2>4, AppendProperties DEF AguSendLoad, CanSendLoad, TypeOK
  <2>6. QED
    BY <1>1, <2>5 DEF AguSendLoad, CanSendLoad, TypeOK, cuVars, lsqVars
<1>2. ASSUME TypeOK, AguSendStore PROVE TypeOK'
  <2>. DEFINE r == [addr |-> prog.stores[aguSt + 1].addr, tag |-> Tag(aguSt + 1)]
  <2>1. prog.stores[aguSt + 1] \in StoreOp
    BY <1>2, ProgramType DEF AguSendStore, CanSendStore, AtStore, TypeOK
  <2>2. aguSt + 1 \in Nat
    BY <1>2 DEF TypeOK
  <2>3. Tag(aguSt + 1) \in Tags
    BY <2>2, ModType
  <2>4. r \in StReq
    BY <2>1, <2>3 DEF StReq, StoreOp
  <2>5. stReqPipe' \in Seq(StReq) /\ aguSt' \in Nat
    BY <1>2, <2>4, AppendProperties DEF AguSendStore, CanSendStore, TypeOK
  <2>6. QED
    BY <1>2, <2>5 DEF AguSendStore, CanSendStore, TypeOK, cuVars, lsqVars
<1>3. QED
  BY <1>1, <1>2 DEF Agu

LEMMA CuType == TypeOK /\ Cu => TypeOK'
<1>1. ASSUME TypeOK, CuReadLoad PROVE TypeOK'
  <2>. DEFINE k == prog.loads[Len(got) + 1].port
  <2>1. prog.loads[Len(got) + 1] \in LoadOp
    BY <1>1, ProgramType DEF CuReadLoad, CanReadLoad, AtLoad, TypeOK
  <2>2. k \in LdPorts
    BY <2>1 DEF LoadOp
  <2>3. ldValPipe[k] \in Seq(LdValTok) /\ ldValPipe[k] # <<>>
    BY <1>1, <2>2 DEF CuReadLoad, CanReadLoad, TypeOK
  <2>4. Head(ldValPipe[k]) \in LdValTok /\ Tail(ldValPipe[k]) \in Seq(LdValTok)
    BY <2>3, HeadTailProperties
  <2>5. Head(ldValPipe[k]).value \in Nat /\ Tail(ldValPipe[k]) \in Seq(LdValTok)
    BY <2>4 DEF LdValTok
  <2>6. got' \in Seq(Nat)
    BY <1>1, <2>5, AppendProperties DEF CuReadLoad, CanReadLoad, TypeOK
  <2>7. ldValPipe' \in [LdPorts -> Seq(LdValTok)]
    BY <1>1, <2>5 DEF CuReadLoad, CanReadLoad, TypeOK
  <2>8. QED
    BY <1>1, <2>6, <2>7 DEF CuReadLoad, CanReadLoad, TypeOK, aguVars, lsqVars
<1>2. ASSUME TypeOK, CuWriteStore PROVE TypeOK'
  <2>. DEFINE op == prog.stores[cuSt + 1]
              v == [value |-> cuSt + 1, tag |-> Tag(cuSt + 1), valid |-> op.ok]
  <2>1. op \in StoreOp
    BY <1>2, ProgramType DEF CuWriteStore, CanWriteStore, AtStore, TypeOK
  <2>2. cuSt + 1 \in Nat
    BY <1>2 DEF TypeOK
  <2>3. Tag(cuSt + 1) \in Tags
    BY <2>2, ModType
  <2>4. op.port \in StPorts /\ v \in StValTok
    BY <2>1, <2>2, <2>3 DEF StValTok, StoreOp
  <2>5. Append(stValPipe[op.port], v) \in Seq(StValTok)
    BY <1>2, <2>4, AppendProperties DEF TypeOK
  <2>6. stValPipe' \in [StPorts -> Seq(StValTok)] /\ cuSt' \in Nat
    BY <1>2, <2>4, <2>5 DEF CuWriteStore, CanWriteStore, TypeOK
  <2>7. QED
    BY <1>2, <2>6 DEF CuWriteStore, CanWriteStore, TypeOK, aguVars, lsqVars
<1>3. ASSUME TypeOK, CuEnd PROVE TypeOK'
  <2>1. endPipe' \in Seq(BOOLEAN) /\ cuEnded' \in BOOLEAN
    BY <1>3, AppendProperties DEF CuEnd, CanEnd, TypeOK
  <2>2. QED
    BY <1>3, <2>1 DEF CuEnd, CanEnd, TypeOK, aguVars, lsqVars
<1>4. QED
  BY <1>1, <1>2, <1>3 DEF Cu

LEMMA IterateType ==
  ASSUME TypeOK, NEW vals \in SUBSET StPorts,
         NEW ldRdy \in BOOLEAN, NEW stRdy \in BOOLEAN, NEW endRdy \in BOOLEAN,
         NEW junk \in JunkTags, Iterate(vals, ldRdy, stRdy, endRdy, junk)
  PROVE  TypeOK'
<1>1. /\ stValPipe' \in [StPorts -> Seq(StValTok)]
      /\ stValRead' \in [StPorts -> StValTok]
      /\ stValReadSucc' \in [StPorts -> BOOLEAN]
      /\ nextStValTag' \in Tags /\ arrived' \in Nat
  <2>1. StoreValues(vals)
    BY DEF Iterate
  <2>2. ASSUME NEW k \in Polled(vals)
        PROVE  k \in StPorts /\ Head(stValPipe[k]) \in StValTok /\ Tail(stValPipe[k]) \in Seq(StValTok)
    BY HeadTailProperties DEF Polled, TypeOK
  <2>3. stValPipe' \in [StPorts -> Seq(StValTok)]
    BY <2>1, <2>2 DEF StoreValues, TypeOK
  <2>4. stValRead' \in [StPorts -> StValTok]
    <3>1. CASE InlinedMux
      <4>1. stValRead' = [k \in StPorts |-> IF k \in Polled(vals) THEN Head(stValPipe[k])
                                                                   ELSE stValRead[k]]
        BY <2>1, <3>1, Zenon DEF StoreValues
      <4>2. stValRead \in [StPorts -> StValTok]
        BY DEF TypeOK
      <4>3. QED
        BY <2>2, <4>1, <4>2
    <3>2. CASE ~InlinedMux
      BY <2>1, <3>2 DEF StoreValues, TypeOK
    <3>3. QED
      BY <3>1, <3>2
  <2>5. stValReadSucc' \in [StPorts -> BOOLEAN]
    <3>1. ASSUME NEW k \in StPorts
          PROVE  ((k \in Polled(vals) \/ stValReadSucc[k]) /\ k \notin Matching) \in BOOLEAN
      BY DEF TypeOK
    <3>2. QED
      BY <2>1, <3>1 DEF StoreValues, TypeOK
  <2>6. nextStValTag + 1 \in Nat
    BY QueueAssumption DEF TypeOK
  <2>7. Tag(nextStValTag + 1) \in Tags
    BY <2>6, ModType
  <2>8. nextStValTag' \in Tags /\ arrived' \in Nat
    BY <2>1, <2>7 DEF StoreValues, TypeOK
  <2>9. QED
    BY <2>3, <2>4, <2>5, <2>8
<1>2. data' \in [Addr -> Nat] /\ inFlight' \in Write
  <2>1. Memory(vals)
    BY DEF Iterate
  <2>2. data' \in [Addr -> Nat]
    BY <2>1 DEF Memory, TypeOK, Write
  <2>3. StValValid(vals) => [addr |-> stQ[1].addr, value |-> StVal.value] \in Write
    BY StValType, QueueHeads DEF StValValid, Write, StValTok, StEntry
  <2>4. inFlight' \in Write
    BY <2>1, <2>3 DEF Memory, NoWrite, Write
  <2>5. QED
    BY <2>2, <2>4
<1>3. /\ ldQ' \in [1 .. LdQSize -> LdEntry] /\ ldVal' \in Nat
      /\ ldValPipe' \in [LdPorts -> Seq(LdValTok)] /\ returned' \in Nat
      /\ ldReqPipe' \in Seq(LdReq)
  <2>1. Loads(vals, ldRdy)
    BY DEF Iterate
  <2>2. ldQ' \in [1 .. LdQSize -> LdEntry]
    BY <2>1, LdQType DEF Loads
  <2>3. ldVal' \in Nat /\ returned' \in Nat
    BY <2>1, ReturnValueType DEF Loads, TypeOK
  <2>4. ldReqPipe' \in Seq(LdReq)
    BY <2>1, HeadTailProperties DEF Loads, LdReqTaken, TypeOK
  <2>5. ldValPipe' \in [LdPorts -> Seq(LdValTok)]
    <3>. DEFINE v == [value |-> ReturnValue(vals), id |-> ldQ[1].id]
    <3>1. ldQ[1].port \in LdPorts /\ ldQ[1].id \in Nat
      BY QueueHeads DEF LdEntry
    <3>2. v \in LdValTok
      BY <3>1, ReturnValueType DEF LdValTok
    <3>3. Append(ldValPipe[ldQ[1].port], v) \in Seq(LdValTok)
      BY <3>1, <3>2, AppendProperties DEF TypeOK
    <3>4. QED
      BY <2>1, <3>1, <3>3 DEF Loads, TypeOK
  <2>6. QED
    BY <2>2, <2>3, <2>4, <2>5
<1>4. stQ' \in [1 .. StQSize -> StEntry] /\ stReqPipe' \in Seq(StReq) /\ lastStReqTag' \in Tags
  <2>1. StoreRequests(vals, stRdy, junk)
    BY DEF Iterate
  <2>2. stReqPipe # <<>> => Head(stReqPipe) \in StReq /\ Tail(stReqPipe) \in Seq(StReq)
    BY HeadTailProperties DEF TypeOK
  <2>3. NewStEntry(vals, stRdy, junk) \in StEntry
    BY <2>2, QueueAssumption DEF NewStEntry, StReqTaken, StEntry, StReq
  <2>4. stQ' \in [1 .. StQSize -> StEntry]
    BY <2>1, <2>3, QueueAssumption DEF StoreRequests, StQAfterShift, TypeOK
  <2>5. stReqPipe' \in Seq(StReq) /\ lastStReqTag' \in Tags
    BY <2>1, <2>2 DEF StoreRequests, StReqTaken, StReq, TypeOK
  <2>6. QED
    BY <2>4, <2>5
<1>5. done' \in BOOLEAN /\ endPipe' \in Seq(BOOLEAN)
  BY HeadTailProperties DEF Iterate, EndSeen, TypeOK
<1>6. UNCHANGED <<prog, aguVars, cuVars>>
  BY DEF Iterate
<1>7. QED
  BY <1>1, <1>2, <1>3, <1>4, <1>5, <1>6 DEF TypeOK, aguVars, cuVars

LEMMA InitTypeOK == Init => TypeOK
<1>. SUFFICES ASSUME Init PROVE TypeOK
  OBVIOUS
<1>1. EmptySt \in StEntry /\ EmptyLd \in LdEntry /\ NoStVal \in StValTok /\ NoWrite \in Write
  BY SizesAssumption, QueueAssumption
     DEF EmptySt, EmptyLd, NoStVal, NoWrite, StEntry, LdEntry, StValTok, Write
<1>2. 0 \in Tags /\ Tag(1) \in Tags
  BY QueueAssumption, ModType
<1>3. \A S : <<>> \in Seq(S)
  OBVIOUS
<1>4. /\ stValPipe \in [StPorts -> Seq(StValTok)]
      /\ ldValPipe \in [LdPorts -> Seq(LdValTok)]
  BY <1>3 DEF Init
<1>5. /\ data \in [Addr -> Nat] /\ inFlight \in Write
      /\ stQ \in [1 .. StQSize -> StEntry] /\ ldQ \in [1 .. LdQSize -> LdEntry]
      /\ stValRead \in [StPorts -> StValTok] /\ stValReadSucc \in [StPorts -> BOOLEAN]
  BY <1>1 DEF Init
<1>6. QED
  BY <1>2, <1>3, <1>4, <1>5 DEF Init, TypeOK

LEMMA StepTypeOK == TypeOK /\ [Next]_vars => TypeOK'
<1>. SUFFICES ASSUME TypeOK, [Next]_vars PROVE TypeOK'
  OBVIOUS
<1>1. CASE Agu
  BY <1>1, AguType
<1>2. CASE Cu
  BY <1>2, CuType
<1>3. CASE Lsq
  BY <1>3, IterateType DEF Lsq
<1>4. CASE UNCHANGED vars
  BY <1>4 DEF vars, aguVars, cuVars, lsqVars, TypeOK
<1>5. QED
  BY <1>1, <1>2, <1>3, <1>4 DEF Next

(* Every reachable state is well typed: no register, queue entry or pipe   *)
(* ever holds anything but a value of its kind.                            *)
THEOREM TypeCorrect == Spec => []TypeOK
BY InitTypeOK, StepTypeOK, PTL DEF Spec

------------------------------------------------------------------------------
(* Consequences of the invariant in one state. *)

LEMMA SmallTag ==
  ASSUME TypeOK, NEW n \in 0 .. Len(prog.stores)
  PROVE  Tag(n) = n
<1>1. Len(prog.stores) \in Nat /\ Len(prog.stores) < TagMod
  BY NoTagWrap, ProgramType DEF TypeOK
<1>2. QED
  BY <1>1, QueueAssumption DEF Tag

(* A value stays the latest while only stores elsewhere, or poisoned ones, *)
(* are added.                                                              *)
LEMMA LatestExtends ==
  ASSUME NEW p, NEW v, NEW a, NEW t \in Nat, NEW u \in Nat, t <= u,
         IsLatest(p, v, a, t), \A s \in t + 1 .. u : ~Writes(p, s, a)
  PROVE  IsLatest(p, v, a, u)
<1>1. v \in 0 .. t /\ v \in 0 .. u
  BY DEF IsLatest
<1>2. ASSUME NEW s \in v + 1 .. u PROVE ~Writes(p, s, a)
  <2>1. s \in v + 1 .. t \/ s \in t + 1 .. u
    BY <1>1
  <2>2. QED
    BY <2>1 DEF IsLatest
<1>3. QED
  BY <1>1, <1>2 DEF IsLatest

LEMMA InvCounters ==
  ASSUME IInv
  PROVE  /\ aguSt \in Nat /\ aguLd \in Nat /\ cuSt \in Nat /\ arrived \in Nat /\ returned \in Nat
         /\ Len(got) \in Nat /\ Len(stReqPipe) \in Nat /\ Len(ldReqPipe) \in Nat
         /\ Len(prog.stores) \in Nat /\ Len(prog.loads) \in Nat
         /\ Accepted \in Nat /\ Accepted <= Len(prog.stores) /\ Accepted + Len(stReqPipe) = aguSt
         /\ AcceptedLds \in Nat /\ AcceptedLds <= Len(prog.loads)
         /\ AcceptedLds + Len(ldReqPipe) = aguLd
         /\ arrived <= Accepted /\ arrived <= cuSt
         /\ Len(got) <= returned /\ returned <= AcceptedLds
<1>1. TypeOK /\ CuInOrder /\ RequestsInOrder /\ StoreQueueHoldsPending /\ LoadQueueInOrder /\ LoadValuesInOrder
  BY DEF IInv
<1>2. prog.stores \in Seq(StoreOp) /\ prog.loads \in Seq(LoadOp)
  BY <1>1, ProgramType DEF TypeOK
<1>3. /\ Len(got) \in Nat /\ Len(stReqPipe) \in Nat /\ Len(ldReqPipe) \in Nat
      /\ Len(prog.stores) \in Nat /\ Len(prog.loads) \in Nat
  BY <1>1, <1>2, LenProperties DEF TypeOK
<1>4. aguSt \in Nat /\ aguLd \in Nat /\ cuSt \in Nat /\ arrived \in Nat /\ returned \in Nat
  BY <1>1 DEF TypeOK
<1>5. /\ aguSt <= Len(prog.stores) /\ aguLd <= Len(prog.loads)
      /\ Len(stReqPipe) <= aguSt /\ Len(ldReqPipe) <= aguLd
  BY <1>1 DEF RequestsInOrder
<1>6. /\ arrived <= Accepted /\ arrived <= cuSt
      /\ Len(got) <= returned /\ returned <= AcceptedLds
  BY <1>1 DEF CuInOrder, StoreQueueHoldsPending, LoadQueueInOrder, LoadValuesInOrder
<1>7. /\ Accepted \in Nat /\ Accepted <= Len(prog.stores) /\ Accepted + Len(stReqPipe) = aguSt
  BY <1>3, <1>4, <1>5 DEF Accepted
<1>8. /\ AcceptedLds \in Nat /\ AcceptedLds <= Len(prog.loads)
      /\ AcceptedLds + Len(ldReqPipe) = aguLd
  BY <1>3, <1>4, <1>5 DEF AcceptedLds
<1>9. QED
  BY <1>3, <1>4, <1>6, <1>7, <1>8

LEMMA ProgOps ==
  ASSUME TypeOK
  PROVE  /\ \A l \in 1 .. Len(prog.loads) :
              /\ prog.loads[l].addr \in Addr /\ prog.loads[l].port \in LdPorts
              /\ prog.loads[l].tag \in 0 .. Len(prog.stores)
         /\ \A s \in 1 .. Len(prog.stores) :
              /\ prog.stores[s].addr \in Addr /\ prog.stores[s].port \in StPorts
              /\ prog.stores[s].ok \in BOOLEAN
         /\ \A l, m \in 1 .. Len(prog.loads) : l <= m => prog.loads[l].tag <= prog.loads[m].tag
<1>1. prog \in Programs
  BY DEF TypeOK
<1>2. Len(prog.stores) \in Nat
  BY <1>1, ProgramType
<1>3. ASSUME NEW l \in 1 .. Len(prog.loads)
      PROVE  /\ prog.loads[l].addr \in Addr /\ prog.loads[l].port \in LdPorts
             /\ prog.loads[l].tag \in 0 .. Len(prog.stores)
  <2>1. prog.loads[l] \in LoadOp /\ prog.loads[l].tag <= Len(prog.stores)
    BY <1>1, ProgramType
  <2>2. QED
    BY <1>2, <2>1 DEF LoadOp
<1>4. ASSUME NEW s \in 1 .. Len(prog.stores)
      PROVE  /\ prog.stores[s].addr \in Addr /\ prog.stores[s].port \in StPorts
             /\ prog.stores[s].ok \in BOOLEAN
  <2>1. prog.stores[s] \in StoreOp
    BY <1>1, ProgramType
  <2>2. QED
    BY <2>1 DEF StoreOp
<1>5. \A l, m \in 1 .. Len(prog.loads) : l <= m => prog.loads[l].tag <= prog.loads[m].tag
  BY <1>1, ProgramType
<1>6. QED
  BY <1>3, <1>4, <1>5, Zenon

(* The head of the store queue is the oldest store without a value. *)
LEMMA HeadStore ==
  ASSUME IInv, stQ[1].valid
  PROVE  /\ stQ[1].tag = arrived + 1
         /\ arrived + 1 <= Accepted
         /\ stQ[1].addr = prog.stores[arrived + 1].addr
<1>1. HoldsStores(stQ, arrived, Accepted)
  BY DEF IInv, StoreQueueHoldsPending
<1>2. 1 \in 1 .. StQSize /\ \A i \in 1 .. StQSize : i = 1 \/ 1 < i
  BY QueueAssumption
<1>3. arrived \in Nat /\ Accepted \in Nat
  BY InvCounters
<1>4. stQ[1].tag \in arrived + 1 .. Accepted /\ stQ[1].addr = prog.stores[stQ[1].tag].addr
  BY <1>1, <1>2 DEF HoldsStores
<1>5. arrived + 1 \in arrived + 1 .. Accepted
  BY <1>3, <1>4
<1>6. PICK i \in 1 .. StQSize : stQ[i].valid /\ stQ[i].tag = arrived + 1
  BY <1>1, <1>5 DEF HoldsStores
<1>7. i = 1 \/ stQ[1].tag < arrived + 1
  BY <1>1, <1>2, <1>6 DEF HoldsStores
<1>8. stQ[1].tag = arrived + 1
  BY <1>3, <1>4, <1>6, <1>7
<1>9. QED
  BY <1>3, <1>4, <1>5, <1>8

(* The value that arrives is the one of the head. *)
LEMMA ArrivingValue ==
  ASSUME IInv, NEW vals \in SUBSET StPorts, StValArrived(vals)
  PROVE  /\ stQ[1].valid
         /\ StVal.value = arrived + 1
         /\ arrived + 1 <= cuSt
         /\ StVal.valid = prog.stores[arrived + 1].ok
<1>. TypeOK /\ StoreValuesPaired /\ CuInOrder
  BY DEF IInv
<1>1. CASE InlinedMux
  <2>1. Matching \in SUBSET StPorts /\ Matching # {}
    BY <1>1 DEF StValArrived, Matching
  <2>2. PICK k \in Matching : StVal = stValRead[k]
    BY <1>1, <2>1, LargestPort, Zenon DEF StVal
  <2>3. /\ stQ[1].valid /\ k \in StPorts /\ stValReadSucc[k]
        /\ stValRead[k].tag = nextStValTag
    BY <2>2 DEF Matching
  <2>4. GoodStVal(stValRead[k])
    BY <2>3 DEF StoreValuesPaired
  <2>5. arrived + 1 \in 0 .. Len(prog.stores)
    <3>1. /\ arrived \in Nat /\ Accepted \in Nat /\ Accepted <= Len(prog.stores)
          /\ Len(prog.stores) \in Nat
      BY InvCounters
    <3>2. arrived + 1 <= Accepted
      BY <2>3, HeadStore
    <3>3. QED
      BY <3>1, <3>2
  <2>6. nextStValTag = arrived + 1
    BY <1>1, <2>5, SmallTag DEF StoreValuesPaired
  <2>7. StVal.value = arrived + 1 /\ StVal.value \in 1 .. cuSt
        /\ StVal.valid = prog.stores[StVal.value].ok
    BY <2>2, <2>3, <2>4, <2>6 DEF GoodStVal
  <2>8. arrived \in Nat /\ cuSt \in Nat
    BY InvCounters
  <2>9. QED
    BY <2>3, <2>7, <2>8
<1>2. CASE ~InlinedMux
  <2>1. NumStVals = 1
    BY <1>2, SizesAssumption DEF InlinedMux
  <2>2. PICK k \in vals : stQ[1].valid /\ stValPipe[k] # <<>>
    BY <1>2 DEF StValArrived, Polled
  <2>3. k = 0 /\ stValPipe[0] \in Seq(StValTok)
    BY <2>1 DEF TypeOK
  <2>4. 1 \in 1 .. Len(stValPipe[0]) /\ StVal = stValPipe[0][1]
    BY <1>2, <2>2, <2>3 DEF StVal
  <2>5. GoodStVal(StVal) /\ StVal.value = arrived + 1
    BY <1>2, <2>1, <2>4 DEF StoreValuesPaired
  <2>6. QED
    BY <2>2, <2>5, InvCounters DEF GoodStVal
<1>3. QED
  BY <1>1, <1>2

(* A store commits exactly when its value arrives and it is not poisoned. *)
LEMMA CommitIffNotPoisoned ==
  ASSUME IInv, NEW vals \in SUBSET StPorts
  PROVE  StValValid(vals) <=> StValArrived(vals) /\ prog.stores[arrived + 1].ok
<1>1. ASSUME StValArrived(vals), ~UseSpeculation PROVE prog.stores[arrived + 1].ok
  <2>1. prog \in Programs
    BY DEF IInv, TypeOK
  <2>2. arrived + 1 \in 1 .. Len(prog.stores)
    <3>1. /\ arrived \in Nat /\ Accepted \in Nat /\ Accepted <= Len(prog.stores)
          /\ Len(prog.stores) \in Nat
      BY InvCounters
    <3>2. arrived + 1 <= Accepted
      BY <1>1, ArrivingValue, HeadStore
    <3>3. QED
      BY <3>1, <3>2
  <2>3. \A s \in 1 .. Len(prog.stores) : prog.stores[s].ok
    BY <1>1, <2>1, SpeculationAssumption, Zenon
  <2>4. QED
    BY <2>2, <2>3
<1>2. QED
  BY <1>1, ArrivingValue DEF StValValid

(* An unread load is younger than every store whose value was sent. *)
LEMMA UnreadLoad ==
  ASSUME IInv, NEW l \in Len(got) + 1 .. Len(prog.loads)
  PROVE  cuSt <= prog.loads[l].tag
<1>1. /\ Len(got) + 1 \in 1 .. Len(prog.loads) /\ l \in 1 .. Len(prog.loads)
      /\ Len(got) < Len(prog.loads) /\ Len(got) + 1 <= l
  <2>1. Len(got) \in Nat /\ Len(prog.loads) \in Nat
    BY InvCounters
  <2>2. QED
    BY <2>1
<1>2. prog.loads[Len(got) + 1].tag <= prog.loads[l].tag
  BY <1>1, ProgOps DEF IInv
<1>3. cuSt <= prog.loads[Len(got) + 1].tag
  BY <1>1 DEF IInv, CuInOrder
<1>4. cuSt \in Nat /\ Len(prog.stores) \in Nat
  BY InvCounters
<1>5. prog.loads[Len(got) + 1].tag \in Int /\ prog.loads[l].tag \in Int
  BY <1>1, <1>4, ProgOps DEF IInv
<1>6. QED
  BY <1>2, <1>3, <1>4, <1>5

(* A queued load is unread, and its entry is the program's load. *)
LEMMA QueuedLoad ==
  ASSUME IInv, NEW i \in 1 .. LdQSize, ldQ[i].valid
  PROVE  /\ ldQ[i].id \in Len(got) + 1 .. Len(prog.loads) /\ ldQ[i].id \in 1 .. Len(prog.loads)
         /\ ldQ[i].id \in returned + 1 .. AcceptedLds
         /\ ldQ[i].addr = prog.loads[ldQ[i].id].addr
         /\ ldQ[i].tag = prog.loads[ldQ[i].id].tag
         /\ ldQ[i].port = prog.loads[ldQ[i].id].port
<1>1. ldQ[i].id \in returned + 1 .. AcceptedLds
  BY DEF IInv, LoadQueueInOrder, HoldsLoads
<1>2. IsLoadEntry(ldQ[i])
  BY DEF IInv, LoadEntriesWellFormed
<1>3. /\ returned \in Nat /\ AcceptedLds \in Nat /\ Len(got) \in Nat /\ Len(prog.loads) \in Nat
      /\ Len(got) <= returned /\ AcceptedLds <= Len(prog.loads)
  BY InvCounters
<1>4. ldQ[i].id \in Len(got) + 1 .. Len(prog.loads) /\ ldQ[i].id \in 1 .. Len(prog.loads)
  BY <1>1, <1>3
<1>5. QED
  BY <1>1, <1>2, <1>4 DEF IsLoadEntry

LEMMA HeadLoad ==
  ASSUME IInv, ldQ[1].valid
  PROVE  ldQ[1].id = returned + 1 /\ returned + 1 <= AcceptedLds
<1>1. HoldsLoads(ldQ, returned, AcceptedLds)
  BY DEF IInv, LoadQueueInOrder
<1>2. 1 \in 1 .. LdQSize /\ \A i \in 1 .. LdQSize : i = 1 \/ 1 < i
  BY QueueAssumption
<1>3. returned \in Nat /\ AcceptedLds \in Nat
  BY InvCounters
<1>4. ldQ[1].id \in returned + 1 .. AcceptedLds
  BY <1>1, <1>2 DEF HoldsLoads
<1>5. returned + 1 \in returned + 1 .. AcceptedLds
  BY <1>3, <1>4
<1>6. PICK i \in 1 .. LdQSize : ldQ[i].valid /\ ldQ[i].id = returned + 1
  BY <1>1, <1>5 DEF HoldsLoads
<1>7. i = 1 \/ ldQ[1].id < returned + 1
  BY <1>1, <1>2, <1>6 DEF HoldsLoads
<1>8. ldQ[1].id = returned + 1
  BY <1>3, <1>4, <1>6, <1>7
<1>9. QED
  BY <1>3, <1>5, <1>8

(* The heart of the argument: whichever way the head load gets its value,  *)
(* the value is the program-order one.                                     *)
LEMMA ReturnedValue ==
  ASSUME IInv, NEW vals \in SUBSET StPorts, Returning(vals)
  PROVE  IsSequentialValue(prog, ReturnValue(vals), ldQ[1].id)
<1>. DEFINE l == ldQ[1].id
            op == prog.loads[l]
<1>1. ldQ[1].valid /\ 1 \in 1 .. LdQSize
  BY QueueAssumption DEF Returning
<1>2. /\ l \in Len(got) + 1 .. Len(prog.loads) /\ l \in 1 .. Len(prog.loads)
      /\ ldQ[1].addr = op.addr /\ ldQ[1].tag = op.tag
  BY <1>1, QueuedLoad
<1>3. op.tag \in 0 .. Len(prog.stores) /\ op.addr \in Addr
  BY <1>2, ProgOps DEF IInv
<1>4. arrived <= op.tag /\ arrived \in Nat /\ Len(prog.stores) \in Nat
  <2>1. /\ arrived \in Nat /\ cuSt \in Nat /\ arrived <= cuSt
        /\ Len(prog.stores) \in Nat
    BY InvCounters
  <2>2. cuSt <= op.tag
    BY <1>2, UnreadLoad
  <2>3. QED
    BY <1>3, <2>1, <2>2
<1>5. CASE ldQ[1].valValid
  BY <1>5 DEF ReturnValue, IInv, ReturnedValuesCorrect
<1>6. CASE ~ldQ[1].valValid /\ IsBypass(vals)
  <2>1. /\ StValArrived(vals) /\ StVal.value = arrived + 1 /\ prog.stores[arrived + 1].ok
        /\ stQ[1].tag = arrived + 1 /\ stQ[1].addr = prog.stores[arrived + 1].addr
    BY <1>6, ArrivingValue, CommitIffNotPoisoned, HeadStore DEF IsBypass, StValValid
  <2>2. op.tag = arrived + 1 /\ Writes(prog, arrived + 1, op.addr)
    BY <1>2, <1>6, <2>1 DEF IsBypass, Writes
  <2>3. ReturnValue(vals) = arrived + 1
    BY <1>6, <2>1 DEF ReturnValue
  <2>4. QED
    BY <1>4, <2>2, <2>3 DEF IsSequentialValue, IsLatest
<1>7. CASE ~ldQ[1].valValid /\ ~IsBypass(vals)
  <2>1. HazardFree(l)
    BY <1>1, <1>7 DEF Returning, IInv, SafeLoadHasNoHazard
  <2>2. ReturnValue(vals) = Committed(op.addr)
    BY <1>2, <1>7, <2>1 DEF ReturnValue, Committed, HazardFree
  <2>3. IsLatest(prog, Committed(op.addr), op.addr, arrived)
    BY <1>3 DEF IInv, MemoryIsProgramPrefix
  <2>4. \A s \in arrived + 1 .. op.tag : ~Writes(prog, s, op.addr)
    BY <2>1 DEF HazardFree, Writes
  <2>5. IsLatest(prog, Committed(op.addr), op.addr, op.tag)
    <3>1. arrived \in Nat /\ op.tag \in Nat /\ arrived <= op.tag
      BY <1>3, <1>4
    <3>2. QED
      BY <2>3, <2>4, <3>1, LatestExtends
  <2>6. QED
    BY <2>2, <2>5 DEF IsSequentialValue
<1>8. QED
  BY <1>5, <1>6, <1>7
==============================================================================
