---------------------------- MODULE LSQDramProofs ----------------------------
(***************************************************************************)
(* Proofs about the off-chip load-store queue and its port kernels, for    *)
(* every array size, queue size, pipe depth, store latency, number of load *)
(* and store ports and program: type correctness, and what the invariant   *)
(* says of one state.                                                      *)
(***************************************************************************)
EXTENDS LSQDramInv, SequenceTheorems, WellFoundedInduction, TLAPS

USE DEF LdPorts, StPorts, Addr, QAddr, InvalidAddr

------------------------------------------------------------------------------
(* Facts about numbers, the constants and the programs. *)

(* A nonempty set of numbers up to n has a largest one. *)
LEMMA HasLargest ==
  ASSUME NEW n \in Nat, NEW S \in SUBSET (0 .. n), S # {}
  PROVE  \E m \in S : \A j \in S : j <= m
<1>. DEFINE T == {n - j : j \in S}
            R == {ss \in Nat \X Nat : ss[1] < ss[2]}
<1>1. T \subseteq Nat /\ T # {}
  <2>1. PICK j \in S : TRUE
    OBVIOUS
  <2>2. n - j \in T
    OBVIOUS
  <2>3. T \subseteq Nat
    OBVIOUS
  <2>4. QED
    BY <2>2, <2>3
<1>2. IsWellFoundedOn(R, Nat)
  BY NatLessThanWellFounded DEF OpToRel
<1>3. PICK x \in T : \A y \in T : <<y, x>> \notin R
  BY <1>1, <1>2, WFMin
<1>4. PICK m \in S : x = n - m
  OBVIOUS
<1>5. ASSUME NEW j \in S PROVE j <= m
  <2>1. n - j \in T /\ n - j \in Nat /\ x \in Nat
    BY <1>1
  <2>2. ~(n - j < x)
    BY <1>3, <2>1
  <2>3. QED
    BY <1>4, <2>2
<1>6. QED
  BY <1>5

LEMMA ProgramType ==
  ASSUME NEW p \in Programs
  PROVE  /\ p.stores \in Seq(StoreOp)
         /\ p.loads \in Seq(LoadOp)
         /\ Len(p.stores) \in Nat /\ Len(p.loads) \in Nat
         /\ \A l \in 1 .. Len(p.loads) : p.loads[l] \in LoadOp /\ p.loads[l].tag <= Len(p.stores)
         /\ \A s \in 1 .. Len(p.stores) : p.stores[s] \in StoreOp
         /\ \A l, m \in 1 .. Len(p.loads) : l <= m => p.loads[l].tag <= p.loads[m].tag
BY ProgramsAssumption DEF WellFormed

LEMMA LargestPort ==
  ASSUME NEW S \in SUBSET StPorts, S # {}
  PROVE  (CHOOSE k \in S : \A j \in S : j <= k) \in S
<1>1. NumStVals - 1 \in Nat /\ S \in SUBSET (0 .. NumStVals - 1)
  BY SizesAssumption
<1>2. \E k \in S : \A j \in S : j <= k
  BY <1>1, HasLargest, Zenon
<1>3. QED
  BY <1>2

------------------------------------------------------------------------------
(* Type correctness. *)

LEMMA StValType ==
  ASSUME TypeOK, NEW vals \in SUBSET StPorts, StValArrived(vals)
  PROVE  StVal \in StValTok
<1>1. CASE ValueMux
  <2>1. Matching \in SUBSET StPorts /\ Matching # {}
    BY <1>1 DEF StValArrived, Matching
  <2>2. QED
    BY <1>1, <2>1, LargestPort, Zenon DEF StVal, TypeOK
<1>2. CASE ~ValueMux
  <2>1. NumStVals = 1
    BY <1>2, SizesAssumption DEF ValueMux
  <2>2. PICK k \in vals : stValPipe[k] # <<>>
    BY <1>2 DEF StValArrived, Polled
  <2>3. k = 0 /\ stValPipe[0] \in Seq(StValTok)
    BY <2>1 DEF TypeOK
  <2>4. QED
    BY <1>2, <2>2, <2>3 DEF StVal
<1>3. QED
  BY <1>1, <1>2

(* A pipe of a family with room for one more is not overfilled by a write, *)
(* and no pipe by a read.                                                  *)
LEMMA RoomAfterAppend ==
  ASSUME NEW D, NEW S, NEW P \in [D -> Seq(S)], NEW k \in D, NEW x \in S, NEW n \in Nat,
         \A j \in D : Len(P[j]) <= n, Len(P[k]) < n
  PROVE  \A j \in D : Len([P EXCEPT ![k] = Append(@, x)][j]) <= n
<1>1. P[k] \in Seq(S)
  OBVIOUS
<1>2. Len(Append(P[k], x)) = Len(P[k]) + 1 /\ Len(P[k]) \in Nat
  BY <1>1, AppendProperties
<1>. DEFINE y == Append(P[k], x)
<1>3. [P EXCEPT ![k] = Append(@, x)] = [P EXCEPT ![k] = y]
  OBVIOUS
<1>4. Len(y) <= n
  BY <1>2
<1>. HIDE DEF y
<1>5. \A j \in D : [P EXCEPT ![k] = y][j] = IF j = k THEN y ELSE P[j]
  OBVIOUS
<1>6. QED
  BY <1>3, <1>4, <1>5

LEMMA RoomAfterTail ==
  ASSUME NEW D, NEW S, NEW P \in [D -> Seq(S)], NEW k \in D, P[k] # <<>>, NEW n \in Nat,
         \A j \in D : Len(P[j]) <= n
  PROVE  \A j \in D : Len([P EXCEPT ![k] = Tail(@)][j]) <= n
<1>1. P[k] \in Seq(S) /\ P[k] # <<>>
  OBVIOUS
<1>2. Len(Tail(P[k])) = Len(P[k]) - 1 /\ Len(P[k]) \in Nat
  BY <1>1, HeadTailProperties
<1>. DEFINE y == Tail(P[k])
<1>3. [P EXCEPT ![k] = Tail(@)] = [P EXCEPT ![k] = y]
  OBVIOUS
<1>4. Len(y) <= n
  BY <1>2
<1>. HIDE DEF y
<1>5. \A j \in D : [P EXCEPT ![k] = y][j] = IF j = k THEN y ELSE P[j]
  OBVIOUS
<1>6. QED
  BY <1>3, <1>4, <1>5

LEMMA AguType == TypeOK /\ Agu => TypeOK'
<1>1. ASSUME TypeOK, AguSendLoad PROVE TypeOK'
  <2>. DEFINE op == prog.loads[aguLd + 1]
              r == [addr |-> op.addr, tag |-> op.tag, id |-> aguLd + 1]
  <2>1. op \in LoadOp /\ Len(prog.loads) \in Nat
    BY <1>1, ProgramType DEF AguSendLoad, CanSendLoad, AtLoad, TypeOK
  <2>2. op.addr \in Addr /\ op.tag \in Nat /\ op.port \in LdPorts /\ aguLd + 1 \in Nat
    <3>1. aguLd + 1 \in Nat
      BY <1>1, <2>1 DEF TypeOK
    <3>2. QED
      BY <2>1, <3>1 DEF LoadOp
  <2>3. r \in LdReq
    BY <2>2 DEF LdReq
  <2>4. Append(ldReqPipe[op.port], r) \in Seq(LdReq)
    BY <1>1, <2>2, <2>3, AppendProperties DEF TypeOK
  <2>5. ldReqPipe' \in [LdPorts -> Seq(LdReq)]
    BY <1>1, <2>2, <2>4 DEF AguSendLoad, CanSendLoad, TypeOK
  <2>6. \A j \in LdPorts : Len(ldReqPipe'[j]) <= ReqDepth
    <3>. DEFINE P == ldReqPipe
                k == op.port
    <3>1. P \in [LdPorts -> Seq(LdReq)] /\ \A j \in LdPorts : Len(P[j]) <= ReqDepth
      BY <1>1 DEF TypeOK
    <3>2. /\ ldReqPipe' = [P EXCEPT ![k] = Append(@, r)] /\ Len(P[k]) < ReqDepth
          /\ k \in LdPorts /\ ReqDepth \in Nat
      BY <1>1, <2>2, QueueAssumption DEF AguSendLoad, CanSendLoad
    <3>. HIDE DEF P, k, r
    <3>3. QED
      BY <2>3, <3>1, <3>2, RoomAfterAppend
  <2>7. aguLd' \in 0 .. Len(prog.loads)
    BY <1>1, <2>1 DEF AguSendLoad, CanSendLoad, AtLoad, TypeOK
  <2>8. QED
    BY <1>1, <2>5, <2>6, <2>7 DEF AguSendLoad, CanSendLoad, TypeOK, cuVars, lsqVars, storeVars, valueVars, portVars
<1>2. ASSUME TypeOK, AguSendStore PROVE TypeOK'
  <2>. DEFINE r == [addr |-> prog.stores[aguSt + 1].addr, tag |-> aguSt + 1]
  <2>1. prog.stores[aguSt + 1] \in StoreOp /\ Len(prog.stores) \in Nat
    BY <1>2, ProgramType DEF AguSendStore, CanSendStore, AtStore, TypeOK
  <2>2. r \in StReq
    BY <1>2, <2>1 DEF StReq, StoreOp, TypeOK
  <2>3. stReqPipe' \in Seq(StReq) /\ Len(stReqPipe') <= ReqDepth
    <3>1. stReqPipe \in Seq(StReq) /\ Len(stReqPipe) < ReqDepth /\ stReqPipe' = Append(stReqPipe, r)
      BY <1>2 DEF AguSendStore, CanSendStore, TypeOK
    <3>2. Len(stReqPipe') = Len(stReqPipe) + 1 /\ stReqPipe' \in Seq(StReq) /\ Len(stReqPipe) \in Nat
      BY <2>2, <3>1, AppendProperties
    <3>3. QED
      BY <3>1, <3>2, QueueAssumption
  <2>4. aguSt' \in 0 .. Len(prog.stores)
    BY <1>2, <2>1 DEF AguSendStore, CanSendStore, AtStore, TypeOK
  <2>5. QED
    BY <1>2, <2>3, <2>4 DEF AguSendStore, CanSendStore, TypeOK, cuVars, lsqVars, storeVars, valueVars, portVars
<1>3. QED
  BY <1>1, <1>2 DEF Agu

LEMMA CuType == TypeOK /\ Cu => TypeOK'
<1>1. ASSUME TypeOK, CuReadLoad PROVE TypeOK'
  <2>. DEFINE k == prog.loads[Len(got) + 1].port
  <2>1. prog.loads[Len(got) + 1] \in LoadOp
    BY <1>1, ProgramType DEF CuReadLoad, CanReadLoad, AtLoad, TypeOK
  <2>2. k \in LdPorts
    BY <2>1 DEF LoadOp
  <2>3. ldValPipe[k] \in Seq(LdValTok) /\ ldValPipe[k] # <<>>
    BY <1>1, <2>2 DEF CuReadLoad, CanReadLoad, TypeOK
  <2>4. /\ Head(ldValPipe[k]) \in LdValTok /\ Tail(ldValPipe[k]) \in Seq(LdValTok)
        /\ Len(Tail(ldValPipe[k])) = Len(ldValPipe[k]) - 1
    BY <2>3, HeadTailProperties
  <2>5. Head(ldValPipe[k]).value \in Nat
    BY <2>4 DEF LdValTok
  <2>6. got' \in Seq(Nat)
    BY <1>1, <2>5, AppendProperties DEF CuReadLoad, CanReadLoad, TypeOK
  <2>7. /\ ldValPipe' \in [LdPorts -> Seq(LdValTok)]
        /\ ldValPipe' = [ldValPipe EXCEPT ![k] = Tail(@)]
    BY <1>1, <2>2, <2>4 DEF CuReadLoad, CanReadLoad, TypeOK
  <2>8. \A j \in LdPorts : Len(ldValPipe'[j]) <= LdValDepth
    <3>. DEFINE P == ldValPipe
    <3>1. /\ P \in [LdPorts -> Seq(LdValTok)] /\ LdValDepth \in Nat
          /\ \A j \in LdPorts : Len(P[j]) <= LdValDepth
      BY <1>1, QueueAssumption DEF TypeOK
    <3>2. ldValPipe' = [P EXCEPT ![k] = Tail(@)] /\ P[k] # <<>>
      BY <2>3, <2>7
    <3>. HIDE DEF P, k
    <3>3. QED
      BY <2>2, <3>1, <3>2, RoomAfterTail
  <2>9. QED
    BY <1>1, <2>6, <2>7, <2>8
       DEF CuReadLoad, CanReadLoad, TypeOK, aguVars, lsqVars, storeVars, valueVars, portVars
<1>2. ASSUME TypeOK, CuWriteStore PROVE TypeOK'
  <2>. DEFINE op == prog.stores[cuSt + 1]
              v == [value |-> cuSt + 1, tag |-> cuSt + 1, valid |-> op.ok]
  <2>1. op \in StoreOp /\ Len(prog.stores) \in Nat
    BY <1>2, ProgramType DEF CuWriteStore, CanWriteStore, AtStore, TypeOK
  <2>2. cuSt' \in 0 .. Len(prog.stores) /\ cuSt + 1 \in Nat
    BY <1>2, <2>1 DEF CuWriteStore, CanWriteStore, AtStore, TypeOK
  <2>3. op.port \in StPorts /\ v \in StValTok
    BY <2>1, <2>2 DEF StValTok, StoreOp
  <2>4. Append(stValPipe[op.port], v) \in Seq(StValTok)
    BY <1>2, <2>3, AppendProperties DEF TypeOK
  <2>5. stValPipe' \in [StPorts -> Seq(StValTok)]
    BY <1>2, <2>3, <2>4 DEF CuWriteStore, CanWriteStore, TypeOK
  <2>6. \A j \in StPorts : Len(stValPipe'[j]) <= StValDepth
    <3>. DEFINE P == stValPipe
                k == op.port
    <3>1. P \in [StPorts -> Seq(StValTok)] /\ \A j \in StPorts : Len(P[j]) <= StValDepth
      BY <1>2 DEF TypeOK
    <3>2. /\ stValPipe' = [P EXCEPT ![k] = Append(@, v)] /\ Len(P[k]) < StValDepth
          /\ k \in StPorts /\ StValDepth \in Nat
      BY <1>2, <2>3, QueueAssumption DEF CuWriteStore, CanWriteStore
    <3>. HIDE DEF P, k, v
    <3>3. QED
      BY <2>3, <3>1, <3>2, RoomAfterAppend
  <2>7. QED
    BY <1>2, <2>2, <2>5, <2>6 DEF CuWriteStore, CanWriteStore, TypeOK, aguVars, lsqVars, storeVars, valueVars, portVars
<1>3. ASSUME TypeOK, CuEnd PROVE TypeOK'
  <2>1. endPipe' \in Seq({TRUE}) /\ cuEnded' \in BOOLEAN
    BY <1>3, AppendProperties DEF CuEnd, CanEnd, TypeOK
  <2>2. QED
    BY <1>3, <2>1 DEF CuEnd, CanEnd, TypeOK, aguVars, lsqVars, storeVars, valueVars, portVars
<1>4. QED
  BY <1>1, <1>2, <1>3 DEF Cu

LEMMA StoreStageType ==
  ASSUME TypeOK, NEW vals \in SUBSET StPorts, NEW stRdy \in BOOLEAN, NEW endRdy \in BOOLEAN,
         NEW junk \in JunkTags, StoreStage(vals, stRdy, endRdy, junk)
  PROVE  TypeOK'
<1>1. /\ stValPipe' \in [StPorts -> Seq(StValTok)]
      /\ \A k \in StPorts : Len(stValPipe'[k]) <= StValDepth
      /\ stValRead' \in [StPorts -> StValTok]
      /\ stValReadSucc' \in [StPorts -> BOOLEAN]
      /\ nextStValTag' \in Nat /\ arrived' \in Nat
  <2>1. StoreValues(vals)
    BY DEF StoreStage
  <2>2. ASSUME NEW k \in Polled(vals)
        PROVE  k \in StPorts /\ Head(stValPipe[k]) \in StValTok /\ Tail(stValPipe[k]) \in Seq(StValTok)
    BY HeadTailProperties DEF Polled, TypeOK
  <2>3. stValPipe' \in [StPorts -> Seq(StValTok)]
    BY <2>1, <2>2 DEF StoreValues, TypeOK
  <2>4. stValRead' \in [StPorts -> StValTok]
    <3>1. CASE ValueMux
      <4>1. stValRead' = [k \in StPorts |-> IF k \in Polled(vals) THEN Head(stValPipe[k])
                                                                   ELSE stValRead[k]]
        BY <2>1, <3>1, Zenon DEF StoreValues
      <4>2. stValRead \in [StPorts -> StValTok]
        BY DEF TypeOK
      <4>3. QED
        BY <2>2, <4>1, <4>2
    <3>2. CASE ~ValueMux
      BY <2>1, <3>2 DEF StoreValues, TypeOK
    <3>3. QED
      BY <3>1, <3>2
  <2>5. stValReadSucc' \in [StPorts -> BOOLEAN]
    <3>1. ASSUME NEW k \in StPorts
          PROVE  ((k \in Polled(vals) \/ stValReadSucc[k]) /\ k \notin Matching) \in BOOLEAN
      BY DEF TypeOK
    <3>2. QED
      BY <2>1, <3>1 DEF StoreValues, TypeOK
  <2>6. nextStValTag' \in Nat /\ arrived' \in Nat
    BY <2>1 DEF StoreValues, TypeOK
  <2>7. ASSUME NEW k \in StPorts PROVE Len(stValPipe'[k]) <= StValDepth
    <3>1. /\ stValPipe[k] \in Seq(StValTok) /\ Len(stValPipe[k]) <= StValDepth
          /\ Len(stValPipe[k]) \in Nat /\ StValDepth \in Nat
      BY QueueAssumption, LenProperties DEF TypeOK
    <3>2. CASE k \in Polled(vals)
      <4>1. stValPipe[k] # <<>> /\ stValPipe'[k] = Tail(stValPipe[k])
        BY <2>1, <3>2 DEF StoreValues, Polled
      <4>2. Len(Tail(stValPipe[k])) = Len(stValPipe[k]) - 1
        BY <3>1, <4>1, HeadTailProperties
      <4>3. QED
        BY <3>1, <4>1, <4>2
    <3>3. CASE k \notin Polled(vals)
      BY <2>1, <3>1, <3>3 DEF StoreValues
    <3>4. QED
      BY <3>2, <3>3
  <2>8. QED
    BY <2>3, <2>4, <2>5, <2>6, <2>7
<1>2. 1 \in 1 .. StQSize /\ 1 \in 1 .. CommitQSize
  BY QueueAssumption
<1>3. stQ[1] \in StEntry /\ (stQ[1].valid => stQ[1].addr \in Addr)
  BY <1>2 DEF TypeOK
<1>4. ASSUME StValValid(vals) PROVE stQ[1].valid /\ StVal \in StValTok
  <2>1. StValArrived(vals)
    BY <1>4 DEF StValValid
  <2>2. stQ[1].valid
    BY <2>1 DEF StValArrived, Matching, Polled
  <2>3. QED
    BY <2>1, <2>2, StValType
<1>5. stPortPipe' \in Seq(PortWrite) /\ Len(stPortPipe') <= StPortDepth
  <2>. DEFINE waiting == [i \in 1 .. Len(stPortPipe) |-> Older(stPortPipe[i])]
              w == [addr |-> stQ[1].addr, value |-> StVal.value, age |-> 0]
  <2>1. Len(stPortPipe) \in Nat /\ \A i \in 1 .. Len(stPortPipe) : stPortPipe[i] \in PortWrite
    BY DEF TypeOK
  <2>2. ASSUME NEW i \in 1 .. Len(stPortPipe) PROVE Older(stPortPipe[i]) \in PortWrite
    BY <2>1 DEF Older, PortWrite
  <2>3. waiting \in Seq(PortWrite) /\ Len(waiting) = Len(stPortPipe)
    BY <2>1, <2>2
  <2>4. CASE StValValid(vals)
    <3>1. w \in PortWrite
      BY <1>3, <1>4, <2>4 DEF PortWrite, StValTok
    <3>2. stPortPipe' = Append(waiting, w) /\ Len(stPortPipe) < StPortDepth
      BY <2>4 DEF StoreStage, StorePortWrite
    <3>. HIDE DEF waiting, w
    <3>3. Append(waiting, w) \in Seq(PortWrite) /\ Len(Append(waiting, w)) = Len(waiting) + 1
      BY <2>3, <3>1, AppendProperties
    <3>4. StPortDepth \in Nat
      BY QueueAssumption
    <3>5. QED
      BY <2>1, <2>3, <3>2, <3>3, <3>4
  <2>5. CASE ~StValValid(vals)
    <3>1. stPortPipe' = waiting
      BY <2>5 DEF StoreStage, StorePortWrite
    <3>. HIDE DEF waiting
    <3>2. QED
      BY <2>3, <3>1 DEF TypeOK
  <2>6. QED
    BY <2>4, <2>5
<1>6. commitQ' \in [1 .. CommitQSize -> Commit]
  <2>1. NewCommit(vals) \in Commit
    BY <1>3, <1>4 DEF NewCommit, NoCommit, Commit, StValTok, StEntry
  <2>2. commitQ' = CommitQAfterShift(vals) /\ commitQ \in [1 .. CommitQSize -> Commit]
    BY DEF StoreStage, TypeOK
  <2>3. QED
    BY <2>1, <2>2, QueueAssumption DEF CommitQAfterShift
<1>7. /\ stQ' \in [1 .. StQSize -> StEntry]
      /\ \A i \in 1 .. StQSize : stQ'[i].valid => stQ'[i].addr \in Addr
      /\ stReqPipe' \in Seq(StReq) /\ Len(stReqPipe') <= ReqDepth /\ lastStReqTag' \in Nat
  <2>1. /\ stQ' = StQAfterShift(vals, stRdy, junk)
        /\ stReqPipe' = (IF StReqTaken(vals, stRdy) THEN Tail(stReqPipe) ELSE stReqPipe)
        /\ lastStReqTag' \in Nat
    BY DEF StoreStage, TypeOK
  <2>2. stReqPipe # <<>> => /\ Head(stReqPipe) \in StReq /\ Tail(stReqPipe) \in Seq(StReq)
                            /\ Len(Tail(stReqPipe)) = Len(stReqPipe) - 1
    BY HeadTailProperties DEF TypeOK
  <2>3. /\ NewStEntry(vals, stRdy, junk) \in StEntry
        /\ NewStEntry(vals, stRdy, junk).valid => NewStEntry(vals, stRdy, junk).addr \in Addr
    BY <2>2, QueueAssumption DEF NewStEntry, StReqTaken, StEntry, StReq
  <2>4. /\ stQ' \in [1 .. StQSize -> StEntry]
        /\ \A i \in 1 .. StQSize : stQ'[i].valid => stQ'[i].addr \in Addr
    <3>1. /\ stQ \in [1 .. StQSize -> StEntry]
          /\ \A i \in 1 .. StQSize : stQ[i].valid => stQ[i].addr \in Addr
      BY DEF TypeOK
    <3>2. ASSUME NEW i \in 1 .. StQSize, i < StQSize PROVE i + 1 \in 1 .. StQSize
      BY <3>2, QueueAssumption
    <3>3. QED
      BY <2>1, <2>3, <3>1, <3>2 DEF StQAfterShift
  <2>5. stReqPipe' \in Seq(StReq) /\ Len(stReqPipe') <= ReqDepth
    <3>1. Len(stReqPipe) \in Nat /\ Len(stReqPipe) <= ReqDepth /\ ReqDepth \in Nat /\ stReqPipe \in Seq(StReq)
      BY QueueAssumption DEF TypeOK
    <3>2. QED
      BY <2>1, <2>2, <3>1 DEF StReqTaken
  <2>6. QED
    BY <2>1, <2>4, <2>5
<1>8. ending' \in BOOLEAN /\ endPipe' \in Seq({TRUE})
  BY HeadTailProperties DEF StoreStage, EndSeen, TypeOK
<1>9. stage' \in 0 .. NumLds
  BY SizesAssumption DEF StoreStage
<1>10. UNCHANGED <<prog, aguVars, cuVars, ldReqPipe, ldValPipe, done, ldQ,
                   selPipe, addrPipe, bypassPipe, memValPipe, running, data>>
  BY DEF StoreStage
<1>11. QED
  BY <1>1, <1>5, <1>6, <1>7, <1>8, <1>9, <1>10 DEF TypeOK, aguVars, cuVars

(* What a write to, or a read from, one pipe of a family does.             *)
LEMMA AppendAt ==
  ASSUME NEW S, NEW P \in [LdPorts -> Seq(S)], NEW k \in LdPorts, NEW x \in S
  PROVE  /\ [P EXCEPT ![k] = Append(@, x)] \in [LdPorts -> Seq(S)]
         /\ [P EXCEPT ![k] = Append(@, x)][k] = Append(P[k], x)
         /\ Len(Append(P[k], x)) = Len(P[k]) + 1
         /\ \A j \in LdPorts : j # k => [P EXCEPT ![k] = Append(@, x)][j] = P[j]
<1>1. P[k] \in Seq(S)
  OBVIOUS
<1>2. Append(P[k], x) \in Seq(S) /\ Len(Append(P[k], x)) = Len(P[k]) + 1
  BY <1>1, AppendProperties
<1>. DEFINE y == Append(P[k], x)
<1>3. [P EXCEPT ![k] = Append(@, x)] = [P EXCEPT ![k] = y]
  OBVIOUS
<1>. HIDE DEF y
<1>4. y \in Seq(S)
  BY <1>2 DEF y
<1>5. /\ [P EXCEPT ![k] = y] \in [LdPorts -> Seq(S)] /\ [P EXCEPT ![k] = y][k] = y
      /\ \A j \in LdPorts : j # k => [P EXCEPT ![k] = y][j] = P[j]
  BY <1>4
<1>6. QED
  BY <1>2, <1>3, <1>5 DEF y

LEMMA TailAt ==
  ASSUME NEW S, NEW P \in [LdPorts -> Seq(S)], NEW k \in LdPorts, P[k] # <<>>
  PROVE  /\ [P EXCEPT ![k] = Tail(@)] \in [LdPorts -> Seq(S)]
         /\ [P EXCEPT ![k] = Tail(@)][k] = Tail(P[k])
         /\ Len(Tail(P[k])) = Len(P[k]) - 1
         /\ Head(P[k]) \in S
         /\ \A j \in LdPorts : j # k => [P EXCEPT ![k] = Tail(@)][j] = P[j]
<1>1. P[k] \in Seq(S)
  OBVIOUS
<1>2. Tail(P[k]) \in Seq(S) /\ Len(Tail(P[k])) = Len(P[k]) - 1 /\ Head(P[k]) \in S
  BY <1>1, HeadTailProperties
<1>. DEFINE y == Tail(P[k])
<1>3. [P EXCEPT ![k] = Tail(@)] = [P EXCEPT ![k] = y]
  OBVIOUS
<1>. HIDE DEF y
<1>4. y \in Seq(S)
  BY <1>2 DEF y
<1>5. /\ [P EXCEPT ![k] = y] \in [LdPorts -> Seq(S)] /\ [P EXCEPT ![k] = y][k] = y
      /\ \A j \in LdPorts : j # k => [P EXCEPT ![k] = y][j] = P[j]
  BY <1>4
<1>6. QED
  BY <1>2, <1>3, <1>5 DEF y

(* The address of a load is forwarded the youngest match of the commit      *)
(* queue, or nothing.                                                       *)
LEMMA ForwardedIs ==
  ASSUME NEW a
  PROVE  \/ Forwarded(a) = NoBypass /\ \A i \in 1 .. CommitQSize : commitQ[i].addr # a
         \/ \E i \in 1 .. CommitQSize :
              /\ commitQ[i].addr = a /\ Forwarded(a) = commitQ[i].value
              /\ \A j \in i + 1 .. CommitQSize : commitQ[j].addr # a
<1>. DEFINE hits == {i \in 1 .. CommitQSize : commitQ[i].addr = a}
            m == CHOOSE i \in hits : \A j \in hits : j <= i
<1>1. CommitQSize \in Nat
  BY QueueAssumption
<1>2. CASE hits = {}
  BY <1>2 DEF Forwarded
<1>3. CASE hits # {}
  <2>1. \E i \in hits : \A j \in hits : j <= i
    <3>1. hits \in SUBSET (0 .. CommitQSize)
      BY <1>1
    <3>2. QED
      BY <1>1, <1>3, <3>1, HasLargest, Zenon
  <2>2. m \in hits /\ \A j \in hits : j <= m
    BY <2>1
  <2>3. Forwarded(a) = commitQ[m].value
    BY <1>3 DEF Forwarded
  <2>. HIDE DEF m
  <2>4. m \in 1 .. CommitQSize /\ commitQ[m].addr = a
    BY <2>2
  <2>5. ASSUME NEW j \in m + 1 .. CommitQSize PROVE commitQ[j].addr # a
    <3>1. j \in 1 .. CommitQSize /\ ~(j <= m)
      BY <1>1, <2>4
    <3>2. QED
      BY <2>2, <3>1
  <2>6. QED
    BY <2>3, <2>4, <2>5
<1>4. QED
  BY <1>2, <1>3

LEMMA QueueSlots ==
  ASSUME TypeOK, NEW k \in LdPorts
  PROVE  /\ ldQ[k] \in [1 .. LdQSize -> LdEntry]
         /\ 1 \in 1 .. LdQSize /\ 2 \in 1 .. LdQSize /\ LdQSize \in 1 .. LdQSize
         /\ \A i \in 1 .. LdQSize : ldQ[k][i] \in LdEntry
<1>1. 1 \in 1 .. LdQSize /\ 2 \in 1 .. LdQSize /\ LdQSize \in 1 .. LdQSize
  BY QueueAssumption
<1>2. ldQ[k] \in [1 .. LdQSize -> LdEntry]
  BY DEF TypeOK
<1>. HIDE DEF LdPorts
<1>3. QED
  BY <1>1, <1>2

(* A load queue stays a queue of entries through the steps of its stage. *)
LEMMA IssueType ==
  ASSUME TypeOK, NEW k \in LdPorts
  PROVE  LdQAfterIssue(k) \in [1 .. LdQSize -> LdEntry]
<1>1. ldQ[k] \in [1 .. LdQSize -> LdEntry] /\ 1 \in 1 .. LdQSize
  BY QueueSlots
<1>2. [ldQ[k][1] EXCEPT !.search = FALSE] \in LdEntry
  BY <1>1 DEF LdEntry
<1>. DEFINE e == [ldQ[k][1] EXCEPT !.search = FALSE]
<1>3. [ldQ[k] EXCEPT ![1].search = FALSE] = [ldQ[k] EXCEPT ![1] = e]
  OBVIOUS
<1>. HIDE DEF e
<1>4. e \in LdEntry
  BY <1>2 DEF e
<1>5. QED
  BY <1>1, <1>3, <1>4 DEF LdQAfterIssue

(* The last slot with a request. *)
Requested(e, r) ==
  [e EXCEPT !.addr = r.addr, !.tag = r.tag, !.search = TRUE, !.id = r.id, !.isSafe = FALSE]
Unsafe(e) == [e EXCEPT !.isSafe = FALSE]

LEMMA RequestIs ==
  ASSUME TypeOK, NEW k \in LdPorts, NEW ldRdy \in BOOLEAN, NEW q \in [1 .. LdQSize -> LdEntry]
  PROVE  /\ LdQAfterRequest(q, k, ldRdy) \in [1 .. LdQSize -> LdEntry]
         /\ \A i \in 1 .. LdQSize - 1 : LdQAfterRequest(q, k, ldRdy)[i] = q[i]
         /\ LdQAfterRequest(q, k, ldRdy)[LdQSize] =
              IF q[LdQSize].search THEN q[LdQSize]
              ELSE IF LdReqTaken(q, k, ldRdy) THEN Requested(q[LdQSize], Head(ldReqPipe[k]))
              ELSE Unsafe(q[LdQSize])
<1>. DEFINE e == q[LdQSize]
            r == Head(ldReqPipe[k])
<1>1. LdQSize \in 1 .. LdQSize /\ (\A i \in 1 .. LdQSize - 1 : i \in 1 .. LdQSize /\ i # LdQSize)
  BY QueueAssumption
<1>2. e \in LdEntry
  BY <1>1
<1>3. CASE e.search
  BY <1>1, <1>2, <1>3 DEF LdQAfterRequest
<1>4. CASE LdReqTaken(q, k, ldRdy)
  <2>1. r \in LdReq
    <3>1. ldReqPipe[k] \in Seq(LdReq) /\ ldReqPipe[k] # <<>>
      BY <1>4 DEF LdReqTaken, TypeOK
    <3>2. QED
      BY <3>1, HeadTailProperties
  <2>2. Requested(e, r) \in LdEntry
    BY <1>2, <2>1 DEF Requested, LdEntry, LdReq
  <2>3. LdQAfterRequest(q, k, ldRdy) =
          [q EXCEPT ![LdQSize] = [e EXCEPT !.addr = r.addr, !.tag = r.tag, !.search = TRUE,
                                           !.id = r.id, !.isSafe = FALSE]]
    BY <1>1, <1>4 DEF LdQAfterRequest, LdReqTaken
  <2>5. ~e.search
    BY <1>4 DEF LdReqTaken
  <2>. HIDE DEF e, r
  <2>6. LdQAfterRequest(q, k, ldRdy) = [q EXCEPT ![LdQSize] = Requested(e, r)]
    BY <2>3 DEF Requested
  <2>7. QED
    BY <1>1, <1>4, <2>2, <2>5, <2>6 DEF e, r
<1>5. CASE ~e.search /\ ~LdReqTaken(q, k, ldRdy)
  <2>1. Unsafe(e) \in LdEntry
    BY <1>2 DEF Unsafe, LdEntry
  <2>2. LdQAfterRequest(q, k, ldRdy) = [q EXCEPT ![LdQSize] = Unsafe(e)]
    BY <1>1, <1>5 DEF LdQAfterRequest, Unsafe
  <2>. HIDE DEF e
  <2>3. QED
    BY <1>1, <1>5, <2>1, <2>2 DEF e
<1>6. QED
  BY <1>3, <1>4, <1>5 DEF LdReqTaken

LEMMA ForwardedType == ASSUME TypeOK, NEW a PROVE Forwarded(a) \in Nat
<1>1. \A i \in 1 .. CommitQSize : commitQ[i].value \in Nat
  BY DEF TypeOK, Commit
<1>2. QED
  BY <1>1, ForwardedIs DEF NoBypass

Marked(e) == [e EXCEPT !.isSafe = @ \/ SafeNow(e), !.bypass = Forwarded(e.addr)]

LEMMA MarkIs ==
  ASSUME TypeOK, NEW q \in [1 .. LdQSize -> LdEntry]
  PROVE  /\ LdQAfterMark(q) \in [1 .. LdQSize -> LdEntry]
         /\ \A i \in 1 .. LdQSize :
              LdQAfterMark(q)[i] = IF i \in {1, 2} THEN Marked(q[i]) ELSE q[i]
<1>1. ASSUME NEW e \in LdEntry PROVE Marked(e) \in LdEntry
  <2>1. Forwarded(e.addr) \in Nat /\ (e.isSafe \/ SafeNow(e)) \in BOOLEAN
    BY ForwardedType DEF SafeNow, LdEntry
  <2>2. QED
    BY <2>1 DEF Marked, LdEntry
<1>2. \A i \in 1 .. LdQSize : LdQAfterMark(q)[i] = IF i \in {1, 2} THEN Marked(q[i]) ELSE q[i]
  BY DEF LdQAfterMark, Marked
<1>3. LdQAfterMark(q) = [i \in 1 .. LdQSize |-> IF i \in {1, 2} THEN Marked(q[i]) ELSE q[i]]
  BY DEF LdQAfterMark, Marked
<1>4. QED
  BY <1>1, <1>2, <1>3

LEMMA LdQType ==
  ASSUME TypeOK, NEW k \in LdPorts, NEW ldRdy \in BOOLEAN
  PROVE  LdQAfterShift(LdQAfterMark(LdQAfterRequest(LdQAfterIssue(k), k, ldRdy)))
           \in [1 .. LdQSize -> LdEntry]
<1>. DEFINE q == LdQAfterMark(LdQAfterRequest(LdQAfterIssue(k), k, ldRdy))
<1>1. q \in [1 .. LdQSize -> LdEntry]
  BY IssueType, RequestIs, MarkIs, Zenon
<1>. HIDE DEF q
<1>2. ASSUME NEW e \in LdEntry PROVE [e EXCEPT !.search = FALSE, !.isSafe = FALSE] \in LdEntry
  BY DEF LdEntry
<1>3. ASSUME NEW i \in 1 .. LdQSize, i < LdQSize PROVE i + 1 \in 1 .. LdQSize
  BY <1>3, QueueAssumption
<1>4. LdQAfterShift(q) \in [1 .. LdQSize -> LdEntry]
  BY <1>1, <1>2, <1>3 DEF LdQAfterShift
<1>5. QED
  BY <1>4 DEF q

LEMMA LoadStageType ==
  ASSUME TypeOK, NEW k \in LdPorts, NEW ldRdy \in BOOLEAN, LoadStage(k, ldRdy)
  PROVE  TypeOK'
<1>. DEFINE e == ldQ[k][1]
            forward == Issuing(k) /\ e.bypass # NoBypass
            fetch == Issuing(k) /\ e.bypass = NoBypass
<1>1. e \in LdEntry /\ forward \in BOOLEAN
  BY QueueSlots DEF Issuing, LdEntry
<1>2. /\ Issuing(k) => Room(selPipe[k])
      /\ forward => Room(bypassPipe[k])
      /\ fetch => Room(addrPipe[k])
      /\ selPipe' = IF Issuing(k) THEN [selPipe EXCEPT ![k] = Append(@, [bypass |-> forward, id |-> e.id])]
                    ELSE selPipe
      /\ bypassPipe' = IF forward THEN [bypassPipe EXCEPT ![k] = Append(@, [value |-> e.bypass, id |-> e.id])]
                       ELSE bypassPipe
      /\ addrPipe' = IF fetch THEN [addrPipe EXCEPT ![k] = Append(@, [addr |-> e.addr, id |-> e.id])]
                     ELSE addrPipe
  BY DEF LoadStage, Issue, CanIssue
<1>3. /\ [bypass |-> forward, id |-> e.id] \in Selection
      /\ [value |-> e.bypass, id |-> e.id] \in LdValTok
      /\ [addr |-> e.addr, id |-> e.id] \in PortRead
  BY <1>1 DEF Selection, LdValTok, PortRead, LdEntry
<1>. HIDE DEF e, forward, fetch
<1>4. /\ selPipe \in [LdPorts -> Seq(Selection)] /\ bypassPipe \in [LdPorts -> Seq(LdValTok)]
      /\ addrPipe \in [LdPorts -> Seq(PortRead)] /\ LdPortDepth \in Nat
      /\ ldReqPipe \in [LdPorts -> Seq(LdReq)]
  BY QueueAssumption DEF TypeOK
<1>5. \A j \in LdPorts : /\ Len(selPipe[j]) <= LdPortDepth /\ Len(addrPipe[j]) <= LdPortDepth
                         /\ Len(bypassPipe[j]) <= LdPortDepth
                         /\ Len(selPipe[j]) \in Nat /\ Len(addrPipe[j]) \in Nat
  BY LenProperties DEF TypeOK
<1>6. selPipe' \in [LdPorts -> Seq(Selection)] /\ \A j \in LdPorts : Len(selPipe'[j]) <= LdPortDepth
  <2>1. CASE Issuing(k)
    <3>. DEFINE x == [bypass |-> forward, id |-> e.id]
    <3>1. selPipe' = [selPipe EXCEPT ![k] = Append(@, x)] /\ Len(selPipe[k]) < LdPortDepth
      BY <1>2, <2>1 DEF Room
    <3>. HIDE DEF x
    <3>2. x \in Selection
      BY <1>3 DEF x
    <3>3. /\ selPipe' \in [LdPorts -> Seq(Selection)] /\ selPipe'[k] = Append(selPipe[k], x)
          /\ Len(Append(selPipe[k], x)) = Len(selPipe[k]) + 1
          /\ \A j \in LdPorts : j # k => selPipe'[j] = selPipe[j]
      BY <1>4, <3>1, <3>2, AppendAt
    <3>4. QED
      BY <1>4, <1>5, <3>1, <3>3
  <2>2. CASE ~Issuing(k)
    BY <1>2, <1>4, <1>5, <2>2
  <2>3. QED
    BY <2>1, <2>2
<1>7. addrPipe' \in [LdPorts -> Seq(PortRead)] /\ \A j \in LdPorts : Len(addrPipe'[j]) <= LdPortDepth
  <2>1. CASE fetch
    <3>. DEFINE x == [addr |-> e.addr, id |-> e.id]
    <3>1. addrPipe' = [addrPipe EXCEPT ![k] = Append(@, x)] /\ Len(addrPipe[k]) < LdPortDepth
      BY <1>2, <2>1 DEF Room
    <3>. HIDE DEF x
    <3>2. x \in PortRead
      BY <1>3 DEF x
    <3>3. /\ addrPipe' \in [LdPorts -> Seq(PortRead)] /\ addrPipe'[k] = Append(addrPipe[k], x)
          /\ Len(Append(addrPipe[k], x)) = Len(addrPipe[k]) + 1
          /\ \A j \in LdPorts : j # k => addrPipe'[j] = addrPipe[j]
      BY <1>4, <3>1, <3>2, AppendAt
    <3>4. QED
      BY <1>4, <1>5, <3>1, <3>3
  <2>2. CASE ~fetch
    BY <1>2, <1>4, <1>5, <2>2
  <2>3. QED
    BY <2>1, <2>2
<1>8. bypassPipe' \in [LdPorts -> Seq(LdValTok)] /\ \A j \in LdPorts : Len(bypassPipe'[j]) <= LdPortDepth
  <2>1. CASE forward
    <3>. DEFINE x == [value |-> e.bypass, id |-> e.id]
    <3>1. bypassPipe' = [bypassPipe EXCEPT ![k] = Append(@, x)] /\ Len(bypassPipe[k]) < LdPortDepth
      BY <1>2, <2>1 DEF Room
    <3>. HIDE DEF x
    <3>2. x \in LdValTok
      BY <1>3 DEF x
    <3>3. bypassPipe' \in [LdPorts -> Seq(LdValTok)]
      BY <1>4, <3>1, <3>2, AppendAt
    <3>4. \A j \in LdPorts : Len(bypassPipe'[j]) <= LdPortDepth
      BY <1>4, <1>5, <3>1, <3>2, RoomAfterAppend
    <3>5. QED
      BY <3>3, <3>4
  <2>2. CASE ~forward
    BY <1>2, <1>4, <1>5, <2>2
  <2>3. QED
    BY <2>1, <2>2
<1>9. ldReqPipe' \in [LdPorts -> Seq(LdReq)] /\ \A j \in LdPorts : Len(ldReqPipe'[j]) <= ReqDepth
  <2>. DEFINE q == LdQAfterIssue(k)
  <2>1. ldReqPipe' = IF LdReqTaken(q, k, ldRdy) THEN [ldReqPipe EXCEPT ![k] = Tail(@)] ELSE ldReqPipe
    BY DEF LoadStage
  <2>2. LdReqTaken(q, k, ldRdy) => ldReqPipe[k] # <<>>
    BY DEF LdReqTaken
  <2>. HIDE DEF q
  <2>3. ldReqPipe' \in [LdPorts -> Seq(LdReq)]
    BY <1>4, <2>1, <2>2, TailAt
  <2>4. ReqDepth \in Nat /\ \A j \in LdPorts : Len(ldReqPipe[j]) <= ReqDepth
    BY QueueAssumption DEF TypeOK
  <2>5. \A j \in LdPorts : Len(ldReqPipe'[j]) <= ReqDepth
    BY <1>4, <2>1, <2>2, <2>4, RoomAfterTail
  <2>6. QED
    BY <2>3, <2>5
<1>10. ldQ' \in [LdPorts -> [1 .. LdQSize -> LdEntry]]
  <2>. DEFINE q == LdQAfterShift(LdQAfterMark(LdQAfterRequest(LdQAfterIssue(k), k, ldRdy)))
  <2>1. ldQ' = [ldQ EXCEPT ![k] = q]
    BY DEF LoadStage
  <2>2. q \in [1 .. LdQSize -> LdEntry]
    BY LdQType
  <2>. HIDE DEF q
  <2>3. QED
    BY <2>1, <2>2 DEF TypeOK
<1>11. stage' \in 0 .. NumLds /\ done' \in BOOLEAN
  <2>1. NumLds \in Nat \ {0}
    BY SizesAssumption
  <2>2. stage + 1 \in Int /\ NumLds + 1 \in Nat \ {0}
    BY <2>1 DEF TypeOK
  <2>. DEFINE n == stage + 1
              m == NumLds + 1
  <2>3. m - 1 = NumLds
    BY <2>1
  <2>. HIDE DEF n, m
  <2>4. (n % m) \in 0 .. m - 1
    BY <2>2 DEF n, m
  <2>5. QED
    BY <2>3, <2>4 DEF n, m, LoadStage, TypeOK
<1>12. UNCHANGED <<prog, aguVars, cuVars, stReqPipe, stValPipe, ldValPipe, endPipe, ending,
                   storeVars, stPortPipe, memValPipe, running, data>>
  BY DEF LoadStage
<1>13. QED
  BY <1>6, <1>7, <1>8, <1>9, <1>10, <1>11, <1>12 DEF TypeOK, aguVars, cuVars, storeVars, valueVars

LEMMA StorePortType == TypeOK /\ StorePort => TypeOK'
<1>. SUFFICES ASSUME TypeOK, StorePort PROVE TypeOK'
  OBVIOUS
<1>1. stPortPipe \in Seq(PortWrite) /\ stPortPipe # <<>> /\ Len(stPortPipe) <= StPortDepth
  BY DEF StorePort, TypeOK
<1>2. /\ Head(stPortPipe) \in PortWrite /\ Tail(stPortPipe) \in Seq(PortWrite)
      /\ Len(Tail(stPortPipe)) = Len(stPortPipe) - 1 /\ Len(stPortPipe) \in Nat
  BY <1>1, HeadTailProperties
<1>3. stPortPipe' \in Seq(PortWrite) /\ Len(stPortPipe') <= StPortDepth
  <2>1. StPortDepth \in Nat
    BY QueueAssumption
  <2>2. QED
    BY <1>1, <1>2, <2>1 DEF StorePort
<1>4. data' \in [Addr -> Nat]
  BY <1>2 DEF StorePort, TypeOK, PortWrite
<1>5. QED
  BY <1>3, <1>4 DEF StorePort, TypeOK, aguVars, cuVars, lsqVars, storeVars, valueVars

LEMMA LoadPortType == ASSUME TypeOK, NEW k \in LdPorts, LoadPort(k) PROVE TypeOK'
<1>. DEFINE r == Head(addrPipe[k])
            v == [value |-> data[r.addr], id |-> r.id]
<1>1. /\ addrPipe \in [LdPorts -> Seq(PortRead)] /\ memValPipe \in [LdPorts -> Seq(LdValTok)]
      /\ addrPipe[k] # <<>> /\ data \in [Addr -> Nat]
  BY DEF LoadPort, CanFetch, TypeOK
<1>2. r \in PortRead
  BY <1>1, TailAt
<1>3. v \in LdValTok
  BY <1>1, <1>2 DEF LdValTok, PortRead
<1>4. /\ memValPipe' = [memValPipe EXCEPT ![k] = Append(@, v)]
      /\ addrPipe' = [addrPipe EXCEPT ![k] = Tail(@)] /\ Len(memValPipe[k]) < LdPortDepth
  BY DEF LoadPort, CanFetch, Room
<1>. HIDE DEF r, v
<1>5. /\ memValPipe' \in [LdPorts -> Seq(LdValTok)] /\ memValPipe'[k] = Append(memValPipe[k], v)
      /\ Len(Append(memValPipe[k], v)) = Len(memValPipe[k]) + 1
      /\ \A j \in LdPorts : j # k => memValPipe'[j] = memValPipe[j]
  BY <1>1, <1>3, <1>4, AppendAt
<1>6. /\ addrPipe' \in [LdPorts -> Seq(PortRead)] /\ addrPipe'[k] = Tail(addrPipe[k])
      /\ Len(Tail(addrPipe[k])) = Len(addrPipe[k]) - 1
      /\ \A j \in LdPorts : j # k => addrPipe'[j] = addrPipe[j]
  BY <1>1, <1>4, TailAt
<1>7. \A j \in LdPorts : /\ Len(memValPipe[j]) <= LdPortDepth /\ Len(addrPipe[j]) <= LdPortDepth
                         /\ Len(memValPipe[j]) \in Nat /\ Len(addrPipe[j]) \in Nat
  BY LenProperties DEF TypeOK
<1>8. LdPortDepth \in Nat
  BY QueueAssumption
<1>9. \A j \in LdPorts : Len(memValPipe'[j]) <= LdPortDepth /\ Len(addrPipe'[j]) <= LdPortDepth
  BY <1>4, <1>5, <1>6, <1>7, <1>8
<1>10. QED
  BY <1>5, <1>6, <1>9
     DEF LoadPort, CanFetch, TypeOK, aguVars, cuVars, lsqVars, storeVars, valueVars

LEMMA LoadMuxType == ASSUME TypeOK, NEW k \in LdPorts, LoadMux(k) PROVE TypeOK'
<1>1. /\ selPipe \in [LdPorts -> Seq(Selection)] /\ ldValPipe \in [LdPorts -> Seq(LdValTok)]
      /\ bypassPipe \in [LdPorts -> Seq(LdValTok)] /\ memValPipe \in [LdPorts -> Seq(LdValTok)]
      /\ selPipe[k] # <<>> /\ Len(ldValPipe[k]) < LdValDepth
      /\ LdPortDepth \in Nat /\ LdValDepth \in Nat
  BY QueueAssumption DEF LoadMux, CanSelect, TypeOK
<1>2. \A j \in LdPorts :
        /\ Len(memValPipe[j]) <= LdPortDepth /\ Len(selPipe[j]) <= LdPortDepth
        /\ Len(ldValPipe[j]) <= LdValDepth /\ Len(bypassPipe[j]) <= LdPortDepth
        /\ Len(memValPipe[j]) \in Nat /\ Len(selPipe[j]) \in Nat /\ Len(ldValPipe[j]) \in Nat
  BY LenProperties DEF TypeOK
<1>3. selPipe' \in [LdPorts -> Seq(Selection)] /\ \A j \in LdPorts : Len(selPipe'[j]) <= LdPortDepth
  <2>1. selPipe' = [selPipe EXCEPT ![k] = Tail(@)]
    BY DEF LoadMux, CanSelect
  <2>2. /\ selPipe' \in [LdPorts -> Seq(Selection)] /\ selPipe'[k] = Tail(selPipe[k])
        /\ Len(Tail(selPipe[k])) = Len(selPipe[k]) - 1
        /\ \A j \in LdPorts : j # k => selPipe'[j] = selPipe[j]
    BY <1>1, <2>1, TailAt
  <2>3. QED
    BY <1>1, <1>2, <2>2
<1>4. ASSUME NEW v \in LdValTok, ldValPipe' = [ldValPipe EXCEPT ![k] = Append(@, v)]
      PROVE  ldValPipe' \in [LdPorts -> Seq(LdValTok)] /\ \A j \in LdPorts : Len(ldValPipe'[j]) <= LdValDepth
  <2>1. ldValPipe' \in [LdPorts -> Seq(LdValTok)]
    BY <1>1, <1>4, AppendAt
  <2>2. \A j \in LdPorts : Len(ldValPipe'[j]) <= LdValDepth
    BY <1>1, <1>2, <1>4, RoomAfterAppend
  <2>3. QED
    BY <2>1, <2>2
<1>5. /\ ldValPipe' \in [LdPorts -> Seq(LdValTok)] /\ \A j \in LdPorts : Len(ldValPipe'[j]) <= LdValDepth
      /\ bypassPipe' \in [LdPorts -> Seq(LdValTok)] /\ memValPipe' \in [LdPorts -> Seq(LdValTok)]
      /\ \A j \in LdPorts : Len(memValPipe'[j]) <= LdPortDepth /\ Len(bypassPipe'[j]) <= LdPortDepth
  <2>1. CASE Head(selPipe[k]).bypass
    <3>1. /\ bypassPipe[k] # <<>> /\ memValPipe' = memValPipe
          /\ ldValPipe' = [ldValPipe EXCEPT ![k] = Append(@, Head(bypassPipe[k]))]
          /\ bypassPipe' = [bypassPipe EXCEPT ![k] = Tail(@)]
      BY <2>1 DEF LoadMux, CanSelect
    <3>2. Head(bypassPipe[k]) \in LdValTok /\ bypassPipe' \in [LdPorts -> Seq(LdValTok)]
      <4>. DEFINE P == bypassPipe
      <4>1. P \in [LdPorts -> Seq(LdValTok)] /\ P[k] # <<>> /\ bypassPipe' = [P EXCEPT ![k] = Tail(@)]
        BY <1>1, <3>1
      <4>. HIDE DEF P
      <4>2. Head(P[k]) \in LdValTok /\ [P EXCEPT ![k] = Tail(@)] \in [LdPorts -> Seq(LdValTok)]
        BY <4>1, TailAt
      <4>3. QED
        BY <4>1, <4>2 DEF P
    <3>3. \A j \in LdPorts : Len(bypassPipe'[j]) <= LdPortDepth
      BY <1>1, <1>2, <3>1, RoomAfterTail
    <3>4. QED
      BY <1>1, <1>2, <1>4, <3>1, <3>2, <3>3
  <2>2. CASE ~Head(selPipe[k]).bypass
    <3>1. /\ memValPipe[k] # <<>> /\ bypassPipe' = bypassPipe
          /\ ldValPipe' = [ldValPipe EXCEPT ![k] = Append(@, Head(memValPipe[k]))]
          /\ memValPipe' = [memValPipe EXCEPT ![k] = Tail(@)]
      BY <2>2 DEF LoadMux, CanSelect
    <3>2. Head(memValPipe[k]) \in LdValTok /\ memValPipe' \in [LdPorts -> Seq(LdValTok)]
      <4>. DEFINE P == memValPipe
      <4>1. P \in [LdPorts -> Seq(LdValTok)] /\ P[k] # <<>> /\ memValPipe' = [P EXCEPT ![k] = Tail(@)]
        BY <1>1, <3>1
      <4>. HIDE DEF P
      <4>2. Head(P[k]) \in LdValTok /\ [P EXCEPT ![k] = Tail(@)] \in [LdPorts -> Seq(LdValTok)]
        BY <4>1, TailAt
      <4>3. QED
        BY <4>1, <4>2 DEF P
    <3>3. \A j \in LdPorts : Len(memValPipe'[j]) <= LdPortDepth
      BY <1>1, <1>2, <3>1, RoomAfterTail
    <3>4. QED
      BY <1>1, <1>2, <1>4, <3>1, <3>2, <3>3
  <2>3. QED
    BY <2>1, <2>2
<1>6. QED
  BY <1>3, <1>5 DEF LoadMux, CanSelect, TypeOK, aguVars, cuVars, lsqVars, storeVars, valueVars

LEMMA InitTypeOK == Init => TypeOK
<1>. SUFFICES ASSUME Init PROVE TypeOK
  OBVIOUS
<1>1. /\ EmptySt \in StEntry /\ EmptyLd \in LdEntry /\ NoStVal \in StValTok /\ NoCommit \in Commit
      /\ ~EmptySt.valid
  BY SizesAssumption, QueueAssumption
     DEF EmptySt, EmptyLd, NoStVal, NoCommit, StEntry, LdEntry, StValTok, Commit
<1>2. \A S : <<>> \in Seq(S)
  OBVIOUS
<1>3. /\ stValPipe \in [StPorts -> Seq(StValTok)]
      /\ ldReqPipe \in [LdPorts -> Seq(LdReq)] /\ ldValPipe \in [LdPorts -> Seq(LdValTok)]
      /\ selPipe \in [LdPorts -> Seq(Selection)] /\ bypassPipe \in [LdPorts -> Seq(LdValTok)]
      /\ addrPipe \in [LdPorts -> Seq(PortRead)] /\ memValPipe \in [LdPorts -> Seq(LdValTok)]
  BY <1>2 DEF Init
<1>4. \A k \in LdPorts : /\ Len(selPipe[k]) = 0 /\ Len(addrPipe[k]) = 0
                         /\ Len(memValPipe[k]) = 0 /\ Len(ldValPipe[k]) = 0
                         /\ Len(bypassPipe[k]) = 0 /\ Len(ldReqPipe[k]) = 0
  BY DEF Init
<1>5. /\ data \in [Addr -> Nat]
      /\ stQ \in [1 .. StQSize -> StEntry] /\ commitQ \in [1 .. CommitQSize -> Commit]
      /\ stValRead \in [StPorts -> StValTok] /\ stValReadSucc \in [StPorts -> BOOLEAN]
      /\ \A i \in 1 .. StQSize : stQ[i].valid => stQ[i].addr \in Addr
  BY <1>1 DEF Init
<1>6. ldQ \in [LdPorts -> [1 .. LdQSize -> LdEntry]]
  BY <1>1 DEF Init
<1>7. /\ 0 \in 0 .. NumLds /\ 0 <= ReqDepth /\ 0 <= StPortDepth /\ 0 <= LdPortDepth /\ 0 <= LdValDepth
      /\ 0 <= StValDepth /\ \A k \in StPorts : Len(stValPipe[k]) = 0
  BY SizesAssumption, QueueAssumption DEF Init
<1>8. 0 \in 0 .. Len(prog.stores) /\ 0 \in 0 .. Len(prog.loads)
  BY ProgramType DEF Init
<1>9. QED
  BY <1>2, <1>3, <1>4, <1>5, <1>6, <1>7, <1>8 DEF Init, TypeOK

LEMMA StepTypeOK == TypeOK /\ [Next]_vars => TypeOK'
<1>. SUFFICES ASSUME TypeOK, [Next]_vars PROVE TypeOK'
  OBVIOUS
<1>1. CASE Agu
  BY <1>1, AguType
<1>2. CASE Cu
  BY <1>2, CuType
<1>3. CASE Lsq
  BY <1>3, StoreStageType, LoadStageType DEF Lsq
<1>4. CASE StorePort
  BY <1>4, StorePortType
<1>5. CASE LoadPorts
  BY <1>5, LoadPortType, LoadMuxType DEF LoadPorts
<1>6. CASE \E kernel \in PortKernels : PortEnds(kernel)
  BY <1>6 DEF PortEnds, TypeOK, aguVars, cuVars, lsqVars, storeVars, valueVars
<1>7. CASE UNCHANGED vars
  BY <1>7 DEF vars, TypeOK, aguVars, cuVars, lsqVars, storeVars, valueVars, portVars
<1>8. QED
  BY <1>1, <1>2, <1>3, <1>4, <1>5, <1>6, <1>7 DEF Next

(* Every reachable state of the queue and its ports is well typed: no       *)
(* register, queue entry or pipe ever holds anything but a value of its     *)
(* kind, a valid store entry has an address of the array, and no bounded    *)
(* pipe is overfilled.                                                      *)
THEOREM TypeCorrect == Spec => []TypeOK
BY InitTypeOK, StepTypeOK, PTL DEF Spec

------------------------------------------------------------------------------
(* Consequences of the invariant in one state. *)

(* A value stays the latest while only stores elsewhere, or poisoned ones, *)
(* are added.                                                              *)
LEMMA LatestExtends ==
  ASSUME NEW p, NEW v, NEW a, NEW t \in Nat, NEW u \in Nat, t <= u,
         IsLatest(p, v, a, t), \A s \in t + 1 .. u : ~Writes(p, s, a)
  PROVE  IsLatest(p, v, a, u)
<1>1. v \in 0 .. t /\ v \in 0 .. u
  BY DEF IsLatest
<1>2. ASSUME NEW s \in v + 1 .. u PROVE ~Writes(p, s, a)
  <2>1. s \in v + 1 .. t \/ s \in t + 1 .. u
    BY <1>1
  <2>2. QED
    BY <2>1 DEF IsLatest
<1>3. QED
  BY <1>1, <1>2 DEF IsLatest

LEMMA InvCounters ==
  ASSUME IInv
  PROVE  /\ aguSt \in Nat /\ aguLd \in Nat /\ cuSt \in Nat /\ arrived \in Nat
         /\ Len(got) \in Nat /\ Len(stReqPipe) \in Nat
         /\ Len(prog.stores) \in Nat /\ Len(prog.loads) \in Nat
         /\ Accepted \in Nat /\ Accepted + Len(stReqPipe) = aguSt /\ lastStReqTag = Accepted
         /\ aguSt <= Len(prog.stores) /\ cuSt <= Len(prog.stores) /\ aguLd <= Len(prog.loads)
         /\ Len(got) <= Len(prog.loads)
         /\ arrived <= Accepted /\ arrived <= cuSt /\ Accepted <= Len(prog.stores)
<1>1. TypeOK /\ CuInOrder /\ StoreRequestsInOrder /\ StoreQueueHoldsPending
  BY DEF IInv
<1>2. /\ Len(prog.stores) \in Nat /\ Len(prog.loads) \in Nat
  BY <1>1, ProgramType DEF TypeOK
<1>3. /\ Len(got) \in Nat /\ Len(stReqPipe) \in Nat
  BY <1>1, LenProperties DEF TypeOK
<1>4. /\ aguSt \in 0 .. Len(prog.stores) /\ aguLd \in 0 .. Len(prog.loads)
      /\ cuSt \in 0 .. Len(prog.stores) /\ arrived \in Nat
  BY <1>1 DEF TypeOK
<1>5. /\ Len(stReqPipe) <= aguSt /\ lastStReqTag = Accepted /\ arrived <= Accepted
      /\ arrived <= cuSt /\ Len(got) <= Len(prog.loads)
  BY <1>1 DEF CuInOrder, StoreRequestsInOrder, StoreQueueHoldsPending
<1>6. Accepted = aguSt - Len(stReqPipe)
  BY DEF Accepted
<1>7. QED
  BY <1>2, <1>3, <1>4, <1>5, <1>6

LEMMA ProgOps ==
  ASSUME TypeOK
  PROVE  /\ \A l \in 1 .. Len(prog.loads) :
              /\ prog.loads[l].addr \in Addr /\ prog.loads[l].port \in LdPorts
              /\ prog.loads[l].tag \in 0 .. Len(prog.stores)
         /\ \A s \in 1 .. Len(prog.stores) :
              /\ prog.stores[s].addr \in Addr /\ prog.stores[s].port \in StPorts
              /\ prog.stores[s].ok \in BOOLEAN
         /\ \A l, m \in 1 .. Len(prog.loads) : l <= m => prog.loads[l].tag <= prog.loads[m].tag
<1>1. prog \in Programs
  BY DEF TypeOK
<1>2. Len(prog.stores) \in Nat
  BY <1>1, ProgramType
<1>3. ASSUME NEW l \in 1 .. Len(prog.loads)
      PROVE  /\ prog.loads[l].addr \in Addr /\ prog.loads[l].port \in LdPorts
             /\ prog.loads[l].tag \in 0 .. Len(prog.stores)
  <2>1. prog.loads[l] \in LoadOp /\ prog.loads[l].tag <= Len(prog.stores)
    BY <1>1, ProgramType
  <2>2. QED
    BY <1>2, <2>1 DEF LoadOp
<1>4. ASSUME NEW s \in 1 .. Len(prog.stores)
      PROVE  /\ prog.stores[s].addr \in Addr /\ prog.stores[s].port \in StPorts
             /\ prog.stores[s].ok \in BOOLEAN
  <2>1. prog.stores[s] \in StoreOp
    BY <1>1, ProgramType
  <2>2. QED
    BY <2>1 DEF StoreOp
<1>5. \A l, m \in 1 .. Len(prog.loads) : l <= m => prog.loads[l].tag <= prog.loads[m].tag
  BY <1>1, ProgramType
<1>6. QED
  BY <1>3, <1>4, <1>5, Zenon

(* The head of the store queue is the oldest store without a value. *)
LEMMA HeadStore ==
  ASSUME IInv, stQ[1].valid
  PROVE  /\ stQ[1].tag = arrived + 1
         /\ arrived + 1 <= Accepted
         /\ arrived + 1 \in 1 .. Len(prog.stores)
         /\ stQ[1].addr = prog.stores[arrived + 1].addr
<1>1. HoldsStores(stQ, arrived, Accepted)
  BY DEF IInv, StoreQueueHoldsPending
<1>2. 1 \in 1 .. StQSize /\ \A i \in 1 .. StQSize : i = 1 \/ 1 < i
  BY QueueAssumption
<1>3. arrived \in Nat /\ Accepted \in Nat /\ Accepted <= Len(prog.stores) /\ Len(prog.stores) \in Nat
  BY InvCounters
<1>4. stQ[1].tag \in arrived + 1 .. Accepted /\ stQ[1].addr = prog.stores[stQ[1].tag].addr
  BY <1>1, <1>2 DEF HoldsStores
<1>5. arrived + 1 \in arrived + 1 .. Accepted
  BY <1>3, <1>4
<1>6. PICK i \in 1 .. StQSize : stQ[i].valid /\ stQ[i].tag = arrived + 1
  BY <1>1, <1>5 DEF HoldsStores
<1>7. i = 1 \/ stQ[1].tag < arrived + 1
  BY <1>1, <1>2, <1>6 DEF HoldsStores
<1>8. stQ[1].tag = arrived + 1
  BY <1>3, <1>4, <1>6, <1>7
<1>9. QED
  BY <1>3, <1>4, <1>5, <1>8

(* The value that arrives is the one of the head. *)
LEMMA ArrivingValue ==
  ASSUME IInv, NEW vals \in SUBSET StPorts, StValArrived(vals)
  PROVE  /\ stQ[1].valid
         /\ StVal.value = arrived + 1
         /\ arrived + 1 <= cuSt
         /\ StVal.valid = prog.stores[arrived + 1].ok
<1>. TypeOK /\ StoreValuesPaired /\ CuInOrder
  BY DEF IInv
<1>0. arrived \in Nat /\ cuSt \in Nat
  BY InvCounters
<1>1. CASE ValueMux
  <2>1. Matching \in SUBSET StPorts /\ Matching # {}
    BY <1>1 DEF StValArrived, Matching
  <2>2. PICK k \in Matching : StVal = stValRead[k]
    BY <1>1, <2>1, LargestPort, Zenon DEF StVal
  <2>3. /\ stQ[1].valid /\ k \in StPorts /\ stValReadSucc[k]
        /\ stValRead[k].tag = nextStValTag
    BY <2>2 DEF Matching
  <2>4. GoodStVal(stValRead[k])
    BY <2>3 DEF StoreValuesPaired
  <2>5. nextStValTag = arrived + 1
    BY <1>1 DEF StoreValuesPaired
  <2>6. StVal.value = arrived + 1 /\ StVal.value \in 1 .. cuSt
        /\ StVal.valid = prog.stores[StVal.value].ok
    BY <2>2, <2>3, <2>4, <2>5 DEF GoodStVal
  <2>7. QED
    BY <1>0, <2>3, <2>6
<1>2. CASE ~ValueMux
  <2>1. NumStVals = 1
    BY <1>2, SizesAssumption DEF ValueMux
  <2>2. PICK k \in vals : stQ[1].valid /\ stValPipe[k] # <<>>
    BY <1>2 DEF StValArrived, Polled
  <2>3. k = 0 /\ stValPipe[0] \in Seq(StValTok)
    BY <2>1 DEF TypeOK
  <2>4. 1 \in 1 .. Len(stValPipe[0]) /\ StVal = stValPipe[0][1]
    BY <1>2, <2>2, <2>3 DEF StVal
  <2>5. GoodStVal(StVal) /\ StVal.value = arrived + 1
    BY <1>2, <2>1, <2>4 DEF StoreValuesPaired
  <2>6. QED
    BY <1>0, <2>2, <2>5 DEF GoodStVal
<1>3. QED
  BY <1>1, <1>2

(* A store commits exactly when its value arrives and it is not poisoned. *)
LEMMA CommitIffNotPoisoned ==
  ASSUME IInv, NEW vals \in SUBSET StPorts
  PROVE  StValValid(vals) <=> StValArrived(vals) /\ prog.stores[arrived + 1].ok
<1>1. ASSUME StValArrived(vals), ~UseSpeculation PROVE prog.stores[arrived + 1].ok
  <2>1. prog \in Programs
    BY DEF IInv, TypeOK
  <2>2. arrived + 1 \in 1 .. Len(prog.stores)
    BY <1>1, ArrivingValue, HeadStore
  <2>3. \A s \in 1 .. Len(prog.stores) : prog.stores[s].ok
    BY <1>1, <2>1, SpeculationAssumption, Zenon
  <2>4. QED
    BY <2>2, <2>3
<1>2. QED
  BY <1>1, ArrivingValue DEF StValValid

(* An unread load is younger than every store whose value was sent. *)
LEMMA UnreadLoad ==
  ASSUME IInv, NEW l \in Len(got) + 1 .. Len(prog.loads)
  PROVE  /\ cuSt <= prog.loads[l].tag /\ arrived <= prog.loads[l].tag
         /\ l \in 1 .. Len(prog.loads) /\ prog.loads[l].tag \in Nat
         /\ prog.loads[l].tag <= Len(prog.stores)
<1>1. /\ Len(got) + 1 \in 1 .. Len(prog.loads) /\ l \in 1 .. Len(prog.loads)
      /\ Len(got) < Len(prog.loads) /\ Len(got) + 1 <= l
  <2>1. Len(got) \in Nat /\ Len(prog.loads) \in Nat
    BY InvCounters
  <2>2. QED
    BY <2>1
<1>2. prog.loads[Len(got) + 1].tag <= prog.loads[l].tag
  BY <1>1, ProgOps DEF IInv
<1>3. cuSt <= prog.loads[Len(got) + 1].tag
  BY <1>1 DEF IInv, CuInOrder
<1>4. cuSt \in Nat /\ Len(prog.stores) \in Nat /\ arrived \in Nat /\ arrived <= cuSt
  BY InvCounters
<1>5. prog.loads[Len(got) + 1].tag \in 0 .. Len(prog.stores) /\ prog.loads[l].tag \in 0 .. Len(prog.stores)
  BY <1>1, ProgOps DEF IInv
<1>6. QED
  BY <1>1, <1>2, <1>3, <1>4, <1>5

(* A load that a port holds anywhere is a load of that port which the CU    *)
(* has not read.                                                            *)
LEMMA HeldLoad ==
  ASSUME IInv, NEW k \in LdPorts,
         NEW l, \/ l \in Ids(ldValPipe[k]) \/ l \in Ids(selPipe[k])
                \/ l \in QueueIds(ldQ[k]) \/ l \in Ids(ldReqPipe[k])
  PROVE  /\ l \in Len(got) + 1 .. Len(prog.loads) /\ l \in Len(got) + 1 .. aguLd
         /\ prog.loads[l].port = k
<1>1. PICK r \in 0 .. aguLd : \E i, a \in 0 .. aguLd : LoadsHeld(k, r, i, a)
  BY DEF IInv, LoadsInOrder
<1>2. PICK i \in 0 .. aguLd, a \in 0 .. aguLd : LoadsHeld(k, r, i, a)
  BY <1>1
<1>3. /\ l \in PortLoads(k, Len(got), r) \/ l \in PortLoads(k, r, i)
         \/ l \in PortLoads(k, i, a) \/ l \in PortLoads(k, a, aguLd)
      /\ Len(got) <= r /\ r <= i /\ i <= a /\ a <= aguLd
  BY <1>2 DEF LoadsHeld
<1>4. Len(got) \in Nat /\ aguLd \in Nat /\ aguLd <= Len(prog.loads) /\ Len(prog.loads) \in Nat
  BY InvCounters
<1>5. r \in Nat /\ i \in Nat /\ a \in Nat
  BY <1>1, <1>2, <1>4
<1>6. QED
  BY <1>3, <1>4, <1>5 DEF PortLoads

LEMMA QueuedLoad ==
  ASSUME IInv, NEW k \in LdPorts, NEW i \in 1 .. LdQSize, ldQ[k][i].search
  PROVE  /\ ldQ[k][i].id \in Len(got) + 1 .. Len(prog.loads)
         /\ ldQ[k][i].addr = prog.loads[ldQ[k][i].id].addr
         /\ ldQ[k][i].tag = prog.loads[ldQ[k][i].id].tag
<1>1. ldQ[k][i].id \in QueueIds(ldQ[k])
  BY DEF QueueIds
<1>2. IsRequest(ldQ[k][i])
  BY DEF IInv, RequestsMatchLoads
<1>3. QED
  BY <1>1, <1>2, HeldLoad DEF IsRequest

LEMMA FetchedLoad ==
  ASSUME IInv, NEW k \in LdPorts, NEW i \in 1 .. Len(addrPipe[k])
  PROVE  /\ addrPipe[k][i].id \in Len(got) + 1 .. Len(prog.loads)
         /\ addrPipe[k][i].addr = prog.loads[addrPipe[k][i].id].addr
         /\ Clear(addrPipe[k][i].id)
<1>1. addrPipe[k][i].id \in Ids(addrPipe[k])
  BY DEF Ids
<1>2. addrPipe[k][i].id \in Selected(selPipe[k], FALSE)
  BY <1>1 DEF IInv, RoutesInOrder, Routes
<1>3. addrPipe[k][i].id \in Ids(selPipe[k])
  BY <1>2 DEF Selected, Ids
<1>4. QED
  BY <1>3, HeldLoad DEF IInv, RequestsMatchLoads, FetchedLoadsAreClear

(* The youngest write to an address in the store port is what memory will   *)
(* hold there; without one, what it holds.                                  *)
LEMMA YoungestIssued ==
  ASSUME IInv, NEW a, Issued(a) # {}
  PROVE  Committed(a) \in Issued(a) /\ \A w \in Issued(a) : w <= Committed(a)
<1>1. arrived \in Nat
  BY InvCounters
<1>2. Issued(a) \in SUBSET (0 .. arrived)
  BY <1>1 DEF IInv, StorePortInOrder, IsWrite, Issued
<1>3. \E v \in Issued(a) : \A w \in Issued(a) : w <= v
  BY <1>1, <1>2, HasLargest, Zenon
<1>4. QED
  BY <1>3 DEF Committed

LEMMA SettledMemory ==
  ASSUME IInv, NEW a \in Addr, \A j \in 1 .. Len(stPortPipe) : stPortPipe[j].addr # a
  PROVE  IsLatest(prog, data[a], a, arrived)
<1>1. Issued(a) = {}
  BY DEF Issued
<1>2. Committed(a) = data[a]
  BY <1>1 DEF Committed
<1>3. QED
  BY <1>2 DEF IInv, MemoryIsProgramPrefix

(* What a clear load finds settled in memory is its program-order value. *)
LEMMA ClearValue ==
  ASSUME IInv, NEW l \in Len(got) + 1 .. Len(prog.loads), Clear(l),
         NEW v, IsLatest(prog, v, prog.loads[l].addr, arrived)
  PROVE  IsSequentialValue(prog, v, l)
<1>1. arrived \in Nat /\ prog.loads[l].tag \in Nat /\ arrived <= prog.loads[l].tag
  BY UnreadLoad, InvCounters
<1>2. \A s \in arrived + 1 .. prog.loads[l].tag : ~Writes(prog, s, prog.loads[l].addr)
  BY DEF Clear, Writes
<1>3. QED
  BY <1>1, <1>2, LatestExtends DEF IsSequentialValue
==============================================================================
