---------------------------- MODULE LSQBramSafety ----------------------------
(***************************************************************************)
(* The on-chip load-store queue keeps program order: IInv is inductive.    *)
(* One lemma per action; an iteration of the queue has one per group of    *)
(* registers.                                                              *)
(***************************************************************************)
EXTENDS LSQBramProofs

USE DEF LdPorts, StPorts, Addr, QAddr, Tags, InvalidAddr

------------------------------------------------------------------------------
(* The initial states. *)

LEMMA InitInv == Init => IInv
<1>. SUFFICES ASSUME Init PROVE IInv
  OBVIOUS
<1>1. TypeOK
  BY InitTypeOK
<1>2. /\ Len(prog.stores) \in Nat /\ Len(prog.loads) \in Nat
      /\ aguSt = 0 /\ aguLd = 0 /\ cuSt = 0 /\ arrived = 0 /\ returned = 0 /\ lastStReqTag = 0
      /\ Len(got) = 0 /\ Len(stReqPipe) = 0 /\ Len(ldReqPipe) = 0
      /\ Accepted = 0 /\ AcceptedLds = 0
  <2>1. Len(prog.stores) \in Nat /\ Len(prog.loads) \in Nat
    BY ProgramType DEF Init
  <2>2. aguSt = 0 /\ aguLd = 0 /\ cuSt = 0 /\ arrived = 0 /\ returned = 0 /\ lastStReqTag = 0
    BY DEF Init
  <2>3. Len(got) = 0 /\ Len(stReqPipe) = 0 /\ Len(ldReqPipe) = 0
    BY DEF Init
  <2>4. Accepted = 0 /\ AcceptedLds = 0
    BY <2>2, <2>3 DEF Accepted, AcceptedLds
  <2>5. QED
    BY <2>1, <2>2, <2>3, <2>4
<1>3. CuInOrder
  <2>1. Len(prog.loads) > 0 => prog.loads[1].tag >= 0
    <3>1. Len(prog.loads) > 0 => prog.loads[1].tag \in 0 .. Len(prog.stores)
      BY <1>1, <1>2, ProgOps
    <3>2. QED
      BY <1>2, <3>1
  <2>2. QED
    BY <1>2, <2>1 DEF CuInOrder
<1>4. RequestsInOrder
  BY <1>2 DEF RequestsInOrder
<1>5. StoreQueueHoldsPending
  <2>1. \A i \in 1 .. StQSize : ~stQ[i].valid /\ stQ[i].addr = InvalidAddr
    BY DEF Init, EmptySt
  <2>2. QED
    BY <1>2, <2>1 DEF StoreQueueHoldsPending, HoldsStores
<1>6. StoreValuesPaired
  <2>1. \A k \in StPorts : stValPipe[k] = <<>> /\ ~stValReadSucc[k]
    BY DEF Init
  <2>2. ~InlinedMux => 0 \in StPorts
    BY SizesAssumption
  <2>3. nextStValTag = Tag(arrived + 1)
    BY <1>2 DEF Init
  <2>4. QED
    BY <1>2, <2>1, <2>2, <2>3 DEF StoreValuesPaired
<1>7. MemoryIsProgramPrefix
  <2>1. \A a \in Addr : Committed(a) = 0
    BY DEF Init, Committed, NoWrite
  <2>2. QED
    BY <1>2, <2>1 DEF MemoryIsProgramPrefix, IsLatest
<1>8. \A i \in 1 .. LdQSize : ~ldQ[i].valid /\ ~ldQ[i].isSafe /\ ~ldQ[i].valValid
  BY DEF Init, EmptyLd
<1>9. LoadQueueInOrder /\ LoadEntriesWellFormed /\ SafeLoadHasNoHazard
  BY <1>2, <1>8 DEF LoadQueueInOrder, HoldsLoads, LoadEntriesWellFormed, IsLoadEntry,
     SafeLoadHasNoHazard
<1>10. LoadValuesInOrder /\ ReturnedValuesCorrect
  <2>1. \A k \in LdPorts : ldValPipe[k] = <<>>
    BY DEF Init
  <2>2. ~ldQ[1].valValid
    BY <1>8, QueueAssumption
  <2>3. QED
    BY <1>2, <2>1, <2>2 DEF LoadValuesInOrder, ReturnedValuesCorrect
<1>11. LoadsReturnProgramOrder
  BY <1>2 DEF LoadsReturnProgramOrder
<1>12. QED
  BY <1>1, <1>3, <1>4, <1>5, <1>6, <1>7, <1>9, <1>10, <1>11 DEF IInv

------------------------------------------------------------------------------
(* The kernels around the queue leave its registers alone. *)

LEMMA QueueUntouched ==
  ASSUME IInv, UNCHANGED <<prog, lsqVars>>, Accepted' = Accepted, AcceptedLds' = AcceptedLds
  PROVE  /\ StoreQueueHoldsPending' /\ MemoryIsProgramPrefix' /\ LoadQueueInOrder'
         /\ LoadEntriesWellFormed' /\ SafeLoadHasNoHazard'
<1>1. /\ prog' = prog /\ data' = data /\ inFlight' = inFlight /\ stQ' = stQ /\ ldQ' = ldQ
      /\ arrived' = arrived /\ returned' = returned
  BY DEF lsqVars
<1>2. StoreQueueHoldsPending'
  BY <1>1 DEF IInv, StoreQueueHoldsPending, HoldsStores
<1>3. MemoryIsProgramPrefix'
  BY <1>1 DEF IInv, MemoryIsProgramPrefix, Committed, IsLatest, Writes
<1>4. LoadQueueInOrder'
  BY <1>1 DEF IInv, LoadQueueInOrder, HoldsLoads
<1>5. LoadEntriesWellFormed'
  BY <1>1 DEF IInv, LoadEntriesWellFormed, IsLoadEntry
<1>6. SafeLoadHasNoHazard'
  BY <1>1 DEF IInv, SafeLoadHasNoHazard, HazardFree
<1>7. QED
  BY <1>2, <1>3, <1>4, <1>5, <1>6

LEMMA LoadsUntouched ==
  ASSUME IInv, UNCHANGED <<prog, got, ldValPipe, lsqVars>>
  PROVE  LoadValuesInOrder' /\ ReturnedValuesCorrect' /\ LoadsReturnProgramOrder'
<1>1. /\ prog' = prog /\ got' = got /\ ldValPipe' = ldValPipe /\ ldQ' = ldQ /\ ldVal' = ldVal
      /\ returned' = returned
  BY DEF lsqVars
<1>2. LoadValuesInOrder'
  BY <1>1 DEF IInv, LoadValuesInOrder
<1>3. ReturnedValuesCorrect'
  <2>1. ReturnedValuesCorrect
    BY DEF IInv
  <2>2. QED
    BY <1>1, <2>1 DEF ReturnedValuesCorrect, IsSequentialValue, IsLatest, Writes
<1>4. LoadsReturnProgramOrder'
  <2>1. LoadsReturnProgramOrder
    BY DEF IInv
  <2>2. QED
    BY <1>1, <2>1 DEF LoadsReturnProgramOrder, IsSequentialValue, IsLatest, Writes
<1>5. QED
  BY <1>2, <1>3, <1>4

LEMMA ComputeUntouched ==
  ASSUME IInv, UNCHANGED <<prog, cuSt, got, stValPipe, ldValPipe, lsqVars>>
  PROVE  /\ CuInOrder' /\ StoreValuesPaired' /\ LoadValuesInOrder' /\ ReturnedValuesCorrect'
         /\ LoadsReturnProgramOrder'
<1>1. /\ prog' = prog /\ cuSt' = cuSt /\ got' = got /\ stValPipe' = stValPipe
      /\ arrived' = arrived /\ stValRead' = stValRead /\ stValReadSucc' = stValReadSucc
      /\ nextStValTag' = nextStValTag
  BY DEF lsqVars
<1>2. CuInOrder'
  BY <1>1 DEF IInv, CuInOrder
<1>3. StoreValuesPaired'
  BY <1>1 DEF IInv, StoreValuesPaired, GoodStVal
<1>4. QED
  BY <1>2, <1>3, LoadsUntouched

------------------------------------------------------------------------------
(* The address generation unit. *)

LEMMA AguSendLoadInv == IInv /\ AguSendLoad => IInv'
<1>. SUFFICES ASSUME IInv, AguSendLoad PROVE IInv'
  OBVIOUS
<1>. DEFINE op == prog.loads[aguLd + 1]
            r == [addr |-> op.addr, tag |-> Tag(op.tag), port |-> op.port, id |-> aguLd + 1]
<1>1. TypeOK'
  BY AguType DEF IInv, Agu
<1>2. /\ UNCHANGED <<prog, aguSt, cuVars, stReqPipe, stValPipe, ldValPipe, endPipe, lsqVars>>
      /\ aguLd < Len(prog.loads) /\ aguLd' = aguLd + 1
      /\ ldReqPipe' = Append(ldReqPipe, r)
  BY DEF AguSendLoad, CanSendLoad, AtLoad
<1>3. /\ aguLd \in Nat /\ Len(ldReqPipe) \in Nat /\ Len(prog.loads) \in Nat
      /\ AcceptedLds \in Nat /\ AcceptedLds + Len(ldReqPipe) = aguLd
  BY InvCounters
<1>4. r = [addr |-> op.addr, tag |-> op.tag, port |-> op.port, id |-> aguLd + 1]
  <2>1. aguLd + 1 \in 1 .. Len(prog.loads)
    BY <1>2, <1>3
  <2>2. op.tag \in 0 .. Len(prog.stores)
    BY <2>1, ProgOps DEF IInv
  <2>3. QED
    BY <2>2, SmallTag DEF IInv
<1>5. /\ Len(ldReqPipe') = Len(ldReqPipe) + 1
      /\ \A i \in 1 .. Len(ldReqPipe) : ldReqPipe'[i] = ldReqPipe[i]
      /\ ldReqPipe'[Len(ldReqPipe) + 1] = r
  <2>1. ldReqPipe \in Seq(LdReq)
    BY DEF IInv, TypeOK
  <2>2. QED
    BY <1>2, <2>1
<1>6. Accepted' = Accepted /\ AcceptedLds' = AcceptedLds
  <2>1. AcceptedLds' = (aguLd + 1) - (Len(ldReqPipe) + 1)
    BY <1>2, <1>5 DEF AcceptedLds
  <2>2. Accepted' = Accepted
    BY <1>2 DEF Accepted
  <2>3. QED
    BY <1>3, <2>1, <2>2
<1>7. RequestsInOrder'
  <2>1. RequestsInOrder
    BY DEF IInv
  <2>2. ASSUME NEW i \in 1 .. Len(ldReqPipe')
        PROVE  LET o == prog.loads[AcceptedLds + i] IN
               ldReqPipe'[i] = [addr |-> o.addr, tag |-> o.tag, port |-> o.port, id |-> AcceptedLds + i]
    <3>1. CASE i \in 1 .. Len(ldReqPipe)
      BY <1>5, <2>1, <3>1 DEF RequestsInOrder
    <3>2. CASE i = Len(ldReqPipe) + 1
      <4>1. AcceptedLds + i = aguLd + 1
        BY <1>3, <3>2
      <4>2. QED
        BY <1>4, <1>5, <3>2, <4>1
    <3>3. QED
      BY <1>3, <1>5, <3>1, <3>2
  <2>3. aguLd' <= Len(prog'.loads) /\ Len(ldReqPipe') <= aguLd'
    <3>1. Len(ldReqPipe) <= aguLd
      BY <2>1 DEF RequestsInOrder
    <3>2. QED
      BY <1>2, <1>3, <1>5, <3>1
  <2>4. lastStReqTag' = lastStReqTag
    BY <1>2 DEF lsqVars
  <2>5. QED
    BY <1>2, <1>6, <2>1, <2>2, <2>3, <2>4 DEF RequestsInOrder
<1>8. QED
  BY <1>1, <1>2, <1>6, <1>7, QueueUntouched, ComputeUntouched DEF IInv, cuVars

LEMMA AguSendStoreInv == IInv /\ AguSendStore => IInv'
<1>. SUFFICES ASSUME IInv, AguSendStore PROVE IInv'
  OBVIOUS
<1>. DEFINE r == [addr |-> prog.stores[aguSt + 1].addr, tag |-> Tag(aguSt + 1)]
<1>1. TypeOK'
  BY AguType DEF IInv, Agu
<1>2. /\ UNCHANGED <<prog, aguLd, cuVars, ldReqPipe, stValPipe, ldValPipe, endPipe, lsqVars>>
      /\ aguSt < Len(prog.stores) /\ aguSt' = aguSt + 1
      /\ stReqPipe' = Append(stReqPipe, r)
  BY DEF AguSendStore, CanSendStore, AtStore
<1>3. /\ aguSt \in Nat /\ Len(stReqPipe) \in Nat /\ Len(prog.stores) \in Nat
      /\ Accepted \in Nat /\ Accepted + Len(stReqPipe) = aguSt
  BY InvCounters
<1>4. Tag(aguSt + 1) = aguSt + 1
  <2>1. aguSt + 1 \in 0 .. Len(prog.stores)
    BY <1>2, <1>3
  <2>2. QED
    BY <2>1, SmallTag DEF IInv
<1>5. /\ Len(stReqPipe') = Len(stReqPipe) + 1
      /\ \A i \in 1 .. Len(stReqPipe) : stReqPipe'[i] = stReqPipe[i]
      /\ stReqPipe'[Len(stReqPipe) + 1] = r
  <2>1. stReqPipe \in Seq(StReq)
    BY DEF IInv, TypeOK
  <2>2. QED
    BY <1>2, <2>1
<1>6. Accepted' = Accepted /\ AcceptedLds' = AcceptedLds
  <2>1. Accepted' = (aguSt + 1) - (Len(stReqPipe) + 1)
    BY <1>2, <1>5 DEF Accepted
  <2>2. AcceptedLds' = AcceptedLds
    BY <1>2 DEF AcceptedLds
  <2>3. QED
    BY <1>3, <2>1, <2>2
<1>7. RequestsInOrder'
  <2>1. RequestsInOrder
    BY DEF IInv
  <2>2. ASSUME NEW i \in 1 .. Len(stReqPipe')
        PROVE  stReqPipe'[i].tag = Accepted + i /\ stReqPipe'[i].addr = prog.stores[Accepted + i].addr
    <3>1. CASE i \in 1 .. Len(stReqPipe)
      BY <1>5, <2>1, <3>1 DEF RequestsInOrder
    <3>2. CASE i = Len(stReqPipe) + 1
      <4>1. Accepted + i = aguSt + 1
        BY <1>3, <3>2
      <4>2. QED
        BY <1>4, <1>5, <3>2, <4>1
    <3>3. QED
      BY <1>3, <1>5, <3>1, <3>2
  <2>3. aguSt' <= Len(prog'.stores) /\ Len(stReqPipe') <= aguSt'
    <3>1. Len(stReqPipe) <= aguSt
      BY <2>1 DEF RequestsInOrder
    <3>2. QED
      BY <1>2, <1>3, <1>5, <3>1
  <2>4. lastStReqTag' = lastStReqTag
    BY <1>2 DEF lsqVars
  <2>5. QED
    BY <1>2, <1>6, <2>1, <2>2, <2>3, <2>4 DEF RequestsInOrder
<1>8. QED
  BY <1>1, <1>2, <1>6, <1>7, QueueUntouched, ComputeUntouched DEF IInv, cuVars

LEMMA AguInv == IInv /\ Agu => IInv'
BY AguSendLoadInv, AguSendStoreInv DEF Agu

------------------------------------------------------------------------------
(* The compute unit. *)

LEMMA RequestsUntouched ==
  ASSUME IInv, UNCHANGED <<prog, aguVars, stReqPipe, ldReqPipe, lsqVars>>
  PROVE  RequestsInOrder' /\ Accepted' = Accepted /\ AcceptedLds' = AcceptedLds
<1>1. /\ prog' = prog /\ aguSt' = aguSt /\ aguLd' = aguLd /\ stReqPipe' = stReqPipe
      /\ ldReqPipe' = ldReqPipe /\ lastStReqTag' = lastStReqTag
  BY DEF aguVars, lsqVars
<1>2. QED
  BY <1>1 DEF IInv, RequestsInOrder, Accepted, AcceptedLds

LEMMA TailElements ==
  ASSUME NEW S, NEW s \in Seq(S), s # <<>>
  PROVE  /\ Len(s) \in Nat \ {0} /\ Head(s) = s[1] /\ Head(s) \in S
         /\ Tail(s) \in Seq(S) /\ Len(Tail(s)) = Len(s) - 1
         /\ \A i \in 1 .. Len(Tail(s)) : Tail(s)[i] = s[i + 1] /\ i + 1 \in 1 .. Len(s) /\ 1 < i + 1
OBVIOUS

LEMMA AppendElements ==
  ASSUME NEW S, NEW s \in Seq(S), NEW e \in S
  PROVE  /\ Len(Append(s, e)) = Len(s) + 1 /\ Len(s) \in Nat
         /\ \A i \in 1 .. Len(s) : Append(s, e)[i] = s[i]
         /\ Append(s, e)[Len(s) + 1] = e
OBVIOUS

(* The value at the head of the pipe the CU reads is that of the load it    *)
(* runs.                                                                    *)
LEMMA HeadLoadValue ==
  ASSUME IInv, Len(got) < Len(prog.loads), ldValPipe[prog.loads[Len(got) + 1].port] # <<>>
  PROVE  /\ Head(ldValPipe[prog.loads[Len(got) + 1].port]).id = Len(got) + 1
         /\ Len(got) + 1 <= returned
<1>. DEFINE l == Len(got) + 1
            p == ldValPipe[prog.loads[l].port]
<1>1. Len(got) \in Nat /\ Len(prog.loads) \in Nat /\ returned \in Nat
  BY InvCounters
<1>2. prog.loads[l].port \in LdPorts
  <2>1. l \in 1 .. Len(prog.loads)
    BY <1>1
  <2>2. QED
    BY <2>1, ProgOps DEF IInv
<1>3. p \in Seq(LdValTok) /\ Len(p) \in Nat /\ 1 \in 1 .. Len(p) /\ Head(p) = p[1]
  <2>1. p \in Seq(LdValTok)
    BY <1>2 DEF IInv, TypeOK
  <2>2. QED
    BY <2>1
<1>4. LoadValuesInOrder
  BY DEF IInv
<1>5. p[1].id \in l .. returned
  BY <1>2, <1>3, <1>4 DEF LoadValuesInOrder
<1>6. l \in l .. returned
  BY <1>1, <1>5
<1>7. PICK i \in 1 .. Len(p) : p[i].id = l
  BY <1>4, <1>6 DEF LoadValuesInOrder
<1>8. i = 1 \/ p[1].id < p[i].id
  <2>1. i = 1 \/ 1 < i
    BY <1>3
  <2>2. QED
    BY <1>2, <1>3, <1>4, <2>1 DEF LoadValuesInOrder
<1>9. QED
  BY <1>1, <1>3, <1>5, <1>6, <1>7, <1>8

LEMMA CuReadLoadInv == IInv /\ CuReadLoad => IInv'
<1>. SUFFICES ASSUME IInv, CuReadLoad PROVE IInv'
  OBVIOUS
<1>. DEFINE l == Len(got) + 1
            k == prog.loads[l].port
            p == ldValPipe[k]
<1>1. TypeOK'
  BY CuType DEF IInv, Cu
<1>2. /\ UNCHANGED <<prog, aguVars, cuSt, cuEnded, stReqPipe, ldReqPipe, stValPipe, endPipe, lsqVars>>
      /\ Len(got) < Len(prog.loads) /\ prog.loads[l].tag = cuSt
      /\ p # <<>>
      /\ got' = Append(got, Head(p).value)
      /\ ldValPipe' = [ldValPipe EXCEPT ![k] = Tail(p)]
  BY DEF CuReadLoad, CanReadLoad, AtLoad
<1>3. /\ prog' = prog /\ cuSt' = cuSt /\ ldQ' = ldQ /\ ldVal' = ldVal /\ arrived' = arrived
      /\ returned' = returned /\ stValPipe' = stValPipe /\ stValRead' = stValRead
      /\ stValReadSucc' = stValReadSucc /\ nextStValTag' = nextStValTag
  BY <1>2 DEF lsqVars
<1>4. /\ Len(got) \in Nat /\ Len(prog.loads) \in Nat /\ Len(prog.stores) \in Nat
      /\ returned \in Nat /\ cuSt \in Nat /\ l \in 1 .. Len(prog.loads)
  <2>1. /\ Len(got) \in Nat /\ Len(prog.loads) \in Nat /\ Len(prog.stores) \in Nat
        /\ returned \in Nat /\ cuSt \in Nat
    BY InvCounters
  <2>2. QED
    BY <1>2, <2>1
<1>5. k \in LdPorts /\ p \in Seq(LdValTok) /\ Head(p).id = l /\ l <= returned
  <2>1. k \in LdPorts
    BY <1>4, ProgOps DEF IInv
  <2>2. p \in Seq(LdValTok)
    BY <2>1 DEF IInv, TypeOK
  <2>3. QED
    BY <1>2, <2>1, <2>2, HeadLoadValue
<1>6. /\ Len(p) \in Nat \ {0} /\ Head(p) = p[1] /\ Len(Tail(p)) = Len(p) - 1
      /\ \A i \in 1 .. Len(Tail(p)) : Tail(p)[i] = p[i + 1] /\ i + 1 \in 1 .. Len(p) /\ 1 < i + 1
  BY <1>2, <1>5, TailElements
<1>7. \A j \in LdPorts : ldValPipe'[j] = IF j = k THEN Tail(p) ELSE ldValPipe[j]
  BY <1>2, <1>5 DEF IInv, TypeOK
<1>8. /\ Len(got') = l
      /\ \A i \in 1 .. Len(got) : got'[i] = got[i]
      /\ got'[l] = Head(p).value
  <2>1. got \in Seq(Nat)
    BY DEF IInv, TypeOK
  <2>2. QED
    BY <1>2, <2>1
<1>9. LoadValuesInOrder
  BY DEF IInv
<1>10. l = Len(got) + 1 /\ k = prog.loads[l].port /\ p = ldValPipe[k]
  OBVIOUS
<1>11. \A i \in 2 .. Len(p) : p[i].id \in l + 1 .. returned /\ prog.loads[p[i].id].port = k
  <2>1. SUFFICES ASSUME NEW i \in 2 .. Len(p)
                 PROVE  p[i].id \in l + 1 .. returned /\ prog.loads[p[i].id].port = k
    OBVIOUS
  <2>2. i \in 1 .. Len(p) /\ 1 \in 1 .. Len(p) /\ 1 < i
    BY <1>6
  <2>3. p[i].id \in l .. returned /\ prog.loads[p[i].id].port = k /\ p[1].id < p[i].id
    BY <1>5, <1>9, <2>2 DEF LoadValuesInOrder
  <2>4. p[1].id = l /\ l \in Nat /\ returned \in Nat
    BY <1>4, <1>5, <1>6
  <2>. HIDE DEF l, k, p
  <2>5. QED
    BY <2>3, <2>4
<1>. HIDE DEF l, k, p
<1>12. CuInOrder'
  <2>1. l < Len(prog.loads) => cuSt <= prog.loads[l + 1].tag
    <3>1. l < Len(prog.loads) => l + 1 \in 1 .. Len(prog.loads) /\ l <= l + 1
      BY <1>4
    <3>2. QED
      BY <1>2, <1>4, <3>1, ProgOps DEF IInv
  <2>2. CuInOrder
    BY DEF IInv
  <2>3. QED
    BY <1>3, <1>4, <1>8, <2>1, <2>2 DEF CuInOrder
<1>13. LoadValuesInOrder'
  <2>1. ASSUME NEW j \in LdPorts, NEW i \in 1 .. Len(ldValPipe'[j])
        PROVE  ldValPipe'[j][i].id \in l + 1 .. returned /\ prog.loads[ldValPipe'[j][i].id].port = j
    <3>1. CASE j = k
      <4>1. ldValPipe'[j] = Tail(p)
        BY <1>7, <3>1
      <4>2. ldValPipe'[j][i] = p[i + 1] /\ i + 1 \in 2 .. Len(p)
        BY <1>6, <4>1
      <4>3. QED
        BY <1>11, <3>1, <4>2
    <3>2. CASE j # k
      <4>1. ldValPipe'[j] = ldValPipe[j]
        BY <1>7, <3>2
      <4>2. ldValPipe[j][i].id \in l .. returned /\ prog.loads[ldValPipe[j][i].id].port = j
        BY <1>9, <1>10, <4>1 DEF LoadValuesInOrder
      <4>3. ldValPipe[j][i].id # l
        BY <1>10, <3>2, <4>2
      <4>4. QED
        BY <1>4, <4>1, <4>2, <4>3
    <3>3. QED
      BY <3>1, <3>2
  <2>2. ASSUME NEW j \in LdPorts, NEW i1 \in 1 .. Len(ldValPipe'[j]), NEW i2 \in 1 .. Len(ldValPipe'[j]),
               i1 < i2
        PROVE  ldValPipe'[j][i1].id < ldValPipe'[j][i2].id
    <3>1. CASE j = k
      <4>1. ldValPipe'[j] = Tail(p)
        BY <1>7, <3>1
      <4>2. /\ ldValPipe'[j][i1] = p[i1 + 1] /\ i1 + 1 \in 1 .. Len(p)
            /\ ldValPipe'[j][i2] = p[i2 + 1] /\ i2 + 1 \in 1 .. Len(p)
            /\ i1 + 1 < i2 + 1
        BY <1>6, <2>2, <4>1
      <4>3. QED
        BY <1>5, <1>9, <1>10, <4>2 DEF LoadValuesInOrder
    <3>2. CASE j # k
      BY <1>7, <1>9, <2>2, <3>2 DEF LoadValuesInOrder
    <3>3. QED
      BY <3>1, <3>2
  <2>3. ASSUME NEW m \in l + 1 .. returned
        PROVE  \E i \in 1 .. Len(ldValPipe'[prog.loads[m].port]) : ldValPipe'[prog.loads[m].port][i].id = m
    <3>. DEFINE j == prog.loads[m].port
    <3>1. m \in l .. returned /\ m # l
      BY <1>4
    <3>2. PICK i \in 1 .. Len(ldValPipe[j]) : ldValPipe[j][i].id = m
      BY <1>9, <1>10, <3>1 DEF LoadValuesInOrder
    <3>3. CASE j = k
      <4>1. i \in 1 .. Len(p) /\ p[i].id = m
        BY <1>10, <3>2, <3>3
      <4>2. i # 1
        BY <1>5, <1>6, <3>1, <4>1
      <4>3. i - 1 \in 1 .. Len(Tail(p)) /\ (i - 1) + 1 = i
        BY <1>6, <4>1, <4>2
      <4>4. Tail(p)[i - 1] = p[i]
        BY <1>6, <4>3
      <4>5. QED
        BY <1>5, <1>7, <3>3, <4>1, <4>3, <4>4
    <3>4. CASE j # k
      <4>1. j \in LdPorts
        <5>1. m \in 1 .. Len(prog.loads)
          <6>1. returned <= Len(prog.loads)
            BY InvCounters
          <6>2. QED
            BY <1>4, <6>1
        <5>2. QED
          BY <5>1, ProgOps DEF IInv
      <4>2. QED
        BY <1>7, <3>2, <3>4, <4>1
    <3>5. QED
      BY <3>3, <3>4
  <2>4. QED
    BY <1>3, <1>5, <1>8, <2>1, <2>2, <2>3 DEF LoadValuesInOrder
<1>14. ReturnedValuesCorrect
  BY DEF IInv
<1>15. ReturnedValuesCorrect'
  <2>1. ASSUME NEW j \in LdPorts, NEW i \in 1 .. Len(ldValPipe'[j])
        PROVE  IsSequentialValue(prog, ldValPipe'[j][i].value, ldValPipe'[j][i].id)
    <3>1. CASE j = k
      <4>1. ldValPipe'[j] = Tail(p)
        BY <1>7, <3>1
      <4>2. ldValPipe'[j][i] = p[i + 1] /\ i + 1 \in 1 .. Len(p)
        BY <1>6, <4>1
      <4>3. QED
        BY <1>5, <1>14, <1>10, <4>2 DEF ReturnedValuesCorrect
    <3>2. CASE j # k
      BY <1>7, <1>14, <3>2 DEF ReturnedValuesCorrect
    <3>3. QED
      BY <3>1, <3>2
  <2>2. ldQ'[1].valValid => IsSequentialValue(prog, ldVal', ldQ'[1].id)
    BY <1>3, <1>14 DEF ReturnedValuesCorrect
  <2>3. QED
    BY <1>3, <2>1, <2>2 DEF ReturnedValuesCorrect, IsSequentialValue, IsLatest, Writes
<1>16. LoadsReturnProgramOrder'
  <2>1. IsSequentialValue(prog, got'[l], l)
    <3>1. 1 \in 1 .. Len(p) /\ p[1].id = l /\ got'[l] = p[1].value
      BY <1>5, <1>6, <1>8
    <3>2. QED
      BY <1>5, <1>14, <1>10, <3>1 DEF ReturnedValuesCorrect
  <2>2. \A i \in 1 .. Len(got) : IsSequentialValue(prog, got'[i], i)
    BY <1>8 DEF IInv, LoadsReturnProgramOrder
  <2>3. \A i \in 1 .. Len(got') : IsSequentialValue(prog, got'[i], i)
    <3>1. \A i \in 1 .. Len(got') : i \in 1 .. Len(got) \/ i = l
      BY <1>4, <1>8, <1>10
    <3>2. QED
      BY <2>1, <2>2, <3>1
  <2>4. QED
    BY <1>3, <2>3 DEF LoadsReturnProgramOrder, IsSequentialValue, IsLatest, Writes
<1>17. StoreValuesPaired'
  BY <1>3 DEF IInv, StoreValuesPaired, GoodStVal
<1>18. RequestsInOrder' /\ Accepted' = Accepted /\ AcceptedLds' = AcceptedLds
  BY <1>2, RequestsUntouched
<1>19. QED
  BY <1>1, <1>2, <1>12, <1>13, <1>15, <1>16, <1>17, <1>18, QueueUntouched DEF IInv

LEMMA CuWriteStoreInv == IInv /\ CuWriteStore => IInv'
<1>. SUFFICES ASSUME IInv, CuWriteStore PROVE IInv'
  OBVIOUS
<1>. DEFINE s == cuSt + 1
            k == prog.stores[s].port
            v == [value |-> s, tag |-> Tag(s), valid |-> prog.stores[s].ok]
<1>1. TypeOK'
  BY CuType DEF IInv, Cu
<1>2. /\ UNCHANGED <<prog, aguVars, got, cuEnded, stReqPipe, ldReqPipe, ldValPipe, endPipe, lsqVars>>
      /\ cuSt < Len(prog.stores) /\ ~AtLoad(prog, cuSt, Len(got))
      /\ cuSt' = s
      /\ stValPipe' = [stValPipe EXCEPT ![k] = Append(@, v)]
  BY DEF CuWriteStore, CanWriteStore, AtStore
<1>3. /\ prog' = prog /\ got' = got /\ ldQ' = ldQ /\ ldVal' = ldVal /\ arrived' = arrived
      /\ returned' = returned /\ ldValPipe' = ldValPipe /\ stValRead' = stValRead
      /\ stValReadSucc' = stValReadSucc /\ nextStValTag' = nextStValTag
  BY <1>2 DEF lsqVars
<1>4. /\ Len(got) \in Nat /\ Len(prog.loads) \in Nat /\ Len(prog.stores) \in Nat
      /\ cuSt \in Nat /\ arrived \in Nat
  BY InvCounters
<1>5. s \in 1 .. Len(prog.stores) /\ s \in 0 .. Len(prog.stores) /\ s \in 1 .. s
  BY <1>2, <1>4
<1>6. k \in StPorts /\ v.tag = s
  <2>1. k \in StPorts
    BY <1>5, ProgOps DEF IInv
  <2>2. Tag(s) = s
    BY <1>5, SmallTag DEF IInv
  <2>3. QED
    BY <2>1, <2>2
<1>7. v \in StValTok
  <2>1. s \in Nat
    BY <1>5
  <2>2. Tag(s) \in Tags
    BY <2>1, ModType
  <2>3. prog.stores[s].ok \in BOOLEAN
    BY <1>5, ProgOps DEF IInv
  <2>4. QED
    BY <2>1, <2>2, <2>3 DEF StValTok
<1>8. stValPipe \in [StPorts -> Seq(StValTok)] /\ stValPipe[k] \in Seq(StValTok)
  BY <1>6 DEF IInv, TypeOK
<1>9. /\ \A j \in StPorts : stValPipe'[j] = IF j = k THEN Append(stValPipe[k], v) ELSE stValPipe[j]
      /\ Len(Append(stValPipe[k], v)) = Len(stValPipe[k]) + 1 /\ Len(stValPipe[k]) \in Nat
      /\ \A i \in 1 .. Len(stValPipe[k]) : Append(stValPipe[k], v)[i] = stValPipe[k][i]
      /\ Append(stValPipe[k], v)[Len(stValPipe[k]) + 1] = v
  <2>1. \A j \in StPorts : stValPipe'[j] = IF j = k THEN Append(stValPipe[k], v) ELSE stValPipe[j]
    BY <1>2, <1>8
  <2>. HIDE DEF v, k
  <2>2. QED
    BY <1>8, <1>7, <2>1, AppendElements
<1>. DEFINE Good(w) == w.value \in 1 .. s /\ w.tag = w.value /\ w.valid = prog.stores[w.value].ok
<1>10. CuInOrder /\ StoreValuesPaired
  BY DEF IInv
<1>11. CuInOrder'
  <2>1. Len(got) < Len(prog.loads) => s <= prog.loads[Len(got) + 1].tag
    <3>1. SUFFICES ASSUME Len(got) < Len(prog.loads)
                   PROVE  s <= prog.loads[Len(got) + 1].tag
      OBVIOUS
    <3>2. cuSt <= prog.loads[Len(got) + 1].tag /\ prog.loads[Len(got) + 1].tag # cuSt
      BY <1>2, <1>10, <3>1 DEF CuInOrder, AtLoad
    <3>3. prog.loads[Len(got) + 1].tag \in 0 .. Len(prog.stores)
      <4>1. Len(got) + 1 \in 1 .. Len(prog.loads)
        BY <1>4, <3>1
      <4>2. QED
        BY <4>1, ProgOps DEF IInv
    <3>4. QED
      BY <1>4, <3>2, <3>3
  <2>2. s <= Len(prog.stores) /\ arrived <= s
    BY <1>4, <1>5, <1>10 DEF CuInOrder
  <2>3. QED
    BY <1>2, <1>3, <1>10, <2>1, <2>2 DEF CuInOrder
<1>12. \A w : GoodStVal(w) => Good(w)
  <2>1. \A n \in 1 .. cuSt : n \in 1 .. s
    BY <1>4
  <2>2. QED
    BY <2>1 DEF GoodStVal
<1>13. Good(v)
  BY <1>5, <1>6
<1>14. k = prog.stores[s].port /\ s = cuSt + 1
  OBVIOUS
<1>15. v.value = s
  OBVIOUS
<1>. HIDE DEF Good, v, k, s
<1>16. StoreValuesPaired'
  <2>1. ASSUME NEW j \in StPorts, NEW i \in 1 .. Len(stValPipe'[j])
        PROVE  Good(stValPipe'[j][i])
    <3>1. CASE j = k /\ i = Len(stValPipe[k]) + 1
      <4>1. stValPipe'[j][i] = v
        BY <1>9, <3>1
      <4>2. QED
        BY <1>13, <4>1
    <3>2. CASE j = k /\ i # Len(stValPipe[k]) + 1
      <4>1. i \in 1 .. Len(stValPipe[j]) /\ stValPipe'[j][i] = stValPipe[j][i]
        <5>1. stValPipe'[j] = Append(stValPipe[k], v)
          BY <1>9, <3>2
        <5>2. i \in 1 .. Len(stValPipe[k])
          BY <1>9, <3>2, <5>1
        <5>3. QED
          BY <1>9, <3>2, <5>1, <5>2
      <4>2. GoodStVal(stValPipe[j][i])
        BY <1>10, <4>1 DEF StoreValuesPaired
      <4>3. QED
        BY <1>12, <4>1, <4>2
    <3>3. CASE j # k
      <4>1. stValPipe'[j] = stValPipe[j]
        BY <1>9, <3>3
      <4>2. GoodStVal(stValPipe[j][i])
        BY <1>10, <4>1 DEF StoreValuesPaired
      <4>3. QED
        BY <1>12, <4>1, <4>2
    <3>4. QED
      BY <3>1, <3>2, <3>3
  <2>2. ASSUME NEW j \in StPorts, stValReadSucc'[j]
        PROVE  Good(stValRead'[j])
    BY <1>3, <1>10, <1>12, <2>2 DEF StoreValuesPaired
  <2>3. ASSUME ~InlinedMux
        PROVE  /\ s = arrived + Len(stValPipe'[0])
               /\ \A i \in 1 .. Len(stValPipe'[0]) : stValPipe'[0][i].value = arrived + i
    <3>1. k = 0 /\ 0 \in StPorts
      BY <1>6, <2>3, SizesAssumption DEF InlinedMux
    <3>2. /\ cuSt = arrived + Len(stValPipe[0])
          /\ \A i \in 1 .. Len(stValPipe[0]) : stValPipe[0][i].value = arrived + i
      BY <1>10, <2>3 DEF StoreValuesPaired
    <3>3. Len(stValPipe'[0]) = Len(stValPipe[0]) + 1 /\ Len(stValPipe[0]) \in Nat
      BY <1>9, <3>1
    <3>4. s = arrived + Len(stValPipe'[0])
      BY <1>4, <1>14, <3>2, <3>3
    <3>5. ASSUME NEW i \in 1 .. Len(stValPipe'[0])
          PROVE  stValPipe'[0][i].value = arrived + i
      <4>1. CASE i = Len(stValPipe[0]) + 1
        <5>1. stValPipe'[0][i] = v
          BY <1>9, <3>1, <4>1
        <5>2. arrived + i = s
          BY <3>3, <3>4, <4>1
        <5>3. QED
          BY <1>15, <5>1, <5>2
      <4>2. CASE i # Len(stValPipe[0]) + 1
        <5>1. i \in 1 .. Len(stValPipe[0])
          BY <3>3, <4>2
        <5>2. stValPipe'[0][i] = stValPipe[0][i]
          BY <1>9, <3>1, <5>1
        <5>3. QED
          BY <3>2, <5>1, <5>2
      <4>3. QED
        BY <4>1, <4>2
    <3>6. QED
      BY <3>4, <3>5
  <2>4. InlinedMux => nextStValTag' = Tag(arrived' + 1)
    BY <1>3, <1>10 DEF StoreValuesPaired
  <2>5. QED
    <3>1. \A w : Good(w) => (/\ w.value \in 1 .. cuSt' /\ w.tag = w.value
                               /\ w.valid = prog'.stores[w.value].ok)
      BY <1>2, <1>3 DEF Good
    <3>2. \A j \in StPorts : \A i \in 1 .. Len(stValPipe'[j]) : GoodStVal(stValPipe[j][i])'
      BY <2>1, <3>1 DEF GoodStVal
    <3>3. \A j \in StPorts : stValReadSucc'[j] => GoodStVal(stValRead[j])'
      BY <2>2, <3>1 DEF GoodStVal
    <3>4. ~InlinedMux => /\ cuSt' = arrived' + Len(stValPipe'[0])
                         /\ \A i \in 1 .. Len(stValPipe'[0]) : stValPipe'[0][i].value = arrived' + i
      BY <1>2, <1>3, <2>3
    <3>5. QED
      BY <2>4, <3>2, <3>3, <3>4 DEF StoreValuesPaired, InlinedMux
<1>17. LoadValuesInOrder' /\ ReturnedValuesCorrect' /\ LoadsReturnProgramOrder'
  BY <1>2, LoadsUntouched
<1>18. RequestsInOrder' /\ Accepted' = Accepted /\ AcceptedLds' = AcceptedLds
  BY <1>2, RequestsUntouched
<1>19. QED
  BY <1>1, <1>2, <1>11, <1>16, <1>17, <1>18, QueueUntouched DEF IInv

LEMMA CuInv == IInv /\ Cu => IInv'
<1>1. ASSUME IInv, CuEnd PROVE IInv'
  <2>1. TypeOK'
    BY <1>1, CuType DEF IInv, Cu
  <2>2. UNCHANGED <<prog, aguVars, cuSt, got, stReqPipe, ldReqPipe, stValPipe, ldValPipe, lsqVars>>
    BY <1>1 DEF CuEnd, CanEnd
  <2>3. RequestsInOrder' /\ Accepted' = Accepted /\ AcceptedLds' = AcceptedLds
    BY <1>1, <2>2, RequestsUntouched
  <2>4. /\ CuInOrder' /\ StoreValuesPaired' /\ LoadValuesInOrder' /\ ReturnedValuesCorrect'
        /\ LoadsReturnProgramOrder'
    BY <1>1, <2>2, ComputeUntouched
  <2>5. QED
    BY <1>1, <2>1, <2>2, <2>3, <2>4, QueueUntouched DEF IInv
<1>2. QED
  BY <1>1, CuReadLoadInv, CuWriteStoreInv DEF Cu

------------------------------------------------------------------------------
(* An iteration of the queue: counters. *)

LEMMA StepCounters ==
  ASSUME IInv, NEW vals \in SUBSET StPorts,
         NEW ldRdy \in BOOLEAN, NEW stRdy \in BOOLEAN, NEW endRdy \in BOOLEAN,
         NEW junk \in JunkTags, Iterate(vals, ldRdy, stRdy, endRdy, junk)
  PROVE  /\ UNCHANGED <<prog, aguSt, aguLd, cuSt, got>>
         /\ arrived' = IF StValArrived(vals) THEN arrived + 1 ELSE arrived
         /\ arrived' \in Nat /\ arrived <= arrived' /\ arrived' <= cuSt /\ arrived' <= Accepted
         /\ Accepted' = IF StReqTaken(vals, stRdy) THEN Accepted + 1 ELSE Accepted
         /\ Accepted' \in Nat /\ Accepted <= Accepted' /\ Accepted' <= Len(prog.stores)
<1>1. UNCHANGED <<prog, aguSt, aguLd, cuSt, got>>
  BY DEF Iterate, aguVars, cuVars
<1>2. arrived' = IF StValArrived(vals) THEN arrived + 1 ELSE arrived
  BY DEF Iterate, StoreValues
<1>3. /\ arrived \in Nat /\ cuSt \in Nat /\ Accepted \in Nat /\ arrived <= cuSt /\ arrived <= Accepted
      /\ aguSt \in Nat /\ Len(stReqPipe) \in Nat /\ Accepted + Len(stReqPipe) = aguSt
      /\ Len(prog.stores) \in Nat /\ Accepted <= Len(prog.stores)
  BY InvCounters
<1>4. StValArrived(vals) => arrived + 1 <= cuSt /\ arrived + 1 <= Accepted
  BY ArrivingValue, HeadStore
<1>5. /\ arrived' \in Nat /\ arrived <= arrived' /\ arrived' <= cuSt /\ arrived' <= Accepted
  BY <1>2, <1>3, <1>4
<1>6. aguSt <= Len(prog.stores)
  BY DEF IInv, RequestsInOrder
<1>7. CASE StReqTaken(vals, stRdy)
  <2>1. stReqPipe' = Tail(stReqPipe) /\ stReqPipe # <<>> /\ stReqPipe \in Seq(StReq)
    BY <1>7 DEF Iterate, StoreRequests, StReqTaken, IInv, TypeOK
  <2>2. Len(stReqPipe') = Len(stReqPipe) - 1 /\ Len(stReqPipe) \in Nat \ {0}
    BY <2>1, TailElements
  <2>3. Accepted' = Accepted + 1
    BY <1>1, <1>3, <2>2 DEF Accepted
  <2>4. Accepted + 1 <= aguSt
    BY <1>3, <2>2
  <2>5. Accepted + 1 <= Len(prog.stores)
    BY <1>3, <1>6, <2>4
  <2>6. QED
    BY <1>1, <1>2, <1>3, <1>5, <1>7, <2>3, <2>5
<1>8. CASE ~StReqTaken(vals, stRdy)
  <2>1. stReqPipe' = stReqPipe
    BY <1>8 DEF Iterate, StoreRequests
  <2>2. Accepted' = Accepted
    BY <1>1, <2>1 DEF Accepted
  <2>3. QED
    BY <1>1, <1>2, <1>3, <1>5, <1>8, <2>2
<1>9. QED
  BY <1>7, <1>8

LEMMA LoadCounters ==
  ASSUME IInv, NEW vals \in SUBSET StPorts,
         NEW ldRdy \in BOOLEAN, NEW stRdy \in BOOLEAN, NEW endRdy \in BOOLEAN,
         NEW junk \in JunkTags, Iterate(vals, ldRdy, stRdy, endRdy, junk)
  PROVE  /\ returned' = IF PipeSucc(vals) THEN returned + 1 ELSE returned
         /\ returned' \in Nat /\ returned <= returned' /\ returned' <= AcceptedLds
         /\ AcceptedLds' = IF LdReqTaken(LdQAfterReturn(vals), ldRdy) THEN AcceptedLds + 1 ELSE AcceptedLds
         /\ AcceptedLds' \in Nat /\ AcceptedLds <= AcceptedLds' /\ AcceptedLds' <= Len(prog.loads)
<1>1. UNCHANGED <<prog, aguSt, aguLd, cuSt, got>>
  BY StepCounters
<1>2. returned' = IF PipeSucc(vals) THEN returned + 1 ELSE returned
  BY DEF Iterate, Loads
<1>3. /\ returned \in Nat /\ AcceptedLds \in Nat /\ returned <= AcceptedLds
      /\ aguLd \in Nat /\ Len(ldReqPipe) \in Nat /\ AcceptedLds + Len(ldReqPipe) = aguLd
      /\ Len(prog.loads) \in Nat /\ AcceptedLds <= Len(prog.loads)
  BY InvCounters
<1>4. PipeSucc(vals) => returned + 1 <= AcceptedLds
  BY HeadLoad DEF PipeSucc, Returning
<1>5. returned' \in Nat /\ returned <= returned' /\ returned' <= AcceptedLds
  BY <1>2, <1>3, <1>4
<1>6. aguLd <= Len(prog.loads)
  BY DEF IInv, RequestsInOrder
<1>. DEFINE taken == LdReqTaken(LdQAfterReturn(vals), ldRdy)
<1>7. CASE taken
  <2>1. ldReqPipe' = Tail(ldReqPipe) /\ ldReqPipe # <<>> /\ ldReqPipe \in Seq(LdReq)
    BY <1>7 DEF Iterate, Loads, LdReqTaken, IInv, TypeOK
  <2>2. Len(ldReqPipe') = Len(ldReqPipe) - 1 /\ Len(ldReqPipe) \in Nat \ {0}
    BY <2>1, TailElements
  <2>3. AcceptedLds' = AcceptedLds + 1
    BY <1>1, <1>3, <2>2 DEF AcceptedLds
  <2>4. AcceptedLds + 1 <= aguLd
    BY <1>3, <2>2
  <2>5. AcceptedLds + 1 <= Len(prog.loads)
    BY <1>3, <1>6, <2>4
  <2>. HIDE DEF taken
  <2>6. QED
    BY <1>2, <1>3, <1>5, <1>7, <2>3, <2>5 DEF taken
<1>8. CASE ~taken
  <2>1. ldReqPipe' = ldReqPipe
    BY <1>8 DEF Iterate, Loads
  <2>2. AcceptedLds' = AcceptedLds
    BY <1>1, <2>1 DEF AcceptedLds
  <2>. HIDE DEF taken
  <2>3. QED
    BY <1>2, <1>3, <1>5, <1>8, <2>2 DEF taken
<1>9. QED
  BY <1>7, <1>8

LEMMA StepCuInOrder ==
  ASSUME IInv, NEW vals \in SUBSET StPorts,
         NEW ldRdy \in BOOLEAN, NEW stRdy \in BOOLEAN, NEW endRdy \in BOOLEAN,
         NEW junk \in JunkTags, Iterate(vals, ldRdy, stRdy, endRdy, junk)
  PROVE  CuInOrder'
<1>1. UNCHANGED <<prog, cuSt, got>> /\ arrived' <= cuSt
  BY StepCounters
<1>2. CuInOrder
  BY DEF IInv
<1>3. QED
  BY <1>1, <1>2 DEF CuInOrder

(* An iteration: the request pipes. *)
LEMMA StepRequests ==
  ASSUME IInv, NEW vals \in SUBSET StPorts,
         NEW ldRdy \in BOOLEAN, NEW stRdy \in BOOLEAN, NEW endRdy \in BOOLEAN,
         NEW junk \in JunkTags, Iterate(vals, ldRdy, stRdy, endRdy, junk)
  PROVE  RequestsInOrder'
<1>1. UNCHANGED <<prog, aguSt, aguLd>>
  BY StepCounters
<1>2. RequestsInOrder /\ stReqPipe \in Seq(StReq) /\ ldReqPipe \in Seq(LdReq)
  BY DEF IInv, TypeOK
<1>3. /\ aguSt \in Nat /\ aguLd \in Nat /\ Len(stReqPipe) \in Nat /\ Len(ldReqPipe) \in Nat
      /\ Accepted \in Nat /\ AcceptedLds \in Nat
  BY InvCounters
<1>4. /\ Len(stReqPipe') <= aguSt' /\ lastStReqTag' = Accepted'
      /\ \A i \in 1 .. Len(stReqPipe') :
           stReqPipe'[i].tag = Accepted' + i /\ stReqPipe'[i].addr = prog.stores[Accepted' + i].addr
  <2>1. CASE StReqTaken(vals, stRdy)
    <3>1. /\ stReqPipe' = Tail(stReqPipe) /\ stReqPipe # <<>> /\ lastStReqTag' = Head(stReqPipe).tag
      BY <2>1 DEF Iterate, StoreRequests, StReqTaken
    <3>2. /\ Len(stReqPipe) \in Nat \ {0} /\ Head(stReqPipe) = stReqPipe[1]
          /\ Len(stReqPipe') = Len(stReqPipe) - 1
          /\ \A i \in 1 .. Len(stReqPipe') : stReqPipe'[i] = stReqPipe[i + 1] /\ i + 1 \in 1 .. Len(stReqPipe)
      BY <1>2, <3>1, TailElements
    <3>3. Accepted' = Accepted + 1
      BY <2>1, StepCounters
    <3>4. lastStReqTag' = Accepted'
      <4>1. 1 \in 1 .. Len(stReqPipe)
        BY <3>2
      <4>2. QED
        BY <1>2, <3>1, <3>2, <3>3, <4>1 DEF RequestsInOrder
    <3>5. ASSUME NEW i \in 1 .. Len(stReqPipe')
          PROVE  stReqPipe'[i].tag = Accepted' + i /\ stReqPipe'[i].addr = prog.stores[Accepted' + i].addr
      <4>1. Accepted + (i + 1) = Accepted' + i
        BY <1>3, <3>3
      <4>2. /\ stReqPipe[i + 1].tag = Accepted + (i + 1)
            /\ stReqPipe[i + 1].addr = prog.stores[Accepted + (i + 1)].addr
        BY <1>2, <3>2 DEF RequestsInOrder
      <4>3. QED
        BY <3>2, <4>1, <4>2
    <3>6. Len(stReqPipe') <= aguSt'
      <4>1. Len(stReqPipe) <= aguSt
        BY <1>2 DEF RequestsInOrder
      <4>2. QED
        BY <1>1, <1>3, <3>2, <4>1
    <3>7. QED
      BY <3>4, <3>5, <3>6
  <2>2. CASE ~StReqTaken(vals, stRdy)
    <3>1. stReqPipe' = stReqPipe /\ lastStReqTag' = lastStReqTag
      BY <2>2 DEF Iterate, StoreRequests
    <3>2. Accepted' = Accepted
      BY <2>2, StepCounters
    <3>3. QED
      BY <1>1, <1>2, <3>1, <3>2 DEF RequestsInOrder
  <2>3. QED
    BY <2>1, <2>2
<1>. DEFINE Req(i) == [addr |-> prog.loads[i].addr, tag |-> prog.loads[i].tag,
                       port |-> prog.loads[i].port, id |-> i]
            taken == LdReqTaken(LdQAfterReturn(vals), ldRdy)
<1>5. \A i \in 1 .. Len(ldReqPipe) : ldReqPipe[i] = Req(AcceptedLds + i)
  BY <1>2 DEF RequestsInOrder
<1>6. /\ Len(ldReqPipe') <= aguLd'
      /\ \A i \in 1 .. Len(ldReqPipe') : ldReqPipe'[i] = Req(AcceptedLds' + i)
  <2>1. CASE taken
    <3>1. ldReqPipe' = Tail(ldReqPipe) /\ ldReqPipe # <<>>
      BY <2>1 DEF Iterate, Loads, LdReqTaken
    <3>2. /\ Len(ldReqPipe) \in Nat \ {0} /\ Len(ldReqPipe') = Len(ldReqPipe) - 1
          /\ \A i \in 1 .. Len(ldReqPipe') : ldReqPipe'[i] = ldReqPipe[i + 1] /\ i + 1 \in 1 .. Len(ldReqPipe)
      BY <1>2, <3>1, TailElements
    <3>3. AcceptedLds' = AcceptedLds + 1
      BY <2>1, LoadCounters
    <3>4. ASSUME NEW i \in 1 .. Len(ldReqPipe')
          PROVE  ldReqPipe'[i] = Req(AcceptedLds' + i)
      <4>1. AcceptedLds + (i + 1) = AcceptedLds' + i
        BY <1>3, <3>3
      <4>. HIDE DEF Req
      <4>2. ldReqPipe[i + 1] = Req(AcceptedLds + (i + 1))
        BY <1>5, <3>2
      <4>3. QED
        BY <3>2, <4>1, <4>2
    <3>5. Len(ldReqPipe') <= aguLd'
      <4>1. Len(ldReqPipe) <= aguLd
        BY <1>2 DEF RequestsInOrder
      <4>2. QED
        BY <1>1, <1>3, <3>2, <4>1
    <3>6. QED
      BY <3>4, <3>5
  <2>2. CASE ~taken
    <3>1. ldReqPipe' = ldReqPipe
      BY <2>2 DEF Iterate, Loads
    <3>2. AcceptedLds' = AcceptedLds
      BY <2>2, LoadCounters
    <3>3. Len(ldReqPipe) <= aguLd
      BY <1>2 DEF RequestsInOrder
    <3>4. QED
      BY <1>1, <1>5, <3>1, <3>2, <3>3
  <2>3. QED
    BY <2>1, <2>2
<1>7. aguSt' <= Len(prog'.stores) /\ aguLd' <= Len(prog'.loads)
  BY <1>1, <1>2 DEF RequestsInOrder
<1>8. QED
  BY <1>1, <1>4, <1>6, <1>7 DEF RequestsInOrder

(* An iteration: the store values. *)
LEMMA StepStoreValues ==
  ASSUME IInv, NEW vals \in SUBSET StPorts,
         NEW ldRdy \in BOOLEAN, NEW stRdy \in BOOLEAN, NEW endRdy \in BOOLEAN,
         NEW junk \in JunkTags, Iterate(vals, ldRdy, stRdy, endRdy, junk)
  PROVE  StoreValuesPaired'
<1>1. prog' = prog /\ cuSt' = cuSt
  BY StepCounters
<1>2. StoreValuesPaired /\ stValPipe \in [StPorts -> Seq(StValTok)]
  BY DEF IInv, TypeOK
<1>3. StoreValues(vals)
  BY DEF Iterate
<1>4. \A k \in Polled(vals) : k \in StPorts /\ k \in vals /\ stValPipe[k] # <<>>
  BY DEF Polled
<1>5. \A w : GoodStVal(w) => (/\ w.value \in 1 .. cuSt' /\ w.tag = w.value
                              /\ w.valid = prog'.stores[w.value].ok)
  BY <1>1 DEF GoodStVal
<1>6. ASSUME NEW k \in StPorts, NEW i \in 1 .. Len(stValPipe'[k])
      PROVE  GoodStVal(stValPipe'[k][i])
  <2>1. stValPipe'[k] = IF k \in Polled(vals) THEN Tail(stValPipe[k]) ELSE stValPipe[k]
    BY <1>3 DEF StoreValues
  <2>2. CASE k \in Polled(vals)
    <3>1. stValPipe'[k] = Tail(stValPipe[k]) /\ stValPipe[k] \in Seq(StValTok) /\ stValPipe[k] # <<>>
      BY <1>2, <1>4, <2>1, <2>2
    <3>2. stValPipe'[k][i] = stValPipe[k][i + 1] /\ i + 1 \in 1 .. Len(stValPipe[k])
      BY <3>1, TailElements
    <3>3. QED
      BY <1>2, <3>2 DEF StoreValuesPaired
  <2>3. CASE k \notin Polled(vals)
    BY <1>2, <2>1, <2>3 DEF StoreValuesPaired
  <2>4. QED
    BY <2>2, <2>3
<1>7. ASSUME NEW k \in StPorts, stValReadSucc'[k]
      PROVE  GoodStVal(stValRead'[k])
  <2>1. CASE InlinedMux
    <3>1. /\ stValRead'[k] = IF k \in Polled(vals) THEN Head(stValPipe[k]) ELSE stValRead[k]
          /\ k \in Polled(vals) \/ stValReadSucc[k]
      BY <1>3, <1>7, <2>1 DEF StoreValues
    <3>2. CASE k \in Polled(vals)
      <4>1. stValPipe[k] \in Seq(StValTok) /\ stValPipe[k] # <<>>
        BY <1>2, <1>4, <3>2
      <4>2. Head(stValPipe[k]) = stValPipe[k][1] /\ 1 \in 1 .. Len(stValPipe[k])
        BY <4>1
      <4>3. QED
        BY <1>2, <3>1, <3>2, <4>2 DEF StoreValuesPaired
    <3>3. CASE k \notin Polled(vals)
      BY <1>2, <3>1, <3>3 DEF StoreValuesPaired
    <3>4. QED
      BY <3>2, <3>3
  <2>2. CASE ~InlinedMux
    BY <1>2, <1>3, <1>7, <2>2 DEF StoreValues, StoreValuesPaired
  <2>3. QED
    BY <2>1, <2>2
<1>8. ASSUME InlinedMux PROVE nextStValTag' = Tag(arrived' + 1)
  <2>1. nextStValTag = Tag(arrived + 1)
    BY <1>2, <1>8 DEF StoreValuesPaired
  <2>2. CASE StValArrived(vals)
    <3>1. nextStValTag' = Tag(nextStValTag + 1)
      BY <1>3, <1>8, <2>2 DEF StoreValues
    <3>2. arrived' = arrived + 1 /\ arrived + 1 <= Accepted
      BY <2>2, ArrivingValue, HeadStore, StepCounters
    <3>3. arrived + 1 \in 0 .. Len(prog.stores)
      <4>1. /\ arrived \in Nat /\ Accepted \in Nat /\ Accepted <= Len(prog.stores)
            /\ Len(prog.stores) \in Nat
        BY InvCounters
      <4>2. QED
        BY <3>2, <4>1
    <3>4. Tag(arrived + 1) = arrived + 1
      BY <3>3, SmallTag DEF IInv
    <3>5. QED
      BY <2>1, <3>1, <3>2, <3>4
  <2>3. CASE ~StValArrived(vals)
    BY <1>3, <2>1, <2>3 DEF StoreValues
  <2>4. QED
    BY <2>2, <2>3
<1>9. ASSUME ~InlinedMux
      PROVE  /\ cuSt = arrived' + Len(stValPipe'[0])
             /\ \A i \in 1 .. Len(stValPipe'[0]) : stValPipe'[0][i].value = arrived' + i
  <2>1. NumStVals = 1
    BY <1>9, SizesAssumption DEF InlinedMux
  <2>2. StPorts = {0} /\ stValPipe[0] \in Seq(StValTok) /\ Len(stValPipe[0]) \in Nat
    BY <1>2, <2>1
  <2>3. /\ cuSt = arrived + Len(stValPipe[0])
        /\ \A i \in 1 .. Len(stValPipe[0]) : stValPipe[0][i].value = arrived + i
    BY <1>2, <1>9 DEF StoreValuesPaired
  <2>4. stValPipe'[0] = IF 0 \in Polled(vals) THEN Tail(stValPipe[0]) ELSE stValPipe[0]
    BY <1>3, <2>2 DEF StoreValues
  <2>5. arrived \in Nat /\ cuSt \in Nat
    BY InvCounters
  <2>6. StValArrived(vals) <=> 0 \in Polled(vals)
    <3>1. Polled(vals) \subseteq {0}
      BY <1>4, <2>2
    <3>2. QED
      BY <1>9, <3>1 DEF StValArrived
  <2>7. CASE 0 \in Polled(vals)
    <3>1. arrived' = arrived + 1
      BY <2>6, <2>7, StepCounters
    <3>2. stValPipe'[0] = Tail(stValPipe[0]) /\ stValPipe[0] # <<>>
      BY <1>4, <2>4, <2>7
    <3>3. /\ Len(stValPipe'[0]) = Len(stValPipe[0]) - 1 /\ Len(stValPipe[0]) \in Nat \ {0}
          /\ \A i \in 1 .. Len(stValPipe'[0]) :
               stValPipe'[0][i] = stValPipe[0][i + 1] /\ i + 1 \in 1 .. Len(stValPipe[0])
      BY <2>2, <3>2, TailElements
    <3>4. cuSt = arrived' + Len(stValPipe'[0])
      <4>1. PICK n \in Nat : n = Len(stValPipe[0])
        BY <2>2
      <4>2. cuSt = arrived + n /\ Len(stValPipe'[0]) = n - 1
        BY <2>3, <3>3, <4>1
      <4>3. cuSt = (arrived + 1) + (n - 1)
        BY <2>5, <4>2
      <4>4. QED
        BY <3>1, <4>2, <4>3
    <3>5. ASSUME NEW i \in 1 .. Len(stValPipe'[0])
          PROVE  stValPipe'[0][i].value = arrived' + i
      <4>1. arrived + (i + 1) = arrived' + i
        BY <2>5, <3>1
      <4>2. stValPipe[0][i + 1].value = arrived + (i + 1)
        BY <2>3, <3>3
      <4>3. QED
        BY <3>3, <4>1, <4>2
    <3>6. QED
      BY <3>4, <3>5
  <2>8. CASE 0 \notin Polled(vals)
    <3>1. arrived' = arrived /\ stValPipe'[0] = stValPipe[0]
      BY <2>4, <2>6, <2>8, StepCounters
    <3>2. QED
      BY <2>3, <3>1
  <2>9. QED
    BY <2>7, <2>8
<1>10. \A k \in StPorts : \A i \in 1 .. Len(stValPipe'[k]) : GoodStVal(stValPipe[k][i])'
  BY <1>5, <1>6 DEF GoodStVal
<1>11. \A k \in StPorts : stValReadSucc'[k] => GoodStVal(stValRead[k])'
  BY <1>5, <1>7 DEF GoodStVal
<1>12. QED
  BY <1>1, <1>8, <1>9, <1>10, <1>11 DEF StoreValuesPaired, InlinedMux

(* An iteration: memory.  The write in flight lands; the value that arrives *)
(* takes its place, unless its store is poisoned.                           *)
LEMMA StepMemory ==
  ASSUME IInv, NEW vals \in SUBSET StPorts,
         NEW ldRdy \in BOOLEAN, NEW stRdy \in BOOLEAN, NEW endRdy \in BOOLEAN,
         NEW junk \in JunkTags, Iterate(vals, ldRdy, stRdy, endRdy, junk)
  PROVE  MemoryIsProgramPrefix'
<1>1. prog' = prog /\ arrived' = (IF StValArrived(vals) THEN arrived + 1 ELSE arrived)
  BY StepCounters
<1>2. Memory(vals) /\ data \in [Addr -> Nat]
  BY DEF Iterate, IInv, TypeOK
<1>3. arrived \in Nat
  BY InvCounters
<1>4. \A a \in Addr : data'[a] = Committed(a)
  BY <1>2 DEF Memory, Committed
<1>5. \A a \in Addr : IsLatest(prog, Committed(a), a, arrived)
  BY DEF IInv, MemoryIsProgramPrefix
<1>. DEFINE New(a) == IF inFlight'.addr = a THEN inFlight'.value ELSE data'[a]
<1>6. ASSUME NEW a \in Addr PROVE IsLatest(prog, New(a), a, arrived')
  <2>1. CASE StValValid(vals)
    <3>1. /\ StValArrived(vals) /\ prog.stores[arrived + 1].ok
          /\ stQ[1].addr = prog.stores[arrived + 1].addr /\ StVal.value = arrived + 1
      BY <2>1, CommitIffNotPoisoned, ArrivingValue, HeadStore
    <3>2. inFlight' = [addr |-> prog.stores[arrived + 1].addr, value |-> arrived + 1]
      BY <1>2, <2>1, <3>1 DEF Memory
    <3>3. arrived' = arrived + 1
      BY <1>1, <3>1
    <3>4. CASE prog.stores[arrived + 1].addr = a
      <4>1. New(a) = arrived + 1 /\ Writes(prog, arrived + 1, a)
        BY <3>1, <3>2, <3>4 DEF Writes
      <4>2. IsLatest(prog, arrived + 1, a, arrived + 1)
        BY <1>3, <4>1 DEF IsLatest
      <4>3. QED
        BY <3>3, <4>1, <4>2
    <3>5. CASE prog.stores[arrived + 1].addr # a
      <4>1. New(a) = Committed(a)
        BY <1>4, <3>2, <3>5
      <4>2. \A s \in arrived + 1 .. arrived + 1 : ~Writes(prog, s, a)
        BY <1>3, <3>5 DEF Writes
      <4>3. QED
        BY <1>3, <1>5, <3>3, <4>1, <4>2, LatestExtends
    <3>6. QED
      BY <3>4, <3>5
  <2>2. CASE ~StValValid(vals)
    <3>1. inFlight' = NoWrite
      BY <1>2, <2>2 DEF Memory
    <3>2. New(a) = Committed(a)
      <4>1. inFlight'.addr # a
        BY <3>1, SizesAssumption DEF NoWrite
      <4>2. QED
        BY <1>4, <4>1
    <3>3. CASE StValArrived(vals)
      <4>1. arrived' = arrived + 1 /\ ~prog.stores[arrived + 1].ok
        BY <1>1, <2>2, <3>3, CommitIffNotPoisoned
      <4>2. \A s \in arrived + 1 .. arrived + 1 : ~Writes(prog, s, a)
        BY <1>3, <4>1 DEF Writes
      <4>3. QED
        BY <1>3, <1>5, <3>2, <4>1, <4>2, LatestExtends
    <3>4. CASE ~StValArrived(vals)
      BY <1>1, <1>5, <3>2, <3>4
    <3>5. QED
      BY <3>3, <3>4
  <2>3. QED
    BY <2>1, <2>2
<1>7. QED
  BY <1>1, <1>6 DEF MemoryIsProgramPrefix, Committed, IsLatest, Writes

(* An iteration: the store queue. *)
LEMMA StepStoreQueue ==
  ASSUME IInv, NEW vals \in SUBSET StPorts,
         NEW ldRdy \in BOOLEAN, NEW stRdy \in BOOLEAN, NEW endRdy \in BOOLEAN,
         NEW junk \in JunkTags, Iterate(vals, ldRdy, stRdy, endRdy, junk)
  PROVE  StoreQueueHoldsPending'
<1>1. prog' = prog /\ arrived' <= Accepted'
  <2>1. prog' = prog /\ arrived' \in Nat /\ Accepted' \in Nat /\ arrived' <= Accepted /\ Accepted <= Accepted'
    BY StepCounters
  <2>2. Accepted \in Nat
    BY InvCounters
  <2>3. QED
    BY <2>1, <2>2
<1>2. StoreRequests(vals, stRdy, junk)
  BY DEF Iterate
<1>3. HoldsStores(stQ, arrived, Accepted)
  BY DEF IInv, StoreQueueHoldsPending
<1>4. SUFFICES HoldsStores(stQ', arrived', Accepted')
  BY <1>1 DEF StoreQueueHoldsPending, HoldsStores
<1>5. CASE ~StQShifts(vals)
  <2>1. stQ' = stQ /\ ~StValArrived(vals) /\ ~StReqTaken(vals, stRdy)
    BY <1>2, <1>5 DEF StoreRequests, StQAfterShift, StQShifts, StReqTaken
  <2>2. arrived' = arrived /\ Accepted' = Accepted
    BY <2>1, StepCounters
  <2>3. QED
    BY <1>3, <2>1, <2>2
<1>6. CASE StQShifts(vals)
  <2>1. PICK lo \in Nat, hi \in Nat : lo = arrived' /\ hi = Accepted'
    BY StepCounters
  <2>2. /\ StQSize \in Nat /\ StQSize >= 2 /\ 1 \in 1 .. StQSize /\ StQSize \in 1 .. StQSize
        /\ arrived \in Nat /\ Accepted \in Nat /\ arrived <= Accepted
        /\ arrived <= lo /\ lo <= hi /\ lo <= Accepted
    <3>1. StQSize \in Nat /\ StQSize >= 2 /\ 1 \in 1 .. StQSize /\ StQSize \in 1 .. StQSize
      BY QueueAssumption
    <3>2. arrived \in Nat /\ Accepted \in Nat /\ arrived <= Accepted
      BY InvCounters
    <3>3. arrived <= lo /\ lo <= hi /\ lo <= Accepted
      BY <1>1, <2>1, StepCounters
    <3>4. QED
      BY <3>1, <3>2, <3>3
  <2>. DEFINE e == NewStEntry(vals, stRdy, junk)
  <2>3. \A i \in 1 .. StQSize : stQ'[i] = IF i < StQSize THEN stQ[i + 1] ELSE e
    BY <1>2, <1>6 DEF StoreRequests, StQAfterShift
  (* The head leaves with its value, or was a bubble. *)
  <2>4. /\ stQ[1].valid => stQ[1].tag = arrived + 1 /\ lo = arrived + 1
        /\ ~stQ[1].valid => lo = arrived
    <3>1. stQ[1].valid <=> StValArrived(vals)
      BY <1>6, ArrivingValue DEF StQShifts
    <3>2. QED
      BY <2>1, <3>1, HeadStore, StepCounters
  <2>5. ASSUME NEW i \in 2 .. StQSize, stQ[i].valid
        PROVE  stQ[i].tag \in lo + 1 .. Accepted /\ stQ[i].addr = prog.stores[stQ[i].tag].addr
    <3>1. i \in 1 .. StQSize /\ 1 < i
      BY <2>2
    <3>2. stQ[i].tag \in arrived + 1 .. Accepted /\ stQ[i].addr = prog.stores[stQ[i].tag].addr
      BY <1>3, <2>5, <3>1 DEF HoldsStores
    <3>3. stQ[1].valid => stQ[1].tag < stQ[i].tag
      BY <1>3, <2>2, <2>5, <3>1 DEF HoldsStores
    <3>4. QED
      BY <2>2, <2>4, <3>2, <3>3
  (* The new entry is the next request, or a bubble. *)
  <2>6. /\ e.valid <=> StReqTaken(vals, stRdy)
        /\ e.valid => /\ e.tag = Accepted + 1 /\ e.addr = prog.stores[Accepted + 1].addr
                      /\ hi = Accepted + 1
        /\ ~e.valid => e.addr = InvalidAddr /\ hi = Accepted
    <3>1. CASE StReqTaken(vals, stRdy)
      <4>1. e.valid /\ e.tag = Head(stReqPipe).tag /\ e.addr = Head(stReqPipe).addr
        BY <3>1 DEF NewStEntry
      <4>2. stReqPipe # <<>> /\ stReqPipe \in Seq(StReq) /\ RequestsInOrder
        BY <3>1 DEF StReqTaken, IInv, TypeOK
      <4>3. 1 \in 1 .. Len(stReqPipe) /\ Head(stReqPipe) = stReqPipe[1]
        BY <4>2
      <4>4. hi = Accepted + 1
        BY <2>1, <3>1, StepCounters
      <4>5. QED
        BY <3>1, <4>1, <4>2, <4>3, <4>4 DEF RequestsInOrder
    <3>2. CASE ~StReqTaken(vals, stRdy)
      BY <2>1, <3>2, StepCounters DEF NewStEntry
    <3>3. QED
      BY <3>1, <3>2
  <2>. HIDE DEF e
  <2>7. hi = Accepted \/ hi = Accepted + 1
    BY <2>6
  <2>8. ASSUME NEW i \in 1 .. StQSize
        PROVE  IF stQ'[i].valid
               THEN stQ'[i].tag \in lo + 1 .. hi /\ stQ'[i].addr = prog.stores[stQ'[i].tag].addr
               ELSE stQ'[i].addr = InvalidAddr
    <3>1. CASE i < StQSize
      <4>1. stQ'[i] = stQ[i + 1] /\ i + 1 \in 2 .. StQSize /\ i + 1 \in 1 .. StQSize
        BY <2>2, <2>3, <3>1
      <4>2. CASE stQ[i + 1].valid
        <5>1. stQ[i + 1].tag \in lo + 1 .. Accepted /\ stQ[i + 1].addr = prog.stores[stQ[i + 1].tag].addr
          BY <2>5, <4>1, <4>2
        <5>2. stQ[i + 1].tag \in lo + 1 .. hi
          BY <2>2, <2>7, <5>1
        <5>3. QED
          BY <4>1, <4>2, <5>1, <5>2
      <4>3. CASE ~stQ[i + 1].valid
        BY <1>3, <4>1, <4>3 DEF HoldsStores
      <4>4. QED
        BY <4>2, <4>3
    <3>2. CASE i = StQSize
      <4>1. stQ'[i] = e
        BY <2>2, <2>3, <3>2
      <4>2. e.valid => Accepted + 1 \in lo + 1 .. hi
        <5>1. e.valid => hi = Accepted + 1
          BY <2>6
        <5>2. QED
          BY <2>2, <5>1
      <4>3. QED
        BY <2>6, <4>1, <4>2
    <3>3. QED
      BY <2>2, <3>1, <3>2
  <2>9. ASSUME NEW i \in 1 .. StQSize, NEW j \in 1 .. StQSize, i < j, stQ'[i].valid, stQ'[j].valid
        PROVE  stQ'[i].tag < stQ'[j].tag
    <3>1. i < StQSize /\ stQ'[i] = stQ[i + 1] /\ i + 1 \in 2 .. StQSize /\ i + 1 \in 1 .. StQSize
      BY <2>2, <2>3, <2>9
    <3>2. CASE j < StQSize
      <4>1. stQ'[j] = stQ[j + 1] /\ j + 1 \in 1 .. StQSize /\ i + 1 < j + 1
        BY <2>2, <2>3, <2>9, <3>2
      <4>2. QED
        BY <1>3, <2>9, <3>1, <4>1 DEF HoldsStores
    <3>3. CASE j = StQSize
      <4>1. stQ'[j] = e /\ e.tag = Accepted + 1
        BY <2>2, <2>3, <2>6, <2>9, <3>3
      <4>2. stQ[i + 1].tag \in lo + 1 .. Accepted
        BY <2>5, <2>9, <3>1
      <4>3. QED
        BY <2>2, <3>1, <4>1, <4>2
    <3>4. QED
      BY <2>2, <3>2, <3>3
  <2>10. ASSUME NEW s \in lo + 1 .. hi
        PROVE  \E i \in 1 .. StQSize : stQ'[i].valid /\ stQ'[i].tag = s
    <3>1. CASE s <= Accepted
      <4>1. s \in arrived + 1 .. Accepted
        BY <2>2, <3>1
      <4>2. PICK i \in 1 .. StQSize : stQ[i].valid /\ stQ[i].tag = s
        BY <1>3, <4>1 DEF HoldsStores
      <4>3. i # 1
        <5>1. stQ[1].valid => stQ[1].tag = lo
          BY <2>4
        <5>2. s # lo
          BY <2>2
        <5>3. QED
          BY <4>2, <5>1, <5>2
      <4>4. i - 1 \in 1 .. StQSize /\ i - 1 < StQSize /\ (i - 1) + 1 = i
        BY <2>2, <4>3
      <4>5. stQ'[i - 1] = stQ[i]
        BY <2>3, <4>4
      <4>6. QED
        BY <4>2, <4>4, <4>5
    <3>2. CASE s > Accepted
      <4>1. s = Accepted + 1 /\ e.valid
        BY <2>2, <2>6, <2>7, <3>2
      <4>2. stQ'[StQSize] = e
        BY <2>2, <2>3
      <4>3. QED
        BY <2>2, <2>6, <4>1, <4>2
    <3>3. QED
      BY <2>2, <3>1, <3>2
  <2>11. QED
    BY <2>1, <2>8, <2>9, <2>10 DEF HoldsStores
<1>7. QED
  BY <1>5, <1>6

------------------------------------------------------------------------------
(* The load queue, stage by stage.  Only ids and valid bits decide which    *)
(* loads a queue holds.                                                     *)

LEMMA HeldShift ==
  ASSUME NEW q \in [1 .. LdQSize -> LdEntry], NEW lo \in Nat, NEW hi \in Nat,
         HoldsLoads(q, lo, hi)
  PROVE  HoldsLoads(LdQAfterShift(q), lo, hi)
<1>1. CASE q[1].valid
  BY <1>1 DEF LdQAfterShift
<1>2. CASE ~q[1].valid
  <2>. DEFINE r == LdQAfterShift(q)
  <2>1. LdQSize \in Nat /\ LdQSize >= 2
    BY QueueAssumption
  <2>2. \A i \in 1 .. LdQSize : r[i] = IF i < LdQSize THEN q[i + 1] ELSE EmptyLd
    BY <1>2 DEF LdQAfterShift
  <2>. HIDE DEF r
  <2>3. ~EmptyLd.valid
    BY DEF EmptyLd
  <2>4. \A i \in 1 .. LdQSize : r[i].valid => i + 1 \in 1 .. LdQSize /\ r[i] = q[i + 1]
    BY <2>1, <2>2, <2>3
  <2>5. \A i \in 1 .. LdQSize : r[i].valid => r[i].id \in lo + 1 .. hi
    BY <2>4 DEF HoldsLoads
  <2>6. ASSUME NEW i \in 1 .. LdQSize, NEW j \in 1 .. LdQSize, i < j, r[i].valid, r[j].valid
        PROVE  r[i].id < r[j].id
    <3>1. i + 1 < j + 1
      BY <2>6
    <3>2. QED
      BY <2>4, <2>6, <3>1 DEF HoldsLoads
  <2>7. ASSUME NEW l \in lo + 1 .. hi
        PROVE  \E i \in 1 .. LdQSize : r[i].valid /\ r[i].id = l
    <3>1. PICK i \in 1 .. LdQSize : q[i].valid /\ q[i].id = l
      BY DEF HoldsLoads
    <3>2. i # 1
      BY <1>2, <3>1
    <3>3. i - 1 \in 1 .. LdQSize /\ i - 1 < LdQSize /\ (i - 1) + 1 = i
      BY <2>1, <3>2
    <3>4. r[i - 1] = q[i]
      BY <2>2, <3>3
    <3>5. QED
      BY <3>1, <3>3, <3>4
  <2>8. HoldsLoads(r, lo, hi)
    BY <2>5, <2>6, <2>7 DEF HoldsLoads
  <2>9. QED
    BY <2>8 DEF r
<1>3. QED
  BY <1>1, <1>2

LEMMA HeldRequest ==
  ASSUME NEW q \in [1 .. LdQSize -> LdEntry], NEW e \in LdEntry, NEW lo \in Nat, NEW hi \in Nat,
         lo <= hi, HoldsLoads(q, lo, hi), ~q[LdQSize].valid, e.valid, e.id = hi + 1
  PROVE  HoldsLoads([q EXCEPT ![LdQSize] = e], lo, hi + 1)
<1>. DEFINE r == [q EXCEPT ![LdQSize] = e]
<1>1. LdQSize \in Nat /\ LdQSize \in 1 .. LdQSize /\ hi + 1 \in lo + 1 .. hi + 1
  BY QueueAssumption
<1>2. \A i \in 1 .. LdQSize : r[i] = IF i = LdQSize THEN e ELSE q[i]
  OBVIOUS
<1>. HIDE DEF r
<1>3. \A i \in 1 .. LdQSize : q[i].valid => q[i].id \in lo + 1 .. hi /\ q[i].id < hi + 1
  BY DEF HoldsLoads
<1>4. \A l \in lo + 1 .. hi : l \in lo + 1 .. hi + 1
  OBVIOUS
<1>5. \A i \in 1 .. LdQSize : r[i].valid => r[i].id \in lo + 1 .. hi + 1
  BY <1>1, <1>2, <1>3, <1>4
<1>6. ASSUME NEW i \in 1 .. LdQSize, NEW j \in 1 .. LdQSize, i < j, r[i].valid, r[j].valid
      PROVE  r[i].id < r[j].id
  <2>1. i # LdQSize
    BY <1>6
  <2>2. r[i] = q[i] /\ q[i].valid /\ q[i].id < hi + 1
    BY <1>2, <1>3, <1>6, <2>1
  <2>3. CASE j = LdQSize
    BY <1>2, <2>2, <2>3
  <2>4. CASE j # LdQSize
    <3>1. r[j] = q[j]
      BY <1>2, <2>4
    <3>2. QED
      BY <1>6, <2>2, <3>1 DEF HoldsLoads
  <2>5. QED
    BY <2>3, <2>4
<1>7. ASSUME NEW l \in lo + 1 .. hi + 1
      PROVE  \E i \in 1 .. LdQSize : r[i].valid /\ r[i].id = l
  <2>1. CASE l = hi + 1
    BY <1>1, <1>2, <2>1
  <2>2. CASE l # hi + 1
    <3>1. l \in lo + 1 .. hi
      BY <2>2
    <3>2. PICK i \in 1 .. LdQSize : q[i].valid /\ q[i].id = l
      BY <3>1 DEF HoldsLoads
    <3>3. r[i] = q[i]
      BY <1>2, <3>2
    <3>4. QED
      BY <3>2, <3>3
  <2>3. QED
    BY <2>1, <2>2
<1>8. HoldsLoads(r, lo, hi + 1)
  BY <1>5, <1>6, <1>7 DEF HoldsLoads
<1>9. QED
  BY <1>8 DEF r

LEMMA HeldSame ==
  ASSUME NEW q, NEW r, NEW lo, NEW hi, HoldsLoads(q, lo, hi),
         \A i \in 1 .. LdQSize : r[i].valid = q[i].valid /\ r[i].id = q[i].id
  PROVE  HoldsLoads(r, lo, hi)
BY DEF HoldsLoads

(* The head that is answered leaves the queue to the loads behind it. *)
LEMMA HeldReturn ==
  ASSUME NEW q, NEW r, NEW lo \in Nat, NEW hi \in Nat, HoldsLoads(q, lo, hi),
         q[1].valid, q[1].id = lo + 1, ~r[1].valid,
         \A i \in 2 .. LdQSize : r[i] = q[i]
  PROVE  HoldsLoads(r, lo + 1, hi)
<1>1. LdQSize \in Nat /\ 1 \in 1 .. LdQSize
  BY QueueAssumption
<1>2. \A i \in 1 .. LdQSize : r[i].valid => i \in 2 .. LdQSize /\ 1 < i /\ r[i] = q[i]
  BY <1>1
<1>3. ASSUME NEW i \in 1 .. LdQSize, r[i].valid
      PROVE  r[i].id \in (lo + 1) + 1 .. hi
  <2>1. q[1].id < q[i].id /\ q[i].id \in lo + 1 .. hi
    BY <1>1, <1>2, <1>3 DEF HoldsLoads
  <2>2. q[i].id \in (lo + 1) + 1 .. hi
    BY <2>1
  <2>3. QED
    BY <1>2, <1>3, <2>2
<1>4. ASSUME NEW l \in (lo + 1) + 1 .. hi
      PROVE  \E i \in 1 .. LdQSize : r[i].valid /\ r[i].id = l
  <2>1. l \in lo + 1 .. hi /\ l # lo + 1
    OBVIOUS
  <2>2. PICK i \in 1 .. LdQSize : q[i].valid /\ q[i].id = l
    BY <2>1 DEF HoldsLoads
  <2>3. i \in 2 .. LdQSize
    BY <1>1, <2>1, <2>2
  <2>4. QED
    BY <2>2, <2>3
<1>5. \A i, j \in 1 .. LdQSize : i < j /\ r[i].valid /\ r[j].valid => r[i].id < r[j].id
  BY <1>2 DEF HoldsLoads
<1>6. QED
  BY <1>3, <1>4, <1>5 DEF HoldsLoads

(* Every older store's address has arrived, and none that waits for its    *)
(* value writes the load's address.                                        *)
Clear(l) ==
  /\ prog.loads[l].tag <= Accepted
  /\ \A s \in arrived + 1 .. prog.loads[l].tag : prog.stores[s].addr # prog.loads[l].addr

(* The safe rule establishes it, by comparing with the queue's entries. *)
LEMMA SafeIsClear ==
  ASSUME IInv, NEW e, SafeNow(e), e.addr = prog.loads[e.id].addr, e.tag = prog.loads[e.id].tag,
         e.id \in 1 .. Len(prog.loads)
  PROVE  Clear(e.id)
<1>1. /\ lastStReqTag = Accepted /\ HoldsStores(stQ, arrived, Accepted)
      /\ arrived \in Nat /\ Accepted \in Nat
  BY InvCounters DEF IInv, RequestsInOrder, StoreQueueHoldsPending
<1>2. PICK t \in Nat : t = prog.loads[e.id].tag
  <2>1. prog.loads[e.id].tag \in 0 .. Len(prog.stores) /\ Len(prog.stores) \in Nat
    BY ProgOps, InvCounters DEF IInv
  <2>2. QED
    BY <2>1
<1>3. t <= Accepted
  BY <1>1, <1>2 DEF SafeNow
<1>4. ASSUME NEW s \in arrived + 1 .. t
      PROVE  prog.stores[s].addr # prog.loads[e.id].addr
  <2>1. s \in arrived + 1 .. Accepted /\ s <= t
    BY <1>1, <1>3
  <2>2. PICK i \in 1 .. StQSize : stQ[i].valid /\ stQ[i].tag = s
    BY <1>1, <2>1 DEF HoldsStores
  <2>3. stQ[i].addr = prog.stores[s].addr
    BY <1>1, <2>2 DEF HoldsStores
  <2>4. QED
    BY <1>2, <2>1, <2>2, <2>3 DEF SafeNow
<1>5. QED
  BY <1>2, <1>3, <1>4 DEF Clear

(* An iteration keeps it, although a value may arrive and its write start   *)
(* to travel to memory: that store is older than no unread load unless its  *)
(* address was compared.                                                    *)
LEMMA ClearIsHazardFree ==
  ASSUME IInv, NEW vals \in SUBSET StPorts,
         NEW ldRdy \in BOOLEAN, NEW stRdy \in BOOLEAN, NEW endRdy \in BOOLEAN,
         NEW junk \in JunkTags, Iterate(vals, ldRdy, stRdy, endRdy, junk),
         NEW l \in Len(got) + 1 .. Len(prog.loads), Clear(l)
  PROVE  HazardFree(l)'
<1>1. /\ prog' = prog /\ arrived' = IF StValArrived(vals) THEN arrived + 1 ELSE arrived
      /\ arrived <= arrived' /\ Accepted <= Accepted'
      /\ arrived' \in Nat /\ Accepted' \in Nat
  BY StepCounters
<1>2. /\ arrived \in Nat /\ Accepted \in Nat /\ cuSt \in Nat /\ Len(got) \in Nat
      /\ Len(prog.loads) \in Nat /\ Len(prog.stores) \in Nat
  BY InvCounters
<1>3. l \in 1 .. Len(prog.loads)
  BY <1>2
<1>4. PICK t \in Nat : t = prog.loads[l].tag
  BY <1>2, <1>3, ProgOps DEF IInv
<1>5. prog.loads[l].addr \in Addr
  BY <1>3, ProgOps DEF IInv
<1>6. /\ t <= Accepted
      /\ \A s \in arrived + 1 .. t : prog.stores[s].addr # prog.loads[l].addr
  BY <1>4 DEF Clear
<1>7. t <= Accepted'
  BY <1>1, <1>2, <1>6
<1>8. ASSUME NEW s \in arrived' + 1 .. t
      PROVE  prog.stores[s].addr # prog.loads[l].addr
  <2>1. s \in arrived + 1 .. t
    <3>1. PICK n \in Nat : n = arrived'
      BY <1>1
    <3>2. QED
      BY <1>1, <1>2, <3>1
  <2>2. QED
    BY <1>6, <2>1
<1>9. inFlight'.addr # prog.loads[l].addr
  <2>1. Memory(vals)
    BY DEF Iterate
  <2>2. CASE StValValid(vals)
    <3>1. StValArrived(vals)
      BY <2>2 DEF StValValid
    <3>2. inFlight'.addr = prog.stores[arrived + 1].addr /\ arrived + 1 <= cuSt
      BY <2>1, <2>2, <3>1, ArrivingValue, HeadStore DEF Memory
    <3>3. cuSt <= t
      BY <1>4, UnreadLoad
    <3>4. arrived + 1 \in arrived + 1 .. t
      BY <1>2, <3>2, <3>3
    <3>5. QED
      BY <1>6, <3>2, <3>4
  <2>3. CASE ~StValValid(vals)
    <3>1. inFlight'.addr = -1
      BY <2>1, <2>3 DEF Memory, NoWrite
    <3>2. QED
      BY <1>5, <3>1, SizesAssumption
  <2>4. QED
    BY <2>2, <2>3
<1>10. QED
  BY <1>1, <1>4, <1>7, <1>8, <1>9 DEF HazardFree

(* What the stages of an iteration keep of a queue.  A head that has been  *)
(* answered may keep its flags: it is shifted out before the next          *)
(* iteration.                                                              *)
GoodEntry(e) == IsLoadEntry(e) /\ (e.valid /\ e.isSafe => Clear(e.id))
Staged(q) ==
  /\ q \in [1 .. LdQSize -> LdEntry]
  /\ \A i \in 1 .. LdQSize : i # 1 \/ q[1].valid => GoodEntry(q[i])
  /\ \A i \in 2 .. LdQSize : ~q[i].valValid
LatchedCorrect(q, v) ==
  q[1].valid /\ q[1].valValid => IsSequentialValue(prog, v, q[1].id)

LEMMA StageReturn ==
  ASSUME IInv, NEW vals \in SUBSET StPorts,
         NEW ldRdy \in BOOLEAN, NEW stRdy \in BOOLEAN, NEW endRdy \in BOOLEAN,
         NEW junk \in JunkTags, Iterate(vals, ldRdy, stRdy, endRdy, junk)
  PROVE  /\ Staged(LdQAfterReturn(vals))
         /\ HoldsLoads(LdQAfterReturn(vals), returned', AcceptedLds)
         /\ LatchedCorrect(LdQAfterReturn(vals), ldVal')
<1>. DEFINE q == LdQAfterReturn(vals)
            head == [ldQ[1] EXCEPT !.valid = ~PipeSucc(vals), !.valValid = ~PipeSucc(vals)]
<1>1. /\ ldQ \in [1 .. LdQSize -> LdEntry] /\ 1 \in 1 .. LdQSize /\ ldQ[1] \in LdEntry
      /\ LdQSize \in Nat
  BY QueueHeads, QueueAssumption DEF IInv, TypeOK
<1>2. PipeSucc(vals) \in BOOLEAN /\ (PipeSucc(vals) => Returning(vals))
  BY DEF PipeSucc, Returning
<1>3. /\ head \in LdEntry /\ head.id = ldQ[1].id /\ head.isSafe = ldQ[1].isSafe
      /\ head.addr = ldQ[1].addr /\ head.tag = ldQ[1].tag /\ head.port = ldQ[1].port
      /\ head.valid = ~PipeSucc(vals) /\ head.valValid = ~PipeSucc(vals)
  BY <1>1, <1>2 DEF LdEntry
<1>. HIDE DEF head
<1>4. \A i \in 1 .. LdQSize : q[i] = IF i = 1 /\ Returning(vals) THEN head ELSE ldQ[i]
  BY <1>1 DEF LdQAfterReturn, head
<1>5. q \in [1 .. LdQSize -> LdEntry]
  BY <1>1, <1>3 DEF LdQAfterReturn, head
<1>. HIDE DEF q
<1>6. /\ \A i \in 2 .. LdQSize : ~ldQ[i].valValid
      /\ \A i \in 1 .. LdQSize : IsLoadEntry(ldQ[i])
      /\ HoldsLoads(ldQ, returned, AcceptedLds)
  BY DEF IInv, LoadEntriesWellFormed, LoadQueueInOrder
<1>7. ASSUME NEW i \in 1 .. LdQSize PROVE GoodEntry(ldQ[i])
  <2>1. ldQ[i].valid /\ ldQ[i].isSafe => Clear(ldQ[i].id)
    BY DEF IInv, SafeLoadHasNoHazard, HazardFree, Clear
  <2>2. QED
    BY <1>6, <2>1 DEF GoodEntry
<1>8. \A i \in 2 .. LdQSize : i \in 1 .. LdQSize /\ i # 1 /\ q[i] = ldQ[i]
  BY <1>1, <1>4
<1>9. Returning(vals) => ldQ[1].valid
  BY DEF Returning
<1>10. GoodEntry(head) \/ ~head.valid \/ ~Returning(vals)
  BY <1>1, <1>3, <1>7, <1>9 DEF GoodEntry, IsLoadEntry
<1>11. Staged(q)
  BY <1>4, <1>5, <1>6, <1>7, <1>8, <1>10 DEF Staged
<1>12. HoldsLoads(q, returned', AcceptedLds)
  <2>1. returned \in Nat /\ AcceptedLds \in Nat
    BY InvCounters
  <2>2. CASE PipeSucc(vals)
    <3>1. returned' = returned + 1
      BY <2>2, LoadCounters
    <3>2. ldQ[1].valid /\ ldQ[1].id = returned + 1 /\ ~q[1].valid
      BY <1>1, <1>2, <1>3, <1>4, <1>9, <2>2, HeadLoad
    <3>3. HoldsLoads(q, returned + 1, AcceptedLds)
      BY <1>6, <1>8, <2>1, <3>2, HeldReturn
    <3>4. QED
      BY <3>1, <3>3
  <2>3. CASE ~PipeSucc(vals)
    <3>1. returned' = returned
      BY <2>3, LoadCounters
    <3>2. \A i \in 1 .. LdQSize : q[i].valid = ldQ[i].valid /\ q[i].id = ldQ[i].id
      <4>1. ldQ[1].valid \in BOOLEAN
        BY <1>1 DEF LdEntry
      <4>2. Returning(vals) => head.valid = ldQ[1].valid /\ head.id = ldQ[1].id
        BY <1>3, <1>9, <2>3, <4>1
      <4>3. QED
        BY <1>4, <4>2
    <3>3. HoldsLoads(q, returned, AcceptedLds)
      BY <1>6, <3>2, HeldSame
    <3>4. QED
      BY <3>1, <3>3
  <2>4. QED
    BY <2>2, <2>3
<1>13. LatchedCorrect(q, ldVal')
  <2>1. ldVal' = IF Returning(vals) THEN ReturnValue(vals) ELSE ldVal
    BY DEF Iterate, Loads
  <2>2. CASE Returning(vals)
    <3>1. ldVal' = ReturnValue(vals) /\ q[1].id = ldQ[1].id
      BY <1>1, <1>3, <1>4, <2>1, <2>2
    <3>2. IsSequentialValue(prog, ReturnValue(vals), ldQ[1].id)
      BY <2>2, ReturnedValue
    <3>3. QED
      BY <3>1, <3>2 DEF LatchedCorrect
  <2>3. CASE ~Returning(vals)
    <3>1. ldVal' = ldVal /\ q[1] = ldQ[1]
      BY <1>1, <1>4, <2>1, <2>3
    <3>2. ldQ[1].valValid => IsSequentialValue(prog, ldVal, ldQ[1].id)
      BY DEF IInv, ReturnedValuesCorrect
    <3>3. QED
      BY <3>1, <3>2 DEF LatchedCorrect
  <2>4. QED
    BY <2>2, <2>3
<1>14. QED
  BY <1>11, <1>12, <1>13 DEF q

LEMMA StageRequest ==
  ASSUME IInv, NEW q, Staged(q), NEW ldRdy \in BOOLEAN, NEW lo \in Nat, lo <= AcceptedLds,
         HoldsLoads(q, lo, AcceptedLds), NEW v, LatchedCorrect(q, v)
  PROVE  /\ Staged(LdQAfterRequest(q, ldRdy))
         /\ HoldsLoads(LdQAfterRequest(q, ldRdy), lo,
                       IF LdReqTaken(q, ldRdy) THEN AcceptedLds + 1 ELSE AcceptedLds)
         /\ LatchedCorrect(LdQAfterRequest(q, ldRdy), v)
<1>1. CASE ~LdReqTaken(q, ldRdy)
  BY <1>1 DEF LdQAfterRequest
<1>2. CASE LdReqTaken(q, ldRdy)
  <2>. DEFINE r == Head(ldReqPipe)
              e == [q[LdQSize] EXCEPT !.addr = r.addr, !.tag = r.tag, !.valid = TRUE,
                                      !.port = r.port, !.id = r.id]
              l == AcceptedLds + 1
              p == LdQAfterRequest(q, ldRdy)
  <2>1. LdQSize \in Nat /\ LdQSize >= 2 /\ LdQSize \in 2 .. LdQSize /\ LdQSize \in 1 .. LdQSize
        /\ 1 \in 1 .. LdQSize /\ LdQSize # 1
    BY QueueAssumption
  <2>2. q \in [1 .. LdQSize -> LdEntry] /\ q[LdQSize] \in LdEntry
    BY <2>1 DEF Staged
  <2>3. ~q[LdQSize].valid /\ ldReqPipe # <<>> /\ ldReqPipe \in Seq(LdReq)
    BY <1>2 DEF LdReqTaken, IInv, TypeOK
  <2>4. Head(ldReqPipe) = ldReqPipe[1] /\ r \in LdReq /\ 1 \in 1 .. Len(ldReqPipe)
    BY <2>3, TailElements
  <2>5. r = [addr |-> prog.loads[l].addr, tag |-> prog.loads[l].tag,
             port |-> prog.loads[l].port, id |-> l]
    BY <2>4 DEF IInv, RequestsInOrder
  <2>6. ~q[LdQSize].isSafe /\ ~q[LdQSize].valValid
    BY <2>1, <2>3 DEF Staged, GoodEntry, IsLoadEntry
  <2>7. r.addr = prog.loads[l].addr /\ r.tag = prog.loads[l].tag
        /\ r.port = prog.loads[l].port /\ r.id = l
    BY <2>5
  <2>. HIDE DEF r, l
  <2>8. e \in LdEntry
    BY <2>2, <2>4 DEF LdEntry, LdReq
  <2>9. e.valid /\ e.id = r.id /\ e.addr = r.addr /\ e.tag = r.tag /\ e.port = r.port
        /\ e.isSafe = q[LdQSize].isSafe /\ e.valValid = q[LdQSize].valValid
    BY <2>2 DEF LdEntry
  <2>10. p = [q EXCEPT ![LdQSize] = e]
    BY <1>2, <2>1, <2>2 DEF LdQAfterRequest, r
  <2>. HIDE DEF e, p
  <2>11. GoodEntry(e) /\ ~e.valValid
    BY <2>6, <2>7, <2>9 DEF GoodEntry, IsLoadEntry
  <2>12. \A i \in 1 .. LdQSize : p[i] = IF i = LdQSize THEN e ELSE q[i]
    BY <2>2, <2>10
  <2>13. p \in [1 .. LdQSize -> LdEntry]
    BY <2>2, <2>8, <2>10
  <2>14. p[1] = q[1]
    BY <2>1, <2>12
  <2>15. Staged(p)
    <3>1. \A i \in 2 .. LdQSize : i \in 1 .. LdQSize
      OBVIOUS
    <3>2. QED
      BY <2>11, <2>12, <2>13, <2>14, <3>1 DEF Staged
  <2>16. HoldsLoads(p, lo, AcceptedLds + 1)
    <3>1. AcceptedLds \in Nat
      BY InvCounters
    <3>2. e.id = AcceptedLds + 1
      BY <2>7, <2>9 DEF l
    <3>3. QED
      BY <2>2, <2>3, <2>8, <2>9, <2>10, <3>1, <3>2, HeldRequest
  <2>17. LatchedCorrect(p, v)
    BY <2>14 DEF LatchedCorrect
  <2>18. QED
    BY <1>2, <2>15, <2>16, <2>17 DEF p
<1>3. QED
  BY <1>1, <1>2

LEMMA StageMark ==
  ASSUME IInv, NEW q, Staged(q), NEW lo \in Nat, NEW hi \in Nat, hi <= Len(prog.loads),
         HoldsLoads(q, lo, hi), NEW v, LatchedCorrect(q, v)
  PROVE  /\ Staged(LdQAfterMark(q))
         /\ HoldsLoads(LdQAfterMark(q), lo, hi)
         /\ LatchedCorrect(LdQAfterMark(q), v)
<1>. DEFINE p == LdQAfterMark(q)
            b(i) == q[i].isSafe \/ (i \in {1, 2} /\ SafeNow(q[i]))
<1>1. q \in [1 .. LdQSize -> LdEntry]
  BY DEF Staged
<1>2. ASSUME NEW i \in 1 .. LdQSize
      PROVE  /\ p[i] \in LdEntry
             /\ p[i].valid = q[i].valid /\ p[i].valValid = q[i].valValid /\ p[i].id = q[i].id
             /\ p[i].addr = q[i].addr /\ p[i].tag = q[i].tag /\ p[i].port = q[i].port
             /\ p[i].isSafe => q[i].isSafe \/ SafeNow(q[i])
  <2>1. p[i] = [q[i] EXCEPT !.isSafe = b(i)] /\ q[i] \in LdEntry
    BY <1>1 DEF LdQAfterMark
  <2>2. b(i) \in BOOLEAN /\ (b(i) => q[i].isSafe \/ SafeNow(q[i]))
    BY <2>1 DEF LdEntry, SafeNow
  <2>. HIDE DEF b, p
  <2>3. QED
    BY <2>1, <2>2 DEF LdEntry
<1>3. p \in [1 .. LdQSize -> LdEntry]
  <2>1. p = [i \in 1 .. LdQSize |-> p[i]]
    BY DEF LdQAfterMark
  <2>. HIDE DEF p
  <2>2. QED
    BY <1>2, <2>1
<1>. HIDE DEF p
<1>4. 1 \in 1 .. LdQSize /\ \A i \in 2 .. LdQSize : i \in 1 .. LdQSize
  BY QueueAssumption
<1>5. ASSUME NEW i \in 1 .. LdQSize, i # 1 \/ q[1].valid
      PROVE  GoodEntry(p[i])
  <2>1. GoodEntry(q[i])
    BY <1>5 DEF Staged
  <2>2. CASE ~q[i].valid
    <3>1. ~SafeNow(q[i])
      BY <2>2 DEF SafeNow
    <3>2. QED
      BY <1>2, <2>1, <2>2, <3>1 DEF GoodEntry, IsLoadEntry
  <2>3. CASE q[i].valid
    <3>1. q[i].id \in 1 .. Len(prog.loads)
      <4>1. q[i].id \in lo + 1 .. hi /\ Len(prog.loads) \in Nat
        BY <2>3, InvCounters DEF HoldsLoads
      <4>2. QED
        BY <4>1
    <3>2. q[i].addr = prog.loads[q[i].id].addr /\ q[i].tag = prog.loads[q[i].id].tag
      BY <2>1, <2>3 DEF GoodEntry, IsLoadEntry
    <3>3. SafeNow(q[i]) => Clear(q[i].id)
      BY <3>1, <3>2, SafeIsClear
    <3>4. p[i].isSafe => Clear(p[i].id)
      BY <1>2, <2>1, <2>3, <3>3 DEF GoodEntry
    <3>5. QED
      BY <1>2, <2>1, <2>3, <3>4 DEF GoodEntry, IsLoadEntry
  <2>4. QED
    BY <2>2, <2>3
<1>6. Staged(p)
  <2>1. p[1].valid = q[1].valid
    BY <1>2, <1>4
  <2>2. \A i \in 2 .. LdQSize : ~p[i].valValid
    BY <1>2, <1>4 DEF Staged
  <2>3. QED
    BY <1>3, <1>5, <2>1, <2>2 DEF Staged
<1>7. HoldsLoads(p, lo, hi)
  BY <1>2, HeldSame
<1>8. LatchedCorrect(p, v)
  BY <1>2, <1>4 DEF LatchedCorrect
<1>9. QED
  BY <1>6, <1>7, <1>8 DEF p

LEMMA StageShift ==
  ASSUME NEW q, Staged(q), NEW lo \in Nat, NEW hi \in Nat, HoldsLoads(q, lo, hi),
         NEW v, LatchedCorrect(q, v)
  PROVE  /\ \A i \in 1 .. LdQSize : GoodEntry(LdQAfterShift(q)[i])
         /\ \A i \in 2 .. LdQSize : ~LdQAfterShift(q)[i].valValid
         /\ HoldsLoads(LdQAfterShift(q), lo, hi)
         /\ LdQAfterShift(q)[1].valValid => IsSequentialValue(prog, v, LdQAfterShift(q)[1].id)
<1>1. HoldsLoads(LdQAfterShift(q), lo, hi)
  BY HeldShift DEF Staged
<1>. DEFINE p == LdQAfterShift(q)
<1>2. CASE q[1].valid
  BY <1>1, <1>2 DEF LdQAfterShift, Staged, LatchedCorrect
<1>3. CASE ~q[1].valid
  <2>1. LdQSize \in Nat /\ LdQSize >= 2 /\ 1 \in 1 .. LdQSize
        /\ \A i \in 2 .. LdQSize : i \in 1 .. LdQSize
    BY QueueAssumption
  <2>2. \A i \in 1 .. LdQSize : p[i] = IF i < LdQSize THEN q[i + 1] ELSE EmptyLd
    BY <1>3 DEF LdQAfterShift
  <2>. HIDE DEF p
  <2>3. GoodEntry(EmptyLd) /\ ~EmptyLd.valValid
    BY DEF GoodEntry, IsLoadEntry, EmptyLd
  <2>4. ASSUME NEW i \in 1 .. LdQSize
        PROVE  GoodEntry(p[i]) /\ ~p[i].valValid
    <3>1. CASE i < LdQSize
      <4>1. p[i] = q[i + 1] /\ i + 1 \in 1 .. LdQSize /\ i + 1 \in 2 .. LdQSize /\ i + 1 # 1
        BY <2>1, <2>2, <3>1
      <4>2. QED
        BY <4>1 DEF Staged
    <3>2. CASE ~(i < LdQSize)
      BY <2>2, <2>3, <3>2
    <3>3. QED
      BY <3>1, <3>2
  <2>5. QED
    BY <1>1, <2>1, <2>4 DEF p
<1>4. QED
  BY <1>2, <1>3

------------------------------------------------------------------------------
(* An iteration: the load queue. *)
LEMMA StepLoadQueue ==
  ASSUME IInv, NEW vals \in SUBSET StPorts,
         NEW ldRdy \in BOOLEAN, NEW stRdy \in BOOLEAN, NEW endRdy \in BOOLEAN,
         NEW junk \in JunkTags, Iterate(vals, ldRdy, stRdy, endRdy, junk)
  PROVE  /\ LoadQueueInOrder' /\ LoadEntriesWellFormed' /\ SafeLoadHasNoHazard'
         /\ ldQ'[1].valValid => IsSequentialValue(prog, ldVal', ldQ'[1].id)
<1>. DEFINE q1 == LdQAfterReturn(vals)
            q2 == LdQAfterRequest(q1, ldRdy)
            q3 == LdQAfterMark(q2)
<1>1. UNCHANGED <<prog, got>> /\ ldQ' = LdQAfterShift(q3)
  BY StepCounters DEF Iterate, Loads
<1>2. PICK lo \in Nat, hi \in Nat :
        /\ lo = returned' /\ hi = AcceptedLds'
        /\ hi = IF LdReqTaken(q1, ldRdy) THEN AcceptedLds + 1 ELSE AcceptedLds
        /\ lo <= AcceptedLds /\ returned <= lo /\ AcceptedLds <= hi /\ hi <= Len(prog.loads)
  BY LoadCounters
<1>3. /\ returned \in Nat /\ AcceptedLds \in Nat /\ Len(got) \in Nat /\ Len(got) <= returned
      /\ Len(prog.loads) \in Nat
  BY InvCounters
<1>4. lo <= hi /\ Len(got) <= lo
  BY <1>2, <1>3
<1>5. Staged(q1) /\ HoldsLoads(q1, lo, AcceptedLds) /\ LatchedCorrect(q1, ldVal')
  BY <1>2, StageReturn
<1>. HIDE DEF q1
<1>6. Staged(q2) /\ HoldsLoads(q2, lo, hi) /\ LatchedCorrect(q2, ldVal')
  BY <1>2, <1>5, StageRequest
<1>. HIDE DEF q2
<1>7. Staged(q3) /\ HoldsLoads(q3, lo, hi) /\ LatchedCorrect(q3, ldVal')
  BY <1>2, <1>6, StageMark
<1>. HIDE DEF q3
<1>8. /\ \A i \in 1 .. LdQSize : GoodEntry(ldQ'[i])
      /\ \A i \in 2 .. LdQSize : ~ldQ'[i].valValid
      /\ HoldsLoads(ldQ', lo, hi)
      /\ ldQ'[1].valValid => IsSequentialValue(prog, ldVal', ldQ'[1].id)
  BY <1>1, <1>7, StageShift
<1>9. LoadQueueInOrder'
  BY <1>2, <1>4, <1>8 DEF LoadQueueInOrder, HoldsLoads
<1>10. LoadEntriesWellFormed'
  <2>1. \A i \in 1 .. LdQSize : IsLoadEntry(ldQ[i])'
    BY <1>1, <1>8 DEF GoodEntry, IsLoadEntry
  <2>2. QED
    BY <1>8, <2>1 DEF LoadEntriesWellFormed
<1>11. SafeLoadHasNoHazard'
  <2>1. ASSUME NEW i \in 1 .. LdQSize, ldQ'[i].valid, ldQ'[i].isSafe
        PROVE  HazardFree(ldQ[i].id)'
    <3>1. PICK l : l = ldQ'[i].id
      OBVIOUS
    <3>2. l \in Len(got) + 1 .. Len(prog.loads)
      <4>1. l \in lo + 1 .. hi
        BY <1>8, <2>1, <3>1 DEF HoldsLoads
      <4>2. Len(got) <= lo /\ hi <= Len(prog.loads)
        BY <1>2, <1>4
      <4>3. PICK g \in Nat, n \in Nat : g = Len(got) /\ n = Len(prog.loads)
        BY <1>3
      <4>4. l \in g + 1 .. n
        BY <4>1, <4>2, <4>3
      <4>5. QED
        BY <4>3, <4>4
    <3>3. Clear(l)
      BY <1>8, <2>1, <3>1 DEF GoodEntry
    <3>4. HazardFree(l)'
      BY <3>2, <3>3, ClearIsHazardFree
    <3>5. QED
      BY <3>1, <3>4 DEF HazardFree
  <2>2. QED
    BY <2>1 DEF SafeLoadHasNoHazard
<1>12. QED
  BY <1>2, <1>8, <1>9, <1>10, <1>11

(* An iteration: the values returned. *)
LEMMA StepLoadValues ==
  ASSUME IInv, NEW vals \in SUBSET StPorts,
         NEW ldRdy \in BOOLEAN, NEW stRdy \in BOOLEAN, NEW endRdy \in BOOLEAN,
         NEW junk \in JunkTags, Iterate(vals, ldRdy, stRdy, endRdy, junk)
  PROVE  LoadValuesInOrder' /\ ReturnedValuesCorrect' /\ LoadsReturnProgramOrder'
<1>1. prog' = prog /\ got' = got
  BY StepCounters
<1>2. /\ ldValPipe' = IF PipeSucc(vals)
           THEN [ldValPipe EXCEPT ![ldQ[1].port] = Append(@, [value |-> ReturnValue(vals), id |-> ldQ[1].id])]
           ELSE ldValPipe
      /\ returned' = IF PipeSucc(vals) THEN returned + 1 ELSE returned
  BY DEF Iterate, Loads
<1>3. LoadValuesInOrder /\ ReturnedValuesCorrect /\ LoadsReturnProgramOrder
  BY DEF IInv
<1>4. LoadsReturnProgramOrder'
  BY <1>1, <1>3 DEF LoadsReturnProgramOrder, IsSequentialValue, IsLatest, Writes
<1>5. ldQ'[1].valValid => IsSequentialValue(prog, ldVal', ldQ'[1].id)
  BY StepLoadQueue
<1>6. CASE ~PipeSucc(vals)
  <2>1. ldValPipe' = ldValPipe /\ returned' = returned
    BY <1>2, <1>6
  <2>2. LoadValuesInOrder'
    BY <1>1, <1>3, <2>1 DEF LoadValuesInOrder
  <2>3. \A k \in LdPorts : \A i \in 1 .. Len(ldValPipe[k]) :
          IsSequentialValue(prog, ldValPipe[k][i].value, ldValPipe[k][i].id)
    BY <1>3 DEF ReturnedValuesCorrect
  <2>4. ReturnedValuesCorrect'
    BY <1>1, <1>5, <2>1, <2>3 DEF ReturnedValuesCorrect, IsSequentialValue, IsLatest, Writes
  <2>5. QED
    BY <1>4, <2>2, <2>4
<1>7. CASE PipeSucc(vals)
  <2>. DEFINE k == ldQ[1].port
              v == [value |-> ReturnValue(vals), id |-> ldQ[1].id]
              p == ldValPipe[k]
  <2>1. Returning(vals) /\ ldQ[1].valid /\ 1 \in 1 .. LdQSize
    BY <1>7, QueueAssumption DEF PipeSucc, Returning
  <2>2. ldQ[1].id = returned + 1 /\ k = prog.loads[returned + 1].port
    BY <2>1, HeadLoad, QueuedLoad
  <2>3. k \in LdPorts /\ ldQ[1].id \in Nat /\ ReturnValue(vals) \in Nat
    BY QueueHeads, ReturnValueType DEF IInv, TypeOK, LdEntry
  <2>4. v \in LdValTok /\ p \in Seq(LdValTok)
    BY <2>3 DEF LdValTok, IInv, TypeOK
  <2>5. v.id = returned + 1 /\ IsSequentialValue(prog, v.value, v.id)
    BY <2>1, <2>2, ReturnedValue
  <2>. HIDE DEF v
  <2>6. /\ Len(Append(p, v)) = Len(p) + 1 /\ Len(p) \in Nat
        /\ \A i \in 1 .. Len(p) : Append(p, v)[i] = p[i]
        /\ Append(p, v)[Len(p) + 1] = v
    BY <2>4, AppendElements
  <2>7. \A j \in LdPorts : ldValPipe'[j] = IF j = k THEN Append(p, v) ELSE ldValPipe[j]
    BY <1>2, <1>7 DEF IInv, TypeOK, v
  <2>8. PICK n \in Nat : n = Len(p)
    BY <2>6
  <2>9. k = ldQ[1].port /\ p = ldValPipe[k]
    OBVIOUS
  <2>. HIDE DEF k, p
  (* Every token of the new pipes is an old one, or the new one, at the end. *)
  <2>10. ASSUME NEW j \in LdPorts, NEW i \in 1 .. Len(ldValPipe'[j])
         PROVE  \/ i \in 1 .. Len(ldValPipe[j]) /\ ldValPipe'[j][i] = ldValPipe[j][i]
                \/ j = k /\ i = n + 1 /\ ldValPipe'[j][i] = v
    <3>1. CASE j # k
      BY <2>7, <2>10, <3>1
    <3>2. CASE j = k
      <4>1. ldValPipe'[j] = Append(p, v) /\ i \in 1 .. n + 1
        BY <2>6, <2>7, <2>8, <2>10, <3>2
      <4>2. i \in 1 .. n \/ i = n + 1
        BY <2>8, <4>1
      <4>3. QED
        BY <2>6, <2>8, <2>9, <3>2, <4>1, <4>2
    <3>3. QED
      BY <3>1, <3>2
  <2>11. ASSUME NEW j \in LdPorts, NEW i \in 1 .. Len(ldValPipe[j])
         PROVE  i \in 1 .. Len(ldValPipe'[j]) /\ ldValPipe'[j][i] = ldValPipe[j][i]
    <3>1. CASE j # k
      BY <2>7, <2>11, <3>1
    <3>2. CASE j = k
      <4>1. ldValPipe'[j] = Append(p, v) /\ Len(ldValPipe'[j]) = n + 1 /\ i \in 1 .. n
        BY <2>6, <2>7, <2>8, <2>9, <2>11, <3>2
      <4>2. i \in 1 .. n + 1
        BY <2>8, <4>1
      <4>3. QED
        BY <2>6, <2>8, <2>9, <3>2, <4>1, <4>2
    <3>3. QED
      BY <3>1, <3>2
  <2>12. /\ n + 1 \in 1 .. Len(ldValPipe'[k]) /\ ldValPipe'[k][n + 1] = v
    <3>1. ldValPipe'[k] = Append(p, v)
      BY <2>3, <2>7, <2>9
    <3>2. n + 1 \in 1 .. n + 1
      BY <2>8
    <3>3. QED
      BY <2>6, <2>8, <3>1, <3>2
  <2>13. returned' = returned + 1 /\ returned \in Nat /\ Len(got) \in Nat /\ Len(got) <= returned
    BY <1>2, <1>7, InvCounters
  <2>14. ReturnedValuesCorrect'
    <3>1. \A j \in LdPorts : \A i \in 1 .. Len(ldValPipe'[j]) :
            IsSequentialValue(prog, ldValPipe'[j][i].value, ldValPipe'[j][i].id)
      BY <1>3, <2>5, <2>10 DEF ReturnedValuesCorrect
    <3>2. QED
      BY <1>1, <1>5, <3>1 DEF ReturnedValuesCorrect, IsSequentialValue, IsLatest, Writes
  <2>15. \A j \in LdPorts : \A i \in 1 .. Len(ldValPipe[j]) :
           /\ ldValPipe[j][i].id \in Len(got) + 1 .. returned
           /\ prog.loads[ldValPipe[j][i].id].port = j
    BY <1>3 DEF LoadValuesInOrder
  <2>16. \A x \in Len(got) + 1 .. returned : x \in Len(got) + 1 .. returned + 1 /\ x < returned + 1
    BY <2>13
  <2>17. returned + 1 \in Len(got) + 1 .. returned + 1
    BY <2>13
  <2>18. ASSUME NEW j \in LdPorts, NEW i \in 1 .. Len(ldValPipe'[j])
         PROVE  /\ ldValPipe'[j][i].id \in Len(got) + 1 .. returned + 1
                /\ prog.loads[ldValPipe'[j][i].id].port = j
    <3>1. CASE i \in 1 .. Len(ldValPipe[j]) /\ ldValPipe'[j][i] = ldValPipe[j][i]
      BY <2>15, <2>16, <3>1
    <3>2. CASE j = k /\ ldValPipe'[j][i] = v
      BY <2>2, <2>5, <2>17, <3>2
    <3>3. QED
      BY <2>10, <3>1, <3>2
  <2>19. ASSUME NEW j \in LdPorts, NEW i \in 1 .. Len(ldValPipe'[j]), NEW m \in 1 .. Len(ldValPipe'[j]),
                i < m
         PROVE  ldValPipe'[j][i].id < ldValPipe'[j][m].id
    <3>1. CASE j = k /\ m = n + 1 /\ ldValPipe'[j][m] = v
      <4>1. i # n + 1
        BY <2>8, <2>19, <3>1
      <4>2. i \in 1 .. Len(ldValPipe[j]) /\ ldValPipe'[j][i] = ldValPipe[j][i]
        BY <2>10, <4>1
      <4>3. QED
        BY <2>5, <2>15, <2>16, <3>1, <4>2
    <3>2. CASE m \in 1 .. Len(ldValPipe[j]) /\ ldValPipe'[j][m] = ldValPipe[j][m]
      <4>1. i \in 1 .. Len(ldValPipe[j]) /\ ldValPipe'[j][i] = ldValPipe[j][i]
        <5>1. ldValPipe[j] \in Seq(LdValTok)
          BY DEF IInv, TypeOK
        <5>2. PICK c \in Nat : c = Len(ldValPipe[j])
          BY <5>1
        <5>3. i \in 1 .. c
          BY <2>19, <3>2, <5>2
        <5>4. QED
          BY <2>11, <5>2, <5>3
      <4>2. ldValPipe[j][i].id < ldValPipe[j][m].id
        BY <1>3, <2>19, <3>2, <4>1 DEF LoadValuesInOrder
      <4>3. QED
        BY <3>2, <4>1, <4>2
    <3>3. QED
      BY <2>10, <3>1, <3>2
  <2>20. ASSUME NEW x \in Len(got) + 1 .. returned + 1
         PROVE  \E i \in 1 .. Len(ldValPipe'[prog.loads[x].port]) : ldValPipe'[prog.loads[x].port][i].id = x
    <3>1. CASE x = returned + 1
      BY <2>2, <2>5, <2>12, <3>1
    <3>2. CASE x # returned + 1
      <4>1. x \in Len(got) + 1 .. returned
        BY <2>13, <3>2
      <4>2. PICK i \in 1 .. Len(ldValPipe[prog.loads[x].port]) : ldValPipe[prog.loads[x].port][i].id = x
        BY <1>3, <4>1 DEF LoadValuesInOrder
      <4>3. prog.loads[x].port \in LdPorts
        <5>1. x \in 1 .. Len(prog.loads)
          <6>1. returned <= Len(prog.loads) /\ Len(prog.loads) \in Nat
            <7>1. /\ returned \in Nat /\ AcceptedLds \in Nat /\ Len(prog.loads) \in Nat
                  /\ returned <= AcceptedLds /\ AcceptedLds <= Len(prog.loads)
              BY InvCounters
            <7>2. QED
              BY <7>1
          <6>2. QED
            BY <2>13, <4>1, <6>1
        <5>2. QED
          BY <5>1, ProgOps DEF IInv
      <4>4. QED
        BY <2>11, <4>2, <4>3
    <3>3. QED
      BY <3>1, <3>2
  <2>21. Len(got) <= returned + 1
    BY <2>13
  <2>22. LoadValuesInOrder'
    BY <1>1, <2>13, <2>18, <2>19, <2>20, <2>21 DEF LoadValuesInOrder
  <2>23. QED
    BY <1>4, <2>14, <2>22
<1>8. QED
  BY <1>6, <1>7

LEMMA LsqInv == IInv /\ Lsq => IInv'
<1>. SUFFICES ASSUME IInv, NEW vals \in SUBSET StPorts,
                     NEW ldRdy \in BOOLEAN, NEW stRdy \in BOOLEAN, NEW endRdy \in BOOLEAN,
                     NEW junk \in JunkTags, Iterate(vals, ldRdy, stRdy, endRdy, junk)
              PROVE  IInv'
  BY DEF Lsq
<1>1. TypeOK'
  BY IterateType DEF IInv
<1>2. CuInOrder' /\ RequestsInOrder' /\ StoreQueueHoldsPending'
  BY StepCuInOrder, StepRequests, StepStoreQueue
<1>3. StoreValuesPaired' /\ MemoryIsProgramPrefix'
  BY StepStoreValues, StepMemory
<1>4. LoadQueueInOrder' /\ LoadEntriesWellFormed' /\ SafeLoadHasNoHazard'
  BY StepLoadQueue
<1>5. LoadValuesInOrder' /\ ReturnedValuesCorrect' /\ LoadsReturnProgramOrder'
  BY StepLoadValues
<1>6. QED
  BY <1>1, <1>2, <1>3, <1>4, <1>5 DEF IInv

LEMMA StepInv == IInv /\ [Next]_vars => IInv'
<1>1. ASSUME IInv, UNCHANGED vars PROVE IInv'
  <2>1. TypeOK'
    BY <1>1, StepTypeOK DEF IInv
  <2>2. UNCHANGED <<prog, aguVars, cuSt, got, stReqPipe, ldReqPipe, stValPipe, ldValPipe, lsqVars>>
    BY <1>1 DEF vars, cuVars
  <2>3. RequestsInOrder' /\ Accepted' = Accepted /\ AcceptedLds' = AcceptedLds
    BY <1>1, <2>2, RequestsUntouched
  <2>4. /\ CuInOrder' /\ StoreValuesPaired' /\ LoadValuesInOrder' /\ ReturnedValuesCorrect'
        /\ LoadsReturnProgramOrder'
    BY <1>1, <2>2, ComputeUntouched
  <2>5. QED
    BY <1>1, <2>1, <2>2, <2>3, <2>4, QueueUntouched DEF IInv
<1>2. QED
  BY <1>1, AguInv, CuInv, LsqInv DEF Next

------------------------------------------------------------------------------
(* The invariant behind all of the following holds in every reachable      *)
(* state, as long as store tags do not wrap.                               *)
THEOREM InvariantHolds == Spec => []IInv
BY InitInv, StepInv, PTL DEF Spec

(* Every load the compute unit has read returned the value of the youngest *)
(* store before it in program order, in every interleaving of the address  *)
(* generation, the computation and the queue.                              *)
THEOREM LoadsReturnInProgramOrder == Spec => []LoadsReturnProgramOrder
<1>1. IInv => LoadsReturnProgramOrder
  BY DEF IInv
<1>2. QED
  BY <1>1, InvariantHolds, PTL

(* A load marked safe has no read-after-write hazard left (the safe rule). *)
THEOREM SafeMeansHazardFree == Spec => []SafeLoadHasNoHazard
<1>1. IInv => SafeLoadHasNoHazard
  BY DEF IInv
<1>2. QED
  BY <1>1, InvariantHolds, PTL

(* Memory always holds the effect of a prefix of the program's stores, and *)
(* poisoned stores leave no trace.                                         *)
THEOREM MemoryFollowsProgram == Spec => []MemoryIsProgramPrefix
<1>1. IInv => MemoryIsProgramPrefix
  BY DEF IInv
<1>2. QED
  BY <1>1, InvariantHolds, PTL

(* The store queue holds exactly the accepted stores that wait for their   *)
(* value, each once, oldest first (the shift and request rules).           *)
THEOREM StoreQueueIsExact == Spec => []StoreQueueHoldsPending
<1>1. IInv => StoreQueueHoldsPending
  BY DEF IInv
<1>2. QED
  BY <1>1, InvariantHolds, PTL

(* No load is lost, duplicated or reordered between the address generation *)
(* unit, the load queue and the value pipes.                               *)
THEOREM LoadsKeepTheirOrder == Spec => []LoadsStayInOrder
<1>1. IInv => LoadsStayInOrder
  BY DEF IInv, LoadsStayInOrder
<1>2. QED
  BY <1>1, InvariantHolds, PTL

------------------------------------------------------------------------------
(* What an iteration keeps of a load that stays in the queue: it is at one *)
(* place before and at one after, with its safe flag and its latched value.*)
KeepsLoad(i, j) ==
  ldQ[i].valid /\ ldQ'[j].valid /\ ldQ[i].id = ldQ'[j].id =>
    /\ ldQ[i].isSafe => ldQ'[j].isSafe
    /\ ldQ[i].valValid => ldQ'[j].valValid /\ ldVal' = ldVal

LEMMA OneEntryPerLoad ==
  ASSUME IInv, NEW i \in 1 .. LdQSize, NEW j \in 1 .. LdQSize,
         ldQ[i].valid, ldQ[j].valid, ldQ[i].id = ldQ[j].id
  PROVE  i = j
<1>1. i < j \/ j < i \/ i = j
  BY QueueAssumption
<1>2. ldQ[i].id \in Nat
  BY QueueAssumption DEF IInv, TypeOK, LdEntry
<1>3. QED
  BY <1>1, <1>2 DEF IInv, LoadQueueInOrder, HoldsLoads

LEMMA IterateKeepsLoads ==
  ASSUME IInv, NEW vals \in SUBSET StPorts,
         NEW ldRdy \in BOOLEAN, NEW stRdy \in BOOLEAN, NEW endRdy \in BOOLEAN,
         NEW junk \in JunkTags, Iterate(vals, ldRdy, stRdy, endRdy, junk),
         NEW i \in 1 .. LdQSize, NEW j \in 1 .. LdQSize
  PROVE  KeepsLoad(i, j)
<1>. SUFFICES ASSUME ldQ[i].valid, ldQ'[j].valid, ldQ[i].id = ldQ'[j].id
              PROVE  /\ ldQ[i].isSafe => ldQ'[j].isSafe
                     /\ ldQ[i].valValid => ldQ'[j].valValid /\ ldVal' = ldVal
  BY DEF KeepsLoad
<1>. DEFINE q1 == LdQAfterReturn(vals)
            q2 == LdQAfterRequest(q1, ldRdy)
            q3 == LdQAfterMark(q2)
            head == [ldQ[1] EXCEPT !.valid = ~PipeSucc(vals), !.valValid = ~PipeSucc(vals)]
<1>1. /\ ldQ' = LdQAfterShift(q3)
      /\ ldVal' = IF Returning(vals) THEN ReturnValue(vals) ELSE ldVal
  BY DEF Iterate, Loads
<1>2. /\ ldQ \in [1 .. LdQSize -> LdEntry] /\ ldQ[1] \in LdEntry /\ LdQSize \in Nat
      /\ 1 \in 1 .. LdQSize /\ LdQSize \in 1 .. LdQSize
  BY QueueHeads, QueueAssumption DEF IInv, TypeOK
\* The stages, entry by entry.
<1>3. /\ head.valid = ~PipeSucc(vals) /\ head.valValid = ~PipeSucc(vals)
      /\ head.isSafe = ldQ[1].isSafe /\ head.id = ldQ[1].id
  BY <1>2 DEF LdEntry
<1>4. /\ \A m \in 1 .. LdQSize : q1[m] = IF m = 1 /\ Returning(vals) THEN head ELSE ldQ[m]
      /\ DOMAIN q1 = 1 .. LdQSize
  BY <1>2 DEF LdQAfterReturn
<1>5. q1 \in [1 .. LdQSize -> LdEntry] /\ q2 \in [1 .. LdQSize -> LdEntry]
  <2>1. head \in LdEntry
    <3>1. PipeSucc(vals) \in BOOLEAN
      BY DEF PipeSucc, Returning
    <3>2. QED
      BY <1>2, <3>1 DEF LdEntry
  <2>2. q1 \in [1 .. LdQSize -> LdEntry]
    BY <1>2, <2>1 DEF LdQAfterReturn
  <2>. HIDE DEF q1
  <2>3. CASE LdReqTaken(q1, ldRdy)
    <3>1. Head(ldReqPipe) \in LdReq
      BY <2>3 DEF LdReqTaken, IInv, TypeOK
    <3>2. q1[LdQSize] \in LdEntry
      BY <1>2, <2>2
    <3>. DEFINE r == Head(ldReqPipe)
                e == [q1[LdQSize] EXCEPT !.addr = r.addr, !.tag = r.tag, !.valid = TRUE,
                                         !.port = r.port, !.id = r.id]
    <3>3. e \in LdEntry
      BY <3>1, <3>2 DEF LdEntry, LdReq
    <3>4. q2 = [q1 EXCEPT ![LdQSize] = e]
      BY <2>3 DEF LdQAfterRequest
    <3>5. QED
      BY <2>2, <3>3, <3>4
  <2>4. CASE ~LdReqTaken(q1, ldRdy)
    BY <2>2, <2>4 DEF LdQAfterRequest
  <2>5. QED
    BY <2>2, <2>3, <2>4
<1>. HIDE DEF head
<1>6. \A m \in 1 .. LdQSize :
        q2[m] = q1[m] \/ (LdReqTaken(q1, ldRdy) /\ q2[m].id = Head(ldReqPipe).id)
  <2>. HIDE DEF q1
  <2>1. CASE LdReqTaken(q1, ldRdy)
    BY <1>2, <1>5, <2>1 DEF LdQAfterRequest, LdEntry
  <2>2. CASE ~LdReqTaken(q1, ldRdy)
    BY <2>2 DEF LdQAfterRequest
  <2>3. QED
    BY <2>1, <2>2
<1>7. \A m \in 1 .. LdQSize :
        /\ q3[m].valid = q2[m].valid /\ q3[m].id = q2[m].id /\ q3[m].valValid = q2[m].valValid
        /\ q2[m].isSafe => q3[m].isSafe
  <2>. HIDE DEF q2
  <2>1. QED
    BY <1>5 DEF LdQAfterMark, LdEntry
<1>8. PICK m \in 1 .. LdQSize : ldQ'[j] = q3[m]
  <2>1. CASE ldQ'[j] = EmptyLd
    BY <2>1 DEF EmptyLd
  <2>2. CASE ldQ'[j] # EmptyLd
    <3>1. j < LdQSize => j + 1 \in 1 .. LdQSize
      BY <1>2
    <3>. HIDE DEF q3
    <3>2. QED
      BY <1>1, <2>2, <3>1 DEF LdQAfterShift
  <2>3. QED
    BY <2>1, <2>2
\* The entry is the one there was, not the request just taken.
<1>9. q2[m] = q1[m]
  <2>1. SUFFICES ASSUME LdReqTaken(q1, ldRdy), q2[m].id = Head(ldReqPipe).id PROVE FALSE
    BY <1>6
  <2>2. Head(ldReqPipe).id = AcceptedLds + 1
    <3>1. ldReqPipe \in Seq(LdReq) /\ ldReqPipe # <<>>
      BY <2>1 DEF LdReqTaken, IInv, TypeOK
    <3>2. 1 \in 1 .. Len(ldReqPipe) /\ Head(ldReqPipe) = ldReqPipe[1]
      BY <3>1
    <3>. DEFINE Req(k) == [addr |-> prog.loads[k].addr, tag |-> prog.loads[k].tag,
                           port |-> prog.loads[k].port, id |-> k]
    <3>3. ldReqPipe[1].id = AcceptedLds + 1
      <4>1. \A k \in 1 .. Len(ldReqPipe) : ldReqPipe[k] = Req(AcceptedLds + k)
        BY DEF IInv, RequestsInOrder
      <4>2. ldReqPipe[1] = Req(AcceptedLds + 1)
        BY <3>2, <4>1
      <4>3. QED
        BY <4>2
    <3>4. QED
      BY <3>2, <3>3
  <2>3. ldQ[i].id \in returned + 1 .. AcceptedLds
    BY QueuedLoad
  <2>4. ldQ[i].id = AcceptedLds + 1
    BY <1>7, <1>8, <2>1, <2>2
  <2>5. AcceptedLds \in Nat /\ returned \in Nat
    BY InvCounters
  <2>6. QED
    BY <2>3, <2>4, <2>5
<1>. HIDE DEF q1, q2, q3
<1>10. q1[m].valid /\ q1[m].id = ldQ[i].id
  BY <1>7, <1>8, <1>9
<1>11. ldQ[m].valid /\ ldQ[m].id = ldQ[i].id
  <2>1. CASE m = 1 /\ Returning(vals)
    BY <1>3, <1>4, <1>10, <2>1 DEF Returning
  <2>2. CASE ~(m = 1 /\ Returning(vals))
    BY <1>4, <1>10, <2>2
  <2>3. QED
    BY <2>1, <2>2
<1>12. m = i
  BY <1>11, OneEntryPerLoad
<1>13. ldQ[i].isSafe => ldQ'[j].isSafe
  BY <1>3, <1>4, <1>7, <1>8, <1>9, <1>12
<1>14. ASSUME ldQ[i].valValid PROVE ldQ'[j].valValid /\ ldVal' = ldVal
  <2>1. i = 1
    <3>1. i = 1 \/ i \in 2 .. LdQSize
      BY <1>2
    <3>2. QED
      BY <1>14, <3>1 DEF IInv, LoadEntriesWellFormed
  <2>2. CASE Returning(vals)
    <3>1. head.valValid
      BY <1>3, <1>4, <1>10, <1>12, <2>1, <2>2
    <3>2. ReturnValue(vals) = ldVal
      BY <1>14, <2>1 DEF ReturnValue
    <3>3. QED
      BY <1>1, <1>4, <1>7, <1>8, <1>9, <1>12, <2>1, <2>2, <3>1, <3>2
  <2>3. CASE ~Returning(vals)
    BY <1>1, <1>4, <1>7, <1>8, <1>9, <1>12, <1>14, <2>3
  <2>4. QED
    BY <2>2, <2>3
<1>15. QED
  BY <1>13, <1>14

LEMMA StepKeepsLoads ==
  ASSUME IInv, [Next]_vars, NEW i \in 1 .. LdQSize, NEW j \in 1 .. LdQSize
  PROVE  KeepsLoad(i, j)
<1>1. CASE Agu \/ Cu \/ UNCHANGED vars
  <2>1. ldQ' = ldQ /\ ldVal' = ldVal
    BY <1>1 DEF Agu, Cu, AguSendLoad, CanSendLoad, AguSendStore, CanSendStore, CuReadLoad, CanReadLoad, CuWriteStore, CanWriteStore, CuEnd, CanEnd, vars, lsqVars
  <2>2. QED
    BY <2>1, OneEntryPerLoad DEF KeepsLoad
<1>2. CASE Lsq
  BY <1>2, IterateKeepsLoads DEF Lsq
<1>3. QED
  BY <1>1, <1>2 DEF Next

(* Once a load is safe it stays safe, and a value latched because the      *)
(* client's pipe was full is the one that is sent, whatever arrives and    *)
(* wherever the shifts move the load in between.                           *)
THEOREM LatchedValuesStay == Spec => LatchedValueIsKept
<1>1. IInv /\ [Next]_vars =>
        \A i, j \in 1 .. LdQSize :
          ldQ[i].valid /\ ldQ'[j].valid /\ ldQ[i].id = ldQ'[j].id =>
            /\ ldQ[i].isSafe => ldQ'[j].isSafe
            /\ ldQ[i].valValid => ldQ'[j].valValid /\ ldVal' = ldVal
  BY StepKeepsLoads DEF KeepsLoad
<1>2. QED
  BY <1>1, InvariantHolds, PTL DEF Spec, LatchedValueIsKept

==============================================================================
