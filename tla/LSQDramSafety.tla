---------------------------- MODULE LSQDramSafety ----------------------------
(***************************************************************************)
(* The off-chip load-store queue keeps program order, although its store   *)
(* port, its load ports and its queue are not synchronised: IInv is        *)
(* inductive.  One lemma per action; the store stage and the load stage of *)
(* the queue have one per part of the invariant that they disturb.         *)
(***************************************************************************)
EXTENDS LSQDramProofs

USE DEF LdPorts, StPorts, Addr, QAddr, InvalidAddr

------------------------------------------------------------------------------
(* What a step that leaves a part of the state alone preserves. *)

LEMMA Untouched ==
  ASSUME IInv, UNCHANGED prog
  PROVE  /\ UNCHANGED <<got, cuSt, arrived>> => CuInOrder'
         /\ UNCHANGED <<aguSt, stReqPipe>> => Accepted' = Accepted
         /\ UNCHANGED <<aguSt, stReqPipe, lastStReqTag>> => StoreRequestsInOrder'
         /\ UNCHANGED <<aguSt, stReqPipe, stQ, arrived>> => StoreQueueHoldsPending'
         /\ UNCHANGED <<cuSt, stValPipe, valueVars>> => StoreValuesPaired'
         /\ UNCHANGED <<commitQ, arrived>> => CommitQueueIsRecent'
         /\ UNCHANGED <<stPortPipe, commitQ, arrived>> => StorePortInOrder'
         /\ UNCHANGED <<stPortPipe, data, arrived>> => MemoryIsProgramPrefix'
         /\ UNCHANGED <<got, aguLd, ldValPipe, selPipe, ldQ, ldReqPipe>> => LoadsInOrder'
         /\ UNCHANGED <<selPipe, bypassPipe, memValPipe, addrPipe>> => RoutesInOrder'
         /\ UNCHANGED <<ldReqPipe, ldQ, addrPipe>> => RequestsMatchLoads'
         /\ UNCHANGED <<ldQ, aguSt, stReqPipe, arrived>> => SafeLoadHasNoHazard'
         /\ UNCHANGED <<addrPipe, arrived>> => FetchedLoadsAreClear'
         /\ UNCHANGED <<addrPipe, stPortPipe>> => MemoryReadsAreSettled'
         /\ UNCHANGED <<ldQ, stPortPipe, stage>> => SafeLoadsAreReady'
         /\ UNCHANGED <<bypassPipe, memValPipe, ldValPipe>> => LoadValuesCorrect'
         /\ UNCHANGED got => LoadsReturnProgramOrder'
<1>1. UNCHANGED <<got, cuSt, arrived>> => CuInOrder'
  BY DEF IInv, CuInOrder
<1>2. UNCHANGED <<aguSt, stReqPipe>> => Accepted' = Accepted
  BY DEF Accepted
<1>3. UNCHANGED <<aguSt, stReqPipe, lastStReqTag>> => StoreRequestsInOrder'
  BY DEF IInv, StoreRequestsInOrder, Accepted
<1>4. UNCHANGED <<aguSt, stReqPipe, stQ, arrived>> => StoreQueueHoldsPending'
  BY DEF IInv, StoreQueueHoldsPending, HoldsStores, Accepted
<1>5. UNCHANGED <<cuSt, stValPipe, valueVars>> => StoreValuesPaired'
  BY DEF IInv, StoreValuesPaired, GoodStVal, valueVars
<1>6. UNCHANGED <<commitQ, arrived>> => CommitQueueIsRecent'
  BY DEF IInv, CommitQueueIsRecent, IsWrite
<1>7. UNCHANGED <<stPortPipe, commitQ, arrived>> => StorePortInOrder'
  BY DEF IInv, StorePortInOrder, IsWrite, Remembered
<1>8. UNCHANGED <<stPortPipe, data, arrived>> => MemoryIsProgramPrefix'
  <2>. SUFFICES ASSUME UNCHANGED <<stPortPipe, data, arrived>> PROVE MemoryIsProgramPrefix'
    OBVIOUS
  <2>1. ASSUME NEW a \in Addr PROVE Committed(a)' = Committed(a)
    BY DEF Committed, Issued
  <2>2. QED
    BY <2>1 DEF IInv, MemoryIsProgramPrefix
<1>9. UNCHANGED <<got, aguLd, ldValPipe, selPipe, ldQ, ldReqPipe>> => LoadsInOrder'
  <2>. SUFFICES ASSUME UNCHANGED <<got, aguLd, ldValPipe, selPipe, ldQ, ldReqPipe>>
                PROVE  LoadsInOrder'
    OBVIOUS
  <2>1. ASSUME NEW k \in LdPorts, NEW r, NEW i, NEW a, LoadsHeld(k, r, i, a)
        PROVE  LoadsHeld(k, r, i, a)'
    BY <2>1 DEF LoadsHeld, Ascending, Ids, QueueAscending, QueueIds, PortLoads
  <2>2. QED
    BY <2>1 DEF IInv, LoadsInOrder
<1>10. UNCHANGED <<selPipe, bypassPipe, memValPipe, addrPipe>> => RoutesInOrder'
  <2>. SUFFICES ASSUME UNCHANGED <<selPipe, bypassPipe, memValPipe, addrPipe>>, NEW k \in LdPorts
                PROVE  Routes(selPipe[k], bypassPipe[k], memValPipe[k], addrPipe[k])'
    BY DEF RoutesInOrder
  <2>1. Routes(selPipe[k], bypassPipe[k], memValPipe[k], addrPipe[k])
    BY DEF IInv, RoutesInOrder
  <2>2. /\ Ascending(bypassPipe[k])' = Ascending(bypassPipe[k])
        /\ Ascending(memValPipe[k])' = Ascending(memValPipe[k])
        /\ Ascending(addrPipe[k])' = Ascending(addrPipe[k])
        /\ Ids(bypassPipe[k])' = Ids(bypassPipe[k])
        /\ Ids(memValPipe[k])' = Ids(memValPipe[k])
        /\ Ids(addrPipe[k])' = Ids(addrPipe[k])
        /\ Selected(selPipe[k], TRUE)' = Selected(selPipe[k], TRUE)
        /\ Selected(selPipe[k], FALSE)' = Selected(selPipe[k], FALSE)
    BY DEF Ascending, Ids, Selected
  <2>3. QED
    BY <2>1, <2>2 DEF Routes
<1>11. UNCHANGED <<ldReqPipe, ldQ, addrPipe>> => RequestsMatchLoads'
  BY DEF IInv, RequestsMatchLoads, IsRequest
<1>12. UNCHANGED <<ldQ, aguSt, stReqPipe, arrived>> => SafeLoadHasNoHazard'
  BY DEF IInv, SafeLoadHasNoHazard, Accepted
<1>13. UNCHANGED <<addrPipe, arrived>> => FetchedLoadsAreClear'
  BY DEF IInv, FetchedLoadsAreClear, Clear
<1>14. UNCHANGED <<addrPipe, stPortPipe>> => MemoryReadsAreSettled'
  BY DEF IInv, MemoryReadsAreSettled
<1>15. UNCHANGED <<ldQ, stPortPipe, stage>> => SafeLoadsAreReady'
  BY DEF IInv, SafeLoadsAreReady, ReadyToIssue, Upcoming
<1>16. UNCHANGED <<bypassPipe, memValPipe, ldValPipe>> => LoadValuesCorrect'
  BY DEF IInv, LoadValuesCorrect, ValuesCorrect
<1>17. UNCHANGED got => LoadsReturnProgramOrder'
  BY DEF IInv, LoadsReturnProgramOrder
<1>18. QED
  BY <1>1, <1>2, <1>3, <1>4, <1>5, <1>6, <1>7, <1>8, <1>9, <1>10, <1>11, <1>12, <1>13,
     <1>14, <1>15, <1>16, <1>17

------------------------------------------------------------------------------
(* Sequences of tokens that carry load ids. *)

LEMMA TailElements ==
  ASSUME NEW S, NEW s \in Seq(S), s # <<>>
  PROVE  /\ Tail(s) \in Seq(S) /\ Len(Tail(s)) = Len(s) - 1 /\ Len(s) \in Nat /\ Len(s) >= 1
         /\ \A i \in 1 .. Len(Tail(s)) : Tail(s)[i] = s[i + 1] /\ i + 1 \in 1 .. Len(s)
         /\ Head(s) = s[1]
BY HeadTailProperties

LEMMA AppendElements ==
  ASSUME NEW S, NEW s \in Seq(S), NEW x \in S
  PROVE  /\ Append(s, x) \in Seq(S) /\ Len(Append(s, x)) = Len(s) + 1 /\ Len(s) \in Nat
         /\ \A i \in 1 .. Len(s) : Append(s, x)[i] = s[i]
         /\ Append(s, x)[Len(s) + 1] = x
BY AppendProperties

LEMMA IdsTail ==
  ASSUME NEW S, NEW s \in Seq(S), s # <<>>, \A i \in 1 .. Len(s) : s[i].id \in Nat, Ascending(s)
  PROVE  /\ Ascending(Tail(s)) /\ Head(s).id \in Ids(s) /\ Head(s).id \in Nat
         /\ Ids(Tail(s)) = Ids(s) \ {Head(s).id}
         /\ \A l \in Ids(s) : Head(s).id <= l
<1>. DEFINE t == Tail(s)
<1>1. /\ t \in Seq(S) /\ Len(t) = Len(s) - 1 /\ Len(s) \in Nat /\ Len(s) >= 1
      /\ \A i \in 1 .. Len(t) : t[i] = s[i + 1] /\ i + 1 \in 1 .. Len(s)
      /\ Head(s) = s[1]
  BY TailElements
<1>. HIDE DEF t
<1>2. 1 \in 1 .. Len(s) /\ \A i \in 1 .. Len(s) : i = 1 \/ (1 < i /\ i - 1 \in 1 .. Len(t) /\ t[i - 1] = s[i])
  <2>1. ASSUME NEW i \in 1 .. Len(s), i # 1 PROVE 1 < i /\ i - 1 \in 1 .. Len(t) /\ t[i - 1] = s[i]
    <3>1. i - 1 \in 1 .. Len(t) /\ (i - 1) + 1 = i /\ 1 < i
      BY <1>1, <2>1
    <3>2. QED
      BY <1>1, <3>1
  <2>2. QED
    BY <1>1, <2>1
<1>3. \A i \in 1 .. Len(s) : i # 1 => s[1].id < s[i].id
  BY <1>2 DEF Ascending
<1>4. Ascending(t)
  <2>1. ASSUME NEW i \in 1 .. Len(t), NEW j \in 1 .. Len(t), i < j PROVE t[i].id < t[j].id
    <3>1. i + 1 \in 1 .. Len(s) /\ j + 1 \in 1 .. Len(s) /\ i + 1 < j + 1
      BY <1>1, <2>1
    <3>2. QED
      BY <1>1, <3>1 DEF Ascending
  <2>2. QED
    BY <2>1 DEF Ascending
<1>5. ASSUME NEW l \in Ids(s) PROVE l = s[1].id \/ l \in Ids(t)
  BY <1>2 DEF Ids
<1>6. ASSUME NEW l \in Ids(t) PROVE l \in Ids(s) /\ l # s[1].id
  <2>1. PICK i \in 1 .. Len(t) : l = t[i].id
    BY DEF Ids
  <2>2. i + 1 \in 1 .. Len(s) /\ t[i] = s[i + 1] /\ i + 1 # 1
    BY <1>1
  <2>3. s[1].id < s[i + 1].id /\ s[1].id \in Nat
    BY <1>2, <1>3, <2>2
  <2>4. QED
    BY <2>1, <2>2, <2>3 DEF Ids
<1>7. \A l \in Ids(s) : s[1].id <= l
  BY <1>2, <1>3 DEF Ids
<1>8. s[1].id \in Ids(s) /\ s[1].id \in Nat
  BY <1>2 DEF Ids
<1>9. Ids(t) = Ids(s) \ {s[1].id}
  BY <1>5, <1>6
<1>10. QED
  BY <1>1, <1>4, <1>7, <1>8, <1>9 DEF t

LEMMA IdsAppend ==
  ASSUME NEW S, NEW s \in Seq(S), NEW x \in S, Ascending(s), \A l \in Ids(s) : l < x.id
  PROVE  /\ Ascending(Append(s, x))
         /\ Ids(Append(s, x)) = Ids(s) \cup {x.id}
<1>. DEFINE t == Append(s, x)
<1>1. /\ Len(t) = Len(s) + 1 /\ Len(s) \in Nat
      /\ \A i \in 1 .. Len(s) : t[i] = s[i]
      /\ t[Len(s) + 1] = x
  BY AppendElements
<1>. HIDE DEF t
<1>2. \A i \in 1 .. Len(t) : i \in 1 .. Len(s) \/ i = Len(s) + 1
  BY <1>1
<1>3. Len(s) + 1 \in 1 .. Len(t) /\ \A i \in 1 .. Len(s) : i \in 1 .. Len(t)
  BY <1>1
<1>4. Ascending(t)
  <2>1. ASSUME NEW i \in 1 .. Len(t), NEW j \in 1 .. Len(t), i < j PROVE t[i].id < t[j].id
    <3>1. i \in 1 .. Len(s)
      BY <1>1, <2>1
    <3>2. CASE j \in 1 .. Len(s)
      BY <1>1, <2>1, <3>1, <3>2 DEF Ascending
    <3>3. CASE j = Len(s) + 1
      BY <1>1, <3>1, <3>3 DEF Ids
    <3>4. QED
      BY <1>2, <3>2, <3>3
  <2>2. QED
    BY <2>1 DEF Ascending
<1>5. Ids(t) = Ids(s) \cup {x.id}
  <2>1. ASSUME NEW l \in Ids(t) PROVE l \in Ids(s) \cup {x.id}
    <3>1. PICK i \in 1 .. Len(t) : l = t[i].id
      BY DEF Ids
    <3>2. QED
      BY <1>1, <1>2, <3>1 DEF Ids
  <2>2. ASSUME NEW l \in Ids(s) \cup {x.id} PROVE l \in Ids(t)
    BY <1>1, <1>3 DEF Ids
  <2>3. QED
    BY <2>1, <2>2
<1>6. QED
  BY <1>4, <1>5 DEF t

LEMMA SelectedTail ==
  ASSUME NEW s \in Seq(Selection), s # <<>>, Ascending(s), NEW b \in BOOLEAN
  PROVE  Selected(Tail(s), b) =
           IF Head(s).bypass = b THEN Selected(s, b) \ {Head(s).id} ELSE Selected(s, b)
<1>. DEFINE t == Tail(s)
<1>1. /\ Len(t) = Len(s) - 1 /\ Len(s) \in Nat /\ Len(s) >= 1
      /\ \A i \in 1 .. Len(t) : t[i] = s[i + 1] /\ i + 1 \in 1 .. Len(s)
      /\ Head(s) = s[1]
  BY TailElements
<1>. HIDE DEF t
<1>2. 1 \in 1 .. Len(s) /\ \A i \in 1 .. Len(s) : i = 1 \/ (1 < i /\ i - 1 \in 1 .. Len(t) /\ t[i - 1] = s[i])
  <2>1. ASSUME NEW i \in 1 .. Len(s), i # 1 PROVE 1 < i /\ i - 1 \in 1 .. Len(t) /\ t[i - 1] = s[i]
    <3>1. i - 1 \in 1 .. Len(t) /\ (i - 1) + 1 = i /\ 1 < i
      BY <1>1, <2>1
    <3>2. QED
      BY <1>1, <3>1
  <2>2. QED
    BY <1>1, <2>1
<1>3. \A i \in 1 .. Len(s) : i # 1 => s[1].id # s[i].id
  <2>1. ASSUME NEW i \in 1 .. Len(s), i # 1 PROVE s[1].id # s[i].id
    <3>1. s[1].id < s[i].id
      BY <1>2, <2>1 DEF Ascending
    <3>2. s[1] \in Selection /\ s[i] \in Selection
      BY <1>2
    <3>3. s[1].id \in Nat /\ s[i].id \in Nat
      BY <3>2 DEF Selection
    <3>4. QED
      BY <3>1, <3>3
  <2>2. QED
    BY <2>1
<1>4. ASSUME NEW l \in Selected(s, b) PROVE (s[1].bypass = b /\ l = s[1].id) \/ l \in Selected(t, b)
  BY <1>2 DEF Selected
<1>5. ASSUME NEW l \in Selected(t, b) PROVE l \in Selected(s, b) /\ l # s[1].id
  <2>1. PICK i \in 1 .. Len(t) : l = t[i].id /\ t[i].bypass = b
    BY DEF Selected
  <2>2. i + 1 \in 1 .. Len(s) /\ t[i] = s[i + 1] /\ i + 1 # 1
    BY <1>1
  <2>3. QED
    BY <1>3, <2>1, <2>2 DEF Selected
<1>6. QED
  BY <1>1, <1>4, <1>5 DEF t

LEMMA SelectedAppend ==
  ASSUME NEW s \in Seq(Selection), NEW x \in Selection, NEW b \in BOOLEAN
  PROVE  Selected(Append(s, x), b) =
           IF x.bypass = b THEN Selected(s, b) \cup {x.id} ELSE Selected(s, b)
<1>. DEFINE t == Append(s, x)
<1>1. /\ Len(t) = Len(s) + 1 /\ Len(s) \in Nat
      /\ \A i \in 1 .. Len(s) : t[i] = s[i]
      /\ t[Len(s) + 1] = x
  BY AppendElements
<1>. HIDE DEF t
<1>2. \A i \in 1 .. Len(t) : i \in 1 .. Len(s) \/ i = Len(s) + 1
  BY <1>1
<1>3. Len(s) + 1 \in 1 .. Len(t) /\ \A i \in 1 .. Len(s) : i \in 1 .. Len(t)
  BY <1>1
<1>4. ASSUME NEW l \in Selected(t, b) PROVE l \in Selected(s, b) \/ (x.bypass = b /\ l = x.id)
  <2>1. PICK i \in 1 .. Len(t) : l = t[i].id /\ t[i].bypass = b
    BY DEF Selected
  <2>2. QED
    BY <1>1, <1>2, <2>1 DEF Selected
<1>5. ASSUME NEW l, l \in Selected(s, b) \/ (x.bypass = b /\ l = x.id) PROVE l \in Selected(t, b)
  <2>1. CASE l \in Selected(s, b)
    <3>1. PICK i \in 1 .. Len(s) : l = s[i].id /\ s[i].bypass = b
      BY <2>1 DEF Selected
    <3>2. QED
      BY <1>1, <1>3, <3>1 DEF Selected
  <2>2. CASE x.bypass = b /\ l = x.id
    BY <1>1, <1>3, <2>2 DEF Selected
  <2>3. QED
    BY <1>5, <2>1, <2>2
<1>6. QED
  BY <1>4, <1>5 DEF t

(* The oldest load of a stretch moves to the end of the stretch before it. *)
IsOldest(l, k, lo, hi) ==
  l \in PortLoads(k, lo, hi) /\ \A m \in PortLoads(k, lo, hi) : l <= m

LEMMA OldestIs ==
  ASSUME NEW k, NEW lo \in Nat, NEW hi \in Nat, NEW l, IsOldest(l, k, lo, hi)
  PROVE  l \in Nat /\ lo < l /\ l <= hi /\ prog.loads[l].port = k
<1>1. l \in lo + 1 .. hi /\ prog.loads[l].port = k
  BY DEF PortLoads, IsOldest
<1>2. QED
  BY <1>1

LEMMA OldestLeaves ==
  ASSUME NEW k, NEW lo \in Nat, NEW hi \in Nat, NEW l, IsOldest(l, k, lo, hi)
  PROVE  PortLoads(k, l, hi) = PortLoads(k, lo, hi) \ {l}
<1>1. l \in Nat /\ lo < l
  BY OldestIs
<1>2. ASSUME NEW m \in PortLoads(k, l, hi) PROVE m \in PortLoads(k, lo, hi) /\ m # l
  BY <1>1 DEF PortLoads
<1>3. ASSUME NEW m \in PortLoads(k, lo, hi), m # l PROVE m \in PortLoads(k, l, hi)
  <2>1. l <= m /\ m \in lo + 1 .. hi /\ prog.loads[m].port = k
    BY DEF PortLoads, IsOldest
  <2>2. m \in l + 1 .. hi
    BY <1>1, <1>3, <2>1
  <2>3. QED
    BY <2>1, <2>2 DEF PortLoads
<1>4. QED
  BY <1>2, <1>3

LEMMA OldestEnters ==
  ASSUME NEW k, NEW b \in Nat, NEW lo \in Nat, NEW hi \in Nat, b <= lo, lo <= hi,
         NEW l, IsOldest(l, k, lo, hi)
  PROVE  PortLoads(k, b, l) = PortLoads(k, b, lo) \cup {l} /\ \A m \in PortLoads(k, b, lo) : m < l
<1>1. l \in Nat /\ lo < l /\ l <= hi /\ prog.loads[l].port = k
  BY OldestIs
<1>2. ASSUME NEW m \in PortLoads(k, b, l), m # l PROVE m \in PortLoads(k, b, lo)
  <2>1. m \in b + 1 .. l /\ prog.loads[m].port = k
    BY DEF PortLoads
  <2>2. ASSUME m \in lo + 1 .. hi PROVE FALSE
    <3>1. l <= m
      BY <2>1, <2>2 DEF PortLoads, IsOldest
    <3>2. QED
      BY <1>1, <1>2, <2>1, <3>1
  <2>3. m \in b + 1 .. lo
    BY <1>1, <2>1, <2>2
  <2>4. QED
    BY <2>1, <2>3 DEF PortLoads
<1>3. ASSUME NEW m \in PortLoads(k, b, lo) PROVE m \in PortLoads(k, b, l) /\ m < l
  BY <1>1 DEF PortLoads
<1>4. l \in PortLoads(k, b, l)
  BY <1>1 DEF PortLoads
<1>5. QED
  BY <1>2, <1>3, <1>4

------------------------------------------------------------------------------
(* The initial states. *)

LEMMA InitInv == Init => IInv
<1>. SUFFICES ASSUME Init PROVE IInv
  OBVIOUS
<1>1. TypeOK
  BY InitTypeOK
<1>2. /\ Len(prog.stores) \in Nat /\ Len(prog.loads) \in Nat
      /\ aguSt = 0 /\ aguLd = 0 /\ cuSt = 0 /\ arrived = 0 /\ lastStReqTag = 0
      /\ Len(got) = 0 /\ Len(stReqPipe) = 0 /\ Accepted = 0
  <2>1. Len(prog.stores) \in Nat /\ Len(prog.loads) \in Nat
    BY ProgramType DEF Init
  <2>2. aguSt = 0 /\ aguLd = 0 /\ cuSt = 0 /\ arrived = 0 /\ lastStReqTag = 0
    BY DEF Init
  <2>3. Len(got) = 0 /\ Len(stReqPipe) = 0
    BY DEF Init
  <2>4. QED
    BY <2>1, <2>2, <2>3 DEF Accepted
<1>3. CuInOrder
  <2>1. Len(prog.loads) > 0 => prog.loads[1].tag >= 0
    <3>1. Len(prog.loads) > 0 => prog.loads[1].tag \in 0 .. Len(prog.stores)
      BY <1>1, <1>2, ProgOps
    <3>2. QED
      BY <1>2, <3>1
  <2>2. QED
    BY <1>2, <2>1 DEF CuInOrder
<1>4. StoreRequestsInOrder
  BY <1>2 DEF StoreRequestsInOrder
<1>5. StoreQueueHoldsPending
  <2>1. \A i \in 1 .. StQSize : ~stQ[i].valid /\ stQ[i].addr = InvalidAddr
    BY DEF Init, EmptySt
  <2>2. QED
    BY <1>2, <2>1 DEF StoreQueueHoldsPending, HoldsStores
<1>6. StoreValuesPaired
  <2>1. \A k \in StPorts : stValPipe[k] = <<>> /\ ~stValReadSucc[k]
    BY DEF Init
  <2>2. ~ValueMux => 0 \in StPorts
    BY SizesAssumption
  <2>3. nextStValTag = arrived + 1
    BY <1>2 DEF Init
  <2>4. QED
    BY <1>2, <2>1, <2>2, <2>3 DEF StoreValuesPaired
<1>7. CommitQueueIsRecent
  BY DEF Init, NoCommit, CommitQueueIsRecent
<1>8. StorePortInOrder
  <2>1. Len(stPortPipe) = 0
    BY DEF Init
  <2>2. QED
    BY <2>1 DEF StorePortInOrder
<1>9. MemoryIsProgramPrefix
  <2>1. \A a \in Addr : Committed(a) = 0
    BY DEF Init, Committed, Issued
  <2>2. QED
    BY <1>2, <2>1 DEF MemoryIsProgramPrefix, IsLatest
<1>10. \A k \in LdPorts : /\ ldReqPipe[k] = <<>> /\ ldValPipe[k] = <<>> /\ selPipe[k] = <<>>
                          /\ addrPipe[k] = <<>> /\ bypassPipe[k] = <<>> /\ memValPipe[k] = <<>>
                          /\ \A i \in 1 .. LdQSize : ~ldQ[k][i].search /\ ~ldQ[k][i].isSafe
  BY DEF Init, EmptyLd
<1>11. LoadsInOrder
  <2>1. ASSUME NEW k \in LdPorts PROVE LoadsHeld(k, 0, 0, 0)
    <3>1. PortLoads(k, 0, 0) = {}
      BY DEF PortLoads
    <3>2. /\ Ids(ldValPipe[k]) = {} /\ Ids(selPipe[k]) = {} /\ Ids(ldReqPipe[k]) = {}
          /\ Ascending(ldValPipe[k]) /\ Ascending(selPipe[k]) /\ Ascending(ldReqPipe[k])
      BY <1>10 DEF Ids, Ascending
    <3>3. QueueIds(ldQ[k]) = {} /\ QueueAscending(ldQ[k])
      BY <1>10 DEF QueueIds, QueueAscending
    <3>4. QED
      BY <1>2, <3>1, <3>2, <3>3 DEF LoadsHeld
  <2>2. QED
    BY <1>2, <2>1 DEF LoadsInOrder
<1>12. RoutesInOrder
  <2>1. ASSUME NEW k \in LdPorts
        PROVE  /\ Ids(bypassPipe[k]) = {} /\ Ids(memValPipe[k]) = {} /\ Ids(addrPipe[k]) = {}
               /\ Ascending(bypassPipe[k]) /\ Ascending(memValPipe[k]) /\ Ascending(addrPipe[k])
               /\ Selected(selPipe[k], TRUE) = {} /\ Selected(selPipe[k], FALSE) = {}
    BY <1>10 DEF Ids, Ascending, Selected
  <2>2. QED
    BY <2>1 DEF RoutesInOrder, Routes
<1>13. RequestsMatchLoads /\ SafeLoadHasNoHazard /\ FetchedLoadsAreClear
  BY <1>10 DEF RequestsMatchLoads, SafeLoadHasNoHazard, FetchedLoadsAreClear
<1>14. MemoryReadsAreSettled /\ SafeLoadsAreReady /\ LoadValuesCorrect
  BY <1>10 DEF MemoryReadsAreSettled, SafeLoadsAreReady, LoadValuesCorrect, ValuesCorrect
<1>15. LoadsReturnProgramOrder
  BY <1>2 DEF LoadsReturnProgramOrder
<1>16. QED
  BY <1>1, <1>3, <1>4, <1>5, <1>6, <1>7, <1>8, <1>9, <1>11, <1>12, <1>13, <1>14, <1>15 DEF IInv

------------------------------------------------------------------------------
(* The address generation unit. *)

LEMMA AguSendLoadInv == IInv /\ AguSendLoad => IInv'
<1>. SUFFICES ASSUME IInv, AguSendLoad PROVE IInv'
  OBVIOUS
<1>. DEFINE n == aguLd + 1
            op == prog.loads[n]
            p == op.port
            r == [addr |-> op.addr, tag |-> op.tag, id |-> n]
<1>1. TypeOK'
  BY AguType DEF IInv, Agu
<1>2. /\ UNCHANGED <<prog, aguSt, cuVars, stReqPipe, stValPipe, ldValPipe, endPipe, lsqVars, portVars>>
      /\ aguLd < Len(prog.loads) /\ aguLd' = n
      /\ ldReqPipe' = [ldReqPipe EXCEPT ![p] = Append(@, r)]
  BY DEF AguSendLoad, CanSendLoad, AtLoad
<1>3. aguLd \in Nat /\ Len(prog.loads) \in Nat /\ Len(got) \in Nat
  BY InvCounters
<1>4. n \in 1 .. Len(prog.loads)
  BY <1>2, <1>3
<1>5. op.addr \in Addr /\ p \in LdPorts /\ op.tag \in Nat
  <2>1. TypeOK /\ Len(prog.stores) \in Nat
    BY InvCounters DEF IInv
  <2>. HIDE DEF n
  <2>2. op.addr \in Addr /\ p \in LdPorts /\ op.tag \in 0 .. Len(prog.stores)
    BY <1>4, <2>1, ProgOps
  <2>3. QED
    BY <2>1, <2>2
<1>6. r \in LdReq
  BY <1>3, <1>5 DEF LdReq
<1>7. ldReqPipe \in [LdPorts -> Seq(LdReq)]
  BY DEF IInv, TypeOK
<1>8. r.id = n /\ r.addr = op.addr /\ r.tag = op.tag
  OBVIOUS
<1>. HIDE DEF r, p
<1>9. /\ ldReqPipe'[p] = Append(ldReqPipe[p], r)
      /\ \A j \in LdPorts : j # p => ldReqPipe'[j] = ldReqPipe[j]
  BY <1>2, <1>5, <1>6, <1>7, AppendAt
<1>10. LoadsInOrder'
  <2>1. ASSUME NEW k \in LdPorts PROVE (\E q, i, a \in 0 .. aguLd : LoadsHeld(k, q, i, a))'
    <3>1. PICK q \in 0 .. aguLd, i \in 0 .. aguLd, a \in 0 .. aguLd : LoadsHeld(k, q, i, a)
      BY DEF IInv, LoadsInOrder
    <3>2. /\ Len(got) <= q /\ q <= i /\ i <= a /\ a <= aguLd
          /\ Ascending(ldValPipe[k]) /\ Ids(ldValPipe[k]) = PortLoads(k, Len(got), q)
          /\ Ascending(selPipe[k]) /\ Ids(selPipe[k]) = PortLoads(k, q, i)
          /\ QueueAscending(ldQ[k]) /\ QueueIds(ldQ[k]) = PortLoads(k, i, a)
          /\ Ascending(ldReqPipe[k]) /\ Ids(ldReqPipe[k]) = PortLoads(k, a, aguLd)
      BY <3>1 DEF LoadsHeld
    <3>3. PortLoads(k, a, n) = PortLoads(k, a, aguLd) \cup (IF k = p THEN {n} ELSE {})
      BY <1>3, <3>1 DEF PortLoads, p
    <3>4. Ascending(ldReqPipe'[k]) /\ Ids(ldReqPipe'[k]) = PortLoads(k, a, n)
      <4>1. CASE k = p
        <5>1. \A l \in Ids(ldReqPipe[k]) : l < r.id
          BY <1>3, <1>8, <3>1, <3>2 DEF PortLoads
        <5>2. Ascending(Append(ldReqPipe[k], r)) /\ Ids(Append(ldReqPipe[k], r)) = Ids(ldReqPipe[k]) \cup {r.id}
          BY <1>6, <1>7, <3>2, <5>1, IdsAppend
        <5>3. QED
          BY <1>8, <1>9, <3>2, <3>3, <4>1, <5>2
      <4>2. CASE k # p
        BY <1>9, <3>2, <3>3, <4>2
      <4>3. QED
        BY <4>1, <4>2
    <3>5. LoadsHeld(k, q, i, a)'
      <4>1. a <= n
        BY <1>3, <3>1
      <4>2. UNCHANGED <<prog, got, ldValPipe, selPipe, ldQ>> /\ aguLd' = n
        BY <1>2 DEF cuVars, lsqVars, portVars
      <4>. HIDE DEF n
      <4>3. /\ Ids(ldValPipe[k])' = Ids(ldValPipe[k]) /\ Ids(selPipe[k])' = Ids(selPipe[k])
            /\ Ascending(ldValPipe[k])' = Ascending(ldValPipe[k])
            /\ Ascending(selPipe[k])' = Ascending(selPipe[k])
            /\ QueueAscending(ldQ[k])' = QueueAscending(ldQ[k])
            /\ QueueIds(ldQ[k])' = QueueIds(ldQ[k])
        BY <4>2 DEF Ids, Ascending, QueueAscending, QueueIds
      <4>4. \A lo, hi : PortLoads(k, lo, hi)' = PortLoads(k, lo, hi)
        BY <4>2 DEF PortLoads
      <4>5. /\ Ascending(ldReqPipe[k])' /\ Ids(ldReqPipe[k])' = PortLoads(k, a, n)
        BY <3>4 DEF Ascending, Ids
      <4>6. QED
        BY <3>2, <4>1, <4>2, <4>3, <4>4, <4>5 DEF LoadsHeld, PortLoads
    <3>6. q \in 0 .. aguLd' /\ i \in 0 .. aguLd' /\ a \in 0 .. aguLd'
      BY <1>2, <1>3, <3>1
    <3>7. QED
      BY <3>5, <3>6
  <2>2. QED
    BY <2>1 DEF LoadsInOrder
<1>11. RequestsMatchLoads'
  <2>1. UNCHANGED <<prog, ldQ, addrPipe>>
    BY <1>2 DEF lsqVars, portVars
  <2>2. RequestsMatchLoads
    BY DEF IInv
  <2>3. ASSUME NEW k \in LdPorts, NEW i \in 1 .. Len(ldReqPipe'[k]) PROVE IsRequest(ldReqPipe'[k][i])
    <3>1. CASE k = p
      <4>1. /\ Len(Append(ldReqPipe[k], r)) = Len(ldReqPipe[k]) + 1 /\ Len(ldReqPipe[k]) \in Nat
            /\ \A j \in 1 .. Len(ldReqPipe[k]) : Append(ldReqPipe[k], r)[j] = ldReqPipe[k][j]
            /\ Append(ldReqPipe[k], r)[Len(ldReqPipe[k]) + 1] = r
        BY <1>6, <1>7, AppendElements
      <4>2. i \in 1 .. Len(ldReqPipe[k]) \/ i = Len(ldReqPipe[k]) + 1
        BY <1>9, <3>1, <4>1
      <4>3. IsRequest(r)
        BY <1>8 DEF IsRequest
      <4>4. QED
        BY <1>9, <2>2, <3>1, <4>1, <4>2, <4>3 DEF RequestsMatchLoads
    <3>2. CASE k # p
      BY <1>9, <2>2, <3>2 DEF RequestsMatchLoads
    <3>3. QED
      BY <3>1, <3>2
  <2>4. QED
    BY <2>1, <2>2, <2>3 DEF RequestsMatchLoads, IsRequest
<1>12. QED
  BY <1>1, <1>2, <1>10, <1>11, Untouched DEF IInv, cuVars, lsqVars, storeVars, valueVars, portVars

LEMMA AguSendStoreInv == IInv /\ AguSendStore => IInv'
<1>. SUFFICES ASSUME IInv, AguSendStore PROVE IInv'
  OBVIOUS
<1>. DEFINE r == [addr |-> prog.stores[aguSt + 1].addr, tag |-> aguSt + 1]
<1>1. TypeOK'
  BY AguType DEF IInv, Agu
<1>2. /\ UNCHANGED <<prog, aguLd, cuVars, ldReqPipe, stValPipe, ldValPipe, endPipe, lsqVars, portVars>>
      /\ aguSt < Len(prog.stores) /\ aguSt' = aguSt + 1
      /\ stReqPipe' = Append(stReqPipe, r)
  BY DEF AguSendStore, CanSendStore, AtStore
<1>3. /\ aguSt \in Nat /\ Len(stReqPipe) \in Nat /\ Len(prog.stores) \in Nat
      /\ Accepted \in Nat /\ Accepted + Len(stReqPipe) = aguSt
  BY InvCounters
<1>4. r \in StReq
  <2>1. aguSt + 1 \in 1 .. Len(prog.stores)
    BY <1>2, <1>3
  <2>2. QED
    BY <1>3, <2>1, ProgOps DEF IInv, StReq
<1>5. /\ Len(stReqPipe') = Len(stReqPipe) + 1
      /\ \A i \in 1 .. Len(stReqPipe) : stReqPipe'[i] = stReqPipe[i]
      /\ stReqPipe'[Len(stReqPipe) + 1] = r
  <2>1. stReqPipe \in Seq(StReq)
    BY DEF IInv, TypeOK
  <2>2. QED
    BY <1>2, <1>4, <2>1, AppendElements
<1>6. Accepted' = Accepted
  <2>1. Accepted' = (aguSt + 1) - (Len(stReqPipe) + 1)
    BY <1>2, <1>5 DEF Accepted
  <2>2. QED
    BY <1>3, <2>1
<1>. DEFINE Req(i) == [addr |-> prog.stores[i].addr, tag |-> i]
<1>7. StoreRequestsInOrder'
  <2>1. StoreRequestsInOrder
    BY DEF IInv
  <2>2. ASSUME NEW i \in 1 .. Len(stReqPipe') PROVE stReqPipe'[i] = Req(Accepted + i)
    <3>1. CASE i \in 1 .. Len(stReqPipe)
      BY <1>5, <2>1, <3>1 DEF StoreRequestsInOrder
    <3>2. CASE i = Len(stReqPipe) + 1
      <4>1. Accepted + i = aguSt + 1
        BY <1>3, <3>2
      <4>2. QED
        BY <1>5, <3>2, <4>1
    <3>3. QED
      BY <1>3, <1>5, <3>1, <3>2
  <2>3. Len(stReqPipe') <= aguSt' /\ lastStReqTag' = lastStReqTag
    <3>1. Len(stReqPipe) <= aguSt
      BY <2>1 DEF StoreRequestsInOrder
    <3>2. QED
      BY <1>2, <1>3, <1>5, <3>1 DEF lsqVars, storeVars
  <2>4. QED
    BY <1>2, <1>6, <2>1, <2>2, <2>3 DEF StoreRequestsInOrder
<1>8. StoreQueueHoldsPending' /\ SafeLoadHasNoHazard'
  <2>1. UNCHANGED <<prog, stQ, arrived, ldQ>>
    BY <1>2 DEF lsqVars, storeVars, valueVars
  <2>2. StoreQueueHoldsPending'
    BY <1>6, <2>1 DEF IInv, StoreQueueHoldsPending, HoldsStores
  <2>3. SafeLoadHasNoHazard'
    BY <1>6, <2>1 DEF IInv, SafeLoadHasNoHazard
  <2>4. QED
    BY <2>2, <2>3
<1>9. QED
  BY <1>1, <1>2, <1>7, <1>8, Untouched DEF IInv, cuVars, lsqVars, storeVars, valueVars, portVars

------------------------------------------------------------------------------
(* The compute unit. *)

(* The load the CU reads next is at the head of its value pipe. *)
LEMMA NextLoadValue ==
  ASSUME IInv, CuReadLoad
  PROVE  LET n == Len(got) + 1
             p == prog.loads[n].port
         IN  /\ n \in 1 .. Len(prog.loads) /\ p \in LdPorts /\ n <= aguLd
             /\ ldValPipe[p] # <<>> /\ ldValPipe[p] \in Seq(LdValTok)
             /\ Head(ldValPipe[p]).id = n /\ Head(ldValPipe[p]) = ldValPipe[p][1]
             /\ 1 \in 1 .. Len(ldValPipe[p])
<1>. DEFINE n == Len(got) + 1
            p == prog.loads[n].port
<1>1. Len(got) \in Nat /\ Len(prog.loads) \in Nat /\ aguLd \in Nat
  BY InvCounters
<1>2. Len(got) < Len(prog.loads) /\ ldValPipe[p] # <<>>
  BY DEF CuReadLoad, CanReadLoad, AtLoad
<1>3. n \in 1 .. Len(prog.loads)
  BY <1>1, <1>2
<1>4. p \in LdPorts
  <2>. HIDE DEF n
  <2>1. QED
    BY <1>3, ProgOps DEF IInv
<1>5. ldValPipe[p] \in Seq(LdValTok) /\ \A i \in 1 .. Len(ldValPipe[p]) : ldValPipe[p][i].id \in Nat
  <2>1. ldValPipe[p] \in Seq(LdValTok)
    BY <1>4 DEF IInv, TypeOK
  <2>. HIDE DEF p
  <2>2. \A i \in 1 .. Len(ldValPipe[p]) : ldValPipe[p][i] \in LdValTok
    BY <2>1
  <2>3. QED
    BY <2>1, <2>2 DEF LdValTok
<1>6. PICK r \in 0 .. aguLd : \E i, a \in 0 .. aguLd : LoadsHeld(p, r, i, a)
  BY <1>4 DEF IInv, LoadsInOrder
<1>7. Ascending(ldValPipe[p]) /\ Ids(ldValPipe[p]) = PortLoads(p, Len(got), r)
  BY <1>6 DEF LoadsHeld
<1>8. /\ Head(ldValPipe[p]).id \in Ids(ldValPipe[p])
      /\ \A l \in Ids(ldValPipe[p]) : Head(ldValPipe[p]).id <= l
  <2>. HIDE DEF p
  <2>1. QED
    BY <1>2, <1>5, <1>7, IdsTail
<1>9. Head(ldValPipe[p]).id \in n .. r
  BY <1>7, <1>8 DEF PortLoads
<1>10. n \in PortLoads(p, Len(got), r) /\ n <= aguLd
  BY <1>1, <1>3, <1>6, <1>9 DEF PortLoads
<1>11. Head(ldValPipe[p]).id <= n
  BY <1>7, <1>8, <1>10
<1>12. Head(ldValPipe[p]).id = n
  BY <1>1, <1>9, <1>11
<1>13. Head(ldValPipe[p]) = ldValPipe[p][1] /\ 1 \in 1 .. Len(ldValPipe[p])
  BY <1>2, <1>5
<1>. HIDE DEF p, n
<1>14. QED
  BY <1>2, <1>3, <1>4, <1>5, <1>10, <1>12, <1>13 DEF p, n

(* A stretch of the loads of another port is the same stretch when load n   *)
(* no longer counts.                                                        *)
LEMMA OtherPortCut ==
  ASSUME NEW k, NEW n \in Nat \ {0}, prog.loads[n].port # k,
         NEW lo \in Nat, NEW hi \in Nat, n - 1 <= lo, lo <= hi
  PROVE  LET c(x) == IF x = n - 1 THEN n ELSE x
         IN  /\ PortLoads(k, c(lo), c(hi)) = PortLoads(k, lo, hi)
             /\ n <= c(lo) /\ c(lo) <= c(hi) /\ c(lo) \in Nat /\ c(hi) \in Nat
<1>. DEFINE c(x) == IF x = n - 1 THEN n ELSE x
<1>1. n <= c(lo) /\ c(lo) <= c(hi) /\ c(lo) \in Nat /\ c(hi) \in Nat
  OBVIOUS
<1>2. ASSUME NEW m \in PortLoads(k, c(lo), c(hi)) PROVE m \in PortLoads(k, lo, hi)
  <2>1. m \in c(lo) + 1 .. c(hi) /\ prog.loads[m].port = k /\ m # n
    BY DEF PortLoads
  <2>2. m \in lo + 1 .. hi
    BY <2>1
  <2>3. QED
    BY <2>1, <2>2 DEF PortLoads
<1>3. ASSUME NEW m \in PortLoads(k, lo, hi) PROVE m \in PortLoads(k, c(lo), c(hi))
  <2>1. m \in lo + 1 .. hi /\ prog.loads[m].port = k /\ m # n
    BY DEF PortLoads
  <2>2. m \in c(lo) + 1 .. c(hi)
    BY <2>1
  <2>3. QED
    BY <2>1, <2>2 DEF PortLoads
<1>4. QED
  BY <1>1, <1>2, <1>3

LEMMA CuReadLoadInv == IInv /\ CuReadLoad => IInv'
<1>. SUFFICES ASSUME IInv, CuReadLoad PROVE IInv'
  OBVIOUS
<1>1. PICK n \in Nat, p \in LdPorts : n = Len(got) + 1 /\ p = prog.loads[n].port
  BY NextLoadValue, InvCounters
<1>2. /\ n \in 1 .. Len(prog.loads) /\ n <= aguLd
      /\ ldValPipe[p] # <<>> /\ ldValPipe[p] \in Seq(LdValTok)
      /\ Head(ldValPipe[p]).id = n /\ Head(ldValPipe[p]) = ldValPipe[p][1]
      /\ 1 \in 1 .. Len(ldValPipe[p])
  BY <1>1, NextLoadValue
<1>. DEFINE v == Head(ldValPipe[p])
<1>3. TypeOK'
  BY CuType DEF IInv, Cu
<1>4. /\ UNCHANGED <<prog, aguVars, cuSt, cuEnded, stReqPipe, ldReqPipe, stValPipe, endPipe,
                     lsqVars, portVars>>
      /\ AtLoad(prog, cuSt, Len(got))
      /\ got' = Append(got, v.value)
      /\ ldValPipe' = [ldValPipe EXCEPT ![p] = Tail(@)]
  BY <1>1 DEF CuReadLoad, CanReadLoad
<1>5. /\ Len(got) \in Nat /\ aguLd \in Nat /\ Len(prog.loads) \in Nat /\ cuSt \in Nat /\ arrived <= cuSt
      /\ Len(prog.stores) \in Nat
  BY InvCounters
<1>6. /\ ldValPipe'[p] = Tail(ldValPipe[p])
      /\ \A j \in LdPorts : j # p => ldValPipe'[j] = ldValPipe[j]
  <2>1. ldValPipe \in [LdPorts -> Seq(LdValTok)]
    BY DEF IInv, TypeOK
  <2>2. QED
    BY <1>2, <1>4, <2>1, TailAt
<1>7. /\ Len(got') = n
      /\ \A i \in 1 .. Len(got) : got'[i] = got[i]
      /\ got'[n] = v.value
  <2>1. got \in Seq(Nat) /\ v.value \in Nat
    <3>1. v \in LdValTok
      BY <1>2
    <3>2. QED
      BY <3>1 DEF IInv, TypeOK, LdValTok
  <2>. HIDE DEF v
  <2>2. QED
    BY <1>1, <1>4, <2>1, AppendElements
<1>8. CuInOrder'
  <2>1. ASSUME n < Len(prog.loads) PROVE cuSt <= prog.loads[n + 1].tag
    <3>1. n \in 1 .. Len(prog.loads) /\ n + 1 \in 1 .. Len(prog.loads) /\ n <= n + 1
      BY <1>2, <1>5, <2>1
    <3>2. prog.loads[n].tag = cuSt
      BY <1>1, <1>4 DEF AtLoad
    <3>3. QED
      BY <3>1, <3>2, ProgOps DEF IInv
  <2>2. n <= Len(prog.loads) /\ UNCHANGED <<prog, cuSt, arrived>>
    BY <1>2, <1>4 DEF lsqVars, storeVars, valueVars
  <2>3. QED
    BY <1>5, <1>7, <2>1, <2>2 DEF CuInOrder
<1>9. LoadsReturnProgramOrder'
  <2>1. IsSequentialValue(prog, v.value, n)
    BY <1>2 DEF IInv, LoadValuesCorrect, ValuesCorrect
  <2>2. ASSUME NEW l \in 1 .. Len(got') PROVE IsSequentialValue(prog, got'[l], l)
    <3>1. CASE l = n
      BY <1>7, <2>1, <3>1
    <3>2. CASE l # n
      <4>1. l \in 1 .. Len(got)
        BY <1>1, <1>5, <1>7, <3>2
      <4>2. QED
        BY <1>7, <4>1 DEF IInv, LoadsReturnProgramOrder
    <3>3. QED
      BY <3>1, <3>2
  <2>3. QED
    BY <1>4, <2>2 DEF LoadsReturnProgramOrder
<1>10. LoadValuesCorrect'
  <2>1. UNCHANGED <<prog, bypassPipe, memValPipe>>
    BY <1>4 DEF portVars
  <2>2. ASSUME NEW k \in LdPorts, NEW i \in 1 .. Len(ldValPipe'[k])
        PROVE  IsSequentialValue(prog, ldValPipe'[k][i].value, ldValPipe'[k][i].id)
    <3>1. CASE k = p
      <4>1. ldValPipe'[k] = Tail(ldValPipe[p]) /\ i \in 1 .. Len(Tail(ldValPipe[p]))
        BY <1>6, <3>1
      <4>2. Tail(ldValPipe[p])[i] = ldValPipe[p][i + 1] /\ i + 1 \in 1 .. Len(ldValPipe[p])
        BY <1>2, <4>1, TailElements
      <4>3. QED
        BY <4>1, <4>2 DEF IInv, LoadValuesCorrect, ValuesCorrect
    <3>2. CASE k # p
      BY <1>6, <3>2 DEF IInv, LoadValuesCorrect, ValuesCorrect
    <3>3. QED
      BY <3>1, <3>2
  <2>3. QED
    BY <2>1, <2>2 DEF IInv, LoadValuesCorrect, ValuesCorrect
<1>11. LoadsInOrder'
  <2>0. UNCHANGED <<prog, aguLd, selPipe, ldQ, ldReqPipe>>
    BY <1>4 DEF aguVars, lsqVars, portVars
  <2>1. ASSUME NEW k \in LdPorts PROVE (\E q, i, a \in 0 .. aguLd : LoadsHeld(k, q, i, a))'
    <3>1. PICK q \in 0 .. aguLd, i \in 0 .. aguLd, a \in 0 .. aguLd : LoadsHeld(k, q, i, a)
      BY DEF IInv, LoadsInOrder
    <3>2. /\ Len(got) <= q /\ q <= i /\ i <= a /\ a <= aguLd
          /\ Ascending(ldValPipe[k]) /\ Ids(ldValPipe[k]) = PortLoads(k, Len(got), q)
          /\ Ascending(selPipe[k]) /\ Ids(selPipe[k]) = PortLoads(k, q, i)
          /\ QueueAscending(ldQ[k]) /\ QueueIds(ldQ[k]) = PortLoads(k, i, a)
          /\ Ascending(ldReqPipe[k]) /\ Ids(ldReqPipe[k]) = PortLoads(k, a, aguLd)
      BY <3>1 DEF LoadsHeld
    <3>3. /\ QueueAscending(ldQ[k])' = QueueAscending(ldQ[k]) /\ QueueIds(ldQ[k])' = QueueIds(ldQ[k])
          /\ Ascending(selPipe[k])' = Ascending(selPipe[k]) /\ Ids(selPipe[k])' = Ids(selPipe[k])
          /\ Ascending(ldReqPipe[k])' = Ascending(ldReqPipe[k]) /\ Ids(ldReqPipe[k])' = Ids(ldReqPipe[k])
          /\ \A lo, hi : PortLoads(k, lo, hi)' = PortLoads(k, lo, hi)
      BY <2>0 DEF QueueAscending, QueueIds, Ascending, Ids, PortLoads
    <3>4. CASE k = p
      <4>1. /\ Ascending(Tail(ldValPipe[p])) /\ n \in Ids(ldValPipe[p])
            /\ Ids(Tail(ldValPipe[p])) = Ids(ldValPipe[p]) \ {n}
            /\ \A l \in Ids(ldValPipe[p]) : n <= l
        <5>1. \A j \in 1 .. Len(ldValPipe[p]) : ldValPipe[p][j].id \in Nat
          <6>1. \A j \in 1 .. Len(ldValPipe[p]) : ldValPipe[p][j] \in LdValTok
            BY <1>2
          <6>2. QED
            BY <6>1 DEF LdValTok
        <5>2. QED
          BY <1>2, <3>2, <3>4, <5>1, IdsTail
      <4>2. PortLoads(k, n, q) = PortLoads(k, Len(got), q) \ {n} /\ n <= q
        <5>1. IsOldest(n, k, Len(got), q)
          BY <3>2, <3>4, <4>1 DEF IsOldest
        <5>2. q \in Nat /\ Len(got) \in Nat
          BY <1>5, <3>1
        <5>3. n <= q
          BY <5>1, <5>2, OldestIs
        <5>4. PortLoads(k, n, q) = PortLoads(k, Len(got), q) \ {n}
          BY <5>1, <5>2, OldestLeaves
        <5>5. QED
          BY <5>3, <5>4
      <4>3. Ascending(ldValPipe[k])' /\ Ids(ldValPipe[k])' = PortLoads(k, n, q)
        <5>1. ldValPipe'[k] = Tail(ldValPipe[p])
          BY <1>6, <3>4
        <5>2. Ascending(ldValPipe'[k]) /\ Ids(ldValPipe'[k]) = PortLoads(k, n, q)
          BY <3>2, <3>4, <4>1, <4>2, <5>1
        <5>3. QED
          BY <5>2 DEF Ascending, Ids
      <4>4. LoadsHeld(k, q, i, a)'
        BY <1>7, <2>0, <3>2, <3>3, <4>2, <4>3 DEF LoadsHeld, PortLoads
      <4>5. QED
        BY <2>0, <3>1, <4>4
    <3>5. CASE k # p
      <4>. DEFINE c(x) == IF x = n - 1 THEN n ELSE x
      <4>1. /\ q \in Nat /\ i \in Nat /\ a \in Nat /\ n \in Nat \ {0} /\ n - 1 = Len(got)
            /\ prog.loads[n].port # k
        BY <1>1, <1>2, <1>5, <3>1, <3>5
      <4>2. /\ PortLoads(k, n, c(q)) = PortLoads(k, Len(got), q) /\ n <= c(q)
            /\ PortLoads(k, c(q), c(i)) = PortLoads(k, q, i) /\ c(q) <= c(i)
            /\ PortLoads(k, c(i), c(a)) = PortLoads(k, i, a) /\ c(i) <= c(a)
            /\ PortLoads(k, c(a), c(aguLd)) = PortLoads(k, a, aguLd) /\ c(a) <= c(aguLd)
            /\ c(q) \in Nat /\ c(i) \in Nat /\ c(a) \in Nat
        <5>1. /\ n - 1 <= Len(got) /\ n - 1 <= q /\ n - 1 <= i /\ n - 1 <= a /\ n - 1 <= aguLd
              /\ Len(got) <= q
          BY <1>5, <3>2, <4>1
        <5>2. c(Len(got)) = n
          BY <4>1
        <5>. HIDE DEF c
        <5>3. PortLoads(k, c(Len(got)), c(q)) = PortLoads(k, Len(got), q) /\ c(Len(got)) <= c(q) /\ c(q) \in Nat
          BY <1>5, <4>1, <5>1, OtherPortCut DEF c
        <5>4. /\ PortLoads(k, c(q), c(i)) = PortLoads(k, q, i) /\ c(q) <= c(i) /\ c(i) \in Nat
          BY <1>5, <3>2, <4>1, <5>1, OtherPortCut DEF c
        <5>5. /\ PortLoads(k, c(i), c(a)) = PortLoads(k, i, a) /\ c(i) <= c(a) /\ c(a) \in Nat
          BY <1>5, <3>2, <4>1, <5>1, OtherPortCut DEF c
        <5>6. /\ PortLoads(k, c(a), c(aguLd)) = PortLoads(k, a, aguLd) /\ c(a) <= c(aguLd)
          BY <1>5, <3>2, <4>1, <5>1, OtherPortCut DEF c
        <5>7. QED
          BY <5>2, <5>3, <5>4, <5>5, <5>6
      <4>3. c(aguLd) = aguLd
        BY <1>2, <1>5, <4>1
      <4>4. Ascending(ldValPipe[k])' = Ascending(ldValPipe[k]) /\ Ids(ldValPipe[k])' = Ids(ldValPipe[k])
        BY <1>6, <3>5 DEF Ascending, Ids
      <4>5. PICK q1 \in Nat, i1 \in Nat, a1 \in Nat : q1 = c(q) /\ i1 = c(i) /\ a1 = c(a)
        BY <4>2
      <4>. HIDE DEF c
      <4>6. LoadsHeld(k, q1, i1, a1)'
        BY <1>7, <2>0, <3>2, <3>3, <4>2, <4>3, <4>4, <4>5 DEF LoadsHeld, PortLoads
      <4>7. q1 \in 0 .. aguLd' /\ i1 \in 0 .. aguLd' /\ a1 \in 0 .. aguLd'
        BY <1>5, <2>0, <4>2, <4>3, <4>5
      <4>8. QED
        BY <4>6, <4>7
    <3>6. QED
      BY <3>4, <3>5
  <2>2. QED
    BY <2>1 DEF LoadsInOrder
<1>12. QED
  BY <1>3, <1>4, <1>8, <1>9, <1>10, <1>11, Untouched
     DEF IInv, aguVars, lsqVars, storeVars, valueVars, portVars

LEMMA CuWriteStoreInv == IInv /\ CuWriteStore => IInv'
<1>. SUFFICES ASSUME IInv, CuWriteStore PROVE IInv'
  OBVIOUS
<1>. DEFINE s == cuSt + 1
            k == prog.stores[s].port
            v == [value |-> s, tag |-> s, valid |-> prog.stores[s].ok]
<1>1. TypeOK'
  BY CuType DEF IInv, Cu
<1>2. /\ UNCHANGED <<prog, aguVars, got, cuEnded, stReqPipe, ldReqPipe, ldValPipe, endPipe,
                     lsqVars, portVars>>
      /\ cuSt < Len(prog.stores) /\ ~AtLoad(prog, cuSt, Len(got))
      /\ cuSt' = s
      /\ stValPipe' = [stValPipe EXCEPT ![k] = Append(@, v)]
  BY DEF CuWriteStore, CanWriteStore, AtStore
<1>3. /\ prog' = prog /\ got' = got /\ arrived' = arrived /\ stValRead' = stValRead
      /\ stValReadSucc' = stValReadSucc /\ nextStValTag' = nextStValTag
  BY <1>2 DEF lsqVars, storeVars, valueVars
<1>4. /\ Len(got) \in Nat /\ Len(prog.loads) \in Nat /\ Len(prog.stores) \in Nat
      /\ cuSt \in Nat /\ arrived \in Nat
  BY InvCounters
<1>5. s \in 1 .. Len(prog.stores) /\ s \in 0 .. Len(prog.stores) /\ s \in 1 .. s
  BY <1>2, <1>4
<1>6. k \in StPorts /\ v.tag = s
  <2>1. k \in StPorts
    BY <1>5, ProgOps DEF IInv
  <2>2. QED
    BY <2>1
<1>7. v \in StValTok
  <2>1. s \in Nat
    BY <1>5
  <2>2. prog.stores[s].ok \in BOOLEAN
    BY <1>5, ProgOps DEF IInv
  <2>3. QED
    BY <2>1, <2>2 DEF StValTok
<1>8. stValPipe \in [StPorts -> Seq(StValTok)] /\ stValPipe[k] \in Seq(StValTok)
  BY <1>6 DEF IInv, TypeOK
<1>9. /\ \A j \in StPorts : stValPipe'[j] = IF j = k THEN Append(stValPipe[k], v) ELSE stValPipe[j]
      /\ Len(Append(stValPipe[k], v)) = Len(stValPipe[k]) + 1 /\ Len(stValPipe[k]) \in Nat
      /\ \A i \in 1 .. Len(stValPipe[k]) : Append(stValPipe[k], v)[i] = stValPipe[k][i]
      /\ Append(stValPipe[k], v)[Len(stValPipe[k]) + 1] = v
  <2>1. \A j \in StPorts : stValPipe'[j] = IF j = k THEN Append(stValPipe[k], v) ELSE stValPipe[j]
    BY <1>2, <1>8
  <2>. HIDE DEF v, k
  <2>2. QED
    BY <1>8, <1>7, <2>1, AppendElements
<1>. DEFINE Good(w) == w.value \in 1 .. s /\ w.tag = w.value /\ w.valid = prog.stores[w.value].ok
<1>10. CuInOrder /\ StoreValuesPaired
  BY DEF IInv
<1>11. CuInOrder'
  <2>1. Len(got) < Len(prog.loads) => s <= prog.loads[Len(got) + 1].tag
    <3>1. SUFFICES ASSUME Len(got) < Len(prog.loads)
                   PROVE  s <= prog.loads[Len(got) + 1].tag
      OBVIOUS
    <3>2. cuSt <= prog.loads[Len(got) + 1].tag /\ prog.loads[Len(got) + 1].tag # cuSt
      BY <1>2, <1>10, <3>1 DEF CuInOrder, AtLoad
    <3>3. prog.loads[Len(got) + 1].tag \in 0 .. Len(prog.stores)
      <4>1. Len(got) + 1 \in 1 .. Len(prog.loads)
        BY <1>4, <3>1
      <4>2. QED
        BY <4>1, ProgOps DEF IInv
    <3>4. QED
      BY <1>4, <3>2, <3>3
  <2>2. s <= Len(prog.stores) /\ arrived <= s
    BY <1>4, <1>5, <1>10 DEF CuInOrder
  <2>3. QED
    BY <1>2, <1>3, <1>10, <2>1, <2>2 DEF CuInOrder
<1>12. \A w : GoodStVal(w) => Good(w)
  <2>1. \A n \in 1 .. cuSt : n \in 1 .. s
    BY <1>4
  <2>2. QED
    BY <2>1 DEF GoodStVal
<1>13. Good(v)
  BY <1>5, <1>6
<1>14. k = prog.stores[s].port /\ s = cuSt + 1
  OBVIOUS
<1>15. v.value = s
  OBVIOUS
<1>. HIDE DEF Good, v, k, s
<1>16. StoreValuesPaired'
  <2>1. ASSUME NEW j \in StPorts, NEW i \in 1 .. Len(stValPipe'[j])
        PROVE  Good(stValPipe'[j][i])
    <3>1. CASE j = k /\ i = Len(stValPipe[k]) + 1
      <4>1. stValPipe'[j][i] = v
        BY <1>9, <3>1
      <4>2. QED
        BY <1>13, <4>1
    <3>2. CASE j = k /\ i # Len(stValPipe[k]) + 1
      <4>1. i \in 1 .. Len(stValPipe[j]) /\ stValPipe'[j][i] = stValPipe[j][i]
        <5>1. stValPipe'[j] = Append(stValPipe[k], v)
          BY <1>9, <3>2
        <5>2. i \in 1 .. Len(stValPipe[k])
          BY <1>9, <3>2, <5>1
        <5>3. QED
          BY <1>9, <3>2, <5>1, <5>2
      <4>2. GoodStVal(stValPipe[j][i])
        BY <1>10, <4>1 DEF StoreValuesPaired
      <4>3. QED
        BY <1>12, <4>1, <4>2
    <3>3. CASE j # k
      <4>1. stValPipe'[j] = stValPipe[j]
        BY <1>9, <3>3
      <4>2. GoodStVal(stValPipe[j][i])
        BY <1>10, <4>1 DEF StoreValuesPaired
      <4>3. QED
        BY <1>12, <4>1, <4>2
    <3>4. QED
      BY <3>1, <3>2, <3>3
  <2>2. ASSUME NEW j \in StPorts, stValReadSucc'[j]
        PROVE  Good(stValRead'[j])
    BY <1>3, <1>10, <1>12, <2>2 DEF StoreValuesPaired
  <2>3. ASSUME ~ValueMux
        PROVE  /\ s = arrived + Len(stValPipe'[0])
               /\ \A i \in 1 .. Len(stValPipe'[0]) : stValPipe'[0][i].value = arrived + i
    <3>1. k = 0 /\ 0 \in StPorts
      BY <1>6, <2>3, SizesAssumption DEF ValueMux
    <3>2. /\ cuSt = arrived + Len(stValPipe[0])
          /\ \A i \in 1 .. Len(stValPipe[0]) : stValPipe[0][i].value = arrived + i
      BY <1>10, <2>3 DEF StoreValuesPaired
    <3>3. Len(stValPipe'[0]) = Len(stValPipe[0]) + 1 /\ Len(stValPipe[0]) \in Nat
      BY <1>9, <3>1
    <3>4. s = arrived + Len(stValPipe'[0])
      BY <1>4, <1>14, <3>2, <3>3
    <3>5. ASSUME NEW i \in 1 .. Len(stValPipe'[0])
          PROVE  stValPipe'[0][i].value = arrived + i
      <4>1. CASE i = Len(stValPipe[0]) + 1
        <5>1. stValPipe'[0][i] = v
          BY <1>9, <3>1, <4>1
        <5>2. arrived + i = s
          BY <3>3, <3>4, <4>1
        <5>3. QED
          BY <1>15, <5>1, <5>2
      <4>2. CASE i # Len(stValPipe[0]) + 1
        <5>1. i \in 1 .. Len(stValPipe[0])
          BY <3>3, <4>2
        <5>2. stValPipe'[0][i] = stValPipe[0][i]
          BY <1>9, <3>1, <5>1
        <5>3. QED
          BY <3>2, <5>1, <5>2
      <4>3. QED
        BY <4>1, <4>2
    <3>6. QED
      BY <3>4, <3>5
  <2>4. ValueMux => nextStValTag' = arrived' + 1
    BY <1>3, <1>10 DEF StoreValuesPaired
  <2>5. QED
    <3>1. \A w : Good(w) => (/\ w.value \in 1 .. cuSt' /\ w.tag = w.value
                               /\ w.valid = prog'.stores[w.value].ok)
      BY <1>2, <1>3 DEF Good
    <3>2. \A j \in StPorts : \A i \in 1 .. Len(stValPipe'[j]) : GoodStVal(stValPipe[j][i])'
      BY <2>1, <3>1 DEF GoodStVal
    <3>3. \A j \in StPorts : stValReadSucc'[j] => GoodStVal(stValRead[j])'
      BY <2>2, <3>1 DEF GoodStVal
    <3>4. ~ValueMux => /\ cuSt' = arrived' + Len(stValPipe'[0])
                         /\ \A i \in 1 .. Len(stValPipe'[0]) : stValPipe'[0][i].value = arrived' + i
      BY <1>2, <1>3, <2>3
    <3>5. QED
      BY <2>4, <3>2, <3>3, <3>4 DEF StoreValuesPaired, ValueMux
<1>17. QED
  BY <1>1, <1>2, <1>11, <1>16, Untouched
     DEF IInv, aguVars, lsqVars, storeVars, valueVars, portVars

LEMMA CuInv == IInv /\ Cu => IInv'
<1>1. ASSUME IInv, CuEnd PROVE IInv'
  <2>1. TypeOK'
    BY <1>1, CuType DEF IInv, Cu
  <2>2. UNCHANGED <<prog, aguVars, cuSt, got, stReqPipe, ldReqPipe, stValPipe, ldValPipe,
                    lsqVars, portVars>>
    BY <1>1 DEF CuEnd, CanEnd
  <2>3. QED
    BY <1>1, <2>1, <2>2, Untouched DEF IInv, aguVars, lsqVars, storeVars, valueVars, portVars
<1>2. QED
  BY <1>1, CuReadLoadInv, CuWriteStoreInv DEF Cu

------------------------------------------------------------------------------
(* The port kernels. *)

LEMMA PortEndsInv == ASSUME IInv, NEW kernel \in PortKernels, PortEnds(kernel) PROVE IInv'
<1>1. /\ UNCHANGED <<prog, aguVars, cuVars, stReqPipe, ldReqPipe, stValPipe, ldValPipe, endPipe,
                     lsqVars, stPortPipe, selPipe, addrPipe, bypassPipe, memValPipe, data>>
      /\ PortEnds(kernel)
  BY DEF PortEnds
<1>2. TypeOK'
  BY <1>1, StepTypeOK DEF IInv, Next
<1>3. QED
  BY <1>1, <1>2, Untouched DEF IInv, aguVars, cuVars, lsqVars, storeVars, valueVars

(* A write that lands leaves memory, with the writes still to land, as it   *)
(* was: it is the oldest of them.                                           *)
LEMMA LandedWrite ==
  ASSUME IInv, StorePort, NEW a \in Addr
  PROVE  Committed(a)' = Committed(a)
<1>. DEFINE w == stPortPipe[1]
<1>1. /\ stPortPipe' = Tail(stPortPipe) /\ stPortPipe # <<>> /\ UNCHANGED prog
      /\ data' = [data EXCEPT ![Head(stPortPipe).addr] = Head(stPortPipe).value]
  BY DEF StorePort
<1>2. stPortPipe \in Seq(PortWrite) /\ data \in [Addr -> Nat]
  BY DEF IInv, TypeOK
<1>3. /\ Len(Tail(stPortPipe)) = Len(stPortPipe) - 1 /\ Len(stPortPipe) \in Nat /\ Len(stPortPipe) >= 1
      /\ \A i \in 1 .. Len(Tail(stPortPipe)) : /\ Tail(stPortPipe)[i] = stPortPipe[i + 1]
                                               /\ i + 1 \in 1 .. Len(stPortPipe)
      /\ Head(stPortPipe) = w
  BY <1>1, <1>2, TailElements
<1>4. 1 \in 1 .. Len(stPortPipe) /\ \A i \in 1 .. Len(stPortPipe) : stPortPipe[i] \in PortWrite
  BY <1>2, <1>3
<1>5. /\ w.addr \in Addr /\ w.value \in Nat
      /\ \A i \in 1 .. Len(stPortPipe) : stPortPipe[i].value \in Nat
  BY <1>4 DEF PortWrite
<1>6. \A i \in 1 .. Len(stPortPipe) : i # 1 => w.value < stPortPipe[i].value
  <2>1. ASSUME NEW i \in 1 .. Len(stPortPipe), i # 1 PROVE w.value < stPortPipe[i].value
    <3>1. 1 < i
      BY <2>1
    <3>2. QED
      BY <1>4, <3>1 DEF IInv, StorePortInOrder
  <2>2. QED
    BY <2>1
<1>7. data'[a] = IF w.addr = a THEN w.value ELSE data[a]
  BY <1>1, <1>2, <1>3, <1>5
<1>8. /\ \A x \in Issued(a)' : x \in Issued(a) /\ w.value < x
      /\ \A x \in Issued(a) : x \in Issued(a)' \/ (w.addr = a /\ x = w.value)
      /\ w.addr = a => w.value \in Issued(a)
  <2>1. ASSUME NEW x \in Issued(a)' PROVE x \in Issued(a) /\ w.value < x
    <3>1. PICK i \in 1 .. Len(stPortPipe') : stPortPipe'[i].addr = a /\ x = stPortPipe'[i].value
      BY DEF Issued
    <3>2. stPortPipe'[i] = stPortPipe[i + 1] /\ i + 1 \in 1 .. Len(stPortPipe) /\ i + 1 # 1
      BY <1>1, <1>3, <3>1
    <3>3. QED
      BY <1>6, <3>1, <3>2 DEF Issued
  <2>2. ASSUME NEW x \in Issued(a) PROVE x \in Issued(a)' \/ (w.addr = a /\ x = w.value)
    <3>1. PICK i \in 1 .. Len(stPortPipe) : stPortPipe[i].addr = a /\ x = stPortPipe[i].value
      BY DEF Issued
    <3>2. CASE i = 1
      BY <3>1, <3>2
    <3>3. CASE i # 1
      <4>1. i - 1 \in 1 .. Len(stPortPipe') /\ (i - 1) + 1 = i
        BY <1>1, <1>3, <3>3
      <4>2. stPortPipe'[i - 1] = stPortPipe[i]
        BY <1>1, <1>3, <4>1
      <4>3. QED
        BY <3>1, <4>1, <4>2 DEF Issued
    <3>4. QED
      BY <3>2, <3>3
  <2>3. w.addr = a => w.value \in Issued(a)
    BY <1>4 DEF Issued
  <2>4. QED
    BY <2>1, <2>2, <2>3
<1>9. Issued(a) # {} => Committed(a) \in Issued(a) /\ \A x \in Issued(a) : x <= Committed(a)
  BY YoungestIssued
<1>10. \A x \in Issued(a) : x \in Nat
  BY <1>5 DEF Issued
<1>. HIDE DEF w
<1>11. CASE Issued(a)' = {}
  <2>1. Committed(a)' = data'[a]
    BY <1>11 DEF Committed
  <2>2. CASE w.addr = a
    BY <1>7, <1>8, <1>9, <1>11, <2>1, <2>2
  <2>3. CASE w.addr # a
    <3>1. Issued(a) = {}
      BY <1>8, <1>11, <2>3
    <3>2. Committed(a) = data[a]
      BY <3>1 DEF Committed
    <3>3. QED
      BY <1>7, <2>1, <2>3, <3>2
  <2>4. QED
    BY <2>2, <2>3
<1>12. CASE Issued(a)' # {}
  <2>1. PICK c \in Nat : c = Committed(a) /\ c \in Issued(a) /\ \A x \in Issued(a) : x <= c
    BY <1>8, <1>9, <1>10, <1>12
  <2>2. c \in Issued(a)'
    <3>1. PICK x \in Issued(a)' : TRUE
      BY <1>12
    <3>2. x <= c /\ w.value < x /\ x \in Nat /\ w.value \in Nat
      BY <1>5, <1>8, <1>10, <2>1, <3>1 DEF w
    <3>3. c # w.value
      BY <3>2
    <3>4. QED
      BY <1>8, <2>1, <3>3
  <2>3. \A x \in Issued(a)' : x <= c
    BY <1>8, <2>1
  <2>4. ASSUME NEW v \in Issued(a)', \A x \in Issued(a)' : x <= v PROVE v = c
    <3>1. v <= c /\ c <= v /\ v \in Nat
      BY <1>8, <1>10, <2>2, <2>3, <2>4
    <3>2. QED
      BY <3>1
  <2>5. Committed(a)' = CHOOSE v \in Issued(a)' : \A x \in Issued(a)' : x <= v
    BY <1>12 DEF Committed
  <2>6. QED
    BY <2>1, <2>2, <2>3, <2>4, <2>5
<1>13. QED
  BY <1>11, <1>12

LEMMA StorePortInv == IInv /\ StorePort => IInv'
<1>. SUFFICES ASSUME IInv, StorePort PROVE IInv'
  OBVIOUS
<1>1. TypeOK'
  BY StorePortType DEF IInv
<1>2. /\ stPortPipe' = Tail(stPortPipe) /\ stPortPipe # <<>>
      /\ UNCHANGED <<prog, aguVars, cuVars, stReqPipe, ldReqPipe, stValPipe, ldValPipe, endPipe,
                     lsqVars, selPipe, addrPipe, bypassPipe, memValPipe, running>>
  BY DEF StorePort
<1>3. stPortPipe \in Seq(PortWrite)
  BY DEF IInv, TypeOK
<1>4. /\ Len(stPortPipe) \in Nat
      /\ \A i \in 1 .. Len(stPortPipe') : /\ stPortPipe'[i] = stPortPipe[i + 1]
                                          /\ i + 1 \in 1 .. Len(stPortPipe) /\ i \in Nat
  BY <1>2, <1>3, TailElements
<1>5. UNCHANGED <<commitQ, arrived, ldQ, stage>>
  BY <1>2 DEF lsqVars, storeVars, valueVars
<1>6. StorePortInOrder'
  <2>1. StorePortInOrder
    BY DEF IInv
  <2>2. ASSUME NEW i \in 1 .. Len(stPortPipe')
        PROVE  stPortPipe'[i].age < CommitQSize => Remembered(stPortPipe'[i])
    <3>1. stPortPipe[i + 1].age < CommitQSize => Remembered(stPortPipe[i + 1])
      BY <1>4, <2>1 DEF StorePortInOrder
    <3>2. QED
      BY <1>4, <3>1
  <2>3. ASSUME NEW i \in 1 .. Len(stPortPipe'), NEW j \in 1 .. Len(stPortPipe'), i < j
        PROVE  stPortPipe'[i].value < stPortPipe'[j].value
    <3>1. i + 1 \in 1 .. Len(stPortPipe) /\ j + 1 \in 1 .. Len(stPortPipe) /\ i + 1 < j + 1
      BY <1>4, <2>3
    <3>2. QED
      BY <1>4, <2>1, <3>1 DEF StorePortInOrder
  <2>4. ASSUME NEW i \in 1 .. Len(stPortPipe')
        PROVE  /\ IsWrite(stPortPipe[i].value, stPortPipe[i].addr)'
               /\ (stPortPipe[i].age < CommitQSize => Remembered(stPortPipe[i]))'
    <3>1. stPortPipe'[i] = stPortPipe[i + 1]
      BY <1>4
    <3>2. IsWrite(stPortPipe[i].value, stPortPipe[i].addr)'
      <4>1. IsWrite(stPortPipe[i + 1].value, stPortPipe[i + 1].addr)
        BY <1>4, <2>1 DEF StorePortInOrder
      <4>2. QED
        BY <1>2, <1>5, <3>1, <4>1 DEF IsWrite
    <3>3. (stPortPipe[i].age < CommitQSize => Remembered(stPortPipe[i]))'
      BY <1>5, <2>2 DEF Remembered
    <3>4. QED
      BY <3>2, <3>3
  <2>5. QED
    BY <2>3, <2>4 DEF StorePortInOrder
<1>7. MemoryIsProgramPrefix'
  <2>1. MemoryIsProgramPrefix /\ \A a \in Addr : Committed(a)' = Committed(a)
    BY LandedWrite DEF IInv
  <2>2. QED
    BY <1>2, <1>5, <2>1 DEF MemoryIsProgramPrefix
<1>8. MemoryReadsAreSettled'
  BY <1>2, <1>4 DEF IInv, MemoryReadsAreSettled
<1>9. SafeLoadsAreReady'
  <2>1. SafeLoadsAreReady
    BY DEF IInv
  <2>2. ASSUME NEW k \in LdPorts, NEW i \in 1 .. LdQSize, ReadyToIssue(k, ldQ[k][i])
        PROVE  ReadyToIssue(k, ldQ[k][i])'
    BY <1>2, <1>4, <1>5, <2>2 DEF ReadyToIssue, Upcoming
  <2>3. QED
    BY <1>5, <2>1, <2>2 DEF SafeLoadsAreReady
<1>10. QED
  BY <1>1, <1>2, <1>6, <1>7, <1>8, <1>9, Untouched
     DEF IInv, aguVars, cuVars, lsqVars, storeVars, valueVars

LEMMA ValuesAppend ==
  ASSUME NEW s \in Seq(LdValTok), NEW x \in LdValTok, ValuesCorrect(s),
         IsSequentialValue(prog, x.value, x.id)
  PROVE  ValuesCorrect(Append(s, x))
<1>1. /\ Len(Append(s, x)) = Len(s) + 1 /\ Len(s) \in Nat
      /\ \A i \in 1 .. Len(s) : Append(s, x)[i] = s[i]
      /\ Append(s, x)[Len(s) + 1] = x
  BY AppendElements
<1>2. ASSUME NEW i \in 1 .. Len(Append(s, x))
      PROVE  IsSequentialValue(prog, Append(s, x)[i].value, Append(s, x)[i].id)
  <2>1. CASE i = Len(s) + 1
    BY <1>1, <2>1
  <2>2. CASE i # Len(s) + 1
    <3>1. i \in 1 .. Len(s)
      BY <1>1, <2>2
    <3>2. QED
      BY <1>1, <3>1 DEF ValuesCorrect
  <2>3. QED
    BY <2>1, <2>2
<1>3. QED
  BY <1>2 DEF ValuesCorrect

LEMMA ValuesTail ==
  ASSUME NEW s \in Seq(LdValTok), s # <<>>, ValuesCorrect(s)
  PROVE  ValuesCorrect(Tail(s)) /\ IsSequentialValue(prog, Head(s).value, Head(s).id)
<1>1. /\ Len(s) \in Nat /\ Len(s) >= 1 /\ Head(s) = s[1]
      /\ \A i \in 1 .. Len(Tail(s)) : Tail(s)[i] = s[i + 1] /\ i + 1 \in 1 .. Len(s)
  BY TailElements
<1>2. 1 \in 1 .. Len(s)
  BY <1>1
<1>3. QED
  BY <1>1, <1>2 DEF ValuesCorrect

LEMMA LoadPortInv == ASSUME IInv, NEW k \in LdPorts, LoadPort(k) PROVE IInv'
<1>. DEFINE A == addrPipe[k]
            M == memValPipe[k]
            r == Head(A)
            v == [value |-> data[r.addr], id |-> r.id]
<1>1. TypeOK'
  BY LoadPortType DEF IInv
<1>2. /\ A # <<>>
      /\ memValPipe' = [memValPipe EXCEPT ![k] = Append(@, v)]
      /\ addrPipe' = [addrPipe EXCEPT ![k] = Tail(@)]
      /\ UNCHANGED <<prog, aguVars, cuVars, stReqPipe, ldReqPipe, stValPipe, ldValPipe, endPipe,
                     lsqVars, stPortPipe, selPipe, bypassPipe, running, data>>
  BY DEF LoadPort, CanFetch
<1>3. /\ addrPipe \in [LdPorts -> Seq(PortRead)] /\ A \in Seq(PortRead)
      /\ memValPipe \in [LdPorts -> Seq(LdValTok)] /\ M \in Seq(LdValTok)
      /\ data \in [Addr -> Nat]
  BY DEF IInv, TypeOK
<1>4. UNCHANGED <<arrived, ldQ>>
  BY <1>2 DEF lsqVars, storeVars, valueVars
<1>5. /\ r = A[1] /\ 1 \in 1 .. Len(A) /\ r \in PortRead /\ Len(A) \in Nat
      /\ Tail(A) \in Seq(PortRead)
      /\ \A i \in 1 .. Len(Tail(A)) : Tail(A)[i] = A[i + 1] /\ i + 1 \in 1 .. Len(A)
  <2>. HIDE DEF A
  <2>1. /\ r = A[1] /\ Len(A) \in Nat /\ Len(A) >= 1 /\ Tail(A) \in Seq(PortRead)
        /\ \A i \in 1 .. Len(Tail(A)) : Tail(A)[i] = A[i + 1] /\ i + 1 \in 1 .. Len(A)
    BY <1>2, <1>3, TailElements
  <2>2. 1 \in 1 .. Len(A)
    BY <2>1
  <2>3. A[1] \in PortRead
    BY <1>3, <2>2
  <2>4. QED
    BY <2>1, <2>2, <2>3
<1>6. r.addr \in Addr /\ r.id \in Nat
  BY <1>5 DEF PortRead
<1>7. v \in LdValTok /\ v.id = r.id /\ v.value = data[r.addr]
  BY <1>3, <1>6 DEF LdValTok
<1>. HIDE DEF v, r
<1>8. /\ memValPipe'[k] = Append(M, v)
      /\ addrPipe'[k] = Tail(A)
      /\ \A j \in LdPorts : j # k => memValPipe'[j] = memValPipe[j] /\ addrPipe'[j] = addrPipe[j]
  <2>1. /\ memValPipe'[k] = Append(M, v)
        /\ \A j \in LdPorts : j # k => memValPipe'[j] = memValPipe[j]
    BY <1>2, <1>3, <1>7, AppendAt
  <2>2. /\ addrPipe'[k] = Tail(A)
        /\ \A j \in LdPorts : j # k => addrPipe'[j] = addrPipe[j]
    BY <1>2, <1>3, TailAt
  <2>3. QED
    BY <2>1, <2>2
<1>9. IsSequentialValue(prog, v.value, v.id)
  <2>1. \A j \in 1 .. Len(stPortPipe) : stPortPipe[j].addr # r.addr
    BY <1>5 DEF IInv, MemoryReadsAreSettled
  <2>2. IsLatest(prog, data[r.addr], r.addr, arrived)
    BY <1>6, <2>1, SettledMemory
  <2>3. /\ r.id \in Len(got) + 1 .. Len(prog.loads)
        /\ r.addr = prog.loads[r.id].addr
        /\ Clear(r.id)
    BY <1>5, FetchedLoad
  <2>4. IsSequentialValue(prog, data[r.addr], r.id)
    BY <2>2, <2>3, ClearValue
  <2>5. QED
    BY <1>7, <2>4
<1>10. LoadValuesCorrect'
  <2>1. ValuesCorrect(M)
    BY DEF IInv, LoadValuesCorrect
  <2>2. ValuesCorrect(Append(M, v))
    BY <1>3, <1>7, <1>9, <2>1, ValuesAppend
  <2>3. ASSUME NEW j \in LdPorts
        PROVE  ValuesCorrect(bypassPipe'[j]) /\ ValuesCorrect(memValPipe'[j]) /\ ValuesCorrect(ldValPipe'[j])
    BY <1>2, <1>8, <2>2 DEF IInv, LoadValuesCorrect
  <2>4. QED
    BY <1>2, <2>3 DEF LoadValuesCorrect, ValuesCorrect
<1>11. RoutesInOrder'
  <2>1. Routes(selPipe[k], bypassPipe[k], M, A)
    BY DEF IInv, RoutesInOrder
  <2>2. /\ Ascending(Tail(A)) /\ r.id \in Ids(A)
        /\ Ids(Tail(A)) = Ids(A) \ {r.id}
        /\ \A l \in Ids(A) : r.id <= l
    <3>1. \A i \in 1 .. Len(A) : A[i] \in PortRead
      BY <1>3
    <3>2. \A i \in 1 .. Len(A) : A[i].id \in Nat
      BY <3>1 DEF PortRead
    <3>3. Ascending(A)
      BY <2>1 DEF Routes
    <3>. HIDE DEF A
    <3>4. QED
      BY <1>2, <1>3, <3>2, <3>3, IdsTail DEF r
  <2>3. Ascending(Append(M, v)) /\ Ids(Append(M, v)) = Ids(M) \cup {r.id}
    <3>1. Ascending(M) /\ \A l \in Ids(M) : l < v.id
      BY <1>7, <2>1, <2>2 DEF Routes
    <3>. HIDE DEF M
    <3>2. QED
      BY <1>3, <1>7, <3>1, IdsAppend
  <2>4. \A l \in Ids(A) : l \in Nat
    <3>1. \A i \in 1 .. Len(A) : A[i] \in PortRead
      BY <1>3
    <3>2. QED
      BY <3>1 DEF Ids, PortRead
  <2>5. \A l \in Ids(Append(M, v)), m \in Ids(Tail(A)) : l < m
    <3>1. ASSUME NEW m \in Ids(Tail(A)) PROVE r.id < m
      BY <1>6, <2>2, <2>4
    <3>2. ASSUME NEW l \in Ids(M), NEW m \in Ids(Tail(A)) PROVE l < m
      BY <2>1, <2>2 DEF Routes
    <3>3. QED
      BY <2>3, <3>1, <3>2
  <2>6. Ids(Append(M, v)) \cup Ids(Tail(A)) = Ids(M) \cup Ids(A)
    BY <2>2, <2>3
  <2>7. Routes(selPipe[k], bypassPipe[k], Append(M, v), Tail(A))
    BY <2>1, <2>2, <2>3, <2>5, <2>6 DEF Routes
  <2>8. ASSUME NEW j \in LdPorts
        PROVE  Routes(selPipe'[j], bypassPipe'[j], memValPipe'[j], addrPipe'[j])
    BY <1>2, <1>8, <2>7 DEF IInv, RoutesInOrder
  <2>9. QED
    BY <2>8 DEF RoutesInOrder, Routes, Ids, Ascending, Selected
<1>12. ASSUME NEW j \in LdPorts, NEW i \in 1 .. Len(addrPipe'[j])
       PROVE  \E n \in 1 .. Len(addrPipe[j]) : addrPipe'[j][i] = addrPipe[j][n]
  BY <1>5, <1>8
<1>13. RequestsMatchLoads'
  <2>1. RequestsMatchLoads
    BY DEF IInv
  <2>2. ASSUME NEW j \in LdPorts, NEW i \in 1 .. Len(addrPipe'[j])
        PROVE  addrPipe'[j][i].addr = prog.loads[addrPipe'[j][i].id].addr
    <3>1. PICK n \in 1 .. Len(addrPipe[j]) : addrPipe'[j][i] = addrPipe[j][n]
      BY <1>12
    <3>2. QED
      BY <2>1, <3>1 DEF RequestsMatchLoads
  <2>3. QED
    BY <1>2, <1>4, <2>1, <2>2 DEF RequestsMatchLoads, IsRequest
<1>14. FetchedLoadsAreClear'
  <2>1. ASSUME NEW j \in LdPorts, NEW i \in 1 .. Len(addrPipe'[j])
        PROVE  Clear(addrPipe'[j][i].id)
    <3>1. PICK n \in 1 .. Len(addrPipe[j]) : addrPipe'[j][i] = addrPipe[j][n]
      BY <1>12
    <3>2. QED
      BY <3>1 DEF IInv, FetchedLoadsAreClear
  <2>2. QED
    BY <1>2, <1>4, <2>1 DEF FetchedLoadsAreClear, Clear
<1>15. MemoryReadsAreSettled'
  BY <1>2, <1>12 DEF IInv, MemoryReadsAreSettled
<1>16. QED
  BY <1>1, <1>2, <1>10, <1>11, <1>13, <1>14, <1>15, Untouched
     DEF IInv, aguVars, cuVars, lsqVars, storeVars, valueVars

(* The value a load mux passes on belongs to the load it selects, and the   *)
(* rest stays matched.                                                      *)
LEMMA SelectedHead ==
  ASSUME NEW s \in Seq(Selection), s # <<>>, Ascending(s)
  PROVE  /\ Head(s) \in Selection /\ Head(s).id \in Nat /\ Head(s).bypass \in BOOLEAN
         /\ Ascending(Tail(s)) /\ Ids(Tail(s)) = Ids(s) \ {Head(s).id}
         /\ Head(s).id \in Selected(s, Head(s).bypass)
         /\ Head(s).id \in Ids(s)
         /\ \A l \in Ids(s) : Head(s).id <= l
         /\ \A b \in BOOLEAN : Selected(s, b) \subseteq Ids(s)
<1>1. Len(s) \in Nat /\ Len(s) >= 1 /\ Head(s) = s[1]
  BY TailElements
<1>2. 1 \in 1 .. Len(s)
  BY <1>1
<1>3. \A i \in 1 .. Len(s) : s[i] \in Selection
  OBVIOUS
<1>4. \A i \in 1 .. Len(s) : s[i].id \in Nat /\ s[i].bypass \in BOOLEAN
  BY <1>3 DEF Selection
<1>5. /\ Ascending(Tail(s)) /\ Ids(Tail(s)) = Ids(s) \ {Head(s).id}
      /\ Head(s).id \in Ids(s) /\ \A l \in Ids(s) : Head(s).id <= l
  BY <1>4, IdsTail
<1>6. /\ Head(s).id \in Selected(s, Head(s).bypass)
      /\ \A b \in BOOLEAN : Selected(s, b) \subseteq Ids(s)
  BY <1>1, <1>2 DEF Selected, Ids
<1>7. QED
  BY <1>1, <1>2, <1>3, <1>4, <1>5, <1>6

LEMMA MuxedBypass ==
  ASSUME NEW s \in Seq(Selection), s # <<>>, Ascending(s), Head(s).bypass,
         NEW m, NEW a, NEW b \in Seq(LdValTok), b # <<>>, Routes(s, b, m, a)
  PROVE  Head(b).id = Head(s).id /\ Routes(Tail(s), Tail(b), m, a)
<1>1. /\ Ascending(b) /\ Ids(b) = Selected(s, TRUE)
      /\ Ascending(m) /\ Ascending(a) /\ Ids(m) \cup Ids(a) = Selected(s, FALSE)
      /\ \A x \in Ids(m), y \in Ids(a) : x < y
  BY DEF Routes
<1>2. /\ Head(s).id \in Nat /\ Head(s).id \in Selected(s, Head(s).bypass)
      /\ Head(s).bypass \in BOOLEAN
      /\ \A l \in Ids(s) : Head(s).id <= l
      /\ Selected(s, TRUE) \subseteq Ids(s)
  BY SelectedHead
<1>3. Head(s).bypass = TRUE /\ Head(s).id \in Ids(b)
  BY <1>1, <1>2
<1>4. /\ Ascending(Tail(b)) /\ Head(b).id \in Ids(b) /\ Head(b).id \in Nat
      /\ Ids(Tail(b)) = Ids(b) \ {Head(b).id}
      /\ \A l \in Ids(b) : Head(b).id <= l
  <2>1. \A i \in 1 .. Len(b) : b[i] \in LdValTok
    OBVIOUS
  <2>2. \A i \in 1 .. Len(b) : b[i].id \in Nat
    BY <2>1 DEF LdValTok
  <2>3. QED
    BY <1>1, <2>2, IdsTail
<1>5. Head(b).id = Head(s).id
  <2>1. Head(b).id <= Head(s).id /\ Head(s).id <= Head(b).id
    BY <1>1, <1>2, <1>3, <1>4
  <2>2. QED
    BY <1>2, <1>4, <2>1
<1>6. Selected(Tail(s), TRUE) = Selected(s, TRUE) \ {Head(s).id}
  BY <1>3, SelectedTail
<1>7. Selected(Tail(s), FALSE) = Selected(s, FALSE)
  BY <1>3, SelectedTail
<1>8. QED
  BY <1>1, <1>4, <1>5, <1>6, <1>7 DEF Routes

LEMMA MuxedMemory ==
  ASSUME NEW s \in Seq(Selection), s # <<>>, Ascending(s), ~Head(s).bypass,
         NEW b, NEW a \in Seq(PortRead), NEW m \in Seq(LdValTok), m # <<>>, Routes(s, b, m, a)
  PROVE  Head(m).id = Head(s).id /\ Routes(Tail(s), b, Tail(m), a)
<1>1. /\ Ascending(b) /\ Ids(b) = Selected(s, TRUE)
      /\ Ascending(m) /\ Ascending(a) /\ Ids(m) \cup Ids(a) = Selected(s, FALSE)
      /\ \A x \in Ids(m), y \in Ids(a) : x < y
  BY DEF Routes
<1>2. /\ Head(s).id \in Nat /\ Head(s).id \in Selected(s, Head(s).bypass)
      /\ Head(s).bypass \in BOOLEAN
      /\ \A l \in Ids(s) : Head(s).id <= l
      /\ Selected(s, FALSE) \subseteq Ids(s)
  BY SelectedHead
<1>3. Head(s).bypass = FALSE /\ Head(s).id \in Ids(m) \cup Ids(a)
  BY <1>1, <1>2
<1>4. /\ Ascending(Tail(m)) /\ Head(m).id \in Ids(m) /\ Head(m).id \in Nat
      /\ Ids(Tail(m)) = Ids(m) \ {Head(m).id}
      /\ \A l \in Ids(m) : Head(m).id <= l
  <2>1. \A i \in 1 .. Len(m) : m[i] \in LdValTok
    OBVIOUS
  <2>2. \A i \in 1 .. Len(m) : m[i].id \in Nat
    BY <2>1 DEF LdValTok
  <2>3. QED
    BY <1>1, <2>2, IdsTail
<1>5. Head(m).id = Head(s).id
  <2>1. Head(s).id <= Head(m).id
    BY <1>1, <1>2, <1>4
  <2>2. Head(m).id <= Head(s).id
    <3>1. CASE Head(s).id \in Ids(m)
      BY <1>4, <3>1
    <3>2. CASE Head(s).id \in Ids(a)
      <4>1. Head(m).id < Head(s).id
        BY <1>1, <1>4, <3>2
      <4>2. QED
        BY <1>2, <1>4, <4>1
    <3>3. QED
      BY <1>3, <3>1, <3>2
  <2>3. QED
    BY <1>2, <1>4, <2>1, <2>2
<1>6. Head(s).id \notin Ids(a)
  <2>1. ASSUME Head(s).id \in Ids(a) PROVE FALSE
    <3>1. Head(m).id < Head(s).id
      BY <1>1, <1>4, <2>1
    <3>2. QED
      BY <1>2, <1>5, <3>1
  <2>2. QED
    BY <2>1
<1>7. Selected(Tail(s), FALSE) = Selected(s, FALSE) \ {Head(s).id}
  BY <1>3, SelectedTail
<1>8. Selected(Tail(s), TRUE) = Selected(s, TRUE)
  BY <1>3, SelectedTail
<1>9. Ids(Tail(m)) \cup Ids(a) = Selected(Tail(s), FALSE)
  BY <1>1, <1>4, <1>5, <1>6, <1>7
<1>10. \A x \in Ids(Tail(m)), y \in Ids(a) : x < y
  BY <1>1, <1>4
<1>11. QED
  BY <1>1, <1>4, <1>5, <1>8, <1>9, <1>10 DEF Routes

(* The loads of a port stay where they are while its pipes and queue do. *)
LEMMA PortUntouched ==
  ASSUME IInv, UNCHANGED <<prog, got, aguLd>>, NEW k \in LdPorts,
         ldValPipe'[k] = ldValPipe[k], selPipe'[k] = selPipe[k], ldQ'[k] = ldQ[k],
         ldReqPipe'[k] = ldReqPipe[k]
  PROVE  (\E r, i, a \in 0 .. aguLd : LoadsHeld(k, r, i, a))'
<1>1. PICK r \in 0 .. aguLd, i \in 0 .. aguLd, a \in 0 .. aguLd : LoadsHeld(k, r, i, a)
  BY DEF IInv, LoadsInOrder
<1>2. LoadsHeld(k, r, i, a)'
  BY <1>1 DEF LoadsHeld, Ascending, Ids, QueueAscending, QueueIds, PortLoads
<1>3. QED
  BY <1>1, <1>2

(* What a load mux sends is the value of the load at the head of its        *)
(* selections.                                                              *)
LEMMA MuxSends ==
  ASSUME IInv, NEW k \in LdPorts, LoadMux(k)
  PROVE  \E x \in LdValTok :
           /\ x.id = Head(selPipe[k]).id /\ IsSequentialValue(prog, x.value, x.id)
           /\ ldValPipe' = [ldValPipe EXCEPT ![k] = Append(@, x)]
           /\ ValuesCorrect(bypassPipe'[k]) /\ ValuesCorrect(memValPipe'[k])
           /\ Routes(Tail(selPipe[k]), bypassPipe'[k], memValPipe'[k], addrPipe[k])
           /\ \A j \in LdPorts : j # k => bypassPipe'[j] = bypassPipe[j] /\ memValPipe'[j] = memValPipe[j]
<1>1. /\ selPipe[k] \in Seq(Selection) /\ addrPipe[k] \in Seq(PortRead)
      /\ memValPipe \in [LdPorts -> Seq(LdValTok)] /\ memValPipe[k] \in Seq(LdValTok)
      /\ bypassPipe \in [LdPorts -> Seq(LdValTok)] /\ bypassPipe[k] \in Seq(LdValTok)
  BY DEF IInv, TypeOK
<1>2. Ascending(selPipe[k])
  BY DEF IInv, LoadsInOrder, LoadsHeld
<1>3. Routes(selPipe[k], bypassPipe[k], memValPipe[k], addrPipe[k])
  BY DEF IInv, RoutesInOrder
<1>4. ValuesCorrect(bypassPipe[k]) /\ ValuesCorrect(memValPipe[k])
  BY DEF IInv, LoadValuesCorrect
<1>5. selPipe[k] # <<>>
  BY DEF LoadMux, CanSelect
<1>6. CASE Head(selPipe[k]).bypass
  <2>. DEFINE x == Head(bypassPipe[k])
  <2>1. /\ bypassPipe[k] # <<>> /\ memValPipe' = memValPipe
        /\ ldValPipe' = [ldValPipe EXCEPT ![k] = Append(@, x)]
        /\ bypassPipe' = [bypassPipe EXCEPT ![k] = Tail(@)]
    BY <1>6 DEF LoadMux, CanSelect
  <2>2. /\ bypassPipe'[k] = Tail(bypassPipe[k]) /\ x \in LdValTok
        /\ \A j \in LdPorts : j # k => bypassPipe'[j] = bypassPipe[j]
    BY <1>1, <2>1, TailAt
  <2>3. x.id = Head(selPipe[k]).id /\ Routes(Tail(selPipe[k]), bypassPipe'[k], memValPipe'[k], addrPipe[k])
    <3>1. x.id = Head(selPipe[k]).id /\ Routes(Tail(selPipe[k]), Tail(bypassPipe[k]), memValPipe[k], addrPipe[k])
      BY <1>1, <1>2, <1>3, <1>5, <1>6, <2>1, MuxedBypass
    <3>2. QED
      BY <2>1, <2>2, <3>1
  <2>4. ValuesCorrect(bypassPipe'[k]) /\ IsSequentialValue(prog, x.value, x.id)
    BY <1>1, <1>4, <2>1, <2>2, ValuesTail
  <2>. HIDE DEF x
  <2>5. QED
    BY <1>4, <2>1, <2>2, <2>3, <2>4
<1>7. CASE ~Head(selPipe[k]).bypass
  <2>. DEFINE x == Head(memValPipe[k])
  <2>1. /\ memValPipe[k] # <<>> /\ bypassPipe' = bypassPipe
        /\ ldValPipe' = [ldValPipe EXCEPT ![k] = Append(@, x)]
        /\ memValPipe' = [memValPipe EXCEPT ![k] = Tail(@)]
    BY <1>7 DEF LoadMux, CanSelect
  <2>2. /\ memValPipe'[k] = Tail(memValPipe[k]) /\ x \in LdValTok
        /\ \A j \in LdPorts : j # k => memValPipe'[j] = memValPipe[j]
    BY <1>1, <2>1, TailAt
  <2>3. x.id = Head(selPipe[k]).id /\ Routes(Tail(selPipe[k]), bypassPipe'[k], memValPipe'[k], addrPipe[k])
    <3>1. x.id = Head(selPipe[k]).id /\ Routes(Tail(selPipe[k]), bypassPipe[k], Tail(memValPipe[k]), addrPipe[k])
      BY <1>1, <1>2, <1>3, <1>5, <1>7, <2>1, MuxedMemory
    <3>2. QED
      BY <2>1, <2>2, <3>1
  <2>4. ValuesCorrect(memValPipe'[k]) /\ IsSequentialValue(prog, x.value, x.id)
    BY <1>1, <1>4, <2>1, <2>2, ValuesTail
  <2>. HIDE DEF x
  <2>5. QED
    BY <1>4, <2>1, <2>2, <2>3, <2>4
<1>8. QED
  BY <1>6, <1>7

LEMMA LoadMuxInv == ASSUME IInv, NEW k \in LdPorts, LoadMux(k) PROVE IInv'
<1>. DEFINE h == Head(selPipe[k])
<1>1. TypeOK'
  BY LoadMuxType DEF IInv
<1>2. /\ selPipe[k] # <<>> /\ selPipe' = [selPipe EXCEPT ![k] = Tail(@)]
      /\ UNCHANGED <<prog, aguVars, cuVars, stReqPipe, ldReqPipe, stValPipe, endPipe,
                     lsqVars, stPortPipe, addrPipe, running, data>>
  BY DEF LoadMux, CanSelect
<1>3. PICK x \in LdValTok :
           /\ x.id = h.id /\ IsSequentialValue(prog, x.value, x.id)
           /\ ldValPipe' = [ldValPipe EXCEPT ![k] = Append(@, x)]
           /\ ValuesCorrect(bypassPipe'[k]) /\ ValuesCorrect(memValPipe'[k])
           /\ Routes(Tail(selPipe[k]), bypassPipe'[k], memValPipe'[k], addrPipe[k])
           /\ \A j \in LdPorts : j # k => bypassPipe'[j] = bypassPipe[j] /\ memValPipe'[j] = memValPipe[j]
  BY MuxSends
<1>4. /\ selPipe \in [LdPorts -> Seq(Selection)] /\ ldValPipe \in [LdPorts -> Seq(LdValTok)]
      /\ selPipe[k] \in Seq(Selection) /\ ldValPipe[k] \in Seq(LdValTok)
  BY DEF IInv, TypeOK
<1>5. /\ selPipe'[k] = Tail(selPipe[k])
      /\ \A j \in LdPorts : j # k => selPipe'[j] = selPipe[j]
  BY <1>2, <1>4, TailAt
<1>6. /\ ldValPipe'[k] = Append(ldValPipe[k], x)
      /\ \A j \in LdPorts : j # k => ldValPipe'[j] = ldValPipe[j]
  BY <1>3, <1>4, AppendAt
<1>7. RoutesInOrder'
  <2>1. ASSUME NEW j \in LdPorts
        PROVE  Routes(selPipe'[j], bypassPipe'[j], memValPipe'[j], addrPipe'[j])
    BY <1>2, <1>3, <1>5 DEF IInv, RoutesInOrder
  <2>2. QED
    BY <2>1 DEF RoutesInOrder, Routes, Ids, Ascending, Selected
<1>8. LoadValuesCorrect'
  <2>1. ValuesCorrect(ldValPipe[k])
    BY DEF IInv, LoadValuesCorrect
  <2>2. ValuesCorrect(Append(ldValPipe[k], x))
    BY <1>3, <1>4, <2>1, ValuesAppend
  <2>3. ASSUME NEW j \in LdPorts
        PROVE  ValuesCorrect(bypassPipe'[j]) /\ ValuesCorrect(memValPipe'[j]) /\ ValuesCorrect(ldValPipe'[j])
    BY <1>3, <1>6, <2>2 DEF IInv, LoadValuesCorrect
  <2>4. QED
    BY <1>2, <2>3 DEF LoadValuesCorrect, ValuesCorrect
<1>9. UNCHANGED <<got, aguLd, ldQ, ldReqPipe>>
  BY <1>2 DEF aguVars, cuVars, lsqVars
<1>10. LoadsInOrder'
  <2>1. PICK r \in 0 .. aguLd, i \in 0 .. aguLd, a \in 0 .. aguLd : LoadsHeld(k, r, i, a)
    BY DEF IInv, LoadsInOrder
  <2>2. /\ Len(got) <= r /\ r <= i /\ i <= a /\ a <= aguLd
        /\ Ascending(ldValPipe[k]) /\ Ids(ldValPipe[k]) = PortLoads(k, Len(got), r)
        /\ Ascending(selPipe[k]) /\ Ids(selPipe[k]) = PortLoads(k, r, i)
        /\ QueueAscending(ldQ[k]) /\ QueueIds(ldQ[k]) = PortLoads(k, i, a)
        /\ Ascending(ldReqPipe[k]) /\ Ids(ldReqPipe[k]) = PortLoads(k, a, aguLd)
    BY <2>1 DEF LoadsHeld
  <2>3. /\ Ascending(Tail(selPipe[k])) /\ Ids(Tail(selPipe[k])) = Ids(selPipe[k]) \ {h.id}
        /\ h.id \in Ids(selPipe[k]) /\ \A l \in Ids(selPipe[k]) : h.id <= l
    BY <1>2, <1>4, <2>2, SelectedHead
  <2>4. /\ aguLd \in Nat /\ Len(got) \in Nat /\ r \in Nat /\ i \in Nat /\ a \in Nat
    <3>1. aguLd \in Nat /\ Len(got) \in Nat
      BY InvCounters
    <3>2. QED
      BY <2>1, <3>1
  <2>. HIDE DEF h
  <2>5. IsOldest(h.id, k, r, i)
    BY <2>2, <2>3 DEF IsOldest
  <2>6. h.id \in Nat /\ r < h.id /\ h.id <= i
    BY <2>4, <2>5, OldestIs
  <2>7. PortLoads(k, h.id, i) = PortLoads(k, r, i) \ {h.id}
    BY <2>4, <2>5, OldestLeaves
  <2>8. /\ PortLoads(k, Len(got), h.id) = PortLoads(k, Len(got), r) \cup {h.id}
        /\ \A l \in PortLoads(k, Len(got), r) : l < h.id
    BY <2>2, <2>4, <2>5, OldestEnters
  <2>9. Ascending(selPipe'[k]) /\ Ids(selPipe'[k]) = PortLoads(k, h.id, i)
    BY <1>5, <2>2, <2>3, <2>7
  <2>10. Ascending(ldValPipe'[k]) /\ Ids(ldValPipe'[k]) = PortLoads(k, Len(got), h.id)
    <3>1. \A l \in Ids(ldValPipe[k]) : l < x.id
      BY <1>3, <2>2, <2>8
    <3>2. /\ Ascending(Append(ldValPipe[k], x))
          /\ Ids(Append(ldValPipe[k], x)) = Ids(ldValPipe[k]) \cup {x.id}
      BY <1>4, <2>2, <3>1, IdsAppend
    <3>3. QED
      BY <1>3, <1>6, <2>2, <2>8, <3>2
  <2>11. PICK n \in 0 .. aguLd : n = h.id
    BY <2>2, <2>4, <2>6
  <2>12. Len(got) <= n /\ n <= i
    BY <2>2, <2>4, <2>6, <2>11
  <2>13. LoadsHeld(k, n, i, a)'
    <3>1. /\ QueueAscending(ldQ[k])' = QueueAscending(ldQ[k]) /\ QueueIds(ldQ[k])' = QueueIds(ldQ[k])
          /\ Ascending(ldReqPipe[k])' = Ascending(ldReqPipe[k]) /\ Ids(ldReqPipe[k])' = Ids(ldReqPipe[k])
          /\ \A lo, hi : PortLoads(k, lo, hi)' = PortLoads(k, lo, hi)
      BY <1>2, <1>9 DEF QueueAscending, QueueIds, Ascending, Ids, PortLoads
    <3>2. /\ Ascending(selPipe[k])' /\ Ids(selPipe[k])' = PortLoads(k, n, i)
          /\ Ascending(ldValPipe[k])' /\ Ids(ldValPipe[k])' = PortLoads(k, Len(got), n)
      BY <2>9, <2>10, <2>11 DEF Ascending, Ids
    <3>3. UNCHANGED <<prog, got, aguLd>>
      BY <1>2, <1>9
    <3>4. QED
      BY <2>2, <2>12, <3>1, <3>2, <3>3 DEF LoadsHeld, PortLoads
  <2>14. ASSUME NEW j \in LdPorts PROVE (\E r1, i1, a1 \in 0 .. aguLd : LoadsHeld(j, r1, i1, a1))'
    <3>1. CASE j = k
      BY <1>9, <2>1, <2>11, <2>13, <3>1
    <3>2. CASE j # k
      BY <1>2, <1>5, <1>6, <1>9, <3>2, PortUntouched
    <3>3. QED
      BY <3>1, <3>2
  <2>15. QED
    BY <2>14 DEF LoadsInOrder
<1>11. QED
  BY <1>1, <1>2, <1>7, <1>8, <1>10, Untouched
     DEF IInv, aguVars, cuVars, lsqVars, storeVars, valueVars

------------------------------------------------------------------------------
(* The store stage: counters, requests, values, the allocation queue. *)
LEMMA StepCounters ==
  ASSUME IInv, NEW vals \in SUBSET StPorts,
         NEW stRdy \in BOOLEAN, NEW endRdy \in BOOLEAN,
         NEW junk \in JunkTags, StoreStage(vals, stRdy, endRdy, junk)
  PROVE  /\ UNCHANGED <<prog, aguSt, aguLd, cuSt, got>>
         /\ arrived' = IF StValArrived(vals) THEN arrived + 1 ELSE arrived
         /\ arrived' \in Nat /\ arrived <= arrived' /\ arrived' <= cuSt /\ arrived' <= Accepted
         /\ Accepted' = IF StReqTaken(vals, stRdy) THEN Accepted + 1 ELSE Accepted
         /\ Accepted' \in Nat /\ Accepted <= Accepted' /\ Accepted' <= Len(prog.stores)
<1>1. UNCHANGED <<prog, aguSt, aguLd, cuSt, got>>
  BY DEF StoreStage, aguVars, cuVars
<1>2. arrived' = IF StValArrived(vals) THEN arrived + 1 ELSE arrived
  BY DEF StoreStage, StoreValues
<1>3. /\ arrived \in Nat /\ cuSt \in Nat /\ Accepted \in Nat /\ arrived <= cuSt /\ arrived <= Accepted
      /\ aguSt \in Nat /\ Len(stReqPipe) \in Nat /\ Accepted + Len(stReqPipe) = aguSt
      /\ Len(prog.stores) \in Nat /\ Accepted <= Len(prog.stores)
  BY InvCounters
<1>4. StValArrived(vals) => arrived + 1 <= cuSt /\ arrived + 1 <= Accepted
  BY ArrivingValue, HeadStore
<1>5. /\ arrived' \in Nat /\ arrived <= arrived' /\ arrived' <= cuSt /\ arrived' <= Accepted
  BY <1>2, <1>3, <1>4
<1>6. aguSt <= Len(prog.stores)
  BY InvCounters
<1>7. CASE StReqTaken(vals, stRdy)
  <2>1. stReqPipe' = Tail(stReqPipe) /\ stReqPipe # <<>> /\ stReqPipe \in Seq(StReq)
    BY <1>7 DEF StoreStage, StReqTaken, IInv, TypeOK
  <2>2. Len(stReqPipe') = Len(stReqPipe) - 1 /\ Len(stReqPipe) \in Nat \ {0}
    BY <2>1, TailElements
  <2>3. Accepted' = Accepted + 1
    BY <1>1, <1>3, <2>2 DEF Accepted
  <2>4. Accepted + 1 <= aguSt
    BY <1>3, <2>2
  <2>5. Accepted + 1 <= Len(prog.stores)
    BY <1>3, <1>6, <2>4
  <2>6. QED
    BY <1>1, <1>2, <1>3, <1>5, <1>7, <2>3, <2>5
<1>8. CASE ~StReqTaken(vals, stRdy)
  <2>1. stReqPipe' = stReqPipe
    BY <1>8 DEF StoreStage
  <2>2. Accepted' = Accepted
    BY <1>1, <2>1 DEF Accepted
  <2>3. QED
    BY <1>1, <1>2, <1>3, <1>5, <1>8, <2>2
<1>9. QED
  BY <1>7, <1>8

LEMMA StepCuInOrder ==
  ASSUME IInv, NEW vals \in SUBSET StPorts,
         NEW stRdy \in BOOLEAN, NEW endRdy \in BOOLEAN,
         NEW junk \in JunkTags, StoreStage(vals, stRdy, endRdy, junk)
  PROVE  CuInOrder'
<1>1. UNCHANGED <<prog, cuSt, got>> /\ arrived' <= cuSt
  BY StepCounters
<1>2. CuInOrder
  BY DEF IInv
<1>3. QED
  BY <1>1, <1>2 DEF CuInOrder

LEMMA StepRequests ==
  ASSUME IInv, NEW vals \in SUBSET StPorts,
         NEW stRdy \in BOOLEAN, NEW endRdy \in BOOLEAN,
         NEW junk \in JunkTags, StoreStage(vals, stRdy, endRdy, junk)
  PROVE  StoreRequestsInOrder'
<1>1. UNCHANGED <<prog, aguSt>>
  BY StepCounters
<1>2. StoreRequestsInOrder /\ stReqPipe \in Seq(StReq)
  BY DEF IInv, TypeOK
<1>3. aguSt \in Nat /\ Len(stReqPipe) \in Nat /\ Accepted \in Nat
  BY InvCounters
<1>4. /\ Len(stReqPipe') <= aguSt' /\ lastStReqTag' = Accepted'
      /\ \A i \in 1 .. Len(stReqPipe') :
           stReqPipe'[i] = [addr |-> prog.stores[Accepted' + i].addr, tag |-> Accepted' + i]
  <2>1. CASE StReqTaken(vals, stRdy)
    <3>1. /\ stReqPipe' = Tail(stReqPipe) /\ stReqPipe # <<>> /\ lastStReqTag' = lastStReqTag + 1
      BY <2>1 DEF StoreStage, StReqTaken
    <3>2. /\ Len(stReqPipe) \in Nat \ {0} /\ Head(stReqPipe) = stReqPipe[1]
          /\ Len(stReqPipe') = Len(stReqPipe) - 1
          /\ \A i \in 1 .. Len(stReqPipe') : stReqPipe'[i] = stReqPipe[i + 1] /\ i + 1 \in 1 .. Len(stReqPipe)
      BY <1>2, <3>1, TailElements
    <3>3. Accepted' = Accepted + 1
      BY <2>1, StepCounters
    <3>4. lastStReqTag' = Accepted'
      BY <1>2, <3>1, <3>3 DEF StoreRequestsInOrder
    <3>5. ASSUME NEW i \in 1 .. Len(stReqPipe')
          PROVE  stReqPipe'[i] = [addr |-> prog.stores[Accepted' + i].addr, tag |-> Accepted' + i]
      <4>1. Accepted + (i + 1) = Accepted' + i
        BY <1>3, <3>3
      <4>2. stReqPipe[i + 1] = [addr |-> prog.stores[Accepted + (i + 1)].addr, tag |-> Accepted + (i + 1)]
        BY <1>2, <3>2 DEF StoreRequestsInOrder
      <4>3. QED
        BY <3>2, <4>1, <4>2
    <3>6. Len(stReqPipe') <= aguSt'
      <4>1. Len(stReqPipe) <= aguSt
        BY <1>2 DEF StoreRequestsInOrder
      <4>2. QED
        BY <1>1, <1>3, <3>2, <4>1
    <3>7. QED
      BY <3>4, <3>5, <3>6
  <2>2. CASE ~StReqTaken(vals, stRdy)
    <3>1. stReqPipe' = stReqPipe /\ lastStReqTag' = lastStReqTag
      BY <2>2 DEF StoreStage
    <3>2. Accepted' = Accepted
      BY <2>2, StepCounters
    <3>3. QED
      BY <1>1, <1>2, <3>1, <3>2 DEF StoreRequestsInOrder
  <2>3. QED
    BY <2>1, <2>2
<1>5. QED
  BY <1>1, <1>4 DEF StoreRequestsInOrder

LEMMA StepStoreValues ==
  ASSUME IInv, NEW vals \in SUBSET StPorts,
         NEW stRdy \in BOOLEAN, NEW endRdy \in BOOLEAN,
         NEW junk \in JunkTags, StoreStage(vals, stRdy, endRdy, junk)
  PROVE  StoreValuesPaired'
<1>1. prog' = prog /\ cuSt' = cuSt
  BY StepCounters
<1>2. StoreValuesPaired /\ stValPipe \in [StPorts -> Seq(StValTok)]
  BY DEF IInv, TypeOK
<1>3. StoreValues(vals)
  BY DEF StoreStage
<1>4. \A k \in Polled(vals) : k \in StPorts /\ k \in vals /\ stValPipe[k] # <<>>
  BY DEF Polled
<1>5. \A w : GoodStVal(w) => (/\ w.value \in 1 .. cuSt' /\ w.tag = w.value
                              /\ w.valid = prog'.stores[w.value].ok)
  BY <1>1 DEF GoodStVal
<1>6. ASSUME NEW k \in StPorts, NEW i \in 1 .. Len(stValPipe'[k])
      PROVE  GoodStVal(stValPipe'[k][i])
  <2>1. stValPipe'[k] = IF k \in Polled(vals) THEN Tail(stValPipe[k]) ELSE stValPipe[k]
    BY <1>3 DEF StoreValues
  <2>2. CASE k \in Polled(vals)
    <3>1. stValPipe'[k] = Tail(stValPipe[k]) /\ stValPipe[k] \in Seq(StValTok) /\ stValPipe[k] # <<>>
      BY <1>2, <1>4, <2>1, <2>2
    <3>2. stValPipe'[k][i] = stValPipe[k][i + 1] /\ i + 1 \in 1 .. Len(stValPipe[k])
      BY <3>1, TailElements
    <3>3. QED
      BY <1>2, <3>2 DEF StoreValuesPaired
  <2>3. CASE k \notin Polled(vals)
    BY <1>2, <2>1, <2>3 DEF StoreValuesPaired
  <2>4. QED
    BY <2>2, <2>3
<1>7. ASSUME NEW k \in StPorts, stValReadSucc'[k]
      PROVE  GoodStVal(stValRead'[k])
  <2>1. CASE ValueMux
    <3>1. /\ stValRead'[k] = IF k \in Polled(vals) THEN Head(stValPipe[k]) ELSE stValRead[k]
          /\ k \in Polled(vals) \/ stValReadSucc[k]
      BY <1>3, <1>7, <2>1 DEF StoreValues
    <3>2. CASE k \in Polled(vals)
      <4>1. stValPipe[k] \in Seq(StValTok) /\ stValPipe[k] # <<>>
        BY <1>2, <1>4, <3>2
      <4>2. Head(stValPipe[k]) = stValPipe[k][1] /\ 1 \in 1 .. Len(stValPipe[k])
        BY <4>1
      <4>3. QED
        BY <1>2, <3>1, <3>2, <4>2 DEF StoreValuesPaired
    <3>3. CASE k \notin Polled(vals)
      BY <1>2, <3>1, <3>3 DEF StoreValuesPaired
    <3>4. QED
      BY <3>2, <3>3
  <2>2. CASE ~ValueMux
    BY <1>2, <1>3, <1>7, <2>2 DEF StoreValues, StoreValuesPaired
  <2>3. QED
    BY <2>1, <2>2
<1>8. ASSUME ValueMux PROVE nextStValTag' = arrived' + 1
  <2>1. nextStValTag = arrived + 1
    BY <1>2, <1>8 DEF StoreValuesPaired
  <2>2. CASE StValArrived(vals)
    <3>1. nextStValTag' = nextStValTag + 1
      BY <1>3, <1>8, <2>2 DEF StoreValues
    <3>2. arrived' = arrived + 1
      BY <2>2, StepCounters
    <3>3. QED
      BY <2>1, <3>1, <3>2
  <2>3. CASE ~StValArrived(vals)
    BY <1>3, <2>1, <2>3 DEF StoreValues
  <2>4. QED
    BY <2>2, <2>3
<1>9. ASSUME ~ValueMux
      PROVE  /\ cuSt = arrived' + Len(stValPipe'[0])
             /\ \A i \in 1 .. Len(stValPipe'[0]) : stValPipe'[0][i].value = arrived' + i
  <2>1. NumStVals = 1
    BY <1>9, SizesAssumption DEF ValueMux
  <2>2. StPorts = {0} /\ stValPipe[0] \in Seq(StValTok) /\ Len(stValPipe[0]) \in Nat
    BY <1>2, <2>1
  <2>3. /\ cuSt = arrived + Len(stValPipe[0])
        /\ \A i \in 1 .. Len(stValPipe[0]) : stValPipe[0][i].value = arrived + i
    BY <1>2, <1>9 DEF StoreValuesPaired
  <2>4. stValPipe'[0] = IF 0 \in Polled(vals) THEN Tail(stValPipe[0]) ELSE stValPipe[0]
    BY <1>3, <2>2 DEF StoreValues
  <2>5. arrived \in Nat /\ cuSt \in Nat
    BY InvCounters
  <2>6. StValArrived(vals) <=> 0 \in Polled(vals)
    <3>1. Polled(vals) \subseteq {0}
      BY <1>4, <2>2
    <3>2. QED
      BY <1>9, <3>1 DEF StValArrived
  <2>7. CASE 0 \in Polled(vals)
    <3>1. arrived' = arrived + 1
      BY <2>6, <2>7, StepCounters
    <3>2. stValPipe'[0] = Tail(stValPipe[0]) /\ stValPipe[0] # <<>>
      BY <1>4, <2>4, <2>7
    <3>3. /\ Len(stValPipe'[0]) = Len(stValPipe[0]) - 1 /\ Len(stValPipe[0]) \in Nat \ {0}
          /\ \A i \in 1 .. Len(stValPipe'[0]) :
               stValPipe'[0][i] = stValPipe[0][i + 1] /\ i + 1 \in 1 .. Len(stValPipe[0])
      BY <2>2, <3>2, TailElements
    <3>4. cuSt = arrived' + Len(stValPipe'[0])
      <4>1. PICK n \in Nat : n = Len(stValPipe[0])
        BY <2>2
      <4>2. cuSt = arrived + n /\ Len(stValPipe'[0]) = n - 1
        BY <2>3, <3>3, <4>1
      <4>3. cuSt = (arrived + 1) + (n - 1)
        BY <2>5, <4>2
      <4>4. QED
        BY <3>1, <4>2, <4>3
    <3>5. ASSUME NEW i \in 1 .. Len(stValPipe'[0])
          PROVE  stValPipe'[0][i].value = arrived' + i
      <4>1. arrived + (i + 1) = arrived' + i
        BY <2>5, <3>1
      <4>2. stValPipe[0][i + 1].value = arrived + (i + 1)
        BY <2>3, <3>3
      <4>3. QED
        BY <3>3, <4>1, <4>2
    <3>6. QED
      BY <3>4, <3>5
  <2>8. CASE 0 \notin Polled(vals)
    <3>1. arrived' = arrived /\ stValPipe'[0] = stValPipe[0]
      BY <2>4, <2>6, <2>8, StepCounters
    <3>2. QED
      BY <2>3, <3>1
  <2>9. QED
    BY <2>7, <2>8
<1>10. \A k \in StPorts : \A i \in 1 .. Len(stValPipe'[k]) : GoodStVal(stValPipe[k][i])'
  BY <1>5, <1>6 DEF GoodStVal
<1>11. \A k \in StPorts : stValReadSucc'[k] => GoodStVal(stValRead[k])'
  BY <1>5, <1>7 DEF GoodStVal
<1>12. QED
  BY <1>1, <1>8, <1>9, <1>10, <1>11 DEF StoreValuesPaired, ValueMux

LEMMA StepStoreQueue ==
  ASSUME IInv, NEW vals \in SUBSET StPorts,
         NEW stRdy \in BOOLEAN, NEW endRdy \in BOOLEAN,
         NEW junk \in JunkTags, StoreStage(vals, stRdy, endRdy, junk)
  PROVE  StoreQueueHoldsPending'
<1>1. prog' = prog /\ arrived' <= Accepted'
  <2>1. prog' = prog /\ arrived' \in Nat /\ Accepted' \in Nat /\ arrived' <= Accepted /\ Accepted <= Accepted'
    BY StepCounters
  <2>2. Accepted \in Nat
    BY InvCounters
  <2>3. QED
    BY <2>1, <2>2
<1>2. stQ' = StQAfterShift(vals, stRdy, junk)
  BY DEF StoreStage
<1>3. HoldsStores(stQ, arrived, Accepted)
  BY DEF IInv, StoreQueueHoldsPending
<1>4. SUFFICES HoldsStores(stQ', arrived', Accepted')
  BY <1>1 DEF StoreQueueHoldsPending, HoldsStores
<1>5. CASE ~StQShifts(vals)
  <2>1. stQ' = stQ /\ ~StValArrived(vals) /\ ~StReqTaken(vals, stRdy)
    BY <1>2, <1>5 DEF StQAfterShift, StQShifts, StReqTaken
  <2>2. arrived' = arrived /\ Accepted' = Accepted
    BY <2>1, StepCounters
  <2>3. QED
    BY <1>3, <2>1, <2>2
<1>6. CASE StQShifts(vals)
  <2>1. PICK lo \in Nat, hi \in Nat : lo = arrived' /\ hi = Accepted'
    BY StepCounters
  <2>2. /\ StQSize \in Nat /\ StQSize >= 2 /\ 1 \in 1 .. StQSize /\ StQSize \in 1 .. StQSize
        /\ arrived \in Nat /\ Accepted \in Nat /\ arrived <= Accepted
        /\ arrived <= lo /\ lo <= hi /\ lo <= Accepted
    <3>1. StQSize \in Nat /\ StQSize >= 2 /\ 1 \in 1 .. StQSize /\ StQSize \in 1 .. StQSize
      BY QueueAssumption
    <3>2. arrived \in Nat /\ Accepted \in Nat /\ arrived <= Accepted
      BY InvCounters
    <3>3. arrived <= lo /\ lo <= hi /\ lo <= Accepted
      BY <1>1, <2>1, StepCounters
    <3>4. QED
      BY <3>1, <3>2, <3>3
  <2>. DEFINE e == NewStEntry(vals, stRdy, junk)
  <2>3. \A i \in 1 .. StQSize : stQ'[i] = IF i < StQSize THEN stQ[i + 1] ELSE e
    BY <1>2, <1>6 DEF StQAfterShift
  (* The head leaves with its value, or was a bubble. *)
  <2>4. /\ stQ[1].valid => stQ[1].tag = arrived + 1 /\ lo = arrived + 1
        /\ ~stQ[1].valid => lo = arrived
    <3>1. stQ[1].valid <=> StValArrived(vals)
      BY <1>6, ArrivingValue DEF StQShifts
    <3>2. QED
      BY <2>1, <3>1, HeadStore, StepCounters
  <2>5. ASSUME NEW i \in 2 .. StQSize, stQ[i].valid
        PROVE  stQ[i].tag \in lo + 1 .. Accepted /\ stQ[i].addr = prog.stores[stQ[i].tag].addr
    <3>1. i \in 1 .. StQSize /\ 1 < i
      BY <2>2
    <3>2. stQ[i].tag \in arrived + 1 .. Accepted /\ stQ[i].addr = prog.stores[stQ[i].tag].addr
      BY <1>3, <2>5, <3>1 DEF HoldsStores
    <3>3. stQ[1].valid => stQ[1].tag < stQ[i].tag
      BY <1>3, <2>2, <2>5, <3>1 DEF HoldsStores
    <3>4. QED
      BY <2>2, <2>4, <3>2, <3>3
  (* The new entry is the next request, or a bubble. *)
  <2>6. /\ e.valid <=> StReqTaken(vals, stRdy)
        /\ e.valid => /\ e.tag = Accepted + 1 /\ e.addr = prog.stores[Accepted + 1].addr
                      /\ hi = Accepted + 1
        /\ ~e.valid => e.addr = InvalidAddr /\ hi = Accepted
    <3>1. CASE StReqTaken(vals, stRdy)
      <4>1. e.valid /\ e.tag = Head(stReqPipe).tag /\ e.addr = Head(stReqPipe).addr
        BY <3>1 DEF NewStEntry
      <4>2. stReqPipe # <<>> /\ stReqPipe \in Seq(StReq) /\ StoreRequestsInOrder
        BY <3>1 DEF StReqTaken, IInv, TypeOK
      <4>3. 1 \in 1 .. Len(stReqPipe) /\ Head(stReqPipe) = stReqPipe[1]
        BY <4>2
      <4>4. hi = Accepted + 1
        BY <2>1, <3>1, StepCounters
      <4>5. stReqPipe[1] = [addr |-> prog.stores[Accepted + 1].addr, tag |-> Accepted + 1]
        BY <4>2, <4>3 DEF StoreRequestsInOrder
      <4>6. Head(stReqPipe).tag = Accepted + 1 /\ Head(stReqPipe).addr = prog.stores[Accepted + 1].addr
        BY <4>3, <4>5
      <4>7. QED
        BY <3>1, <4>1, <4>4, <4>6
    <3>2. CASE ~StReqTaken(vals, stRdy)
      BY <2>1, <3>2, StepCounters DEF NewStEntry
    <3>3. QED
      BY <3>1, <3>2
  <2>. HIDE DEF e
  <2>7. hi = Accepted \/ hi = Accepted + 1
    BY <2>6
  <2>8. ASSUME NEW i \in 1 .. StQSize
        PROVE  IF stQ'[i].valid
               THEN stQ'[i].tag \in lo + 1 .. hi /\ stQ'[i].addr = prog.stores[stQ'[i].tag].addr
               ELSE stQ'[i].addr = InvalidAddr
    <3>1. CASE i < StQSize
      <4>1. stQ'[i] = stQ[i + 1] /\ i + 1 \in 2 .. StQSize /\ i + 1 \in 1 .. StQSize
        BY <2>2, <2>3, <3>1
      <4>2. CASE stQ[i + 1].valid
        <5>1. stQ[i + 1].tag \in lo + 1 .. Accepted /\ stQ[i + 1].addr = prog.stores[stQ[i + 1].tag].addr
          BY <2>5, <4>1, <4>2
        <5>2. stQ[i + 1].tag \in lo + 1 .. hi
          BY <2>2, <2>7, <5>1
        <5>3. QED
          BY <4>1, <4>2, <5>1, <5>2
      <4>3. CASE ~stQ[i + 1].valid
        BY <1>3, <4>1, <4>3 DEF HoldsStores
      <4>4. QED
        BY <4>2, <4>3
    <3>2. CASE i = StQSize
      <4>1. stQ'[i] = e
        BY <2>2, <2>3, <3>2
      <4>2. e.valid => Accepted + 1 \in lo + 1 .. hi
        <5>1. e.valid => hi = Accepted + 1
          BY <2>6
        <5>2. QED
          BY <2>2, <5>1
      <4>3. QED
        BY <2>6, <4>1, <4>2
    <3>3. QED
      BY <2>2, <3>1, <3>2
  <2>9. ASSUME NEW i \in 1 .. StQSize, NEW j \in 1 .. StQSize, i < j, stQ'[i].valid, stQ'[j].valid
        PROVE  stQ'[i].tag < stQ'[j].tag
    <3>1. i < StQSize /\ stQ'[i] = stQ[i + 1] /\ i + 1 \in 2 .. StQSize /\ i + 1 \in 1 .. StQSize
      BY <2>2, <2>3, <2>9
    <3>2. CASE j < StQSize
      <4>1. stQ'[j] = stQ[j + 1] /\ j + 1 \in 1 .. StQSize /\ i + 1 < j + 1
        BY <2>2, <2>3, <2>9, <3>2
      <4>2. QED
        BY <1>3, <2>9, <3>1, <4>1 DEF HoldsStores
    <3>3. CASE j = StQSize
      <4>1. stQ'[j] = e /\ e.tag = Accepted + 1
        BY <2>2, <2>3, <2>6, <2>9, <3>3
      <4>2. stQ[i + 1].tag \in lo + 1 .. Accepted
        BY <2>5, <2>9, <3>1
      <4>3. QED
        BY <2>2, <3>1, <4>1, <4>2
    <3>4. QED
      BY <2>2, <3>2, <3>3
  <2>10. ASSUME NEW s \in lo + 1 .. hi
        PROVE  \E i \in 1 .. StQSize : stQ'[i].valid /\ stQ'[i].tag = s
    <3>1. CASE s <= Accepted
      <4>1. s \in arrived + 1 .. Accepted
        BY <2>2, <3>1
      <4>2. PICK i \in 1 .. StQSize : stQ[i].valid /\ stQ[i].tag = s
        BY <1>3, <4>1 DEF HoldsStores
      <4>3. i # 1
        <5>1. stQ[1].valid => stQ[1].tag = lo
          BY <2>4
        <5>2. s # lo
          BY <2>2
        <5>3. QED
          BY <4>2, <5>1, <5>2
      <4>4. i - 1 \in 1 .. StQSize /\ i - 1 < StQSize /\ (i - 1) + 1 = i
        BY <2>2, <4>3
      <4>5. stQ'[i - 1] = stQ[i]
        BY <2>3, <4>4
      <4>6. QED
        BY <4>2, <4>4, <4>5
    <3>2. CASE s > Accepted
      <4>1. s = Accepted + 1 /\ e.valid
        BY <2>2, <2>6, <2>7, <3>2
      <4>2. stQ'[StQSize] = e
        BY <2>2, <2>3
      <4>3. QED
        BY <2>2, <2>6, <4>1, <4>2
    <3>3. QED
      BY <2>2, <3>1, <3>2
  <2>11. QED
    BY <2>1, <2>8, <2>9, <2>10 DEF HoldsStores
<1>7. QED
  BY <1>5, <1>6

(* The store stage: what commits. *)
LEMMA StepCommits ==
  ASSUME IInv, NEW vals \in SUBSET StPorts,
         NEW stRdy \in BOOLEAN, NEW endRdy \in BOOLEAN,
         NEW junk \in JunkTags, StoreStage(vals, stRdy, endRdy, junk)
  PROVE  /\ StValValid(vals) =>
              /\ arrived' = arrived + 1 /\ arrived + 1 <= cuSt
              /\ StVal.value = arrived + 1 /\ stQ[1].addr = prog.stores[arrived + 1].addr
              /\ stQ[1].addr \in Addr /\ Writes(prog, arrived + 1, stQ[1].addr)
         /\ ~StValValid(vals) =>
              \A s \in arrived + 1 .. arrived' : \A a : ~Writes(prog, s, a)
<1>1. arrived' = IF StValArrived(vals) THEN arrived + 1 ELSE arrived
  BY StepCounters
<1>2. arrived \in Nat
  BY InvCounters
<1>3. StValValid(vals) <=> StValArrived(vals) /\ prog.stores[arrived + 1].ok
  BY CommitIffNotPoisoned
<1>4. CASE StValValid(vals)
  <2>1. /\ StVal.value = arrived + 1 /\ stQ[1].addr = prog.stores[arrived + 1].addr
        /\ arrived + 1 <= cuSt /\ arrived + 1 \in 1 .. Len(prog.stores)
    BY <1>3, <1>4, ArrivingValue, HeadStore
  <2>2. prog.stores[arrived + 1].addr \in Addr
    BY <2>1, ProgOps DEF IInv
  <2>3. QED
    BY <1>1, <1>3, <1>4, <2>1, <2>2 DEF Writes
<1>5. CASE ~StValValid(vals)
  <2>1. ASSUME NEW s \in arrived + 1 .. arrived' PROVE s = arrived + 1 /\ ~prog.stores[s].ok
    BY <1>1, <1>2, <1>3, <1>5
  <2>2. QED
    BY <1>5, <2>1 DEF Writes
<1>6. QED
  BY <1>4, <1>5

LEMMA StepStorePort ==
  ASSUME IInv, NEW vals \in SUBSET StPorts,
         NEW stRdy \in BOOLEAN, NEW endRdy \in BOOLEAN,
         NEW junk \in JunkTags, StoreStage(vals, stRdy, endRdy, junk)
  PROVE  /\ Len(stPortPipe) \in Nat
         /\ \A i \in 1 .. Len(stPortPipe) :
              /\ stPortPipe'[i].addr = stPortPipe[i].addr
              /\ stPortPipe'[i].value = stPortPipe[i].value
              /\ stPortPipe'[i].age = stPortPipe[i].age + 1
              /\ stPortPipe[i].age \in Nat /\ stPortPipe[i].age < StoreLatency
              /\ i \in 1 .. Len(stPortPipe')
         /\ \A i \in 1 .. Len(stPortPipe') :
              i \in 1 .. Len(stPortPipe) \/ (i = Len(stPortPipe) + 1 /\ StValValid(vals))
         /\ StValValid(vals) =>
              /\ stPortPipe'[Len(stPortPipe) + 1] = [addr |-> stQ[1].addr, value |-> arrived + 1, age |-> 0]
              /\ Len(stPortPipe) + 1 \in 1 .. Len(stPortPipe')
<1>. DEFINE L == Len(stPortPipe)
            old == [i \in 1 .. L |-> Older(stPortPipe[i])]
            w == [addr |-> stQ[1].addr, value |-> arrived + 1, age |-> 0]
<1>1. stPortPipe \in Seq(PortWrite) /\ L \in Nat
  BY DEF IInv, TypeOK
<1>2. ASSUME NEW i \in 1 .. L
      PROVE  /\ Older(stPortPipe[i]) \in PortWrite
             /\ Older(stPortPipe[i]).addr = stPortPipe[i].addr
             /\ Older(stPortPipe[i]).value = stPortPipe[i].value
             /\ Older(stPortPipe[i]).age = stPortPipe[i].age + 1
             /\ stPortPipe[i].age \in Nat /\ stPortPipe[i].age < StoreLatency
  <2>1. stPortPipe[i] \in PortWrite
    BY <1>1
  <2>2. stPortPipe[i].age < StoreLatency
    BY DEF StoreStage
  <2>3. QED
    BY <2>1, <2>2 DEF PortWrite, Older
<1>3. stPortPipe' = IF StValValid(vals) THEN Append(old, [w EXCEPT !.value = StVal.value]) ELSE old
  BY DEF StoreStage, StorePortWrite
<1>4. StValValid(vals) => StVal.value = arrived + 1 /\ stQ[1].addr \in Addr /\ arrived + 1 \in Nat
  BY StepCommits, InvCounters
<1>5. StValValid(vals) => w \in PortWrite /\ [w EXCEPT !.value = StVal.value] = w
  BY <1>4 DEF PortWrite
<1>. HIDE DEF w
<1>6. old \in Seq(PortWrite) /\ Len(old) = L /\ \A i \in 1 .. L : old[i] = Older(stPortPipe[i])
  BY <1>1, <1>2
<1>. HIDE DEF old
<1>7. CASE StValValid(vals)
  <2>1. stPortPipe' = Append(old, w)
    BY <1>3, <1>5, <1>7
  <2>2. /\ Len(stPortPipe') = L + 1
        /\ \A i \in 1 .. L : stPortPipe'[i] = old[i]
        /\ stPortPipe'[L + 1] = w
    BY <1>5, <1>6, <1>7, <2>1, AppendElements
  <2>3. \A i \in 1 .. L : i \in 1 .. Len(stPortPipe')
    BY <1>1, <2>2
  <2>4. \A i \in 1 .. Len(stPortPipe') : i \in 1 .. L \/ i = L + 1
    BY <1>1, <2>2
  <2>5. L + 1 \in 1 .. Len(stPortPipe')
    BY <1>1, <2>2
  <2>6. QED
    BY <1>1, <1>2, <1>6, <1>7, <2>2, <2>3, <2>4, <2>5 DEF w
<1>8. CASE ~StValValid(vals)
  BY <1>1, <1>2, <1>3, <1>6, <1>8
<1>9. QED
  BY <1>7, <1>8

LEMMA StepCommitQ ==
  ASSUME IInv, NEW vals \in SUBSET StPorts,
         NEW stRdy \in BOOLEAN, NEW endRdy \in BOOLEAN,
         NEW junk \in JunkTags, StoreStage(vals, stRdy, endRdy, junk)
  PROVE  \/ commitQ' = commitQ /\ ~StValValid(vals)
         \/ /\ \A i \in 1 .. CommitQSize : i < CommitQSize => commitQ'[i] = commitQ[i + 1]
            /\ StValValid(vals) => commitQ'[CommitQSize] = [addr |-> stQ[1].addr, value |-> arrived + 1]
            /\ ~StValValid(vals) => commitQ'[CommitQSize].addr = InvalidAddr
<1>1. commitQ' = CommitQAfterShift(vals)
  BY DEF StoreStage
<1>2. StValValid(vals) => StVal.value = arrived + 1
  BY StepCommits
<1>3. CommitQSize \in 1 .. CommitQSize /\ ~(CommitQSize < CommitQSize)
  BY QueueAssumption
<1>4. CASE ~CommitShifts(vals)
  BY <1>1, <1>4 DEF CommitQAfterShift, CommitShifts
<1>5. CASE CommitShifts(vals)
  <2>1. commitQ' = [i \in 1 .. CommitQSize |-> IF i < CommitQSize THEN commitQ[i + 1] ELSE NewCommit(vals)]
    BY <1>1, <1>5 DEF CommitQAfterShift
  <2>2. commitQ'[CommitQSize] = NewCommit(vals)
    BY <1>3, <2>1
  <2>3. QED
    BY <1>2, <2>1, <2>2 DEF NewCommit, NoCommit
<1>6. QED
  BY <1>4, <1>5

(* A store stays in the commit queue for as many iterations as it is long:  *)
(* it moves at most one slot per iteration.                                 *)
LEMMA StepCommitQueue ==
  ASSUME IInv, NEW vals \in SUBSET StPorts,
         NEW stRdy \in BOOLEAN, NEW endRdy \in BOOLEAN,
         NEW junk \in JunkTags, StoreStage(vals, stRdy, endRdy, junk)
  PROVE  CommitQueueIsRecent'
<1>. DEFINE C == CommitQSize
<1>1. C \in Nat /\ arrived \in Nat /\ arrived' \in Nat /\ arrived <= arrived' /\ prog' = prog
      /\ C \in 1 .. C
  <2>1. C \in Nat /\ C \in 1 .. C
    BY QueueAssumption
  <2>2. arrived' \in Nat /\ arrived <= arrived' /\ prog' = prog
    BY StepCounters
  <2>3. QED
    BY <2>1, <2>2, InvCounters
<1>2. CommitQueueIsRecent
  BY DEF IInv
<1>3. /\ StValValid(vals) =>
              /\ arrived' = arrived + 1 /\ Writes(prog, arrived + 1, stQ[1].addr)
      /\ ~StValValid(vals) =>
              \A s \in arrived + 1 .. arrived' : \A a : ~Writes(prog, s, a)
  BY StepCommits
<1>4. \A s \in 1 .. arrived : s \in 1 .. arrived'
  BY <1>1
<1>. DEFINE Recent(i) ==
       /\ commitQ'[i].value \in 1 .. arrived' /\ Writes(prog, commitQ'[i].value, commitQ'[i].addr)
       /\ \A s \in commitQ'[i].value + 1 .. arrived' : Writes(prog, s, commitQ'[i].addr) =>
            \E j \in i + 1 .. C : commitQ'[j] = [addr |-> commitQ'[i].addr, value |-> s]
<1>5. SUFFICES ASSUME NEW i \in 1 .. C, commitQ'[i].addr # InvalidAddr PROVE Recent(i)
  BY <1>1 DEF CommitQueueIsRecent, IsWrite
<1>6. CASE commitQ' = commitQ /\ ~StValValid(vals)
  <2>1. /\ commitQ[i].value \in 1 .. arrived /\ Writes(prog, commitQ[i].value, commitQ[i].addr)
        /\ \A s \in commitQ[i].value + 1 .. arrived : Writes(prog, s, commitQ[i].addr) =>
             \E j \in i + 1 .. C : commitQ[j] = [addr |-> commitQ[i].addr, value |-> s]
    BY <1>2, <1>5, <1>6 DEF CommitQueueIsRecent, IsWrite
  <2>2. \A s \in commitQ[i].value + 1 .. arrived' :
           s \in commitQ[i].value + 1 .. arrived \/ s \in arrived + 1 .. arrived'
    BY <1>1, <2>1
  <2>3. QED
    BY <1>3, <1>4, <1>6, <2>1, <2>2
<1>7. CASE /\ \A n \in 1 .. C : n < C => commitQ'[n] = commitQ[n + 1]
           /\ StValValid(vals) => commitQ'[C] = [addr |-> stQ[1].addr, value |-> arrived + 1]
           /\ ~StValValid(vals) => commitQ'[C].addr = InvalidAddr
  <2>1. CASE i < C
    <3>1. commitQ'[i] = commitQ[i + 1] /\ i + 1 \in 1 .. C
      BY <1>1, <1>7, <2>1
    <3>2. PICK v, a : v = commitQ'[i].value /\ a = commitQ'[i].addr
      OBVIOUS
    <3>3. /\ v \in 1 .. arrived /\ Writes(prog, v, a)
          /\ \A s \in v + 1 .. arrived : Writes(prog, s, a) =>
               \E j \in (i + 1) + 1 .. C : commitQ[j] = [addr |-> a, value |-> s]
      BY <1>2, <1>5, <3>1, <3>2 DEF CommitQueueIsRecent, IsWrite
    <3>4. ASSUME NEW s \in v + 1 .. arrived', Writes(prog, s, a)
          PROVE  \E j \in i + 1 .. C : commitQ'[j] = [addr |-> a, value |-> s]
      <4>1. CASE s <= arrived
        <5>1. s \in v + 1 .. arrived
          BY <1>1, <3>3, <4>1
        <5>2. PICK j \in (i + 1) + 1 .. C : commitQ[j] = [addr |-> a, value |-> s]
          BY <3>3, <3>4, <5>1
        <5>3. j - 1 \in i + 1 .. C /\ j - 1 \in 1 .. C /\ j - 1 < C /\ (j - 1) + 1 = j
          BY <1>1, <5>2
        <5>4. commitQ'[j - 1] = commitQ[j]
          BY <1>7, <5>3
        <5>5. QED
          BY <5>2, <5>3, <5>4
      <4>2. CASE ~(s <= arrived)
        <5>1. s \in arrived + 1 .. arrived'
          BY <1>1, <3>3, <4>2
        <5>2. StValValid(vals)
          BY <1>3, <3>4, <5>1
        <5>3. s = arrived + 1
          BY <1>1, <1>3, <5>1, <5>2
        <5>4. commitQ'[C] = [addr |-> stQ[1].addr, value |-> s] /\ stQ[1].addr = a
          BY <1>3, <1>7, <3>4, <5>2, <5>3 DEF Writes
        <5>5. C \in i + 1 .. C
          BY <1>1, <2>1
        <5>6. QED
          BY <5>4, <5>5
      <4>3. QED
        BY <4>1, <4>2
    <3>5. v \in 1 .. arrived'
      BY <1>4, <3>3
    <3>6. QED
      BY <3>2, <3>3, <3>4, <3>5
  <2>2. CASE i = C
    <3>1. StValValid(vals) /\ commitQ'[i] = [addr |-> stQ[1].addr, value |-> arrived + 1]
      BY <1>5, <1>7, <2>2
    <3>2. arrived' = arrived + 1 /\ Writes(prog, arrived + 1, stQ[1].addr)
      BY <1>3, <3>1
    <3>3. arrived + 1 \in 1 .. arrived' /\ ~\E s \in (arrived + 1) + 1 .. arrived' : TRUE
      BY <1>1, <3>2
    <3>4. QED
      BY <3>1, <3>2, <3>3
  <2>3. QED
    BY <1>1, <2>1, <2>2
<1>8. QED
  BY <1>6, <1>7, StepCommitQ

LEMMA StepPortOrder ==
  ASSUME IInv, NEW vals \in SUBSET StPorts,
         NEW stRdy \in BOOLEAN, NEW endRdy \in BOOLEAN,
         NEW junk \in JunkTags, StoreStage(vals, stRdy, endRdy, junk)
  PROVE  StorePortInOrder'
<1>. DEFINE C == CommitQSize
            L == Len(stPortPipe)
<1>1. C \in Nat /\ C \in 1 .. C /\ arrived \in Nat /\ arrived' \in Nat /\ arrived <= arrived' /\ prog' = prog
  <2>1. C \in Nat /\ C \in 1 .. C
    BY QueueAssumption
  <2>2. arrived' \in Nat /\ arrived <= arrived' /\ prog' = prog
    BY StepCounters
  <2>3. QED
    BY <2>1, <2>2, InvCounters
<1>2. StorePortInOrder
  BY DEF IInv
<1>3. /\ L \in Nat
      /\ \A i \in 1 .. L :
              /\ stPortPipe'[i].addr = stPortPipe[i].addr
              /\ stPortPipe'[i].value = stPortPipe[i].value
              /\ stPortPipe'[i].age = stPortPipe[i].age + 1
              /\ stPortPipe[i].age \in Nat
      /\ \A i \in 1 .. Len(stPortPipe') :
              i \in 1 .. L \/ (i = L + 1 /\ StValValid(vals))
      /\ StValValid(vals) =>
           stPortPipe'[L + 1] = [addr |-> stQ[1].addr, value |-> arrived + 1, age |-> 0]
  BY StepStorePort
<1>. HIDE DEF L
<1>4. StValValid(vals) => arrived' = arrived + 1 /\ Writes(prog, arrived + 1, stQ[1].addr)
  BY StepCommits
<1>. DEFINE Kept(w) == \E j \in C - w.age .. C : commitQ'[j] = [addr |-> w.addr, value |-> w.value]
            Good(w) == w.value \in 1 .. arrived' /\ Writes(prog, w.value, w.addr)
<1>5. ASSUME NEW i \in 1 .. L
      PROVE  Good(stPortPipe'[i]) /\ (stPortPipe'[i].age < C => Kept(stPortPipe'[i]))
  <2>1. stPortPipe[i].value \in 1 .. arrived /\ Writes(prog, stPortPipe[i].value, stPortPipe[i].addr)
    BY <1>2 DEF StorePortInOrder, IsWrite, L
  <2>2. Good(stPortPipe'[i])
    BY <1>1, <1>3, <2>1
  <2>3. ASSUME stPortPipe'[i].age < C PROVE Kept(stPortPipe'[i])
    <3>1. PICK g \in Nat : g = stPortPipe[i].age
      BY <1>3
    <3>2. stPortPipe'[i].age = g + 1 /\ g + 1 < C /\ g < C
      BY <1>1, <1>3, <2>3, <3>1
    <3>3. Remembered(stPortPipe[i])
      BY <1>2, <3>1, <3>2 DEF StorePortInOrder, L
    <3>4. PICK j \in C - g .. C : commitQ[j] = [addr |-> stPortPipe[i].addr, value |-> stPortPipe[i].value]
      BY <3>1, <3>3 DEF Remembered
    <3>5. j \in C - (g + 1) .. C /\ j - 1 \in C - (g + 1) .. C /\ j - 1 \in 1 .. C /\ j - 1 < C /\ (j - 1) + 1 = j
      BY <1>1, <3>2, <3>4
    <3>6. commitQ' = commitQ \/ commitQ'[j - 1] = commitQ[j]
      BY <3>5, StepCommitQ
    <3>7. \E n \in C - (g + 1) .. C : commitQ'[n] = commitQ[j]
      BY <3>5, <3>6
    <3>8. QED
      BY <1>3, <3>2, <3>4, <3>7
  <2>4. QED
    BY <2>2, <2>3
<1>6. ASSUME StValValid(vals) PROVE Good(stPortPipe'[L + 1]) /\ Kept(stPortPipe'[L + 1])
  <2>1. Good(stPortPipe'[L + 1])
    BY <1>1, <1>3, <1>4, <1>6
  <2>2. commitQ'[C] = [addr |-> stQ[1].addr, value |-> arrived + 1]
    BY <1>6, StepCommitQ
  <2>3. C \in C - 0 .. C
    BY <1>1
  <2>4. QED
    BY <1>3, <1>6, <2>1, <2>2, <2>3
<1>7. \A i \in 1 .. Len(stPortPipe') : Good(stPortPipe'[i]) /\ (stPortPipe'[i].age < C => Kept(stPortPipe'[i]))
  BY <1>3, <1>5, <1>6
<1>8. ASSUME NEW i \in 1 .. Len(stPortPipe'), NEW j \in 1 .. Len(stPortPipe'), i < j
      PROVE  stPortPipe'[i].value < stPortPipe'[j].value
  <2>1. i \in 1 .. L
    BY <1>3, <1>8
  <2>2. CASE j \in 1 .. L
    BY <1>2, <1>3, <1>8, <2>1, <2>2 DEF StorePortInOrder, L
  <2>3. CASE j = L + 1 /\ StValValid(vals)
    <3>1. stPortPipe[i].value \in 1 .. arrived
      BY <1>2, <2>1 DEF StorePortInOrder, IsWrite, L
    <3>2. QED
      BY <1>1, <1>3, <2>1, <2>3, <3>1
  <2>4. QED
    BY <1>3, <2>2, <2>3
<1>9. QED
  BY <1>1, <1>7, <1>8 DEF StorePortInOrder, IsWrite, Remembered

(* The store stage: memory with the writes still to land. *)
LEMMA StepMemory ==
  ASSUME IInv, NEW vals \in SUBSET StPorts,
         NEW stRdy \in BOOLEAN, NEW endRdy \in BOOLEAN,
         NEW junk \in JunkTags, StoreStage(vals, stRdy, endRdy, junk)
  PROVE  MemoryIsProgramPrefix'
<1>. DEFINE L == Len(stPortPipe)
<1>1. arrived \in Nat /\ arrived' \in Nat /\ arrived <= arrived' /\ prog' = prog /\ data' = data
  <2>1. arrived' \in Nat /\ arrived <= arrived' /\ prog' = prog
    BY StepCounters
  <2>2. QED
    BY <2>1, InvCounters DEF StoreStage
<1>2. /\ StValValid(vals) =>
           arrived' = arrived + 1 /\ Writes(prog, arrived + 1, stQ[1].addr)
      /\ ~StValValid(vals) =>
           \A s \in arrived + 1 .. arrived' : \A a : ~Writes(prog, s, a)
  BY StepCommits
<1>3. /\ L \in Nat
      /\ \A i \in 1 .. L :
              /\ stPortPipe'[i].addr = stPortPipe[i].addr
              /\ stPortPipe'[i].value = stPortPipe[i].value
              /\ i \in 1 .. Len(stPortPipe')
      /\ \A i \in 1 .. Len(stPortPipe') :
              i \in 1 .. L \/ (i = L + 1 /\ StValValid(vals))
      /\ StValValid(vals) =>
           /\ stPortPipe'[L + 1] = [addr |-> stQ[1].addr, value |-> arrived + 1, age |-> 0]
           /\ L + 1 \in 1 .. Len(stPortPipe')
  BY StepStorePort
<1>. HIDE DEF L
<1>4. ASSUME NEW a \in Addr PROVE IsLatest(prog, Committed(a)', a, arrived')
  <2>1. IsLatest(prog, Committed(a), a, arrived)
    BY DEF IInv, MemoryIsProgramPrefix
  <2>2. CASE StValValid(vals) /\ stQ[1].addr = a
    <3>1. PICK n \in Nat : n = arrived + 1
      BY <1>1
    <3>2. n \in Issued(a)'
      BY <1>3, <2>2, <3>1 DEF Issued
    <3>3. \A x \in Issued(a)' : x <= n /\ x \in Nat
      <4>1. \A i \in 1 .. L : stPortPipe[i].value \in 1 .. arrived
        BY DEF IInv, StorePortInOrder, IsWrite, L
      <4>2. \A i \in 1 .. Len(stPortPipe') : stPortPipe'[i].value \in 1 .. arrived \/ stPortPipe'[i].value = n
        BY <1>3, <3>1, <4>1
      <4>3. \A i \in 1 .. Len(stPortPipe') : stPortPipe'[i].value <= n /\ stPortPipe'[i].value \in Nat
        BY <1>1, <3>1, <4>2
      <4>4. QED
        BY <4>3 DEF Issued
    <3>4. Committed(a)' = CHOOSE v \in Issued(a)' : \A x \in Issued(a)' : x <= v
      BY <3>2 DEF Committed
    <3>5. ASSUME NEW v \in Issued(a)', \A x \in Issued(a)' : x <= v PROVE v = n
      <4>1. v <= n /\ n <= v /\ v \in Nat
        BY <3>2, <3>3, <3>5
      <4>2. QED
        BY <4>1
    <3>6. Committed(a)' = n
      BY <3>2, <3>3, <3>4, <3>5
    <3>7. IsLatest(prog, n, a, n)
      BY <1>2, <2>2, <3>1 DEF IsLatest
    <3>8. QED
      BY <1>2, <2>2, <3>1, <3>6, <3>7
  <2>3. CASE ~(StValValid(vals) /\ stQ[1].addr = a)
    <3>1. Issued(a)' = Issued(a)
      <4>1. ASSUME NEW x \in Issued(a) PROVE x \in Issued(a)'
        <5>1. PICK i \in 1 .. L : stPortPipe[i].addr = a /\ x = stPortPipe[i].value
          BY DEF Issued, L
        <5>2. QED
          BY <1>3, <5>1 DEF Issued
      <4>2. ASSUME NEW x \in Issued(a)' PROVE x \in Issued(a)
        <5>1. PICK i \in 1 .. Len(stPortPipe') : stPortPipe'[i].addr = a /\ x = stPortPipe'[i].value
          BY DEF Issued
        <5>2. i \in 1 .. L
          BY <1>3, <2>3, <5>1
        <5>3. QED
          BY <1>3, <5>1, <5>2 DEF Issued, L
      <4>3. QED
        BY <4>1, <4>2
    <3>2. Committed(a)' = Committed(a)
      BY <1>1, <3>1 DEF Committed
    <3>3. \A s \in arrived + 1 .. arrived' : ~Writes(prog, s, a)
      <4>1. CASE StValValid(vals)
        <5>1. \A s \in arrived + 1 .. arrived' : s = arrived + 1
          BY <1>1, <1>2, <4>1
        <5>2. QED
          BY <1>2, <2>3, <4>1, <5>1 DEF Writes
      <4>2. CASE ~StValValid(vals)
        BY <1>2, <4>2
      <4>3. QED
        BY <4>1, <4>2
    <3>4. QED
      BY <1>1, <2>1, <3>2, <3>3, LatestExtends
  <2>4. QED
    BY <2>2, <2>3
<1>5. QED
  BY <1>1, <1>4 DEF MemoryIsProgramPrefix, IsLatest, Writes

LEMMA RangeShrinks ==
  ASSUME NEW a \in Nat, NEW b \in Nat, a <= b, NEW t \in Nat
  PROVE  \A s \in b + 1 .. t : s \in a + 1 .. t
OBVIOUS

(* The store stage: loads that are safe, or on their way to memory, stay    *)
(* clear of the store that commits, because they are younger.               *)
LEMMA StepHazards ==
  ASSUME IInv, NEW vals \in SUBSET StPorts,
         NEW stRdy \in BOOLEAN, NEW endRdy \in BOOLEAN,
         NEW junk \in JunkTags, StoreStage(vals, stRdy, endRdy, junk)
  PROVE  /\ SafeLoadHasNoHazard' /\ FetchedLoadsAreClear'
         /\ MemoryReadsAreSettled' /\ SafeLoadsAreReady'
<1>. DEFINE L == Len(stPortPipe)
            n == arrived + 1
<1>1. /\ arrived \in Nat /\ arrived' \in Nat /\ arrived <= arrived' /\ prog' = prog
      /\ ldQ' = ldQ /\ addrPipe' = addrPipe /\ stage = 0 /\ stage' = 1
      /\ Accepted \in Nat /\ Accepted' \in Nat /\ Accepted <= Accepted'
  <2>1. arrived' \in Nat /\ arrived <= arrived' /\ prog' = prog /\ Accepted' \in Nat /\ Accepted <= Accepted'
    BY StepCounters
  <2>2. QED
    BY <2>1, InvCounters DEF StoreStage
<1>2. StValValid(vals) => n <= cuSt /\ stQ[1].addr = prog.stores[n].addr
  BY StepCommits
<1>3. /\ \A i \in 1 .. L :
              /\ stPortPipe'[i].addr = stPortPipe[i].addr
              /\ stPortPipe[i].age \in Nat /\ stPortPipe[i].age < StoreLatency
      /\ \A i \in 1 .. Len(stPortPipe') :
              i \in 1 .. L \/ (i = L + 1 /\ StValValid(vals))
      /\ StValValid(vals) => stPortPipe'[L + 1].addr = stQ[1].addr
  <2>1. StValValid(vals) =>
          stPortPipe'[L + 1] = [addr |-> stQ[1].addr, value |-> arrived + 1, age |-> 0]
    BY StepStorePort
  <2>2. \A i \in 1 .. L :
              /\ stPortPipe'[i].addr = stPortPipe[i].addr
              /\ stPortPipe[i].age \in Nat /\ stPortPipe[i].age < StoreLatency
    BY StepStorePort
  <2>3. \A i \in 1 .. Len(stPortPipe') :
              i \in 1 .. L \/ (i = L + 1 /\ StValValid(vals))
    BY StepStorePort
  <2>4. QED
    BY <2>1, <2>2, <2>3
<1>. HIDE DEF L
(* The store that commits is older than any load that is not read. *)
<1>4. ASSUME NEW l \in Len(got) + 1 .. Len(prog.loads), StValValid(vals)
      PROVE  n \in arrived + 1 .. prog.loads[l].tag
  <2>1. cuSt <= prog.loads[l].tag /\ prog.loads[l].tag \in Nat /\ cuSt \in Nat
    BY UnreadLoad, InvCounters
  <2>2. QED
    BY <1>1, <1>2, <1>4, <2>1
<1>5. SafeLoadHasNoHazard'
  <2>1. ASSUME NEW k \in LdPorts, NEW i \in 1 .. LdQSize, ldQ[k][i].search, ldQ[k][i].isSafe
        PROVE  /\ ldQ[k][i].tag <= Accepted'
               /\ \A s \in arrived' + 1 .. ldQ[k][i].tag : prog.stores[s].addr # ldQ[k][i].addr
    <3>1. /\ ldQ[k][i].tag <= Accepted
          /\ \A s \in arrived + 1 .. ldQ[k][i].tag : prog.stores[s].addr # ldQ[k][i].addr
      BY <2>1 DEF IInv, SafeLoadHasNoHazard
    <3>2. ldQ[k][i].tag \in Nat
      <4>1. ldQ[k][i] \in LdEntry
        BY QueueSlots DEF IInv
      <4>2. QED
        BY <4>1 DEF LdEntry
    <3>3. \A s \in arrived' + 1 .. ldQ[k][i].tag : s \in arrived + 1 .. ldQ[k][i].tag
      BY <1>1, <3>2, RangeShrinks
    <3>4. ldQ[k][i].tag <= Accepted'
      BY <1>1, <3>1, <3>2
    <3>5. QED
      BY <3>1, <3>3, <3>4
  <2>2. QED
    BY <1>1, <2>1 DEF SafeLoadHasNoHazard
<1>6. FetchedLoadsAreClear'
  <2>1. ASSUME NEW k \in LdPorts, NEW i \in 1 .. Len(addrPipe[k]),
               NEW s \in arrived' + 1 .. prog.loads[addrPipe[k][i].id].tag
        PROVE  prog.stores[s].addr # prog.loads[addrPipe[k][i].id].addr
    <3>1. addrPipe[k][i].id \in Len(got) + 1 .. Len(prog.loads) /\ Clear(addrPipe[k][i].id)
      BY FetchedLoad
    <3>2. prog.loads[addrPipe[k][i].id].tag \in Nat
      BY <3>1, UnreadLoad
    <3>3. s \in arrived + 1 .. prog.loads[addrPipe[k][i].id].tag
      BY <1>1, <3>2, RangeShrinks
    <3>4. QED
      BY <3>1, <3>3 DEF Clear
  <2>2. QED
    BY <1>1, <2>1 DEF FetchedLoadsAreClear, Clear
<1>7. MemoryReadsAreSettled'
  <2>1. ASSUME NEW k \in LdPorts, NEW i \in 1 .. Len(addrPipe[k]), NEW j \in 1 .. Len(stPortPipe')
        PROVE  stPortPipe'[j].addr # addrPipe[k][i].addr
    <3>1. CASE j \in 1 .. L
      BY <1>3, <3>1 DEF IInv, MemoryReadsAreSettled, L
    <3>2. CASE j = L + 1 /\ StValValid(vals)
      <4>1. /\ addrPipe[k][i].id \in Len(got) + 1 .. Len(prog.loads) /\ Clear(addrPipe[k][i].id)
            /\ addrPipe[k][i].addr = prog.loads[addrPipe[k][i].id].addr
        BY FetchedLoad
      <4>2. prog.stores[n].addr # prog.loads[addrPipe[k][i].id].addr
        BY <1>4, <3>2, <4>1 DEF Clear
      <4>3. QED
        BY <1>2, <1>3, <3>2, <4>1, <4>2
    <3>3. QED
      BY <1>3, <3>1, <3>2
  <2>2. QED
    BY <1>1, <2>1 DEF MemoryReadsAreSettled
<1>8. SafeLoadsAreReady'
  <2>1. ASSUME NEW k \in LdPorts, NEW i \in 1 .. LdQSize, ldQ[k][i].search, ldQ[k][i].isSafe
        PROVE  /\ i \in {1, 2}
               /\ ldQ[k][i].bypass # NoBypass => IsSequentialValue(prog, ldQ[k][i].bypass, ldQ[k][i].id)
               /\ ldQ[k][i].bypass = NoBypass =>
                    \A j \in 1 .. Len(stPortPipe') : stPortPipe'[j].addr # ldQ[k][i].addr
    <3>1. i \in {1, 2} /\ ReadyToIssue(k, ldQ[k][i])
      BY <2>1 DEF IInv, SafeLoadsAreReady
    <3>2. ASSUME ldQ[k][i].bypass = NoBypass, NEW j \in 1 .. Len(stPortPipe')
          PROVE  stPortPipe'[j].addr # ldQ[k][i].addr
      <4>1. CASE j \in 1 .. L
        <5>1. stPortPipe[j].addr = ldQ[k][i].addr => stPortPipe[j].age >= StoreLatency
          BY <3>1, <3>2, <4>1 DEF ReadyToIssue, L
        <5>2. StoreLatency \in Nat
          BY QueueAssumption
        <5>3. ~(stPortPipe[j].age >= StoreLatency)
          BY <1>3, <4>1, <5>2
        <5>4. QED
          BY <1>3, <4>1, <5>1, <5>3
      <4>2. CASE j = L + 1 /\ StValValid(vals)
        <5>1. /\ ldQ[k][i].id \in Len(got) + 1 .. Len(prog.loads)
              /\ ldQ[k][i].tag = prog.loads[ldQ[k][i].id].tag
          BY <2>1, QueuedLoad
        <5>2. n \in arrived + 1 .. ldQ[k][i].tag
          BY <1>4, <4>2, <5>1
        <5>3. prog.stores[n].addr # ldQ[k][i].addr
          BY <2>1, <5>2 DEF IInv, SafeLoadHasNoHazard
        <5>4. QED
          BY <1>2, <1>3, <4>2, <5>3
      <4>3. QED
        BY <1>3, <4>1, <4>2
    <3>3. QED
      BY <3>1, <3>2 DEF ReadyToIssue
  <2>2. ASSUME NEW k \in LdPorts, NEW i \in 1 .. LdQSize, ldQ[k][i].search, ldQ[k][i].isSafe
        PROVE  ReadyToIssue(k, ldQ[k][i])'
    BY <1>1, <2>1, <2>2 DEF ReadyToIssue, IsSequentialValue, IsLatest, Writes
  <2>3. QED
    BY <1>1, <2>1, <2>2 DEF SafeLoadsAreReady
<1>9. QED
  BY <1>5, <1>6, <1>7, <1>8

LEMMA StoreStageInv ==
  ASSUME IInv, NEW vals \in SUBSET StPorts,
         NEW stRdy \in BOOLEAN, NEW endRdy \in BOOLEAN,
         NEW junk \in JunkTags, StoreStage(vals, stRdy, endRdy, junk)
  PROVE  IInv'
<1>1. TypeOK'
  BY StoreStageType DEF IInv
<1>2. UNCHANGED <<prog, aguVars, cuVars, ldReqPipe, ldValPipe, done, ldQ,
                 selPipe, addrPipe, bypassPipe, memValPipe, running, data>>
  BY DEF StoreStage
<1>3. /\ LoadsInOrder' /\ RoutesInOrder' /\ RequestsMatchLoads' /\ LoadValuesCorrect'
      /\ LoadsReturnProgramOrder'
  BY <1>2, Untouched DEF aguVars, cuVars
<1>4. /\ CuInOrder' /\ StoreRequestsInOrder' /\ StoreQueueHoldsPending' /\ StoreValuesPaired'
      /\ CommitQueueIsRecent' /\ StorePortInOrder' /\ MemoryIsProgramPrefix'
  BY StepCuInOrder, StepRequests, StepStoreQueue, StepStoreValues, StepCommitQueue, StepPortOrder,
     StepMemory
<1>5. /\ SafeLoadHasNoHazard' /\ FetchedLoadsAreClear' /\ MemoryReadsAreSettled' /\ SafeLoadsAreReady'
  BY StepHazards
<1>6. QED
  BY <1>1, <1>3, <1>4, <1>5 DEF IInv

------------------------------------------------------------------------------
(* The load stage: the queue through its four steps.  Where a load is safe, *)
(* no store that waits for its value is in its way; once it is marked, its  *)
(* value is at hand or about to be in memory.                               *)
NoHazard(e) == e.tag <= Accepted /\ \A s \in arrived + 1 .. e.tag : prog.stores[s].addr # e.addr
AtHand(e) ==
  /\ e.bypass # NoBypass => IsSequentialValue(prog, e.bypass, e.id)
  /\ e.bypass = NoBypass =>
       \A j \in 1 .. Len(stPortPipe) : stPortPipe[j].addr = e.addr => stPortPipe[j].age >= StoreLatency
Checked(q) ==
  /\ \A i \in 1 .. LdQSize : q[i].search =>
       IsRequest(q[i]) /\ q[i].id \in Len(got) + 1 .. Len(prog.loads)
  /\ \A i \in 1 .. LdQSize : q[i].search /\ q[i].isSafe => i \in {1, 2} /\ NoHazard(q[i])
Ready(q) == \A i \in 1 .. LdQSize : q[i].search /\ q[i].isSafe => AtHand(q[i])

LEMMA StartsChecked == ASSUME IInv, NEW k \in LdPorts PROVE Checked(ldQ[k])
<1>1. ASSUME NEW i \in 1 .. LdQSize, ldQ[k][i].search
      PROVE  IsRequest(ldQ[k][i]) /\ ldQ[k][i].id \in Len(got) + 1 .. Len(prog.loads)
  BY <1>1, QueuedLoad DEF IsRequest
<1>2. ASSUME NEW i \in 1 .. LdQSize, ldQ[k][i].search, ldQ[k][i].isSafe
      PROVE  i \in {1, 2} /\ NoHazard(ldQ[k][i])
  <2>1. i \in {1, 2}
    BY <1>2 DEF IInv, SafeLoadsAreReady
  <2>2. NoHazard(ldQ[k][i])
    BY <1>2 DEF IInv, SafeLoadHasNoHazard, NoHazard
  <2>3. QED
    BY <2>1, <2>2
<1>3. QED
  BY <1>1, <1>2 DEF Checked

(* Issuing empties the first slot and leaves the others. *)
LEMMA IssueSlots ==
  ASSUME TypeOK, NEW k \in LdPorts
  PROVE  /\ \A i \in 1 .. LdQSize : i # 1 => LdQAfterIssue(k)[i] = ldQ[k][i]
         /\ Issuing(k) => ~LdQAfterIssue(k)[1].search
         /\ ~Issuing(k) => LdQAfterIssue(k) = ldQ[k]
<1>1. ldQ[k] \in [1 .. LdQSize -> LdEntry] /\ 1 \in 1 .. LdQSize
  BY QueueSlots
<1>2. ldQ[k][1] \in LdEntry
  BY <1>1
<1>3. CASE Issuing(k)
  <2>. DEFINE e == [ldQ[k][1] EXCEPT !.search = FALSE]
  <2>1. LdQAfterIssue(k) = [ldQ[k] EXCEPT ![1] = e]
    BY <1>3 DEF LdQAfterIssue
  <2>2. ~e.search
    BY <1>2 DEF LdEntry
  <2>. HIDE DEF e
  <2>3. QED
    BY <1>1, <1>3, <2>1, <2>2
<1>4. CASE ~Issuing(k)
  BY <1>4 DEF LdQAfterIssue
<1>5. QED
  BY <1>3, <1>4

LEMMA IssueIds ==
  ASSUME TypeOK, NEW k \in LdPorts, QueueAscending(ldQ[k])
  PROVE  /\ QueueAscending(LdQAfterIssue(k))
         /\ QueueIds(LdQAfterIssue(k)) =
              IF Issuing(k) THEN QueueIds(ldQ[k]) \ {ldQ[k][1].id} ELSE QueueIds(ldQ[k])
         /\ Issuing(k) => /\ ldQ[k][1].id \in QueueIds(ldQ[k])
                          /\ \A l \in QueueIds(ldQ[k]) : ldQ[k][1].id <= l
         /\ \A i \in 1 .. LdQSize : LdQAfterIssue(k)[i].search =>
              ldQ[k][i].search /\ LdQAfterIssue(k)[i] = ldQ[k][i]
<1>. DEFINE q == ldQ[k]
            p == LdQAfterIssue(k)
<1>1. /\ \A i \in 1 .. LdQSize : i # 1 => p[i] = q[i]
      /\ Issuing(k) => ~p[1].search
      /\ ~Issuing(k) => p = q
  BY IssueSlots
<1>2. 1 \in 1 .. LdQSize /\ \A i \in 1 .. LdQSize : q[i].id \in Nat /\ (i # 1 => 1 < i)
  <2>1. 1 \in 1 .. LdQSize /\ \A i \in 1 .. LdQSize : q[i] \in LdEntry
    BY QueueSlots
  <2>2. \A i \in 1 .. LdQSize : q[i].id \in Nat
    BY <2>1 DEF LdEntry
  <2>3. \A i \in 1 .. LdQSize : i # 1 => 1 < i
    BY QueueAssumption
  <2>4. QED
    BY <2>1, <2>2, <2>3
<1>3. Issuing(k) => q[1].search
  BY DEF Issuing
<1>. HIDE DEF p, q
<1>4. \A i \in 1 .. LdQSize : p[i].search => q[i].search /\ p[i] = q[i]
  BY <1>1
<1>5. QueueAscending(p)
  BY <1>4 DEF QueueAscending, q
<1>6. ASSUME Issuing(k), NEW i \in 1 .. LdQSize, q[i].search, i # 1 PROVE q[1].id < q[i].id
  BY <1>2, <1>3, <1>6 DEF QueueAscending, q
<1>7. ASSUME Issuing(k), NEW l \in QueueIds(q) PROVE q[1].id <= l /\ (l = q[1].id \/ l \in QueueIds(p))
  <2>1. PICK i \in 1 .. LdQSize : q[i].search /\ l = q[i].id
    BY DEF QueueIds
  <2>2. CASE i = 1
    BY <1>2, <2>1, <2>2
  <2>3. CASE i # 1
    <3>1. q[1].id < q[i].id /\ p[i] = q[i]
      BY <1>1, <1>6, <1>7, <2>1, <2>3
    <3>2. QED
      BY <1>2, <2>1, <3>1 DEF QueueIds
  <2>4. QED
    BY <2>2, <2>3
<1>8. ASSUME Issuing(k), NEW l \in QueueIds(p) PROVE l \in QueueIds(q) /\ l # q[1].id
  <2>1. PICK i \in 1 .. LdQSize : p[i].search /\ l = p[i].id
    BY DEF QueueIds
  <2>2. i # 1 /\ q[i].search /\ p[i] = q[i]
    BY <1>1, <1>4, <1>8, <2>1
  <2>3. q[1].id < q[i].id
    BY <1>6, <1>8, <2>2
  <2>4. QED
    BY <1>2, <2>1, <2>2, <2>3 DEF QueueIds
<1>9. Issuing(k) => QueueIds(p) = QueueIds(q) \ {q[1].id}
  BY <1>7, <1>8
<1>10. Issuing(k) => q[1].id \in QueueIds(q) /\ \A l \in QueueIds(q) : q[1].id <= l
  BY <1>2, <1>3, <1>7 DEF QueueIds
<1>11. QED
  BY <1>1, <1>4, <1>5, <1>9, <1>10 DEF p, q
(* A load that the queue takes is younger than those it holds. *)
LEMMA NextRequest ==
  ASSUME IInv, NEW k \in LdPorts, ldReqPipe[k] # <<>>
  PROVE  /\ IsRequest(Head(ldReqPipe[k]))
         /\ Head(ldReqPipe[k]).id \in Len(got) + 1 .. Len(prog.loads)
         /\ \A l \in QueueIds(ldQ[k]) : l < Head(ldReqPipe[k]).id
<1>. DEFINE r == Head(ldReqPipe[k])
<1>1. 1 \in 1 .. Len(ldReqPipe[k]) /\ r = ldReqPipe[k][1]
  <2>1. ldReqPipe[k] \in Seq(LdReq)
    BY DEF IInv, TypeOK
  <2>2. QED
    BY <2>1, TailElements
<1>2. IsRequest(r)
  BY <1>1 DEF IInv, RequestsMatchLoads
<1>3. r.id \in Ids(ldReqPipe[k])
  BY <1>1 DEF Ids
<1>4. r.id \in Len(got) + 1 .. Len(prog.loads)
  BY <1>3, HeldLoad
<1>5. PICK lo \in 0 .. aguLd : \E i, a \in 0 .. aguLd : LoadsHeld(k, lo, i, a)
  BY DEF IInv, LoadsInOrder
<1>6. PICK i \in 0 .. aguLd, a \in 0 .. aguLd : LoadsHeld(k, lo, i, a)
  BY <1>5
<1>7. aguLd \in Nat /\ i \in Nat /\ a \in Nat
  <2>1. aguLd \in Nat
    BY InvCounters
  <2>2. QED
    BY <1>6, <2>1
<1>8. QueueIds(ldQ[k]) = PortLoads(k, i, a) /\ Ids(ldReqPipe[k]) = PortLoads(k, a, aguLd)
  BY <1>6 DEF LoadsHeld
<1>9. \A l \in QueueIds(ldQ[k]) : l < r.id
  BY <1>3, <1>7, <1>8 DEF PortLoads
<1>10. QED
  BY <1>2, <1>4, <1>9

LEMMA RequestIds ==
  ASSUME IInv, NEW k \in LdPorts, NEW ldRdy \in BOOLEAN, NEW q \in [1 .. LdQSize -> LdEntry],
         QueueAscending(q), Checked(q), \A l \in QueueIds(q) : l \in QueueIds(ldQ[k])
  PROVE  /\ QueueAscending(LdQAfterRequest(q, k, ldRdy))
         /\ QueueIds(LdQAfterRequest(q, k, ldRdy)) =
              IF LdReqTaken(q, k, ldRdy) THEN QueueIds(q) \cup {Head(ldReqPipe[k]).id} ELSE QueueIds(q)
         /\ Checked(LdQAfterRequest(q, k, ldRdy))
<1>. DEFINE p == LdQAfterRequest(q, k, ldRdy)
            r == Head(ldReqPipe[k])
            taken == LdReqTaken(q, k, ldRdy)
<1>0. LdQSize \in Nat /\ LdQSize \in 1 .. LdQSize /\ q[LdQSize] \in LdEntry
  BY QueueAssumption
<1>1. /\ \A i \in 1 .. LdQSize : i # LdQSize => p[i] = q[i]
      /\ p[LdQSize] = IF q[LdQSize].search THEN q[LdQSize]
                      ELSE IF taken THEN Requested(q[LdQSize], r) ELSE Unsafe(q[LdQSize])
  <2>1. /\ \A i \in 1 .. LdQSize - 1 : p[i] = q[i]
        /\ p[LdQSize] = IF q[LdQSize].search THEN q[LdQSize]
                        ELSE IF taken THEN Requested(q[LdQSize], r) ELSE Unsafe(q[LdQSize])
    BY RequestIs DEF IInv
  <2>2. \A i \in 1 .. LdQSize : i # LdQSize => i \in 1 .. LdQSize - 1
    BY <1>0
  <2>3. QED
    BY <2>1, <2>2
<1>2. taken => ~q[LdQSize].search /\ ldReqPipe[k] # <<>>
  BY DEF LdReqTaken
<1>3. taken => /\ IsRequest(r) /\ r.id \in Len(got) + 1 .. Len(prog.loads)
               /\ \A l \in QueueIds(q) : l < r.id
  BY <1>2, NextRequest
<1>. HIDE DEF p, r, taken
<1>4. CASE ~taken
  <2>1. \A i \in 1 .. LdQSize : /\ p[i].search <=> q[i].search
                                /\ p[i].search => p[i] = q[i]
    BY <1>0, <1>1, <1>4 DEF Unsafe, LdEntry
  <2>2. QueueAscending(p)
    BY <2>1 DEF QueueAscending
  <2>3. QueueIds(p) = QueueIds(q)
    BY <2>1 DEF QueueIds
  <2>4. Checked(p)
    BY <2>1 DEF Checked
  <2>5. QED
    BY <1>4, <2>2, <2>3, <2>4 DEF p, r, taken
<1>5. CASE taken
  <2>1. /\ p[LdQSize].search /\ ~p[LdQSize].isSafe /\ p[LdQSize].id = r.id
        /\ p[LdQSize].addr = r.addr /\ p[LdQSize].tag = r.tag
    BY <1>0, <1>1, <1>2, <1>5 DEF Requested, LdEntry
  <2>2. \A i \in 1 .. LdQSize : q[i].search => i # LdQSize /\ p[i] = q[i]
    BY <1>1, <1>2, <1>5
  <2>3. QueueAscending(p)
    <3>1. ASSUME NEW i \in 1 .. LdQSize, NEW j \in 1 .. LdQSize, i < j, p[i].search, p[j].search
          PROVE  p[i].id < p[j].id
      <4>1. i # LdQSize /\ p[i] = q[i] /\ q[i].search
        BY <1>0, <1>1, <3>1
      <4>2. CASE j = LdQSize
        <5>1. q[i].id \in QueueIds(q)
          BY <4>1 DEF QueueIds
        <5>2. QED
          BY <1>3, <1>5, <2>1, <4>1, <4>2, <5>1
      <4>3. CASE j # LdQSize
        <5>1. p[j] = q[j]
          BY <1>1, <4>3
        <5>2. QED
          BY <3>1, <4>1, <5>1 DEF QueueAscending
      <4>4. QED
        BY <4>2, <4>3
    <3>2. QED
      BY <3>1 DEF QueueAscending
  <2>4. QueueIds(p) = QueueIds(q) \cup {r.id}
    <3>1. ASSUME NEW l \in QueueIds(p) PROVE l \in QueueIds(q) \cup {r.id}
      BY <1>1, <2>1 DEF QueueIds
    <3>2. ASSUME NEW l \in QueueIds(q) PROVE l \in QueueIds(p)
      BY <2>2 DEF QueueIds
    <3>3. r.id \in QueueIds(p)
      BY <1>0, <2>1 DEF QueueIds
    <3>4. QED
      BY <3>1, <3>2, <3>3
  <2>5. Checked(p)
    <3>1. ASSUME NEW i \in 1 .. LdQSize, p[i].search
          PROVE  IsRequest(p[i]) /\ p[i].id \in Len(got) + 1 .. Len(prog.loads)
      <4>1. CASE i = LdQSize
        BY <1>3, <1>5, <2>1, <4>1 DEF IsRequest
      <4>2. CASE i # LdQSize
        BY <1>1, <3>1, <4>2 DEF Checked
      <4>3. QED
        BY <4>1, <4>2
    <3>2. ASSUME NEW i \in 1 .. LdQSize, p[i].search, p[i].isSafe
          PROVE  i \in {1, 2} /\ NoHazard(p[i])
      <4>1. i # LdQSize
        BY <2>1, <3>2
      <4>2. QED
        BY <1>1, <3>2, <4>1 DEF Checked
    <3>3. QED
      BY <3>1, <3>2 DEF Checked
  <2>6. QED
    BY <1>5, <2>3, <2>4, <2>5 DEF p, r, taken
<1>6. QED
  BY <1>4, <1>5

(* The check of the allocation queue is enough: it holds every store that   *)
(* was accepted and still waits for its value.                              *)
LEMMA SafeNowIsClear ==
  ASSUME IInv, NEW e \in LdEntry, SafeNow(e)
  PROVE  NoHazard(e)
<1>1. HoldsStores(stQ, arrived, Accepted)
  BY DEF IInv, StoreQueueHoldsPending
<1>2. arrived \in Nat /\ Accepted \in Nat /\ lastStReqTag = Accepted
  BY InvCounters
<1>3. e.tag \in Nat
  BY DEF LdEntry
<1>4. e.tag <= Accepted
  BY <1>2 DEF SafeNow
<1>5. ASSUME NEW s \in arrived + 1 .. e.tag PROVE prog.stores[s].addr # e.addr
  <2>1. s \in arrived + 1 .. Accepted /\ s <= e.tag
    BY <1>2, <1>3, <1>4
  <2>2. PICK i \in 1 .. StQSize : stQ[i].valid /\ stQ[i].tag = s
    BY <1>1, <2>1 DEF HoldsStores
  <2>3. stQ[i].addr = prog.stores[s].addr
    BY <1>1, <2>2 DEF HoldsStores
  <2>4. QED
    BY <2>1, <2>2, <2>3 DEF SafeNow
<1>6. QED
  BY <1>4, <1>5 DEF NoHazard

(* What a clear load finds in the commit queue is its value; if it finds    *)
(* nothing, the writes to its address are as old as the queue is long.      *)
LEMMA MarkedAtHand ==
  ASSUME IInv, NEW e \in LdEntry, IsRequest(e), e.id \in Len(got) + 1 .. Len(prog.loads),
         NoHazard(e), NEW m \in LdEntry, m.id = e.id, m.addr = e.addr, m.bypass = Forwarded(e.addr)
  PROVE  AtHand(m)
<1>0. arrived \in Nat /\ CommitQSize \in Nat /\ StoreLatency \in Nat /\ StoreLatency <= CommitQSize
  <2>1. arrived \in Nat
    BY InvCounters
  <2>2. QED
    BY <2>1, QueueAssumption, LatencyAssumption
<1>1. e.addr \in Addr /\ e.addr = prog.loads[e.id].addr /\ e.tag = prog.loads[e.id].tag
  BY DEF LdEntry, IsRequest
<1>2. e.addr # InvalidAddr
  <2>1. ArraySize \in Nat
    BY SizesAssumption
  <2>2. QED
    BY <1>1, <2>1
<1>3. Clear(e.id)
  BY <1>1 DEF NoHazard, Clear
<1>4. ASSUME NEW i \in 1 .. CommitQSize, commitQ[i].addr = e.addr,
             \A j \in i + 1 .. CommitQSize : commitQ[j].addr # e.addr
      PROVE  commitQ[i].value # NoBypass /\ IsSequentialValue(prog, commitQ[i].value, e.id)
  <2>. DEFINE v == commitQ[i].value
  <2>1. /\ IsWrite(v, e.addr)
        /\ \A s \in v + 1 .. arrived : Writes(prog, s, e.addr) =>
             \E j \in i + 1 .. CommitQSize : commitQ[j] = [addr |-> e.addr, value |-> s]
    BY <1>2, <1>4 DEF IInv, CommitQueueIsRecent
  <2>. HIDE DEF v
  <2>2. v \in 1 .. arrived /\ Writes(prog, v, e.addr)
    BY <2>1 DEF IsWrite
  <2>3. ASSUME NEW s \in v + 1 .. arrived, Writes(prog, s, e.addr) PROVE FALSE
    <3>1. PICK j \in i + 1 .. CommitQSize : commitQ[j] = [addr |-> e.addr, value |-> s]
      BY <2>1, <2>3
    <3>2. commitQ[j].addr = e.addr
      BY <3>1
    <3>3. QED
      BY <1>4, <3>2
  <2>4. v \in 0 .. arrived /\ v # 0
    BY <1>0, <2>2
  <2>5. IsLatest(prog, v, e.addr, arrived)
    BY <2>2, <2>3, <2>4 DEF IsLatest
  <2>6. IsSequentialValue(prog, v, e.id)
    BY <1>1, <1>3, <2>5, ClearValue
  <2>7. QED
    BY <2>4, <2>6 DEF v, NoBypass
<1>5. m.bypass # NoBypass => IsSequentialValue(prog, m.bypass, m.id)
  <2>1. ASSUME m.bypass # NoBypass PROVE IsSequentialValue(prog, m.bypass, m.id)
    <3>1. PICK i \in 1 .. CommitQSize :
              /\ commitQ[i].addr = e.addr /\ Forwarded(e.addr) = commitQ[i].value
              /\ \A j \in i + 1 .. CommitQSize : commitQ[j].addr # e.addr
      BY <2>1, ForwardedIs
    <3>2. QED
      BY <1>4, <3>1
  <2>2. QED
    BY <2>1
<1>6. ASSUME m.bypass = NoBypass, NEW j \in 1 .. Len(stPortPipe), stPortPipe[j].addr = m.addr
      PROVE  stPortPipe[j].age >= StoreLatency
  <2>1. \A i \in 1 .. CommitQSize : commitQ[i].addr # e.addr
    BY <1>4, <1>6, ForwardedIs
  <2>2. stPortPipe[j].age \in Nat
    <3>1. stPortPipe \in Seq(PortWrite)
      BY DEF IInv, TypeOK
    <3>2. stPortPipe[j] \in PortWrite
      BY <3>1
    <3>3. QED
      BY <3>2 DEF PortWrite
  <2>3. ASSUME stPortPipe[j].age < CommitQSize PROVE FALSE
    <3>1. Remembered(stPortPipe[j])
      BY <2>3 DEF IInv, StorePortInOrder
    <3>2. PICK n \in CommitQSize - stPortPipe[j].age .. CommitQSize : commitQ[n].addr = stPortPipe[j].addr
      BY <3>1 DEF Remembered
    <3>3. n \in 1 .. CommitQSize
      BY <1>0, <2>2, <2>3, <3>2
    <3>4. QED
      BY <1>6, <2>1, <3>2, <3>3
  <2>4. QED
    BY <1>0, <2>2, <2>3
<1>7. QED
  BY <1>5, <1>6 DEF AtHand

LEMMA MarkIds ==
  ASSUME IInv, NEW q \in [1 .. LdQSize -> LdEntry], QueueAscending(q), Checked(q)
  PROVE  /\ QueueAscending(LdQAfterMark(q)) /\ QueueIds(LdQAfterMark(q)) = QueueIds(q)
         /\ Checked(LdQAfterMark(q)) /\ Ready(LdQAfterMark(q))
<1>. DEFINE p == LdQAfterMark(q)
<1>1. /\ p \in [1 .. LdQSize -> LdEntry]
      /\ \A i \in 1 .. LdQSize : p[i] = IF i \in {1, 2} THEN Marked(q[i]) ELSE q[i]
  BY MarkIs DEF IInv
<1>. HIDE DEF p
<1>2. ASSUME NEW i \in 1 .. LdQSize
      PROVE  /\ p[i].search = q[i].search /\ p[i].id = q[i].id
             /\ p[i].addr = q[i].addr /\ p[i].tag = q[i].tag
             /\ p[i].isSafe => q[i].isSafe \/ (i \in {1, 2} /\ SafeNow(q[i]))
             /\ i \in {1, 2} => p[i].bypass = Forwarded(q[i].addr)
  <2>1. q[i] \in LdEntry
    OBVIOUS
  <2>2. QED
    BY <1>1, <2>1 DEF Marked, LdEntry
<1>3. QueueAscending(p)
  BY <1>2 DEF QueueAscending
<1>4. QueueIds(p) = QueueIds(q)
  BY <1>2 DEF QueueIds
<1>5. ASSUME NEW i \in 1 .. LdQSize, p[i].search
      PROVE  IsRequest(p[i]) /\ p[i].id \in Len(got) + 1 .. Len(prog.loads)
  BY <1>2, <1>5 DEF Checked, IsRequest
<1>6. ASSUME NEW i \in 1 .. LdQSize, p[i].search, p[i].isSafe
      PROVE  i \in {1, 2} /\ NoHazard(p[i]) /\ AtHand(p[i])
  <2>1. q[i].search /\ q[i] \in LdEntry /\ p[i] \in LdEntry
    BY <1>1, <1>2, <1>6
  <2>2. i \in {1, 2} /\ NoHazard(q[i])
    <3>1. CASE q[i].isSafe
      BY <2>1, <3>1 DEF Checked
    <3>2. CASE i \in {1, 2} /\ SafeNow(q[i])
      BY <2>1, <3>2, SafeNowIsClear
    <3>3. QED
      BY <1>2, <1>6, <3>1, <3>2
  <2>3. NoHazard(p[i])
    BY <1>2, <2>2 DEF NoHazard
  <2>4. IsRequest(q[i]) /\ q[i].id \in Len(got) + 1 .. Len(prog.loads)
    BY <2>1 DEF Checked
  <2>5. AtHand(p[i])
    BY <1>2, <2>1, <2>2, <2>4, MarkedAtHand
  <2>6. QED
    BY <2>2, <2>3, <2>5
<1>7. QED
  BY <1>3, <1>4, <1>5, <1>6 DEF Checked, Ready, p

LEMMA ShiftIds ==
  ASSUME IInv, NEW q \in [1 .. LdQSize -> LdEntry], QueueAscending(q), Checked(q), Ready(q)
  PROVE  /\ QueueAscending(LdQAfterShift(q)) /\ QueueIds(LdQAfterShift(q)) = QueueIds(q)
         /\ Checked(LdQAfterShift(q)) /\ Ready(LdQAfterShift(q))
<1>. DEFINE p == LdQAfterShift(q)
<1>0. LdQSize \in Nat /\ LdQSize >= 2
  BY QueueAssumption
<1>1. CASE q[1].search
  BY <1>1 DEF LdQAfterShift
<1>2. CASE ~q[1].search
  <2>1. /\ \A i \in 1 .. LdQSize - 1 : p[i] = q[i + 1]
        /\ ~p[LdQSize].search
    <3>1. p = [i \in 1 .. LdQSize |-> IF i < LdQSize THEN q[i + 1]
                               ELSE [q[i] EXCEPT !.search = FALSE, !.isSafe = FALSE]]
      BY <1>2 DEF LdQAfterShift
    <3>2. LdQSize \in 1 .. LdQSize /\ q[LdQSize] \in LdEntry /\ ~(LdQSize < LdQSize)
      BY <1>0
    <3>3. ~[q[LdQSize] EXCEPT !.search = FALSE, !.isSafe = FALSE].search
      BY <3>2 DEF LdEntry
    <3>. HIDE DEF p
    <3>4. p[LdQSize] = [q[LdQSize] EXCEPT !.search = FALSE, !.isSafe = FALSE]
      BY <3>1, <3>2
    <3>5. \A i \in 1 .. LdQSize - 1 : i \in 1 .. LdQSize /\ i < LdQSize
      BY <1>0
    <3>6. \A i \in 1 .. LdQSize - 1 : p[i] = q[i + 1]
      BY <3>1, <3>5
    <3>7. QED
      BY <3>3, <3>4, <3>6
  <2>. HIDE DEF p
  <2>2. \A i \in 1 .. LdQSize : p[i].search =>
          i + 1 \in 1 .. LdQSize /\ p[i] = q[i + 1]
    <3>1. \A i \in 1 .. LdQSize : i = LdQSize \/ (i \in 1 .. LdQSize - 1 /\ i + 1 \in 1 .. LdQSize)
      BY <1>0
    <3>2. QED
      BY <2>1, <3>1
  <2>3. \A i \in 1 .. LdQSize : q[i].search =>
          i - 1 \in 1 .. LdQSize /\ p[i - 1] = q[i]
    <3>1. \A i \in 1 .. LdQSize : i = 1 \/ (i - 1 \in 1 .. LdQSize - 1 /\ i - 1 \in 1 .. LdQSize /\ (i - 1) + 1 = i)
      BY <1>0
    <3>2. QED
      BY <1>2, <2>1, <3>1
  <2>4. QueueAscending(p)
    <3>1. ASSUME NEW i \in 1 .. LdQSize, NEW j \in 1 .. LdQSize, i < j, p[i].search, p[j].search
          PROVE  p[i].id < p[j].id
      <4>1. /\ i + 1 \in 1 .. LdQSize /\ p[i] = q[i + 1] /\ j + 1 \in 1 .. LdQSize /\ p[j] = q[j + 1]
            /\ i + 1 < j + 1
        BY <2>2, <3>1
      <4>2. QED
        BY <3>1, <4>1 DEF QueueAscending
    <3>2. QED
      BY <3>1 DEF QueueAscending
  <2>5. QueueIds(p) = QueueIds(q)
    <3>1. ASSUME NEW l \in QueueIds(p) PROVE l \in QueueIds(q)
      BY <2>2 DEF QueueIds
    <3>2. ASSUME NEW l \in QueueIds(q) PROVE l \in QueueIds(p)
      BY <2>3 DEF QueueIds
    <3>3. QED
      BY <3>1, <3>2
  <2>6. ASSUME NEW i \in 1 .. LdQSize, p[i].search
        PROVE  IsRequest(p[i]) /\ p[i].id \in Len(got) + 1 .. Len(prog.loads)
    BY <2>2, <2>6 DEF Checked
  <2>7. ASSUME NEW i \in 1 .. LdQSize, p[i].search, p[i].isSafe
        PROVE  i \in {1, 2} /\ NoHazard(p[i]) /\ AtHand(p[i])
    <3>1. i + 1 \in 1 .. LdQSize /\ p[i] = q[i + 1]
      BY <2>2, <2>7
    <3>2. i + 1 \in {1, 2} /\ NoHazard(q[i + 1]) /\ AtHand(q[i + 1])
      BY <2>7, <3>1 DEF Checked, Ready
    <3>3. i = 1
      BY <3>2
    <3>4. QED
      BY <3>1, <3>2, <3>3
  <2>8. QED
    BY <2>4, <2>5, <2>6, <2>7 DEF Checked, Ready, p
<1>3. QED
  BY <1>1, <1>2
(* The queue at the end of its stage: without the load it issued and with   *)
(* the one it took, every safe load checked and its value at hand.          *)
StagedQ(k, ldRdy) == LdQAfterShift(LdQAfterMark(LdQAfterRequest(LdQAfterIssue(k), k, ldRdy)))
Kept(k) == IF Issuing(k) THEN QueueIds(ldQ[k]) \ {ldQ[k][1].id} ELSE QueueIds(ldQ[k])

LEMMA StageQueue ==
  ASSUME IInv, NEW k \in LdPorts, NEW ldRdy \in BOOLEAN
  PROVE  /\ QueueAscending(StagedQ(k, ldRdy))
         /\ QueueIds(StagedQ(k, ldRdy)) =
              IF LdReqTaken(LdQAfterIssue(k), k, ldRdy) THEN Kept(k) \cup {Head(ldReqPipe[k]).id}
                                                        ELSE Kept(k)
         /\ Checked(StagedQ(k, ldRdy)) /\ Ready(StagedQ(k, ldRdy))
<1>. DEFINE q1 == LdQAfterIssue(k)
            q2 == LdQAfterRequest(q1, k, ldRdy)
            q3 == LdQAfterMark(q2)
            q4 == LdQAfterShift(q3)
<1>0. TypeOK /\ QueueAscending(ldQ[k])
  BY DEF IInv, LoadsInOrder, LoadsHeld
<1>1. q1 \in [1 .. LdQSize -> LdEntry]
  BY <1>0, IssueType
<1>2. /\ QueueAscending(q1) /\ QueueIds(q1) = Kept(k)
      /\ \A i \in 1 .. LdQSize : q1[i].search => ldQ[k][i].search /\ q1[i] = ldQ[k][i]
  BY <1>0, IssueIds DEF Kept
<1>3. Checked(q1)
  <2>1. Checked(ldQ[k])
    BY StartsChecked
  <2>. HIDE DEF q1
  <2>2. QED
    BY <1>2, <2>1 DEF Checked
<1>4. \A l \in QueueIds(q1) : l \in QueueIds(ldQ[k])
  BY <1>2 DEF Kept
<1>. HIDE DEF q1
<1>5. q2 \in [1 .. LdQSize -> LdEntry]
  BY <1>0, <1>1, RequestIs
<1>6. /\ QueueAscending(q2) /\ Checked(q2)
      /\ QueueIds(q2) = IF LdReqTaken(q1, k, ldRdy) THEN Kept(k) \cup {Head(ldReqPipe[k]).id} ELSE Kept(k)
  BY <1>1, <1>2, <1>3, <1>4, RequestIds
<1>. HIDE DEF q2
<1>7. q3 \in [1 .. LdQSize -> LdEntry]
  BY <1>0, <1>5, MarkIs
<1>8. QueueAscending(q3) /\ QueueIds(q3) = QueueIds(q2) /\ Checked(q3) /\ Ready(q3)
  BY <1>5, <1>6, MarkIds
<1>. HIDE DEF q3
<1>9. QueueAscending(q4) /\ QueueIds(q4) = QueueIds(q3) /\ Checked(q4) /\ Ready(q4)
  BY <1>7, <1>8, ShiftIds
<1>10. QED
  BY <1>6, <1>8, <1>9 DEF StagedQ, q1, q2, q3

(* The load that a stage issues is the oldest of its queue; the store port  *)
(* holds no write to its address unless it carries a value.                 *)
LEMMA IssuedLoad ==
  ASSUME IInv, NEW k \in LdPorts, Issuing(k), stage = k + 1
  PROVE  /\ ldQ[k][1] \in LdEntry
         /\ ldQ[k][1].id \in Len(got) + 1 .. Len(prog.loads)
         /\ ldQ[k][1].addr = prog.loads[ldQ[k][1].id].addr
         /\ Clear(ldQ[k][1].id)
         /\ \A l \in Ids(selPipe[k]) : l < ldQ[k][1].id
         /\ ldQ[k][1].bypass # NoBypass => IsSequentialValue(prog, ldQ[k][1].bypass, ldQ[k][1].id)
         /\ ldQ[k][1].bypass = NoBypass =>
              \A j \in 1 .. Len(stPortPipe) : stPortPipe[j].addr # ldQ[k][1].addr
<1>. DEFINE e == ldQ[k][1]
<1>1. 1 \in 1 .. LdQSize /\ e \in LdEntry
  BY QueueSlots DEF IInv
<1>2. e.search /\ e.isSafe
  BY DEF Issuing
<1>3. /\ e.id \in Len(got) + 1 .. Len(prog.loads)
      /\ e.addr = prog.loads[e.id].addr /\ e.tag = prog.loads[e.id].tag
  BY <1>1, <1>2, QueuedLoad
<1>4. \A s \in arrived + 1 .. e.tag : prog.stores[s].addr # e.addr
  BY <1>1, <1>2 DEF IInv, SafeLoadHasNoHazard
<1>5. Clear(e.id)
  BY <1>3, <1>4 DEF Clear
<1>6. ReadyToIssue(k, e)
  BY <1>1, <1>2 DEF IInv, SafeLoadsAreReady
<1>7. Upcoming(k)
  BY DEF Upcoming
<1>8. e.id \in QueueIds(ldQ[k])
  BY <1>1, <1>2 DEF QueueIds
<1>. HIDE DEF e
<1>9. \A l \in Ids(selPipe[k]) : l < e.id
  <2>1. PICK lo \in 0 .. aguLd : \E i, a \in 0 .. aguLd : LoadsHeld(k, lo, i, a)
    BY DEF IInv, LoadsInOrder
  <2>2. PICK i \in 0 .. aguLd, a \in 0 .. aguLd : LoadsHeld(k, lo, i, a)
    BY <2>1
  <2>3. lo \in Nat /\ i \in Nat /\ a \in Nat
    <3>1. aguLd \in Nat
      BY InvCounters
    <3>2. QED
      BY <2>1, <2>2, <3>1
  <2>4. QueueIds(ldQ[k]) = PortLoads(k, i, a) /\ Ids(selPipe[k]) = PortLoads(k, lo, i)
    BY <2>2 DEF LoadsHeld
  <2>5. QED
    BY <1>8, <2>3, <2>4 DEF PortLoads
<1>10. QED
  BY <1>1, <1>3, <1>5, <1>6, <1>7, <1>9 DEF ReadyToIssue, e

(* A load that is issued joins the selections of its mux together with its *)
(* value, or with its address.                                             *)
LEMMA RoutedBypass ==
  ASSUME NEW sel \in Seq(Selection), NEW bypass \in Seq(LdValTok), NEW memVal, NEW addr,
         Routes(sel, bypass, memVal, addr), NEW l \in Nat, \A m \in Ids(sel) : m < l, NEW v \in Nat
  PROVE  Routes(Append(sel, [bypass |-> TRUE, id |-> l]), Append(bypass, [value |-> v, id |-> l]),
                memVal, addr)
<1>. DEFINE x == [bypass |-> TRUE, id |-> l]
            y == [value |-> v, id |-> l]
<1>1. x \in Selection /\ x.bypass = TRUE /\ x.id = l /\ y \in LdValTok /\ y.id = l
  BY DEF Selection, LdValTok
<1>. HIDE DEF x, y
<1>2. /\ Ascending(bypass) /\ Ids(bypass) = Selected(sel, TRUE)
      /\ Ascending(memVal) /\ Ascending(addr) /\ Ids(memVal) \cup Ids(addr) = Selected(sel, FALSE)
      /\ \A m \in Ids(memVal), n \in Ids(addr) : m < n
  BY DEF Routes
<1>3. \A m \in Ids(bypass) : m < y.id
  BY <1>1, <1>2 DEF Selected, Ids
<1>4. Ascending(Append(bypass, y)) /\ Ids(Append(bypass, y)) = Ids(bypass) \cup {l}
  <2>1. Ascending(bypass) /\ y \in LdValTok
    BY <1>1, <1>2
  <2>2. Ascending(Append(bypass, y)) /\ Ids(Append(bypass, y)) = Ids(bypass) \cup {y.id}
    BY <1>3, <2>1, IdsAppend
  <2>3. QED
    BY <1>1, <2>2
<1>5. /\ Selected(Append(sel, x), TRUE) = Selected(sel, TRUE) \cup {l}
      /\ Selected(Append(sel, x), FALSE) = Selected(sel, FALSE)
  BY <1>1, SelectedAppend
<1>6. Routes(Append(sel, x), Append(bypass, y), memVal, addr)
  BY <1>2, <1>4, <1>5 DEF Routes
<1>7. QED
  BY <1>6 DEF x, y

LEMMA RoutedFetch ==
  ASSUME NEW sel \in Seq(Selection), NEW bypass, NEW memVal, NEW addr \in Seq(PortRead),
         Routes(sel, bypass, memVal, addr), NEW l \in Nat, \A m \in Ids(sel) : m < l, NEW a \in Addr
  PROVE  Routes(Append(sel, [bypass |-> FALSE, id |-> l]), bypass, memVal,
                Append(addr, [addr |-> a, id |-> l]))
<1>. DEFINE x == [bypass |-> FALSE, id |-> l]
            y == [addr |-> a, id |-> l]
<1>1. x \in Selection /\ x.bypass = FALSE /\ x.id = l /\ y \in PortRead /\ y.id = l
  BY DEF Selection, PortRead
<1>. HIDE DEF x, y
<1>2. /\ Ascending(bypass) /\ Ids(bypass) = Selected(sel, TRUE)
      /\ Ascending(memVal) /\ Ascending(addr) /\ Ids(memVal) \cup Ids(addr) = Selected(sel, FALSE)
      /\ \A m \in Ids(memVal), n \in Ids(addr) : m < n
  BY DEF Routes
<1>3. \A m \in Selected(sel, FALSE) : m < l
  BY DEF Selected, Ids
<1>4. Ascending(Append(addr, y)) /\ Ids(Append(addr, y)) = Ids(addr) \cup {l}
  <2>1. Ascending(addr) /\ y \in PortRead /\ \A m \in Ids(addr) : m < y.id
    BY <1>1, <1>2, <1>3
  <2>2. Ascending(Append(addr, y)) /\ Ids(Append(addr, y)) = Ids(addr) \cup {y.id}
    BY <2>1, IdsAppend
  <2>3. QED
    BY <1>1, <2>2
<1>5. /\ Selected(Append(sel, x), FALSE) = Selected(sel, FALSE) \cup {l}
      /\ Selected(Append(sel, x), TRUE) = Selected(sel, TRUE)
  BY <1>1, SelectedAppend
<1>6. \A m \in Ids(memVal), n \in Ids(Append(addr, y)) : m < n
  BY <1>2, <1>3, <1>4
<1>7. Routes(Append(sel, x), bypass, memVal, Append(addr, y))
  BY <1>2, <1>4, <1>5, <1>6 DEF Routes
<1>8. QED
  BY <1>7 DEF x, y

(* What the load stage sends. *)
LEMMA StageSends ==
  ASSUME IInv, NEW k \in LdPorts, NEW ldRdy \in BOOLEAN, LoadStage(k, ldRdy)
  PROVE  /\ Ascending(selPipe'[k])
         /\ Ids(selPipe'[k]) = IF Issuing(k) THEN Ids(selPipe[k]) \cup {ldQ[k][1].id} ELSE Ids(selPipe[k])
         /\ Routes(selPipe'[k], bypassPipe'[k], memValPipe[k], addrPipe'[k])
         /\ ValuesCorrect(bypassPipe'[k])
         /\ \A i \in 1 .. Len(addrPipe'[k]) :
              \/ i \in 1 .. Len(addrPipe[k]) /\ addrPipe'[k][i] = addrPipe[k][i]
              \/ /\ Issuing(k) /\ ldQ[k][1].bypass = NoBypass
                 /\ addrPipe'[k][i] = [addr |-> ldQ[k][1].addr, id |-> ldQ[k][1].id]
         /\ \A j \in LdPorts : j # k => /\ selPipe'[j] = selPipe[j] /\ bypassPipe'[j] = bypassPipe[j]
                                        /\ addrPipe'[j] = addrPipe[j]
<1>. DEFINE e == ldQ[k][1]
            forward == Issuing(k) /\ e.bypass # NoBypass
            fetch == Issuing(k) /\ e.bypass = NoBypass
<1>1. /\ selPipe' = IF Issuing(k) THEN [selPipe EXCEPT ![k] = Append(@, [bypass |-> forward, id |-> e.id])]
                    ELSE selPipe
      /\ bypassPipe' = IF forward THEN [bypassPipe EXCEPT ![k] = Append(@, [value |-> e.bypass, id |-> e.id])]
                       ELSE bypassPipe
      /\ addrPipe' = IF fetch THEN [addrPipe EXCEPT ![k] = Append(@, [addr |-> e.addr, id |-> e.id])]
                     ELSE addrPipe
      /\ stage = k + 1
  BY DEF LoadStage, Issue, CanIssue
<1>2. /\ selPipe \in [LdPorts -> Seq(Selection)] /\ selPipe[k] \in Seq(Selection)
      /\ bypassPipe \in [LdPorts -> Seq(LdValTok)] /\ bypassPipe[k] \in Seq(LdValTok)
      /\ addrPipe \in [LdPorts -> Seq(PortRead)] /\ addrPipe[k] \in Seq(PortRead)
  BY DEF IInv, TypeOK
<1>3. /\ Ascending(selPipe[k]) /\ Routes(selPipe[k], bypassPipe[k], memValPipe[k], addrPipe[k])
      /\ ValuesCorrect(bypassPipe[k])
  BY DEF IInv, RoutesInOrder, LoadsInOrder, LoadsHeld, LoadValuesCorrect
<1>4. CASE ~Issuing(k)
  BY <1>1, <1>3, <1>4
<1>5. ASSUME Issuing(k)
      PROVE  /\ e \in LdEntry /\ e.id \in Nat /\ e.addr \in Addr /\ e.bypass \in Nat
             /\ \A l \in Ids(selPipe[k]) : l < e.id
             /\ e.bypass # NoBypass => IsSequentialValue(prog, e.bypass, e.id)
  BY <1>1, <1>5, IssuedLoad DEF LdEntry
<1>. HIDE DEF e
<1>6. CASE forward
  <2>. DEFINE x == [bypass |-> TRUE, id |-> e.id]
              y == [value |-> e.bypass, id |-> e.id]
  <2>0. Issuing(k) /\ e.bypass # NoBypass /\ forward = TRUE /\ ~fetch
    BY <1>6 DEF Issuing
  <2>1. x \in Selection /\ x.id = e.id /\ y \in LdValTok /\ y.value = e.bypass /\ y.id = e.id
    BY <1>5, <2>0 DEF Selection, LdValTok
  <2>2. /\ selPipe' = [selPipe EXCEPT ![k] = Append(@, x)]
        /\ bypassPipe' = [bypassPipe EXCEPT ![k] = Append(@, y)] /\ addrPipe' = addrPipe
    BY <1>1, <2>0
  <2>3. Routes(Append(selPipe[k], x), Append(bypassPipe[k], y), memValPipe[k], addrPipe[k])
    BY <1>2, <1>3, <1>5, <2>0, RoutedBypass
  <2>. HIDE DEF x, y, forward, fetch
  <2>4. /\ selPipe'[k] = Append(selPipe[k], x) /\ bypassPipe'[k] = Append(bypassPipe[k], y)
        /\ \A j \in LdPorts : j # k => selPipe'[j] = selPipe[j] /\ bypassPipe'[j] = bypassPipe[j]
    BY <1>2, <2>1, <2>2, AppendAt
  <2>5. Ascending(Append(selPipe[k], x)) /\ Ids(Append(selPipe[k], x)) = Ids(selPipe[k]) \cup {x.id}
    BY <1>2, <1>3, <1>5, <2>0, <2>1, IdsAppend
  <2>6. ValuesCorrect(Append(bypassPipe[k], y))
    BY <1>2, <1>3, <1>5, <2>0, <2>1, ValuesAppend
  <2>7. QED
    BY <2>0, <2>1, <2>2, <2>3, <2>4, <2>5, <2>6 DEF e
<1>7. CASE fetch
  <2>. DEFINE x == [bypass |-> FALSE, id |-> e.id]
              y == [addr |-> e.addr, id |-> e.id]
  <2>0. Issuing(k) /\ e.bypass = NoBypass /\ forward = FALSE
    BY <1>7
  <2>1. x \in Selection /\ x.id = e.id /\ y \in PortRead
    BY <1>5, <2>0 DEF Selection, PortRead
  <2>2. /\ selPipe' = [selPipe EXCEPT ![k] = Append(@, x)]
        /\ addrPipe' = [addrPipe EXCEPT ![k] = Append(@, y)] /\ bypassPipe' = bypassPipe
    BY <1>1, <2>0
  <2>3. Routes(Append(selPipe[k], x), bypassPipe[k], memValPipe[k], Append(addrPipe[k], y))
    BY <1>2, <1>3, <1>5, <2>0, RoutedFetch
  <2>. HIDE DEF x, y, forward, fetch
  <2>4. /\ selPipe'[k] = Append(selPipe[k], x) /\ addrPipe'[k] = Append(addrPipe[k], y)
        /\ \A j \in LdPorts : j # k => selPipe'[j] = selPipe[j] /\ addrPipe'[j] = addrPipe[j]
    BY <1>2, <2>1, <2>2, AppendAt
  <2>5. Ascending(Append(selPipe[k], x)) /\ Ids(Append(selPipe[k], x)) = Ids(selPipe[k]) \cup {x.id}
    BY <1>2, <1>3, <1>5, <2>0, <2>1, IdsAppend
  <2>6. ASSUME NEW i \in 1 .. Len(Append(addrPipe[k], y))
        PROVE  \/ i \in 1 .. Len(addrPipe[k]) /\ Append(addrPipe[k], y)[i] = addrPipe[k][i]
               \/ Append(addrPipe[k], y)[i] = y
    <3>1. /\ Len(Append(addrPipe[k], y)) = Len(addrPipe[k]) + 1 /\ Len(addrPipe[k]) \in Nat
          /\ \A n \in 1 .. Len(addrPipe[k]) : Append(addrPipe[k], y)[n] = addrPipe[k][n]
          /\ Append(addrPipe[k], y)[Len(addrPipe[k]) + 1] = y
      BY <1>2, <2>1, AppendElements
    <3>2. i \in 1 .. Len(addrPipe[k]) \/ i = Len(addrPipe[k]) + 1
      BY <3>1
    <3>3. QED
      BY <3>1, <3>2
  <2>7. ASSUME NEW i \in 1 .. Len(addrPipe'[k])
        PROVE  \/ i \in 1 .. Len(addrPipe[k]) /\ addrPipe'[k][i] = addrPipe[k][i]
               \/ addrPipe'[k][i] = y
    BY <2>4, <2>6
  <2>8. QED
    BY <1>3, <2>0, <2>1, <2>2, <2>3, <2>4, <2>5, <2>7 DEF e, y
<1>8. QED
  BY <1>4, <1>6, <1>7
(* What the load stage leaves of the pipes and queues. *)
LEMMA StageEffect ==
  ASSUME IInv, NEW k \in LdPorts, NEW ldRdy \in BOOLEAN, LoadStage(k, ldRdy)
  PROVE  /\ ldQ'[k] = StagedQ(k, ldRdy) /\ \A j \in LdPorts : j # k => ldQ'[j] = ldQ[j]
         /\ ldReqPipe'[k] = IF LdReqTaken(LdQAfterIssue(k), k, ldRdy) THEN Tail(ldReqPipe[k]) ELSE ldReqPipe[k]
         /\ \A j \in LdPorts : j # k => ldReqPipe'[j] = ldReqPipe[j]
         /\ stage = k + 1
         /\ \A j \in LdPorts : Upcoming(j)' => Upcoming(j) /\ j # k
         /\ UNCHANGED <<prog, aguVars, cuVars, stReqPipe, stValPipe, ldValPipe, endPipe, ending,
                        storeVars, stPortPipe, memValPipe, running, data>>
<1>1. /\ stage = k + 1
      /\ ldReqPipe' = IF LdReqTaken(LdQAfterIssue(k), k, ldRdy) THEN [ldReqPipe EXCEPT ![k] = Tail(@)] ELSE ldReqPipe
      /\ ldQ' = [ldQ EXCEPT ![k] = StagedQ(k, ldRdy)]
      /\ stage' = (stage + 1) % (NumLds + 1)
      /\ UNCHANGED <<prog, aguVars, cuVars, stReqPipe, stValPipe, ldValPipe, endPipe, ending,
                     storeVars, stPortPipe, memValPipe, running, data>>
  BY DEF LoadStage, StagedQ
<1>2. ldQ \in [LdPorts -> [1 .. LdQSize -> LdEntry]] /\ ldReqPipe \in [LdPorts -> Seq(LdReq)]
  BY DEF IInv, TypeOK
<1>3. ldQ'[k] = StagedQ(k, ldRdy) /\ \A j \in LdPorts : j # k => ldQ'[j] = ldQ[j]
  BY <1>1, <1>2
<1>4. LdReqTaken(LdQAfterIssue(k), k, ldRdy) => ldReqPipe[k] # <<>>
  BY DEF LdReqTaken
<1>5. /\ ldReqPipe'[k] = IF LdReqTaken(LdQAfterIssue(k), k, ldRdy) THEN Tail(ldReqPipe[k]) ELSE ldReqPipe[k]
      /\ \A j \in LdPorts : j # k => ldReqPipe'[j] = ldReqPipe[j]
  BY <1>1, <1>2, <1>4, TailAt
<1>6. stage' = IF k = NumLds - 1 THEN 0 ELSE k + 2
  <2>1. NumLds \in Nat /\ k \in 0 .. NumLds - 1
    BY SizesAssumption
  <2>2. CASE k = NumLds - 1
    <3>1. stage + 1 = NumLds + 1
      BY <1>1, <2>1, <2>2
    <3>2. (NumLds + 1) % (NumLds + 1) = 0
      BY <2>1
    <3>3. QED
      BY <1>1, <2>2, <3>1, <3>2
  <2>3. CASE k # NumLds - 1
    <3>1. stage + 1 = k + 2 /\ k + 2 \in 0 .. NumLds
      BY <1>1, <2>1, <2>3
    <3>2. (k + 2) % (NumLds + 1) = k + 2
      BY <2>1, <3>1
    <3>3. QED
      BY <1>1, <2>3, <3>1, <3>2
  <2>4. QED
    BY <2>2, <2>3
<1>7. \A j \in LdPorts : Upcoming(j)' => Upcoming(j) /\ j # k
  <2>1. NumLds \in Nat
    BY SizesAssumption
  <2>2. QED
    BY <1>1, <1>6, <2>1 DEF Upcoming
<1>8. QED
  BY <1>1, <1>3, <1>5, <1>7

(* The load stage moves the oldest load of the queue to the mux and the     *)
(* oldest request to the queue.                                             *)
LEMMA StageLoadsInOrder ==
  ASSUME IInv, NEW k \in LdPorts, NEW ldRdy \in BOOLEAN, LoadStage(k, ldRdy)
  PROVE  LoadsInOrder'
<1>. DEFINE l == ldQ[k][1].id
            r == Head(ldReqPipe[k]).id
            taken == LdReqTaken(LdQAfterIssue(k), k, ldRdy)
<1>1. /\ ldQ'[k] = StagedQ(k, ldRdy) /\ \A j \in LdPorts : j # k => ldQ'[j] = ldQ[j]
      /\ ldReqPipe'[k] = IF taken THEN Tail(ldReqPipe[k]) ELSE ldReqPipe[k]
      /\ \A j \in LdPorts : j # k => ldReqPipe'[j] = ldReqPipe[j]
      /\ UNCHANGED <<prog, got, aguLd, ldValPipe>>
  BY StageEffect DEF aguVars, cuVars
<1>2. /\ Ascending(selPipe'[k])
      /\ Ids(selPipe'[k]) = IF Issuing(k) THEN Ids(selPipe[k]) \cup {l} ELSE Ids(selPipe[k])
      /\ \A j \in LdPorts : j # k => selPipe'[j] = selPipe[j]
  BY StageSends
<1>3. /\ QueueAscending(StagedQ(k, ldRdy))
      /\ QueueIds(StagedQ(k, ldRdy)) = IF taken THEN Kept(k) \cup {r} ELSE Kept(k)
  BY StageQueue
<1>4. PICK v \in 0 .. aguLd : \E i, a \in 0 .. aguLd : LoadsHeld(k, v, i, a)
  BY DEF IInv, LoadsInOrder
<1>5. PICK i \in 0 .. aguLd, a \in 0 .. aguLd : LoadsHeld(k, v, i, a)
  BY <1>4
<1>6. /\ Len(got) <= v /\ v <= i /\ i <= a /\ a <= aguLd
      /\ Ascending(ldValPipe[k]) /\ Ids(ldValPipe[k]) = PortLoads(k, Len(got), v)
      /\ Ascending(selPipe[k]) /\ Ids(selPipe[k]) = PortLoads(k, v, i)
      /\ QueueAscending(ldQ[k]) /\ QueueIds(ldQ[k]) = PortLoads(k, i, a)
      /\ Ascending(ldReqPipe[k]) /\ Ids(ldReqPipe[k]) = PortLoads(k, a, aguLd)
  BY <1>5 DEF LoadsHeld
<1>7. aguLd \in Nat /\ v \in Nat /\ i \in Nat /\ a \in Nat
  <2>1. aguLd \in Nat
    BY InvCounters
  <2>2. QED
    BY <1>4, <1>5, <2>1
<1>8. \E n \in 0 .. aguLd : /\ v <= n /\ n <= a
                            /\ Ids(selPipe'[k]) = PortLoads(k, v, n) /\ Kept(k) = PortLoads(k, n, a)
  <2>1. CASE ~Issuing(k)
    BY <1>2, <1>6, <1>7, <2>1 DEF Kept
  <2>2. CASE Issuing(k)
    <3>1. l \in QueueIds(ldQ[k]) /\ \A m \in QueueIds(ldQ[k]) : l <= m
      BY <1>6, <2>2, IssueIds DEF IInv
    <3>2. Kept(k) = QueueIds(ldQ[k]) \ {l}
      BY <2>2 DEF Kept
    <3>. HIDE DEF l
    <3>3. IsOldest(l, k, i, a)
      BY <1>6, <3>1 DEF IsOldest
    <3>4. l \in Nat /\ i < l /\ l <= a
      BY <1>7, <3>3, OldestIs
    <3>5. PortLoads(k, l, a) = PortLoads(k, i, a) \ {l}
      BY <1>7, <3>3, OldestLeaves
    <3>6. PortLoads(k, v, l) = PortLoads(k, v, i) \cup {l}
      BY <1>6, <1>7, <3>3, OldestEnters
    <3>7. l \in 0 .. aguLd /\ v <= l
      BY <1>6, <1>7, <3>4
    <3>8. Ids(selPipe'[k]) = PortLoads(k, v, l) /\ Kept(k) = PortLoads(k, l, a)
      BY <1>2, <1>6, <2>2, <3>2, <3>5, <3>6
    <3>9. QED
      BY <3>4, <3>7, <3>8
  <2>3. QED
    BY <2>1, <2>2
<1>9. PICK n \in 0 .. aguLd : /\ v <= n /\ n <= a
                              /\ Ids(selPipe'[k]) = PortLoads(k, v, n) /\ Kept(k) = PortLoads(k, n, a)
  BY <1>8
<1>10. n \in Nat
  BY <1>7, <1>9
<1>11. \E m \in 0 .. aguLd : /\ n <= m /\ QueueIds(StagedQ(k, ldRdy)) = PortLoads(k, n, m)
                             /\ Ascending(ldReqPipe'[k]) /\ Ids(ldReqPipe'[k]) = PortLoads(k, m, aguLd)
  <2>1. CASE ~taken
    BY <1>1, <1>3, <1>6, <1>9, <2>1
  <2>2. CASE taken
    <3>1. ldReqPipe[k] # <<>> /\ ldReqPipe[k] \in Seq(LdReq)
      BY <2>2 DEF LdReqTaken, IInv, TypeOK
    <3>2. \A j \in 1 .. Len(ldReqPipe[k]) : ldReqPipe[k][j].id \in Nat
      <4>1. \A j \in 1 .. Len(ldReqPipe[k]) : ldReqPipe[k][j] \in LdReq
        BY <3>1
      <4>2. QED
        BY <4>1 DEF LdReq
    <3>3. /\ Ascending(Tail(ldReqPipe[k])) /\ r \in Ids(ldReqPipe[k])
          /\ Ids(Tail(ldReqPipe[k])) = Ids(ldReqPipe[k]) \ {r}
          /\ \A m \in Ids(ldReqPipe[k]) : r <= m
      BY <1>6, <3>1, <3>2, IdsTail
    <3>. HIDE DEF r, taken
    <3>4. IsOldest(r, k, a, aguLd)
      BY <1>6, <3>3 DEF IsOldest
    <3>5. r \in Nat /\ a < r /\ r <= aguLd
      BY <1>7, <3>4, OldestIs
    <3>6. PortLoads(k, r, aguLd) = PortLoads(k, a, aguLd) \ {r}
      BY <1>7, <3>4, OldestLeaves
    <3>7. PortLoads(k, n, r) = PortLoads(k, n, a) \cup {r}
      <4>1. n <= a /\ a <= aguLd
        BY <1>6, <1>9
      <4>2. QED
        BY <1>7, <1>10, <3>4, <4>1, OldestEnters
    <3>8. r \in 0 .. aguLd /\ n <= r
      BY <1>7, <1>9, <1>10, <3>5
    <3>9. /\ QueueIds(StagedQ(k, ldRdy)) = PortLoads(k, n, r)
          /\ Ascending(ldReqPipe'[k]) /\ Ids(ldReqPipe'[k]) = PortLoads(k, r, aguLd)
      BY <1>1, <1>3, <1>6, <1>9, <2>2, <3>3, <3>6, <3>7
    <3>10. QED
      BY <3>8, <3>9
  <2>3. QED
    BY <2>1, <2>2
<1>12. PICK m \in 0 .. aguLd : /\ n <= m /\ QueueIds(StagedQ(k, ldRdy)) = PortLoads(k, n, m)
                               /\ Ascending(ldReqPipe'[k]) /\ Ids(ldReqPipe'[k]) = PortLoads(k, m, aguLd)
  BY <1>11
<1>13. m <= aguLd
  BY <1>7, <1>12
<1>14. LoadsHeld(k, v, n, m)'
  <2>1. /\ Ascending(ldValPipe[k])' = Ascending(ldValPipe[k]) /\ Ids(ldValPipe[k])' = Ids(ldValPipe[k])
        /\ \A lo, hi : PortLoads(k, lo, hi)' = PortLoads(k, lo, hi)
    BY <1>1 DEF Ascending, Ids, PortLoads
  <2>2. /\ Ascending(selPipe[k])' /\ Ids(selPipe[k])' = PortLoads(k, v, n)
        /\ Ascending(ldReqPipe[k])' /\ Ids(ldReqPipe[k])' = PortLoads(k, m, aguLd)
    BY <1>2, <1>9, <1>12 DEF Ascending, Ids
  <2>3. QueueAscending(ldQ[k])' /\ QueueIds(ldQ[k])' = PortLoads(k, n, m)
    BY <1>1, <1>3, <1>12 DEF QueueAscending, QueueIds
  <2>4. UNCHANGED <<prog, got, aguLd>>
    BY <1>1
  <2>5. QED
    BY <1>6, <1>9, <1>12, <1>13, <2>1, <2>2, <2>3, <2>4 DEF LoadsHeld, PortLoads
<1>15. ASSUME NEW j \in LdPorts PROVE (\E r1, i1, a1 \in 0 .. aguLd : LoadsHeld(j, r1, i1, a1))'
  <2>1. CASE j = k
    BY <1>1, <1>4, <1>9, <1>12, <1>14, <2>1
  <2>2. CASE j # k
    BY <1>1, <1>2, <2>2, PortUntouched
  <2>3. QED
    BY <2>1, <2>2
<1>16. QED
  BY <1>15 DEF LoadsInOrder

LEMMA StageRequests ==
  ASSUME IInv, NEW k \in LdPorts, NEW ldRdy \in BOOLEAN, LoadStage(k, ldRdy)
  PROVE  RequestsMatchLoads' /\ SafeLoadHasNoHazard' /\ SafeLoadsAreReady'
<1>. DEFINE taken == LdReqTaken(LdQAfterIssue(k), k, ldRdy)
<1>1. /\ ldQ'[k] = StagedQ(k, ldRdy) /\ \A j \in LdPorts : j # k => ldQ'[j] = ldQ[j]
      /\ ldReqPipe'[k] = IF taken THEN Tail(ldReqPipe[k]) ELSE ldReqPipe[k]
      /\ \A j \in LdPorts : j # k => ldReqPipe'[j] = ldReqPipe[j]
      /\ \A j \in LdPorts : Upcoming(j)' => Upcoming(j) /\ j # k
      /\ UNCHANGED <<prog, got, aguSt, stReqPipe, arrived, stPortPipe>>
  BY StageEffect DEF aguVars, cuVars, storeVars, valueVars
<1>2. Checked(StagedQ(k, ldRdy)) /\ Ready(StagedQ(k, ldRdy))
  BY StageQueue
<1>3. /\ \A i \in 1 .. Len(addrPipe'[k]) :
           \/ i \in 1 .. Len(addrPipe[k]) /\ addrPipe'[k][i] = addrPipe[k][i]
           \/ /\ Issuing(k) /\ ldQ[k][1].bypass = NoBypass
              /\ addrPipe'[k][i] = [addr |-> ldQ[k][1].addr, id |-> ldQ[k][1].id]
      /\ \A j \in LdPorts : j # k => addrPipe'[j] = addrPipe[j]
  BY StageSends
<1>4. ldReqPipe[k] \in Seq(LdReq) /\ (taken => ldReqPipe[k] # <<>>)
  BY DEF IInv, TypeOK, LdReqTaken
<1>5. stage = k + 1
  BY StageEffect
<1>. HIDE DEF taken
<1>6. RequestsMatchLoads'
  <2>1. ASSUME NEW j \in LdPorts, NEW i \in 1 .. Len(ldReqPipe'[j]) PROVE IsRequest(ldReqPipe'[j][i])
    <3>1. \A n \in 1 .. Len(ldReqPipe[j]) : IsRequest(ldReqPipe[j][n])
      BY DEF IInv, RequestsMatchLoads
    <3>2. CASE j = k /\ taken
      <4>1. i \in 1 .. Len(Tail(ldReqPipe[k])) /\ ldReqPipe'[j][i] = Tail(ldReqPipe[k])[i]
        BY <1>1, <2>1, <3>2
      <4>2. Tail(ldReqPipe[k])[i] = ldReqPipe[k][i + 1] /\ i + 1 \in 1 .. Len(ldReqPipe[k])
        BY <1>4, <3>2, <4>1, TailElements
      <4>3. QED
        BY <3>1, <3>2, <4>1, <4>2
    <3>3. CASE ~(j = k /\ taken)
      BY <1>1, <3>1, <3>3
    <3>4. QED
      BY <3>2, <3>3
  <2>2. ASSUME NEW j \in LdPorts, NEW i \in 1 .. LdQSize, ldQ'[j][i].search PROVE IsRequest(ldQ'[j][i])
    <3>1. CASE j = k
      BY <1>1, <1>2, <2>2, <3>1 DEF Checked
    <3>2. CASE j # k
      BY <1>1, <2>2, <3>2 DEF IInv, RequestsMatchLoads
    <3>3. QED
      BY <3>1, <3>2
  <2>3. ASSUME NEW j \in LdPorts, NEW i \in 1 .. Len(addrPipe'[j])
        PROVE  addrPipe'[j][i].addr = prog.loads[addrPipe'[j][i].id].addr
    <3>1. CASE j # k \/ (i \in 1 .. Len(addrPipe[k]) /\ addrPipe'[k][i] = addrPipe[k][i])
      BY <1>3, <3>1 DEF IInv, RequestsMatchLoads
    <3>2. CASE /\ j = k /\ Issuing(k)
               /\ addrPipe'[k][i] = [addr |-> ldQ[k][1].addr, id |-> ldQ[k][1].id]
      <4>1. ldQ[k][1].addr = prog.loads[ldQ[k][1].id].addr
        BY <1>5, <3>2, IssuedLoad
      <4>2. QED
        BY <3>2, <4>1
    <3>3. QED
      BY <1>3, <3>1, <3>2
  <2>4. prog' = prog
    BY <1>1
  <2>5. ASSUME NEW j \in LdPorts
        PROVE  /\ \A i \in 1 .. Len(ldReqPipe'[j]) : IsRequest(ldReqPipe[j][i])'
               /\ \A i \in 1 .. LdQSize : ldQ'[j][i].search => IsRequest(ldQ[j][i])'
    BY <2>1, <2>2, <2>4 DEF IsRequest
  <2>6. QED
    BY <2>3, <2>4, <2>5 DEF RequestsMatchLoads
<1>7. SafeLoadHasNoHazard'
  <2>1. Accepted' = Accepted
    BY <1>1 DEF Accepted
  <2>2. ASSUME NEW j \in LdPorts, NEW i \in 1 .. LdQSize, ldQ'[j][i].search, ldQ'[j][i].isSafe
        PROVE  NoHazard(ldQ'[j][i])
    <3>1. CASE j = k
      BY <1>1, <1>2, <2>2, <3>1 DEF Checked
    <3>2. CASE j # k
      BY <1>1, <2>2, <3>2 DEF IInv, SafeLoadHasNoHazard, NoHazard
    <3>3. QED
      BY <3>1, <3>2
  <2>3. QED
    BY <1>1, <2>1, <2>2 DEF SafeLoadHasNoHazard, NoHazard
<1>8. SafeLoadsAreReady'
  <2>1. ASSUME NEW j \in LdPorts, NEW i \in 1 .. LdQSize, ldQ'[j][i].search, ldQ'[j][i].isSafe
        PROVE  /\ i \in {1, 2}
               /\ ldQ'[j][i].bypass # NoBypass => IsSequentialValue(prog, ldQ'[j][i].bypass, ldQ'[j][i].id)
               /\ ldQ'[j][i].bypass = NoBypass =>
                    \A n \in 1 .. Len(stPortPipe) : stPortPipe[n].addr = ldQ'[j][i].addr =>
                      ~Upcoming(j)' /\ stPortPipe[n].age >= StoreLatency
    <3>1. CASE j = k
      <4>1. i \in {1, 2} /\ AtHand(ldQ'[j][i])
        BY <1>1, <1>2, <2>1, <3>1 DEF Checked, Ready
      <4>2. QED
        BY <1>1, <3>1, <4>1 DEF AtHand
    <3>2. CASE j # k
      <4>1. i \in {1, 2} /\ ReadyToIssue(j, ldQ[j][i]) /\ ldQ'[j][i] = ldQ[j][i]
        BY <1>1, <2>1, <3>2 DEF IInv, SafeLoadsAreReady
      <4>2. QED
        BY <1>1, <4>1 DEF ReadyToIssue
    <3>3. QED
      BY <3>1, <3>2
  <2>2. QED
    BY <1>1, <2>1 DEF SafeLoadsAreReady, ReadyToIssue
<1>9. QED
  BY <1>6, <1>7, <1>8

(* An address that the load stage sends is clear of older stores, and the   *)
(* writes to it have landed.                                                *)
LEMMA StageFetches ==
  ASSUME IInv, NEW k \in LdPorts, NEW ldRdy \in BOOLEAN, LoadStage(k, ldRdy)
  PROVE  FetchedLoadsAreClear' /\ MemoryReadsAreSettled' /\ RoutesInOrder' /\ LoadValuesCorrect'
<1>1. stage = k + 1 /\ UNCHANGED <<prog, arrived, stPortPipe, memValPipe, ldValPipe>>
  BY StageEffect DEF storeVars, valueVars
<1>2. /\ Routes(selPipe'[k], bypassPipe'[k], memValPipe[k], addrPipe'[k])
      /\ ValuesCorrect(bypassPipe'[k])
      /\ \A i \in 1 .. Len(addrPipe'[k]) :
           \/ i \in 1 .. Len(addrPipe[k]) /\ addrPipe'[k][i] = addrPipe[k][i]
           \/ /\ Issuing(k) /\ ldQ[k][1].bypass = NoBypass
              /\ addrPipe'[k][i] = [addr |-> ldQ[k][1].addr, id |-> ldQ[k][1].id]
      /\ \A j \in LdPorts : j # k => /\ selPipe'[j] = selPipe[j] /\ bypassPipe'[j] = bypassPipe[j]
                                     /\ addrPipe'[j] = addrPipe[j]
  BY StageSends
<1>3. ASSUME NEW j \in LdPorts, NEW i \in 1 .. Len(addrPipe'[j])
      PROVE  /\ Clear(addrPipe'[j][i].id)
             /\ \A n \in 1 .. Len(stPortPipe) : stPortPipe[n].addr # addrPipe'[j][i].addr
  <2>1. CASE j # k \/ (i \in 1 .. Len(addrPipe[k]) /\ addrPipe'[k][i] = addrPipe[k][i])
    BY <1>2, <2>1 DEF IInv, FetchedLoadsAreClear, MemoryReadsAreSettled
  <2>2. CASE /\ j = k /\ Issuing(k) /\ ldQ[k][1].bypass = NoBypass
             /\ addrPipe'[k][i] = [addr |-> ldQ[k][1].addr, id |-> ldQ[k][1].id]
    <3>1. /\ Clear(ldQ[k][1].id)
          /\ \A n \in 1 .. Len(stPortPipe) : stPortPipe[n].addr # ldQ[k][1].addr
      BY <1>1, <2>2, IssuedLoad
    <3>2. QED
      BY <2>2, <3>1
  <2>3. QED
    BY <1>2, <2>1, <2>2
<1>4. FetchedLoadsAreClear'
  BY <1>1, <1>3 DEF FetchedLoadsAreClear, Clear
<1>5. MemoryReadsAreSettled'
  BY <1>1, <1>3 DEF MemoryReadsAreSettled
<1>6. RoutesInOrder'
  <2>1. ASSUME NEW j \in LdPorts
        PROVE  Routes(selPipe'[j], bypassPipe'[j], memValPipe'[j], addrPipe'[j])
    BY <1>1, <1>2 DEF IInv, RoutesInOrder
  <2>2. QED
    BY <2>1 DEF RoutesInOrder, Routes, Ids, Ascending, Selected
<1>7. LoadValuesCorrect'
  <2>1. ASSUME NEW j \in LdPorts
        PROVE  ValuesCorrect(bypassPipe'[j]) /\ ValuesCorrect(memValPipe'[j]) /\ ValuesCorrect(ldValPipe'[j])
    BY <1>1, <1>2 DEF IInv, LoadValuesCorrect
  <2>2. QED
    BY <1>1, <2>1 DEF LoadValuesCorrect, ValuesCorrect
<1>8. QED
  BY <1>4, <1>5, <1>6, <1>7

LEMMA LoadStageInv ==
  ASSUME IInv, NEW k \in LdPorts, NEW ldRdy \in BOOLEAN, LoadStage(k, ldRdy)
  PROVE  IInv'
<1>1. TypeOK'
  BY LoadStageType DEF IInv
<1>2. UNCHANGED <<prog, aguVars, cuVars, stReqPipe, stValPipe, ldValPipe, endPipe, ending,
                  storeVars, stPortPipe, memValPipe, running, data>>
  BY StageEffect
<1>3. /\ CuInOrder' /\ StoreRequestsInOrder' /\ StoreQueueHoldsPending' /\ StoreValuesPaired'
      /\ CommitQueueIsRecent' /\ StorePortInOrder' /\ MemoryIsProgramPrefix'
      /\ LoadsReturnProgramOrder'
  BY <1>2, Untouched DEF aguVars, cuVars, storeVars, valueVars
<1>4. QED
  BY <1>1, <1>3, StageLoadsInOrder, StageRequests, StageFetches DEF IInv

LEMMA LsqInv == IInv /\ Lsq => IInv'
BY StoreStageInv, LoadStageInv DEF Lsq

LEMMA StepInv == IInv /\ [Next]_vars => IInv'
<1>. SUFFICES ASSUME IInv, [Next]_vars PROVE IInv'
  OBVIOUS
<1>1. CASE Agu
  BY <1>1, AguSendLoadInv, AguSendStoreInv DEF Agu
<1>2. CASE Cu
  BY <1>2, CuInv
<1>3. CASE Lsq
  BY <1>3, LsqInv
<1>4. CASE StorePort
  BY <1>4, StorePortInv
<1>5. CASE LoadPorts
  BY <1>5, LoadPortInv, LoadMuxInv DEF LoadPorts
<1>6. ASSUME NEW kernel \in PortKernels, PortEnds(kernel) PROVE IInv'
  BY <1>6, PortEndsInv
<1>7. CASE UNCHANGED vars
  <2>1. TypeOK'
    BY <1>7, StepTypeOK DEF IInv
  <2>2. QED
    BY <1>7, <2>1, Untouched DEF IInv, vars, aguVars, cuVars, lsqVars, storeVars, valueVars, portVars
<1>8. QED
  BY <1>1, <1>2, <1>3, <1>4, <1>5, <1>6, <1>7 DEF Next

------------------------------------------------------------------------------
(* The invariant holds in every state the kernels can reach: the order of   *)
(* the pipes, the timing of the writes and the values on their way.         *)
THEOREM InvariantHolds == Spec => []IInv
<1>1. Init => IInv
  BY InitInv
<1>2. IInv /\ [Next]_vars => IInv'
  BY StepInv
<1>3. QED
  BY <1>1, <1>2, PTL DEF Spec

(* Every load the kernel has completed returned the value of the youngest   *)
(* older store to its address that is not poisoned, for every program, any  *)
(* number of ports and any size of the queues, although neither the load    *)
(* ports nor the store port wait for one another (lines 293-374).           *)
THEOREM LoadsReturnInProgramOrder == Spec => []LoadsReturnProgramOrder
<1>1. IInv => LoadsReturnProgramOrder
  BY DEF IInv
<1>2. QED
  BY <1>1, InvariantHolds, PTL

(* A load that is sent to memory finds no write to its address on the way:  *)
(* a commit queue as long as the latency of a store is long enough (lines   *)
(* 28, 254-262).                                                            *)
THEOREM ReadsFindMemorySettled == Spec => []MemoryReadsAreSettled
<1>1. IInv => MemoryReadsAreSettled
  BY DEF IInv
<1>2. QED
  BY <1>1, InvariantHolds, PTL

(* A load marked safe has no older store to its address that waits for its  *)
(* value, until it leaves the queue (lines 325-340).                        *)
THEOREM SafeLoadsStayClear == Spec => []SafeLoadHasNoHazard
<1>1. IInv => SafeLoadHasNoHazard
  BY DEF IInv
<1>2. QED
  BY <1>1, InvariantHolds, PTL

(* Memory and the writes on their way to it are what the stores leave whose *)
(* value arrived; a poisoned store leaves no trace (lines 240-262).         *)
THEOREM MemoryFollowsProgram == Spec => []MemoryIsProgramPrefix
<1>1. IInv => MemoryIsProgramPrefix
  BY DEF IInv
<1>2. QED
  BY <1>1, InvariantHolds, PTL
==============================================================================
