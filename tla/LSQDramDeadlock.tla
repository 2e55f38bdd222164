--------------------------- MODULE LSQDramDeadlock ---------------------------
(***************************************************************************)
(* The off-chip queue, its ports, the AGU and the CU wait for one another  *)
(* in a circle only where NoDeadlock says so.  The argument follows what   *)
(* the CU does next: a store whose value its pipe has room for, or a load  *)
(* that is, wherever it is held, the oldest of its port and has nothing to *)
(* wait for but the stores before it.                                      *)
(***************************************************************************)
EXTENDS LSQDramRefinement, FiniteSetTheorems

USE DEF LdPorts, StPorts, Addr, QAddr, InvalidAddr

------------------------------------------------------------------------------
(* The AGU and the CU keep to the order of the program.                    *)

LEMMA LoadTags ==
  ASSUME IInv
  PROVE  /\ \A l \in 1 .. Len(prog.loads) :
              prog.loads[l].tag \in Nat /\ prog.loads[l].tag <= Len(prog.stores)
         /\ \A l, m \in 1 .. Len(prog.loads) : l <= m => prog.loads[l].tag <= prog.loads[m].tag
<1>1. Len(prog.stores) \in Nat /\ TypeOK
  BY InvCounters DEF IInv
<1>2. ASSUME NEW l \in 1 .. Len(prog.loads)
      PROVE  prog.loads[l].tag \in Nat /\ prog.loads[l].tag <= Len(prog.stores)
  <2>1. prog.loads[l].tag \in 0 .. Len(prog.stores)
    BY <1>1, ProgOps
  <2>2. QED
    BY <1>1, <2>1
<1>3. \A l, m \in 1 .. Len(prog.loads) : l <= m => prog.loads[l].tag <= prog.loads[m].tag
  BY <1>1, ProgOps
<1>4. QED
  BY <1>2, <1>3

LEMMA InitAguInOrder == Init => AguInOrder
<1>. SUFFICES ASSUME Init PROVE AguInOrder
  OBVIOUS
<1>1. /\ aguSt = 0 /\ aguLd = 0 /\ cuSt = 0 /\ Len(got) = 0
      /\ ~cuEnded /\ endPipe = <<>> /\ ~ending /\ ~done /\ stage = 0
  BY DEF Init
<1>2. Len(prog.loads) \in Nat /\ (0 < Len(prog.loads) => 0 <= prog.loads[1].tag)
  <2>1. IInv
    BY InitInv
  <2>2. Len(prog.loads) \in Nat
    BY <2>1, InvCounters
  <2>3. 0 < Len(prog.loads) => 1 \in 1 .. Len(prog.loads)
    BY <2>2
  <2>4. QED
    BY <2>1, <2>2, <2>3, LoadTags
<1>3. QED
  BY <1>1, <1>2 DEF AguInOrder, AguPosition, Lockstep, EndsLast

LEMMA AguKeepsOrder == IInv /\ AguInOrder /\ Agu => AguInOrder'
<1>. SUFFICES ASSUME IInv, AguInOrder, Agu PROVE AguInOrder'
  OBVIOUS
<1>1. /\ aguSt \in Nat /\ aguLd \in Nat /\ cuSt \in Nat /\ Len(got) \in Nat
      /\ Len(prog.loads) \in Nat /\ aguLd <= Len(prog.loads)
  BY InvCounters
<1>2. AguPosition /\ Lockstep /\ EndsLast
  BY DEF AguInOrder
<1>3. UNCHANGED <<prog, cuSt, got, cuEnded, endPipe, stage, ending, done>>
  BY DEF Agu, AguSendLoad, AguSendStore, cuVars, lsqVars
<1>4. EndsLast'
  BY <1>2, <1>3 DEF EndsLast
<1>5. CASE AguSendLoad
  <2>1. /\ aguLd < Len(prog.loads) /\ prog.loads[aguLd + 1].tag = aguSt
        /\ MayRequest /\ aguLd' = aguLd + 1 /\ aguSt' = aguSt
    BY <1>5 DEF AguSendLoad, CanSendLoad, AtLoad
  <2>2. aguLd + 1 < Len(prog.loads) => prog.loads[aguLd + 1].tag <= prog.loads[aguLd + 2].tag
    <3>1. aguLd + 1 < Len(prog.loads) => aguLd + 1 \in 1 .. Len(prog.loads) /\ aguLd + 2 \in 1 .. Len(prog.loads)
                                         /\ aguLd + 1 <= aguLd + 2
      BY <1>1
    <3>2. QED
      BY <3>1, LoadTags
  <2>3. AguPosition'
    <3>1. (aguLd + 1) + 1 = aguLd + 2
      BY <1>1
    <3>2. QED
      BY <1>1, <1>3, <2>1, <2>2, <3>1 DEF AguPosition
  <2>4. Lockstep'
    BY <1>1, <1>3, <2>1 DEF Lockstep, MayRequest, AtLoad
  <2>5. QED
    BY <1>4, <2>3, <2>4 DEF AguInOrder
<1>6. CASE AguSendStore
  <2>1. /\ AtStore(prog, aguSt, aguLd) /\ MayRequest /\ aguLd' = aguLd /\ aguSt' = aguSt + 1
    BY <1>6 DEF AguSendStore, CanSendStore
  <2>2. aguLd < Len(prog.loads) => /\ aguSt <= prog.loads[aguLd + 1].tag
                                   /\ prog.loads[aguLd + 1].tag # aguSt
                                   /\ prog.loads[aguLd + 1].tag \in Nat
    <3>1. aguLd < Len(prog.loads) => aguLd + 1 \in 1 .. Len(prog.loads)
      BY <1>1
    <3>2. QED
      BY <1>2, <2>1, <3>1, LoadTags DEF AguPosition, AtStore, AtLoad
  <2>3. aguLd > 0 => prog.loads[aguLd].tag <= aguSt /\ prog.loads[aguLd].tag \in Nat
    <3>1. aguLd > 0 => aguLd \in 1 .. Len(prog.loads)
      BY <1>1
    <3>2. QED
      BY <1>2, <3>1, LoadTags DEF AguPosition
  <2>4. AguPosition'
    BY <1>1, <1>3, <2>1, <2>2, <2>3 DEF AguPosition
  <2>5. Lockstep'
    BY <1>1, <1>3, <2>1 DEF Lockstep, MayRequest
  <2>6. QED
    BY <1>4, <2>4, <2>5 DEF AguInOrder
<1>7. QED
  BY <1>5, <1>6 DEF Agu

LEMMA CuKeepsOrder == IInv /\ AguInOrder /\ Cu => AguInOrder'
<1>. SUFFICES ASSUME IInv, AguInOrder, Cu PROVE AguInOrder'
  OBVIOUS
<1>1. /\ aguSt \in Nat /\ aguLd \in Nat /\ cuSt \in Nat /\ Len(got) \in Nat
      /\ Len(prog.loads) \in Nat /\ Len(prog.stores) \in Nat
  BY InvCounters
<1>2. AguPosition /\ Lockstep /\ EndsLast
  BY DEF AguInOrder
<1>3. UNCHANGED <<prog, aguSt, aguLd, stage, ending, done>>
  BY DEF Cu, CuReadLoad, CuWriteStore, CuEnd, aguVars, lsqVars
<1>4. AguPosition'
  BY <1>2, <1>3 DEF AguPosition
<1>5. CASE CuReadLoad
  <2>1. /\ AtLoad(prog, cuSt, Len(got)) /\ cuSt' = cuSt /\ cuEnded' = cuEnded /\ endPipe' = endPipe
        /\ Len(got') = Len(got) + 1
    BY <1>1, <1>5 DEF CuReadLoad, CanReadLoad
  <2>2. Len(got) + 1 <= aguLd
    BY <1>5, NextLoadValue
  <2>3. Lockstep'
    BY <1>1, <1>2, <1>3, <2>1, <2>2 DEF Lockstep
  <2>4. ~cuEnded
    BY <1>1, <1>2, <2>1 DEF EndsLast, AtEnd, AtLoad
  <2>5. QED
    BY <1>2, <1>3, <1>4, <2>1, <2>3, <2>4 DEF AguInOrder, EndsLast
<1>6. CASE CuWriteStore
  <2>1. /\ AtStore(prog, cuSt, Len(got)) /\ (prog.decoupled \/ aguSt > cuSt)
        /\ cuSt' = cuSt + 1 /\ got' = got /\ cuEnded' = cuEnded /\ endPipe' = endPipe
    BY <1>6 DEF CuWriteStore, CanWriteStore
  <2>2. Lockstep'
    BY <1>1, <1>2, <1>3, <2>1 DEF Lockstep
  <2>3. ~cuEnded
    BY <1>1, <1>2, <2>1 DEF EndsLast, AtEnd, AtStore
  <2>4. QED
    BY <1>2, <1>3, <1>4, <2>1, <2>2, <2>3 DEF AguInOrder, EndsLast
<1>7. CASE CuEnd
  <2>1. /\ AtEnd(prog, cuSt, Len(got)) /\ cuSt' = cuSt /\ got' = got /\ cuEnded'
        /\ endPipe' = Append(endPipe, TRUE) /\ endPipe \in Seq({TRUE})
    BY <1>7 DEF CuEnd, CanEnd, IInv, TypeOK
  <2>2. endPipe' # <<>>
    BY <2>1, AppendProperties
  <2>3. Lockstep' /\ EndsLast'
    BY <1>2, <1>3, <2>1, <2>2 DEF Lockstep, EndsLast
  <2>4. QED
    BY <1>4, <2>3 DEF AguInOrder
<1>8. QED
  BY <1>5, <1>6, <1>7 DEF Cu

LEMMA LoopKeepsOrder == IInv /\ AguInOrder /\ Lsq => AguInOrder'
<1>. SUFFICES ASSUME IInv, AguInOrder, Lsq PROVE AguInOrder'
  OBVIOUS
<1>1. UNCHANGED <<prog, aguSt, aguLd, cuSt, got, cuEnded>>
  BY DEF Lsq, StoreStage, LoadStage, aguVars, cuVars
<1>2. AguPosition' /\ Lockstep'
  BY <1>1 DEF AguInOrder, AguPosition, Lockstep
<1>3. EndsLast /\ TypeOK
  BY DEF AguInOrder, IInv
<1>4. ASSUME NEW vals \in SUBSET StPorts, NEW stRdy \in BOOLEAN, NEW endRdy \in BOOLEAN,
             NEW junk \in JunkTags, StoreStage(vals, stRdy, endRdy, junk)
      PROVE  EndsLast'
  <2>1. /\ stage = 0 /\ ~done /\ done' = done /\ stage' = 1 /\ ending' = EndSeen(endRdy)
        /\ endPipe' = IF EndSeen(endRdy) THEN Tail(endPipe) ELSE endPipe
    BY <1>4 DEF StoreStage
  <2>2. EndSeen(endRdy) => endPipe # <<>>
    BY DEF EndSeen
  <2>3. ~ending
    BY <1>3, <2>1 DEF EndsLast
  <2>4. CASE EndSeen(endRdy)
    BY <1>1, <1>3, <2>1, <2>2, <2>4 DEF EndsLast
  <2>5. CASE ~EndSeen(endRdy)
    BY <1>1, <1>3, <2>1, <2>3, <2>5 DEF EndsLast
  <2>6. QED
    BY <2>4, <2>5
<1>5. ASSUME NEW k \in LdPorts, NEW ldRdy \in BOOLEAN, LoadStage(k, ldRdy)
      PROVE  EndsLast'
  <2>1. /\ stage = k + 1 /\ stage' = (stage + 1) % (NumLds + 1) /\ done' = (ending /\ k = NumLds - 1)
        /\ ending' = ending /\ endPipe' = endPipe
    BY <1>5 DEF LoadStage
  <2>2. k \in 0 .. NumLds - 1 /\ NumLds \in Nat /\ NumLds >= 1
    BY SizesAssumption
  <2>3. stage # 0 /\ ~done
    BY <1>3, <2>1, <2>2 DEF EndsLast
  <2>4. CASE k = NumLds - 1
    <3>1. stage' = (NumLds + 1) % (NumLds + 1)
      BY <2>1, <2>2, <2>4
    <3>2. stage' = 0
      BY <2>2, <3>1
    <3>3. QED
      BY <1>1, <1>3, <2>1, <2>3, <2>4, <3>2 DEF EndsLast
  <2>5. CASE k # NumLds - 1
    <3>1. stage' = (k + 2) % (NumLds + 1) /\ k + 2 \in 0 .. NumLds
      BY <2>1, <2>2, <2>5
    <3>2. stage' = k + 2
      BY <2>2, <3>1
    <3>3. stage' # 0
      BY <2>2, <3>2
    <3>4. ~done'
      BY <2>1, <2>5
    <3>5. QED
      BY <1>1, <1>3, <2>1, <2>3, <3>3, <3>4 DEF EndsLast
  <2>6. QED
    BY <2>4, <2>5
<1>6. EndsLast'
  BY <1>4, <1>5 DEF Lsq
<1>7. QED
  BY <1>2, <1>6 DEF AguInOrder

LEMMA StepAguInOrder == IInv /\ AguInOrder /\ [Next]_vars => AguInOrder'
<1>. SUFFICES ASSUME IInv, AguInOrder, [Next]_vars PROVE AguInOrder'
  OBVIOUS
<1>1. ASSUME UNCHANGED <<prog, aguSt, aguLd, cuSt, got, cuEnded, endPipe, stage, ending, done>>
      PROVE  AguInOrder'
  BY <1>1 DEF AguInOrder, AguPosition, Lockstep, EndsLast
<1>2. CASE StorePort
  BY <1>1, <1>2 DEF StorePort, aguVars, cuVars, lsqVars
<1>3. CASE LoadPorts
  BY <1>1, <1>3 DEF LoadPorts, LoadPort, LoadMux, aguVars, cuVars, lsqVars
<1>4. ASSUME NEW kernel \in PortKernels, PortEnds(kernel) PROVE AguInOrder'
  BY <1>1, <1>4 DEF PortEnds, aguVars, cuVars, lsqVars
<1>5. CASE UNCHANGED vars
  BY <1>1, <1>5 DEF vars, aguVars, cuVars, lsqVars
<1>6. QED
  BY <1>2, <1>3, <1>4, <1>5, AguKeepsOrder, CuKeepsOrder, LoopKeepsOrder DEF Next

------------------------------------------------------------------------------
(* Where the CU and the AGU are.                                           *)

LEMMA CuPosition ==
  ASSUME IInv
  PROVE  \/ AtLoad(prog, cuSt, Len(got))
         \/ AtStore(prog, cuSt, Len(got))
         \/ AtEnd(prog, cuSt, Len(got))
<1>1. /\ cuSt \in Nat /\ Len(got) \in Nat /\ Len(prog.loads) \in Nat /\ Len(prog.stores) \in Nat
      /\ cuSt <= Len(prog.stores) /\ Len(got) <= Len(prog.loads)
      /\ Len(got) < Len(prog.loads) => cuSt <= prog.loads[Len(got) + 1].tag
  BY InvCounters DEF IInv, CuInOrder
<1>2. Len(got) < Len(prog.loads) => Len(got) + 1 \in 1 .. Len(prog.loads)
  BY <1>1
<1>3. Len(got) < Len(prog.loads) => /\ prog.loads[Len(got) + 1].tag \in Nat
                                    /\ prog.loads[Len(got) + 1].tag <= Len(prog.stores)
  BY <1>2, LoadTags
<1>4. QED
  BY <1>1, <1>3 DEF AtLoad, AtStore, AtEnd

LEMMA AguAt ==
  ASSUME IInv, AguPosition
  PROVE  \/ AtLoad(prog, aguSt, aguLd)
         \/ AtStore(prog, aguSt, aguLd)
         \/ AtEnd(prog, aguSt, aguLd)
<1>1. /\ aguSt \in Nat /\ aguLd \in Nat /\ Len(prog.loads) \in Nat /\ Len(prog.stores) \in Nat
      /\ aguSt <= Len(prog.stores) /\ aguLd <= Len(prog.loads)
      /\ aguLd < Len(prog.loads) => aguSt <= prog.loads[aguLd + 1].tag
  BY InvCounters DEF AguPosition
<1>2. aguLd < Len(prog.loads) => aguLd + 1 \in 1 .. Len(prog.loads)
  BY <1>1
<1>3. aguLd < Len(prog.loads) => /\ prog.loads[aguLd + 1].tag \in Nat
                                 /\ prog.loads[aguLd + 1].tag <= Len(prog.stores)
  BY <1>2, LoadTags
<1>4. QED
  BY <1>1, <1>3 DEF AtLoad, AtStore, AtEnd

------------------------------------------------------------------------------
(* A load on its way.                                                      *)

LEMMA NoIds ==
  ASSUME NEW S, NEW s \in Seq(S), Ids(s) = {}
  PROVE  s = <<>> /\ Len(s) = 0
<1>1. Len(s) \in Nat
  OBVIOUS
<1>2. SUFFICES ASSUME Len(s) # 0 PROVE FALSE
  BY EmptySeq
<1>3. 1 \in 1 .. Len(s)
  BY <1>1, <1>2
<1>4. s[1].id \in Ids(s)
  BY <1>3 DEF Ids
<1>5. QED
  BY <1>4

LEMMA HasIds ==
  ASSUME NEW S, NEW s \in Seq(S), s # <<>>
  PROVE  \E i \in 1 .. Len(s) : s[i].id \in Ids(s)
<1>1. Len(s) \in Nat /\ Len(s) # 0
  BY EmptySeq
<1>2. 1 \in 1 .. Len(s)
  BY <1>1
<1>3. QED
  BY <1>2 DEF Ids

LEMMA PipeTypes ==
  ASSUME IInv, NEW k \in LdPorts
  PROVE  /\ ldValPipe[k] \in Seq(LdValTok) /\ bypassPipe[k] \in Seq(LdValTok)
         /\ memValPipe[k] \in Seq(LdValTok) /\ selPipe[k] \in Seq(Selection)
         /\ addrPipe[k] \in Seq(PortRead) /\ ldReqPipe[k] \in Seq(LdReq)
BY DEF IInv, TypeOK

(* What a load mux has been told to deliver it can deliver, or the load    *)
(* port can fetch it, as long as the CU's pipe has room.                   *)
LEMMA SelectionMoves ==
  ASSUME IInv, NEW k \in LdPorts, selPipe[k] # <<>>, Len(ldValPipe[k]) < LdValDepth
  PROVE  PortsCanGo
<1>. SUFFICES ASSUME ~CanSelect(k), ~CanFetch(k) PROVE FALSE
  BY DEF PortsCanGo
<1>. DEFINE h == Head(selPipe[k])
<1>1. Ascending(selPipe[k])
  <2>1. PICK r \in 0 .. aguLd : \E i, a \in 0 .. aguLd : LoadsHeld(k, r, i, a)
    BY DEF IInv, LoadsInOrder
  <2>2. QED
    BY <2>1 DEF LoadsHeld
<1>2. h.bypass \in BOOLEAN /\ h.id \in Selected(selPipe[k], h.bypass)
  BY <1>1, PipeTypes, SelectedHead
<1>3. /\ Ids(bypassPipe[k]) = Selected(selPipe[k], TRUE)
      /\ Ids(memValPipe[k]) \cup Ids(addrPipe[k]) = Selected(selPipe[k], FALSE)
  BY DEF IInv, RoutesInOrder, Routes
<1>4. CASE h.bypass
  <2>1. h.id \in Ids(bypassPipe[k])
    BY <1>2, <1>3, <1>4
  <2>2. bypassPipe[k] # <<>>
    BY <2>1 DEF Ids
  <2>3. QED
    BY <1>4, <2>2 DEF CanSelect
<1>5. CASE ~h.bypass
  <2>1. memValPipe[k] = <<>>
    BY <1>5 DEF CanSelect
  <2>2. Ids(memValPipe[k]) = {} /\ Len(memValPipe[k]) = 0
    BY <2>1 DEF Ids
  <2>3. h.id \in Ids(addrPipe[k])
    BY <1>2, <1>3, <1>5, <2>2
  <2>4. addrPipe[k] # <<>>
    BY <2>3 DEF Ids
  <2>5. Room(memValPipe[k])
    BY <2>2, QueueAssumption DEF Room
  <2>6. QED
    BY <2>4, <2>5 DEF CanFetch
<1>6. QED
  BY <1>2, <1>4, <1>5

(* A load mux with nothing to deliver does not hold up its port's stage.   *)
LEMMA IdleMuxLetsIssue ==
  ASSUME IInv, NEW k \in LdPorts, selPipe[k] = <<>>
  PROVE  CanIssue(k) /\ addrPipe[k] = <<>>
<1>1. \A b \in BOOLEAN : Selected(selPipe[k], b) = {}
  BY DEF Selected
<1>2. Ids(bypassPipe[k]) = {} /\ Ids(addrPipe[k]) = {}
  BY <1>1 DEF IInv, RoutesInOrder, Routes
<1>3. Len(bypassPipe[k]) = 0 /\ Len(addrPipe[k]) = 0 /\ addrPipe[k] = <<>>
  BY <1>2, NoIds, PipeTypes
<1>4. Len(selPipe[k]) = 0 /\ LdPortDepth \in Nat \ {0}
  BY QueueAssumption
<1>5. QED
  BY <1>3, <1>4 DEF CanIssue, Room

(* An empty entry of the store queue matches no load, and its entries are  *)
(* the stores without a value: a load none of them is older than is safe   *)
(* as soon as the addresses before it have arrived.                        *)
LEMMA HeadIsAnswered ==
  ASSUME IInv, NEW k \in LdPorts, ldQ[k][1].search, ldQ[k][1].tag <= arrived
  PROVE  LoadsCanGo(k)
<1>. DEFINE e == ldQ[k][1]
<1>1. CASE e.isSafe
  BY <1>1 DEF LoadsCanGo, Issuing
<1>2. CASE ~e.isSafe
  <2>1. 1 \in 1 .. LdQSize
    BY QueueAssumption
  <2>2. e.id \in 1 .. Len(prog.loads) /\ e.addr = prog.loads[e.id].addr /\ e.tag = prog.loads[e.id].tag
    <3>1. e.id \in Len(got) + 1 .. Len(prog.loads)
      BY <2>1, QueuedLoad
    <3>2. QED
      BY <2>1, <3>1, QueuedLoad, InvCounters
  <2>3. e.tag \in Nat /\ e.addr \in Addr
    BY <2>2, LoadTags, ProgOps DEF IInv
  <2>4. arrived \in Nat /\ Accepted \in Nat /\ arrived <= Accepted /\ lastStReqTag = Accepted
    BY InvCounters
  <2>5. ASSUME NEW i \in 1 .. StQSize, stQ[i].addr = e.addr PROVE ~(stQ[i].tag <= e.tag)
    <3>1. IF stQ[i].valid THEN stQ[i].tag \in arrived + 1 .. Accepted ELSE stQ[i].addr = InvalidAddr
      BY DEF IInv, StoreQueueHoldsPending, HoldsStores
    <3>2. InvalidAddr \notin Addr
      BY SizesAssumption
    <3>3. stQ[i].tag \in arrived + 1 .. Accepted
      BY <2>3, <2>5, <3>1, <3>2
    <3>4. QED
      BY <2>3, <2>4, <3>3
  <2>6. SafeNow(e)
    BY <2>3, <2>4, <2>5 DEF SafeNow
  <2>7. QED
    BY <1>2, <2>6 DEF LoadsCanGo
<1>3. QED
  BY <1>1, <1>2

LEMMA RequestIsTaken ==
  ASSUME IInv, NEW k \in LdPorts, ldReqPipe[k] # <<>>, ~ldQ[k][LdQSize].search
  PROVE  LoadsCanGo(k)
<1>1. LdQSize # 1 /\ LdQSize \in 1 .. LdQSize
  BY QueueAssumption
<1>2. ldQ[k] \in [1 .. LdQSize -> LdEntry]
  BY QueueSlots DEF IInv
<1>3. LdQAfterIssue(k)[LdQSize] = ldQ[k][LdQSize]
  BY <1>1, <1>2 DEF LdQAfterIssue
<1>4. QED
  BY <1>3 DEF LoadsCanGo, LdReqTaken

(* The load the CU waits for moves on once it is requested and its stores  *)
(* have arrived: it is the oldest of its port, wherever it is.             *)
LEMMA LoadMoves ==
  ASSUME IInv, AtLoad(prog, cuSt, Len(got)), Len(got) + 1 <= aguLd, cuSt <= arrived
  PROVE  CanReadLoad \/ PortsCanGo \/ \E k \in LdPorts : LoadsCanGo(k)
<1>. DEFINE l == Len(got) + 1
            k == prog.loads[l].port
<1>. SUFFICES ASSUME ~CanReadLoad, ~PortsCanGo, ~ \E j \in LdPorts : LoadsCanGo(j) PROVE FALSE
  OBVIOUS
<1>1. /\ Len(got) \in Nat /\ aguLd \in Nat /\ Len(prog.loads) \in Nat /\ arrived \in Nat /\ cuSt \in Nat
      /\ l \in 1 .. Len(prog.loads) /\ l \in 1 .. aguLd
  BY InvCounters DEF AtLoad
<1>2. k \in LdPorts /\ ~LoadsCanGo(k)
  BY <1>1, ProgOps DEF IInv
<1>3. ldValPipe[k] = <<>>
  BY DEF CanReadLoad
<1>4. selPipe[k] = <<>>
  <2>1. Len(ldValPipe[k]) < LdValDepth
    BY <1>3, QueueAssumption
  <2>. HIDE DEF k
  <2>2. QED
    BY <1>2, <2>1, SelectionMoves
<1>5. PICK r \in 0 .. aguLd, i \in 0 .. aguLd, a \in 0 .. aguLd : LoadsHeld(k, r, i, a)
  BY <1>2 DEF IInv, LoadsInOrder
<1>6. /\ Len(got) <= r /\ r <= i /\ i <= a /\ a <= aguLd /\ r \in Nat /\ i \in Nat /\ a \in Nat
      /\ PortLoads(k, Len(got), r) = {} /\ PortLoads(k, r, i) = {}
      /\ QueueIds(ldQ[k]) = PortLoads(k, i, a) /\ QueueAscending(ldQ[k])
      /\ Ids(ldReqPipe[k]) = PortLoads(k, a, aguLd)
  <2>1. Ids(<<>>) = {}
    BY DEF Ids
  <2>2. QED
    BY <1>1, <1>3, <1>4, <1>5, <2>1 DEF LoadsHeld
<1>7. i < l
  <2>1. l \notin PortLoads(k, Len(got), r) /\ l \notin PortLoads(k, r, i)
    BY <1>6
  <2>2. QED
    BY <1>1, <1>6, <2>1 DEF PortLoads
<1>8. CASE \E j \in 1 .. LdQSize : ldQ[k][j].search
  <2>1. ldQ[k][1].search /\ 1 \in 1 .. LdQSize
    <3>1. 1 \in 1 .. LdQSize
      BY QueueAssumption
    <3>. HIDE DEF k
    <3>2. QED
      BY <1>2, <1>8, <3>1, Zenon DEF LoadsCanGo
  <2>2. ldQ[k][1].id \in QueueIds(ldQ[k])
    BY <2>1 DEF QueueIds
  <2>3. ldQ[k][1].id \in i + 1 .. a
    BY <1>6, <2>2 DEF PortLoads
  <2>4. ldQ[k][1].id >= l
    BY <1>1, <1>6, <1>7, <2>3
  <2>5. l \in QueueIds(ldQ[k])
    BY <1>1, <1>6, <1>7, <2>3, <2>4 DEF PortLoads
  <2>6. PICK j \in 1 .. LdQSize : ldQ[k][j].search /\ ldQ[k][j].id = l
    BY <2>5 DEF QueueIds
  <2>7. ldQ[k][1].id = l
    <3>1. j = 1 \/ 1 < j
      BY <2>6, QueueAssumption
    <3>2. 1 < j => ldQ[k][1].id < ldQ[k][j].id
      BY <1>6, <2>1, <2>6 DEF QueueAscending
    <3>3. QED
      BY <1>6, <2>3, <2>4, <2>6, <3>1, <3>2
  <2>8. ldQ[k][1].tag = prog.loads[l].tag
    <3>. HIDE DEF k, l
    <3>1. QED
      BY <1>2, <2>1, <2>7, QueuedLoad
  <2>9. ldQ[k][1].tag <= arrived
    BY <2>8 DEF AtLoad
  <2>. HIDE DEF k, l
  <2>10. QED
    BY <1>2, <2>1, <2>9, HeadIsAnswered
<1>9. CASE \A j \in 1 .. LdQSize : ~ldQ[k][j].search
  <2>1. QueueIds(ldQ[k]) = {}
    BY <1>9 DEF QueueIds
  <2>2. l \in PortLoads(k, a, aguLd)
    <3>1. l \notin PortLoads(k, i, a)
      BY <1>6, <2>1
    <3>2. QED
      BY <1>1, <1>6, <1>7, <3>1 DEF PortLoads
  <2>3. ldReqPipe[k] # <<>>
    BY <1>6, <2>2 DEF Ids
  <2>4. ~ldQ[k][LdQSize].search
    BY <1>9, QueueAssumption
  <2>. HIDE DEF k, l
  <2>5. QED
    BY <1>2, <2>3, <2>4, RequestIsTaken
<1>10. QED
  BY <1>8, <1>9

------------------------------------------------------------------------------
(* A store on its way.                                                     *)

(* The values sent to one port are stores of their own. *)
LEMMA ValuesAreFew ==
  ASSUME IInv, SentValuesHeld, NEW p \in StPorts
  PROVE  Len(stValPipe[p]) \in Nat /\ Len(stValPipe[p]) <= cuSt - arrived
<1>. DEFINE n == Len(stValPipe[p])
            F == [i \in 1 .. n |-> stValPipe[p][i].value]
            sent == arrived + 1 .. cuSt
<1>1. n \in Nat /\ arrived \in Nat /\ cuSt \in Nat /\ arrived <= cuSt
  BY InvCounters DEF IInv, TypeOK
<1>2. \A i \in 1 .. n : stValPipe[p][i].value \in sent
  <2>1. TAKE i \in 1 .. n
  <2>2. stValPipe[p][i].value \in 1 .. cuSt
    BY DEF IInv, StoreValuesPaired, GoodStVal
  <2>3. arrived < stValPipe[p][i].value
    BY DEF SentValuesHeld, WaitsAt
  <2>4. QED
    BY <1>1, <2>2, <2>3
<1>3. \A i, j \in 1 .. n : i < j => stValPipe[p][i].value < stValPipe[p][j].value
  BY DEF SentValuesHeld
<1>4. \A i, j \in 1 .. n : stValPipe[p][i].value = stValPipe[p][j].value => i = j
  <2>1. TAKE i, j \in 1 .. n
  <2>2. i < j \/ j < i \/ i = j
    BY <1>1
  <2>3. stValPipe[p][i].value \in Int /\ stValPipe[p][j].value \in Int
    BY <1>1, <1>2
  <2>4. QED
    BY <1>3, <2>2, <2>3
<1>5. F \in Injection(1 .. n, sent)
  BY <1>2, <1>4 DEF Injection, IsInjective
<1>6. IsFiniteSet(sent) /\ Cardinality(sent) = cuSt - arrived
  <2>1. arrived + 1 \in Int /\ cuSt \in Int
    BY <1>1
  <2>2. IsFiniteSet(sent) /\ Cardinality(sent) = IF arrived + 1 > cuSt THEN 0 ELSE cuSt - (arrived + 1) + 1
    BY <2>1, FS_Interval, Zenon
  <2>3. QED
    BY <1>1, <2>2
<1>7. Cardinality(1 .. n) = n
  <2>. HIDE DEF n
  <2>1. Cardinality(1 .. n) = IF 1 > n THEN 0 ELSE n - 1 + 1
    BY <1>1, FS_Interval
  <2>2. QED
    BY <1>1, <2>1
<1>8. Cardinality(1 .. n) <= Cardinality(sent)
  <2>. HIDE DEF F, n, sent
  <2>1. QED
    BY <1>5, <1>6, FS_Injection
<1>9. QED
  BY <1>1, <1>6, <1>7, <1>8

(* The stores accepted and not arrived have entries of their own. *)
LEMMA PendingAreFew ==
  ASSUME IInv
  PROVE  Accepted - arrived <= StQSize
<1>. DEFINE pending == arrived + 1 .. Accepted
            At(s) == CHOOSE i \in 1 .. StQSize : stQ[i].valid /\ stQ[i].tag = s
            F == [s \in pending |-> At(s)]
<1>1. arrived \in Nat /\ Accepted \in Nat /\ arrived <= Accepted /\ StQSize \in Nat
  BY InvCounters, QueueAssumption
<1>2. ASSUME NEW s \in pending PROVE At(s) \in 1 .. StQSize /\ stQ[At(s)].tag = s
  <2>1. \E i \in 1 .. StQSize : stQ[i].valid /\ stQ[i].tag = s
    BY DEF IInv, StoreQueueHoldsPending, HoldsStores
  <2>2. QED
    BY <2>1
<1>. HIDE DEF At
<1>3. \A s, t \in pending : At(s) = At(t) => s = t
  BY <1>2
<1>4. F \in Injection(pending, 1 .. StQSize)
  BY <1>2, <1>3 DEF Injection, IsInjective
<1>5. IsFiniteSet(1 .. StQSize) /\ Cardinality(1 .. StQSize) = StQSize
  <2>1. IsFiniteSet(1 .. StQSize) /\ Cardinality(1 .. StQSize) = IF 1 > StQSize THEN 0 ELSE StQSize - 1 + 1
    BY <1>1, FS_Interval
  <2>2. QED
    BY <1>1, <2>1
<1>6. Cardinality(pending) = Accepted - arrived
  <2>1. arrived + 1 \in Int /\ Accepted \in Int
    BY <1>1
  <2>2. Cardinality(pending) = IF arrived + 1 > Accepted THEN 0 ELSE Accepted - (arrived + 1) + 1
    BY <2>1, FS_Interval, Zenon
  <2>3. QED
    BY <1>1, <2>2
<1>7. Cardinality(pending) <= Cardinality(1 .. StQSize)
  <2>. HIDE DEF F, pending
  <2>1. QED
    BY <1>4, <1>5, FS_Injection
<1>8. QED
  BY <1>5, <1>6, <1>7

(* A store at the head of its queue whose value was sent gets it. *)
LEMMA SentValueArrives ==
  ASSUME IInv, SentValuesHeld, stQ[1].valid, arrived < cuSt
  PROVE  StoresCanGo
<1>. DEFINE s == arrived + 1
            k == prog.stores[s].port
<1>1. /\ arrived \in Nat /\ cuSt \in Nat /\ cuSt <= Len(prog.stores) /\ Len(prog.stores) \in Nat
      /\ s \in arrived + 1 .. cuSt /\ s \in 1 .. Len(prog.stores)
  BY InvCounters
<1>2. k \in StPorts /\ IsHeldAt(k, s)
  BY <1>1, ProgOps DEF SentValuesHeld, IInv
<1>3. CASE stValReadSucc[k] /\ stValRead[k].value = s
  <2>1. ValueMux
    BY <1>2, <1>3 DEF SentValuesHeld
  <2>2. stValRead[k].tag = s /\ nextStValTag = s
    BY <1>2, <1>3, <2>1 DEF IInv, StoreValuesPaired, GoodStVal
  <2>3. k \in Matching
    BY <1>2, <1>3, <2>2 DEF Matching
  <2>4. QED
    BY <2>1, <2>3 DEF StoresCanGo, StValArrived
<1>4. CASE ~(stValReadSucc[k] /\ stValRead[k].value = s)
  <2>1. PICK i \in 1 .. Len(stValPipe[k]) : stValPipe[k][i].value = s
    BY <1>2, <1>4 DEF IsHeldAt
  <2>2. ~stValReadSucc[k]
    <3>1. SUFFICES ASSUME stValReadSucc[k] PROVE FALSE
      OBVIOUS
    <3>2. WaitsAt(k, stValRead[k].value) /\ stValRead[k].value < stValPipe[k][i].value
      BY <1>2, <2>1, <3>1 DEF SentValuesHeld
    <3>3. stValRead[k].value \in 1 .. cuSt
      BY <1>2, <3>1 DEF IInv, StoreValuesPaired, GoodStVal
    <3>4. QED
      BY <1>1, <2>1, <3>2, <3>3 DEF WaitsAt
  <2>3. stValPipe[k] # <<>>
    BY <1>2, <2>1 DEF IInv, TypeOK
  <2>4. k \in Polled(StPorts)
    BY <1>2, <2>2, <2>3 DEF Polled
  <2>5. QED
    BY <2>4 DEF StoresCanGo
<1>5. QED
  BY <1>3, <1>4

------------------------------------------------------------------------------
(* A load that cannot be issued halts the loop.                            *)

(* Its port then has given the CU all it can take. *)
LEMMA HaltedBehindFullPipe ==
  ASSUME IInv, NEW k \in LdPorts, ~CanIssue(k), ~PortsCanGo
  PROVE  /\ ldQ[k][1].search /\ ldQ[k][1].isSafe
         /\ selPipe[k] # <<>> /\ ldValPipe[k] # <<>>
<1>1. ldQ[k][1].search /\ ldQ[k][1].isSafe
  BY DEF CanIssue, Issuing
<1>2. selPipe[k] # <<>>
  BY IdleMuxLetsIssue
<1>3. ~(Len(ldValPipe[k]) < LdValDepth)
  BY <1>2, SelectionMoves
<1>4. ldValPipe[k] # <<>>
  BY <1>3, QueueAssumption
<1>5. QED
  BY <1>1, <1>2, <1>4

(* A coupled AGU has asked for one load at most: none is behind another.   *)
LEMMA CoupledIsNotHalted ==
  ASSUME IInv, Lockstep, ~prog.decoupled, ~PortsCanGo
  PROVE  ~Halted
<1>. SUFFICES ASSUME NEW k \in LdPorts, ~CanIssue(k) PROVE FALSE
  BY DEF Halted
<1>1. ldQ[k][1].search /\ selPipe[k] # <<>> /\ 1 \in 1 .. LdQSize
  BY HaltedBehindFullPipe, QueueAssumption
<1>2. PICK m \in 1 .. Len(selPipe[k]) : selPipe[k][m].id \in Ids(selPipe[k])
  BY <1>1, HasIds, PipeTypes
<1>. DEFINE s == selPipe[k][m].id
            l == ldQ[k][1].id
<1>3. l \in QueueIds(ldQ[k])
  BY <1>1 DEF QueueIds
<1>. HIDE DEF s, l
<1>4. PICK r \in 0 .. aguLd, i \in 0 .. aguLd, a \in 0 .. aguLd : LoadsHeld(k, r, i, a)
  BY DEF IInv, LoadsInOrder
<1>5. s \in PortLoads(k, r, i) /\ l \in PortLoads(k, i, a) /\ Len(got) <= r
  BY <1>2, <1>3, <1>4 DEF LoadsHeld, s
<1>6. Len(got) \in Nat /\ aguLd \in Nat /\ r \in Nat /\ i \in Nat /\ a \in Nat /\ a <= aguLd
  BY <1>4, InvCounters
<1>7. s \in r + 1 .. i /\ l \in i + 1 .. a
  BY <1>5 DEF PortLoads
<1>8. aguLd > Len(got) + 1
  BY <1>5, <1>6, <1>7
<1>9. aguLd <= Len(got) + 1
  BY <1>6 DEF Lockstep
<1>10. QED
  BY <1>6, <1>8, <1>9

(* Halted by its only port, the loop has stores to take that the load is   *)
(* behind; if the CU has not sent all of them, its pipe has room for one.  *)
LEMMA OnePortGoesOn ==
  ASSUME IInv, SentValuesHeld, prog.decoupled, NumLds = 1, StQSize <= StValDepth, Halted
  PROVE  CuCanGo \/ PortsCanGo
<1>. SUFFICES ASSUME ~CuCanGo, ~PortsCanGo PROVE FALSE
  OBVIOUS
<1>1. LdPorts = {0}
  OBVIOUS
<1>2. ~CanIssue(0)
  BY <1>1 DEF Halted
<1>3. /\ ldQ[0][1].search /\ ldQ[0][1].isSafe /\ ldValPipe[0] # <<>>
      /\ 0 \in LdPorts /\ 1 \in 1 .. LdQSize
  BY <1>1, <1>2, HaltedBehindFullPipe, QueueAssumption
<1>4. /\ Len(got) \in Nat /\ cuSt \in Nat /\ arrived \in Nat /\ Accepted \in Nat
      /\ Len(prog.loads) \in Nat /\ Len(prog.stores) \in Nat /\ arrived <= cuSt
  BY InvCounters
<1>5. Len(got) < Len(prog.loads)
  <2>1. PICK m \in 1 .. Len(ldValPipe[0]) : ldValPipe[0][m].id \in Ids(ldValPipe[0])
    BY <1>3, HasIds, PipeTypes
  <2>2. ldValPipe[0][m].id \in Len(got) + 1 .. Len(prog.loads)
    BY <1>3, <2>1, HeldLoad
  <2>3. QED
    BY <1>4, <2>2
<1>6. ~AtLoad(prog, cuSt, Len(got))
  <2>1. SUFFICES ASSUME AtLoad(prog, cuSt, Len(got)) PROVE FALSE
    OBVIOUS
  <2>2. Len(got) + 1 \in 1 .. Len(prog.loads)
    BY <1>4, <1>5
  <2>3. prog.loads[Len(got) + 1].port \in LdPorts
    BY <2>2, ProgOps DEF IInv
  <2>4. prog.loads[Len(got) + 1].port = 0
    BY <1>1, <2>3
  <2>5. QED
    BY <1>3, <2>1, <2>4 DEF CuCanGo, CanReadLoad
<1>7. cuSt < prog.loads[Len(got) + 1].tag /\ prog.loads[Len(got) + 1].tag \in Nat
  <2>1. Len(got) + 1 \in 1 .. Len(prog.loads)
    BY <1>4, <1>5
  <2>2. cuSt <= prog.loads[Len(got) + 1].tag
    BY <1>5 DEF IInv, CuInOrder
  <2>3. prog.loads[Len(got) + 1].tag # cuSt
    BY <1>5, <1>6 DEF AtLoad
  <2>4. QED
    BY <1>4, <2>1, <2>2, <2>3, LoadTags
<1>8. prog.loads[Len(got) + 1].tag <= Accepted
  <2>. DEFINE e == ldQ[0][1]
  <2>1. e.tag <= Accepted
    BY <1>3 DEF IInv, SafeLoadHasNoHazard
  <2>2. e.id \in Len(got) + 1 .. Len(prog.loads) /\ e.tag = prog.loads[e.id].tag
    BY <1>3, QueuedLoad
  <2>3. e.id \in 1 .. Len(prog.loads) /\ Len(got) + 1 \in 1 .. Len(prog.loads) /\ Len(got) + 1 <= e.id
    BY <1>4, <1>5, <2>2
  <2>4. prog.loads[Len(got) + 1].tag <= prog.loads[e.id].tag /\ prog.loads[e.id].tag \in Nat
    BY <2>3, LoadTags
  <2>. HIDE DEF e
  <2>5. QED
    BY <1>4, <1>7, <2>1, <2>2, <2>4
<1>9. cuSt < Accepted /\ Accepted <= Len(prog.stores)
  BY <1>4, <1>7, <1>8, InvCounters
<1>10. AtStore(prog, cuSt, Len(got)) /\ cuSt + 1 \in 1 .. Len(prog.stores)
  BY <1>4, <1>6, <1>9 DEF AtStore
<1>11. prog.stores[cuSt + 1].port \in StPorts
  BY <1>10, ProgOps DEF IInv
<1>12. Len(stValPipe[prog.stores[cuSt + 1].port]) < StValDepth
  <2>. DEFINE n == Len(stValPipe[prog.stores[cuSt + 1].port])
  <2>1. n \in Nat /\ n <= cuSt - arrived
    BY <1>11, ValuesAreFew
  <2>2. Accepted - arrived <= StQSize
    BY PendingAreFew
  <2>3. StQSize \in Nat /\ StValDepth \in Nat
    BY QueueAssumption
  <2>. HIDE DEF n
  <2>4. n < StValDepth
    BY <1>4, <1>9, <2>1, <2>2, <2>3
  <2>5. QED
    BY <2>4 DEF n
<1>13. QED
  BY <1>10, <1>12 DEF CuCanGo, CanWriteStore

LEMMA HaltedGoesOn ==
  ASSUME IInv, SentValuesHeld, AguInOrder, Halted, ~LoadsRunAhead
  PROVE  CuCanGo \/ PortsCanGo
<1>1. CASE ~prog.decoupled
  BY <1>1, CoupledIsNotHalted DEF AguInOrder
<1>2. CASE prog.decoupled
  <2>1. ~(NumLds > 1) /\ ~(StQSize > StValDepth)
    BY <1>2 DEF LoadsRunAhead
  <2>2. NumLds = 1 /\ StQSize <= StValDepth
    BY <2>1, SizesAssumption, QueueAssumption
  <2>3. QED
    BY <1>2, <2>2, OnePortGoesOn
<1>3. QED
  BY <1>1, <1>2

------------------------------------------------------------------------------
(* The loop runs.                                                          *)

(* A store waits at the head of its queue: its value is on its way, or the *)
(* CU can send it, or the CU is at a load before it.                       *)
LEMMA StoreWaiting ==
  ASSUME IInv, SentValuesHeld, AguPosition, stQ[1].valid
  PROVE  CuCanGo \/ PortsCanGo \/ StoresCanGo \/ \E k \in LdPorts : LoadsCanGo(k)
<1>1. /\ arrived \in Nat /\ cuSt \in Nat /\ aguSt \in Nat /\ aguLd \in Nat /\ Len(got) \in Nat
      /\ arrived <= cuSt /\ Accepted \in Nat /\ arrived + 1 <= Accepted /\ Accepted <= aguSt
      /\ Len(prog.stores) \in Nat /\ aguSt <= Len(prog.stores) /\ Len(prog.loads) \in Nat
      /\ Len(got) <= Len(prog.loads) /\ aguLd <= Len(prog.loads)
  BY HeadStore, InvCounters
<1>2. CASE arrived < cuSt
  BY <1>2, SentValueArrives
<1>3. CASE arrived = cuSt /\ AtStore(prog, cuSt, Len(got))
  <2>1. cuSt + 1 \in 1 .. Len(prog.stores)
    BY <1>1, <1>3 DEF AtStore
  <2>2. prog.stores[cuSt + 1].port \in StPorts
    BY <2>1, ProgOps DEF IInv
  <2>. DEFINE n == Len(stValPipe[prog.stores[cuSt + 1].port])
  <2>3. n \in Nat /\ n <= cuSt - arrived
    BY <2>2, ValuesAreFew
  <2>. HIDE DEF n
  <2>4. n < StValDepth
    BY <1>1, <1>3, <2>3, QueueAssumption
  <2>5. QED
    BY <1>1, <1>3, <2>4 DEF CuCanGo, CanWriteStore, n
<1>4. CASE arrived = cuSt /\ AtLoad(prog, cuSt, Len(got))
  <2>1. Len(got) + 1 <= aguLd
    <3>1. SUFFICES ASSUME aguLd <= Len(got) PROVE FALSE
      BY <1>1
    <3>2. Len(got) + 1 \in 1 .. Len(prog.loads) /\ aguLd + 1 \in 1 .. Len(prog.loads) /\ aguLd + 1 <= Len(got) + 1
          /\ aguLd < Len(prog.loads)
      BY <1>1, <1>4, <3>1 DEF AtLoad
    <3>3. aguSt <= prog.loads[aguLd + 1].tag /\ prog.loads[Len(got) + 1].tag = cuSt
      BY <1>4, <3>2 DEF AguPosition, AtLoad
    <3>4. prog.loads[aguLd + 1].tag <= prog.loads[Len(got) + 1].tag /\ prog.loads[aguLd + 1].tag \in Nat
      BY <3>2, LoadTags
    <3>5. QED
      BY <1>1, <1>4, <3>3, <3>4
  <2>2. QED
    BY <1>1, <1>4, <2>1, LoadMoves DEF CuCanGo
<1>5. CASE arrived = cuSt /\ AtEnd(prog, cuSt, Len(got))
  BY <1>1, <1>5 DEF AtEnd
<1>6. QED
  BY <1>1, <1>2, <1>3, <1>4, <1>5, CuPosition

(* No store waits and the AGU cannot send its load: the queue of its port  *)
(* is full of loads that have nothing to wait for.                         *)
LEMMA LoadPipeFull ==
  ASSUME IInv, AguPosition, arrived = aguSt, NEW k \in LdPorts, ldReqPipe[k] # <<>>
  PROVE  LoadsCanGo(k)
<1>. SUFFICES ASSUME ~LoadsCanGo(k) PROVE FALSE
  OBVIOUS
<1>1. 1 \in 1 .. LdQSize /\ LdQSize \in 1 .. LdQSize
  BY QueueAssumption
<1>2. ldQ[k][LdQSize].search
  BY RequestIsTaken
<1>3. ldQ[k][1].search
  BY <1>1, <1>2 DEF LoadsCanGo
<1>4. /\ aguLd \in Nat /\ Len(got) \in Nat /\ Len(prog.loads) \in Nat /\ aguLd <= Len(prog.loads)
      /\ aguSt \in Nat
  BY InvCounters
<1>. DEFINE l == ldQ[k][1].id
<1>5. l \in Len(got) + 1 .. aguLd /\ ldQ[k][1].tag = prog.loads[l].tag
  <2>1. l \in QueueIds(ldQ[k])
    BY <1>1, <1>3 DEF QueueIds
  <2>2. QED
    BY <1>1, <1>3, <2>1, HeldLoad, QueuedLoad
<1>. HIDE DEF l
<1>6. l \in 1 .. Len(prog.loads) /\ aguLd \in 1 .. Len(prog.loads) /\ l <= aguLd /\ aguLd > 0
  BY <1>4, <1>5
<1>7. prog.loads[l].tag <= prog.loads[aguLd].tag /\ prog.loads[l].tag \in Nat /\ prog.loads[aguLd].tag \in Nat
  BY <1>6, LoadTags
<1>8. prog.loads[aguLd].tag <= aguSt
  BY <1>6 DEF AguPosition
<1>9. ldQ[k][1].tag <= arrived
  BY <1>4, <1>5, <1>7, <1>8
<1>10. QED
  BY <1>3, <1>9, HeadIsAnswered

(* No store waits: the next request or its value can be sent.              *)
LEMMA NoStoreWaiting ==
  ASSUME IInv, AguInOrder, ~done, ~stQ[1].valid
  PROVE  \/ AguCanGo \/ CuCanGo \/ PortsCanGo
         \/ StoresCanGo \/ ending \/ EndSeen(TRUE) \/ \E k \in LdPorts : LoadsCanGo(k)
<1>. SUFFICES ASSUME ~AguCanGo, ~CuCanGo, ~PortsCanGo, ~StoresCanGo, ~ending, ~EndSeen(TRUE),
                     \A k \in LdPorts : ~LoadsCanGo(k)
              PROVE  FALSE
  BY Zenon
<1>1. /\ arrived \in Nat /\ cuSt \in Nat /\ aguSt \in Nat /\ aguLd \in Nat /\ Len(got) \in Nat
      /\ arrived <= cuSt /\ Accepted \in Nat /\ arrived <= Accepted /\ Accepted + Len(stReqPipe) = aguSt
      /\ Len(stReqPipe) \in Nat /\ aguLd <= Len(prog.loads)
      /\ cuSt <= Len(prog.stores) /\ Len(prog.stores) \in Nat /\ Len(prog.loads) \in Nat
  BY InvCounters
<1>2. Accepted = arrived
  <2>1. \A i \in 1 .. StQSize : ~stQ[i].valid
    BY DEF StoresCanGo
  <2>2. \A s \in arrived + 1 .. Accepted : FALSE
    BY <2>1 DEF IInv, StoreQueueHoldsPending, HoldsStores
  <2>3. QED
    BY <1>1, <2>2
<1>3. Len(stReqPipe) = 0
  <2>1. stReqPipe = <<>>
    BY DEF StoresCanGo, StReqTaken, StQShifts
  <2>2. QED
    BY <2>1
<1>4. aguSt = arrived
  BY <1>1, <1>2, <1>3
<1>5. \A k \in LdPorts : Len(ldReqPipe[k]) = 0
  <2>1. TAKE k \in LdPorts
  <2>2. ldReqPipe[k] = <<>>
    BY <1>4, LoadPipeFull DEF AguInOrder
  <2>3. QED
    BY <2>2
<1>6. ~(AtLoad(prog, cuSt, Len(got)) /\ Len(got) + 1 <= aguLd)
  <2>1. SUFFICES ASSUME AtLoad(prog, cuSt, Len(got)), Len(got) + 1 <= aguLd PROVE FALSE
    OBVIOUS
  <2>2. aguLd \in 1 .. Len(prog.loads) /\ Len(got) + 1 \in 1 .. Len(prog.loads)
    BY <1>1, <2>1 DEF AtLoad
  <2>3. prog.loads[Len(got) + 1].tag <= prog.loads[aguLd].tag /\ prog.loads[aguLd].tag \in Nat
    BY <2>1, <2>2, LoadTags
  <2>4. prog.loads[aguLd].tag <= aguSt /\ prog.loads[Len(got) + 1].tag = cuSt
    BY <1>1, <2>1, <2>2 DEF AguInOrder, AguPosition, AtLoad
  <2>5. cuSt <= arrived
    BY <1>1, <1>4, <2>3, <2>4
  <2>6. QED
    BY <2>1, <2>5, LoadMoves DEF CuCanGo
<1>7. MayRequest
  BY <1>1, <1>4, <1>6 DEF AguInOrder, Lockstep, MayRequest
<1>8. CASE AtLoad(prog, aguSt, aguLd)
  <2>1. aguLd + 1 \in 1 .. Len(prog.loads)
    BY <1>1, <1>8 DEF AtLoad
  <2>2. prog.loads[aguLd + 1].port \in LdPorts
    BY <2>1, ProgOps DEF IInv
  <2>3. QED
    BY <1>5, <1>7, <1>8, <2>2, QueueAssumption DEF AguCanGo, CanSendLoad
<1>9. CASE AtStore(prog, aguSt, aguLd)
  BY <1>3, <1>7, <1>9, QueueAssumption DEF AguCanGo, CanSendStore
<1>10. CASE AtEnd(prog, aguSt, aguLd)
  <2>1. cuSt = Len(prog.stores)
    BY <1>1, <1>4, <1>10 DEF AtEnd
  <2>2. ~AtStore(prog, cuSt, Len(got))
    BY <1>1, <2>1 DEF AtStore
  <2>3. ~AtLoad(prog, cuSt, Len(got))
    BY <1>1, <1>6, <1>10 DEF AtLoad, AtEnd
  <2>4. AtEnd(prog, cuSt, Len(got))
    BY <2>2, <2>3, CuPosition
  <2>5. cuEnded
    BY <2>4 DEF CuCanGo, CanEnd
  <2>6. endPipe # <<>>
    BY <2>5 DEF AguInOrder, EndsLast
  <2>7. QED
    BY <2>6 DEF EndSeen
<1>11. QED
  BY <1>8, <1>9, <1>10, AguAt DEF AguInOrder

------------------------------------------------------------------------------
(* Behind the loop all loads have been read, and the ports have no more of *)
(* them.                                                                   *)
LEMMA PortsEndBehindLoop ==
  ASSUME IInv, AguInOrder, done, running # {}, stPortPipe = <<>>
  PROVE  \E kernel \in running : NothingFor(kernel)
<1>1. Len(got) = Len(prog.loads) /\ Len(prog.loads) \in Nat
  <2>1. cuEnded
    BY DEF AguInOrder, EndsLast
  <2>2. QED
    BY <2>1, InvCounters DEF AguInOrder, EndsLast, AtEnd
<1>2. ASSUME NEW k \in LdPorts PROVE selPipe[k] = <<>> /\ addrPipe[k] = <<>>
  <2>1. Ids(selPipe[k]) = {}
    <3>1. SUFFICES ASSUME NEW l \in Ids(selPipe[k]) PROVE FALSE
      OBVIOUS
    <3>2. l \in Len(got) + 1 .. Len(prog.loads)
      BY HeldLoad
    <3>3. QED
      BY <1>1, <3>2
  <2>2. selPipe[k] = <<>>
    BY <2>1, NoIds, PipeTypes
  <2>3. QED
    BY <2>2, IdleMuxLetsIssue
<1>3. PICK kernel \in running : TRUE
  OBVIOUS
<1>4. kernel \in PortKernels
  BY DEF IInv, TypeOK
<1>5. CASE kernel = <<"StorePort", 0>>
  BY <1>5 DEF NothingFor
<1>6. ASSUME NEW k \in LdPorts, kernel = <<"LoadPort", k>> PROVE NothingFor(kernel)
  BY <1>2, <1>6 DEF NothingFor
<1>7. ASSUME NEW k \in LdPorts, kernel = <<"LoadMux", k>> PROVE NothingFor(kernel)
  BY <1>2, <1>7 DEF NothingFor
<1>8. QED
  BY <1>4, <1>5, <1>6, <1>7 DEF PortKernels

LEMMA SomebodyGoesOn == IInv /\ SentValuesHeld /\ AguInOrder => NoDeadlock
<1>. SUFFICES ASSUME IInv, SentValuesHeld, AguInOrder PROVE NoDeadlock
  OBVIOUS
<1>1. ASSUME ~done, Halted
      PROVE  CuCanGo \/ PortsCanGo \/ LoadsRunAhead
  BY <1>1, HaltedGoesOn
<1>2. ASSUME ~done, ~Halted
      PROVE  AguCanGo \/ CuCanGo \/ PortsCanGo \/ LoopCanGo
  <2>1. CASE stQ[1].valid
    BY <1>2, <2>1, StoreWaiting DEF LoopCanGo, AguInOrder
  <2>2. CASE ~stQ[1].valid
    BY <1>2, <2>2, NoStoreWaiting DEF LoopCanGo
  <2>3. QED
    BY <2>1, <2>2
<1>3. QED
  BY <1>1, <1>2, PortsEndBehindLoop DEF NoDeadlock

(* The AGU never passes the load it sends next, a coupled one is in step   *)
(* with the CU, and the loop ends after the CU (lines 199 to 201).         *)
LEMMA AguIsInOrder == Spec => []AguInOrder
BY InitAguInOrder, StepAguInOrder, InvariantHolds, PTL DEF Spec

(* The blocking writes of lines 298 to 307 are the only place where the    *)
(* kernels can wait for one another in a circle, and they are none for a   *)
(* coupled AGU, nor for a queue with one load port and store value pipes   *)
(* that hold as many values as the queue holds stores.                     *)
THEOREM DramHasNoOtherDeadlock == Spec => []NoDeadlock
BY SomebodyGoesOn, AguIsInOrder, SentValuesAreHeld, InvariantHolds, PTL
==============================================================================
