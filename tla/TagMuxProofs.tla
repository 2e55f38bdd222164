----------------------------- MODULE TagMuxProofs -----------------------------
(***************************************************************************)
(* Proofs about the multiplexer kernels, for every number of ports, pipe   *)
(* depth, tag range and program.                                           *)
(***************************************************************************)
EXTENDS TagMuxInv, SequenceTheorems, FiniteSetTheorems, WellFoundedInduction, TLAPS

------------------------------------------------------------------------------
(* Type correctness.                                                       *)

LEMMA ProgramType ==
  ASSUME Typed
  PROVE  /\ NumReqs \in Nat /\ program.singleWriter \in BOOLEAN
         /\ Reqs = 1 .. NumReqs
BY MuxAssumption DEF Typed, NumReqs, Reqs

LEMMA TagType == ASSUME NEW n \in Nat \ {0} PROVE TagOf(n) \in 0 .. TagMod - 1
BY MuxAssumption DEF TagOf

(* A nonempty set of ports has a last one. *)
LEMMA LastPort ==
  ASSUME NEW S \in SUBSET Ports, S # {}
  PROVE  \E k \in S : \A j \in S : j <= k
<1>. DEFINE T == {n \in Nat : \E k \in S : n = NumPorts - 1 - k}
<1>1. T # {} /\ T \in SUBSET Nat
  <2>1. PICK k \in S : TRUE
    OBVIOUS
  <2>2. NumPorts - 1 - k \in T
    BY MuxAssumption DEF Ports
  <2>3. QED
    BY <2>2
<1>2. PICK n \in T : \A m \in T : ~ (<<m, n>> \in OpToRel(<, Nat))
  BY <1>1, NatLessThanWellFounded, WFMin, Zenon
<1>3. \A m \in T : ~ (m < n)
  <2>1. TAKE m \in T
  <2>2. m \in Nat /\ n \in Nat
    OBVIOUS
  <2>3. <<m, n>> \in Nat \X Nat
    BY <2>2
  <2>4. m < n => <<m, n>> \in OpToRel(<, Nat)
    BY <2>3 DEF OpToRel
  <2>5. QED
    BY <1>2, <2>4
<1>4. PICK k \in S : n = NumPorts - 1 - k
  BY <1>2
<1>5. \A j \in S : j <= k
  <2>1. TAKE j \in S
  <2>2. NumPorts - 1 - j \in T /\ j \in Int /\ k \in Int
    BY MuxAssumption DEF Ports
  <2>3. QED
    BY <1>3, <1>4, <2>2, MuxAssumption
<1>6. QED
  BY <1>5

LEMMA ChosenType ==
  ASSUME Typed
  PROVE  Chosen \in Seq([id : 0 .. NumReqs, port : Ports]) /\ Len(Chosen) <= 1
<1>1. CASE Matches = {}
  BY <1>1 DEF Chosen
<1>2. CASE Matches # {}
  <2>. DEFINE k == CHOOSE k \in Matches : \A j \in Matches : j <= k
  <2>1. Matches \in SUBSET Ports
    BY DEF Matches
  <2>2. k \in Ports
    BY <1>2, <2>1, LastPort
  <2>3. reg[k].id \in 0 .. NumReqs
    BY <2>2 DEF Typed, TypeOK, Request
  <2>. HIDE DEF k
  <2>4. [id |-> reg[k].id, port |-> k] \in [id : 0 .. NumReqs, port : Ports]
    BY <2>2, <2>3
  <2>5. Chosen = <<[id |-> reg[k].id, port |-> k]>>
    BY <1>2 DEF Chosen, k
  <2>6. QED
    BY <2>4, <2>5
<1>3. QED
  BY <1>1, <1>2

LEMMA InitTyped == Init => Typed
<1>. SUFFICES ASSUME Init PROVE Typed
  OBVIOUS
<1>1. NumReqs \in Nat /\ program \in Programs
  BY MuxAssumption DEF Init, NumReqs
<1>2. NoRequest \subseteq Request
  <2>1. 0 \in 0 .. NumReqs /\ InitTags \subseteq 0 .. TagMod - 1
    BY <1>1, MuxAssumption
  <2>2. QED
    BY <2>1 DEF NoRequest, Request
<1>3. reg \in [Ports -> Request] /\ readSucc \in [Ports -> BOOLEAN]
  BY <1>2, MuxAssumption DEF Init
<1>4. inPipe \in [Ports -> Seq(Request)] /\ \A k \in Ports : Len(inPipe[k]) <= InDepth
  BY MuxAssumption DEF Init
<1>5. /\ portOf \in [Reqs -> Ports] /\ sent \subseteq Reqs
      /\ nextTag \in 0 .. TagMod - 1
  BY MuxAssumption DEF Init, FirstExpected
<1>6. /\ outPipe = <<>> /\ toWrite = <<>> /\ taken = <<>> /\ endPipe = <<>>
      /\ stopped \in BOOLEAN /\ endSignal \in BOOLEAN /\ done \in BOOLEAN
  BY DEF Init
<1>7. /\ outPipe \in Seq([id : 0 .. NumReqs, port : Ports]) /\ endPipe \in Seq(BOOLEAN)
      /\ Len(outPipe) = 0 /\ Len(toWrite) = 0 /\ 0 <= OutDepth
  BY <1>6, MuxAssumption
<1>8. QED
  BY <1>1, <1>3, <1>4, <1>5, <1>6, <1>7 DEF Typed, TypeOK

LEMMA SendTyped == ASSUME Typed, NEW n \in Reqs, Send(n) PROVE Typed'
<1>. USE DEF Send, MaySend, readerVars, muxVars
<1>1. NumReqs' = NumReqs /\ Reqs' = Reqs /\ Request' = Request
  BY DEF NumReqs, Reqs, Request
<1>2. [id |-> n, tag |-> TagOf(n)] \in Request
  BY ProgramType, TagType DEF Request
<1>3. inPipe' \in [Ports -> Seq(Request)] /\ \A k \in Ports : Len(inPipe'[k]) <= InDepth
  <2>. SUFFICES \A k \in Ports : inPipe'[k] \in Seq(Request) /\ Len(inPipe'[k]) <= InDepth
    BY DEF Typed, TypeOK
  <2>1. TAKE k \in Ports
  <2>2. inPipe[k] \in Seq(Request) /\ Len(inPipe[k]) <= InDepth
    BY DEF Typed, TypeOK
  <2>3. inPipe'[k] = IF k = portOf[n] THEN Append(inPipe[k], [id |-> n, tag |-> TagOf(n)]) ELSE inPipe[k]
    BY DEF Typed, TypeOK
  <2>4. QED
    BY <1>2, <2>2, <2>3, AppendProperties, MuxAssumption
<1>4. QED
  BY <1>1, <1>3 DEF Typed, TypeOK

LEMMA IterateTyped ==
  ASSUME Typed, NEW delivering \in SUBSET Ports, NEW endRdy \in BOOLEAN, Iterate(delivering, endRdy)
  PROVE  Typed'
<1>. USE DEF Iterate, writerVars, readerVars
<1>1. NumReqs' = NumReqs /\ Reqs' = Reqs /\ Request' = Request
  BY DEF NumReqs, Reqs, Request
<1>2. \A k \in Ports : /\ inPipe'[k] \in Seq(Request) /\ Len(inPipe'[k]) <= InDepth
                       /\ reg'[k] \in Request
  <2>1. TAKE k \in Ports
  <2>2. inPipe[k] \in Seq(Request) /\ Len(inPipe[k]) <= InDepth /\ reg[k] \in Request
    BY DEF Typed, TypeOK
  <2>3. CASE k \in Polled(delivering)
    <3>1. inPipe[k] # <<>> /\ inPipe'[k] = Tail(inPipe[k]) /\ reg'[k] = Head(inPipe[k])
      BY <2>3 DEF Polled
    <3>2. QED
      BY <2>2, <3>1, HeadTailProperties, MuxAssumption
  <2>4. CASE k \notin Polled(delivering)
    BY <2>2, <2>4
  <2>5. QED
    BY <2>3, <2>4
<1>3. reg' \in [Ports -> Request] /\ readSucc' \in [Ports -> BOOLEAN]
  BY <1>2 DEF ReadSuccNext, Typed, TypeOK
<1>4. endPipe' \in Seq(BOOLEAN) /\ endSignal' \in BOOLEAN
  <2>1. endSignal' \in BOOLEAN /\ (endSignal' => endPipe # <<>>)
    BY DEF EndSeen
  <2>2. endPipe \in Seq(BOOLEAN)
    BY DEF Typed
  <2>3. QED
    BY <2>1, <2>2, HeadTailProperties
<1>5. QED
  BY <1>1, <1>2, <1>3, <1>4, ChosenType DEF Typed, TypeOK

LEMMA WriteTyped == Typed /\ WriteChosen => Typed'
<1>. SUFFICES ASSUME Typed, WriteChosen PROVE Typed'
  OBVIOUS
<1>. USE DEF WriteChosen, writerVars, readerVars
<1>. DEFINE L == [id : 0 .. NumReqs, port : Ports]
<1>1. NumReqs' = NumReqs /\ Reqs' = Reqs /\ Request' = Request
  BY DEF NumReqs, Reqs, Request
<1>2. /\ outPipe \in Seq(L) /\ toWrite \in Seq(L)
      /\ Len(outPipe) < OutDepth /\ Len(toWrite) <= 1
  BY DEF Typed, TypeOK
<1>3. outPipe' \in Seq(L) /\ Len(outPipe') <= OutDepth
  <2>. HIDE DEF L
  <2>1. QED
    BY <1>2, ConcatProperties, MuxAssumption
<1>4. nextTag' \in 0 .. TagMod - 1
  BY MuxAssumption DEF Typed, TypeOK
<1>5. QED
  BY <1>1, <1>3, <1>4 DEF Typed, TypeOK

LEMMA TakeTyped == Typed /\ Take => Typed'
<1>. SUFFICES ASSUME Typed, Take PROVE Typed'
  OBVIOUS
<1>. USE DEF Take, writerVars, muxVars
<1>. DEFINE L == [id : 0 .. NumReqs, port : Ports]
<1>1. NumReqs' = NumReqs /\ Reqs' = Reqs /\ Request' = Request
  BY DEF NumReqs, Reqs, Request
<1>2. outPipe \in Seq(L) /\ taken \in Seq(L) /\ outPipe # <<>> /\ Len(outPipe) <= OutDepth
  BY DEF Typed, TypeOK
<1>3. taken' \in Seq(L) /\ outPipe' \in Seq(L) /\ Len(outPipe') <= OutDepth
  <2>. HIDE DEF L
  <2>1. QED
    BY <1>2, HeadTailProperties, AppendProperties, MuxAssumption
<1>4. QED
  BY <1>1, <1>3 DEF Typed, TypeOK

LEMMA StopTyped == Typed /\ Stop => Typed'
<1>. SUFFICES ASSUME Typed, Stop PROVE Typed'
  OBVIOUS
<1>. USE DEF Stop, writerVars, muxVars
<1>1. NumReqs' = NumReqs /\ Reqs' = Reqs /\ Request' = Request
  BY DEF NumReqs, Reqs, Request
<1>2. endPipe' \in Seq(BOOLEAN)
  BY AppendProperties DEF Typed
<1>3. QED
  BY <1>1, <1>2 DEF Typed, TypeOK

LEMMA LeaveTyped == Typed /\ Leave => Typed'
BY DEF Leave, writerVars, readerVars, Typed, TypeOK, NumReqs, Reqs, Request

LEMMA StutterTyped == Typed /\ UNCHANGED vars => Typed'
BY DEF vars, writerVars, muxVars, readerVars, Typed, TypeOK, NumReqs, Reqs, Request

LEMMA StepTyped == Typed /\ [Next]_vars => Typed'
<1>. SUFFICES ASSUME Typed, [Next]_vars PROVE Typed'
  OBVIOUS
<1>1. ASSUME NEW n \in Reqs, Send(n) PROVE Typed'
  BY <1>1, SendTyped
<1>2. ASSUME NEW delivering \in SUBSET Ports, NEW endRdy \in BOOLEAN, Iterate(delivering, endRdy)
      PROVE  Typed'
  BY <1>2, IterateTyped
<1>3. QED
  BY <1>1, <1>2, WriteTyped, LeaveTyped, TakeTyped, StopTyped, StutterTyped DEF Next, Writer, Mux, Reader

(* Every register and pipe of a multiplexer (lines 84-224) holds a value of *)
(* its kind, and no pipe more than it has room for, even when tags wrap and *)
(* registers start with anything.                                          *)
THEOREM MuxTypeCorrect == Spec => []TypeOK
<1>1. Typed => TypeOK
  BY DEF Typed
<1>2. QED
  BY <1>1, InitTyped, StepTyped, PTL DEF Spec

------------------------------------------------------------------------------
(* Arithmetic of tags.                                                     *)

LEMMA Division ==
  ASSUME NEW a \in Nat, NEW M \in Nat \ {0}
  PROVE  (a % M) \in 0 .. (M - 1) /\ (a \div M) \in Nat /\ a = (M * (a \div M)) + (a % M)
OBVIOUS

LEMMA SmallMultiple ==
  ASSUME NEW M \in Nat \ {0}, NEW q \in Int, -M < M * q, M * q < M
  PROVE  q = 0
OBVIOUS

LEMMA Distribute ==
  ASSUME NEW M \in Int, NEW x \in Int, NEW y \in Int
  PROVE  M * (x - y) = (M * x) - (M * y)
OBVIOUS

LEMMA EqualQuotients ==
  ASSUME NEW M \in Nat \ {0}, NEW x \in Int, NEW y \in Int,
         -M < (M * x) - (M * y), (M * x) - (M * y) < M
  PROVE  x = y
BY Distribute, SmallMultiple

LEMMA SameRemainder ==
  ASSUME NEW M \in Nat \ {0}, NEW a \in Nat, NEW b \in Nat, a % M = b % M, -M < a - b, a - b < M
  PROVE  a = b
<1>. DEFINE qa == a \div M
            qb == b \div M
            r == a % M
<1>1. qa \in Nat /\ qb \in Nat /\ r \in 0 .. (M-1) /\ a = (M * qa) + r /\ b = (M * qb) + r
  BY Division
<1>. HIDE DEF qa, qb, r
<1>2. M * qa \in Int /\ M * qb \in Int
  BY <1>1
<1>3. -M < (M * qa) - (M * qb) /\ (M * qa) - (M * qb) < M
  BY <1>1, <1>2
<1>4. qa = qb
  BY <1>1, <1>3, EqualQuotients
<1>5. QED
  BY <1>1, <1>4

LEMMA NextRemainder ==
  ASSUME NEW M \in Nat \ {0}, NEW a \in Nat
  PROVE  ((a % M) + 1) % M = (a + 1) % M
<1>. DEFINE t == a % M
            qa == a \div M
<1>1. qa \in Nat /\ t \in 0 .. (M-1) /\ a = (M * qa) + t
  BY Division
<1>. HIDE DEF qa, t
<1>. DEFINE r == (t + 1) % M
            s == (a + 1) % M
            qt == (t + 1) \div M
            qs == (a + 1) \div M
<1>2. t + 1 \in Nat /\ a + 1 \in Nat
  BY <1>1
<1>3. qt \in Nat /\ r \in 0 .. (M-1) /\ t + 1 = (M * qt) + r
  BY <1>2, Division
<1>4. qs \in Nat /\ s \in 0 .. (M-1) /\ a + 1 = (M * qs) + s
  BY <1>2, Division
<1>. HIDE DEF qt, qs, r, s
<1>5. /\ M * qs \in Int /\ M * qa \in Int /\ M * qt \in Int
      /\ qs - qa \in Int /\ M * (qs - qa) = (M * qs) - (M * qa)
  BY <1>1, <1>3, <1>4, Distribute
<1>6. (M * (qs - qa)) - (M * qt) = r - s
  BY <1>1, <1>3, <1>4, <1>5
<1>7. -M < r - s /\ r - s < M
  BY <1>3, <1>4
<1>8. qs - qa = qt
  <2>. DEFINE d == qs - qa
  <2>1. d \in Int /\ qt \in Int /\ -M < (M * d) - (M * qt) /\ (M * d) - (M * qt) < M
    BY <1>3, <1>5, <1>6, <1>7
  <2>. HIDE DEF d
  <2>2. d = qt
    BY <2>1, EqualQuotients
  <2>3. QED
    BY <2>2 DEF d
<1>9. r = s
  BY <1>3, <1>4, <1>5, <1>6, <1>8
<1>10. QED
  BY <1>9 DEF r, s, t

(* Two requests with the same tag are a whole range of tags apart. *)
LEMMA SameTag ==
  ASSUME NEW m \in Nat \ {0}, NEW n \in Nat \ {0}, m < n, TagOf(m) = TagOf(n)
  PROVE  n - m >= TagMod
<1>. DEFINE a == FirstTag + m - 1
            b == FirstTag + n - 1
<1>1. a \in Nat /\ b \in Nat /\ b - a = n - m /\ TagMod \in Nat \ {0}
  BY MuxAssumption
<1>2. (a % TagMod) = (b % TagMod)
  BY DEF TagOf
<1>. HIDE DEF a, b
<1>3. a # b
  BY <1>1
<1>4. ~ (-TagMod < a - b /\ a - b < TagMod)
  BY <1>1, <1>2, <1>3, SameRemainder
<1>5. QED
  BY <1>1, <1>4

LEMMA FollowingTag ==
  ASSUME NEW n \in Nat \ {0} PROVE TagOf(n + 1) = (TagOf(n) + 1) % TagMod
<1>. DEFINE a == FirstTag + n - 1
<1>1. a \in Nat /\ a + 1 = FirstTag + (n + 1) - 1 /\ TagMod \in Nat \ {0}
  BY MuxAssumption
<1>. HIDE DEF a
<1>2. ((a % TagMod) + 1) % TagMod = (a + 1) % TagMod
  BY <1>1, NextRemainder
<1>3. QED
  BY <1>1, <1>2 DEF TagOf, a

------------------------------------------------------------------------------
(* What the ports can hold.                                                *)

LEMMA Counts ==
  ASSUME Typed
  PROVE  /\ Len(taken) \in Nat /\ Len(outPipe) \in Nat /\ Len(toWrite) \in {0, 1}
         /\ Written \in Nat /\ Forwarded \in Nat /\ Written <= Forwarded
         /\ Forwarded = Written + Len(toWrite)
         /\ toWrite = <<>> <=> Forwarded = Written
<1>. DEFINE L == [id : 0 .. NumReqs, port : Ports]
<1>1. taken \in Seq(L) /\ outPipe \in Seq(L) /\ toWrite \in Seq(L) /\ Len(toWrite) <= 1
  BY DEF Typed, TypeOK
<1>. HIDE DEF L
<1>2. Len(taken) \in Nat /\ Len(outPipe) \in Nat /\ Len(toWrite) \in Nat
  BY <1>1, LenProperties
<1>3. Len(toWrite) \in {0, 1}
  <2>. DEFINE n == Len(toWrite)
  <2>1. n \in Nat /\ n <= 1
    BY <1>1, <1>2
  <2>. HIDE DEF n
  <2>2. n \in {0, 1}
    BY <2>1
  <2>3. QED
    BY <2>2 DEF n
<1>4. toWrite = <<>> <=> Len(toWrite) = 0
  BY <1>1, EmptySeq
<1>5. QED
  BY <1>2, <1>3, <1>4 DEF Written, Forwarded

LEMMA SentAreRequests ==
  ASSUME Typed, NEW n \in sent PROVE n \in Reqs /\ n \in Nat \ {0} /\ n <= NumReqs /\ portOf[n] \in Ports
BY ProgramType DEF Typed, TypeOK

LEMMA PipeType ==
  ASSUME Typed, NEW k \in Ports
  PROVE  /\ inPipe[k] \in Seq(Request) /\ Len(inPipe[k]) \in 0 .. InDepth
         /\ \A i \in 1 .. Len(inPipe[k]) : inPipe[k][i] \in Request
BY MuxAssumption DEF Typed, TypeOK

(* Places for requests: a register and the slots of a pipe. *)
Places == (NumPorts - 1) * (InDepth + 1)

LEMMA PlacesOfOthers ==
  ASSUME NEW k \in Ports
  PROVE  /\ IsFiniteSet((Ports \ {k}) \X (0 .. InDepth))
         /\ Cardinality((Ports \ {k}) \X (0 .. InDepth)) = Places
<1>1. IsFiniteSet(Ports) /\ Cardinality(Ports) = NumPorts
  BY FS_Interval, MuxAssumption DEF Ports
<1>2. IsFiniteSet(Ports \ {k}) /\ Cardinality(Ports \ {k}) = NumPorts - 1
  BY <1>1, FS_RemoveElement
<1>3. IsFiniteSet(0 .. InDepth) /\ Cardinality(0 .. InDepth) = InDepth + 1
  BY FS_Interval, MuxAssumption
<1>4. QED
  BY <1>2, <1>3, FS_Product DEF Places

(* Where a request that was sent and not forwarded is. *)
Place(n) ==
  <<portOf[n],
    IF readSucc[portOf[n]] /\ reg[portOf[n]].id = n THEN 0
    ELSE CHOOSE i \in 1 .. Len(inPipe[portOf[n]]) : inPipe[portOf[n]][i].id = n>>

LEMMA PlaceOfRequest ==
  ASSUME Typed, NothingIsLost, NEW n \in sent, n > Forwarded
  PROVE  /\ Place(n)[1] = portOf[n] /\ Place(n)[1] \in Ports /\ Place(n)[2] \in 0 .. InDepth
         /\ n = IF Place(n)[2] = 0 THEN reg[Place(n)[1]].id ELSE inPipe[Place(n)[1]][Place(n)[2]].id
<1>. DEFINE k == portOf[n]
<1>1. k \in Ports /\ IsHeld(k, n)
  BY SentAreRequests DEF NothingIsLost
<1>2. Len(inPipe[k]) \in 0 .. InDepth
  BY <1>1, PipeType
<1>3. CASE readSucc[k] /\ reg[k].id = n
  BY <1>1, <1>3, MuxAssumption DEF Place
<1>4. CASE ~ (readSucc[k] /\ reg[k].id = n)
  <2>. DEFINE i == CHOOSE i \in 1 .. Len(inPipe[k]) : inPipe[k][i].id = n
  <2>1. i \in 1 .. Len(inPipe[k]) /\ inPipe[k][i].id = n
    BY <1>1, <1>4 DEF IsHeld
  <2>2. Place(n) = <<k, i>>
    BY <1>4 DEF Place
  <2>. HIDE DEF i
  <2>3. i \in 0 .. InDepth /\ i # 0
    BY <1>2, <2>1, MuxAssumption
  <2>4. QED
    BY <1>1, <2>1, <2>2, <2>3
<1>5. QED
  BY <1>3, <1>4

(* When one kernel sends all requests, one in a register is at most as far *)
(* ahead as the other ports have places.                                   *)
LEMMA HeldIsNear ==
  ASSUME MuxOrder, program.singleWriter, NEW k \in Ports, readSucc[k]
  PROVE  reg[k].id - Forwarded - 1 <= Places
<1>. DEFINE n == reg[k].id
            between == Forwarded + 1 .. n - 1
            others == (Ports \ {k}) \X (0 .. InDepth)
            F == [i \in between |-> Place(i)]
<1>1. Typed /\ NothingIsLost /\ Awaits(k, reg[k])
  BY DEF MuxOrder, PortsHoldTheirOwn
<1>2. n \in sent /\ portOf[n] = k /\ n \in Nat /\ Forwarded \in Nat /\ n > Forwarded
  BY <1>1, SentAreRequests, Counts DEF Awaits
<1>3. ASSUME NEW i \in between PROVE i \in sent /\ i > Forwarded /\ portOf[i] # k
  <2>1. i \in Nat \ {0} /\ i < n /\ i > Forwarded
    BY <1>2
  <2>2. i \in Reqs
    BY <1>1, <1>2, <2>1, SentAreRequests, ProgramType
  <2>3. i \in sent
    BY <1>2, <2>1, <2>2 DEF MuxOrder, SentInOrder
  <2>4. ASSUME portOf[i] = k PROVE FALSE
    <3>1. IsHeld(k, i)
      BY <1>1, <2>1, <2>3, <2>4 DEF NothingIsLost
    <3>2. PICK j \in 1 .. Len(inPipe[k]) : inPipe[k][j].id = i
      BY <2>1, <3>1 DEF IsHeld
    <3>3. n < i
      BY <3>2 DEF MuxOrder, PortsHoldTheirOwn
    <3>4. QED
      BY <1>2, <2>1, <3>3
  <2>5. QED
    BY <2>1, <2>3, <2>4
<1>4. F \in Injection(between, others)
  <2>1. \A i \in between : Place(i) \in others
    <3>1. TAKE i \in between
    <3>2. /\ Place(i)[1] \in Ports \ {k} /\ Place(i)[2] \in 0 .. InDepth
      BY <1>1, <1>3, PlaceOfRequest
    <3>3. Place(i) = <<Place(i)[1], Place(i)[2]>>
      BY DEF Place
    <3>4. QED
      BY <3>2, <3>3
  <2>2. \A i, j \in between : Place(i) = Place(j) => i = j
    BY <1>1, <1>3, PlaceOfRequest
  <2>3. QED
    BY <2>1, <2>2 DEF Injection, IsInjective
<1>5. Cardinality(between) <= Places
  <2>. HIDE DEF F, between
  <2>1. IsFiniteSet(others) /\ Cardinality(others) = Places
    BY PlacesOfOthers
  <2>. HIDE DEF others
  <2>2. QED
    BY <1>4, <2>1, FS_Injection
<1>6. Cardinality(between) = n - 1 - Forwarded
  <2>1. Forwarded + 1 \in Int /\ n - 1 \in Int
    BY <1>2
  <2>2. Cardinality(between) = IF Forwarded + 1 > n - 1 THEN 0 ELSE n - 1 - (Forwarded + 1) + 1
    BY <2>1, FS_Interval, Zenon
  <2>3. QED
    BY <1>2, <2>2
<1>7. Places \in Int
  BY MuxAssumption DEF Places
<1>8. QED
  BY <1>2, <1>5, <1>6, <1>7

(* The request whose turn it is is the one that matches. *)
LEMMA TagsFarApart ==
  ASSUME MuxOrder, NEW k \in Ports, readSucc[k], NEW m \in Nat \ {0},
         Forwarded < m, m < reg[k].id
  PROVE  TagOf(m) # reg[k].tag
<1>. DEFINE n == reg[k].id
<1>1. Typed /\ Awaits(k, reg[k])
  BY DEF MuxOrder, PortsHoldTheirOwn
<1>2. n \in Nat \ {0} /\ n <= NumReqs /\ NumReqs \in Nat /\ Forwarded \in Nat /\ reg[k].tag = TagOf(n)
  BY <1>1, SentAreRequests, ProgramType, Counts DEF Awaits
<1>3. TagMod \in Nat \ {0} /\ Places \in Int
  BY MuxAssumption DEF Places
<1>. HIDE DEF n
<1>4. SUFFICES ASSUME TagOf(m) = TagOf(n) PROVE FALSE
  BY <1>2
<1>5. n - m >= TagMod
  BY <1>2, <1>4, SameTag DEF n
<1>6. CASE NumReqs <= TagMod
  BY <1>2, <1>3, <1>5, <1>6
<1>7. CASE program.singleWriter /\ TagMod > Places
  <2>1. n - Forwarded - 1 <= Places
    BY <1>7, HeldIsNear DEF n
  <2>2. QED
    BY <1>2, <1>3, <1>5, <1>7, <2>1
<1>8. QED
  BY <1>1, <1>6, <1>7, TagsAssumption DEF Typed, NumReqs, Places

LEMMA MatchIsNext ==
  ASSUME MuxOrder, toWrite = <<>>, NEW k \in Matches
  PROVE  k \in Ports /\ reg[k].id = Written + 1 /\ portOf[Written + 1] = k /\ Written + 1 \in sent
<1>1. k \in Ports /\ readSucc[k] /\ reg[k].tag = TagOf(Written + 1)
  BY DEF Matches, MuxOrder
<1>2. Typed /\ Awaits(k, reg[k])
  BY <1>1 DEF MuxOrder, PortsHoldTheirOwn
<1>3. reg[k].id \in Nat /\ Written \in Nat /\ Forwarded = Written /\ Written < reg[k].id
  BY <1>2, SentAreRequests, Counts DEF Awaits
<1>4. ~ (Written + 1 < reg[k].id)
  BY <1>1, <1>3, TagsFarApart
<1>5. reg[k].id = Written + 1
  BY <1>3, <1>4
<1>6. QED
  BY <1>1, <1>2, <1>5 DEF Awaits

(* What an iteration chooses is the next request, or nothing. *)
LEMMA ChosenIsNext ==
  ASSUME MuxOrder, toWrite = <<>>
  PROVE  /\ Matches = {} => Chosen = <<>>
         /\ Matches # {} => Chosen = <<Labelled(Written + 1)>>
<1>1. CASE Matches = {}
  BY <1>1 DEF Chosen
<1>2. CASE Matches # {}
  <2>. DEFINE k == CHOOSE k \in Matches : \A j \in Matches : j <= k
  <2>1. Matches \in SUBSET Ports
    BY DEF Matches
  <2>2. k \in Matches
    BY <1>2, <2>1, LastPort
  <2>3. Chosen = <<[id |-> reg[k].id, port |-> k]>>
    BY <1>2 DEF Chosen
  <2>. HIDE DEF k
  <2>4. reg[k].id = Written + 1 /\ portOf[Written + 1] = k
    BY <2>2, MatchIsNext
  <2>5. QED
    BY <1>2, <2>3, <2>4 DEF Labelled
<1>3. QED
  BY <1>1, <1>2

------------------------------------------------------------------------------
(* The invariant is inductive.                                             *)

LEMMA InitInv == Init => MuxOrder
<1>. SUFFICES ASSUME Init PROVE MuxOrder
  OBVIOUS
<1>1. Typed
  BY InitTyped
<1>2. Written = 0 /\ Forwarded = 0 /\ Len(taken) = 0 /\ Len(outPipe) = 0 /\ Len(toWrite) = 0
  BY DEF Init, Written, Forwarded
<1>3. SentInOrder /\ NothingIsLost
  BY DEF Init, SentInOrder, NothingIsLost
<1>4. ForwardedInOrder
  BY <1>1, <1>2, ProgramType DEF ForwardedInOrder
<1>5. \A k \in Ports : ~ readSucc[k] /\ Len(inPipe[k]) = 0
  BY TagsAssumption DEF Init
<1>6. PortsHoldTheirOwn
  BY <1>5 DEF PortsHoldTheirOwn
<1>7. nextTag = TagOf(Written + 1)
  BY <1>2, MuxAssumption DEF Init, FirstExpected, TagOf
<1>8. QED
  BY <1>1, <1>3, <1>4, <1>6, <1>7 DEF MuxOrder

LEMMA SendInv == ASSUME MuxOrder, NEW n \in Reqs, Send(n) PROVE MuxOrder'
<1>. DEFINE r == [id |-> n, tag |-> TagOf(n)]
            p == portOf[n]
<1>1. Typed /\ Typed'
  BY SendTyped DEF MuxOrder
<1>2. /\ n \notin sent /\ sent' = sent \cup {n}
      /\ UNCHANGED <<program, portOf, outPipe, toWrite, taken, reg, readSucc, nextTag>>
  BY DEF Send, MaySend, muxVars, readerVars
<1>3. Written' = Written /\ Forwarded' = Forwarded /\ NumReqs' = NumReqs /\ Reqs' = Reqs
  BY <1>2 DEF Written, Forwarded, NumReqs, Reqs
<1>4. n \in Nat \ {0} /\ n <= NumReqs /\ p \in Ports /\ Forwarded \in Nat
  <2>1. n \in Nat \ {0} /\ n <= NumReqs
    BY <1>1, ProgramType
  <2>2. p \in Ports
    BY <1>1 DEF Typed, TypeOK
  <2>3. QED
    BY <1>1, <2>1, <2>2, Counts
<1>5. n > Forwarded
  BY <1>2, <1>4 DEF MuxOrder, ForwardedInOrder
<1>6. \A m \in sent : portOf[m] = p => m < n
  <2>1. SUFFICES ASSUME NEW m \in sent, portOf[m] = p PROVE m < n
    OBVIOUS
  <2>2. m \in Nat \ {0} /\ m # n
    BY <1>1, <1>2, SentAreRequests
  <2>3. ~ (n < m)
    BY <1>2, <2>1 DEF MuxOrder, SentInOrder
  <2>4. QED
    BY <1>4, <2>2, <2>3
<1>7. /\ \A k \in Ports : k # p => inPipe'[k] = inPipe[k]
      /\ Len(inPipe'[p]) = Len(inPipe[p]) + 1
      /\ \A i \in 1 .. Len(inPipe[p]) : inPipe'[p][i] = inPipe[p][i]
      /\ inPipe'[p][Len(inPipe[p]) + 1] = r
      /\ Len(inPipe[p]) \in Nat
  <2>1. inPipe[p] \in Seq(Request) /\ r \in Request
    <3>1. TagOf(n) \in 0 .. TagMod - 1 /\ n \in 0 .. NumReqs
      BY <1>1, <1>4, ProgramType, TagType
    <3>2. QED
      BY <1>1, <1>4, <3>1, PipeType DEF Request
  <2>2. inPipe' = [inPipe EXCEPT ![p] = Append(@, r)] /\ inPipe \in [Ports -> Seq(Request)]
    BY <1>1 DEF Send, MaySend, Typed, TypeOK
  <2>. HIDE DEF r, p
  <2>3. inPipe'[p] = Append(inPipe[p], r) /\ \A k \in Ports : k # p => inPipe'[k] = inPipe[k]
    BY <1>4, <2>2
  <2>4. QED
    BY <2>1, <2>3, AppendProperties, LenProperties
<1>8. SentInOrder'
  <2>1. SUFFICES ASSUME NEW m \in sent', NEW l \in Reqs, l < m, program.singleWriter \/ portOf[l] = portOf[m]
                 PROVE  l \in sent'
    BY <1>2, <1>3 DEF SentInOrder
  <2>2. CASE m \in sent
    BY <1>2, <2>1, <2>2 DEF MuxOrder, SentInOrder
  <2>3. CASE m = n
    <3>1. l \in 1 .. n - 1
      BY <1>1, <1>4, <2>1, <2>3, ProgramType
    <3>2. QED
      BY <1>2, <2>1, <2>3, <3>1 DEF Send, MaySend
  <2>4. QED
    BY <1>2, <2>2, <2>3
<1>9. ForwardedInOrder'
  BY <1>2, <1>3 DEF MuxOrder, ForwardedInOrder, Labelled
<1>10. PortsHoldTheirOwn'
  <2>1. SUFFICES ASSUME NEW k \in Ports
                 PROVE  /\ readSucc[k] => Awaits(k, reg[k])'
                        /\ \A i \in 1 .. Len(inPipe'[k]) :
                             /\ Awaits(k, inPipe[k][i])'
                             /\ readSucc[k] => reg[k].id < inPipe'[k][i].id
                             /\ \A j \in 1 .. Len(inPipe'[k]) : i < j => inPipe'[k][i].id < inPipe'[k][j].id
    BY <1>2 DEF PortsHoldTheirOwn
  <2>2. \A q : Awaits(k, q) => Awaits(k, q)' /\ q.id \in sent /\ portOf[q.id] = k
    BY <1>2, <1>3 DEF Awaits, TagOf
  <2>3. /\ readSucc[k] => Awaits(k, reg[k])
        /\ \A i \in 1 .. Len(inPipe[k]) :
             /\ Awaits(k, inPipe[k][i])
             /\ readSucc[k] => reg[k].id < inPipe[k][i].id
             /\ \A j \in 1 .. Len(inPipe[k]) : i < j => inPipe[k][i].id < inPipe[k][j].id
    BY DEF MuxOrder, PortsHoldTheirOwn
  <2>4. CASE k # p
    BY <1>2, <1>7, <2>2, <2>3, <2>4 DEF Awaits
  <2>5. CASE k = p
    <3>1. r.id = n /\ Awaits(k, r)'
      BY <1>2, <1>3, <1>5, <2>5 DEF Awaits, TagOf
    <3>. HIDE DEF r, p
    <3>2. readSucc[k] => Awaits(k, reg[k])' /\ reg[k].id < n
      BY <1>2, <1>6, <2>2, <2>3, <2>5
    <3>3. ASSUME NEW i \in 1 .. Len(inPipe'[k])
          PROVE  /\ Awaits(k, inPipe[k][i])'
                 /\ readSucc[k] => reg[k].id < inPipe'[k][i].id
                 /\ \A j \in 1 .. Len(inPipe'[k]) : i < j => inPipe'[k][i].id < inPipe'[k][j].id
      <4>1. CASE i \in 1 .. Len(inPipe[k])
        <5>1. inPipe'[k][i] = inPipe[k][i] /\ Awaits(k, inPipe[k][i]) /\ inPipe[k][i].id < n
          BY <1>6, <1>7, <2>2, <2>3, <2>5, <4>1
        <5>2. Awaits(k, inPipe[k][i])'
          BY <1>2, <1>3, <5>1 DEF Awaits, TagOf
        <5>3. ASSUME NEW j \in 1 .. Len(inPipe'[k]), i < j PROVE inPipe'[k][i].id < inPipe'[k][j].id
          <6>1. j \in 1 .. Len(inPipe[k]) \/ j = Len(inPipe[k]) + 1
            BY <1>7, <2>5
          <6>2. QED
            BY <1>7, <2>3, <2>5, <3>1, <4>1, <5>1, <5>3, <6>1
        <5>4. QED
          BY <2>3, <4>1, <5>1, <5>2, <5>3
      <4>2. CASE i = Len(inPipe[k]) + 1
        <5>1. inPipe'[k][i] = r
          BY <1>7, <2>5, <4>2
        <5>2. Awaits(k, inPipe[k][i])'
          BY <3>1, <5>1 DEF Awaits
        <5>3. \A j \in 1 .. Len(inPipe'[k]) : ~ (i < j)
          BY <1>7, <2>5, <4>2
        <5>4. QED
          BY <3>1, <3>2, <5>1, <5>2, <5>3
      <4>3. QED
        BY <1>7, <2>5, <4>1, <4>2
    <3>4. QED
      BY <3>2, <3>3
  <2>6. QED
    BY <2>4, <2>5
<1>11. NothingIsLost'
  <2>1. SUFFICES ASSUME NEW m \in sent', m > Forwarded PROVE IsHeld(portOf[m], m)'
    BY <1>2, <1>3 DEF NothingIsLost
  <2>2. CASE m = n
    <3>1. Len(inPipe[p]) + 1 \in 1 .. Len(inPipe'[p]) /\ inPipe'[p][Len(inPipe[p]) + 1].id = n
      BY <1>7
    <3>2. QED
      BY <1>2, <2>2, <3>1 DEF IsHeld
  <2>3. CASE m \in sent
    <3>1. IsHeld(portOf[m], m) /\ portOf[m] \in Ports
      BY <1>1, <2>1, <2>3, SentAreRequests DEF MuxOrder, NothingIsLost
    <3>2. \A i \in 1 .. Len(inPipe[portOf[m]]) :
            i \in 1 .. Len(inPipe'[portOf[m]]) /\ inPipe'[portOf[m]][i] = inPipe[portOf[m]][i]
      BY <1>7, <3>1
    <3>3. QED
      BY <1>2, <3>1, <3>2 DEF IsHeld
  <2>4. QED
    BY <1>2, <2>2, <2>3
<1>12. QED
  BY <1>1, <1>2, <1>3, <1>8, <1>9, <1>10, <1>11 DEF MuxOrder, TagOf

LEMMA IterateInv ==
  ASSUME MuxOrder, NEW delivering \in SUBSET Ports, NEW endRdy \in BOOLEAN, Iterate(delivering, endRdy)
  PROVE  MuxOrder'
<1>. DEFINE polled == Polled(delivering)
<1>1. Typed /\ Typed'
  BY IterateTyped DEF MuxOrder
<1>2. /\ toWrite = <<>> /\ toWrite' = Chosen
      /\ UNCHANGED <<program, portOf, sent, outPipe, nextTag, taken>>
  BY DEF Iterate, writerVars, readerVars
<1>3. /\ Written' = Written /\ Written \in Nat /\ Forwarded = Written
      /\ NumReqs' = NumReqs /\ Reqs' = Reqs
      /\ Forwarded' = Written' + Len(toWrite')
  BY <1>1, <1>2, Counts DEF Written, Forwarded, NumReqs, Reqs
<1>4. /\ Matches = {} => toWrite' = <<>> /\ Forwarded' = Written
      /\ Matches # {} => /\ toWrite' = <<Labelled(Written + 1)>> /\ Forwarded' = Written + 1
                         /\ Written + 1 \in sent
  <2>1. Matches # {} => Written + 1 \in sent
    BY <1>2, MatchIsNext
  <2>2. /\ Matches = {} => toWrite' = <<>>
        /\ Matches # {} => toWrite' = <<Labelled(Written + 1)>>
    BY <1>2, ChosenIsNext
  <2>3. /\ Matches = {} => Len(toWrite') = 0
        /\ Matches # {} => Len(toWrite') = 1
    BY <2>2
  <2>4. Matches = {} => Forwarded' = Written
    BY <1>3, <2>3
  <2>5. Matches # {} => Forwarded' = Written + 1
    BY <1>3, <2>3
  <2>6. QED
    BY <2>1, <2>2, <2>4, <2>5
<1>5. /\ polled \in SUBSET Ports
      /\ \A k \in polled : ~ readSucc[k] /\ inPipe[k] # <<>>
      /\ \A k \in Matches : k \in Ports /\ readSucc[k] /\ reg[k].id = Written + 1 /\ portOf[Written + 1] = k
  BY <1>2, MatchIsNext DEF Polled, Matches
<1>6. ASSUME NEW k \in Ports
      PROVE  /\ k \in polled => /\ reg'[k] = inPipe[k][1] /\ readSucc'[k] /\ Len(inPipe[k]) \in Nat \ {0}
                                /\ Len(inPipe'[k]) = Len(inPipe[k]) - 1
                                /\ \A i \in 1 .. Len(inPipe'[k]) : inPipe'[k][i] = inPipe[k][i + 1]
             /\ k \notin polled => /\ reg'[k] = reg[k] /\ inPipe'[k] = inPipe[k]
                                   /\ readSucc'[k] <=> readSucc[k] /\ k \notin Matches
  <2>1. CASE k \in polled
    <3>1. reg'[k] = Head(inPipe[k]) /\ inPipe'[k] = Tail(inPipe[k]) /\ readSucc'[k]
      BY <2>1 DEF Iterate, ReadSuccNext
    <3>2. inPipe[k] \in Seq(Request) /\ inPipe[k] # <<>>
      BY <1>1, <1>5, <2>1, PipeType
    <3>3. Len(inPipe[k]) \in Nat \ {0} /\ Head(inPipe[k]) = inPipe[k][1]
      BY <3>2, EmptySeq
    <3>4. QED
      BY <2>1, <3>1, <3>2, <3>3, HeadTailProperties
  <2>2. CASE k \notin polled
    BY <2>2 DEF Iterate, ReadSuccNext
  <2>3. QED
    BY <2>1, <2>2
(* What a port keeps is not what is forwarded. *)
<1>7. ASSUME NEW k \in Ports, NEW q, Awaits(k, q),
             k \in Matches => reg[k].id < q.id
      PROVE  Awaits(k, q)'
  <2>1. q.id \in Nat /\ q.id > Written /\ portOf[q.id] = k
    <3>1. q.id \in sent /\ q.id > Forwarded /\ portOf[q.id] = k
      BY <1>7 DEF Awaits
    <3>2. QED
      BY <1>1, <1>3, <3>1, SentAreRequests
  <2>2. CASE Matches = {}
    BY <1>2, <1>3, <1>4, <1>7, <2>2 DEF Awaits, TagOf
  <2>3. CASE Matches # {}
    <3>1. q.id # Written + 1
      BY <1>5, <1>7, <2>1, <2>3
    <3>2. q.id > Forwarded'
      BY <1>3, <1>4, <2>1, <2>3, <3>1
    <3>3. QED
      BY <1>2, <1>7, <3>2 DEF Awaits, TagOf
  <2>4. QED
    BY <2>2, <2>3
<1>8. SentInOrder'
  BY <1>2, <1>3 DEF MuxOrder, SentInOrder
<1>9. ForwardedInOrder'
  <2>1. /\ Written <= NumReqs /\ NumReqs \in Nat
        /\ \A i \in 1 .. Written : i \in sent
        /\ \A i \in 1 .. Len(taken) : taken[i] = Labelled(i)
        /\ \A i \in 1 .. Len(outPipe) : outPipe[i] = Labelled(Len(taken) + i)
    BY <1>1, <1>3, ProgramType DEF MuxOrder, ForwardedInOrder
  <2>2. Forwarded' <= NumReqs /\ \A i \in 1 .. Forwarded' : i \in sent
    <3>1. CASE Matches = {}
      BY <1>4, <2>1, <3>1
    <3>2. CASE Matches # {}
      <4>1. Written + 1 <= NumReqs
        BY <1>1, <1>4, <3>2, SentAreRequests
      <4>2. QED
        BY <1>3, <1>4, <2>1, <3>2, <4>1
    <3>3. QED
      BY <3>1, <3>2
  <2>3. \A i \in 1 .. Len(toWrite') : toWrite'[i] = Labelled(Written + i)
    BY <1>4
  <2>4. \A i : Labelled(i)' = Labelled(i)
    BY <1>2 DEF Labelled
  <2>5. QED
    BY <1>2, <1>3, <2>1, <2>2, <2>3, <2>4 DEF ForwardedInOrder
<1>10. PortsHoldTheirOwn'
  <2>1. SUFFICES ASSUME NEW k \in Ports
                 PROVE  /\ readSucc'[k] => Awaits(k, reg[k])'
                        /\ \A i \in 1 .. Len(inPipe'[k]) :
                             /\ Awaits(k, inPipe[k][i])'
                             /\ readSucc'[k] => reg'[k].id < inPipe'[k][i].id
                             /\ \A j \in 1 .. Len(inPipe'[k]) : i < j => inPipe'[k][i].id < inPipe'[k][j].id
    BY DEF PortsHoldTheirOwn
  <2>2. /\ readSucc[k] => Awaits(k, reg[k])
        /\ \A i \in 1 .. Len(inPipe[k]) :
             /\ Awaits(k, inPipe[k][i])
             /\ readSucc[k] => reg[k].id < inPipe[k][i].id
             /\ \A j \in 1 .. Len(inPipe[k]) : i < j => inPipe[k][i].id < inPipe[k][j].id
    BY DEF MuxOrder, PortsHoldTheirOwn
  <2>3. \A q : Awaits(k, q)' <=> /\ q.id \in sent' /\ portOf'[q.id] = k /\ q.id > Forwarded'
                                 /\ q.tag = TagOf(q.id)
    BY DEF Awaits, TagOf
  <2>4. \A i \in 1 .. Len(inPipe[k]) :
          /\ inPipe[k][i].id \in sent' /\ portOf'[inPipe[k][i].id] = k
          /\ inPipe[k][i].id > Forwarded' /\ inPipe[k][i].tag = TagOf(inPipe[k][i].id)
    <3>1. TAKE i \in 1 .. Len(inPipe[k])
    <3>2. Awaits(k, inPipe[k][i]) /\ (k \in Matches => reg[k].id < inPipe[k][i].id)
      BY <1>5, <2>2
    <3>. DEFINE q == inPipe[k][i]
    <3>3. Awaits(k, q)
      BY <3>2
    <3>4. k \in Matches => reg[k].id < q.id
      BY <3>2
    <3>5. /\ q.id \in sent' /\ portOf'[q.id] = k /\ q.id > Forwarded' /\ q.tag = TagOf(q.id)
      <4>. HIDE DEF q
      <4>1. QED
        BY <1>7, <2>3, <3>3, <3>4
    <3>6. QED
      BY <3>5
  <2>5. CASE k \in polled
    <3>1. /\ 1 \in 1 .. Len(inPipe[k])
          /\ \A i \in 1 .. Len(inPipe'[k]) : i + 1 \in 1 .. Len(inPipe[k]) /\ inPipe'[k][i] = inPipe[k][i + 1]
          /\ reg'[k] = inPipe[k][1]
      BY <1>6, <2>5
    <3>2. readSucc'[k] => Awaits(k, reg[k])'
      BY <2>4, <3>1 DEF Awaits, TagOf
    <3>3. ASSUME NEW i \in 1 .. Len(inPipe'[k])
          PROVE  /\ Awaits(k, inPipe[k][i])'
                 /\ reg'[k].id < inPipe'[k][i].id
                 /\ \A j \in 1 .. Len(inPipe'[k]) : i < j => inPipe'[k][i].id < inPipe'[k][j].id
      <4>1. Awaits(k, inPipe[k][i])'
        BY <2>4, <3>1 DEF Awaits, TagOf
      <4>2. reg'[k].id < inPipe'[k][i].id
        BY <2>2, <3>1
      <4>3. ASSUME NEW j \in 1 .. Len(inPipe'[k]), i < j PROVE inPipe'[k][i].id < inPipe'[k][j].id
        <5>1. i + 1 < j + 1
          BY <4>3
        <5>2. QED
          BY <2>2, <3>1, <5>1
      <4>4. QED
        BY <4>1, <4>2, <4>3
    <3>4. QED
      BY <3>2, <3>3
  <2>6. CASE k \notin polled
    <3>1. /\ reg'[k] = reg[k] /\ inPipe'[k] = inPipe[k]
          /\ readSucc'[k] => readSucc[k] /\ k \notin Matches
      BY <1>6, <2>6, Zenon
    <3>2. readSucc'[k] => Awaits(k, reg[k])'
      <4>1. SUFFICES ASSUME readSucc'[k] PROVE Awaits(k, reg[k])'
        OBVIOUS
      <4>. DEFINE q == reg[k]
      <4>2. Awaits(k, q) /\ k \notin Matches
        BY <2>2, <3>1, <4>1
      <4>3. /\ q.id \in sent' /\ portOf'[q.id] = k /\ q.id > Forwarded' /\ q.tag = TagOf(q.id)
        <5>. HIDE DEF q
        <5>1. QED
          BY <1>7, <2>3, <4>2
      <4>4. QED
        BY <3>1, <4>3 DEF Awaits, TagOf
    <3>3. \A i \in 1 .. Len(inPipe'[k]) : Awaits(k, inPipe[k][i])'
      BY <2>4, <3>1 DEF Awaits, TagOf
    <3>4. QED
      BY <2>2, <3>1, <3>2, <3>3
  <2>7. QED
    BY <2>5, <2>6
<1>11. NothingIsLost'
  <2>1. SUFFICES ASSUME NEW m \in sent, m > Forwarded' PROVE IsHeld(portOf[m], m)'
    BY <1>2 DEF NothingIsLost
  <2>2. PICK k \in Ports : k = portOf[m]
    BY <1>1, <2>1, SentAreRequests
  <2>3. m \in Nat /\ m > Forwarded
    BY <1>1, <1>3, <1>4, <2>1, SentAreRequests
  <2>4. IsHeld(k, m)
    BY <2>2, <2>3 DEF MuxOrder, NothingIsLost
  <2>5. IsHeld(k, m)'
    <3>1. CASE readSucc[k] /\ reg[k].id = m
      <4>1. k \notin Matches
        BY <1>3, <1>4, <1>5, <2>1, <2>3, <3>1
      <4>2. k \notin polled
        BY <1>5, <3>1
      <4>3. QED
        BY <1>6, <2>2, <3>1, <4>1, <4>2 DEF IsHeld
    <3>2. CASE \E i \in 1 .. Len(inPipe[k]) : inPipe[k][i].id = m
      <4>1. PICK i \in 1 .. Len(inPipe[k]) : inPipe[k][i].id = m
        BY <3>2
      <4>2. CASE k \notin polled
        BY <1>6, <2>2, <4>1, <4>2 DEF IsHeld
      <4>3. CASE k \in polled /\ i = 1
        BY <1>6, <2>2, <4>1, <4>3 DEF IsHeld
      <4>4. CASE k \in polled /\ i # 1
        <5>1. i - 1 \in 1 .. Len(inPipe'[k]) /\ inPipe'[k][i - 1] = inPipe[k][i]
          <6>1. i - 1 \in 1 .. Len(inPipe'[k]) /\ (i - 1) + 1 = i
            BY <1>6, <2>2, <4>4
          <6>2. QED
            BY <1>6, <2>2, <4>4, <6>1
        <5>2. QED
          BY <4>1, <5>1 DEF IsHeld
      <4>5. QED
        BY <4>2, <4>3, <4>4
    <3>3. QED
      BY <2>4, <3>1, <3>2 DEF IsHeld
  <2>6. QED
    BY <1>2, <2>2, <2>5
<1>12. QED
  BY <1>1, <1>2, <1>3, <1>8, <1>9, <1>10, <1>11 DEF MuxOrder, TagOf

LEMMA WriteInv == ASSUME MuxOrder, WriteChosen PROVE MuxOrder'
<1>. DEFINE L == [id : 0 .. NumReqs, port : Ports]
<1>1. Typed /\ Typed'
  BY WriteTyped DEF MuxOrder
<1>2. /\ outPipe' = outPipe \o toWrite /\ toWrite' = <<>> /\ toWrite # <<>>
      /\ nextTag' = (nextTag + 1) % TagMod
      /\ UNCHANGED <<program, portOf, sent, inPipe, reg, readSucc, taken>>
  BY DEF WriteChosen, writerVars, readerVars
<1>3. outPipe \in Seq(L) /\ toWrite \in Seq(L)
  BY <1>1 DEF Typed, TypeOK
<1>4. Len(toWrite) = 1 /\ Len(outPipe) \in Nat /\ Len(taken) \in Nat /\ Written \in Nat /\ Forwarded = Written + 1
  <2>1. /\ Len(outPipe) \in Nat /\ Len(taken) \in Nat /\ Written \in Nat
        /\ Len(toWrite) \in {0, 1} /\ Forwarded = Written + Len(toWrite)
        /\ Forwarded # Written
    BY <1>1, <1>2, Counts
  <2>2. Len(toWrite) = 1
    BY <2>1
  <2>3. QED
    BY <2>1, <2>2
<1>5. /\ Len(outPipe') = Len(outPipe) + 1
      /\ \A i \in 1 .. Len(outPipe) : outPipe'[i] = outPipe[i]
      /\ outPipe'[Len(outPipe) + 1] = toWrite[1]
  <2>. HIDE DEF L
  <2>1. /\ Len(outPipe \o toWrite) = Len(outPipe) + Len(toWrite)
        /\ \A i \in 1 .. Len(outPipe) + Len(toWrite) :
             (outPipe \o toWrite)[i] = IF i <= Len(outPipe) THEN outPipe[i] ELSE toWrite[i - Len(outPipe)]
    BY <1>3, ConcatProperties
  <2>2. QED
    BY <1>2, <1>4, <2>1
<1>6. Len(toWrite') = 0
  BY <1>2
<1>7. Written' = Written + 1 /\ Forwarded' = Forwarded /\ NumReqs' = NumReqs /\ Reqs' = Reqs
  <2>1. Written' = Len(taken) + (Len(outPipe) + 1) /\ Written = Len(taken) + Len(outPipe)
    BY <1>2, <1>5 DEF Written
  <2>2. Written' = Written + 1
    BY <1>4, <2>1
  <2>3. Forwarded' = Written' + Len(toWrite')
    BY DEF Forwarded
  <2>4. QED
    BY <1>2, <1>4, <1>6, <2>2, <2>3 DEF NumReqs, Reqs
<1>8. ForwardedInOrder'
  <2>1. /\ Forwarded <= NumReqs
        /\ \A i \in 1 .. Forwarded : i \in sent
        /\ \A i \in 1 .. Len(taken) : taken[i] = Labelled(i)
        /\ \A i \in 1 .. Len(outPipe) : outPipe[i] = Labelled(Len(taken) + i)
        /\ toWrite[1] = Labelled(Written + 1)
    BY <1>4 DEF MuxOrder, ForwardedInOrder
  <2>2. \A i : Labelled(i)' = Labelled(i)
    BY <1>2 DEF Labelled
  <2>3. Written = Len(taken) + Len(outPipe)
    BY DEF Written
  <2>4. \A i \in 1 .. Len(outPipe') : outPipe'[i] = Labelled(Len(taken) + i)
    <3>1. TAKE i \in 1 .. Len(outPipe')
    <3>2. i \in 1 .. Len(outPipe) \/ i = Len(outPipe) + 1
      BY <1>4, <1>5
    <3>3. CASE i = Len(outPipe) + 1
      <4>1. Len(taken) + i = Written + 1
        BY <1>4, <2>3, <3>3
      <4>2. QED
        BY <1>5, <2>1, <3>3, <4>1
    <3>4. QED
      BY <1>5, <2>1, <3>2, <3>3
  <2>5. QED
    BY <1>2, <1>6, <1>7, <2>1, <2>2, <2>4 DEF ForwardedInOrder
<1>9. SentInOrder'
  BY <1>2, <1>7 DEF MuxOrder, SentInOrder
<1>10. PortsHoldTheirOwn'
  BY <1>2, <1>7 DEF MuxOrder, PortsHoldTheirOwn, Awaits, TagOf
<1>11. NothingIsLost'
  BY <1>2, <1>7 DEF MuxOrder, NothingIsLost, IsHeld
<1>12. nextTag' = TagOf(Written' + 1)
  <2>1. TagOf((Written + 1) + 1) = (TagOf(Written + 1) + 1) % TagMod
    BY <1>4, FollowingTag
  <2>2. QED
    BY <1>2, <1>7, <2>1 DEF MuxOrder
<1>13. QED
  BY <1>1, <1>8, <1>9, <1>10, <1>11, <1>12 DEF MuxOrder, TagOf

LEMMA TakeInv == ASSUME MuxOrder, Take PROVE MuxOrder'
<1>. DEFINE L == [id : 0 .. NumReqs, port : Ports]
<1>1. Typed /\ Typed'
  BY TakeTyped DEF MuxOrder
<1>2. /\ outPipe # <<>> /\ taken' = Append(taken, Head(outPipe)) /\ outPipe' = Tail(outPipe)
      /\ UNCHANGED <<program, portOf, sent, inPipe, reg, readSucc, toWrite, nextTag>>
  BY DEF Take, writerVars, muxVars
<1>3. taken \in Seq(L) /\ outPipe \in Seq(L)
  BY <1>1 DEF Typed, TypeOK
<1>4. Len(taken) \in Nat /\ Len(outPipe) \in Nat \ {0} /\ Head(outPipe) = outPipe[1] /\ Written \in Nat
  <2>. HIDE DEF L
  <2>1. Len(outPipe) \in Nat \ {0} /\ Head(outPipe) = outPipe[1]
    BY <1>2, <1>3, EmptySeq
  <2>2. QED
    BY <1>1, <2>1, Counts
<1>5. /\ Len(taken') = Len(taken) + 1
      /\ \A i \in 1 .. Len(taken) : taken'[i] = taken[i]
      /\ taken'[Len(taken) + 1] = outPipe[1]
      /\ Len(outPipe') = Len(outPipe) - 1
      /\ \A i \in 1 .. Len(outPipe') : outPipe'[i] = outPipe[i + 1]
  <2>. HIDE DEF L
  <2>1. Head(outPipe) \in L
    BY <1>2, <1>3, HeadTailProperties
  <2>2. QED
    BY <1>2, <1>3, <1>4, <2>1, HeadTailProperties, AppendProperties
<1>6. Written' = Written /\ Forwarded' = Forwarded /\ NumReqs' = NumReqs /\ Reqs' = Reqs
  <2>1. Written' = (Len(taken) + 1) + (Len(outPipe) - 1) /\ Written = Len(taken) + Len(outPipe)
    BY <1>5 DEF Written
  <2>2. Written' = Written
    BY <1>4, <2>1
  <2>3. QED
    BY <1>2, <2>2 DEF Forwarded, NumReqs, Reqs
<1>7. ForwardedInOrder'
  <2>1. /\ Forwarded <= NumReqs
        /\ \A i \in 1 .. Forwarded : i \in sent
        /\ \A i \in 1 .. Len(taken) : taken[i] = Labelled(i)
        /\ \A i \in 1 .. Len(outPipe) : outPipe[i] = Labelled(Len(taken) + i)
        /\ \A i \in 1 .. Len(toWrite) : toWrite[i] = Labelled(Written + i)
    BY DEF MuxOrder, ForwardedInOrder
  <2>2. \A i : Labelled(i)' = Labelled(i)
    BY <1>2 DEF Labelled
  <2>3. \A i \in 1 .. Len(taken') : taken'[i] = Labelled(i)
    <3>1. TAKE i \in 1 .. Len(taken')
    <3>2. i \in 1 .. Len(taken) \/ i = Len(taken) + 1
      BY <1>4, <1>5
    <3>3. outPipe[1] = Labelled(Len(taken) + 1)
      BY <1>4, <2>1
    <3>4. QED
      BY <1>5, <2>1, <3>2, <3>3
  <2>4. \A i \in 1 .. Len(outPipe') : outPipe'[i] = Labelled(Len(taken') + i)
    <3>1. TAKE i \in 1 .. Len(outPipe')
    <3>2. i + 1 \in 1 .. Len(outPipe) /\ Len(taken) + (i + 1) = Len(taken') + i
      BY <1>4, <1>5
    <3>3. outPipe[i + 1] = Labelled(Len(taken) + (i + 1))
      BY <2>1, <3>2
    <3>4. QED
      BY <1>5, <3>2, <3>3
  <2>5. QED
    BY <1>2, <1>6, <2>1, <2>2, <2>3, <2>4 DEF ForwardedInOrder
<1>8. SentInOrder' /\ NothingIsLost'
  BY <1>2, <1>6 DEF MuxOrder, SentInOrder, NothingIsLost, IsHeld
<1>9. PortsHoldTheirOwn'
  BY <1>2, <1>6 DEF MuxOrder, PortsHoldTheirOwn, Awaits, TagOf
<1>10. QED
  BY <1>1, <1>2, <1>6, <1>7, <1>8, <1>9 DEF MuxOrder, TagOf

(* The end signal touches none of this. *)
LEMMA RestInv ==
  ASSUME MuxOrder, Typed',
         UNCHANGED <<program, portOf, sent, inPipe, outPipe, reg, readSucc, nextTag, toWrite, taken>>
  PROVE  MuxOrder'
<1>1. Written' = Written /\ Forwarded' = Forwarded /\ NumReqs' = NumReqs /\ Reqs' = Reqs
  BY DEF Written, Forwarded, NumReqs, Reqs
<1>2. SentInOrder' /\ NothingIsLost'
  BY <1>1 DEF MuxOrder, SentInOrder, NothingIsLost, IsHeld
<1>3. ForwardedInOrder'
  BY <1>1 DEF MuxOrder, ForwardedInOrder, Labelled
<1>4. PortsHoldTheirOwn'
  BY <1>1 DEF MuxOrder, PortsHoldTheirOwn, Awaits, TagOf
<1>5. QED
  BY <1>1, <1>2, <1>3, <1>4 DEF MuxOrder, TagOf

LEMMA StepInv == MuxOrder /\ [Next]_vars => MuxOrder'
<1>. SUFFICES ASSUME MuxOrder, [Next]_vars PROVE MuxOrder'
  OBVIOUS
<1>1. ASSUME NEW n \in Reqs, Send(n) PROVE MuxOrder'
  BY <1>1, SendInv
<1>2. ASSUME NEW delivering \in SUBSET Ports, NEW endRdy \in BOOLEAN, Iterate(delivering, endRdy)
      PROVE  MuxOrder'
  BY <1>2, IterateInv
<1>3. CASE WriteChosen
  BY <1>3, WriteInv
<1>4. CASE Take
  BY <1>4, TakeInv
<1>5. CASE Leave \/ Stop \/ UNCHANGED vars
  <2>1. Typed'
    BY <1>5, LeaveTyped, StopTyped, StutterTyped DEF MuxOrder
  <2>2. UNCHANGED <<program, portOf, sent, inPipe, outPipe, reg, readSucc, nextTag, toWrite, taken>>
    BY <1>5 DEF Leave, Stop, vars, writerVars, muxVars, readerVars
  <2>3. QED
    BY <2>1, <2>2, RestInv
<1>6. QED
  BY <1>1, <1>2, <1>3, <1>4, <1>5 DEF Next, Writer, Mux, Reader

LEMMA MuxOrderHolds == Spec => []MuxOrder
BY InitInv, StepInv, PTL DEF Spec

(* The queue stops once and its signal reaches the multiplexer once. *)
LEMMA InitEnds == Init => EndsInOrder
BY DEF Init, EndsInOrder

LEMMA IterateEnds ==
  ASSUME Typed, EndsInOrder, NEW delivering \in SUBSET Ports, NEW endRdy \in BOOLEAN,
         Iterate(delivering, endRdy)
  PROVE  EndsInOrder'
<1>1. UNCHANGED <<program, done, taken, stopped>> /\ NumReqs' = NumReqs
  BY DEF Iterate, writerVars, readerVars, NumReqs
<1>2. ~endSignal /\ (endSignal' => endPipe # <<>>)
  BY DEF Iterate, EndSeen
<1>3. ~endSignal' => endPipe' = endPipe
  BY DEF Iterate
<1>4. endSignal' \/ endPipe' # <<>> <=> endPipe # <<>>
  BY <1>2, <1>3, Zenon DEF Iterate, EndSeen
<1>5. stopped' <=> endSignal' \/ endPipe' # <<>>
  BY <1>1, <1>2, <1>4, Zenon DEF EndsInOrder
<1>6. QED
  BY <1>1, <1>2, <1>5 DEF EndsInOrder

LEMMA StepEnds == MuxOrder /\ EndsInOrder /\ [Next]_vars => EndsInOrder'
<1>. SUFFICES ASSUME MuxOrder, EndsInOrder, [Next]_vars PROVE EndsInOrder'
  OBVIOUS
<1>. USE DEF NumReqs, EndsInOrder
<1>1. Typed /\ EndsInOrder
  BY DEF MuxOrder
<1>2. ASSUME NEW n \in Reqs, Send(n) PROVE EndsInOrder'
  BY <1>2 DEF Send, muxVars, readerVars
<1>3. ASSUME NEW delivering \in SUBSET Ports, NEW endRdy \in BOOLEAN, Iterate(delivering, endRdy)
      PROVE  EndsInOrder'
  BY <1>1, <1>3, IterateEnds
<1>4. CASE WriteChosen
  BY <1>4 DEF WriteChosen, writerVars, readerVars
<1>5. CASE Leave
  BY <1>5 DEF Leave, writerVars, readerVars
<1>6. CASE Take
  BY <1>6 DEF Take, writerVars, muxVars
<1>7. CASE Stop
  <2>1. endPipe' # <<>>
    <3>1. endPipe \in Seq(BOOLEAN) /\ endPipe' = Append(endPipe, TRUE)
      BY <1>1, <1>7 DEF Stop, Typed
    <3>2. Append(endPipe, TRUE) # <<>>
      BY <3>1, AppendProperties
    <3>3. QED
      BY <3>1, <3>2
  <2>2. QED
    BY <1>7, <2>1 DEF Stop, writerVars, muxVars
<1>8. CASE UNCHANGED vars
  BY <1>8 DEF vars, writerVars, muxVars, readerVars
<1>9. QED
  BY <1>2, <1>3, <1>4, <1>5, <1>6, <1>7, <1>8 DEF Next, Writer, Mux, Reader

(* What a multiplexer (lines 84-224) has forwarded and what its ports hold *)
(* are the requests sent, each once and in order, although tags wrap; the  *)
(* end signal comes once, from a queue that has stopped.                   *)
THEOREM MuxInvariantHolds == Spec => []MuxInv
<1>1. Init => EndsInOrder
  BY InitEnds
<1>2. MuxOrder /\ EndsInOrder /\ [Next]_vars => EndsInOrder'
  BY StepEnds
<1>3. MuxOrder /\ EndsInOrder => MuxInv
  BY DEF MuxInv
<1>4. QED
  BY <1>1, <1>2, <1>3, MuxOrderHolds, PTL DEF Spec

------------------------------------------------------------------------------
(* What follows from it.                                                   *)

LEMMA MergedLength ==
  ASSUME Typed
  PROVE  /\ Len(Merged) = Forwarded
         /\ \A i \in 1 .. Forwarded :
              Merged[i] = IF i <= Len(taken) THEN taken[i]
                          ELSE IF i <= Written THEN outPipe[i - Len(taken)] ELSE toWrite[i - Written]
<1>. DEFINE L == [id : 0 .. NumReqs, port : Ports]
<1>1. taken \in Seq(L) /\ outPipe \in Seq(L) /\ toWrite \in Seq(L)
  BY DEF Typed, TypeOK
<1>2. Len(taken) \in Nat /\ Len(outPipe) \in Nat /\ Len(toWrite) \in Nat
  BY Counts
<1>. DEFINE s == taken \o outPipe
<1>. HIDE DEF L
<1>3. /\ s \in Seq(L) /\ Len(s) = Written
      /\ \A i \in 1 .. Written : s[i] = IF i <= Len(taken) THEN taken[i] ELSE outPipe[i - Len(taken)]
  BY <1>1, ConcatProperties DEF Written
<1>4. Merged = s \o toWrite
  BY DEF Merged
<1>. HIDE DEF s
<1>5. /\ Len(Merged) = Forwarded
      /\ \A i \in 1 .. Forwarded : Merged[i] = IF i <= Written THEN s[i] ELSE toWrite[i - Written]
  BY <1>1, <1>3, <1>4, ConcatProperties DEF Forwarded
<1>6. ASSUME NEW i \in 1 .. Forwarded
      PROVE  Merged[i] = IF i <= Len(taken) THEN taken[i]
                         ELSE IF i <= Written THEN outPipe[i - Len(taken)] ELSE toWrite[i - Written]
  <2>1. Len(taken) <= Written /\ Written \in Nat /\ Forwarded \in Nat
    BY <1>2 DEF Written, Forwarded
  <2>2. i <= Written => i \in 1 .. Written
    BY <2>1
  <2>3. QED
    BY <1>2, <1>3, <1>5, <2>1, <2>2
<1>7. QED
  BY <1>5, <1>6

(* The queue gets the requests of all ports in program order, each with the *)
(* port it came from (load_port_wr, lines 181-224).                        *)
THEOREM MergesInProgramOrder == Spec => []MergedInProgramOrder
<1>1. MuxOrder => MergedInProgramOrder
  <2>. SUFFICES ASSUME MuxOrder, NEW i \in 1 .. Len(Merged)
                PROVE  i \in Reqs /\ Merged[i] = Labelled(i)
    BY DEF MergedInProgramOrder, Labelled
  <2>1. Typed
    BY DEF MuxOrder
  <2>2. /\ Len(taken) \in Nat /\ Len(outPipe) \in Nat /\ Len(toWrite) \in Nat
        /\ Written = Len(taken) + Len(outPipe) /\ Forwarded = Written + Len(toWrite)
    BY <2>1, Counts DEF Written
  <2>3. i \in 1 .. Forwarded
    BY <2>1, MergedLength
  <2>4. i \in Reqs
    BY <2>1, <2>3, SentAreRequests DEF MuxOrder, ForwardedInOrder
  <2>5. CASE i <= Len(taken)
    <3>1. i \in 1 .. Len(taken)
      BY <2>2, <2>3, <2>5
    <3>2. taken[i] = Labelled(i)
      BY <3>1 DEF MuxOrder, ForwardedInOrder
    <3>3. QED
      BY <2>1, <2>3, <2>4, <2>5, <3>2, MergedLength
  <2>6. CASE ~ (i <= Len(taken)) /\ i <= Written
    <3>1. i - Len(taken) \in 1 .. Len(outPipe) /\ Len(taken) + (i - Len(taken)) = i
      BY <2>2, <2>3, <2>6
    <3>2. outPipe[i - Len(taken)] = Labelled(Len(taken) + (i - Len(taken)))
      BY <3>1 DEF MuxOrder, ForwardedInOrder
    <3>3. QED
      BY <2>1, <2>3, <2>4, <2>6, <3>1, <3>2, MergedLength
  <2>7. CASE ~ (i <= Written)
    <3>1. i - Written \in 1 .. Len(toWrite) /\ Written + (i - Written) = i /\ ~ (i <= Len(taken))
      BY <2>2, <2>3, <2>7
    <3>2. toWrite[i - Written] = Labelled(Written + (i - Written))
      BY <3>1 DEF MuxOrder, ForwardedInOrder
    <3>3. QED
      BY <2>1, <2>3, <2>4, <2>7, <3>1, <3>2, MergedLength
  <2>8. QED
    BY <2>4, <2>5, <2>6, <2>7
<1>2. QED
  BY <1>1, MuxOrderHolds, PTL

(* At most one held request carries the next tag (lines 111, 156 and 205). *)
THEOREM OnlyOneRequestMatches == Spec => []OnlyOneMatches
<1>1. MuxOrder => OnlyOneMatches
  <2>. SUFFICES ASSUME MuxOrder PROVE Cardinality(Matches) <= 1
    BY DEF OnlyOneMatches
  <2>1. ASSUME NEW j \in Matches, NEW k \in Matches PROVE ~ (reg[j].id < reg[k].id)
    <3>1. /\ j \in Ports /\ readSucc[j] /\ k \in Ports /\ readSucc[k] /\ reg[j].tag = reg[k].tag
      BY DEF Matches
    <3>2. Typed /\ Awaits(j, reg[j])
      BY <3>1 DEF MuxOrder, PortsHoldTheirOwn
    <3>3. reg[j].id \in Nat \ {0} /\ Forwarded < reg[j].id /\ TagOf(reg[j].id) = reg[k].tag /\ Forwarded \in Nat
      BY <3>1, <3>2, SentAreRequests, Counts DEF Awaits
    <3>4. QED
      BY <3>1, <3>3, TagsFarApart
  <2>2. ASSUME NEW j \in Matches, NEW k \in Matches PROVE j = k
    <3>1. Typed /\ Awaits(j, reg[j]) /\ Awaits(k, reg[k])
      BY DEF MuxOrder, PortsHoldTheirOwn, Matches
    <3>2. reg[j].id \in Nat /\ reg[k].id \in Nat
      BY <3>1, SentAreRequests DEF Awaits
    <3>3. ~ (reg[j].id < reg[k].id) /\ ~ (reg[k].id < reg[j].id)
      BY <2>1
    <3>4. reg[j].id = reg[k].id
      BY <3>2, <3>3
    <3>5. QED
      BY <3>1, <3>4 DEF Awaits
  <2>3. CASE Matches = {}
    BY <2>3, FS_EmptySet
  <2>4. CASE Matches # {}
    <3>1. PICK k \in Matches : TRUE
      BY <2>4
    <3>2. Matches = {k}
      BY <2>2, <3>1
    <3>3. QED
      BY <3>2, FS_Singleton
  <2>5. QED
    BY <2>3, <2>4
<1>2. QED
  BY <1>1, MuxOrderHolds, PTL

(* What a port holds is what was sent to it and not forwarded, each request *)
(* once and in order: a blocked pipe loses and repeats nothing (106-117).  *)
THEOREM HoldsWhatWasSent == Spec => []SentRequestsHeldOnce
<1>1. MuxOrder => SentRequestsHeldOnce
  <2>. SUFFICES ASSUME MuxOrder, NEW k \in Ports
                PROVE  /\ {HeldAt(k)[i] : i \in 1 .. Len(HeldAt(k))} = {n \in sent : portOf[n] = k /\ n > Len(Merged)}
                       /\ \A i, j \in 1 .. Len(HeldAt(k)) : i < j => HeldAt(k)[i] < HeldAt(k)[j]
    BY DEF SentRequestsHeldOnce
  <2>. DEFINE first == IF readSucc[k] THEN <<reg[k].id>> ELSE <<>>
              rest == [i \in 1 .. Len(inPipe[k]) |-> inPipe[k][i].id]
              f == IF readSucc[k] THEN 1 ELSE 0
              held == HeldAt(k)
  <2>1. Typed
    BY DEF MuxOrder
  <2>2. /\ Len(inPipe[k]) \in Nat /\ reg[k].id \in Nat
        /\ \A i \in 1 .. Len(inPipe[k]) : inPipe[k][i].id \in Nat
    <3>1. Len(inPipe[k]) \in 0 .. InDepth /\ \A i \in 1 .. Len(inPipe[k]) : inPipe[k][i] \in Request
      BY <2>1, PipeType
    <3>2. reg[k] \in Request
      BY <2>1 DEF Typed, TypeOK
    <3>3. \A r \in Request : r.id \in Nat
      BY <2>1, ProgramType DEF Request
    <3>4. QED
      BY <3>1, <3>2, <3>3, MuxAssumption
  <2>3. /\ first \in Seq(Nat) /\ Len(first) = f /\ (readSucc[k] => first[1] = reg[k].id)
        /\ rest \in Seq(Nat) /\ Len(rest) = Len(inPipe[k])
    BY <2>2
  <2>4. held = first \o rest /\ f \in {0, 1} /\ (readSucc[k] <=> f = 1)
    BY DEF HeldAt
  <2>. HIDE DEF f
  <2>5. /\ Len(held) = f + Len(inPipe[k])
        /\ \A i \in 1 .. f + Len(inPipe[k]) :
              held[i] = IF i <= f THEN reg[k].id ELSE inPipe[k][i - f].id
    <3>1. Len(held) = f + Len(inPipe[k])
      <4>. HIDE DEF first, rest, held
      <4>1. QED
        BY <2>3, <2>4, ConcatProperties
    <3>2. ASSUME NEW i \in 1 .. f + Len(inPipe[k])
          PROVE  held[i] = IF i <= f THEN reg[k].id ELSE inPipe[k][i - f].id
      <4>1. held[i] = IF i <= f THEN first[i] ELSE rest[i - f]
        <5>. HIDE DEF first, rest, held
        <5>1. \A x \in 1 .. Len(first) + Len(rest) :
                (first \o rest)[x] = IF x <= Len(first) THEN first[x] ELSE rest[x - Len(first)]
          BY <2>3, ConcatProperties
        <5>2. QED
          BY <2>3, <2>4, <5>1
      <4>2. CASE i <= f
        <5>1. readSucc[k] /\ i = 1
          BY <2>4, <3>2, <4>2
        <5>2. QED
          BY <2>3, <4>1, <4>2, <5>1
      <4>3. CASE ~ (i <= f)
        <5>1. i - f \in 1 .. Len(inPipe[k])
          BY <2>2, <2>4, <3>2, <4>3
        <5>2. rest[i - f] = inPipe[k][i - f].id
          BY <5>1
        <5>3. QED
          BY <4>1, <4>3, <5>2
      <4>4. QED
        BY <4>2, <4>3
    <3>3. QED
      BY <3>1, <3>2
  <2>. HIDE DEF first, rest, held
  <2>6. /\ readSucc[k] => Awaits(k, reg[k])
        /\ \A i \in 1 .. Len(inPipe[k]) :
             /\ Awaits(k, inPipe[k][i])
             /\ readSucc[k] => reg[k].id < inPipe[k][i].id
             /\ \A j \in 1 .. Len(inPipe[k]) : i < j => inPipe[k][i].id < inPipe[k][j].id
    BY DEF MuxOrder, PortsHoldTheirOwn
  <2>7. Len(Merged) = Forwarded
    BY <2>1, MergedLength
  <2>8. ASSUME NEW i \in 1 .. Len(held)
        PROVE  held[i] \in {n \in sent : portOf[n] = k /\ n > Len(Merged)}
    <3>1. CASE i <= f
      BY <2>4, <2>5, <2>6, <2>7, <3>1 DEF Awaits
    <3>2. CASE ~ (i <= f)
      <4>1. i - f \in 1 .. Len(inPipe[k]) /\ held[i] = inPipe[k][i - f].id
        BY <2>2, <2>4, <2>5, <3>2
      <4>2. QED
        BY <2>6, <2>7, <4>1 DEF Awaits
    <3>3. QED
      BY <3>1, <3>2
  <2>9. ASSUME NEW n \in sent, portOf[n] = k, n > Len(Merged)
        PROVE  \E i \in 1 .. Len(held) : held[i] = n
    <3>1. IsHeld(k, n)
      BY <2>7, <2>9 DEF MuxOrder, NothingIsLost
    <3>2. CASE readSucc[k] /\ reg[k].id = n
      <4>1. 1 \in 1 .. Len(held) /\ held[1] = n
        BY <2>2, <2>4, <2>5, <3>2
      <4>2. QED
        BY <4>1
    <3>3. CASE \E i \in 1 .. Len(inPipe[k]) : inPipe[k][i].id = n
      <4>1. PICK i \in 1 .. Len(inPipe[k]) : inPipe[k][i].id = n
        BY <3>3
      <4>2. i + f \in 1 .. Len(held) /\ ~ (i + f <= f) /\ (i + f) - f = i
        BY <2>2, <2>4, <2>5
      <4>3. held[i + f] = n
        BY <2>5, <4>1, <4>2
      <4>4. QED
        BY <4>2, <4>3
    <3>4. QED
      BY <3>1, <3>2, <3>3 DEF IsHeld
  <2>10. ASSUME NEW i \in 1 .. Len(held), NEW j \in 1 .. Len(held), i < j PROVE held[i] < held[j]
    <3>1. ~ (j <= f) /\ j - f \in 1 .. Len(inPipe[k]) /\ held[j] = inPipe[k][j - f].id
      BY <2>2, <2>4, <2>5, <2>10
    <3>2. CASE i <= f
      BY <2>4, <2>5, <2>6, <3>1, <3>2
    <3>3. CASE ~ (i <= f)
      <4>1. i - f \in 1 .. Len(inPipe[k]) /\ i - f < j - f
        BY <2>2, <2>4, <2>5, <2>10, <3>3
      <4>2. held[i] = inPipe[k][i - f].id
        BY <2>5, <3>3
      <4>3. QED
        BY <2>6, <3>1, <4>1, <4>2
    <3>4. QED
      BY <3>2, <3>3
  <2>11. QED
    BY <2>8, <2>9, <2>10 DEF held
<1>2. QED
  BY <1>1, MuxOrderHolds, PTL

------------------------------------------------------------------------------
(* Nobody waits in a circle.                                               *)

LEMMA OldestIsUnsent ==
  ASSUME MuxOrder, NEW n \in Reqs, n = Forwarded + 1, n \notin sent
  PROVE  MaySend(n)
<1>. DEFINE k == portOf[n]
<1>1. Typed /\ k \in Ports /\ Forwarded \in Nat
  BY Counts DEF MuxOrder, Typed, TypeOK
<1>2. \A m \in 1 .. n - 1 : m \in sent
  BY <1>1 DEF MuxOrder, ForwardedInOrder
<1>3. ASSUME Len(inPipe[k]) # 0 PROVE FALSE
  <2>1. 1 \in 1 .. Len(inPipe[k])
    BY <1>1, <1>3, PipeType
  <2>2. Awaits(k, inPipe[k][1])
    BY <1>1, <2>1 DEF MuxOrder, PortsHoldTheirOwn
  <2>. DEFINE m == inPipe[k][1].id
  <2>3. m \in sent /\ portOf[m] = k /\ m > Forwarded /\ m \in Nat
    BY <1>1, <2>2, SentAreRequests DEF Awaits
  <2>. HIDE DEF m
  <2>4. n < m
    BY <1>1, <2>3
  <2>5. n \in sent
    BY <2>3, <2>4 DEF MuxOrder, SentInOrder
  <2>6. QED
    BY <2>5
<1>4. QED
  BY <1>2, <1>3, MuxAssumption DEF MaySend

LEMMA OldestIsHeld ==
  ASSUME MuxOrder, EndsInOrder, ~stopped, NEW n \in sent, n = Forwarded + 1, toWrite = <<>>
  PROVE  CanMove(n)
<1>. DEFINE k == portOf[n]
<1>1. Typed /\ k \in Ports /\ Forwarded \in Nat /\ Forwarded = Written /\ n \in Nat \ {0}
  BY SentAreRequests, Counts DEF MuxOrder
<1>2. ~endSignal
  BY DEF EndsInOrder
<1>3. IsHeld(k, n)
  BY <1>1 DEF MuxOrder, NothingIsLost
<1>4. CASE readSucc[k] /\ reg[k].id = n
  <2>1. reg[k].tag = TagOf(n) /\ nextTag = TagOf(n)
    BY <1>1, <1>4 DEF MuxOrder, PortsHoldTheirOwn, Awaits
  <2>2. k \in Matches
    BY <1>1, <1>4, <2>1 DEF Matches
  <2>3. QED
    BY <1>2, <1>4, <2>2 DEF CanMove
<1>5. CASE ~(readSucc[k] /\ reg[k].id = n)
  <2>1. PICK i \in 1 .. Len(inPipe[k]) : inPipe[k][i].id = n
    BY <1>3, <1>5 DEF IsHeld
  <2>2. ~readSucc[k]
    <3>1. SUFFICES ASSUME readSucc[k] PROVE FALSE
      OBVIOUS
    <3>2. Awaits(k, reg[k]) /\ reg[k].id < n
      BY <1>1, <2>1, <3>1 DEF MuxOrder, PortsHoldTheirOwn
    <3>3. reg[k].id \in Nat /\ reg[k].id > Forwarded
      BY <1>1, <3>2, SentAreRequests DEF Awaits
    <3>4. QED
      BY <1>1, <3>2, <3>3
  <2>3. Len(inPipe[k]) \in Nat \ {0} /\ inPipe[k] \in Seq(Request)
    BY <1>1, <2>1, PipeType
  <2>4. i = 1
    <3>1. SUFFICES ASSUME i # 1 PROVE FALSE
      OBVIOUS
    <3>2. 1 \in 1 .. Len(inPipe[k]) /\ 1 < i
      BY <2>3, <3>1
    <3>3. Awaits(k, inPipe[k][1]) /\ inPipe[k][1].id < n
      BY <1>1, <2>1, <3>2 DEF MuxOrder, PortsHoldTheirOwn
    <3>4. inPipe[k][1].id \in Nat /\ inPipe[k][1].id > Forwarded
      BY <1>1, <3>3, SentAreRequests DEF Awaits
    <3>5. QED
      BY <1>1, <3>3, <3>4
  <2>5. inPipe[k] # <<>> /\ Head(inPipe[k]) = inPipe[k][1]
    BY <2>3
  <2>6. k \in Polled(Ports)
    BY <1>1, <2>2, <2>5 DEF Polled
  <2>7. QED
    BY <1>2, <2>1, <2>4, <2>5, <2>6 DEF CanMove
<1>6. QED
  BY <1>4, <1>5

LEMMA OldestMoves ==
  ASSUME MuxOrder, EndsInOrder, ~stopped, Len(taken) < NumReqs
  PROVE  CanMove(Len(taken) + 1)
<1>. DEFINE n == Len(taken) + 1
<1>1. /\ Typed /\ NumReqs \in Nat /\ Reqs = 1 .. NumReqs /\ Len(outPipe) \in Nat /\ Len(taken) \in Nat
      /\ Len(toWrite) \in {0, 1} /\ Written = Len(taken) + Len(outPipe)
      /\ Forwarded = Written + Len(toWrite) /\ (toWrite = <<>> <=> Len(toWrite) = 0)
  <2>1. Typed
    BY DEF MuxOrder
  <2>2. toWrite = <<>> <=> Len(toWrite) = 0
    BY <2>1, EmptySeq DEF Typed, TypeOK
  <2>3. QED
    BY <2>1, <2>2, ProgramType, Counts DEF Written
<1>2. n \in Reqs
  BY <1>1
<1>3. CASE Len(outPipe) > 0
  <2>1. 1 \in 1 .. Len(outPipe)
    BY <1>1, <1>3
  <2>2. outPipe[1] = Labelled(n)
    BY <2>1 DEF MuxOrder, ForwardedInOrder
  <2>3. outPipe # <<>> /\ outPipe[1].id = n
    BY <1>3, <2>2 DEF Labelled
  <2>4. QED
    BY <2>3 DEF CanMove
<1>4. CASE Len(outPipe) = 0 /\ Len(toWrite) = 1
  <2>1. 1 \in 1 .. Len(toWrite) /\ Written + 1 = n
    BY <1>1, <1>4
  <2>2. toWrite[1] = Labelled(n)
    BY <2>1 DEF MuxOrder, ForwardedInOrder
  <2>3. toWrite # <<>> /\ toWrite[1].id = n /\ Len(outPipe) < OutDepth
    BY <1>1, <1>4, <2>2, MuxAssumption DEF Labelled
  <2>4. QED
    BY <2>3 DEF CanMove
<1>5. CASE Len(outPipe) = 0 /\ Len(toWrite) = 0
  <2>1. n = Forwarded + 1 /\ toWrite = <<>>
    BY <1>1, <1>5
  <2>2. CASE n \in sent
    BY <2>1, <2>2, OldestIsHeld
  <2>3. CASE n \notin sent
    BY <1>2, <2>1, <2>3, OldestIsUnsent DEF CanMove
  <2>4. QED
    BY <2>2, <2>3
<1>6. QED
  BY <1>1, <1>3, <1>4, <1>5

(* The oldest request the queue is still to get can always go one place on, *)
(* and the end signal always reaches the kernel: the ports' blocking pipes  *)
(* and the one register per port (lines 84-224) cannot lock one another.    *)
THEOREM OldestRequestCanMove == Spec => []OldestCanMove
<1>1. MuxInv => OldestCanMove
  <2>. SUFFICES ASSUME MuxInv PROVE OldestCanMove
    OBVIOUS
  <2>1. MuxOrder /\ EndsInOrder /\ Typed
    BY DEF MuxInv, MuxOrder
  <2>2. ASSUME stopped, ~program.earlyStop, ~done PROVE toWrite = <<>> /\ (endSignal \/ endPipe # <<>>)
    <3>1. Len(taken) = NumReqs /\ (endSignal \/ endPipe # <<>>)
      BY <2>1, <2>2 DEF EndsInOrder
    <3>2. Forwarded <= NumReqs
      BY <2>1 DEF MuxOrder, ForwardedInOrder
    <3>3. Forwarded = Len(taken) + Len(outPipe) + Len(toWrite)
      BY DEF Forwarded, Written
    <3>4. Forwarded = Written
      BY <2>1, <3>1, <3>2, <3>3, Counts DEF Written
    <3>5. QED
      BY <2>1, <3>1, <3>4, Counts
  <2>3. QED
    BY <2>1, <2>2, OldestMoves DEF OldestCanMove
<1>2. QED
  BY <1>1, MuxInvariantHolds, PTL
==============================================================================
