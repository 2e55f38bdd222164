-------------------------- MODULE LSQBramRefinement --------------------------
(***************************************************************************)
(* The on-chip load-store queue and the kernels that use it implement a    *)
(* plain array: LSQBram implements SequentialMemory.                       *)
(*                                                                         *)
(* The abstract array is memory overlaid with the store values on their    *)
(* way. That it is the effect of the stores the CU has executed rests on   *)
(* one more invariant: the values on their way are exactly those sent and  *)
(* not arrived.                                                            *)
(***************************************************************************)
EXTENDS LSQBramSafety, FiniteSetTheorems

------------------------------------------------------------------------------
(* The abstract array is a function of the program and the CU's position.  *)

LEMMA LatestIsUnique ==
  ASSUME NEW p, NEW a, NEW t \in Nat, NEW v, NEW w, IsLatest(p, v, a, t), IsLatest(p, w, a, t)
  PROVE  v = w
<1>1. v \in 0 .. t /\ w \in 0 .. t
  BY DEF IsLatest
<1>2. CASE v < w
  <2>1. w \in v + 1 .. t /\ w # 0
    BY <1>1, <1>2
  <2>2. QED
    BY <2>1 DEF IsLatest
<1>3. CASE w < v
  <2>1. v \in w + 1 .. t /\ v # 0
    BY <1>1, <1>3
  <2>2. QED
    BY <2>1 DEF IsLatest
<1>4. QED
  BY <1>1, <1>2, <1>3

(* The values on their way are those of the stores sent and not arrived,   *)
(* poisoned ones left out.                                                 *)
LEMMA SentValuesAre ==
  ASSUME IInv, SentValuesHeld
  PROVE  SentValues = {s \in arrived + 1 .. cuSt : prog.stores[s].ok}
<1>. arrived \in Nat /\ cuSt \in Nat
  BY InvCounters
<1>. StoreValuesPaired /\ TypeOK
  BY DEF IInv
<1>1. ASSUME NEW v \in SentValues
      PROVE  v \in arrived + 1 .. cuSt /\ prog.stores[v].ok
  <2>1. CASE \E k \in StPorts : \E i \in DOMAIN stValPipe[k] :
               stValPipe[k][i].valid /\ v = stValPipe[k][i].value
    <3>. PICK k \in StPorts :
           \E i \in DOMAIN stValPipe[k] : stValPipe[k][i].valid /\ v = stValPipe[k][i].value
      BY <2>1
    <3>1. PICK i \in DOMAIN stValPipe[k] : stValPipe[k][i].valid /\ v = stValPipe[k][i].value
      OBVIOUS
    <3>2. i \in 1 .. Len(stValPipe[k])
      <4>1. stValPipe[k] \in Seq(StValTok)
        BY DEF TypeOK
      <4>2. QED
        BY <3>1, <4>1
    <3>3. GoodStVal(stValPipe[k][i]) /\ WaitsAt(k, stValPipe[k][i].value)
      BY <3>2 DEF StoreValuesPaired, SentValuesHeld
    <3>4. QED
      BY <3>1, <3>3 DEF GoodStVal, WaitsAt
  <2>2. CASE \E k \in StPorts : stValReadSucc[k] /\ stValRead[k].valid /\ v = stValRead[k].value
    <3>1. PICK k \in StPorts : stValReadSucc[k] /\ stValRead[k].valid /\ v = stValRead[k].value
      BY <2>2
    <3>2. GoodStVal(stValRead[k]) /\ WaitsAt(k, stValRead[k].value)
      BY <3>1 DEF StoreValuesPaired, SentValuesHeld
    <3>3. QED
      BY <3>1, <3>2 DEF GoodStVal, WaitsAt
  <2>3. QED
    BY <2>1, <2>2 DEF SentValues
<1>2. ASSUME NEW s \in arrived + 1 .. cuSt, prog.stores[s].ok
      PROVE  s \in SentValues
  <2>1. PICK k \in StPorts : k = prog.stores[s].port
    <3>1. s \in 1 .. Len(prog.stores)
      <4>1. cuSt <= Len(prog.stores) /\ Len(prog.stores) \in Nat
        BY InvCounters DEF IInv, CuInOrder
      <4>2. QED
        BY <1>2, <4>1
    <3>2. QED
      BY <3>1, ProgOps
  <2>2. IsHeldAt(k, s)
    BY <1>2, <2>1 DEF SentValuesHeld
  <2>3. CASE stValReadSucc[k] /\ stValRead[k].value = s
    <3>1. stValRead[k].valid
      BY <1>2, <2>3 DEF StoreValuesPaired, GoodStVal
    <3>2. QED
      BY <2>3, <3>1 DEF SentValues
  <2>4. CASE \E i \in 1 .. Len(stValPipe[k]) : stValPipe[k][i].value = s
    <3>1. PICK i \in 1 .. Len(stValPipe[k]) : stValPipe[k][i].value = s
      BY <2>4
    <3>2. i \in DOMAIN stValPipe[k]
      <4>1. stValPipe[k] \in Seq(StValTok)
        BY DEF TypeOK
      <4>2. QED
        BY <3>1, <4>1
    <3>3. stValPipe[k][i].valid
      BY <1>2, <3>1 DEF StoreValuesPaired, GoodStVal
    <3>4. QED
      BY <3>1, <3>2, <3>3 DEF SentValues
  <2>5. QED
    BY <2>2, <2>3, <2>4 DEF IsHeldAt
<1>3. QED
  BY <1>1, <1>2

(* The stores executed leave a latest value at every address. *)
HasLatest == \A a \in Addr : \E v : IsLatest(prog, v, a, cuSt)
MemIsLatest == \A a \in Addr : IsLatest(prog, AbstractMem[a], a, cuSt)

LEMMA AbstractLatest == IInv /\ SentValuesHeld /\ HasLatest => MemIsLatest
<1>. SUFFICES ASSUME IInv, SentValuesHeld, HasLatest, NEW a \in Addr
              PROVE  IsLatest(prog, AbstractMem[a], a, cuSt)
  BY DEF MemIsLatest
<1>1. PICK v : IsLatest(prog, v, a, cuSt)
  BY DEF HasLatest
<1>2. arrived \in Nat /\ cuSt \in Nat /\ arrived <= cuSt /\ v \in 0 .. cuSt
  BY <1>1, InvCounters DEF IsLatest
<1>3. \A s : s \in SentTo(a) <=> s \in arrived + 1 .. cuSt /\ Writes(prog, s, a)
  BY SentValuesAre DEF SentTo, Writes
<1>4. CASE v > arrived
  <2>1. v \in SentTo(a)
    <3>1. v # 0 /\ v \in arrived + 1 .. cuSt
      BY <1>2, <1>4
    <3>2. QED
      BY <1>1, <1>3, <3>1 DEF IsLatest
  <2>2. \A r \in SentTo(a) : r <= v
    <3>1. ASSUME NEW r \in SentTo(a), r > v PROVE FALSE
      <4>1. r \in v + 1 .. cuSt /\ Writes(prog, r, a)
        BY <1>2, <1>3, <3>1
      <4>2. QED
        BY <1>1, <4>1 DEF IsLatest
    <3>2. \A r \in SentTo(a) : r \in Nat
      BY <1>2, <1>3
    <3>3. QED
      BY <1>2, <3>1, <3>2
  <2>3. AbstractMem[a] = CHOOSE s \in SentTo(a) : \A r \in SentTo(a) : r <= s
    BY <2>1 DEF AbstractMem
  <2>4. AbstractMem[a] \in SentTo(a) /\ \A r \in SentTo(a) : r <= AbstractMem[a]
    BY <2>1, <2>2, <2>3
  <2>5. AbstractMem[a] \in Nat /\ AbstractMem[a] <= v /\ v <= AbstractMem[a]
    BY <1>2, <1>3, <2>1, <2>2, <2>4
  <2>6. AbstractMem[a] = v
    BY <1>2, <2>5
  <2>7. QED
    BY <1>1, <2>6
<1>5. CASE v <= arrived
  <2>1. \A s \in arrived + 1 .. cuSt : ~Writes(prog, s, a)
    <3>1. \A s \in arrived + 1 .. cuSt : s \in v + 1 .. cuSt
      BY <1>2, <1>5
    <3>2. QED
      BY <1>1, <3>1 DEF IsLatest
  <2>2. AbstractMem[a] = Committed(a)
    <3>1. SentTo(a) = {}
      BY <1>3, <2>1
    <3>2. QED
      BY <3>1 DEF AbstractMem
  <2>3. IsLatest(prog, Committed(a), a, arrived)
    BY DEF IInv, MemoryIsProgramPrefix
  <2>4. QED
    BY <1>2, <2>1, <2>2, <2>3, LatestExtends
<1>6. QED
  BY <1>2, <1>4, <1>5

------------------------------------------------------------------------------
(* At most one register of the store value multiplexer matches. *)

LEMMA OneMatch == IInv /\ SentValuesHeld => OnlyOneStoreValueMatches
<1>. SUFFICES ASSUME IInv, SentValuesHeld PROVE OnlyOneStoreValueMatches
  OBVIOUS
<1>1. ASSUME NEW k \in Matching, NEW j \in Matching PROVE k = j
  <2>1. /\ k \in StPorts /\ stValReadSucc[k] /\ stValRead[k].tag = nextStValTag
        /\ j \in StPorts /\ stValReadSucc[j] /\ stValRead[j].tag = nextStValTag
    BY DEF Matching
  <2>2. stValRead[k].value = nextStValTag /\ stValRead[j].value = nextStValTag
    BY <2>1 DEF IInv, StoreValuesPaired, GoodStVal
  <2>3. QED
    BY <2>1, <2>2 DEF SentValuesHeld, WaitsAt
<1>2. Cardinality(Matching) <= 1
  <2>1. CASE Matching = {}
    BY <2>1, FS_EmptySet
  <2>2. CASE Matching # {}
    <3>1. PICK k \in Matching : TRUE
      BY <2>2
    <3>2. Matching = {k}
      BY <1>1, <3>1
    <3>3. QED
      BY <3>2, FS_Singleton
  <2>3. QED
    BY <2>1, <2>2
<1>3. \A k \in StPorts : stValReadSucc[k] => stValRead[k].value > arrived
  BY InvCounters DEF SentValuesHeld, WaitsAt, IInv, StoreValuesPaired, GoodStVal
<1>4. QED
  BY <1>2, <1>3 DEF OnlyOneStoreValueMatches

------------------------------------------------------------------------------
(* SentValuesHeld is inductive, given IInv. *)

LEMMA InitHeld == Init => SentValuesHeld
<1>. SUFFICES ASSUME Init PROVE SentValuesHeld
  OBVIOUS
<1>1. \A k \in StPorts : ~stValReadSucc[k] /\ stValPipe[k] = <<>>
  BY DEF Init
<1>2. arrived + 1 .. cuSt = {}
  BY DEF Init
<1>3. QED
  BY <1>1, <1>2 DEF SentValuesHeld

LEMMA HeldUntouched ==
  SentValuesHeld /\ UNCHANGED <<prog, cuSt, stValPipe, stValRead, stValReadSucc, arrived>>
    => SentValuesHeld'
BY DEF SentValuesHeld, WaitsAt, IsHeldAt, InlinedMux

(* With one value port nothing is held in a register. *)
LEMMA OnePort ==
  IInv /\ ~InlinedMux /\ (\A k \in StPorts : ~stValReadSucc[k]) => SentValuesHeld
<1>. SUFFICES ASSUME IInv, ~InlinedMux, \A k \in StPorts : ~stValReadSucc[k]
              PROVE  SentValuesHeld
  OBVIOUS
<1>1. StPorts = {0}
  <2>1. NumStVals = 1
    BY SizesAssumption DEF InlinedMux
  <2>2. QED
    BY <2>1 DEF StPorts
<1>2. /\ cuSt = arrived + Len(stValPipe[0])
      /\ \A i \in 1 .. Len(stValPipe[0]) : stValPipe[0][i].value = arrived + i
  BY DEF IInv, StoreValuesPaired
<1>3. arrived \in Nat /\ cuSt \in Nat /\ Len(stValPipe[0]) \in Nat
  BY <1>1, InvCounters DEF IInv, TypeOK
<1>4. \A s \in arrived + 1 .. cuSt : s \in 1 .. Len(prog.stores) /\ prog.stores[s].port = 0
  <2>1. cuSt <= Len(prog.stores) /\ Len(prog.stores) \in Nat
    BY InvCounters DEF IInv, CuInOrder
  <2>2. \A s \in 1 .. Len(prog.stores) : prog.stores[s].port \in StPorts
    BY ProgOps DEF IInv
  <2>3. \A s \in arrived + 1 .. cuSt : s \in 1 .. Len(prog.stores)
    BY <1>3, <2>1
  <2>4. QED
    BY <1>1, <2>2, <2>3
<1>5. \A i \in 1 .. Len(stValPipe[0]) :
        /\ WaitsAt(0, stValPipe[0][i].value)
        /\ \A j \in 1 .. Len(stValPipe[0]) : i < j => stValPipe[0][i].value < stValPipe[0][j].value
  <2>1. \A i \in 1 .. Len(stValPipe[0]) : arrived + i \in arrived + 1 .. cuSt /\ arrived < arrived + i
    BY <1>2, <1>3
  <2>2. \A i, j \in 1 .. Len(stValPipe[0]) : i < j => arrived + i < arrived + j
    BY <1>3
  <2>3. QED
    BY <1>2, <1>4, <2>1, <2>2 DEF WaitsAt
<1>6. \A s \in arrived + 1 .. cuSt : IsHeldAt(0, s)
  <2>1. \A s \in arrived + 1 .. cuSt : s - arrived \in 1 .. Len(stValPipe[0]) /\ arrived + (s - arrived) = s
    BY <1>2, <1>3
  <2>2. QED
    BY <1>2, <2>1 DEF IsHeldAt
<1>7. QED
  BY <1>1, <1>4, <1>5, <1>6 DEF SentValuesHeld

(* A value the CU sends is younger than all that are held. *)
LEMMA CuWriteStoreHeld == IInv /\ SentValuesHeld /\ CuWriteStore => SentValuesHeld'
<1>. SUFFICES ASSUME IInv, SentValuesHeld, CuWriteStore PROVE SentValuesHeld'
  OBVIOUS
<1>1. PICK s, k, v :
        /\ s = cuSt + 1 /\ k = prog.stores[s].port
        /\ v = [value |-> s, tag |-> Tag(s), valid |-> prog.stores[s].ok]
        /\ stValPipe' = [stValPipe EXCEPT ![k] = Append(@, v)]
  BY DEF CuWriteStore, CanWriteStore
<1>2. /\ prog' = prog /\ arrived' = arrived /\ stValRead' = stValRead
      /\ stValReadSucc' = stValReadSucc /\ cuSt' = s
  BY <1>1 DEF CuWriteStore, CanWriteStore, lsqVars
<1>3. cuSt \in Nat /\ arrived \in Nat /\ arrived <= cuSt /\ s \in 1 .. Len(prog.stores)
  <2>1. cuSt < Len(prog.stores)
    BY DEF CuWriteStore, CanWriteStore, AtStore
  <2>2. QED
    BY <1>1, <2>1, InvCounters
<1>4. k \in StPorts /\ v.value = s /\ v \in StValTok
  <2>1. prog.stores[s].port \in StPorts /\ prog.stores[s].ok \in BOOLEAN
    BY <1>3, ProgOps DEF IInv
  <2>2. Tag(s) \in Tags /\ s \in Nat
    BY <1>3, ModType
  <2>3. QED
    BY <1>1, <2>1, <2>2 DEF StValTok
<1>5. stValPipe \in [StPorts -> Seq(StValTok)] /\ stValPipe[k] \in Seq(StValTok)
  BY <1>4 DEF IInv, TypeOK
<1>6. \A j \in StPorts : j # k => stValPipe'[j] = stValPipe[j]
  BY <1>1, <1>5
<1>7. stValPipe'[k] = Append(stValPipe[k], v)
  BY <1>1, <1>4, <1>5
<1>8. PICK n \in Nat : n = Len(stValPipe[k])
  BY <1>5
<1>9. /\ Len(stValPipe'[k]) = n + 1
      /\ \A i \in 1 .. n : stValPipe'[k][i] = stValPipe[k][i]
      /\ stValPipe'[k][n + 1] = v
  BY <1>4, <1>5, <1>7, <1>8, AppendElements
<1>10. /\ \A j \in StPorts : stValReadSucc[j] => stValRead[j].value < s
       /\ \A j \in StPorts : \A i \in 1 .. Len(stValPipe[j]) : stValPipe[j][i].value < s
  BY <1>1, <1>3 DEF IInv, StoreValuesPaired, GoodStVal
<1>11. WaitsAt(k, s) /\ arrived < s
  BY <1>1, <1>3 DEF WaitsAt
<1>12. ASSUME NEW j \in StPorts, NEW i \in 1 .. Len(stValPipe'[j])
       PROVE  /\ WaitsAt(j, stValPipe'[j][i].value)
              /\ stValReadSucc[j] => stValRead[j].value < stValPipe'[j][i].value
              /\ \A m \in 1 .. Len(stValPipe'[j]) :
                   i < m => stValPipe'[j][i].value < stValPipe'[j][m].value
  <2>1. CASE j # k
    BY <1>6, <1>12, <2>1 DEF SentValuesHeld
  <2>2. CASE j = k
    <3>1. i \in 1 .. n + 1
      BY <1>9, <1>12, <2>2
    <3>2. CASE i = n + 1
      <4>1. \A m \in 1 .. n + 1 : ~(i < m)
        BY <1>8, <3>2
      <4>2. QED
        BY <1>4, <1>9, <1>10, <1>11, <2>2, <3>2, <4>1
    <3>3. CASE i \in 1 .. n
      <4>1. \A m \in 1 .. n + 1 : i < m => stValPipe'[k][i].value < stValPipe'[k][m].value
        <5>1. \A m \in 1 .. n : i < m => stValPipe[k][i].value < stValPipe[k][m].value
          BY <1>4, <1>8, <3>3 DEF SentValuesHeld
        <5>2. stValPipe[k][i].value < s
          BY <1>4, <1>8, <1>10, <3>3
        <5>3. \A m \in 1 .. n + 1 : m \in 1 .. n \/ m = n + 1
          BY <1>8
        <5>4. QED
          BY <1>4, <1>9, <3>3, <5>1, <5>2, <5>3
      <4>2. QED
        BY <1>4, <1>8, <1>9, <2>2, <3>3, <4>1 DEF SentValuesHeld
    <3>4. QED
      BY <1>8, <3>1, <3>2, <3>3
  <2>3. QED
    BY <2>1, <2>2
<1>13. ASSUME NEW r \in arrived + 1 .. s PROVE IsHeldAt(prog.stores[r].port, r)'
  <2>1. CASE r = s
    <3>1. n + 1 \in 1 .. Len(stValPipe'[k])
      BY <1>8, <1>9
    <3>2. QED
      BY <1>1, <1>2, <1>4, <1>9, <2>1, <3>1 DEF IsHeldAt
  <2>2. CASE r # s
    <3>1. r \in arrived + 1 .. cuSt
      BY <1>1, <1>3, <1>13, <2>2
    <3>2. PICK j : j = prog.stores[r].port
      OBVIOUS
    <3>3. IsHeldAt(j, r) /\ j \in StPorts
      <4>1. r \in 1 .. Len(prog.stores)
        BY <1>1, <1>3, <3>1
      <4>2. j \in StPorts
        BY <3>2, <4>1, ProgOps DEF IInv
      <4>3. QED
        BY <3>1, <3>2, <4>2 DEF SentValuesHeld
    <3>4. CASE stValReadSucc[j] /\ stValRead[j].value = r
      BY <1>2, <3>2, <3>4 DEF IsHeldAt
    <3>5. CASE \E i \in 1 .. Len(stValPipe[j]) : stValPipe[j][i].value = r
      <4>1. PICK i \in 1 .. Len(stValPipe[j]) : stValPipe[j][i].value = r
        BY <3>5
      <4>2. i \in 1 .. Len(stValPipe'[j]) /\ stValPipe'[j][i] = stValPipe[j][i]
        <5>1. CASE j = k
          <6>1. i \in 1 .. n /\ i \in 1 .. n + 1
            BY <1>8, <4>1, <5>1
          <6>2. QED
            BY <1>9, <5>1, <6>1
        <5>2. CASE j # k
          BY <1>6, <3>3, <4>1, <5>2
        <5>3. QED
          BY <5>1, <5>2
      <4>3. QED
        BY <1>2, <3>2, <4>1, <4>2 DEF IsHeldAt
    <3>6. QED
      BY <3>3, <3>4, <3>5 DEF IsHeldAt
  <2>3. QED
    BY <2>1, <2>2
<1>14. \A j \in StPorts : \A w : WaitsAt(j, w) => WaitsAt(j, w)'
  BY <1>2 DEF WaitsAt
<1>15. QED
  BY <1>2, <1>12, <1>13, <1>14 DEF SentValuesHeld, InlinedMux, WaitsAt
(* An iteration moves the oldest value of a port from its pipe to its      *)
(* register, and takes the value that matches out of its register.         *)
LEMMA IterateHeld ==
  ASSUME IInv, SentValuesHeld, InlinedMux, NEW vals \in SUBSET StPorts,
         NEW ldRdy \in BOOLEAN, NEW stRdy \in BOOLEAN, NEW endRdy \in BOOLEAN,
         NEW junk \in JunkTags, Iterate(vals, ldRdy, stRdy, endRdy, junk)
  PROVE  SentValuesHeld'
<1>1. /\ prog' = prog /\ cuSt' = cuSt
      /\ arrived' = IF Matching # {} THEN arrived + 1 ELSE arrived
      /\ arrived \in Nat /\ arrived' \in Nat /\ cuSt \in Nat
  BY StepCounters, InvCounters DEF StValArrived
<1>2. \A k \in Polled(vals) : k \in StPorts /\ ~stValReadSucc[k] /\ stValPipe[k] # <<>> /\ k \notin Matching
  BY DEF Polled, Matching
<1>3. \A k \in StPorts :
        /\ stValPipe'[k] = IF k \in Polled(vals) THEN Tail(stValPipe[k]) ELSE stValPipe[k]
        /\ stValRead'[k] = IF k \in Polled(vals) THEN Head(stValPipe[k]) ELSE stValRead[k]
        /\ stValReadSucc'[k] = ((k \in Polled(vals) \/ stValReadSucc[k]) /\ k \notin Matching)
  BY DEF Iterate, StoreValues
<1>4. stValPipe \in [StPorts -> Seq(StValTok)]
  BY DEF IInv, TypeOK
<1>5. \A k \in Polled(vals) :
        /\ Len(stValPipe[k]) \in Nat \ {0} /\ Head(stValPipe[k]) = stValPipe[k][1]
        /\ Len(Tail(stValPipe[k])) = Len(stValPipe[k]) - 1
        /\ \A i \in 1 .. Len(Tail(stValPipe[k])) :
             Tail(stValPipe[k])[i] = stValPipe[k][i + 1] /\ i + 1 \in 1 .. Len(stValPipe[k]) /\ 1 < i + 1
  BY <1>2, <1>4, TailElements
<1>6. \A k \in Matching : /\ k \in StPorts /\ stValReadSucc[k] /\ k \notin Polled(vals)
                          /\ stValRead[k].value = arrived + 1
  <2>1. ASSUME NEW k \in Matching
        PROVE  /\ k \in StPorts /\ stValReadSucc[k] /\ k \notin Polled(vals)
               /\ stValRead[k].value = arrived + 1
    <3>1. /\ stQ[1].valid /\ k \in StPorts /\ stValReadSucc[k]
          /\ stValRead[k].tag = nextStValTag
      BY DEF Matching
    <3>2. stValRead[k].value = Tag(arrived + 1)
      BY <3>1 DEF IInv, StoreValuesPaired, GoodStVal
    <3>3. arrived + 1 \in 0 .. Len(prog.stores)
      <4>1. arrived + 1 <= Accepted
        BY <3>1, HeadStore
      <4>2. Accepted \in Nat /\ Accepted <= Len(prog.stores) /\ Len(prog.stores) \in Nat
        BY InvCounters
      <4>3. QED
        BY <1>1, <4>1, <4>2
    <3>4. QED
      BY <1>2, <3>1, <3>2, <3>3, SmallTag DEF IInv
  <2>2. QED
    BY <2>1
<1>. DEFINE StillWaits(k, w) == arrived' < w /\ prog.stores[w].port = k
\* What is behind the value that matched still waits.
<1>7. ASSUME NEW k \in StPorts, NEW w \in Nat, WaitsAt(k, w),
             k \in Matching => arrived + 1 < w
      PROVE  StillWaits(k, w)
  <2>1. CASE Matching = {}
    BY <1>1, <1>7, <2>1 DEF WaitsAt
  <2>2. CASE Matching # {}
    <3>1. PICK m \in Matching : stValRead[m].value = arrived + 1 /\ m \in StPorts /\ stValReadSucc[m]
      BY <1>6, <2>2
    <3>2. prog.stores[arrived + 1].port = m
      BY <3>1 DEF SentValuesHeld, WaitsAt
    <3>3. w # arrived + 1
      BY <1>1, <1>7, <3>1, <3>2 DEF WaitsAt
    <3>4. QED
      BY <1>1, <1>7, <2>2, <3>3 DEF WaitsAt
  <2>3. QED
    BY <2>1, <2>2
<1>8. /\ \A k \in StPorts : stValReadSucc[k] => stValRead[k].value \in Nat
      /\ \A k \in StPorts : \A i \in 1 .. Len(stValPipe[k]) : stValPipe[k][i].value \in Nat
  BY DEF IInv, StoreValuesPaired, GoodStVal
<1>9. ASSUME NEW k \in StPorts, NEW i \in 1 .. Len(stValPipe[k])
      PROVE  /\ StillWaits(k, stValPipe[k][i].value)
             /\ stValReadSucc[k] => stValRead[k].value < stValPipe[k][i].value
             /\ \A j \in 1 .. Len(stValPipe[k]) : i < j => stValPipe[k][i].value < stValPipe[k][j].value
  <2>1. /\ WaitsAt(k, stValPipe[k][i].value)
        /\ stValReadSucc[k] => stValRead[k].value < stValPipe[k][i].value
        /\ \A j \in 1 .. Len(stValPipe[k]) : i < j => stValPipe[k][i].value < stValPipe[k][j].value
    BY DEF SentValuesHeld
  <2>2. k \in Matching => arrived + 1 < stValPipe[k][i].value
    BY <1>6, <2>1
  <2>3. QED
    BY <1>7, <1>8, <2>1, <2>2
<1>. HIDE DEF StillWaits
<1>10. ASSUME NEW k \in StPorts, stValReadSucc'[k]
       PROVE  StillWaits(k, stValRead'[k].value)
  <2>1. CASE k \in Polled(vals)
    <3>1. stValRead'[k] = stValPipe[k][1] /\ 1 \in 1 .. Len(stValPipe[k])
      BY <1>3, <1>5, <2>1
    <3>2. QED
      BY <1>9, <3>1
  <2>2. CASE k \notin Polled(vals)
    <3>1. stValRead'[k] = stValRead[k] /\ stValReadSucc[k] /\ k \notin Matching
      BY <1>3, <1>10, <2>2
    <3>2. WaitsAt(k, stValRead[k].value) /\ stValRead[k].value \in Nat
      BY <1>8, <3>1 DEF SentValuesHeld
    <3>3. QED
      BY <1>7, <3>1, <3>2
  <2>3. QED
    BY <2>1, <2>2
<1>11. ASSUME NEW k \in StPorts, NEW i \in 1 .. Len(stValPipe'[k])
       PROVE  /\ StillWaits(k, stValPipe'[k][i].value)
              /\ stValReadSucc'[k] => stValRead'[k].value < stValPipe'[k][i].value
              /\ \A j \in 1 .. Len(stValPipe'[k]) :
                   i < j => stValPipe'[k][i].value < stValPipe'[k][j].value
  <2>1. CASE k \in Polled(vals)
    <3>1. /\ stValRead'[k] = stValPipe[k][1] /\ 1 \in 1 .. Len(stValPipe[k])
          /\ \A j \in 1 .. Len(stValPipe'[k]) :
               stValPipe'[k][j] = stValPipe[k][j + 1] /\ j + 1 \in 1 .. Len(stValPipe[k]) /\ 1 < j + 1
      <4>1. stValPipe'[k] = Tail(stValPipe[k]) /\ stValRead'[k] = stValPipe[k][1]
        BY <1>3, <1>5, <2>1
      <4>2. 1 \in 1 .. Len(stValPipe[k])
        BY <1>5, <2>1
      <4>3. QED
        BY <1>5, <2>1, <4>1, <4>2
    <3>2. \A j \in 1 .. Len(stValPipe'[k]) : i < j => i + 1 < j + 1
      OBVIOUS
    <3>3. QED
      BY <1>9, <3>1, <3>2
  <2>2. CASE k \notin Polled(vals)
    <3>1. /\ stValPipe'[k] = stValPipe[k] /\ stValRead'[k] = stValRead[k]
          /\ stValReadSucc'[k] => stValReadSucc[k]
      BY <1>3, <2>2
    <3>2. QED
      BY <1>9, <1>11, <3>1
  <2>3. QED
    BY <2>1, <2>2
\* What a port held it still holds, unless it is the value that matched.
<1>12. ASSUME NEW s \in arrived' + 1 .. cuSt, NEW k, k = prog.stores[s].port
       PROVE  \/ stValReadSucc'[k] /\ stValRead'[k].value = s
              \/ \E i \in 1 .. Len(stValPipe'[k]) : stValPipe'[k][i].value = s
  <2>1. s \in arrived + 1 .. cuSt /\ (Matching # {} => s # arrived + 1)
    BY <1>1
  <2>2. k \in StPorts
    <3>1. cuSt <= Len(prog.stores) /\ Len(prog.stores) \in Nat
      BY InvCounters DEF IInv, CuInOrder
    <3>2. s \in 1 .. Len(prog.stores)
      BY <1>1, <2>1, <3>1
    <3>3. QED
      BY <1>12, <3>2, ProgOps DEF IInv
  <2>3. IsHeldAt(k, s)
    BY <1>12, <2>1 DEF SentValuesHeld
  <2>4. CASE stValReadSucc[k] /\ stValRead[k].value = s
    <3>1. k \notin Polled(vals) /\ k \notin Matching
      BY <1>2, <1>6, <2>1, <2>4
    <3>2. QED
      BY <1>3, <2>2, <2>4, <3>1
  <2>5. CASE \E i \in 1 .. Len(stValPipe[k]) : stValPipe[k][i].value = s
    <3>1. PICK i \in 1 .. Len(stValPipe[k]) : stValPipe[k][i].value = s
      BY <2>5
    <3>2. CASE k \notin Polled(vals)
      BY <1>3, <2>2, <3>1, <3>2
    <3>3. CASE k \in Polled(vals) /\ i = 1
      BY <1>2, <1>3, <1>5, <2>2, <3>1, <3>3
    <3>4. CASE k \in Polled(vals) /\ i # 1
      <4>1. PICK n \in Nat : n = Len(stValPipe[k])
        BY <1>5, <3>4
      <4>2. i - 1 \in 1 .. n - 1 /\ (i - 1) + 1 = i
        BY <3>1, <3>4, <4>1
      <4>3. i - 1 \in 1 .. Len(stValPipe'[k]) /\ stValPipe'[k][i - 1] = stValPipe[k][i]
        <5>1. stValPipe'[k] = Tail(stValPipe[k])
          BY <1>3, <2>2, <3>4
        <5>2. i - 1 \in 1 .. Len(Tail(stValPipe[k]))
          BY <1>5, <3>4, <4>1, <4>2
        <5>3. Tail(stValPipe[k])[i - 1] = stValPipe[k][(i - 1) + 1]
          BY <1>5, <3>4, <5>2
        <5>4. QED
          BY <4>2, <5>1, <5>2, <5>3
      <4>4. QED
        BY <3>1, <4>3
    <3>5. QED
      BY <3>2, <3>3, <3>4
  <2>6. QED
    BY <2>3, <2>4, <2>5 DEF IsHeldAt
<1>13. \A k, w : StillWaits(k, w) => WaitsAt(k, w)'
  BY <1>1 DEF StillWaits, WaitsAt
<1>14. \A s \in arrived' + 1 .. cuSt' : IsHeldAt(prog.stores[s].port, s)'
  BY <1>1, <1>12 DEF IsHeldAt
<1>15. \A k \in StPorts : stValReadSucc'[k] => WaitsAt(k, stValRead[k].value)'
  <2>1. \A k \in StPorts : stValReadSucc'[k] =>
          arrived' < stValRead'[k].value /\ prog'.stores[stValRead'[k].value].port = k
    BY <1>1, <1>10 DEF StillWaits
  <2>2. QED
    BY <2>1 DEF WaitsAt
<1>16. \A k \in StPorts : \A i \in 1 .. Len(stValPipe'[k]) : WaitsAt(k, stValPipe[k][i].value)'
  <2>1. \A k \in StPorts : \A i \in 1 .. Len(stValPipe'[k]) :
          arrived' < stValPipe'[k][i].value /\ prog'.stores[stValPipe'[k][i].value].port = k
    BY <1>1, <1>11 DEF StillWaits
  <2>2. QED
    BY <2>1 DEF WaitsAt
<1>17. QED
  BY <1>11, <1>14, <1>15, <1>16 DEF SentValuesHeld, InlinedMux

LEMMA StepHeld == IInv /\ SentValuesHeld /\ IInv' /\ [Next]_vars => SentValuesHeld'
<1>. SUFFICES ASSUME IInv, SentValuesHeld, IInv', [Next]_vars PROVE SentValuesHeld'
  OBVIOUS
<1>1. CASE AguSendLoad \/ AguSendStore \/ CuReadLoad \/ CuEnd \/ UNCHANGED vars
  <2>1. UNCHANGED <<prog, cuSt, stValPipe, stValRead, stValReadSucc, arrived>>
    BY <1>1 DEF AguSendLoad, CanSendLoad, AguSendStore, CanSendStore, CuReadLoad, CanReadLoad, CuEnd, CanEnd, vars, cuVars, lsqVars
  <2>2. QED
    BY <2>1, HeldUntouched
<1>2. CASE CuWriteStore
  BY <1>2, CuWriteStoreHeld
<1>3. ASSUME NEW vals \in SUBSET StPorts,
             NEW ldRdy \in BOOLEAN, NEW stRdy \in BOOLEAN, NEW endRdy \in BOOLEAN,
             NEW junk \in JunkTags, Iterate(vals, ldRdy, stRdy, endRdy, junk)
      PROVE  SentValuesHeld'
  <2>1. CASE InlinedMux
    BY <1>3, <2>1, IterateHeld
  <2>2. CASE ~InlinedMux
    <3>1. (~InlinedMux)' /\ \A k \in StPorts : ~stValReadSucc'[k]
      BY <1>3, <2>2 DEF SentValuesHeld, Iterate, StoreValues, InlinedMux
    <3>2. (\A k \in StPorts : ~stValReadSucc[k])'
      BY <3>1 DEF StPorts
    <3>3. QED
      BY <3>1, <3>2, OnePort, PTL
  <2>3. QED
    BY <2>1, <2>2
<1>4. QED
  BY <1>1, <1>2, <1>3 DEF Next, Agu, Cu, Lsq
LEMMA InitLatest == Init => HasLatest
<1>. SUFFICES ASSUME Init, NEW a \in Addr PROVE IsLatest(prog, 0, a, cuSt)
  BY DEF HasLatest
<1>1. QED
  BY DEF Init, IsLatest

(* A store that is not poisoned is the latest to its address; all other    *)
(* addresses keep theirs.                                                  *)
LEMMA LatestAfterStore ==
  ASSUME NEW p, NEW a, NEW v, NEW t \in Nat, IsLatest(p, v, a, t)
  PROVE  IsLatest(p, IF Writes(p, t + 1, a) THEN t + 1 ELSE v, a, t + 1)
<1>1. CASE Writes(p, t + 1, a)
  BY <1>1 DEF IsLatest
<1>2. CASE ~Writes(p, t + 1, a)
  <2>1. \A s \in t + 1 .. t + 1 : ~Writes(p, s, a)
    BY <1>2
  <2>2. QED
    BY <1>2, <2>1, LatestExtends
<1>3. QED
  BY <1>1, <1>2

LEMMA StepLatest == IInv /\ HasLatest /\ [Next]_vars => HasLatest'
<1>. SUFFICES ASSUME IInv, HasLatest, [Next]_vars, NEW a \in Addr
              PROVE  \E v : IsLatest(prog', v, a, cuSt')
  BY DEF HasLatest, Addr, IsLatest, Writes
<1>1. PICK v : IsLatest(prog, v, a, cuSt)
  BY DEF HasLatest
<1>2. cuSt \in Nat
  BY InvCounters
<1>3. prog' = prog /\ (cuSt' = cuSt \/ cuSt' = cuSt + 1)
  BY DEF Next, Agu, Cu, Lsq, AguSendLoad, CanSendLoad, AguSendStore, CanSendStore, CuReadLoad, CanReadLoad, CuWriteStore, CanWriteStore, CuEnd, CanEnd, Iterate,
         vars, cuVars
<1>4. QED
  BY <1>1, <1>2, <1>3, LatestAfterStore

------------------------------------------------------------------------------
(* The refinement: reading a load value is Load, sending a store value is  *)
(* Store, and every other step leaves the abstract state alone.            *)

LEMMA InitRefines == Init /\ MemIsLatest => Sequential!Init
<1>. SUFFICES ASSUME Init, MemIsLatest PROVE Sequential!Init
  OBVIOUS
<1>1. \A a \in Addr : AbstractMem[a] = 0
  BY DEF Init, MemIsLatest, IsLatest
<1>2. AbstractMem = [a \in Addr |-> 0]
  BY <1>1 DEF AbstractMem
<1>3. QED
  BY <1>2 DEF Init, Sequential!Init, Sequential!Addr, Addr

(* While the CU sends no store, the abstract array stays as it is.         *)
LEMMA SameMem ==
  MemIsLatest /\ MemIsLatest' /\ prog' = prog /\ cuSt' = cuSt /\ cuSt \in Nat
    => AbstractMem' = AbstractMem
<1>. SUFFICES ASSUME MemIsLatest, MemIsLatest', prog' = prog, cuSt' = cuSt, cuSt \in Nat
              PROVE  AbstractMem' = AbstractMem
  OBVIOUS
<1>1. \A a \in Addr : IsLatest(prog, AbstractMem[a], a, cuSt) /\ IsLatest(prog, AbstractMem'[a], a, cuSt)
  BY DEF MemIsLatest, Addr, IsLatest, Writes
<1>2. \A a \in Addr : AbstractMem'[a] = AbstractMem[a]
  BY <1>1, LatestIsUnique
<1>3. QED
  BY <1>2 DEF AbstractMem, Addr

LEMMA ReadLoadRefines ==
  IInv /\ MemIsLatest /\ MemIsLatest' /\ CuReadLoad => Sequential!Load
<1>. SUFFICES ASSUME IInv, MemIsLatest, MemIsLatest', CuReadLoad PROVE Sequential!Load
  OBVIOUS
<1>. DEFINE l == Len(got) + 1
            k == prog.loads[l].port
<1>1. /\ l \in 1 .. Len(prog.loads) /\ prog.loads[l].tag = cuSt /\ ldValPipe[k] # <<>>
      /\ got' = Append(got, Head(ldValPipe[k]).value)
      /\ prog' = prog /\ cuSt' = cuSt /\ cuSt \in Nat
  BY InvCounters DEF CuReadLoad, CanReadLoad, AtLoad
<1>2. k \in LdPorts /\ prog.loads[l].addr \in Addr
  BY <1>1, ProgOps DEF IInv
<1>3. Head(ldValPipe[k]).id = l
  BY <1>1, HeadLoadValue
<1>4. IsSequentialValue(prog, Head(ldValPipe[k]).value, l)
  <2>1. Head(ldValPipe[k]) = ldValPipe[k][1] /\ 1 \in 1 .. Len(ldValPipe[k])
    <3>1. ldValPipe[k] \in Seq(LdValTok)
      BY <1>2 DEF IInv, TypeOK
    <3>. HIDE DEF k
    <3>2. QED
      BY <1>1, <3>1
  <2>2. QED
    BY <1>2, <1>3, <2>1 DEF IInv, ReturnedValuesCorrect
<1>5. Head(ldValPipe[k]).value = AbstractMem[prog.loads[l].addr]
  BY <1>1, <1>2, <1>4, LatestIsUnique DEF MemIsLatest, IsSequentialValue
<1>6. AbstractMem' = AbstractMem
  BY <1>1, SameMem
<1>7. QED
  BY <1>1, <1>5, <1>6 DEF Sequential!Load, Sequential!AtLoad, CuReadLoad, CanReadLoad, AtLoad

LEMMA WriteStoreRefines ==
  IInv /\ MemIsLatest /\ MemIsLatest' /\ CuWriteStore => Sequential!Store
<1>. SUFFICES ASSUME IInv, MemIsLatest, MemIsLatest', CuWriteStore PROVE Sequential!Store
  OBVIOUS
<1>. DEFINE s == cuSt + 1
<1>1. /\ AtStore(prog, cuSt, Len(got)) /\ cuSt' = s /\ prog' = prog /\ got' = got /\ cuSt \in Nat
  BY InvCounters DEF CuWriteStore, CanWriteStore
<1>2. \A a \in Addr : IsLatest(prog, AbstractMem'[a], a, s)
  BY <1>1 DEF MemIsLatest, Addr, IsLatest, Writes
<1>3. \A a \in Addr : AbstractMem'[a] = IF Writes(prog, s, a) THEN s ELSE AbstractMem[a]
  <2>1. \A a \in Addr : IsLatest(prog, IF Writes(prog, s, a) THEN s ELSE AbstractMem[a], a, s)
    BY <1>1, LatestAfterStore DEF MemIsLatest
  <2>2. s \in Nat
    BY <1>1
  <2>. HIDE DEF s
  <2>3. QED
    BY <1>2, <2>1, <2>2, LatestIsUnique
<1>4. AbstractMem' = IF prog.stores[s].ok THEN [AbstractMem EXCEPT ![prog.stores[s].addr] = s]
                     ELSE AbstractMem
  <2>1. AbstractMem = [a \in Addr |-> AbstractMem[a]] /\ AbstractMem' = [a \in Addr |-> AbstractMem'[a]]
    BY DEF AbstractMem, Addr
  <2>. HIDE DEF s
  <2>2. QED
    BY <1>3, <2>1 DEF Writes
<1>5. QED
  BY <1>1, <1>4 DEF Sequential!Store, Sequential!AtStore, Sequential!AtLoad, AtStore, AtLoad

LEMMA StepRefines ==
  IInv /\ MemIsLatest /\ MemIsLatest' /\ [Next]_vars => [Sequential!Next]_(Sequential!vars)
<1>. SUFFICES ASSUME IInv, MemIsLatest, MemIsLatest', [Next]_vars
              PROVE  Sequential!Next \/ UNCHANGED Sequential!vars
  OBVIOUS
<1>1. CASE CuReadLoad
  BY <1>1, ReadLoadRefines DEF Sequential!Next
<1>2. CASE CuWriteStore
  BY <1>2, WriteStoreRefines DEF Sequential!Next
<1>3. CASE AguSendLoad \/ AguSendStore \/ CuEnd \/ Lsq \/ UNCHANGED vars
  <2>1. prog' = prog /\ cuSt' = cuSt /\ got' = got
    BY <1>3 DEF AguSendLoad, CanSendLoad, AguSendStore, CanSendStore, CuEnd, CanEnd, Lsq, Iterate, vars, cuVars
  <2>2. AbstractMem' = AbstractMem
    BY <2>1, InvCounters, SameMem
  <2>3. QED
    BY <2>1, <2>2 DEF Sequential!vars
<1>4. QED
  BY <1>1, <1>2, <1>3 DEF Next, Agu, Cu

------------------------------------------------------------------------------
(* Every store value that was sent and has not arrived waits at the port   *)
(* of its own store, once and behind the older ones, however the inlined   *)
(* multiplexer polls its ports.                                            *)
THEOREM SentValuesAreHeld == Spec => []SentValuesHeld
BY InitHeld, StepHeld, InvariantHolds, PTL DEF Spec

(* Only one store value port holds the next tag, so the order in which the *)
(* unrolled multiplexer visits its ports does not matter.                  *)
THEOREM OnlyOneValueMatches == Spec => []OnlyOneStoreValueMatches
BY OneMatch, SentValuesAreHeld, InvariantHolds, PTL

(* The queue and the kernels that use it implement a plain array on which  *)
(* loads and stores run one at a time.                                     *)
THEOREM QueueImplementsMemory == Spec => ImplementsSequentialMemory
<1>1. Spec => []HasLatest
  BY InitLatest, StepLatest, InvariantHolds, PTL DEF Spec
<1>2. Spec => []MemIsLatest
  BY <1>1, AbstractLatest, SentValuesAreHeld, InvariantHolds, PTL
<1>3. QED
  BY <1>2, InitRefines, StepRefines, InvariantHolds, PTL
     DEF Spec, ImplementsSequentialMemory, Sequential!Spec

------------------------------------------------------------------------------
(* The kernels never wait for one another in a circle.                     *)

LEMMA LoadTags ==
  ASSUME IInv
  PROVE  /\ \A l \in 1 .. Len(prog.loads) :
              prog.loads[l].tag \in Nat /\ prog.loads[l].tag <= Len(prog.stores)
         /\ \A l, m \in 1 .. Len(prog.loads) : l <= m => prog.loads[l].tag <= prog.loads[m].tag
<1>1. Len(prog.stores) \in Nat /\ TypeOK
  BY InvCounters DEF IInv
<1>2. ASSUME NEW l \in 1 .. Len(prog.loads)
      PROVE  prog.loads[l].tag \in Nat /\ prog.loads[l].tag <= Len(prog.stores)
  <2>1. prog.loads[l].tag \in 0 .. Len(prog.stores)
    BY <1>1, ProgOps
  <2>2. QED
    BY <1>1, <2>1
<1>3. \A l, m \in 1 .. Len(prog.loads) : l <= m => prog.loads[l].tag <= prog.loads[m].tag
  BY <1>1, ProgOps
<1>4. QED
  BY <1>2, <1>3

LEMMA InitAguInOrder == Init => AguInOrder
<1>. SUFFICES ASSUME Init PROVE AguInOrder
  OBVIOUS
<1>1. aguSt = 0 /\ aguLd = 0 /\ cuSt = 0 /\ got = <<>> /\ Len(got) = 0 /\ ~cuEnded
  BY DEF Init
<1>2. Len(prog.loads) \in Nat /\ (0 < Len(prog.loads) => 0 <= prog.loads[1].tag)
  <2>1. IInv
    BY InitInv
  <2>2. Len(prog.loads) \in Nat
    BY <2>1, InvCounters
  <2>3. 0 < Len(prog.loads) => 1 \in 1 .. Len(prog.loads)
    BY <2>2
  <2>4. QED
    BY <2>1, <2>2, <2>3, LoadTags
<1>3. QED
  BY <1>1, <1>2 DEF AguInOrder, AguPosition, Lockstep, EndsLast

LEMMA AguKeepsOrder == IInv /\ AguInOrder /\ Agu => AguInOrder'
<1>. SUFFICES ASSUME IInv, AguInOrder, Agu PROVE AguInOrder'
  OBVIOUS
<1>1. /\ aguSt \in Nat /\ aguLd \in Nat /\ cuSt \in Nat /\ Len(got) \in Nat
      /\ Len(prog.loads) \in Nat
  BY InvCounters
<1>2. AguPosition /\ Lockstep /\ EndsLast
  BY DEF AguInOrder
<1>3. UNCHANGED <<prog, cuSt, got, cuEnded, endPipe, done>>
  BY DEF Agu, AguSendLoad, AguSendStore, cuVars, lsqVars
<1>4. CASE AguSendLoad
  <2>1. /\ aguLd < Len(prog.loads) /\ prog.loads[aguLd + 1].tag = aguSt
        /\ MayRequest /\ aguLd' = aguLd + 1 /\ aguSt' = aguSt
    BY <1>4 DEF AguSendLoad, CanSendLoad, AtLoad
  <2>2. aguLd + 1 < Len(prog.loads) => prog.loads[aguLd + 1].tag <= prog.loads[aguLd + 2].tag
    <3>1. aguLd + 1 < Len(prog.loads) => aguLd + 1 \in 1 .. Len(prog.loads) /\ aguLd + 2 \in 1 .. Len(prog.loads)
                                         /\ aguLd + 1 <= aguLd + 2
      BY <1>1
    <3>2. QED
      BY <3>1, LoadTags
  <2>3. AguPosition'
    <3>1. (aguLd + 1) + 1 = aguLd + 2
      BY <1>1
    <3>2. QED
      BY <1>1, <1>3, <2>1, <2>2, <3>1 DEF AguPosition
  <2>4. Lockstep'
    BY <1>1, <1>3, <2>1 DEF Lockstep, MayRequest, AtLoad
  <2>5. QED
    BY <1>2, <1>3, <2>3, <2>4 DEF AguInOrder, EndsLast
<1>5. CASE AguSendStore
  <2>1. /\ AtStore(prog, aguSt, aguLd) /\ MayRequest /\ aguLd' = aguLd /\ aguSt' = aguSt + 1
    BY <1>5 DEF AguSendStore, CanSendStore
  <2>2. aguLd < Len(prog.loads) => /\ aguSt <= prog.loads[aguLd + 1].tag
                                   /\ prog.loads[aguLd + 1].tag # aguSt
                                   /\ prog.loads[aguLd + 1].tag \in Nat
    <3>1. aguLd < Len(prog.loads) => aguLd + 1 \in 1 .. Len(prog.loads)
      BY <1>1
    <3>2. QED
      BY <1>2, <2>1, <3>1, LoadTags DEF AguPosition, AtStore, AtLoad
  <2>3. aguLd > 0 => prog.loads[aguLd].tag <= aguSt /\ prog.loads[aguLd].tag \in Nat
    <3>1. aguLd > 0 => aguLd \in 1 .. Len(prog.loads)
      BY <1>1 DEF IInv, RequestsInOrder
    <3>2. QED
      BY <1>2, <3>1, LoadTags DEF AguPosition
  <2>4. AguPosition'
    BY <1>1, <1>3, <2>1, <2>2, <2>3 DEF AguPosition
  <2>5. Lockstep'
    BY <1>1, <1>3, <2>1 DEF Lockstep, MayRequest
  <2>6. QED
    BY <1>2, <1>3, <2>4, <2>5 DEF AguInOrder, EndsLast
<1>6. QED
  BY <1>4, <1>5 DEF Agu

LEMMA CuKeepsOrder == IInv /\ AguInOrder /\ Cu => AguInOrder'
<1>. SUFFICES ASSUME IInv, AguInOrder, Cu PROVE AguInOrder'
  OBVIOUS
<1>1. /\ aguSt \in Nat /\ aguLd \in Nat /\ cuSt \in Nat /\ Len(got) \in Nat
      /\ Len(prog.loads) \in Nat /\ Len(prog.stores) \in Nat
      /\ returned <= AcceptedLds /\ AcceptedLds + Len(ldReqPipe) = aguLd
      /\ returned \in Nat /\ AcceptedLds \in Nat /\ Len(ldReqPipe) \in Nat
  BY InvCounters
<1>2. AguPosition /\ Lockstep /\ EndsLast
  BY DEF AguInOrder
<1>3. UNCHANGED <<prog, aguSt, aguLd, done>>
  BY DEF Cu, CuReadLoad, CuWriteStore, CuEnd, aguVars, lsqVars
<1>4. AguPosition'
  BY <1>2, <1>3 DEF AguPosition
<1>5. CASE CuReadLoad
  <2>. DEFINE k == prog.loads[Len(got) + 1].port
  <2>1. /\ AtLoad(prog, cuSt, Len(got)) /\ ldValPipe[k] # <<>> /\ cuSt' = cuSt
        /\ cuEnded' = cuEnded /\ got' = Append(got, Head(ldValPipe[k]).value)
    BY <1>5 DEF CuReadLoad, CanReadLoad
  <2>2. Len(got) + 1 <= returned
    BY <2>1, HeadLoadValue DEF AtLoad
  <2>3. Len(got') = Len(got) + 1
    BY <2>1
  <2>4. Lockstep'
    BY <1>1, <1>2, <1>3, <2>1, <2>2, <2>3 DEF Lockstep
  <2>5. ~cuEnded
    BY <1>1, <1>2, <2>1 DEF EndsLast, AtEnd, AtLoad
  <2>6. QED
    BY <1>4, <2>1, <2>4, <2>5 DEF AguInOrder, EndsLast
<1>6. CASE CuWriteStore
  <2>1. /\ AtStore(prog, cuSt, Len(got)) /\ (prog.decoupled \/ aguSt > cuSt)
        /\ cuSt' = cuSt + 1 /\ got' = got /\ cuEnded' = cuEnded
    BY <1>6 DEF CuWriteStore, CanWriteStore
  <2>2. Lockstep'
    BY <1>1, <1>2, <1>3, <2>1 DEF Lockstep
  <2>3. ~cuEnded
    BY <1>1, <1>2, <2>1 DEF EndsLast, AtEnd, AtStore
  <2>4. QED
    BY <1>4, <2>1, <2>2, <2>3 DEF AguInOrder, EndsLast
<1>7. CASE CuEnd
  <2>1. /\ AtEnd(prog, cuSt, Len(got)) /\ cuSt' = cuSt /\ got' = got
        /\ endPipe' = Append(endPipe, TRUE) /\ endPipe \in Seq(BOOLEAN)
    BY <1>7 DEF CuEnd, CanEnd, IInv, TypeOK
  <2>2. endPipe' # <<>>
    BY <2>1, AppendProperties
  <2>3. Lockstep' /\ EndsLast'
    BY <1>2, <1>3, <2>1, <2>2 DEF Lockstep, EndsLast
  <2>4. QED
    BY <1>4, <2>3 DEF AguInOrder
<1>8. QED
  BY <1>5, <1>6, <1>7 DEF Cu

LEMMA StepAguInOrder == IInv /\ AguInOrder /\ [Next]_vars => AguInOrder'
<1>. SUFFICES ASSUME IInv, AguInOrder, [Next]_vars PROVE AguInOrder'
  OBVIOUS
<1>1. CASE Lsq
  <2>1. PICK vals \in SUBSET StPorts, ldRdy \in BOOLEAN, stRdy \in BOOLEAN, endRdy \in BOOLEAN, junk \in JunkTags :
          Iterate(vals, ldRdy, stRdy, endRdy, junk)
    BY <1>1 DEF Lsq
  <2>2. UNCHANGED <<prog, aguSt, aguLd, cuSt, got, cuEnded>>
    BY <2>1 DEF Iterate, aguVars, cuVars
  <2>3. ~done /\ (~done' => endPipe' = endPipe)
    BY <2>1 DEF Iterate
  <2>4. done' \in BOOLEAN
    BY <2>1 DEF Iterate, EndSeen
  <2>5. QED
    BY <2>2, <2>3, <2>4 DEF AguInOrder, AguPosition, Lockstep, EndsLast
<1>2. CASE UNCHANGED vars
  BY <1>2 DEF vars, aguVars, cuVars, lsqVars, AguInOrder, AguPosition, Lockstep, EndsLast
<1>3. QED
  BY <1>1, <1>2, AguKeepsOrder, CuKeepsOrder DEF Next

(* The CU is at a load, at a store or at the end. *)
LEMMA CuPosition ==
  ASSUME IInv
  PROVE  \/ AtLoad(prog, cuSt, Len(got))
         \/ AtStore(prog, cuSt, Len(got))
         \/ AtEnd(prog, cuSt, Len(got))
<1>1. /\ cuSt \in Nat /\ Len(got) \in Nat /\ Len(prog.loads) \in Nat /\ Len(prog.stores) \in Nat
      /\ cuSt <= Len(prog.stores) /\ Len(got) <= Len(prog.loads)
      /\ Len(got) < Len(prog.loads) => cuSt <= prog.loads[Len(got) + 1].tag
  BY InvCounters DEF IInv, CuInOrder
<1>2. Len(got) < Len(prog.loads) => Len(got) + 1 \in 1 .. Len(prog.loads)
  BY <1>1
<1>3. Len(got) < Len(prog.loads) => /\ prog.loads[Len(got) + 1].tag \in Nat
                                    /\ prog.loads[Len(got) + 1].tag <= Len(prog.stores)
  BY <1>2, LoadTags
<1>4. QED
  BY <1>1, <1>3 DEF AtLoad, AtStore, AtEnd

(* The same of the AGU. *)
LEMMA AguAt ==
  ASSUME IInv, AguPosition
  PROVE  \/ AtLoad(prog, aguSt, aguLd)
         \/ AtStore(prog, aguSt, aguLd)
         \/ AtEnd(prog, aguSt, aguLd)
<1>1. /\ aguSt \in Nat /\ aguLd \in Nat /\ Len(prog.loads) \in Nat /\ Len(prog.stores) \in Nat
      /\ aguSt <= Len(prog.stores) /\ aguLd <= Len(prog.loads)
      /\ aguLd < Len(prog.loads) => aguSt <= prog.loads[aguLd + 1].tag
  BY InvCounters DEF IInv, RequestsInOrder, AguPosition
<1>2. aguLd < Len(prog.loads) => aguLd + 1 \in 1 .. Len(prog.loads)
  BY <1>1
<1>3. aguLd < Len(prog.loads) => /\ prog.loads[aguLd + 1].tag \in Nat
                                 /\ prog.loads[aguLd + 1].tag <= Len(prog.stores)
  BY <1>2, LoadTags
<1>4. QED
  BY <1>1, <1>3 DEF AtLoad, AtStore, AtEnd

(* An empty entry of the store queue matches no load, and its entries are  *)
(* the stores without a value: a load none of them is older than is safe   *)
(* as soon as the addresses before it have arrived.                        *)
LEMMA HeadBecomesSafe ==
  ASSUME IInv, ldQ[1].valid, ldQ[1].tag <= arrived
  PROVE  SafeNow(ldQ[1])
<1>1. 1 \in 1 .. LdQSize
  BY QueueAssumption
<1>2. ldQ[1].id \in 1 .. Len(prog.loads) /\ ldQ[1].addr = prog.loads[ldQ[1].id].addr
      /\ ldQ[1].tag = prog.loads[ldQ[1].id].tag
  BY <1>1, QueuedLoad
<1>3. ldQ[1].tag \in Nat /\ ldQ[1].addr \in Addr
  BY <1>2, LoadTags, ProgOps DEF IInv
<1>4. arrived \in Nat /\ Accepted \in Nat /\ arrived <= Accepted /\ lastStReqTag = Accepted
  BY InvCounters DEF IInv, RequestsInOrder
<1>5. ASSUME NEW i \in 1 .. StQSize, stQ[i].addr = ldQ[1].addr PROVE ~ (stQ[i].tag <= ldQ[1].tag)
  <2>1. IF stQ[i].valid THEN stQ[i].tag \in arrived + 1 .. Accepted ELSE stQ[i].addr = InvalidAddr
    BY DEF IInv, StoreQueueHoldsPending, HoldsStores
  <2>2. stQ[i].valid
    <3>1. InvalidAddr \notin Addr
      BY SizesAssumption DEF InvalidAddr, Addr
    <3>2. QED
      BY <1>3, <1>5, <2>1, <3>1
  <2>3. stQ[i].tag \in arrived + 1 .. Accepted
    BY <2>1, <2>2
  <2>4. QED
    BY <1>3, <1>4, <2>3
<1>6. QED
  BY <1>3, <1>4, <1>5 DEF SafeNow

(* A load whose stores have all arrived is answered, or the value it waits *)
(* behind is read.                                                         *)
LEMMA HeadIsAnswered ==
  ASSUME IInv, ldQ[1].valid, ldQ[1].tag <= arrived,
         Len(ldValPipe[ldQ[1].port]) = 0
  PROVE  LoadsCanGo
<1>1. CASE ldQ[1].isSafe
  <2>1. Returning(StPorts)
    BY <1>1 DEF Returning
  <2>2. Len(ldValPipe[ldQ[1].port]) < LdValDepth
    BY QueueAssumption
  <2>3. QED
    BY <2>1, <2>2 DEF LoadsCanGo, PipeSucc
<1>2. CASE ~ldQ[1].isSafe
  BY <1>2, HeadBecomesSafe DEF LoadsCanGo
<1>3. QED
  BY <1>1, <1>2

LEMMA RequestIsTaken ==
  ASSUME IInv, Len(ldReqPipe) # 0, ~ldQ[LdQSize].valid
  PROVE  LoadsCanGo
<1>1. LdQSize # 1 /\ 1 \in 1 .. LdQSize /\ LdQSize \in 1 .. LdQSize
  BY QueueAssumption
<1>2. ldQ \in [1 .. LdQSize -> LdEntry] /\ ldReqPipe # <<>>
  BY DEF IInv, TypeOK
<1>3. LdQAfterReturn(StPorts)[LdQSize] = ldQ[LdQSize]
  BY <1>1, <1>2 DEF LdQAfterReturn
<1>4. QED
  BY <1>2, <1>3 DEF LoadsCanGo, LdReqTaken

LEMMA LoadWaits ==
  ASSUME IInv, NEW i \in 1 .. LdQSize, ldQ[i].valid, ~LoadsCanGo
  PROVE  ldQ[1].valid
<1>1. DOMAIN ldQ = 1 .. LdQSize
  BY DEF IInv, TypeOK
<1>2. QED
  BY <1>1 DEF LoadsCanGo, Bubble

(* A value the CU waits for is in its port's pipe. *)
LEMMA ValueIsThere ==
  ASSUME IInv, AtLoad(prog, cuSt, Len(got)), Len(got) + 1 <= returned
  PROVE  CanReadLoad
<1>. DEFINE l == Len(got) + 1
            k == prog.loads[l].port
<1>1. l \in Len(got) + 1 .. returned /\ Len(got) \in Nat /\ l \in 1 .. Len(prog.loads)
  BY InvCounters DEF AtLoad
<1>2. PICK i \in 1 .. Len(ldValPipe[k]) : ldValPipe[k][i].id = l
  BY <1>1 DEF IInv, LoadValuesInOrder
<1>3. k \in LdPorts
  BY <1>1, ProgOps DEF IInv
<1>4. ldValPipe[k] # <<>>
  BY <1>2, <1>3 DEF IInv, TypeOK
<1>5. QED
  BY <1>4 DEF CanReadLoad

LEMMA NoValueThere ==
  ASSUME IInv, returned = Len(got), NEW k \in LdPorts
  PROVE  Len(ldValPipe[k]) = 0
<1>1. ldValPipe[k] \in Seq(LdValTok) /\ Len(got) \in Nat
  BY InvCounters DEF IInv, TypeOK
<1>2. SUFFICES ASSUME Len(ldValPipe[k]) # 0 PROVE FALSE
  OBVIOUS
<1>3. 1 \in 1 .. Len(ldValPipe[k])
  BY <1>1, <1>2
<1>4. ldValPipe[k][1].id \in Len(got) + 1 .. returned
  BY <1>3 DEF IInv, LoadValuesInOrder
<1>5. QED
  BY <1>1, <1>4

(* The load the CU waits for moves on once it is requested and its stores  *)
(* have arrived.                                                           *)
LEMMA LoadMoves ==
  ASSUME IInv, AtLoad(prog, cuSt, Len(got)), Len(got) + 1 <= aguLd, cuSt <= arrived
  PROVE  CanReadLoad \/ LoadsCanGo
<1>. DEFINE l == Len(got) + 1
<1>. SUFFICES ASSUME ~CanReadLoad, ~LoadsCanGo PROVE FALSE
  OBVIOUS
<1>1. /\ Len(got) \in Nat /\ returned \in Nat /\ AcceptedLds \in Nat /\ Len(ldReqPipe) \in Nat
      /\ AcceptedLds + Len(ldReqPipe) = aguLd /\ Len(got) <= returned /\ returned <= AcceptedLds
      /\ l \in 1 .. Len(prog.loads) /\ arrived \in Nat /\ cuSt \in Nat
  BY InvCounters DEF AtLoad
<1>2. returned = Len(got)
  BY <1>1, ValueIsThere
<1>3. CASE \E i \in 1 .. LdQSize : ldQ[i].valid
  <2>1. ldQ[1].valid
    BY <1>3, LoadWaits
  <2>2. ldQ[1].id = l
    BY <1>2, <2>1, HeadLoad
  <2>3. ldQ[1].tag = cuSt /\ ldQ[1].port \in LdPorts
    <3>1. 1 \in 1 .. LdQSize
      BY QueueAssumption
    <3>2. ldQ[1].tag = prog.loads[l].tag /\ ldQ[1].port = prog.loads[l].port
      BY <2>1, <2>2, <3>1, QueuedLoad
    <3>3. QED
      BY <1>1, <3>2, ProgOps DEF AtLoad, IInv
  <2>4. Len(ldValPipe[ldQ[1].port]) = 0
    BY <1>2, <2>3, NoValueThere
  <2>5. QED
    BY <2>1, <2>3, <2>4, HeadIsAnswered
<1>4. CASE \A i \in 1 .. LdQSize : ~ldQ[i].valid
  <2>1. AcceptedLds = returned
    <3>1. \A m \in returned + 1 .. AcceptedLds : FALSE
      BY <1>4 DEF IInv, LoadQueueInOrder, HoldsLoads
    <3>2. QED
      BY <1>1, <3>1
  <2>2. Len(ldReqPipe) # 0
    BY <1>1, <1>2, <2>1
  <2>3. ~ldQ[LdQSize].valid
    BY <1>4, QueueAssumption
  <2>4. QED
    BY <2>2, <2>3, RequestIsTaken
<1>5. QED
  BY <1>3, <1>4

(* A store at the head of its queue whose value was sent gets it. *)
LEMMA SentValueArrives ==
  ASSUME IInv, SentValuesHeld, stQ[1].valid, arrived < cuSt
  PROVE  StoresCanGo
<1>. DEFINE s == arrived + 1
            k == prog.stores[s].port
<1>1. /\ arrived \in Nat /\ cuSt \in Nat /\ cuSt <= Len(prog.stores) /\ Len(prog.stores) \in Nat
      /\ s \in arrived + 1 .. cuSt /\ s \in 1 .. Len(prog.stores) /\ s \in 0 .. Len(prog.stores)
  BY InvCounters DEF IInv, CuInOrder
<1>2. k \in StPorts /\ IsHeldAt(k, s)
  BY <1>1, ProgOps DEF SentValuesHeld, IInv
<1>3. CASE stValReadSucc[k] /\ stValRead[k].value = s
  <2>1. InlinedMux
    BY <1>2, <1>3 DEF SentValuesHeld
  <2>2. stValRead[k].tag = s /\ nextStValTag = Tag(s)
    BY <1>2, <1>3, <2>1 DEF IInv, StoreValuesPaired, GoodStVal
  <2>3. Tag(s) = s
    BY <1>1, SmallTag DEF IInv
  <2>4. k \in Matching
    BY <1>2, <1>3, <2>2, <2>3 DEF Matching
  <2>5. QED
    BY <2>1, <2>4 DEF StoresCanGo, StValArrived
<1>4. CASE ~(stValReadSucc[k] /\ stValRead[k].value = s)
  <2>1. PICK i \in 1 .. Len(stValPipe[k]) : stValPipe[k][i].value = s
    BY <1>2, <1>4 DEF IsHeldAt
  <2>2. ~stValReadSucc[k]
    <3>1. SUFFICES ASSUME stValReadSucc[k] PROVE FALSE
      OBVIOUS
    <3>2. WaitsAt(k, stValRead[k].value) /\ stValRead[k].value < stValPipe[k][i].value
      BY <1>2, <2>1, <3>1 DEF SentValuesHeld
    <3>3. stValRead[k].value \in Nat
      BY <1>2, <3>1 DEF IInv, StoreValuesPaired, GoodStVal
    <3>4. QED
      BY <1>1, <2>1, <3>2, <3>3 DEF WaitsAt
  <2>3. stValPipe[k] # <<>>
    BY <1>2, <2>1 DEF IInv, TypeOK
  <2>4. k \in Polled(StPorts)
    BY <1>2, <2>2, <2>3 DEF Polled
  <2>5. QED
    BY <2>4 DEF StoresCanGo
<1>5. QED
  BY <1>3, <1>4

(* With all values sent taken, the value pipes are empty. *)
LEMMA NoStoreValueThere ==
  ASSUME IInv, SentValuesHeld, arrived = cuSt, NEW k \in StPorts
  PROVE  Len(stValPipe[k]) = 0
<1>1. stValPipe[k] \in Seq(StValTok) /\ cuSt \in Nat
  BY InvCounters DEF IInv, TypeOK
<1>2. SUFFICES ASSUME Len(stValPipe[k]) # 0 PROVE FALSE
  OBVIOUS
<1>3. 1 \in 1 .. Len(stValPipe[k])
  BY <1>1, <1>2
<1>4. stValPipe[k][1].value \in 1 .. cuSt
  BY <1>3 DEF IInv, StoreValuesPaired, GoodStVal
<1>5. arrived < stValPipe[k][1].value
  BY <1>3 DEF SentValuesHeld, WaitsAt
<1>6. QED
  BY <1>1, <1>4, <1>5

(* A store waits at the head of its queue: its value is on its way, or the *)
(* CU can send it, or the CU is at a load before it.                       *)
LEMMA StoreWaiting ==
  ASSUME IInv, SentValuesHeld, AguPosition, stQ[1].valid
  PROVE  CuCanGo \/ StoresCanGo \/ LoadsCanGo
<1>1. /\ arrived \in Nat /\ cuSt \in Nat /\ aguSt \in Nat /\ aguLd \in Nat /\ Len(got) \in Nat
      /\ arrived <= cuSt /\ Accepted <= aguSt /\ Accepted \in Nat /\ arrived + 1 <= Accepted
      /\ Len(got) <= aguLd /\ Len(prog.stores) \in Nat /\ aguSt <= Len(prog.stores) /\ Len(prog.loads) \in Nat
  <2>1. aguSt <= Len(prog.stores)
    BY DEF IInv, RequestsInOrder
  <2>2. arrived + 1 <= Accepted
    BY HeadStore
  <2>3. QED
    BY <2>1, <2>2, InvCounters
<1>2. CASE arrived < cuSt
  BY <1>2, SentValueArrives
<1>3. CASE arrived = cuSt /\ AtStore(prog, cuSt, Len(got))
  <2>1. cuSt + 1 \in 1 .. Len(prog.stores)
    BY <1>1, <1>3 DEF AtStore
  <2>2. Len(stValPipe[prog.stores[cuSt + 1].port]) = 0
    BY <1>3, <2>1, ProgOps, NoStoreValueThere DEF IInv
  <2>3. QED
    BY <1>1, <1>3, <2>2, QueueAssumption DEF CuCanGo, CanWriteStore
<1>4. CASE arrived = cuSt /\ AtLoad(prog, cuSt, Len(got))
  <2>1. Len(got) + 1 <= aguLd
    <3>1. SUFFICES ASSUME aguLd = Len(got) PROVE FALSE
      BY <1>1
    <3>2. aguSt <= prog.loads[aguLd + 1].tag /\ prog.loads[aguLd + 1].tag = cuSt
      BY <1>4, <3>1 DEF AguPosition, AtLoad
    <3>3. QED
      BY <1>1, <1>4, <3>2
  <2>2. QED
    BY <1>1, <1>4, <2>1, LoadMoves DEF CuCanGo
<1>5. CASE arrived = cuSt /\ AtEnd(prog, cuSt, Len(got))
  BY <1>1, <1>5 DEF AtEnd
<1>6. QED
  BY <1>1, <1>2, <1>3, <1>4, <1>5, CuPosition

(* No store waits and the AGU cannot send its load: the load queue is full *)
(* of loads that are safe, so the CU can read a value.                     *)
LEMMA LoadPipeFull ==
  ASSUME IInv, AguPosition, arrived = aguSt, Len(ldReqPipe) # 0
  PROVE  CanReadLoad \/ LoadsCanGo
<1>. SUFFICES ASSUME ~CanReadLoad, ~LoadsCanGo PROVE FALSE
  OBVIOUS
<1>1. /\ arrived \in Nat /\ cuSt \in Nat /\ arrived <= cuSt /\ Len(got) \in Nat /\ Len(got) <= returned
      /\ aguLd \in Nat /\ AcceptedLds <= aguLd /\ AcceptedLds \in Nat /\ returned \in Nat
      /\ returned <= AcceptedLds /\ Len(prog.loads) \in Nat /\ aguLd <= Len(prog.loads)
  <2>1. aguLd <= Len(prog.loads)
    BY DEF IInv, RequestsInOrder
  <2>2. QED
    BY <2>1, InvCounters
<1>2. ldQ[LdQSize].valid
  BY RequestIsTaken
<1>3. ldQ[1].valid /\ 1 \in 1 .. LdQSize
  BY <1>2, LoadWaits, QueueAssumption
<1>4. /\ ldQ[1].id \in 1 .. aguLd /\ ldQ[1].id \in 1 .. Len(prog.loads)
      /\ ldQ[1].tag = prog.loads[ldQ[1].id].tag /\ ldQ[1].port = prog.loads[ldQ[1].id].port
  <2>1. ldQ[1].id \in returned + 1 .. AcceptedLds
    BY <1>3, QueuedLoad
  <2>2. QED
    BY <1>1, <1>3, <2>1, QueuedLoad
<1>5. \A l \in 1 .. aguLd : prog.loads[l].tag <= arrived /\ prog.loads[l].tag \in Nat
  <2>1. TAKE l \in 1 .. aguLd
  <2>2. l \in 1 .. Len(prog.loads) /\ aguLd \in 1 .. Len(prog.loads) /\ l <= aguLd /\ aguLd > 0
    BY <1>1
  <2>3. prog.loads[l].tag <= prog.loads[aguLd].tag /\ prog.loads[l].tag \in Nat /\ prog.loads[aguLd].tag \in Nat
    BY <2>2, LoadTags
  <2>4. prog.loads[aguLd].tag <= aguSt
    BY <2>2 DEF AguPosition
  <2>5. QED
    BY <1>1, <2>3, <2>4
<1>6. CASE Len(got) + 1 <= returned
  <2>1. Len(got) + 1 \in 1 .. aguLd /\ Len(got) < Len(prog.loads)
    BY <1>1, <1>6
  <2>2. cuSt <= prog.loads[Len(got) + 1].tag
    BY <2>1 DEF IInv, CuInOrder
  <2>3. AtLoad(prog, cuSt, Len(got))
    BY <1>1, <1>5, <2>1, <2>2 DEF AtLoad
  <2>4. QED
    BY <1>6, <2>3, ValueIsThere
<1>7. CASE returned = Len(got)
  <2>1. Len(ldValPipe[ldQ[1].port]) = 0
    BY <1>4, <1>7, ProgOps, NoValueThere DEF IInv
  <2>2. ldQ[1].tag <= arrived
    BY <1>4, <1>5
  <2>3. QED
    BY <1>3, <2>1, <2>2, HeadIsAnswered
<1>8. QED
  BY <1>1, <1>6, <1>7

(* No store waits: the next request or its value can be sent.              *)
LEMMA NoStoreWaiting ==
  ASSUME IInv, AguInOrder, ~done, ~stQ[1].valid
  PROVE  AguCanGo \/ CuCanGo \/ StoresCanGo \/ LoadsCanGo \/ EndSeen(TRUE)
<1>. SUFFICES ASSUME ~AguCanGo, ~CuCanGo, ~StoresCanGo, ~LoadsCanGo, ~EndSeen(TRUE) PROVE FALSE
  OBVIOUS
<1>1. /\ arrived \in Nat /\ cuSt \in Nat /\ aguSt \in Nat /\ aguLd \in Nat /\ Len(got) \in Nat
      /\ arrived <= cuSt /\ Accepted \in Nat /\ arrived <= Accepted /\ Accepted + Len(stReqPipe) = aguSt
      /\ Len(got) <= aguLd /\ Len(stReqPipe) \in Nat /\ Len(ldReqPipe) \in Nat
      /\ cuSt <= Len(prog.stores) /\ Len(prog.stores) \in Nat /\ Len(prog.loads) \in Nat
  BY InvCounters DEF IInv, CuInOrder
<1>2. Accepted = arrived
  <2>1. \A i \in 1 .. StQSize : ~stQ[i].valid
    BY DEF StoresCanGo, Bubble, IInv, TypeOK
  <2>2. \A s \in arrived + 1 .. Accepted : FALSE
    BY <2>1 DEF IInv, StoreQueueHoldsPending, HoldsStores
  <2>3. QED
    BY <1>1, <2>2
<1>3. Len(stReqPipe) = 0
  <2>1. stReqPipe = <<>>
    BY DEF StoresCanGo, StReqTaken, StQShifts
  <2>2. QED
    BY <2>1
<1>4. aguSt = arrived
  BY <1>1, <1>2, <1>3
<1>5. Len(ldReqPipe) = 0
  BY <1>4, LoadPipeFull DEF AguInOrder, CuCanGo
<1>6. ~(AtLoad(prog, cuSt, Len(got)) /\ Len(got) + 1 <= aguLd)
  <2>1. SUFFICES ASSUME AtLoad(prog, cuSt, Len(got)), Len(got) + 1 <= aguLd PROVE FALSE
    OBVIOUS
  <2>2. aguLd \in 1 .. Len(prog.loads) /\ Len(got) + 1 \in 1 .. Len(prog.loads)
    BY <1>1, <2>1 DEF AtLoad, IInv, RequestsInOrder
  <2>3. prog.loads[Len(got) + 1].tag <= prog.loads[aguLd].tag /\ prog.loads[aguLd].tag \in Nat
    BY <2>1, <2>2, LoadTags
  <2>4. prog.loads[aguLd].tag <= aguSt /\ prog.loads[Len(got) + 1].tag = cuSt
    BY <1>1, <2>1, <2>2 DEF AguInOrder, AguPosition, AtLoad
  <2>5. cuSt <= arrived
    BY <1>1, <1>4, <2>3, <2>4
  <2>6. QED
    BY <2>1, <2>5, LoadMoves DEF CuCanGo
<1>7. MayRequest
  BY <1>1, <1>4, <1>6 DEF AguInOrder, Lockstep, MayRequest
<1>8. CASE AtLoad(prog, aguSt, aguLd)
  BY <1>5, <1>7, <1>8, QueueAssumption DEF AguCanGo, CanSendLoad
<1>9. CASE AtStore(prog, aguSt, aguLd)
  BY <1>3, <1>7, <1>9, QueueAssumption DEF AguCanGo, CanSendStore
<1>10. CASE AtEnd(prog, aguSt, aguLd)
  <2>1. cuSt = Len(prog.stores)
    BY <1>1, <1>4, <1>10 DEF AtEnd
  <2>2. ~AtStore(prog, cuSt, Len(got))
    BY <1>1, <2>1 DEF AtStore
  <2>3. ~AtLoad(prog, cuSt, Len(got))
    BY <1>1, <1>6, <1>10 DEF AtLoad, AtEnd
  <2>4. AtEnd(prog, cuSt, Len(got))
    BY <2>2, <2>3, CuPosition
  <2>5. cuEnded
    BY <2>4 DEF CuCanGo, CanEnd
  <2>6. endPipe # <<>>
    BY <2>5 DEF AguInOrder, EndsLast
  <2>7. QED
    BY <2>6 DEF EndSeen
<1>11. QED
  BY <1>8, <1>9, <1>10, AguAt DEF AguInOrder

LEMMA SomebodyGoesOn == IInv /\ SentValuesHeld /\ AguInOrder => NoDeadlock
BY StoreWaiting, NoStoreWaiting DEF NoDeadlock, AguInOrder

(* The AGU never passes the load it sends next, a coupled one is in step   *)
(* with the CU, and the end signal waits for the queue.                    *)
LEMMA AguIsInOrder == Spec => []AguInOrder
BY InitAguInOrder, StepAguInOrder, InvariantHolds, PTL DEF Spec

(* Until the queue leaves its loop (line 286), some kernel can go on, with *)
(* pipes of any depth and queues that shift only when their head leaves    *)
(* them (lines 432 and 451).                                               *)
THEOREM BramHasNoDeadlock == Spec => []NoDeadlock
BY SomebodyGoesOn, AguIsInOrder, SentValuesAreHeld, InvariantHolds, PTL
==============================================================================
