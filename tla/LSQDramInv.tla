----------------------------- MODULE LSQDramInv -----------------------------
(***************************************************************************)
(* The inductive invariant behind the safety of the off-chip load-store    *)
(* queue.  Its core is timing: a write is at most StoreLatency iterations  *)
(* old while it waits in the store port, the commit queue remembers it for *)
(* at least as long, and a load is issued one iteration after it looked.   *)
(***************************************************************************)
EXTENDS LSQDram

------------------------------------------------------------------------------
(* Stores. *)

(* The CU has not passed the load it has to read next, so no value of a    *)
(* store younger than an unread load can have arrived.                     *)
CuInOrder ==
  /\ Len(got) <= Len(prog.loads)
  /\ Len(got) < Len(prog.loads) => cuSt <= prog.loads[Len(got) + 1].tag
  /\ arrived <= cuSt

(* The request pipe holds the next requests of the program. *)
StoreRequestsInOrder ==
  /\ Len(stReqPipe) <= aguSt
  /\ lastStReqTag = Accepted
  /\ \A i \in 1 .. Len(stReqPipe) :
       stReqPipe[i] = [addr |-> prog.stores[Accepted + i].addr, tag |-> Accepted + i]

(* The valid entries of the allocation queue are the accepted stores that  *)
(* wait for a value, each once, oldest first.                              *)
HoldsStores(q, lo, hi) ==
  /\ \A i \in 1 .. StQSize :
       IF q[i].valid THEN q[i].tag \in lo + 1 .. hi /\ q[i].addr = prog.stores[q[i].tag].addr
                     ELSE q[i].addr = InvalidAddr
  /\ \A i, j \in 1 .. StQSize : i < j /\ q[i].valid /\ q[j].valid => q[i].tag < q[j].tag
  /\ \A s \in lo + 1 .. hi : \E i \in 1 .. StQSize : q[i].valid /\ q[i].tag = s
StoreQueueHoldsPending == arrived <= Accepted /\ HoldsStores(stQ, arrived, Accepted)

(* A store value on its way carries its own tag and validity; a single     *)
(* value pipe holds exactly the values sent and not yet taken.             *)
GoodStVal(v) ==
  /\ v.value \in 1 .. cuSt
  /\ v.tag = v.value
  /\ v.valid = prog.stores[v.value].ok
StoreValuesPaired ==
  /\ \A k \in StPorts : \A i \in 1 .. Len(stValPipe[k]) : GoodStVal(stValPipe[k][i])
  /\ \A k \in StPorts : stValReadSucc[k] => GoodStVal(stValRead[k])
  /\ ValueMux => nextStValTag = arrived + 1
  /\ ~ValueMux => /\ cuSt = arrived + Len(stValPipe[0])
                  /\ \A i \in 1 .. Len(stValPipe[0]) : stValPipe[0][i].value = arrived + i

(* v is a store whose value has arrived and went to address a. *)
IsWrite(v, a) == v \in 1 .. arrived /\ Writes(prog, v, a)

(* The commit queue holds arrived stores, oldest first; a store to the      *)
(* address of an entry that arrived after it is further back.               *)
CommitQueueIsRecent ==
  \A i \in 1 .. CommitQSize : commitQ[i].addr # InvalidAddr =>
    /\ IsWrite(commitQ[i].value, commitQ[i].addr)
    /\ \A s \in commitQ[i].value + 1 .. arrived : Writes(prog, s, commitQ[i].addr) =>
         \E j \in i + 1 .. CommitQSize : commitQ[j] = [addr |-> commitQ[i].addr, value |-> s]

(* The store port holds arrived stores, oldest first, none older than the   *)
(* memory promises; one that is younger than the commit queue is long is    *)
(* still in it.                                                             *)
Remembered(w) ==
  \E j \in CommitQSize - w.age .. CommitQSize : commitQ[j] = [addr |-> w.addr, value |-> w.value]
StorePortInOrder ==
  /\ \A i \in 1 .. Len(stPortPipe) :
       /\ IsWrite(stPortPipe[i].value, stPortPipe[i].addr)
       /\ stPortPipe[i].age < CommitQSize => Remembered(stPortPipe[i])
  /\ \A i, j \in 1 .. Len(stPortPipe) : i < j => stPortPipe[i].value < stPortPipe[j].value

------------------------------------------------------------------------------
(* Loads. *)

(* The loads of port k after load lo, up to load hi. *)
PortLoads(k, lo, hi) == {l \in lo + 1 .. hi : prog.loads[l].port = k}

(* A pipe, a queue or a part of a pipe that holds the given loads in order. *)
Ids(s) == {s[i].id : i \in 1 .. Len(s)}
Ascending(s) == \A i, j \in 1 .. Len(s) : i < j => s[i].id < s[j].id
QueueIds(q) == {q[i].id : i \in {j \in 1 .. LdQSize : q[j].search}}
QueueAscending(q) ==
  \A i, j \in 1 .. LdQSize : i < j /\ q[i].search /\ q[j].search => q[i].id < q[j].id
Selected(s, b) == {s[i].id : i \in {j \in 1 .. Len(s) : s[j].bypass = b}}

(* The loads of a port that the CU has not read are, from the oldest to the *)
(* youngest, in its value pipe, with its load mux, in its load queue and in *)
(* its request pipe.                                                        *)
LoadsHeld(k, r, i, a) ==
  /\ Len(got) <= r /\ r <= i /\ i <= a /\ a <= aguLd
  /\ Ascending(ldValPipe[k]) /\ Ids(ldValPipe[k]) = PortLoads(k, Len(got), r)
  /\ Ascending(selPipe[k]) /\ Ids(selPipe[k]) = PortLoads(k, r, i)
  /\ QueueAscending(ldQ[k]) /\ QueueIds(ldQ[k]) = PortLoads(k, i, a)
  /\ Ascending(ldReqPipe[k]) /\ Ids(ldReqPipe[k]) = PortLoads(k, a, aguLd)
LoadsInOrder == \A k \in LdPorts : \E r, i, a \in 0 .. aguLd : LoadsHeld(k, r, i, a)

(* Each load mux finds the values it selects where it looks for them, in    *)
(* the order it asks for them.                                              *)
Routes(sel, bypass, memVal, addr) ==
  /\ Ascending(bypass) /\ Ids(bypass) = Selected(sel, TRUE)
  /\ Ascending(memVal) /\ Ascending(addr) /\ Ids(memVal) \cup Ids(addr) = Selected(sel, FALSE)
  /\ \A l \in Ids(memVal), m \in Ids(addr) : l < m
RoutesInOrder ==
  \A k \in LdPorts : Routes(selPipe[k], bypassPipe[k], memValPipe[k], addrPipe[k])

(* Requests, entries and addresses are those of their loads.                *)
IsRequest(r) == r.addr = prog.loads[r.id].addr /\ r.tag = prog.loads[r.id].tag
RequestsMatchLoads ==
  \A k \in LdPorts :
    /\ \A i \in 1 .. Len(ldReqPipe[k]) : IsRequest(ldReqPipe[k][i])
    /\ \A i \in 1 .. LdQSize : ldQ[k][i].search => IsRequest(ldQ[k][i])
    /\ \A i \in 1 .. Len(addrPipe[k]) : addrPipe[k][i].addr = prog.loads[addrPipe[k][i].id].addr

(* No store of which the value is still to come is in the way of load l.    *)
Clear(l) == \A s \in arrived + 1 .. prog.loads[l].tag : prog.stores[s].addr # prog.loads[l].addr
FetchedLoadsAreClear ==
  \A k \in LdPorts : \A i \in 1 .. Len(addrPipe[k]) : Clear(addrPipe[k][i].id)

(* In this iteration port k has still to run its load stage. *)
Upcoming(k) == stage \in 1 .. k + 1

(* A safe load was checked in the latest load stage of its port.  It either *)
(* took the program-order value then, or whatever the store port held of    *)
(* its address was about to land, and has by the time the port runs again.  *)
ReadyToIssue(k, e) ==
  /\ e.bypass # NoBypass => IsSequentialValue(prog, e.bypass, e.id)
  /\ e.bypass = NoBypass =>
       \A j \in 1 .. Len(stPortPipe) : stPortPipe[j].addr = e.addr =>
         ~Upcoming(k) /\ stPortPipe[j].age >= StoreLatency
SafeLoadsAreReady ==
  \A k \in LdPorts, i \in 1 .. LdQSize :
    ldQ[k][i].search /\ ldQ[k][i].isSafe => i \in {1, 2} /\ ReadyToIssue(k, ldQ[k][i])

(* The values on their way to the CU are the program-order ones. *)
ValuesCorrect(s) == \A i \in 1 .. Len(s) : IsSequentialValue(prog, s[i].value, s[i].id)
LoadValuesCorrect ==
  \A k \in LdPorts :
    ValuesCorrect(bypassPipe[k]) /\ ValuesCorrect(memValPipe[k]) /\ ValuesCorrect(ldValPipe[k])

(* The inductive invariant. *)
IInv ==
  /\ TypeOK
  /\ CuInOrder
  /\ StoreRequestsInOrder
  /\ StoreQueueHoldsPending
  /\ StoreValuesPaired
  /\ CommitQueueIsRecent
  /\ StorePortInOrder
  /\ MemoryIsProgramPrefix
  /\ LoadsInOrder
  /\ RoutesInOrder
  /\ RequestsMatchLoads
  /\ SafeLoadHasNoHazard
  /\ FetchedLoadsAreClear
  /\ MemoryReadsAreSettled
  /\ SafeLoadsAreReady
  /\ LoadValuesCorrect
  /\ LoadsReturnProgramOrder

------------------------------------------------------------------------------
(* The AGU has not passed the load it sends next, and no load it sent is    *)
(* before a store it has still to send; a coupled AGU is at most the one    *)
(* operation ahead that the CU does next; the CU sends the end signal last, *)
(* and the loop that has seen it is in its last iteration.                  *)
AguPosition ==
  /\ aguLd < Len(prog.loads) => aguSt <= prog.loads[aguLd + 1].tag
  /\ aguLd > 0 => prog.loads[aguLd].tag <= aguSt
Lockstep ==
  \/ prog.decoupled
  \/ aguSt = cuSt /\ aguLd = Len(got)
  \/ aguSt = cuSt + 1 /\ aguLd = Len(got) /\ AtStore(prog, cuSt, Len(got))
  \/ aguSt = cuSt /\ aguLd = Len(got) + 1 /\ AtLoad(prog, cuSt, Len(got))
EndsLast ==
  /\ cuEnded => AtEnd(prog, cuSt, Len(got))
  /\ cuEnded <=> done \/ ending \/ endPipe # <<>>
  /\ done => stage = 0
  /\ ending => done \/ stage # 0
AguInOrder == AguPosition /\ Lockstep /\ EndsLast

(* A store value on its way, and where it waits. *)
WaitsAt(k, s) == arrived < s /\ prog.stores[s].port = k
IsHeldAt(k, s) ==
  \/ stValReadSucc[k] /\ stValRead[k].value = s
  \/ \E i \in 1 .. Len(stValPipe[k]) : stValPipe[k][i].value = s

(* The store values on their way: each waits at the port of its own store,  *)
(* once, behind the older ones, and none that was sent is missing.  The     *)
(* store value multiplexer polls a port only when it holds no value of it,  *)
(* and lets go of a held one only when it passes it on (lines 223 to 237).  *)
SentValuesHeld ==
  /\ ~ValueMux => \A k \in StPorts : ~stValReadSucc[k]
  /\ \A k \in StPorts :
       /\ stValReadSucc[k] => WaitsAt(k, stValRead[k].value)
       /\ \A i \in 1 .. Len(stValPipe[k]) :
            /\ WaitsAt(k, stValPipe[k][i].value)
            /\ stValReadSucc[k] => stValRead[k].value < stValPipe[k][i].value
            /\ \A j \in 1 .. Len(stValPipe[k]) :
                 i < j => stValPipe[k][i].value < stValPipe[k][j].value
  /\ \A s \in arrived + 1 .. cuSt : IsHeldAt(prog.stores[s].port, s)
==============================================================================
