----------------------------- MODULE LSQBramInv -----------------------------
(***************************************************************************)
(* The inductive invariant behind the safety of the on-chip load-store     *)
(* queue, for programs whose store tags do not wrap.                       *)
(***************************************************************************)
EXTENDS LSQBram

ASSUME NoTagWrap == \A p \in Programs : Len(p.stores) < TagMod

(* The CU has not passed the load it has to read next, so no value of a    *)
(* store younger than an unread load can have arrived.                     *)
CuInOrder ==
  /\ cuSt <= Len(prog.stores) /\ Len(got) <= Len(prog.loads)
  /\ Len(got) < Len(prog.loads) => cuSt <= prog.loads[Len(got) + 1].tag
  /\ arrived <= cuSt

(* Request pipes hold the next requests of the program. *)
RequestsInOrder ==
  /\ aguSt <= Len(prog.stores) /\ aguLd <= Len(prog.loads)
  /\ Len(stReqPipe) <= aguSt /\ Len(ldReqPipe) <= aguLd
  /\ lastStReqTag = Accepted
  /\ \A i \in 1 .. Len(stReqPipe) :
       /\ stReqPipe[i].tag = Accepted + i
       /\ stReqPipe[i].addr = prog.stores[Accepted + i].addr
  /\ \A i \in 1 .. Len(ldReqPipe) :
       LET op == prog.loads[AcceptedLds + i] IN
       ldReqPipe[i] = [addr |-> op.addr, tag |-> op.tag, port |-> op.port, id |-> AcceptedLds + i]

(* A store value on its way carries its own tag and validity; a single     *)
(* value pipe holds exactly the values sent and not yet taken.             *)
GoodStVal(v) ==
  /\ v.value \in 1 .. cuSt
  /\ v.tag = v.value
  /\ v.valid = prog.stores[v.value].ok
StoreValuesPaired ==
  /\ \A k \in StPorts : \A i \in 1 .. Len(stValPipe[k]) : GoodStVal(stValPipe[k][i])
  /\ \A k \in StPorts : stValReadSucc[k] => GoodStVal(stValRead[k])
  /\ InlinedMux => nextStValTag = Tag(arrived + 1)
  /\ ~InlinedMux => /\ cuSt = arrived + Len(stValPipe[0])
                    /\ \A i \in 1 .. Len(stValPipe[0]) : stValPipe[0][i].value = arrived + i

(* A valid load entry is its program load; flags are set on valid entries  *)
(* only, and a value is latched at the head only.                          *)
IsLoadEntry(e) ==
  /\ e.valid => LET op == prog.loads[e.id] IN e.addr = op.addr /\ e.tag = op.tag /\ e.port = op.port
  /\ ~e.valid => ~e.isSafe /\ ~e.valValid
LoadEntriesWellFormed ==
  /\ \A i \in 1 .. LdQSize : IsLoadEntry(ldQ[i])
  /\ \A i \in 2 .. LdQSize : ~ldQ[i].valValid

(* Latched and returned values are the program-order ones. *)
ReturnedValuesCorrect ==
  /\ ldQ[1].valValid => IsSequentialValue(prog, ldVal, ldQ[1].id)
  /\ \A k \in LdPorts : \A i \in 1 .. Len(ldValPipe[k]) :
       IsSequentialValue(prog, ldValPipe[k][i].value, ldValPipe[k][i].id)

(* The inductive invariant. *)
IInv ==
  /\ TypeOK
  /\ CuInOrder
  /\ RequestsInOrder
  /\ StoreQueueHoldsPending
  /\ StoreValuesPaired
  /\ MemoryIsProgramPrefix
  /\ LoadQueueInOrder
  /\ LoadEntriesWellFormed
  /\ LoadValuesInOrder
  /\ SafeLoadHasNoHazard
  /\ ReturnedValuesCorrect
  /\ LoadsReturnProgramOrder

(* The AGU has not passed the load it sends next; one that is not decoupled *)
(* is at most one request ahead of the CU.  The end signal comes last.      *)
AguPosition ==
  /\ aguLd < Len(prog.loads) => aguSt <= prog.loads[aguLd + 1].tag
  /\ aguLd > 0 => prog.loads[aguLd].tag <= aguSt
Lockstep ==
  \/ prog.decoupled
  \/ aguSt = cuSt /\ aguLd = Len(got)
  \/ aguSt = cuSt + 1 /\ aguLd = Len(got) /\ AtStore(prog, cuSt, Len(got))
  \/ aguSt = cuSt /\ aguLd = Len(got) + 1 /\ AtLoad(prog, cuSt, Len(got))
EndsLast == cuEnded => AtEnd(prog, cuSt, Len(got)) /\ (done \/ endPipe # <<>>)
AguInOrder == AguPosition /\ Lockstep /\ EndsLast

(* A store value on its way, and where it waits. *)
WaitsAt(k, s) == arrived < s /\ prog.stores[s].port = k
IsHeldAt(k, s) ==
  \/ stValReadSucc[k] /\ stValRead[k].value = s
  \/ \E i \in 1 .. Len(stValPipe[k]) : stValPipe[k][i].value = s

(* The store values on their way: each waits at the port of its own store,  *)
(* once, behind the older ones, and none that was sent is missing.  The     *)
(* inlined multiplexer polls a port only when it holds no value of it, and  *)
(* lets go of a held one only when it passes it on (lines 308 to 342).      *)
SentValuesHeld ==
  /\ ~InlinedMux => \A k \in StPorts : ~stValReadSucc[k]
  /\ \A k \in StPorts :
       /\ stValReadSucc[k] => WaitsAt(k, stValRead[k].value)
       /\ \A i \in 1 .. Len(stValPipe[k]) :
            /\ WaitsAt(k, stValPipe[k][i].value)
            /\ stValReadSucc[k] => stValRead[k].value < stValPipe[k][i].value
            /\ \A j \in 1 .. Len(stValPipe[k]) :
                 i < j => stValPipe[k][i].value < stValPipe[k][j].value
  /\ \A s \in arrived + 1 .. cuSt : IsHeldAt(prog.stores[s].port, s)
=============================================================================
