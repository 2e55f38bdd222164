------------------------------ MODULE TagMuxInv ------------------------------
(***************************************************************************)
(* The inductive invariant behind TagMux's order: what the multiplexer has *)
(* forwarded, what its ports hold, and why a tag identifies a request      *)
(* although tags wrap.                                                     *)
(***************************************************************************)
EXTENDS TagMux

(* Registers start empty. Tags never wrap, or one kernel sends all requests *)
(* and there are more tags than the other ports can hold: a request held in *)
(* a port's register is at most that far ahead of the one that is next.     *)
ASSUME TagsAssumption ==
  /\ InitSucc = {FALSE}
  /\ \A p \in Programs :
       \/ p.requests <= TagMod
       \/ p.singleWriter /\ TagMod > (NumPorts - 1) * (InDepth + 1)

Written == Len(taken) + Len(outPipe)
Forwarded == Written + Len(toWrite)
Labelled(n) == [id |-> n, port |-> portOf[n]]

Typed == TypeOK /\ program \in Programs /\ endPipe \in Seq(BOOLEAN)

(* A writer skips none of its requests. *)
SentInOrder ==
  \A n \in sent, m \in Reqs :
    m < n /\ (program.singleWriter \/ portOf[m] = portOf[n]) => m \in sent

(* What has been forwarded is the first requests, in order. *)
ForwardedInOrder ==
  /\ Forwarded <= NumReqs
  /\ \A i \in 1 .. Forwarded : i \in sent
  /\ \A i \in 1 .. Len(taken) : taken[i] = Labelled(i)
  /\ \A i \in 1 .. Len(outPipe) : outPipe[i] = Labelled(Len(taken) + i)
  /\ \A i \in 1 .. Len(toWrite) : toWrite[i] = Labelled(Written + i)

(* What a port holds was sent to it, is still to be forwarded, and ascends. *)
Awaits(k, r) ==
  r.id \in sent /\ portOf[r.id] = k /\ r.id > Forwarded /\ r.tag = TagOf(r.id)
PortsHoldTheirOwn ==
  \A k \in Ports :
    /\ readSucc[k] => Awaits(k, reg[k])
    /\ \A i \in 1 .. Len(inPipe[k]) :
         /\ Awaits(k, inPipe[k][i])
         /\ readSucc[k] => reg[k].id < inPipe[k][i].id
         /\ \A j \in 1 .. Len(inPipe[k]) : i < j => inPipe[k][i].id < inPipe[k][j].id

(* Nothing that was sent is lost. *)
IsHeld(k, n) ==
  \/ readSucc[k] /\ reg[k].id = n
  \/ \E i \in 1 .. Len(inPipe[k]) : inPipe[k][i].id = n
NothingIsLost == \A n \in sent : n > Forwarded => IsHeld(portOf[n], n)

MuxOrder ==
  /\ Typed
  /\ SentInOrder
  /\ ForwardedInOrder
  /\ PortsHoldTheirOwn
  /\ NothingIsLost
  /\ nextTag = TagOf(Written + 1)

(* The end signal is sent once, by a queue that has stopped. *)
EndsInOrder ==
  /\ stopped <=> endSignal \/ endPipe # <<>>
  /\ done => endSignal
  /\ stopped /\ ~program.earlyStop => Len(taken) = NumReqs

MuxInv == MuxOrder /\ EndsInOrder
==============================================================================
