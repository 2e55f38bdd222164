--------------------------- MODULE KernelExecution ---------------------------
(***************************************************************************)
(* What a kernel does when it runs, one operation at a time. Values are    *)
(* symbolic: a value is the instruction that made it, a version (of the    *)
(* memory a load read, of the data of a pipe) and the operands, so that    *)
(* two values are equal only if every program gives them the same data.    *)
(*                                                                         *)
(* A thread is a record of the kernel it runs: block and place in it       *)
(* (at), values of the instructions (reg), the tags it keeps for each      *)
(* queue (st, ld), the predicate it was last sent (pred), done.            *)
(***************************************************************************)
EXTENDS PipeDeduplication

Constant == <<0, 0, {}>>
Undef    == <<-1, 0, {}>>   \* depends on something the kernel does not have
Invalid  == <<-2, 0, {}>>   \* what a poison sends in place of a value
Awaited  == <<-3, 0, {}>>   \* a store's value before it arrives

Made(i, version, operands) == IF Undef \in operands THEN Undef ELSE <<i, version, operands>>
Memory(f, m) == -10 - Min({i \in DOMAIN f.base : f.base[i] = m})
Value(t, v) == IF v = 0 THEN Constant ELSE IF v \in DOMAIN t.reg THEN t.reg[v] ELSE Undef
Operands(f, t, v) == {Value(t, u) : u \in f.uses[v]}
Set(t, v, value) == IF v = 0 THEN t ELSE [t EXCEPT !.reg = (v :> value) @@ @]

Written(f, m) == \E i \in DOMAIN f.kind : IsStore(f, i) /\ f.base[i] = m
\* Operations that no one else sees or changes the outcome of.
IsLocal(f, o) ==
  /\ o.do = "instr"
  /\ \/ f.kind[o.i] \in {"phi", "op"}
     \/ IsLoad(f, o.i) /\ ~ Written(f, f.base[o.i])
Compute(f, t, o) == IF IsPhi(f, o.i) THEN t ELSE Set(t, o.i, Made(o.i, 0, Operands(f, t, o.i)))

\* Runs on to the next operation that is not local, or the end of the block.
RunOn(f, k, t) ==
  LET ops  == k.ops[t.block]
      stop == {n \in t.at .. Len(ops) : ~ IsLocal(f, ops[n])}
      next == IF stop = {} THEN Len(ops) + 1 ELSE Min(stop)
  IN  FoldLeft(LAMBDA u, o : Compute(f, u, o), [t EXCEPT !.at = next], SubSeq(ops, t.at, next - 1))
After(f, k, t) == RunOn(f, k, [t EXCEPT !.at = @ + 1])

\* The phis of a block take their values together, on entry.
Enter(f, k, t, to) ==
  LET taken(i) == IF t.block \in DOMAIN k.incoming[i] THEN Value(t, k.incoming[i][t.block]) ELSE Undef
  IN  RunOn(f, k, [t EXCEPT !.block = to, !.at = 1, !.reg = [i \in PhisOf(k, {to}) |-> taken(i)] @@ @])

Started(f, k, queues) ==
  RunOn(f, k, [block |-> Entry(f), at |-> 1, reg |-> <<>>, st |-> [q \in queues |-> 0],
               ld |-> [q \in queues |-> 0], pred |-> EXECUTE, done |-> FALSE])
AtBranch(k, t) == ~ t.done /\ t.at > Len(k.ops[t.block])
Upcoming(k, t) == k.ops[t.block][t.at]
Does(k, t, what) == ~ t.done /\ ~ AtBranch(k, t) /\ Upcoming(k, t).do \in what

\* Where a branch may go: decided by a predicate, or by the program's choice
\* for the values tested; a kernel that tests other values may go anywhere.
Tested(f, t) == <<t.block, Operands(f, t, Terminator(t.block))>>
Outcomes(f, k, t, choice) ==
  LET to == k.succ[t.block]
  IN  IF Len(to) < 2 THEN ToSet(to)
      ELSE IF t.block \in DOMAIN k.test THEN {to[IF t.pred = k.test[t.block] THEN 1 ELSE 2]}
      ELSE IF Tested(f, t) \in DOMAIN choice THEN {to[choice[Tested(f, t)]]}
      ELSE ToSet(to)

-----------------------------------------------------------------------------
(* Accesses outside of queues and operations on the program's own pipes:   *)
(* `world` holds what each memory and pipe was sent, in order, and the     *)
(* number of items received from each pipe.                                *)

StoredValue(f, i) == LET rest == f.uses[i] \ {f.ptr[i]} IN IF rest = {} THEN 0 ELSE CHOOSE v \in rest : TRUE
World(f) == [sent |-> [m \in {f.base[i] : i \in DOMAIN f.base} |-> <<>>],
             received |-> [p \in UserPipes(f, "recv") |-> 0]]
Put(world, m, address, value) == [world EXCEPT !.sent[m] = Append(@, <<address, value>>)]
\* The stores a load may see: of a queue's memory all before it, else those to
\* its address.
Version(world, queued, m, address) ==
  Len(SelectSeq(world.sent[m], LAMBDA s : m \in queued \/ s[1] = address))
AfterAccess(f, world, queued, t, i) ==
  LET m == f.base[i]
  IN  CASE IsStore(f, i)        -> [t |-> t, world |-> Put(world, m, Value(t, f.ptr[i]), Value(t, StoredValue(f, i)))]
        [] f.kind[i] = "send"   -> [t |-> t, world |-> Put(world, m, Constant, Value(t, StoredValue(f, i)))]
        [] f.kind[i] = "recv"   -> [t |-> Set(t, i, <<i, world.received[m] + 1, {}>>),
                                    world |-> [world EXCEPT !.received[m] = @ + 1]]
        [] OTHER                -> [t |-> Set(t, i, Made(Memory(f, m), Version(world, queued, m, Value(t, f.ptr[i])), {Value(t, f.ptr[i])})),
                                    world |-> world]

-----------------------------------------------------------------------------
(* Pipes between kernels. A message has a value, a tag and, for a load     *)
(* request, the tag of the last store before it.                           *)

Sends == {"ldReq", "stReq", "stVal", "poison", "value", "pred", "sendTag", "end", "stray"}
Receives == {"read", "predRead", "recvTag"}
Message(v, tag, st) == [v |-> v, tag |-> tag, st |-> st]

\* A store counts before it is sent, a load and a tag after.
Counted(t, o) ==
  CASE o.do = "ldReq" -> [t EXCEPT !.ld[o.q] = @ + o.n]
    [] o.do \in {"stReq", "stVal", "poison", "sendTag"} -> [t EXCEPT !.st[o.q] = @ + o.n]
    [] OTHER -> t
\* A poison has no valid bit, whatever value it carries.
SlipPoisonIsValid(f, t, o) == Value(t, StoredValue(f, o.i))
PoisonValue(f, t, o) == Invalid
SentBy(f, t, o) ==
  CASE o.do = "ldReq"   -> Message(Value(t, f.ptr[o.i]), t.ld[o.q], t.st[o.q])
    [] o.do = "stReq"   -> Message(Value(t, f.ptr[o.i]), t.st[o.q] + o.n, 0)
    [] o.do = "stVal"   -> Message(Value(t, StoredValue(f, o.i)), t.st[o.q] + o.n, 0)
    [] o.do = "poison"  -> Message(PoisonValue(f, t, o), t.st[o.q] + o.n, 0)
    [] o.do = "value"   -> Message(Value(t, o.i), 0, 0)
    [] o.do = "pred"    -> Message(Constant, o.n, 0)
    [] o.do = "sendTag" -> Message(Constant, t.st[o.q], 0)
    [] OTHER            -> Message(Constant, 0, 0)
ReceivedBy(t, o, m) ==
  CASE o.do = "read"     -> Set(t, o.i, m.v)
    [] o.do = "predRead" -> [t EXCEPT !.pred = m.tag]
    [] o.do = "recvTag"  -> [t EXCEPT !.st[o.q] = m.tag]
=============================================================================
