--------------------------- MODULE SequentialMemory ---------------------------
(***************************************************************************)
(* What a load-store queue promises to the kernel it serves: the kernel's  *)
(* loads and stores behave as if they ran one at a time in program order   *)
(* on a plain array, whatever the hardware overlaps.                       *)
(***************************************************************************)
EXTENDS MemoryProgram

VARIABLES prog,  \* the program, chosen once
          mem,   \* the array
          st,    \* stores executed
          got    \* the values the loads returned, in program order

vars == <<prog, mem, st, got>>

Init ==
  /\ prog \in Programs
  /\ mem = [a \in Addr |-> 0]
  /\ st = 0
  /\ got = <<>>

Load ==
  /\ AtLoad(prog, st, Len(got))
  /\ got' = Append(got, mem[prog.loads[Len(got) + 1].addr])
  /\ UNCHANGED <<prog, mem, st>>

Store ==
  /\ AtStore(prog, st, Len(got))
  /\ st' = st + 1
  /\ mem' = IF prog.stores[st + 1].ok
            THEN [mem EXCEPT ![prog.stores[st + 1].addr] = st + 1]
            ELSE mem
  /\ UNCHANGED <<prog, got>>

Next == Load \/ Store

Spec == Init /\ [][Next]_vars
===============================================================================
