--------------------------- MODULE SequentialProgram ---------------------------
(***************************************************************************)
(* What compiled kernels promise: first the original function says which   *)
(* values each memory and pipe gets (`trace`, a sequence for each); then   *)
(* they are written (`effect`), each memory in its own order.              *)
(***************************************************************************)
EXTENDS Integers, Sequences, SequencesExt

VARIABLES trace, effect

Init == effect = trace /\ \A m \in DOMAIN trace : trace[m] = <<>>

\* s grows by one item at m.
Grows(s, t, m) ==
  /\ \A n \in DOMAIN s : IF n = m THEN Len(t[n]) = Len(s[n]) + 1 /\ IsPrefix(s[n], t[n])
                         ELSE t[n] = s[n]
Say == /\ \A m \in DOMAIN effect : effect[m] = <<>>
       /\ \E m \in DOMAIN trace : Grows(trace, trace', m)
       /\ UNCHANGED effect
Write == /\ \E m \in DOMAIN trace : /\ Grows(effect, effect', m)
                                    /\ IsPrefix(effect'[m], trace[m])
         /\ UNCHANGED trace
Next == Say \/ Write
Spec == Init /\ [][Next]_<<trace, effect>>
================================================================================
