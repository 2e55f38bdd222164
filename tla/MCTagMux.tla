------------------------------- MODULE MCTagMux -------------------------------
(* TagMux on small instances: several writers and as many tags as requests;  *)
(* one writer, tags that wrap, and a queue that may stop early.              *)
EXTENDS TagMuxInv

Small ==
  {[requests |-> 4, singleWriter |-> FALSE, earlyStop |-> FALSE],
   [requests |-> 6, singleWriter |-> TRUE, earlyStop |-> TRUE]}
==============================================================================
