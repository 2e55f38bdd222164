------------------------------ MODULE MCLSQDram ------------------------------
(* LSQDram on bounded programs. *)
EXTENDS LSQDramInv, BoundedPrograms

(* A store, a load of port 1 that needs it, then loads of port 0 that do not *)
(* (four: two more than the pipes of their port hold).                       *)
OneLoadAheadOfOther ==
  {[decoupled |-> TRUE,
    stores |-> <<[addr |-> 0, ok |-> TRUE, port |-> 0]>>,
    loads |-> <<[addr |-> 0, tag |-> 1, port |-> 1]>> \o
              [i \in 1 .. 4 |-> [addr |-> 1, tag |-> 1, port |-> 0]]]}

(* Three stores, and loads that are free of them (five: two more than the   *)
(* pipes of their port hold) but younger than the first two, for an AGU     *)
(* that runs ahead and one that does not.                                   *)
LoadsAheadOfStores ==
  [decoupled : AguModes,
   stores : {[i \in 1 .. 3 |-> [addr |-> 0, ok |-> TRUE, port |-> 0]]},
   loads : {[i \in 1 .. 5 |-> [addr |-> 1, tag |-> 2, port |-> 0]]}]

PoisonsOrLoadsAhead == PoisonsOrLoads \cup LoadsAheadOfStores
==============================================================================
