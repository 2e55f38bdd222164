--------------------------- MODULE BoundedPrograms ---------------------------
(* The programs the model-checking instances run. *)
EXTENDS MemoryProgram

CONSTANTS MaxStores, MaxLoads, Poison,
          AguModes  \* values of decoupled

(* Every program of at most MaxStores stores (poisoned ones too if Poison) *)
(* and MaxLoads loads, up to the renaming of addresses and ports: the      *)
(* first load is to address 0, the first load and store use port 0.        *)
AllPrograms ==
  LET stores == UNION {[1 .. n -> [addr : 0 .. ArraySize - 1,
                                   ok : IF Poison THEN BOOLEAN ELSE {TRUE},
                                   port : 0 .. NumStVals - 1]] : n \in 0 .. MaxStores}
      loads == UNION {[1 .. n -> [addr : 0 .. ArraySize - 1, tag : 0 .. MaxStores,
                                  port : 0 .. NumLds - 1]] : n \in 0 .. MaxLoads}
  IN {p \in [stores : stores, loads : loads, decoupled : AguModes] :
        /\ \A l \in 1 .. Len(p.loads) :
             /\ p.loads[l].tag <= Len(p.stores)
             /\ l > 1 => p.loads[l - 1].tag <= p.loads[l].tag
        /\ p.loads # <<>> => p.loads[1].addr = 0 /\ p.loads[1].port = 0
        /\ p.stores # <<>> => p.stores[1].port = 0}

(* Those without poisoned stores, or with at most one load.                *)
PoisonsOrLoads ==
  {p \in AllPrograms : Len(p.loads) < 2 \/ \A i \in 1 .. Len(p.stores) : p.stores[i].ok}

(* The longest ones with at most one poisoned store, the others with any.  *)
FewPoisons ==
  {p \in AllPrograms :
     \/ Len(p.stores) < MaxStores
     \/ \E s \in 1 .. MaxStores : \A i \in 1 .. MaxStores : p.stores[i].ok \/ i = s}
==============================================================================
