---------------------------- MODULE MemoryProgram ----------------------------
(***************************************************************************)
(* The memory operations one kernel performs on one array, in program      *)
(* order.  The passes give every store the next store tag (1, 2, ...) and  *)
(* every load the tag of the youngest store before it (0 when there is     *)
(* none), so the two sequences below fix the interleaving: load l runs     *)
(* after store loads[l].tag and before store loads[l].tag + 1.             *)
(*                                                                         *)
(* A store s writes the value s (every store is told apart), unless it is  *)
(* poisoned (ok = FALSE): its address was allocated on a speculated path   *)
(* that was not taken, and it must leave memory alone.                     *)
(*                                                                         *)
(* The analysis finds out whether addresses depend on loaded values; when  *)
(* they do not, the address generation is decoupled: it runs ahead of the  *)
(* computation.                                                            *)
(***************************************************************************)
EXTENDS Integers, Sequences, FiniteSets

CONSTANTS ArraySize,  \* number of words of the array
          NumLds,     \* load ports (one per load instruction)
          NumStVals,  \* store value ports (one per store instruction)
          Programs    \* the programs Init chooses from

Addr == 0 .. ArraySize - 1
LdPorts == 0 .. NumLds - 1
StPorts == 0 .. NumStVals - 1

StoreOp == [addr : Addr, ok : BOOLEAN, port : StPorts]
LoadOp == [addr : Addr, tag : Nat, port : LdPorts]

(* Tags are given in program order: they never decrease from load to load  *)
(* and never exceed the number of stores.                                  *)
WellFormed(p) ==
  /\ p.decoupled \in BOOLEAN
  /\ p.stores \in Seq(StoreOp)
  /\ p.loads \in Seq(LoadOp)
  /\ \A l \in 1 .. Len(p.loads) : p.loads[l].tag <= Len(p.stores)
  /\ \A l, m \in 1 .. Len(p.loads) : l <= m => p.loads[l].tag <= p.loads[m].tag

ASSUME SizesAssumption ==
  /\ ArraySize \in Nat \ {0}
  /\ NumLds \in Nat \ {0}
  /\ NumStVals \in Nat \ {0}

ASSUME ProgramsAssumption == \A p \in Programs : WellFormed(p)

------------------------------------------------------------------------------
(* The position (st, ld) in program p: st stores and ld loads have run. *)
AtLoad(p, st, ld) == ld < Len(p.loads) /\ p.loads[ld + 1].tag = st
AtStore(p, st, ld) == st < Len(p.stores) /\ ~AtLoad(p, st, ld)
AtEnd(p, st, ld) == st = Len(p.stores) /\ ld = Len(p.loads)

Writes(p, s, a) == p.stores[s].ok /\ p.stores[s].addr = a

(* v is what address a holds once the first t stores have run: the youngest *)
(* of them that writes a, or 0, the initial content.                        *)
IsLatest(p, v, a, t) ==
  /\ v \in 0 .. t
  /\ v # 0 => Writes(p, v, a)
  /\ \A s \in v + 1 .. t : ~Writes(p, s, a)

(* What load l returns when the operations run one at a time in order. *)
IsSequentialValue(p, v, l) == IsLatest(p, v, p.loads[l].addr, p.loads[l].tag)
==============================================================================
