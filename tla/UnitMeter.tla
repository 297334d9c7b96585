------------------------------ MODULE UnitMeter ------------------------------
(* The abstract promise of the creation ledger: units are held before they  *)
(* are spent, held units become spent or free again, and held and spent     *)
(* units together stay within the capacity.                                 *)
EXTENDS Integers

CONSTANT capacity

VARIABLES held, spent

Init == held = 0 /\ spent = 0

Hold ==
  /\ held' \in (held + 1)..(capacity - spent)
  /\ UNCHANGED spent

(* Units reused from another run are spent without being held first.        *)
SpendDirectly ==
  /\ spent' \in (spent + 1)..(capacity - held)
  /\ UNCHANGED held

(* Held units are spent or set free; a recovery may do both at once.        *)
Release ==
  /\ held' \in 0..held
  /\ spent' \in spent..(spent + held - held')

(* An audited correction gives spent units back.                            *)
Correct ==
  /\ spent' \in 0..spent
  /\ UNCHANGED held

Next == Hold \/ SpendDirectly \/ Release \/ Correct

Spec == Init /\ [][Next]_<<held, spent>>
=============================================================================
