---------------------------- MODULE MCTrialHost ----------------------------
(* Two processes that share one slot.  Two trials at once make keys and the *)
(* slot wait for each other; three calls let a process get the pid of a     *)
(* dead one while a third call is removing what the dead one left.  Two     *)
(* calls meet a second mishap, such as a removal that fails after a crash.  *)
EXTENDS TrialHost

CONSTANTS p1, p2, t1, t2

OneSlot    == [p \in Processes |-> 1]
Once       == {<<{t1, t2}, {t1}>>, <<{t1}, {t1}, {t1}>>}
Twice      == {<<{t1}, {t1}>>}
Batches    == Once \union Twice
Bounded    == [w \in Batches |-> IF w \in Twice THEN 2 ELSE 1]
BothShare  == [p \in Processes |-> "TRAIN"]
OneShares  == [p \in Processes |-> IF p = p1 THEN "TRAIN" ELSE "TEST"]
BothOrOne  == {BothShare, OneShares}
=============================================================================
