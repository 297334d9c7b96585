--------------------------- MODULE MCEvolutionLoop ---------------------------
(* Evidence: a clear win with and without a failure left in the changed     *)
(* channel, a gain whose cause is unclear, and a loss that can be replanned *)
(* or, when it is localized, revised.  Decisive evidence and 22 units are   *)
(* enough for a candidate to replace a champion that replaced v0.           *)
EXTENDS EvolutionLoop

Win     == {"recovered", "gain"}
PartWin == {"recovered", "gain", "localized"}
Unclear == {"uncertain", "gain"}
Loss    == {"regressed", "localized", "replan"}
NoGain  == {"recovered"}

AllEvidence == {Win, PartWin, Unclear, Loss, NoGain}
Decisive    == {Win, Unclear, Loss}
=============================================================================
