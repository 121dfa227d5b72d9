----------------------------- MODULE MCForward ------------------------------
(* The frames held for a path and the cache of group frames share no state: *)
(* the states of one run are those of the one and those of the other.       *)
EXTENDS HeldFrames, SeenFrames, TLC

VARIABLE part

\* The part that stands still has one state; the clock starts with the mesh and wraps.
ForwardInit == /\ HeldInit /\ SeenInit
               /\ part \in {"held", "seen"} /\ clock = 0

HeldPart == part = "held" /\ HeldNext /\ UNCHANGED <<part, seenvars>>
SeenPart == part = "seen" /\ SeenNext /\ UNCHANGED <<part, heldvars>>

ForwardSpec == ForwardInit /\ [][HeldPart \/ SeenPart]_<<part, heldvars, seenvars>>

HeldSymmetry == Permutations(Targets)
=============================================================================
