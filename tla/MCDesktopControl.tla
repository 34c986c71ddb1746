------------------------- MODULE MCDesktopControl -------------------------
(* Model values and symmetry for checking DesktopControl with TLC. *)
EXTENDS DesktopControl, TLC

CONSTANTS c1, c2, g1, g2, w1, w2

ObserveOnly == [c \in Commands |-> "observe"]
NativeAndDryRun == [c \in Commands |-> IF c = c1 THEN "native" ELSE "dry_run"]

Symmetric == Permutations(Commands) \cup Permutations(Grants) \cup Permutations(Workers)
=============================================================================
