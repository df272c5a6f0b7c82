---------------------------- MODULE MCOrderFills ----------------------------
(* Small instances of OrderFills for TLC. *)
EXTENDS OrderFills, TLC

MCSymmetry == Permutations(Orders)

\* What adding two floats may be off by: nothing, or an ulp.
MCExact == {0}
MCUlp == {-1, 0, 1}
=============================================================================
