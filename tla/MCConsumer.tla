----------------------------- MODULE MCConsumer -----------------------------
(***************************************************************************)
(* Small instances of Consumer for TLC.                                    *)
(***************************************************************************)
EXTENDS ConsumerProps, TLC

CONSTANTS s1, s2, m1, m2, m3

Symmetry == Permutations(Consumers)
=============================================================================
