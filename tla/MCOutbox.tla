------------------------------ MODULE MCOutbox ------------------------------
(***************************************************************************)
(* Small instances of Outbox for TLC.                                      *)
(***************************************************************************)
EXTENDS OutboxProps, TLC

CONSTANTS w1, w2, e1, e2, e3, c1, c2

Symmetry == Permutations(Workers)

(* A movement with its two events, and a change with one.                  *)
TwoChanges == [c \in Changes |-> IF c = c1 THEN {e1, e2} ELSE {e3}]
OneChange == [c \in Changes |-> {e1, e2}]
OneEvent == [c \in Changes |-> {e1}]
=============================================================================
