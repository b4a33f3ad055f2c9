----------------------------- MODULE MCWallets ------------------------------
(***************************************************************************)
(* A small instance of Wallets for TLC: a machine word in which 200 + 100  *)
(* overflows.                                                              *)
(***************************************************************************)
EXTENDS WalletsProps, TLC

CONSTANTS o1, o2, r1, k1   \* openings, an auditor, a client

Symmetry == Permutations(Openings)

Request(initialBalance) ==
    [player |-> "alice", currency |-> "BRL", initialBalance |-> initialBalance]
Decimal(integer, fraction) == [negative |-> FALSE, integer |-> integer, fraction |-> fraction]

MCMaxInt == 299

(* A player asks twice, for an empty wallet, for one with money, or for    *)
(* more than the word holds: 6 * 100 wraps to 0.                           *)
MCRequests == {Request(Decimal(0, 0)), Request(Decimal(2, 0)), Request(Decimal(6, 0))}

(* All entries at once, a page whose limit cannot be incremented, and a    *)
(* limit that has wrapped and gives way to the default: one by one.        *)
MCLimits == {MCMaxInt - 1, MCMaxInt, MCMaxInt + 1}
=============================================================================
