------------------------ MODULE MCPendingReferences -------------------------
(***************************************************************************)
(* Small instances of PendingReferences for TLC.                           *)
(***************************************************************************)
EXTENDS PendingReferencesProps, TLC

CONSTANTS a1, a2, a3, r1, r2   \* attempts and resolvers

Symmetry == Permutations(Attempts) \cup Permutations(Resolvers)

Command(kind, ext, amount, reference) ==
    [provider |-> "p", ext |-> ext, key |-> ext, player |-> "alice", wallet |-> "w",
     round |-> "r1", kind |-> kind, amount |-> amount, currency |-> "BRL",
     ref |-> reference, msg |-> None]

Bet1 == Command("BET", "bet1", 2, None)
Win1 == Command("WIN", "win1", 2, None)
Refund1 == Command("REFUND", "refund1", 2, "bet1")
UndoWin == Command("ROLLBACK", "undo1", 2, "win1")
UndoWinAgain == Command("ROLLBACK", "undo2", 2, "win1")

MCWallets == {"w"}
MCCurrency == [w |-> "BRL"]
Short == [w |-> 1]   \* too little for the BET
Ample == [w |-> 2]

(* Reversals that come before what they name: two for one WIN, which the   *)
(* BET may have spent by then, and one for a BET that may be rejected.     *)
Early == {Bet1, Win1, Refund1, UndoWin, UndoWinAgain}

(* One reversal for each.                                                  *)
Pairs == {Bet1, Win1, Refund1, UndoWin}
=============================================================================
