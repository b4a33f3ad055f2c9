--------------------------- MODULE WalletRecords ----------------------------
(***************************************************************************)
(* What opening, moving, reconciling and listing share: wallets with their *)
(* balance, and ledger entries with the two columns they are listed by.    *)
(***************************************************************************)
EXTENDS Money, FiniteSetsExt, SequencesExt

CONSTANTS
    Openings,   \* calls of OpenWallet; the wallet a call opens has its name
    EntryIds,   \* ids of ledger entries, in the order the database gives them
    Times,      \* readings of the clock
    None

WalletStates == [player : STRING, currency : STRING, balance : 0 .. MaxInt, version : Nat \ {0}]

(* created_at and id are what an entry is ordered by.                      *)
Entries == [at : Times, id : EntryIds, direction : {"CREDIT", "DEBIT"}, amount : 1 .. MaxInt]
Precedes(e, f) == e.at < f.at \/ (e.at = f.at /\ e.id < f.id)

Signed(e) == IF e.direction = "CREDIT" THEN e.amount ELSE - e.amount
Total(es) == MapThenSumSet(Signed, es)

(* uuid.NewV7: an id that no entry has.                                    *)
FreshIds(ledger) == EntryIds \ {e.id : e \in UNION {ledger[w] : w \in Openings}}

ASSUME RecordsAssumption == EntryIds \subseteq Int /\ Times \subseteq Int

(* What is not there is no wallet, no error and no cursor.                 *)
ASSUME NoneAssumption ==
    /\ None \notin WalletStates
    /\ None \notin {"NOT_FOUND", "INVALID_CURRENCY", "OVERFLOW"}
    /\ None \notin Times \X EntryIds
=============================================================================
