----------------------- MODULE PendingReferencesProps -----------------------
(***************************************************************************)
(* What makes the resolver correct beside Execute and other resolvers.     *)
(***************************************************************************)
EXTENDS PendingReferences

(* The ledger still explains the wallet when resolvers move money next to  *)
(* calls and to each other (attempt writes the entry and the wallet from a *)
(* balance it has read under the wallet's lock).                           *)
BalanceMatchesLedger == \A w \in Wallets : Explains(ledger[w], wallets[w])

(* A parked reversal pays at most once although several resolvers list it  *)
(* and each works from its own copy: the listing's row locks are gone, the *)
(* UPDATE of the row checks no status, and only the unique index on the    *)
(* ledger stands between them.                                             *)
OneMovementPerRow == \A t \in Attempts : Cardinality(EntriesOf(t, ledger)) <= 1

(* Money moves exactly when WalletBalanceChanged is announced: a round cut *)
(* short between two rows or within one leaves neither alone.              *)
MovementsAreAnnounced ==
    \A t \in Attempts :
        EntriesOf(t, ledger) # {} <=> [tx |-> t, type |-> "BalanceChanged"] \in outbox

(* No reversal is given up as REFERENCE_NOT_FOUND before it has reached    *)
(* MaxAge, whichever resolver listed it, and when.                         *)
ExpiryIsEarned ==
    [][\A t \in Attempts :
          Parked(t) /\ txs'[t].failure = "REFERENCE_NOT_FOUND" => t \in old]_vars

(* Every parked reversal is decided in the end: resolved, or rejected for  *)
(* good reasons or for its age.                                            *)
ParkedIsDecided == \A t \in Attempts : Parked(t) ~> ~ Parked(t)
=============================================================================
