---------------------------- MODULE WagerDomain ----------------------------
(***************************************************************************)
(* The vocabulary of the wager service and its pure rules: commands, rows  *)
(* of wager_transactions, wallet movements, ledger entries, the events of  *)
(* each outcome, and the decisions that depend on nothing else.            *)
(*                                                                         *)
(* A call of ProcessWagerTransactionUseCase.Execute is an attempt.  The id *)
(* of the transaction an attempt creates (uuid.NewV7) is the attempt       *)
(* itself: ids are fresh and each call creates at most one row.            *)
(***************************************************************************)
EXTENDS Integers, Sequences, FiniteSets

CONSTANTS
    Attempts,        \* calls of Execute
    Commands,        \* what clients and the broker submit
    Wallets,         \* the opened wallets
    Currency,        \* Currency[w]: the currency a wallet was opened in
    OpeningBalance,  \* OpeningBalance[w]: what it was opened with
    None             \* no value: NULL, nil or the empty string

Reversals == {"REFUND", "ROLLBACK"}
Kinds     == {"BET", "WIN", "LOSS"} \cup Reversals
Statuses  == {"PENDING", "PENDING_REFERENCE", "PROCESSED", "REJECTED"}
Failures  == {"INSUFFICIENT_FUNDS", "REVERSAL_EXCEEDS_BALANCE", "REFERENCE_MISMATCH",
              "REFERENCE_NOT_PROCESSED", "REFERENCE_NOT_FOUND", "DUPLICATE_REVERSAL"}
EventTypes == {"Processed", "Rejected", "PendingReference", "BalanceChanged"}

Messages == {c.msg : c \in Commands} \ {None}

-----------------------------------------------------------------------------
(* The business payload: what the canonical hash covers, i.e. everything   *)
(* but the idempotency key and the broker's message id.  SHA-256 is taken  *)
(* to be injective, so a hash is the payload.                              *)
CanonicalHash(c) ==
    [provider |-> c.provider, ext |-> c.ext, player |-> c.player, wallet |-> c.wallet,
     round |-> c.round, kind |-> c.kind, amount |-> c.amount, currency |-> c.currency,
     ref |-> c.ref]

(* NewExternal: LOSS carries no money and everything else does; a reversal *)
(* names its reference, a BET or LOSS may not.                             *)
ValidCommand(c) ==
    /\ (c.amount = 0) <=> (c.kind = "LOSS")
    /\ c.kind \in Reversals => c.ref # None
    /\ c.ref # None => c.kind \in Reversals \cup {"WIN"}

(* Two commands that the unique indexes of wager_transactions keep apart.  *)
SameKey(c, d) == c.provider = d.provider /\ c.key = d.key
SameExternalId(c, d) == c.provider = d.provider /\ c.ext = d.ext
Collide(c, d) == SameKey(c, d) \/ SameExternalId(c, d)

-----------------------------------------------------------------------------
(* Rows of wager_transactions, and the transitions of the aggregate.       *)
Rows == [cmd: Commands, status: Statuses, failure: Failures \cup {None},
         resolved: Attempts \cup {None}, balance: Nat \cup {None}]

NewRow(c) == [cmd |-> c, status |-> "PENDING", failure |-> None,
              resolved |-> None, balance |-> None]
MarkPendingReference(r) == [r EXCEPT !.status = "PENDING_REFERENCE"]
MarkProcessed(r, balance) == [r EXCEPT !.status = "PROCESSED", !.balance = balance]
MarkRejected(r, code) == [r EXCEPT !.status = "REJECTED", !.failure = code]
AttachResolvedReference(r, id) == [r EXCEPT !.resolved = id]

IsReversalOf(r, id) ==
    r.resolved = id /\ r.cmd.kind \in Reversals /\ r.status = "PROCESSED"

-----------------------------------------------------------------------------
(* Wallets and their movements.  A movement also is the ledger entry that  *)
(* ledger.New builds from it.                                              *)
Directions == {"DEBIT", "CREDIT"}
WalletStates == [balance: Nat, version: Nat]
Movements == [tx: Attempts \cup {None}, direction: Directions, amount: Nat,
              before: Nat, after: Nat, version: Nat]

(* What a reversal may name, by its kind, and which way it then moves.     *)
Reversible(kind) == IF kind = "REFUND" THEN {"BET"} ELSE {"BET", "WIN", "REFUND"}
ReversalAlwaysPays(kind) == "CREDIT"  \* mutant: a WIN or a REFUND is undone by paying it again
ReversalDirection(kind) == IF kind = "BET" THEN "CREDIT" ELSE "DEBIT"

(* validateReversalReference: None, or the code the reversal is rejected with *)
ReferenceFault(c, r) ==
    IF r.cmd.kind \notin Reversible(c.kind) THEN "REFERENCE_MISMATCH"
    ELSE IF r.status # "PROCESSED" THEN "REFERENCE_NOT_PROCESSED"
    ELSE IF \E f \in {"provider", "player", "wallet", "round", "currency", "amount"} :
                r.cmd[f] # c[f]
         THEN "REFERENCE_MISMATCH"
    ELSE None

CoveredByAnything(direction, amount, w) == TRUE  \* mutant: no balance check
Covered(direction, amount, w) == direction = "CREDIT" \/ amount <= w.balance

(* Mutant: the balance before is read after the wallet has been changed.   *)
MoveReadLate(id, direction, amount, w) ==
    LET after == IF direction = "CREDIT" THEN w.balance + amount ELSE w.balance - amount
    IN  [tx |-> id, direction |-> direction, amount |-> amount, before |-> after,
         after |-> after, version |-> w.version + 1]
(* Wallet.Debit and Wallet.Credit on a wallet that covers the amount.      *)
Move(id, direction, amount, w) ==
    [tx |-> id, direction |-> direction, amount |-> amount, before |-> w.balance,
     after |-> IF direction = "CREDIT" THEN w.balance + amount ELSE w.balance - amount,
     version |-> w.version + 1]

(* The wallet and the ledger as OpenWalletUseCase leaves them.             *)
OpenedWallet(w) == [balance |-> OpeningBalance[w], version |-> 1]
OpenedLedger(w) ==
    IF OpeningBalance[w] = 0 THEN << >>
    ELSE <<[tx |-> None, direction |-> "CREDIT", amount |-> OpeningBalance[w],
            before |-> 0, after |-> OpeningBalance[w], version |-> 1]>>

(* A ledger that explains a wallet: its entries form a chain from zero,    *)
(* one per version, that ends in the stored balance.                       *)
Consecutive(es) ==
    \A i \in 1 .. Len(es) - 1 :
        es[i + 1].before = es[i].after /\ es[i + 1].version = es[i].version + 1
Explains(es, w) ==
    /\ Consecutive(es)
    /\ IF es = << >> THEN w = [balance |-> 0, version |-> 1]
       ELSE w = [balance |-> es[Len(es)].after, version |-> es[Len(es)].version]

(* The places of a transaction's entries in the books of all wallets.      *)
EntriesOf(t, books) ==
    {e \in UNION {{w} \X DOMAIN books[w] : w \in Wallets} : books[e[1]][e[2]].tx = t}

-----------------------------------------------------------------------------
(* The outbox events an outcome appends.                                   *)
Events(id, r, m) ==
    LET type == CASE r.status = "PROCESSED"         -> "Processed"
                  [] r.status = "REJECTED"          -> "Rejected"
                  [] r.status = "PENDING_REFERENCE" -> "PendingReference"
    IN  {[tx |-> id, type |-> type]}
          \cup IF m = None THEN {} ELSE {[tx |-> id, type |-> "BalanceChanged"]}

-----------------------------------------------------------------------------
(* Amounts come from ParseExternalAmount, which rejects negative ones, and *)
(* kinds from ToCommand, which rejects OPENING and unknown kinds.          *)
ASSUME CommandsAssumption ==
    \A c \in Commands : c.kind \in Kinds /\ c.amount \in Nat

ASSUME WalletsAssumption == OpeningBalance \in [Wallets -> Nat]

(* NULL is none of the values it stands next to.                           *)
ASSUME NoneAssumption ==
    /\ None \notin Attempts
    /\ None \notin Commands
    /\ None \notin Failures
    /\ None \notin Rows
    /\ None \notin Movements
=============================================================================
