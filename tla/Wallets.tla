------------------------------ MODULE Wallets -------------------------------
(***************************************************************************)
(* The life of wallets: they are opened, money moves, and meanwhile they   *)
(* are reconciled and their ledgers are read page by page.                 *)
(*                                                                         *)
(* A movement is one action here.  That a call of Execute or a resolver    *)
(* which moves money has the effect of one step under the wallet's lock is *)
(* what ProcessWager and PendingReferences are about.  The time of an      *)
(* entry was read when its request came in, perhaps in a process whose     *)
(* clock is behind: entries commit in any order of their times and ids.    *)
(***************************************************************************)
EXTENDS WalletRecords

CONSTANTS
    Requests, Amounts,   \* what clients ask for
    Auditors, Walks, Limits, DefaultLimit

VARIABLES wallets, ledger, outbox, opening, audit, walk

vars == <<wallets, ledger, outbox, opening, audit, walk>>

ASSUME WalletsAssumption ==
    /\ Requests \subseteq [player : STRING, currency : STRING, initialBalance : Texts]
    /\ Amounts \subseteq 1 .. MaxInt
    /\ Limits \subseteq Nat
    /\ DefaultLimit \in 1 .. MaxInt - 1

Open == INSTANCE OpenWallet
Audit == INSTANCE Reconciliation
Pages == INSTANCE LedgerPaging

TypeOK ==
    /\ wallets \in [Openings -> WalletStates \cup {None}]
    /\ \A o \in Openings : ledger[o] \subseteq Entries
    /\ \A o \in Openings : outbox[o] \subseteq {"Processed", "BalanceChanged"}
    /\ opening \in [Openings -> Open!Calls]
    /\ \A r \in Auditors : audit[r] \in Audit!Audits
    /\ \A k \in Walks : walk[k] \in Pages!WalkStates

Init == Open!Init /\ Audit!Init /\ Pages!Init

(* Wallet.Debit and Wallet.Credit.                                         *)
After(direction, amount, balance) ==
    IF direction = "DEBIT" THEN Subtract(balance, amount) ELSE CheckedAdd(balance, amount)

(* A movement that overflows is an error and one that overdraws is refused. *)
Move(w, direction, amount, at) ==
    /\ wallets[w] # None
    /\ LET held == wallets[w]
           after == After(direction, amount, held.balance)
       IN
       /\ after.ok
       /\ direction = "DEBIT" => after.value >= 0
       /\ wallets' = [wallets EXCEPT ![w] =
                         [held EXCEPT !.balance = after.value, !.version = held.version + 1]]
    /\ \E id \in FreshIds(ledger) :
          ledger' = [ledger EXCEPT ![w] =
                        @ \cup {[at |-> at, id |-> id, direction |-> direction, amount |-> amount]}]

Next ==
    \/ \E o \in Openings : Open!Step(o) /\ UNCHANGED <<audit, walk>>
    \/ \E w \in Openings, d \in {"CREDIT", "DEBIT"}, n \in Amounts, at \in Times :
          Move(w, d, n, at) /\ UNCHANGED <<outbox, opening, audit, walk>>
    \/ \E r \in Auditors : Audit!Step(r) /\ UNCHANGED <<outbox, opening, walk>>
    \/ \E k \in Walks : Pages!Step(k) /\ UNCHANGED <<wallets, outbox, opening, audit>>

Spec == Init /\ [][Next]_vars
=============================================================================
