----------------------------- MODULE OpenWallet -----------------------------
(***************************************************************************)
(* OpenWalletUseCase: one transaction that inserts a wallet and, when it   *)
(* is opened with money, its OPENING transaction, entry and events.        *)
(***************************************************************************)
EXTENDS WalletRecords

CONSTANT Requests   \* bodies of POST /wallets: player, currency, and the
                    \* initial balance as decimal text

VARIABLES
    wallets,   \* by the opening that created them
    ledger,    \* the entries of each wallet
    outbox,    \* the opening events of each wallet
    opening    \* the calls: step, request, time of the call

OpeningSteps == {"idle", "insert", "commit", "opened", "refused", "conflict", "lost"}
Calls == [step : OpeningSteps, request : Requests \cup {None}, at : Times \cup {None}]

Init ==
    /\ wallets = [o \in Openings |-> None]
    /\ ledger = [o \in Openings |-> {}]
    /\ outbox = [o \in Openings |-> {}]
    /\ opening = [o \in Openings |-> [step |-> "idle", request |-> None, at |-> None]]

Goto(o, step) == opening' = [opening EXCEPT ![o].step = step]
(* A call that ends without a wallet is forgotten but for its answer.      *)
End(o, step) == opening' = [opening EXCEPT ![o] = [step |-> step, request |-> None, at |-> None]]

SameOwner(q, r) == q.player = r.player /\ q.currency = r.currency

(* What the handler has parsed.                                            *)
Initial(q) == Parse(q.initialBalance)

Begin(o, q, at) ==
    /\ opening[o].step = "idle"
    /\ IF Initial(q).ok /\ Initial(q).value >= 0
       THEN opening' = [opening EXCEPT ![o] = [step |-> "insert", request |-> q, at |-> at]]
       ELSE End(o, "refused")
    /\ UNCHANGED <<wallets, ledger, outbox>>

(* Mutant: wallets are unique by player, currency and opening balance.     *)
InsertByRequest(o) ==
    /\ opening[o].step = "insert"
    /\ ~ \E p \in Openings : opening[p].step = "commit"
                             /\ opening[p].request = opening[o].request
    /\ IF \E p \in Openings : wallets[p] # None /\ opening[p].request = opening[o].request
       THEN End(o, "conflict") ELSE Goto(o, "commit")
    /\ UNCHANGED <<wallets, ledger, outbox>>
(* INSERT INTO wallets waits for an uncommitted wallet of the same player  *)
(* and currency; a committed one is ErrConflict.                           *)
Insert(o) ==
    /\ opening[o].step = "insert"
    /\ ~ \E p \in Openings : opening[p].step = "commit"
                             /\ SameOwner(opening[p].request, opening[o].request)
    /\ IF \E p \in Openings : wallets[p] # None /\ SameOwner(wallets[p], opening[o].request)
       THEN End(o, "conflict") ELSE Goto(o, "commit")
    /\ UNCHANGED <<wallets, ledger, outbox>>

(* wallet.New.                                                             *)
NewWallet(q) == [player |-> q.player, currency |-> q.currency,
                 balance |-> Initial(q).value, version |-> 1]

(* Mutant: the wallet, and then what comes with it, in two transactions.   *)
PublishWalletFirst(o) ==
    /\ wallets' = [wallets EXCEPT ![o] = NewWallet(opening[o].request)]
    /\ UNCHANGED <<ledger, outbox>>
(* COMMIT of the wallet, the entry and the events.                         *)
Publish(o) ==
    LET w == NewWallet(opening[o].request) IN
    /\ wallets' = [wallets EXCEPT ![o] = w]
    /\ IF w.balance = 0 THEN UNCHANGED <<ledger, outbox>>
       ELSE /\ \E id \in FreshIds(ledger) :
                  ledger' = [ledger EXCEPT ![o] =
                                @ \cup {[at |-> opening[o].at, id |-> id,
                                         direction |-> "CREDIT", amount |-> w.balance]}]
            /\ outbox' = [outbox EXCEPT ![o] = {"Processed", "BalanceChanged"}]

Commit(o) == opening[o].step = "commit" /\ Publish(o) /\ Goto(o, "opened")

(* A connection or process is lost before the commit, or after it and      *)
(* before the answer.                                                      *)
Lose(o) ==
    /\ opening[o].step \in {"insert", "commit"}
    /\ End(o, "lost")
    /\ UNCHANGED <<wallets, ledger, outbox>>
CommitUnacknowledged(o) == opening[o].step = "commit" /\ Publish(o) /\ Goto(o, "lost")

Step(o) ==
    \/ \E q \in Requests, at \in Times : Begin(o, q, at)
    \/ Insert(o) \/ Commit(o) \/ Lose(o) \/ CommitUnacknowledged(o)
=============================================================================
