---------------------------- MODULE AtomicWagers ----------------------------
(***************************************************************************)
(* What Execute promises about the tables: every command takes effect in   *)
(* one atomic step, decided by the tables as they are at that step, at     *)
(* most once per idempotency key and per external id.  No sessions, locks, *)
(* inbox, waits or failures: those are ProcessWager's, which implements    *)
(* this specification.                                                     *)
(***************************************************************************)
EXTENDS WagerDomain

VARIABLES wallets, txs, ledger, outbox

vars == <<wallets, txs, ledger, outbox>>

Init ==
    /\ wallets = [w \in Wallets |-> OpenedWallet(w)]
    /\ txs = [id \in Attempts |-> None]
    /\ ledger = [w \in Wallets |-> OpenedLedger(w)]
    /\ outbox = {}

-----------------------------------------------------------------------------
Exists(id) == txs[id] # None

(* Neither the id, nor the key, nor the external id has been used.         *)
Fresh(id, c) ==
    /\ ValidCommand(c)
    /\ c.wallet \in Wallets
    /\ ~ Exists(id)
    /\ \A t \in Attempts : Exists(t) => ~ Collide(txs[t].cmd, c)

(* The transactions a reference names; a command may even name itself.     *)
Named(c) == {t \in Attempts : Exists(t) /\ txs[t].cmd.provider = c.provider
                                        /\ txs[t].cmd.ext = c.ref}
Itself(id, c) == {t \in {id} : c.ref = c.ext}

Reversed(t) == \E r \in Attempts : Exists(r) /\ IsReversalOf(txs[r], t)

(* A transaction that has moved the money of wallet w.                     *)
HasMoved(t, w) ==
    txs[t].cmd.wallet = w /\ txs[t].status = "PROCESSED" /\ txs[t].cmd.kind # "LOSS"

(* A row is written and its events with it; no money moves.                *)
Record(id, r) ==
    /\ txs' = [txs EXCEPT ![id] = r]
    /\ outbox' = outbox \cup Events(id, r, None)
    /\ UNCHANGED <<wallets, ledger>>

(* The wallet, its ledger, the row and the events change together.         *)
Settle(id, c, direction, reference) ==
    LET w == c.wallet
        m == Move(id, direction, c.amount, wallets[w])
        r == MarkProcessed(AttachResolvedReference(NewRow(c), reference), m.after)
    IN
    /\ c.currency = Currency[w]
    /\ wallets' = [wallets EXCEPT ![w] = [balance |-> m.after, version |-> m.version]]
    /\ ledger' = [ledger EXCEPT ![w] = Append(@, m)]
    /\ txs' = [txs EXCEPT ![id] = r]
    /\ outbox' = outbox \cup Events(id, r, m)

-----------------------------------------------------------------------------
Bet(id, c) ==
    /\ c.kind = "BET"
    /\ IF Covered("DEBIT", c.amount, wallets[c.wallet])
       THEN Settle(id, c, "DEBIT", None)
       ELSE c.currency = Currency[c.wallet]
              /\ Record(id, MarkRejected(NewRow(c), "INSUFFICIENT_FUNDS"))

(* A WIN resolves its reference if it can; it must when that transaction   *)
(* has moved money on the same wallet.                                     *)
Win(id, c) ==
    /\ c.kind = "WIN"
    /\ \/ \E t \in Named(c) \cup Itself(id, c) : c.ref # None /\ Settle(id, c, "CREDIT", t)
       \/ (\A t \in Named(c) : c.ref = None \/ ~ HasMoved(t, c.wallet))
            /\ Settle(id, c, "CREDIT", None)

(* A LOSS moves nothing and reports the balance of the moment.             *)
Loss(id, c) ==
    c.kind = "LOSS" /\ Record(id, MarkProcessed(NewRow(c), wallets[c.wallet].balance))

(* A reversal undoes a processed transaction that nothing has undone yet.  *)
Reverse(id, c) ==
    \E t \in Named(c) :
        LET direction == ReversalDirection(txs[t].cmd.kind) IN
        /\ c.kind \in Reversals
        /\ ReferenceFault(c, txs[t]) = None
        /\ IF Reversed(t)
           THEN Record(id, MarkRejected(NewRow(c), "DUPLICATE_REVERSAL"))
           ELSE IF Covered(direction, c.amount, wallets[c.wallet])
           THEN Settle(id, c, direction, t)
           ELSE Record(id, MarkRejected(NewRow(c), "REVERSAL_EXCEEDS_BALANCE"))

(* It is refused when what it names does not fit.                          *)
Mismatch(id, c) ==
    \E t \in Named(c) \cup Itself(id, c) :
        LET named == IF t = id THEN NewRow(c) ELSE txs[t]
            fault == ReferenceFault(c, named)
        IN  /\ c.kind \in Reversals
            /\ fault # None
            /\ Record(id, MarkRejected(NewRow(c), fault))

(* It is parked only while nothing it names has moved money on the wallet. *)
Park(id, c) ==
    /\ c.kind \in Reversals
    /\ \A t \in Named(c) : ~ HasMoved(t, c.wallet)
    /\ Record(id, MarkPendingReference(NewRow(c)))

Execute(id, c) ==
    /\ Fresh(id, c)
    /\ \/ Bet(id, c) \/ Win(id, c) \/ Loss(id, c)
       \/ Reverse(id, c) \/ Mismatch(id, c) \/ Park(id, c)

(* Every command leaves a row; said first, so that TLC passes over the     *)
(* steps of a detailed specification that leave none.                      *)
Next ==
    /\ txs' # txs
    /\ \E id \in Attempts, c \in Commands : Execute(id, c)

Spec == Init /\ [][Next]_vars
=============================================================================
