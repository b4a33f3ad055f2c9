------------------------- MODULE ProcessWagerProps -------------------------
(***************************************************************************)
(* What makes ProcessWager correct.                                        *)
(***************************************************************************)
EXTENDS ProcessWager

(* The ledger explains the wallet: its entries form a chain from zero, one *)
(* per version, that ends in the stored balance.  Concurrent movements of  *)
(* a wallet may lose no update and leave no gap (commitMovement writes the *)
(* entry and the wallet from a balance it read one statement earlier).     *)
BalanceMatchesLedger == \A w \in Wallets : Explains(ledger[w], wallets[w])

(* Money moves exactly for the transactions that say so: an entry belongs  *)
(* to one PROCESSED row of its wallet, for its amount and with its         *)
(* resulting balance, and each such row but a LOSS has exactly one entry.  *)
MovementsMatchTransactions ==
    \A t \in Attempts :
        IF t \in Committed /\ txs[t].status = "PROCESSED" /\ txs[t].cmd.kind # "LOSS"
        THEN \E e \in EntriesOf(t, ledger) :
                /\ EntriesOf(t, ledger) = {e}
                /\ e[1] = txs[t].cmd.wallet
                /\ ledger[e[1]][e[2]].amount = txs[t].cmd.amount
                /\ ledger[e[1]][e[2]].after = txs[t].balance
        ELSE EntriesOf(t, ledger) = {}

(* A transaction is undone at most once, by a REFUND or by a ROLLBACK      *)
(* (ARCHITECTURE.md section 10), although the two counts are read before   *)
(* the wallet is locked.                                                   *)
AtMostOneReversal ==
    \A t, r1, r2 \in Committed :
        IsReversalOf(txs[r1], t) /\ IsReversalOf(txs[r2], t) => r1 = r2

(* A reversal moves its reference's money back: same wallet, same amount,  *)
(* opposite direction, and never anything but a PROCESSED transaction.     *)
ReversalsUndo ==
    \A r, t \in Committed : IsReversalOf(txs[r], t) =>
        /\ txs[t].status = "PROCESSED"
        /\ \E e \in EntriesOf(r, ledger), f \in EntriesOf(t, ledger) :
              /\ e[1] = f[1]
              /\ ledger[e[1]][e[2]].amount = ledger[f[1]][f[2]].amount
              /\ ledger[e[1]][e[2]].direction # ledger[f[1]][f[2]].direction

(* One transaction per idempotency key and per external id of a provider.  *)
OneTransactionPerKey ==
    \A t, u \in Committed :
        SameKey(txs[t].cmd, txs[u].cmd) \/ SameExternalId(txs[t].cmd, txs[u].cmd) => t = u

(* A call answers with what is committed under its key and, when the key   *)
(* was known, only to the payload that created it: a retry after a lost    *)
(* answer cannot be told anything else than the first call would have been.*)
AnswersMatch(a) ==
    LET t == answer[a].tx IN
    /\ t \in Committed
    /\ SameKey(txs[t].cmd, cmd[a])
    /\ CanonicalHash(txs[t].cmd) = CanonicalHash(cmd[a])
    /\ answer[a] = Result(t, txs[t], t # a)
AnswersAreCommitted ==
    \A a \in Attempts :
        pc[a] = "done" => (answer[a].error = None => AnswersMatch(a))

(* What it takes of the submitted commands: no payload is delivered under  *)
(* one message id with two keys of which one is another payload's.  Where  *)
(* it is, a redelivery is answered with the other transaction, for what    *)
(* replays a known message looks at the key alone.                         *)
SwapsNoKey(commands) ==
    \A c, d, e \in commands :
        /\ c.msg # None /\ c.msg = d.msg /\ CanonicalHash(c) = CanonicalHash(d)
        /\ ~ SameKey(c, d) /\ SameKey(d, e)
        => CanonicalHash(e) = CanonicalHash(d)

(* An inbox record stands for a message that has been dealt with: it is    *)
(* completed and a transaction with its payload is committed.  A crash can *)
(* leave neither a record without the transaction nor an unfinished one.   *)
InboxRecordsAreBacked ==
    \A m \in Messages : inbox[m] # None =>
        /\ inbox[m].completed
        /\ \E t \in Committed : CanonicalHash(txs[t].cmd) = inbox[m].hash

(* What is read under the wallet's lock is current until the commit, so    *)
(* the version check never fails and FOR UPDATE alone prevents lost        *)
(* updates: the check is a second, independent layer.                      *)
LockedReadsAreCurrent ==
    \A a \in Attempts : move[a] # None =>
        /\ owner[cmd[a].wallet] = a
        /\ move[a].before = wallets[cmd[a].wallet].balance
        /\ move[a].version = wallets[cmd[a].wallet].version + 1

(* Deadlocks stay within one wallet: every member of a cycle waits for     *)
(* FOR UPDATE on the same row, never for a unique key.                     *)
DeadlocksAreOnOneWallet ==
    \A S \in SUBSET Attempts : S # {} /\ WaitCycle(S) =>
        \A a, b \in S : pc[a] = "lockWallet" /\ cmd[a].wallet = cmd[b].wallet

-----------------------------------------------------------------------------
(* The interleaved, failing calls implement the atomic commands.           *)
Atomic == INSTANCE AtomicWagers
AtomicSpec == Atomic!Spec

(* Every call that starts returns, whatever it waits for.                  *)
EveryCallReturns == \A a \in Attempts : (pc[a] # "idle") ~> (pc[a] = "done")

-----------------------------------------------------------------------------
(* What the documents say and the code does not do.                        *)

(* Writers of one wallet queue on its row lock (ARCHITECTURE.md section 4):*)
(* none of them is ever aborted for a deadlock.                            *)
WritersSerialize == \A a \in Attempts : pc[a] = "done" => answer[a].error # "DEADLOCK"

(* A key is only ever answered to the payload that created its transaction *)
(* (ARCHITECTURE.md section 5).                                            *)
KeysAnswerTheirPayload ==
    \A a \in Attempts : pc[a] = "done" /\ answer[a].tx # None /\ answer[a].tx \in Committed =>
        CanonicalHash(txs[answer[a].tx].cmd) = CanonicalHash(cmd[a])

(* A request whose key is committed with the same payload is answered by   *)
(* a replay (ARCHITECTURE.md section 5), not by a conflict.                *)
RepeatsAreReplayed ==
    \A a \in Attempts : pc[a] = "done" /\ answer[a].error = "CONFLICT" =>
        ~ \E t \in Committed : /\ SameKey(txs[t].cmd, cmd[a])
                               /\ CanonicalHash(txs[t].cmd) = CanonicalHash(cmd[a])
=============================================================================
