---------------------------- MODULE ProcessWager ----------------------------
(***************************************************************************)
(* ProcessWagerTransactionUseCase.Execute, called concurrently by the HTTP *)
(* handlers and the broker consumer over one Postgres database.            *)
(*                                                                         *)
(* Every call runs in one READ COMMITTED transaction (TxManager.WithinTx). *)
(* An action is one SQL statement with the code up to the next one.  A     *)
(* statement sees the committed tables and its own transaction's writes;   *)
(* the writes reach the tables in Commit and vanish in Abort.  Writes that *)
(* nobody else can see or wait for before the commit are made by the       *)
(* action that decides them.                                               *)
(*                                                                         *)
(* Three waits of Postgres are modelled, since the code's correctness and  *)
(* its progress hang on them:                                              *)
(*   - an INSERT waits for an uncommitted row with the same unique key;    *)
(*   - the foreign key of wager_transactions.wallet_id takes FOR KEY SHARE *)
(*     on the wallet row, which waits for another's FOR UPDATE;            *)
(*   - FOR UPDATE waits for another's FOR UPDATE and FOR KEY SHARE.        *)
(* Locks go with the transaction; a cycle of waits is broken by aborting   *)
(* one of its members.                                                     *)
(***************************************************************************)
EXTENDS WagerDomain

VARIABLES
    \* committed tables
    wallets,  \* [Wallets -> WalletStates]
    txs,      \* [Attempts -> Rows \cup {None}]: wager_transactions by id
    ledger,   \* [Wallets -> Seq(Movements)]: ledger_entries in commit order
    inbox,    \* [Messages -> InboxRecords \cup {None}]
    outbox,   \* the events of outbox_records
    \* open database transactions
    pc,       \* the statement each attempt is about to run
    cmd,      \* its command
    row,      \* the row it has inserted and not committed
    move,     \* the ledger entry and wallet update it has not committed
    ref,      \* the reference a reversal has validated
    owner,    \* who holds FOR UPDATE on each wallet row
    answer    \* what the call returns

tables == <<wallets, txs, ledger, inbox, outbox>>
vars == <<wallets, txs, ledger, inbox, outbox, pc, cmd, row, move, ref, owner, answer>>

InboxRecords == [hash: {CanonicalHash(c) : c \in Commands}, completed: BOOLEAN]

Errors == {"IDEMPOTENCY_KEY_REUSED", "EXTERNAL_KEY_MISMATCH", "NOT_FOUND", "INVALID",
           "CONFLICT", "UNKNOWN_WALLET", "CURRENCY_MISMATCH", "OPTIMISTIC_LOCK",
           "DEADLOCK", "CONNECTION_LOST"}

(* A call either fails with one of these or returns no error.              *)
ASSUME ErrorsAssumption == None \notin Errors

Answers == [error: Errors \cup {None}, tx: Attempts \cup {None},
            status: Statuses \cup {None}, failure: Failures \cup {None},
            balance: Nat \cup {None}, replay: BOOLEAN]

(* The statements of Execute, in the order they run.                       *)
Statements == {"findInbox", "replayByKey", "insertInbox", "findExternal", "findKey",
               "create", "shareWallet", "readWallet", "findReference", "countRefunds",
               "countRollbacks", "lockWallet", "attachReference", "saveWallet", "commit"}
Open(a) == pc[a] \in Statements

TypeOK ==
    /\ wallets \in [Wallets -> WalletStates]
    /\ txs \in [Attempts -> Rows \cup {None}]
    /\ ledger \in [Wallets -> Seq(Movements)]
    /\ inbox \in [Messages -> InboxRecords \cup {None}]
    /\ outbox \subseteq [tx: Attempts, type: EventTypes]
    /\ pc \in [Attempts -> Statements \cup {"idle", "done"}]
    /\ cmd \in [Attempts -> Commands \cup {None}]
    /\ row \in [Attempts -> Rows \cup {None}]
    /\ move \in [Attempts -> Movements \cup {None}]
    /\ ref \in [Attempts -> Attempts \cup {None}]
    /\ owner \in [Wallets -> Attempts \cup {None}]
    /\ answer \in [Attempts -> Answers \cup {None}]

Init ==
    /\ wallets = [w \in Wallets |-> OpenedWallet(w)]
    /\ txs = [a \in Attempts |-> None]
    /\ ledger = [w \in Wallets |-> OpenedLedger(w)]
    /\ inbox = [m \in Messages |-> None]
    /\ outbox = {}
    /\ pc = [a \in Attempts |-> "idle"]
    /\ cmd = [a \in Attempts |-> None]
    /\ row = [a \in Attempts |-> None]
    /\ move = [a \in Attempts |-> None]
    /\ ref = [a \in Attempts |-> None]
    /\ owner = [w \in Wallets |-> None]
    /\ answer = [a \in Attempts |-> None]

-----------------------------------------------------------------------------
(* What statements read.                                                   *)

Committed == {t \in Attempts : txs[t] # None}

(* FindByIdempotencyKey, before the attempt has inserted anything          *)
ByKey(c) == {t \in Committed : SameKey(txs[t].cmd, c)}

(* FindByProviderAndExternalID: committed rows and the attempt's own       *)
Seen(a, t) == IF t = a THEN row[a] ELSE txs[t]
ByExternalId(a, provider, ext) ==
    {t \in Attempts : /\ Seen(a, t) # None
                      /\ Seen(a, t).cmd.provider = provider
                      /\ Seen(a, t).cmd.ext = ext}

(* CountSuccessfulReversals, as the set that is counted                    *)
SuccessfulReversals(id, kind) ==
    {t \in Committed : IsReversalOf(txs[t], id) /\ txs[t].cmd.kind = kind}

-----------------------------------------------------------------------------
(* What statements wait for.                                               *)

HoldsInboxWhileWaiting(b) ==  \* mutant: a delivery shares the record before it inserts it
    Open(b) /\ cmd[b].msg # None /\ pc[b] \notin {"findInbox", "replayByKey"}
HoldsInbox(b) ==
    /\ Open(b)
    /\ cmd[b].msg # None
    /\ pc[b] \notin {"findInbox", "replayByKey", "insertInbox"}

NoForeignKey(b) == FALSE  \* mutant: wallet_id references nothing
HoldsKeyShare(b) ==
    pc[b] \in {"readWallet", "findReference", "countRefunds", "countRollbacks",
               "lockWallet", "attachReference", "saveWallet", "commit"} /\ row[b] # None

(* Mutant: the wallet is read without FOR UPDATE.                          *)
BlockersPlainRead(a) ==
    {b \in Attempts \ {a} :
        \/ pc[a] = "insertInbox" /\ HoldsInbox(b) /\ cmd[b].msg = cmd[a].msg
        \/ pc[a] = "create" /\ row[b] # None /\ Collide(cmd[a], cmd[b])}
Blockers(a) ==
    {b \in Attempts \ {a} :
        \/ pc[a] = "insertInbox" /\ HoldsInbox(b) /\ cmd[b].msg = cmd[a].msg
        \/ pc[a] = "create" /\ row[b] # None /\ Collide(cmd[a], cmd[b])
        \/ pc[a] = "shareWallet" /\ cmd[a].wallet \in Wallets /\ owner[cmd[a].wallet] = b
        \/ /\ pc[a] = "lockWallet"
           /\ \/ HoldsKeyShare(b) /\ cmd[b].wallet = cmd[a].wallet
              \/ owner[cmd[a].wallet] = b}

(* The members of a simple cycle of waits.                                 *)
Stuck(S) == \A b \in S : Blockers(b) \cap S # {}
WaitCycle(S) == Stuck(S) /\ \A T \in (SUBSET S) \ {S, {}} : ~ Stuck(T)
Deadlocked(a) == \E S \in SUBSET Attempts : a \in S /\ WaitCycle(S)

-----------------------------------------------------------------------------
(* How a call returns.                                                     *)

Result(id, r, replay) ==
    [error |-> None, tx |-> id, status |-> r.status, failure |-> r.failure,
     balance |-> r.balance, replay |-> replay]
Failure(e) ==
    [error |-> e, tx |-> None, status |-> None, failure |-> None,
     balance |-> None, replay |-> FALSE]

(* Mutant: the transaction is neither committed nor rolled back.           *)
ReturnLeakingLocks(a, ans) ==
    /\ pc' = [pc EXCEPT ![a] = "done"]
    /\ answer' = [answer EXCEPT ![a] = ans]
    /\ row' = [row EXCEPT ![a] = None]
    /\ move' = [move EXCEPT ![a] = None]
    /\ ref' = [ref EXCEPT ![a] = None]
    /\ UNCHANGED <<owner, cmd>>
(* The transaction ends: its locks and its pending writes go with it.      *)
Return(a, ans) ==
    /\ pc' = [pc EXCEPT ![a] = "done"]
    /\ answer' = [answer EXCEPT ![a] = ans]
    /\ row' = [row EXCEPT ![a] = None]
    /\ move' = [move EXCEPT ![a] = None]
    /\ ref' = [ref EXCEPT ![a] = None]
    /\ owner' = [w \in Wallets |-> IF owner[w] = a THEN None ELSE owner[w]]
    /\ UNCHANGED cmd

AbortUnnoticed(a, e) ==  \* mutant: the error of COMMIT is dropped
    /\ Return(a, IF pc[a] = "commit" /\ row[a] # None THEN Result(a, row[a], FALSE) ELSE Failure(e))
    /\ UNCHANGED tables
Abort(a, e) == Return(a, Failure(e)) /\ UNCHANGED tables

Goto(a, statement) == pc' = [pc EXCEPT ![a] = statement]
Reads(a, statement) ==
    Goto(a, statement) /\ UNCHANGED <<tables, cmd, row, move, ref, owner, answer>>
Writes(a, r) == row' = [row EXCEPT ![a] = r]

(* rejectAndSave *)
Reject(a, code) ==
    /\ Writes(a, MarkRejected(row[a], code))
    /\ Goto(a, "commit")

-----------------------------------------------------------------------------
(* A client or the broker submits a command.  A broker message brings its  *)
(* message id; an HTTP request has none and skips the inbox.               *)
Submit(a, c) ==
    /\ pc[a] = "idle"
    /\ cmd' = [cmd EXCEPT ![a] = c]
    /\ Goto(a, IF c.msg = None THEN "findExternal" ELSE "findInbox")
    /\ UNCHANGED <<tables, row, move, ref, owner, answer>>

(* handleInbox: a message seen before must carry the same payload.         *)
FindInbox(a) ==
    LET known == inbox[cmd[a].msg] IN
    /\ pc[a] = "findInbox"
    /\ IF known = None THEN Reads(a, "insertInbox")
       ELSE IF known.hash # CanonicalHash(cmd[a]) THEN Abort(a, "IDEMPOTENCY_KEY_REUSED")
       ELSE Reads(a, IF known.completed THEN "replayByKey" ELSE "findExternal")

(* replayByIdempotencyKey; nothing is written, so the call returns.        *)
ReplayByKey(a) ==
    /\ pc[a] = "replayByKey"
    /\ \/ ByKey(cmd[a]) = {} /\ Abort(a, "NOT_FOUND")
       \/ \E t \in ByKey(cmd[a]) :
            Return(a, Result(t, txs[t], TRUE)) /\ UNCHANGED tables

(* Mutant: the record is inserted outside the transaction.                 *)
InsertInboxAtOnce(a) ==
    /\ pc[a] = "insertInbox"
    /\ inbox[cmd[a].msg] = None
    /\ inbox' = [inbox EXCEPT ![cmd[a].msg] =
                    [hash |-> CanonicalHash(cmd[a]), completed |-> FALSE]]
    /\ Goto(a, "findExternal")
    /\ UNCHANGED <<wallets, txs, ledger, outbox, cmd, row, move, ref, owner, answer>>
(* InboxRepository.Insert: a delivery that got there first is a conflict.  *)
InsertInbox(a) ==
    /\ pc[a] = "insertInbox"
    /\ Blockers(a) = {}
    /\ IF inbox[cmd[a].msg] # None THEN Abort(a, "CONFLICT") ELSE Reads(a, "findExternal")

(* processIdempotently, first read: an external id keeps its key.          *)
FindExternal(a) ==
    /\ pc[a] = "findExternal"
    /\ IF \E t \in ByExternalId(a, cmd[a].provider, cmd[a].ext) : txs[t].cmd.key # cmd[a].key
       THEN Abort(a, "EXTERNAL_KEY_MISMATCH")
       ELSE Reads(a, "findKey")

(* Mutant: a known key is replayed to any payload.                         *)
FindKeyUnchecked(a) ==
    /\ pc[a] = "findKey"
    /\ \/ /\ ByKey(cmd[a]) = {}
          /\ IF ValidCommand(cmd[a]) THEN Reads(a, "create") ELSE Abort(a, "INVALID")
       \/ \E t \in ByKey(cmd[a]) :
            /\ answer' = [answer EXCEPT ![a] = Result(t, txs[t], TRUE)]
            /\ Goto(a, "commit")
            /\ UNCHANGED <<tables, cmd, row, move, ref, owner>>
(* Second read: a known key replays its transaction or refuses another     *)
(* payload; a replay of a message still completes its inbox record.        *)
FindKey(a) ==
    /\ pc[a] = "findKey"
    /\ \/ /\ ByKey(cmd[a]) = {}
          /\ IF ValidCommand(cmd[a]) THEN Reads(a, "create") ELSE Abort(a, "INVALID")
       \/ \E t \in ByKey(cmd[a]) :
            IF CanonicalHash(txs[t].cmd) # CanonicalHash(cmd[a])
            THEN Abort(a, "IDEMPOTENCY_KEY_REUSED")
            ELSE /\ answer' = [answer EXCEPT ![a] = Result(t, txs[t], TRUE)]
                 /\ Goto(a, "commit")
                 /\ UNCHANGED <<tables, cmd, row, move, ref, owner>>

(* Mutant: only the idempotency key is unique.                             *)
CreateByKeyOnly(a) ==
    /\ pc[a] = "create"
    /\ ~ \E b \in Attempts \ {a} : row[b] # None /\ SameKey(cmd[b], cmd[a])
    /\ IF ByKey(cmd[a]) # {} THEN Abort(a, "CONFLICT")
       ELSE /\ Writes(a, NewRow(cmd[a]))
            /\ Goto(a, "shareWallet")
            /\ UNCHANGED <<tables, cmd, move, ref, owner, answer>>
(* WagerTransactionRepository.Create.  A unique violation aborts the       *)
(* Postgres transaction, so the lookup that follows it fails as well and   *)
(* ErrConflict is what the caller gets.                                    *)
Create(a) ==
    /\ pc[a] = "create"
    /\ Blockers(a) = {}
    /\ IF \E t \in Committed : Collide(txs[t].cmd, cmd[a])
       THEN Abort(a, "CONFLICT")
       ELSE /\ Writes(a, NewRow(cmd[a]))
            /\ Goto(a, "shareWallet")
            /\ UNCHANGED <<tables, cmd, move, ref, owner, answer>>

(* The end of the same INSERT: its foreign key checks and share-locks the  *)
(* wallet row.                                                             *)
ShareWallet(a) ==
    /\ pc[a] = "shareWallet"
    /\ Blockers(a) = {}
    /\ IF cmd[a].wallet \notin Wallets THEN Abort(a, "UNKNOWN_WALLET")
       ELSE Reads(a, CASE cmd[a].kind \in {"BET", "WIN"} -> "lockWallet"
                       [] cmd[a].kind = "LOSS"           -> "readWallet"
                       [] cmd[a].kind \in Reversals      -> "findReference")

(* processLoss: the balance is read without FOR UPDATE.                    *)
ReadWallet(a) ==
    /\ pc[a] = "readWallet"
    /\ Writes(a, MarkProcessed(row[a], wallets[cmd[a].wallet].balance))
    /\ Goto(a, "commit")
    /\ UNCHANGED <<tables, cmd, move, ref, owner, answer>>

(* processReversal: park when the reference is not there, reject when it   *)
(* does not fit, go on to count its reversals otherwise.                   *)
FindReference(a) ==
    LET found == ByExternalId(a, cmd[a].provider, cmd[a].ref) IN
    /\ pc[a] = "findReference"
    /\ \/ /\ found = {}
          /\ Writes(a, MarkPendingReference(row[a]))
          /\ Goto(a, "commit")
          /\ UNCHANGED ref
       \/ \E t \in found :
            LET fault == ReferenceFault(cmd[a], Seen(a, t)) IN
            IF fault # None THEN Reject(a, fault) /\ UNCHANGED ref
            ELSE /\ ref' = [ref EXCEPT ![a] = t]
                 /\ Goto(a, "countRefunds")
                 /\ UNCHANGED row
    /\ UNCHANGED <<tables, cmd, move, owner, answer>>

(* The two counts.  The second one is not looked at when the first is      *)
(* positive.                                                               *)
Count(a, here, kind, next) ==
    /\ pc[a] = here
    /\ IF SuccessfulReversals(ref[a], kind) # {}
       THEN Reject(a, "DUPLICATE_REVERSAL")
       ELSE Goto(a, next) /\ UNCHANGED row
    /\ UNCHANGED <<tables, cmd, move, ref, owner, answer>>
CountRefunds(a) == Count(a, "countRefunds", "REFUND", "countRollbacks")
CountRollbacks(a) == Count(a, "countRollbacks", "ROLLBACK", "lockWallet")

(* FindByIDForUpdate and the movement computed from what it returns.       *)
MoveByOwnKind(a) == IF cmd[a].kind \in {"BET", "ROLLBACK"} THEN "DEBIT" ELSE "CREDIT"  \* mutant
MoveDirection(a) ==
    CASE cmd[a].kind = "BET"         -> "DEBIT"
      [] cmd[a].kind = "WIN"         -> "CREDIT"
      [] cmd[a].kind \in Reversals   -> ReversalDirection(txs[ref[a]].cmd.kind)
LockWallet(a) ==
    LET w == cmd[a].wallet
        direction == MoveDirection(a)
    IN
    /\ pc[a] = "lockWallet"
    /\ Blockers(a) = {}
    /\ IF cmd[a].currency # Currency[w] THEN Abort(a, "CURRENCY_MISMATCH")
       ELSE /\ owner' = [owner EXCEPT ![w] = a]
            /\ IF Covered(direction, cmd[a].amount, wallets[w])
               THEN /\ move' = [move EXCEPT ![a] =
                                    Move(a, direction, cmd[a].amount, wallets[w])]
                    /\ Goto(a, IF cmd[a].kind = "WIN" /\ cmd[a].ref # None
                               THEN "attachReference" ELSE "saveWallet")
                    /\ UNCHANGED row
               ELSE /\ Reject(a, IF cmd[a].kind = "BET" THEN "INSUFFICIENT_FUNDS"
                                 ELSE "REVERSAL_EXCEEDS_BALANCE")
                    /\ UNCHANGED move
            /\ UNCHANGED <<tables, cmd, ref, answer>>

(* processWin: the reference of a WIN is attached if it can be found.      *)
AttachReference(a) ==
    LET found == ByExternalId(a, cmd[a].provider, cmd[a].ref) IN
    /\ pc[a] = "attachReference"
    /\ \/ found = {} /\ UNCHANGED ref
       \/ \E t \in found : ref' = [ref EXCEPT ![a] = t]
    /\ Goto(a, "saveWallet")
    /\ UNCHANGED <<tables, cmd, row, move, owner, answer>>

(* Mutant: the row reports the balance before the movement.                *)
SaveWalletBefore(a) ==
    /\ pc[a] = "saveWallet"
    /\ Writes(a, MarkProcessed(AttachResolvedReference(row[a], ref[a]), move[a].before))
    /\ Goto(a, "commit")
    /\ UNCHANGED <<tables, cmd, move, ref, owner, answer>>
(* commitMovement: the ledger entry, the wallet under its version check,   *)
(* the row and, in Commit, the events.                                     *)
SaveWallet(a) ==
    /\ pc[a] = "saveWallet"
    /\ IF wallets[cmd[a].wallet].version + 1 # move[a].version
       THEN Abort(a, "OPTIMISTIC_LOCK")
       ELSE /\ Writes(a, MarkProcessed(AttachResolvedReference(row[a], ref[a]),
                                       move[a].after))
            /\ Goto(a, "commit")
            /\ UNCHANGED <<tables, cmd, move, ref, owner, answer>>

(* MarkCompleted and COMMIT: what the transaction wrote reaches the tables.*)
Publish(a) ==
    LET w == cmd[a].wallet
        m == move[a]
        msg == cmd[a].msg
    IN
    /\ wallets' = IF m = None THEN wallets
                  ELSE [wallets EXCEPT ![w] = [balance |-> m.after, version |-> m.version]]
    /\ ledger' = IF m = None THEN ledger ELSE [ledger EXCEPT ![w] = Append(@, m)]
    /\ txs' = IF row[a] = None THEN txs ELSE [txs EXCEPT ![a] = row[a]]
    /\ outbox' = IF row[a] = None THEN outbox ELSE outbox \cup Events(a, row[a], m)
    /\ inbox' = IF msg = None THEN inbox
                ELSE [inbox EXCEPT ![msg] = [hash |-> CanonicalHash(cmd[a]),
                                             completed |-> TRUE]]

Commit(a) ==
    /\ pc[a] = "commit"
    /\ Publish(a)
    /\ Return(a, IF row[a] = None THEN answer[a] ELSE Result(a, row[a], FALSE))

(* The commit happens and its acknowledgement is lost: a timeout, a broken *)
(* connection or a crash after the server has committed.                   *)
CommitUnacknowledged(a) ==
    /\ pc[a] = "commit"
    /\ Publish(a)
    /\ Return(a, Failure("CONNECTION_LOST"))

-----------------------------------------------------------------------------
(* A timeout, a broken connection or a crash before the commit: Postgres   *)
(* rolls the transaction back.                                             *)
LoseConnection(a) == Open(a) /\ Abort(a, "CONNECTION_LOST")

(* Postgres aborts one member of a cycle of waits (error 40P01).           *)
AbortDeadlock(a) == Deadlocked(a) /\ Abort(a, "DEADLOCK")

-----------------------------------------------------------------------------
Step(a) ==
    \/ FindInbox(a) \/ ReplayByKey(a) \/ InsertInbox(a)
    \/ FindExternal(a) \/ FindKey(a) \/ Create(a) \/ ShareWallet(a)
    \/ ReadWallet(a)
    \/ FindReference(a) \/ CountRefunds(a) \/ CountRollbacks(a)
    \/ LockWallet(a) \/ AttachReference(a) \/ SaveWallet(a)
    \/ Commit(a)

Next ==
    \E a \in Attempts :
        \/ \E c \in Commands : Submit(a, c)
        \/ Step(a)
        \/ CommitUnacknowledged(a)
        \/ LoseConnection(a)
        \/ AbortDeadlock(a)

Spec == Init /\ [][Next]_vars

(* The goroutine of a call and the Postgres backend that serves it keep    *)
(* running, and the deadlock detector looks at every wait.  Nothing is     *)
(* assumed of the order in which Postgres grants a lock, nor that a lost   *)
(* connection or a new command ever comes.                                 *)
Fairness ==
    \A a \in Attempts : WF_vars(Step(a)) /\ WF_vars(AbortDeadlock(a))

FairSpec == Spec /\ Fairness
=============================================================================
