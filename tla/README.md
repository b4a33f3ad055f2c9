# wager-service in TLA+

A specification of the wager service beside its Go code: what happens when many
submissions of bets, wins, losses and reversals run concurrently against one
Postgres database, are redelivered, lose their connection or deadlock; how
parked reversals are resolved; how wallets are opened, reconciled and listed;
how events leave through the outbox; and how messages come in from RabbitMQ.
TLC checks it on small instances; TLAPS proves its safety properties for every
instance. Paths below are relative to the repository.

## 1. Inventory

### Components

| Component | State it keeps | Operations | Model |
|---|---|---|---|
| Wager transaction processing, `internal/application/process_wager_transaction.go` | none of its own; one database transaction per call | `Execute` with `processBet`, `processWin`, `processLoss`, `processReversal` | `ProcessWager` |
| Idempotency and inbox, same file and `inbox_repository.go` | `inbox_records`; unique keys of `wager_transactions` | `handleInbox`, `replayByIdempotencyKey`, `processIdempotently`, `MarkCompleted` | `ProcessWager` |
| Pending-reference resolver, `resolve_pending_references.go` | retry columns of parked rows | `RunOnce`, `attempt`, `rescheduleOrExpire`, `rejectPending` | `PendingReferences` |
| Transaction manager, `internal/infra/postgres/tx.go` | open transaction, its locks | `WithinTx`: begin, rollback, commit | partly: `ProcessWager` (`Return`, `Abort`, `Commit*`), no pool and no panic |
| Repositories, `internal/infra/postgres` | the tables, their unique indexes and foreign keys | one SQL statement per method | partly: an action per statement of the components below and above; not the reads of `GetWallet` and `GetTransaction` |
| Domain: `wager`, `wallet`, `ledger`, `events` | rows, balances and versions, entries, outbox records | transitions, `Debit`, `Credit`, entry of a movement, events of an outcome | `WagerDomain`; events without their envelope |
| Money, `domain/money/money.go` | an int64 and a currency | `checkedAdd`, `checkedNegate`, `checkedMul`, `Parse`, `String` | `Money` |
| Opening a wallet, `open_wallet.go` | wallet, OPENING row, first entry, two events | `Execute` | `OpenWallet` |
| Reconciliation, `reconciliation.go` | none | two reads and a comparison | `Reconciliation` |
| Ledger queries, `ledger_repository.go`, `queries.go` | a client's cursor | `ListByWallet` | partly: `LedgerPaging` |
| Outbox worker and publisher, `outbox_worker.go`, `publisher.go` | `attempts`, `next_attempt`, `published_at` | `RunOnce`, `Publish`, `MarkPublished`, `ScheduleRetry` | `Outbox` |
| Consumer and topology, `consumer.go`, `topology.go` | main, retry and dead-letter queue, retry header | `handle`, `retry`, `deadLetter` | `Consumer` |
| HTTP handlers and transport | none | decoding, routing, status codes | partly: what they let through |
| Keycloak key cache, `jwks.go` | key set, time of the last fetch, mutex | `Key`, `fetch` | not modelled |
| Wiring, configuration, logging | none | dependency injection, environment | not modelled |

### How they interact

HTTP handlers and the consumer call `Execute` from many goroutines, in any
number of processes; the only state they share is Postgres. `Execute` writes the
row, the wallet, the ledger entry, the inbox record and the outbox events in one
READ COMMITTED transaction. The resolver works on the rows that `Execute` parks,
and moves money and appends events as it does; the outbox worker works on the
events, reconciliation and the queries on the wallet and the ledger. The
consumer turns the result or the error of `Execute` into an acknowledgement, a
retry or a dead letter.

### What is hard, and what must hold

* Two calls on one wallet: no lost update, an unbroken ledger, money that moves
  exactly for the rows that say so.
* Two calls with one idempotency key or one external id: one transaction, one
  answer, whatever the order, the retries and the crashes.
* Two reversals of one transaction: at most one takes effect, though each looks
  for the other before it locks anything.
* Reversals that arrive before, during and after what they refer to, and chains
  of them.
* Several resolvers that list the same parked rows outside any transaction and
  save each later, by its id alone, from the copy they listed.
* Crashes and lost acknowledgements around the commit; redelivered messages.
* Waits: unique indexes, `FOR UPDATE`, and the lock that the foreign key takes
  behind the code's back. Cycles of them must be broken and every call return.
* Two openings for one player and currency, each with a new id and no lookup.
* Amounts at the end of int64, on their way in as text, through sums and
  differences, and out as text.
* Reads of two statements, or of many pages, while money moves.
* Events: published only after their commit, marked only after the broker's
  confirm, by several workers whose claims overlap, each of which can stop
  between any two steps.
* Messages: a consumer that dies or loses its channel between its publish and
  its acknowledgement leaves two copies of a message, and must leave one.

`PROJECT.json` lists each of these under "hazards", at the line where it bites
and with the properties that cover it, or why none does.

## 2. Modules

| Module | Purpose |
|---|---|
| `WagerDomain` | constants with their assumptions, and the pure rules: payload hash, validation, row transitions, reference checks, movements, events |
| `AtomicWagers` | what `Execute` promises: every command takes effect in one atomic step |
| `ProcessWager` | `Execute` as it runs: one action per SQL statement, many calls, locks and failures |
| `ProcessWagerProps`, `MCProcessWager` | its properties with its instance of `AtomicWagers`; small instances |
| `PendingReferences` | the resolvers, composed with the commands of `AtomicWagers` |
| `PendingReferencesProps`, `MCPendingReferences` | its properties; small instances |
| `Money`, `MoneyProps` | arithmetic and text of amounts in a machine word of any size, against unbounded integers |
| `WalletRecords` | wallets and entries, as the next three share them |
| `OpenWallet`, `Reconciliation`, `LedgerPaging` | one use case each |
| `Wallets` | their composition over one set of tables, beside movements |
| `WalletsProps`, `MCWallets` | its properties; a small instance |
| `AtLeastOnce` | what the transactional outbox promises its subscribers |
| `Outbox`, `OutboxProps`, `MCOutbox` | the outbox workers and their publisher, their properties, small instances |
| `Consumer`, `ConsumerProps`, `MCConsumer` | the consumers with the main, the retry and the dead-letter queue |
| `ProcessWagerProofs`, `UniquenessProofs`, `AtomicityProofs` | the theorems about `ProcessWager`, each module on top of the one before it |
| `WalletsProofs`, `LedgerProofs` | the theorems about `Money` and `Wallets`, the second on top of the first |
| `PendingReferencesProofs`, `OutboxProofs`, `ConsumerProofs` | the theorems about the other components |

`WagerDomain` is extended by three state machines (the abstract and the detailed
`Execute`, and the resolver), so that they share the rules and differ only in how
they are carried out. `PendingReferences` takes the calls of `Execute` as the
commands of `AtomicWagers`, which `ExecuteIsAtomic` proves `ProcessWager` to
implement. `Wallets` instantiates its three use cases over shared variables and
takes a movement as one step, which is what the two state machines before it are
about. `Outbox` and `Consumer` meet `ProcessWager` at one action each: the commit
of a call appends events (`Publish` there, `Commit` here), and a delivery calls
`Execute` (`Submit` there; `Succeed`, `Conflict`, `Fail` and `Panic` here are
what it may come to).

### State and actions of ProcessWager

| Variable | Code |
|---|---|
| `wallets`, `txs`, `ledger`, `inbox`, `outbox` | the committed tables `wallets`, `wager_transactions`, `ledger_entries`, `inbox_records`, `outbox_records` |
| `pc`, `cmd` | the statement a call of `Execute` is about to run; its command |
| `row` | the row it has inserted (and updated) and not committed |
| `move` | the movement computed under the wallet's lock: ledger entry and wallet update |
| `ref` | the reference a reversal has validated or a WIN has found |
| `owner` | who holds `FOR UPDATE` on each wallet row |
| `answer` | what the call returned |

A call and the id that it would give its transaction (`uuid.NewV7`) are the same
model value, an element of `Attempts`.

| Action | Code (`process_wager_transaction.go` unless named) |
|---|---|
| `Submit` | `Handlers.SubmitWagerTransaction`, `Consumer.handle` up to `Execute` |
| `FindInbox`, `ReplayByKey`, `InsertInbox` | `handleInbox`, `replayByIdempotencyKey` |
| `FindExternal`, `FindKey` | the two lookups of `processIdempotently`, then `NewExternal` |
| `Create`, `ShareWallet` | the INSERT: its unique indexes, then its foreign key on `wallets` |
| `LockWallet` | `FindByIDForUpdate` with `Debit` or `Credit` on what it returns |
| `ReadWallet` | `processLoss` |
| `FindReference`, `CountRefunds`, `CountRollbacks` | `processReversal` up to the lock |
| `AttachReference` | the optional reference of `processWin` |
| `SaveWallet` | `commitMovement`: entry, wallet under its version, row |
| `Commit`, `CommitUnacknowledged` | `MarkCompleted` and COMMIT, with and without an answer |
| `LoseConnection`, `AbortDeadlock` | a rollback that the code did not ask for |

### State and actions of PendingReferences

| Variable | Code |
|---|---|
| `wallets`, `txs`, `ledger`, `outbox` | the committed tables |
| `schedule` | `pending_reference_next_retry_at` of a parked row: NULL, in the future, past |
| `old` | the parked rows created `MaxAge` ago or earlier |
| `at` | the statement a resolver is about to run |
| `todo` | the rows it has listed and not handled, each with whether it was expired when the round began |
| `found`, `draft`, `payback` | the reference it has validated, what it will write to the row, the movement it has not committed |
| `holder` | which resolver holds `FOR UPDATE` on each wallet row |
| `losses` | connections lost so far (bounded by `MaxLosses`) |

| Action | Code (`resolve_pending_references.go` unless named) |
|---|---|
| `ListDue` | `RunOnce` up to its loop; `ListPendingReferenceDue` |
| `Lookup` | `attempt` up to the counts, with `rescheduleOrExpire` and `rejectPending` |
| `CountRefunds`, `CountRollbacks` | `CountReversalsByReference`, twice |
| `Lock` | `FindByIDForUpdate`, the currency, `Debit` or `Credit` |
| `Save` | entry, wallet, row, events: the statements that may be refused |
| `Commit`, `CommitUnacknowledged`, `LoseConnection` | COMMIT with its answer, without it, and no COMMIT |
| `Wake`, `GrowOld` | time passes |
| `Execute` | a call, as one command of `AtomicWagers` |

`attempt` inserts nothing, so it holds no share lock while it counts, and no
cycle of waits runs through it. An error ends the round (`Fail`): the rows
behind are not tried. The UPDATE of a row names its id and no status, so the
commit overwrites what another resolver has written since the listing; what
keeps a row from paying twice is the unique index on a ledger entry's wallet and
transaction (`EntryTaken`).

### State and actions of Wallets

`wallets`, `ledger` and `outbox` are the tables, a wallet being named by the
opening that created it; `opening`, `audit` and `walk` are the calls in
progress: of `OpenWallet`, of `Reconciliation`, and of a client that follows
ledger cursors to the last page.

| Action | Code |
|---|---|
| `Begin`, `Insert`, `Commit`, `CommitUnacknowledged`, `Lose` | `OpenWalletUseCase.Execute`: parsing, the INSERT into `wallets`, the commit of all five rows, failures before and after it |
| `FindByID`, `SumByWallet` | the two statements of `ReconciliationUseCase` |
| `FirstPage`, `NextPage` | `GetWalletLedger` with `parsePositiveInt`, then `ListByWallet` |
| `Move` | `Debit` or `Credit` with its ledger entry, by anyone, in one step |

The time of an entry is read before its wallet is locked, and in any process, so
an entry may commit behind a cursor that has passed it: entries take any time
and any free id.

### State and actions of Outbox

`attempts`, `due` and `published` are the columns of `outbox_records`; `pc`,
`batch`, `age` and `channel` are a worker's place in `RunOnce`, the records it
claimed as it read them, the time since it read the clock, and its AMQP channel;
`confirmed` and `queue` say which events the broker has confirmed and which have
reached a subscriber.

| Action | Code |
|---|---|
| `Commit`, `Rollback` | the transaction in which `Append` ran |
| `ClaimPending` | the same, one statement with no transaction around it |
| `PublishConfirmed`, `PublishFailed` | `EventPublisher.Publish`, nil or an error |
| `MarkPublished`, `ScheduleRetry` | the same |
| `UpdateFails` | either returns an error, which ends the batch |
| `LoseChannel`, `Restart`, `Tick` | the connection, the process, the clock |

### State and actions of Consumer

`main`, `waiting` and `dead` are the three queues (a bag, for deliveries
overtake each other; a sequence, for only its head expires; a set); `pc`,
`holds`, `reason` and `channel` are a consumer's place in `handle`, its delivery,
the reason it dead-letters it for, and its channel.

| Action | Code (`consumer.go` unless named) |
|---|---|
| `Receive` | `Run` |
| `Refuse`, `Succeed`, `Conflict`, `Fail`, `Panic` | `handle` up to what it does with the delivery |
| `PublishRetry`, `DeadLetter`, `Ack` | `retry`, `deadLetter`, the acknowledgement |
| `Expire` | the retry queue of `topology.go` |
| `CloseChannel`, `Restart` | the connection; `runConsumer` in a new process |

### What is abstracted

* SHA-256 is injective: a hash is the payload. Ids, keys, players, rounds are
  values that can only be compared. `gameId` is one more field of the payload
  and is left out.
* Amounts and balances are naturals in `WagerDomain` and what is built on it.
  The transport refuses negative amounts and the kind OPENING
  (`ParseExternalAmount`, `ToCommand`); this is `CommandsAssumption`. That sums
  are exact or refused in a machine word is what `Money` and `Wallets` are about.
* The decimal text of an amount is its sign, the number its integer digits spell
  and its two fractional digits; the regular expression refuses everything else.
  Currencies are compared before every operation, by the callers.
* Writes become visible at COMMIT, so writes that nobody can wait for (the
  ledger entry, the wallet under `FOR UPDATE`, the outbox records, the
  completion of the inbox record) are made by the action that decides them.
* The INSERT of a row waits for both of its unique indexes at once, not for one
  after the other. The second count of `processReversal` is not run when the
  first is positive: its result would not change the outcome.
* `NewExternal` is evaluated with the statement before it. A message that fails
  it is an error of the call (`INVALID`).
* Timestamps of rows, correlation ids, envelopes and log lines are left out.
* The resolver's retry time is unset, later or due, and the age of a row is
  below `MaxAge` or not; the age that counts is the one at the round's clock.
* `Outbox` keeps due times as the time that is left, cut off `Overdue` in the
  past, and counts attempts up to the number from which the backoff no longer
  grows; both leave nothing out that the code distinguishes but how old a record
  is beyond `Overdue`. Equal due times are claimed in any order. A subscriber is
  taken to have bound a queue (see section 5).
* `Consumer` takes a publish to fail exactly when its channel is closed, and an
  acknowledgement that follows it on the same channel to fail with it. A broker
  that loses a message it has accepted is not modelled: the consumer's publishes
  are not confirmed. The backoff of a retry is that it ends; how long it takes
  is left out.

## 3. What is checked

`AtomicSpec` is the central property: hide the sessions, and every step of
`ProcessWager` is a step of `AtomicWagers` or changes no table. In
`AtomicWagers` a command is decided against the tables as they are at the very
step that writes them, so a decision taken on a stale read shows as a step it
does not allow. Three details of it say what the code really promises: a WIN
attaches its reference only if it can find it and must when that transaction has
moved money on the same wallet; a reversal may be parked although its reference
has just been committed, unless that has moved money on this wallet (the lock of
the foreign key orders those); and a reversal that names itself is refused.

| Run | Question | Instance | Distinct states |
|---|---|---|---|
| `Wagers` | do balances, ledger, rows, keys and answers agree at every step, is anything undone twice, and is every commit atomic? | 3 calls, 20 commands: two BETs that do not both fit the balance, WINs with references, a LOSS, reused keys and external ids, another provider, another currency, an unknown wallet, an invalid amount; reversals of every kind of reference, fitting and not, and two that name themselves | 680,000 |
| `Deliveries` | are answers, inbox records and waits sound under redelivery, and does every call return? | 3 calls, 4 commands: a message, the same with another key and with another payload, and its body over HTTP; `FairSpec` | 41,000 |
| `Resolver` | does a parked reversal pay at most once, and only with its entry, its events and its time? | 2 resolvers, 3 calls, 5 commands, batches of 2, one lost connection | 980,000 |
| `ResolverLive` | is every parked reversal decided in the end? | 2 resolvers, 2 calls, 4 commands; rows without a schedule are due; `FairSpec` | 72,000 |
| `Wallets` | are wallets unique and whole, differences and pages explained, amounts exact? | 2 openings by one player, 3 entries, 2 times, an auditor, a client; words of -300 .. 299 | 991,000 |
| `Outbox` | is only a confirmed record marked, only a committed event delivered, is each delivered, and does publishing it end? | 2 workers, 2 records of one change, batches of 1, `RestartedSpec` | 73,000 |
| `Consumer` | is a message ever lost, given up early, or never settled? | 2 consumers, 3 messages (an operation, a conflict, an unreadable one), 1 retry, 1 lost channel or crash, `FairSpec` | 285,000 |
| `Deadlock`, `Repeats`, `SwappedKeys`, `ParkedForever`, `LostChannel` | statements of the documents that the code does not keep (section 5) | 1 to 3 actors | violated |

Why the bounds are enough. Each call makes at most one row and one movement. A
race has two contenders and, for reversals, the transaction they are about:
three calls. Opening balance 3 against BETs of 2 makes one fit and not two; a
refund raises the balance above its opening. A wallet opened with zero, in
another currency, is the second wallet, so that locks on different wallets occur
together. Calls are interchangeable, so they are a symmetry set in the runs
without liveness and none in the others, where symmetry would be unsound.

Three calls around the resolver are two reversals of one WIN and the WIN, or a
reversal, what it undoes and a BET that spends the money in between; the opening
balance of 1 is too little for the BET before the WIN. Two resolvers have the
race on a row, a lost connection the row tried again. In `ResolverLive` a batch
has room for every parked row that two calls can make: rows that are due are
listed in any order here, so a smaller batch could leave one out for ever.

In `Wallets` the word holds 200 and not 200 + 100, and the request for `6.00`
has digits that fit the word and a product by 100 that wraps to 0; 299 is also
large enough for every two digits (`MaxIntAssumption`). Three entries are an
opening and two movements, or three pages. The limits are a page for all, one
that cannot be incremented, and one that has wrapped.

The outbox needs a record that can be claimed twice and another behind it; the
consumer a copy that a lost channel can double, one retry before the budget is
used up, and one closing, after which both copies are there. Attempts and
failures are counted up to where they change nothing more. Batches of one and a
backoff that does not grow keep the liveness of `Outbox` in reach; its safety is
proved for every batch and backoff.

The runs of `ProcessWager`, `PendingReferences`, `Wallets` and `Consumer` have
`CHECK_DEADLOCK FALSE`: they legitimately stop when every call has returned,
every id is used and every message is settled. That they stop nowhere else is
`EveryCallReturns`, `ParkedIsDecided` and `EveryMessageSettles`. The outbox
workers never stop.

Fairness. In `ProcessWager`, `FairSpec` assumes weak fairness of each call's own
steps (the goroutine and its Postgres backend keep running) and of the abort of
a deadlocked transaction (Postgres looks at every wait after
`deadlock_timeout`). It assumes nothing of lost connections, of new commands, or
of the order in which locks are granted: a call that waits is served because
there are finitely many calls, each of which returns once. In
`PendingReferences` the poller of every process ticks, its statements run, and
time passes; nothing is assumed of calls, for what a reversal names may never
come. In `Outbox`, `FairSpec` assumes that the loops run and time passes, and,
by strong fairness, that a publish and a mark that are tried again and again
succeed at last; `RestartedSpec` adds that connections are lost for the last
time at some point and whoever has lost his is restarted. In `Consumer` a closed
channel is followed by a restart, and nothing is assumed of `Execute`: if it
never succeeds, its messages are dead-lettered.

`DueWhenUnscheduled` names the one point at which the resolver's repository and
the one of its tests differ: a row that nobody has scheduled is due in
`fakes_test.go:273-291` and never in the SQL, where `NULL <= $1` is not true.
`Resolver` and `ResolverLive` check the resolver as its tests run it, which is
also what it does once the query is repaired; with the SQL as it is, no round
lists anything (section 5), and the safety theorems of section 4 hold for both.

Every property has a mutant in `PROJECT.json`: a definition of the model changed
as a slip in the code might change it (the balance check dropped, the balance
read after the change, a unique index missing, `FOR UPDATE` missing, a reversal
in the wrong direction, the inbox record or the events written outside the
transaction, an error of COMMIT dropped, locks kept by a call that returned, a
sum or a product not looked at, a page cut by its time alone...), with which TLC
finds the property violated. Two of them, `NoForeignKey`, remove the foreign key
on `wager_transactions.wallet_id`: then a bet can be undone twice and a LOSS
reports a balance that is already past. The counts of `processReversal` run
before the wallet is locked, and it is only the constraint's share lock that
keeps two of them from passing side by side.

## 4. What is proved

Every theorem holds for every value of the constants: any number of calls,
commands, wallets, resolvers, workers, consumers and messages, and a machine
word of any size. Together they state every invariant and every safety action
property that a passing run checks, and both refinements.

| Theorem | Statement |
|---|---|
| `TypeCorrect` (`ProcessWagerProofs`) | `TypeOK`: for any calls, commands and wallets every reachable state is well typed; in particular no stored or recorded balance is ever negative. |
| `NoStaleMovement` (`ProcessWagerProofs`) | `LockedReadsAreCurrent`: what a call read under the wallet's lock is still the wallet's state when the call writes it back: no lost update, and the version check cannot fail. |
| `LedgerExplainsBalance` (`ProcessWagerProofs`) | `BalanceMatchesLedger`: the ledger of every wallet is an unbroken chain of consecutive versions from its opening that ends in the stored balance. |
| `MarkedAreConfirmed` (`OutboxProofs`) | `MarkedIsConfirmed`: a record is marked published only if the broker has confirmed its event, for any number of workers and records. |
| `OutboxDeliversAtLeastOnce` (`OutboxProofs`) | `DeliversAtLeastOnce`: the outbox workers implement the safety part of at-least-once delivery: only events of committed changes are delivered. |
| `OutboxTypes` (`OutboxProofs`) | `TypeOK`: any number of workers stay well typed; a worker holds records exactly while it works, and no backoff leaves the bound of its clock. |
| `KeysNameOne` (`UniquenessProofs`) | `OneTransactionPerKey`: no two committed transactions of a provider share an idempotency key or an external id, for any calls and commands. |
| `UndoneAtMostOnce` (`UniquenessProofs`) | `AtMostOneReversal`: a transaction is undone at most once although each reversal counts the others before it locks the wallet. |
| `RecordsAreBacked` (`UniquenessProofs`) | `InboxRecordsAreBacked`: every inbox record is completed and a transaction with its payload is committed. |
| `AnswersAreTrue` (`UniquenessProofs`) | `AnswersAreCommitted`: a call that succeeds answers with what is committed under its key, to the payload that created it, if no payload comes under one message id with two keys of which one is another payload's (SwapsNoKey). |
| `DeadlocksStayOnAWallet` (`UniquenessProofs`) | `DeadlocksAreOnOneWallet`: every cycle of waits, of any number of calls, is among FOR UPDATE requests for one wallet: unique keys and foreign keys close none. |
| `MoneyMovesAsFiled` (`AtomicityProofs`) | `MovementsMatchTransactions`: every PROCESSED row but a LOSS has exactly one ledger entry, in its wallet, for its amount and with its resulting balance; nothing else has one. |
| `ReversalsMoveBack` (`AtomicityProofs`) | `ReversalsUndo`: a reversal moves its reference's amount back in the same wallet, and only of a PROCESSED transaction. |
| `ExecuteIsAtomic` (`AtomicityProofs`) | `AtomicSpec`: whatever the interleavings, aborts and lost answers, Execute implements AtomicWagers: every command takes effect on the tables in one atomic step, decided by the tables as they are at that step. |
| `OneWallet` (`WalletsProofs`) | `OneWalletPerCurrency`: a player never has two wallets of one currency, for any openings and requests. |
| `BalancesFit` (`WalletsProofs`) | Every wallet is well typed in every machine word: no balance is negative or has wrapped. |
| `ArithmeticExact` (`WalletsProofs`) | Sums, differences and products by 100 are exact or refused, in every machine word. |
| `TextExact` (`WalletsProofs`) | An amount is written as what it is and read back as what was written, in every machine word; a text that does not fit is refused. |
| `WalletsOpenWhole` (`LedgerProofs`) | `OpenedWhole`: a wallet is there with the entry and the events of its opening or not at all, and its balance is the sum of its entries, for any openings, movements and lost connections. |
| `DifferencesAreExplained` (`LedgerProofs`) | `ReconciliationIsExplained`: a difference that a reconciliation reports is the sum of exactly the entries committed between its two reads, and its arithmetic never fails. |
| `AnsweredAmountsAreExact` (`LedgerProofs`) | `AmountsAreExact`: a wallet is opened with the amount its request spells, and what a reconciliation answers is read back as it is, in every machine word. |
| `WalksAreComplete` (`LedgerProofs`) | `WalkIsComplete`: a client that follows the cursors to the last page has seen every entry its wallet had when it began, once and in order, whatever commits meanwhile and whatever times entries share. |
| `WalletsTypes` (`LedgerProofs`) | `TypeOK`: wallets, entries, openings, reconciliations and walks stay well typed in every machine word. |
| `ResolversAreTyped` (`PendingReferencesProofs`) | `TypeOK`: the database and the sessions of any number of resolvers stay well typed beside any calls. |
| `ResolversKeepBooks` (`PendingReferencesProofs`) | `BalanceMatchesLedger`: resolvers and calls together keep the ledger of every wallet an unbroken chain that ends in its balance. |
| `RowsPayOnce` (`PendingReferencesProofs`) | `OneMovementPerRow`: a parked reversal pays at most once, however many resolvers list it, from whatever copies and with whatever connections lost. |
| `MovementsGetAnnounced` (`PendingReferencesProofs`) | `MovementsAreAnnounced`: a transaction has a ledger entry exactly if WalletBalanceChanged is in the outbox for it. |
| `NothingExpiresEarly` (`PendingReferencesProofs`) | `ExpiryIsEarned`: no reversal is given up as REFERENCE_NOT_FOUND before it has reached its age, whichever resolver listed it. |
| `ConsumersAreTyped` (`ConsumerProofs`) | `TypeOK`: any number of consumers stay well typed; a header never exceeds the retry budget. |
| `NothingGetsLost` (`ConsumerProofs`) | `NothingIsLost`: every published message is in a queue, in an open consumer's hands, committed or buried, however many channels are lost. |
| `RetriesAreBudgeted` (`ConsumerProofs`) | `BudgetIsKept`: a message is given up as exhausted only after more failures than MaxRetries, and while no channel is lost it never fails more often than one above it. |

Assumptions: what the constants are (`CommandsAssumption`, `WalletsAssumption`
of `WagerDomain` and of `Wallets`, `RecordsAssumption`, `ResolversAssumption`,
`BoundsAssumption`, `ChangesAssumption`, `MessagesAssumption`,
`RetriesAssumption`), that None is none of the values it stands beside
(`NoneAssumption` of `WagerDomain` and of `WalletRecords`, `ErrorsAssumption`),
that a word holds two digits (`MaxIntAssumption`), and for the resolver that a
table is finite (`FiniteAssumption`). TLC evaluates each on its runs. One
theorem, `AnswersAreTrue`, has a hypothesis of its own (below).

### Execute

`TypeOK` is not inductive: to see that a row is well typed when it is committed
one needs to know that a call at that statement has a row, that its wallet
exists, that its reference is committed. `SessionOK(a)` says what a call carries
at each statement, and `Sessions`, the types with `SessionOK` of every call, is
inductive (`SessionsInit`, `StepKeepsSessions`; one lemma per action over a few
shared ones: a call that only reads, one that decides its row, one that
returns).

`BalanceMatchesLedger` alone is not inductive either: a commit appends what a
call computed earlier. `Money` joins it with `LockedReadsAreCurrent`, which says
that every movement in flight was computed from the wallet as it still is, by
the one call that owns its lock. `LockWalletKeepsMoney` establishes it for a new
movement (a lock is granted only when nobody else holds it), `CommitKeepsMoney`
uses it to extend the chain and shows that the other movements are on other
wallets, `QuietKeepsMoney` covers the steps that touch neither.

`UniquenessProofs` adds three invariants. `KeysAreUnique` extends
`OneTransactionPerKey` to the rows inserted and not committed, for an INSERT
waits for both. `OwnersAreAlone` says that whoever has locked a wallet is the
only one with a row on it: FOR UPDATE is granted when nobody holds a share lock.
`Undoing` is the argument about reversals: besides that no transaction is undone
twice, each call past a count knows that what it has counted is still so
(`UndoOK`), because a reversal that could have been committed since is of the
same wallet and would have needed the lock that this call's share lock withholds.
`Backing` does for inbox records what `Sessions` does for rows: a call that is
about to commit one carries a row, or has found one, with the payload the record
is for.

`DeadlocksAreOnOneWallet` follows from who can be waited for. A cycle of waits
is a smallest set of calls each of which waits for a member. `OwnersAreServed`
says that whoever holds `FOR UPDATE` is past its lock and waits for nothing, so
nobody in a cycle waits for such an owner, and nobody in it waits for the share
lock. What is left goes one way (`StuckWaitForWallets`): a call that waits for a
message id waits for one that is at its INSERT or later, a call that waits for
a key for one with a row, which waits for its wallet, and that one for others
that wait for the same wallet. These alone are stuck, and so they are the cycle.

`AnswersAreCommitted` is not true of every set of commands (finding 3), so the
theorem names what it takes of them: `SwapsNoKey`, that no payload is delivered
under one message id with two keys of which one is another payload's. The
commands of `Wagers` and `Deliveries` satisfy it and those of `SwappedKeys` do
not, which TLC evaluates (`OnlySwappedKeys`). `Answering` adds to the statement
what an inbox record vouches for (`Vouched`): a committed transaction of a
command that came under that message with that payload. What a replay finds has
its own key, and `SwapsNoKey` makes its payload the one that was asked about;
answers given stay true because filed rows do not change (`MatchStays`).

The first part of `AtomicityProofs` joins the rows and the entries. `Booking` says that each
PROCESSED row that moves money has its one entry and no other row has any
(`FiledOK`), and that a call's movement is for the row it is about to write
(`BookOK`). `Standing` is the conjunction of all of the invariants above, and
`ReversalsUndo` rests on it and on the fact that PROCESSED rows do not change.

Its second part is the refinement, `ExecuteIsAtomic`. `AtomicWagers` decides
a command by the tables at the step that files it; a call has read them
statements earlier. `PlanOK(a)` says what a call has made sure of at each
statement, and `Decided(a)`, its last part, that the row and the movement it is
about to file are those its command would come to now: a disjunct per outcome,
each in the words of one of the commands (`BetOK`, `WinOK`, `ReverseOK`...). One
lemma per statement takes a call from what it was sure of to what it is next.
That others do not undo it is `SteadyKeepsPlan`: a call that share-locks its
wallet sees no commit that changes the wallet, adds a movement on it or undoes
a transaction of it (`CommitIsSteady`, by `OwnersAreAlone`, `LockedReadsAreCurrent`
and `UndoOK`), and a call that does not hold the lock yet has decided nothing.
Then a commit is one `Execute` of `AtomicWagers` (`FilingExecutes`), and every
other step leaves the tables alone.

### The resolvers

`Resolving` is `TypeOK` with `RowsOK` (rows name opened wallets, and a parked one
has not failed), `BooksOK` (the chain of each ledger, one entry per row, an entry
exactly if the event is in the outbox) and `ResolverOK(r)`: what a resolver
carries at each statement. Its heart is `Paying`: a movement in hand was
computed from the wallet as it still is, because its resolver holds the lock and
calls wait for it, and, once `Save` has passed, its row has no entry, because only one
resolver at a time has updated a row. Rows are overwritten, so nothing in it says
that a row that was listed is still parked; it says instead that an expiry which
was seen remains true for as long as the row is. One lemma per action keeps it,
and `SameWords` relates the operators reached through the instance of
`AtomicWagers` to those of `WagerDomain`.

### Wallets and money

`OwnersInv` says, beside the claim of `OneWallet`, that a call about to commit
is the only one for its player and currency and that there is no wallet of them
(`Unrivalled`). `BalancesInv`, part of it, says that what is stored fits the word
and that what an open call is to store has been accepted. Both use exact
arithmetic, which two lemmas on `Wrap` establish: an integer in range is kept, one just
beyond comes back on the other side. From these, a sum that has not turned
around is exact, and a product by 100 that divides back is exact in every word;
the last is arithmetic on the quotient and its remainder that no run could
cover.

`LedgerProofs` is about sums and orders of entries. A fold over a set and
`ORDER BY` are defined by a CHOOSE, so each needs a proof that there is
something to choose: by the least number principle, on the sizes of finite sets
(`SmallestPart`), which the library's theorem on well-founded relations gives
for sets and not for formulas. From it come `AddsExists` and `TotalSplits` (the
sum of a set is that of a part and of the rest), and `OrderExists` and
`InOrderLists` (entries with ids of their own can be listed in one order, and
the listing has each of them once).

`BooksInv` strengthens `OpenedWhole`: ledgers are finite, an id names one entry
of one wallet, and whoever opened a wallet has taken its request and its time
and will not change them, nor insert it again. `AuditsInv` says of a
reconciliation between its reads (`HasRead`) that the balance it has read is
the sum of the entries of that moment and that none of them has gone; the
second sum is then that balance and the entries in between, and the difference
cannot be the one number whose negation overflows. `WalksInv` says of a client
between two pages that everything it has seen is at or before its cursor
(`Behind`) and that every entry that its wallet had when it began is beyond
the cursor or has been seen (`Ahead`). An entry that commits behind the cursor
disturbs neither: it was not there when the walk began. `PageContinues` is the
step: what is beyond the last entry of a page is what the page has left out.

### Outbox and consumer

`Delivery` says what a worker has in hand (`BatchOK`): only stored records, at
least one unless it polls, and, when it is about to mark, one that the broker
has confirmed. From it every publish is a `Deliver` of the abstract
specification, and every other step one of its commits or nothing. Its types
(`OutboxTypes`) rest on it and on the bound of the backoff, which holds
whatever the power of two comes to (`BackoffIsBounded`).

`Kept` follows a message: as long as it is not committed or buried, a copy of it
is in a queue or with a consumer whose channel is open, and a consumer that is
about to acknowledge knows where the other copy is. `Tried` says that a header
never claims more than what has failed, and `Single`, that while no channel has
been lost there is one copy and the header is exact: then the budget is neither
undercut nor exceeded.

### Only model-checked

* Liveness (`EveryCallReturns`, `ParkedIsDecided`, `EventuallyDelivers`,
  `PublishingEnds`, `EveryMessageSettles`): the prover treats neither fairness
  nor ENABLED.
* That the backoff doubles: no prover here evaluates a power. What the proofs
  need of it is that it is never above its bound.

## 5. Where the code and its documents differ

1. `Deadlock`: two writers of one wallet do not queue on its row lock, as
   ARCHITECTURE.md section 4 says. Each INSERT share-locks the wallet row for
   the foreign key, then asks for `FOR UPDATE`; the two wait for each other and
   Postgres aborts one, which the HTTP caller sees as an error 500. No data is
   wrong (`DeadlocksAreOnOneWallet` shows that this is the only kind of
   deadlock), and a retry succeeds.
2. `Repeats`: the loser of a race on an idempotency key should be answered by a
   replay (ARCHITECTURE.md section 5). The unique violation has aborted its
   Postgres transaction, so the lookup that would find the winner fails and
   `ErrConflict` is returned. The unit test that covers this uses in-memory
   fakes, whose transactions survive the conflict.
3. `SwappedKeys`: a redelivered message is compared by a hash that does not
   cover the idempotency key, then replayed by that key without comparing the
   payload. With a different key it is answered with another transaction, where
   ARCHITECTURE.md section 5 has every request under a key compared.
4. `LostChannel`: a committed event is not published after the publisher has
   lost its channel. The channel is opened once, when the process starts; from
   then on every publish fails and is rescheduled, the process runs on, and
   nothing opens a new channel (ARCHITECTURE.md section 8 has every event
   published eventually).
5. `ParkedForever`: a parked reversal is never resolved, and never expires. The
   query for due rows asks for `pending_reference_next_retry_at <= $1`, the
   column is NULL until a round has rescheduled the row, and only a round that
   lists it does. The repository of the tests takes NULL as due.

What follows shows in the models and has no run of its own.

* With rows that are due, the resolver may undo a transaction that a call or
  another resolver undoes at the same time: it counts before it locks, holds no
  share lock meanwhile, and does not count again. ARCHITECTURE.md section 10
  says that a REFUND and a ROLLBACK never both succeed; a repaired query
  (finding 5) would expose this. For the same reason a resolver with an older
  copy can turn a PROCESSED row into a REJECTED one, and the row then denies the
  movement that its ledger entry shows. The ledger itself stays right.
* `ClaimPending` runs outside a transaction, so `FOR UPDATE SKIP LOCKED` keeps
  no two workers from publishing one record; each event is still delivered at
  least once, and publishing it ends.
* `DeclareTopology` binds no queue for `wager.event.*`, and the broker confirms
  what it cannot route: until a subscriber binds one, events are marked
  published and gone.
* A consumer whose channel is closed stops for good while its process lives;
  `EveryMessageSettles` assumes the restart.
* A reconciliation may report a difference that never existed at any one time.
  It is always that of the entries committed between its two reads
  (`ReconciliationIsExplained`). A wallet opened with nothing that has not moved
  cannot be reconciled: the sum has no currency.
* A ledger page with the largest limit fails: the limit plus one is negative. A
  number beyond the word is taken for what is left of it, or for the default.
* `checkedMul` would miss the product of the smallest integer and -1. Its only
  factor is 100.

## 6. What is not modelled

* The Keycloak key cache: one map under one mutex, filled from outside; no other
  component shares its state, and signature checks are the library's.
* The connection pool and its exhaustion, and with it a panic inside `WithinTx`,
  which leaves a connection with an open transaction. A session here is no
  longer than its call; `Consumer` has the panic and the recovery in `handle`.
* CHECK constraints: they repeat what the domain refuses, and are never reached.
* `Compare`, `Equals` and `Negate` of `Money` as operations, and JSON: no state,
  and the checks of negation are in `Subtract`, `Parse` and `Text`.
* Single-row queries (`GetWallet`, `GetTransaction`): one read each.
* JSON, HTTP status codes and routing; token verification; configuration and
  dependency injection; metrics and logging. They keep no state that the
  properties are about, or are the libraries'.

## 7. Plan

1. When the query of the resolver is repaired: at most one reversal of a
   transaction, and PROCESSED rows that stay, as properties of
   `PendingReferences`, with the counts repeated under the lock.
2. `KeyFetcher`, and sessions that outlive their call, for the pool and the
   panic inside `WithinTx`.
