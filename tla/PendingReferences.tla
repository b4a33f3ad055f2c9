------------------------- MODULE PendingReferences --------------------------
(***************************************************************************)
(* ResolvePendingReferencesUseCase, polled by every process of the service *)
(* over the database that Execute works on.  A reversal whose reference is *)
(* not there is parked by Execute; a resolver later undoes the reference,  *)
(* rejects the reversal, or puts it off once more.                         *)
(*                                                                         *)
(* A round lists the rows that are due in one statement of its own, then   *)
(* handles each in a transaction (attempt), with the copy of the row it    *)
(* has listed.  As in ProcessWager, an action is one SQL statement with    *)
(* the code up to the next one.                                            *)
(*                                                                         *)
(* Calls of Execute are the atomic commands of AtomicWagers, which         *)
(* ProcessWager implements: their share lock on the wallet keeps them and  *)
(* a resolver's FOR UPDATE apart, so a call takes effect when no resolver  *)
(* has its wallet.  A resolver inserts no row and holds no share lock when *)
(* it asks for FOR UPDATE: no cycle of waits runs through it.              *)
(***************************************************************************)
EXTENDS WagerDomain, SequencesExt

CONSTANTS
    Resolvers,           \* one poller per process of the service
    BatchSize,           \* PendingReferenceBatchSize
    MaxLosses,           \* bound: connections the resolvers lose
    DueWhenUnscheduled   \* is a row that was never scheduled due?  TRUE in the
                         \* repository the tests use (fakes_test.go), FALSE in
                         \* the SQL, where NULL <= $1 is not true

VARIABLES
    wallets, txs, ledger, outbox,  \* the tables, as in ProcessWager
    \* of the parked rows: what nobody asks of the others is forgotten
    schedule,  \* pending_reference_next_retry_at: NULL, in the future or past
    old,       \* those that were created MaxAge ago or earlier
    \* the resolvers
    at,        \* the statement each is about to run
    todo,      \* the rows it has listed and not yet handled
    found,     \* the reference it has validated
    draft,     \* what it is about to write to the row
    payback,   \* the ledger entry and wallet update it has not committed
    holder,    \* which resolver holds FOR UPDATE on each wallet row
    losses     \* connections lost so far

Calls == INSTANCE AtomicWagers

tables == <<wallets, txs, ledger, outbox>>
clock == <<schedule, old>>
resolverVars == <<at, todo, found, draft, payback, holder, losses>>
vars == <<tables, clock, resolverVars>>

ASSUME ResolversAssumption ==
    /\ BatchSize \in Nat \ {0}
    /\ MaxLosses \in Nat
    /\ DueWhenUnscheduled \in BOOLEAN
    /\ None \notin Resolvers

(* A table has finitely many rows at any time.                             *)
ASSUME FiniteAssumption == IsFiniteSet(Attempts)

Statements == {"lookup", "countRefunds", "countRollbacks", "lock", "save", "commit"}

TypeOK ==
    /\ wallets \in [Wallets -> WalletStates]
    /\ txs \in [Attempts -> Rows \cup {None}]
    /\ ledger \in [Wallets -> Seq(Movements)]
    /\ outbox \subseteq [tx: Attempts, type: EventTypes]
    /\ schedule \in [Attempts -> {"unset", "later", "due"}]
    /\ old \subseteq Attempts
    /\ at \in [Resolvers -> Statements \cup {"idle"}]
    /\ todo \in [Resolvers -> Seq([tx: Attempts, expired: BOOLEAN])]
    /\ found \in [Resolvers -> Attempts \cup {None}]
    /\ draft \in [Resolvers -> Rows \cup {None}]
    /\ payback \in [Resolvers -> Movements \cup {None}]
    /\ holder \in [Wallets -> Resolvers \cup {None}]
    /\ losses \in 0 .. MaxLosses

Init ==
    /\ Calls!Init
    /\ schedule = [t \in Attempts |-> "unset"]
    /\ old = {}
    /\ at = [r \in Resolvers |-> "idle"]
    /\ todo = [r \in Resolvers |-> << >>]
    /\ found = [r \in Resolvers |-> None]
    /\ draft = [r \in Resolvers |-> None]
    /\ payback = [r \in Resolvers |-> None]
    /\ holder = [w \in Wallets |-> None]
    /\ losses = 0

-----------------------------------------------------------------------------
(* What a round lists.                                                     *)

Parked(t) == txs[t] # None /\ txs[t].status = "PENDING_REFERENCE"
Due(t) == Parked(t) /\ (schedule[t] = "due" \/ (DueWhenUnscheduled /\ schedule[t] = "unset"))

(* The row a resolver is at, and the parked copy of it that was listed.    *)
Current(r) == Head(todo[r]).tx
ListedCopy(r) == MarkPendingReference(NewRow(txs[Current(r)].cmd))

(* FOR UPDATE SKIP LOCKED passes over the rows another resolver has just   *)
(* updated.                                                                *)
Updating(r, t) == at[r] = "commit" /\ Current(r) = t

Smaller(i, j) == IF i < j THEN i ELSE j
Batches ==
    LET due == {t \in Attempts : Due(t) /\ \A r \in Resolvers : ~ Updating(r, t)} IN
    {b \in UNION {SetToSeqs(S) : S \in SUBSET due} :
        Len(b) = Smaller(BatchSize, Cardinality(due))}

(* ListPendingReferenceDue, in a transaction of its own: its row locks are *)
(* gone when it returns.  The age of a row is reckoned from the time at    *)
(* which the round began.                                                  *)
ListDue(r) ==
    /\ at[r] = "idle"
    /\ \E batch \in Batches \ {<< >>} :
          todo' = [todo EXCEPT ![r] =
                      [i \in DOMAIN batch |-> [tx |-> batch[i], expired |-> batch[i] \in old]]]
    /\ at' = [at EXCEPT ![r] = "lookup"]
    /\ UNCHANGED <<tables, clock, found, draft, payback, holder, losses>>

-----------------------------------------------------------------------------
(* How the transaction of one row goes on and ends.                        *)

Goto(r, statement) == at' = [at EXCEPT ![r] = statement]

(* What is to be written to the row is settled.                            *)
Decide(r, written) ==
    /\ draft' = [draft EXCEPT ![r] = written]
    /\ Goto(r, "save")

(* The row is done with; the transaction's locks and pending writes go.    *)
Leave(r, rest) ==
    /\ todo' = [todo EXCEPT ![r] = rest]
    /\ Goto(r, IF rest = << >> THEN "idle" ELSE "lookup")
    /\ found' = [found EXCEPT ![r] = None]
    /\ draft' = [draft EXCEPT ![r] = None]
    /\ payback' = [payback EXCEPT ![r] = None]
    /\ holder' = [w \in Wallets |-> IF holder[w] = r THEN None ELSE holder[w]]

(* An error ends the round: RunOnce returns and the rest is not tried.     *)
Fail(r) == Leave(r, << >>) /\ UNCHANGED <<tables, clock>>

-----------------------------------------------------------------------------
(* FindByProviderAndExternalID, rescheduleOrExpire and the validation.     *)
PutOffForever(r) == ListedCopy(r)  \* mutant: the age of a row is not looked at
PutOffNever(r) == MarkRejected(ListedCopy(r), "REFERENCE_NOT_FOUND")  \* mutant: nor is it here
PutOff(r) == IF Head(todo[r]).expired
             THEN MarkRejected(ListedCopy(r), "REFERENCE_NOT_FOUND")
             ELSE ListedCopy(r)

Lookup(r) ==
    LET c == txs[Current(r)].cmd IN
    /\ at[r] = "lookup"
    /\ \/ /\ Calls!Named(c) = {}
          /\ Decide(r, PutOff(r))
          /\ UNCHANGED found
       \/ \E t \in Calls!Named(c) :
            LET fault == ReferenceFault(c, txs[t]) IN
            IF fault # None
            THEN Decide(r, MarkRejected(ListedCopy(r), fault)) /\ UNCHANGED found
            ELSE /\ found' = [found EXCEPT ![r] = t]
                 /\ Goto(r, "countRefunds")
                 /\ UNCHANGED draft
    /\ UNCHANGED <<tables, clock, todo, payback, holder, losses>>

Count(r, here, kind, next) ==
    /\ at[r] = here
    /\ IF \E t \in Attempts : Calls!Exists(t) /\ IsReversalOf(txs[t], found[r])
                                               /\ txs[t].cmd.kind = kind
       THEN Decide(r, MarkRejected(ListedCopy(r), "DUPLICATE_REVERSAL"))
       ELSE Goto(r, next) /\ UNCHANGED draft
    /\ UNCHANGED <<tables, clock, todo, found, payback, holder, losses>>
CountRefunds(r) == Count(r, "countRefunds", "REFUND", "countRollbacks")
CountRollbacks(r) == Count(r, "countRollbacks", "ROLLBACK", "lock")

(* FOR UPDATE on the wallet, and the movement computed from what it returns *)
Lock(r) ==
    LET c == txs[Current(r)].cmd
        direction == ReversalDirection(txs[found[r]].cmd.kind)
    IN
    /\ at[r] = "lock"
    /\ holder[c.wallet] = None
    /\ IF c.currency # Currency[c.wallet] THEN Fail(r)
       ELSE /\ holder' = [holder EXCEPT ![c.wallet] = r]
            /\ IF Covered(direction, c.amount, wallets[c.wallet])
               THEN LET m == Move(Current(r), direction, c.amount, wallets[c.wallet]) IN
                    /\ payback' = [payback EXCEPT ![r] = m]
                    /\ Decide(r, MarkProcessed(AttachResolvedReference(ListedCopy(r), found[r]),
                                               m.after))
               ELSE /\ Decide(r, MarkRejected(ListedCopy(r), "REVERSAL_EXCEEDS_BALANCE"))
                    /\ UNCHANGED payback
            /\ UNCHANGED <<tables, clock, todo, found>>
    /\ UNCHANGED losses

(* The unique index on the wallet and transaction of a ledger entry, and   *)
(* the wallet's version check.                                             *)
EntryNeverTaken(w, t) == FALSE  \* mutant: the index is not unique
EntryTaken(w, t) == \E i \in DOMAIN ledger[w] : ledger[w][i].tx = t
Refused(r) ==
    LET w == txs[Current(r)].cmd.wallet IN
    payback[r] # None /\ (EntryTaken(w, Current(r))
                            \/ wallets[w].version + 1 # payback[r].version)

(* Mutant: the events are appended outside the transaction.                *)
SaveAnnouncing(r) ==
    /\ at[r] = "save"
    /\ ~ \E s \in Resolvers : Updating(s, Current(r))
    /\ IF Refused(r) THEN Fail(r)
       ELSE /\ Goto(r, "commit")
            /\ outbox' = outbox \cup Events(Current(r), draft[r], payback[r])
            /\ UNCHANGED <<wallets, txs, ledger, clock, todo, found, draft, payback, holder>>
    /\ UNCHANGED losses
(* The writes.  The UPDATE of the row names its id alone; it waits for     *)
(* another resolver that has updated the row, and then overwrites it.      *)
Save(r) ==
    /\ at[r] = "save"
    /\ ~ \E s \in Resolvers : Updating(s, Current(r))
    /\ IF Refused(r) THEN Fail(r)
       ELSE Goto(r, "commit") /\ UNCHANGED <<tables, clock, todo, found, draft, payback, holder>>
    /\ UNCHANGED losses

(* COMMIT.  A row that is put off keeps its status and is scheduled anew.  *)
Written(r) ==
    LET t == Current(r)
        d == draft[r]
    IN
    IF d.status = "PENDING_REFERENCE"
    THEN /\ schedule' = [schedule EXCEPT ![t] = IF Parked(t) THEN "later" ELSE @]
         /\ UNCHANGED <<txs, outbox, old>>
    ELSE /\ txs' = [txs EXCEPT ![t] = d]
         /\ outbox' = outbox \cup Events(t, d, payback[r])
         /\ schedule' = [schedule EXCEPT ![t] = "unset"]
         /\ old' = old \ {t}

MovedWithoutWallet(r) ==  \* mutant: the wallet is not saved
    /\ ledger' = IF payback[r] = None THEN ledger
                 ELSE [ledger EXCEPT ![txs[Current(r)].cmd.wallet] = Append(@, payback[r])]
    /\ UNCHANGED wallets
Moved(r) ==
    LET w == txs[Current(r)].cmd.wallet
        m == payback[r]
    IN
    IF m = None THEN UNCHANGED <<wallets, ledger>>
    ELSE /\ wallets' = [wallets EXCEPT ![w] = [balance |-> m.after, version |-> m.version]]
         /\ ledger' = [ledger EXCEPT ![w] = Append(@, m)]

Publish(r) == Written(r) /\ Moved(r)

Commit(r) ==
    /\ at[r] = "commit"
    /\ Publish(r)
    /\ Leave(r, Tail(todo[r]))
    /\ UNCHANGED losses

-----------------------------------------------------------------------------
(* A connection is lost, or the process stops, before or after the commit. *)
Lost == losses < MaxLosses /\ losses' = losses + 1

LoseConnection(r) == at[r] # "idle" /\ Lost /\ Fail(r)

CommitUnacknowledged(r) ==
    /\ at[r] = "commit"
    /\ Lost
    /\ Publish(r)
    /\ Leave(r, << >>)

-----------------------------------------------------------------------------
(* Time: the scheduled retry comes, the row reaches MaxAge.                *)
Wake(t) ==
    /\ Parked(t) /\ schedule[t] = "later"
    /\ schedule' = [schedule EXCEPT ![t] = "due"]
    /\ UNCHANGED <<tables, old, resolverVars>>
GrowOld(t) ==
    /\ Parked(t) /\ t \notin old
    /\ old' = old \cup {t}
    /\ UNCHANGED <<tables, schedule, resolverVars>>

-----------------------------------------------------------------------------
(* A call of Execute; it waits for a resolver that has locked its wallet.  *)
Execute(id, c) ==
    /\ Calls!Execute(id, c)
    /\ holder[c.wallet] = None
    /\ UNCHANGED <<clock, resolverVars>>

Resolve(r) ==
    \/ ListDue(r) \/ Lookup(r) \/ CountRefunds(r) \/ CountRollbacks(r)
    \/ Lock(r) \/ Save(r) \/ Commit(r)

Next ==
    \/ \E id \in Attempts, c \in Commands : Execute(id, c)
    \/ \E r \in Resolvers : Resolve(r) \/ LoseConnection(r) \/ CommitUnacknowledged(r)
    \/ \E t \in Attempts : Wake(t) \/ GrowOld(t)

Spec == Init /\ [][Next]_vars

(* The poller of every process ticks and its statements run; time passes.  *)
(* Nothing is assumed of calls: the reference of a reversal may never come.*)
Fairness ==
    /\ \A r \in Resolvers : WF_vars(Resolve(r))
    /\ \A t \in Attempts : WF_vars(Wake(t)) /\ WF_vars(GrowOld(t))

FairSpec == Spec /\ Fairness
=============================================================================
