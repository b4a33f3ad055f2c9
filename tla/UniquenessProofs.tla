--------------------------- MODULE UniquenessProofs ---------------------------
(***************************************************************************)
(* For every set of attempts, commands and wallets: no two transactions    *)
(* share an idempotency key or an external id, nothing is undone twice,    *)
(* and an inbox record stands for a message that has been dealt with.      *)
(***************************************************************************)
EXTENDS ProcessWagerProofs

(* What a call does, and what the world does to it.                        *)
Taken(a) ==
    \/ \E c \in Commands : Submit(a, c)
    \/ Step(a)
    \/ CommitUnacknowledged(a)
    \/ LoseConnection(a)
    \/ AbortDeadlock(a)

(* The other calls are left where they are.                                *)
Others(a) ==
    \A b \in Attempts \ {a} :
        /\ pc'[b] = pc[b] /\ cmd'[b] = cmd[b] /\ row'[b] = row[b]
        /\ move'[b] = move[b] /\ ref'[b] = ref[b]

(* The call has ended and holds nothing.                                   *)
Ended(a) == pc'[a] = "done" /\ row'[a] = None /\ move'[a] = None /\ ref'[a] = None

(* The two unique indexes let the row of a call in.                        *)
Free(a) ==
    /\ \A b \in Attempts \ {a} : row[b] # None => ~ Collide(cmd[a], cmd[b])
    /\ \A t \in Committed : ~ Collide(txs[t].cmd, cmd[a])

(* How a call ends, and how its row comes and goes.                        *)
Ends(a) == Ended(a) /\ txs' = txs
Files(a) ==
    Ended(a) /\ pc[a] = "commit" /\ row[a] # None /\ txs' = [txs EXCEPT ![a] = row[a]]
Inserts(a) == row[a] = None /\ pc[a] = "create" /\ Free(a) /\ txs' = txs /\ UNCHANGED cmd
Carries(a) ==
    txs' = txs /\ (row[a] = None => row'[a] = None) /\ (row[a] # None => UNCHANGED cmd)

-----------------------------------------------------------------------------
(* A call that returns touches nobody else's session.                      *)
LEMMA ReturnIsLocal ==
    ASSUME Sessions, NEW a \in Attempts, NEW ans, Return(a, ans)
    PROVE  Others(a) /\ Ended(a)
    BY DEF Sessions, TypeOK, Return, Others, Ended

(* A call that is rolled back leaves no trace.                             *)
LEMMA AbortEnds ==
    ASSUME Sessions, NEW a \in Attempts, NEW e, Abort(a, e)
    PROVE  Others(a) /\ Ends(a)
    BY ReturnIsLocal DEF Abort, tables, Ends

(* A call that commits files its row, if it has one.                       *)
LEMMA CommitFiles ==
    ASSUME Sessions, NEW a \in Attempts, Commit(a) \/ CommitUnacknowledged(a)
    PROVE  Others(a) /\ (Ends(a) \/ Files(a))
<1>1. pc[a] = "commit" /\ Publish(a) /\ \E ans : Return(a, ans)
    BY DEF Commit, CommitUnacknowledged
<1>2. Others(a) /\ Ended(a)
    BY <1>1, ReturnIsLocal
<1> QED BY <1>1, <1>2 DEF Publish, Ends, Files

(* Every step of a call is its own: it ends, files its row, inserts it     *)
(* past the unique indexes, or carries on with what it has.                *)
LEMMA StepsAreLocal ==
    ASSUME Sessions, NEW a \in Attempts, Taken(a)
    PROVE  /\ Others(a)
           /\ pc[a] # "done"
           /\ Ends(a) \/ Files(a) \/ Inserts(a) \/ Carries(a)
<1> DEFINE Goal == /\ Others(a)
                   /\ Ends(a) \/ Files(a) \/ Inserts(a) \/ Carries(a)
<1>1. pc[a] # "done"
    <2>1. ASSUME AbortDeadlock(a) PROVE pc[a] # "done"
        BY <2>1 DEF AbortDeadlock, Deadlocked, WaitCycle, Stuck, Blockers
    <2>2. ASSUME LoseConnection(a) PROVE pc[a] # "done"
        BY <2>2 DEF LoseConnection, Open, Statements
    <2> QED BY <2>1, <2>2
        DEF Taken, Submit, Step, CommitUnacknowledged, FindInbox, ReplayByKey, InsertInbox,
            FindExternal, FindKey, Create, ShareWallet, ReadWallet, FindReference,
            CountRefunds, CountRollbacks, Count, LockWallet, AttachReference, SaveWallet,
            Commit
<1> SUFFICES Goal
    BY <1>1
<1>2. ASSUME NEW e, Abort(a, e) PROVE Goal
    BY <1>2, AbortEnds
<1>3. ASSUME NEW s, Reads(a, s) PROVE Goal
    BY <1>3 DEF Reads, Goto, tables, Others, Carries, Sessions, TypeOK
<1>4. ASSUME NEW s, Goto(a, s), UNCHANGED <<tables, cmd, move, ref>>,
             UNCHANGED row
      PROVE  Goal
    BY <1>4 DEF Goto, tables, Others, Carries, Sessions, TypeOK
<1>5. CASE \E c \in Commands : Submit(a, c)
    <2>1. row[a] = None
        BY <1>5 DEF Submit, Sessions, SessionOK, Written, Booked
    <2> QED BY <1>5, <2>1 DEF Submit, Goto, tables, Others, Carries, Sessions, TypeOK
<1>6. CASE FindInbox(a) \/ InsertInbox(a) \/ FindExternal(a) \/ ShareWallet(a)
    BY <1>2, <1>3, <1>6 DEF FindInbox, InsertInbox, FindExternal, ShareWallet
<1>7. CASE ReplayByKey(a)
    <2>1. CASE Abort(a, "NOT_FOUND")
        BY <1>2, <2>1
    <2>2. CASE UNCHANGED tables /\ \E ans : Return(a, ans)
        BY <2>2, ReturnIsLocal DEF tables, Ends
    <2> QED BY <1>7, <2>1, <2>2 DEF ReplayByKey
<1>8. CASE FindKey(a)
    BY <1>2, <1>3, <1>4, <1>8 DEF FindKey
<1>9. CASE Create(a)
    <2>1. CASE Abort(a, "CONFLICT")
        BY <1>2, <2>1
    <2>2. CASE ~ Abort(a, "CONFLICT")
        <3>1. pc[a] = "create" /\ row[a] = None
            BY <1>9 DEF Create, Sessions, SessionOK, Written, Booked
        <3>2. Free(a)
            BY <1>9, <2>2 DEF Create, Blockers, Free
        <3> QED BY <1>9, <2>2, <3>1, <3>2
            DEF Create, Writes, Goto, tables, Others, Inserts, Sessions, TypeOK
    <2> QED BY <2>1, <2>2
<1>10. CASE ReadWallet(a) \/ FindReference(a) \/ CountRefunds(a) \/ CountRollbacks(a)
            \/ LockWallet(a) \/ AttachReference(a) \/ SaveWallet(a)
    <2>1. row[a] # None
        BY <1>10 DEF ReadWallet, FindReference, CountRefunds, CountRollbacks, Count,
                     LockWallet, AttachReference, SaveWallet, Sessions, SessionOK, Written,
                     Booked
    <2>2. ASSUME NEW r, Writes(a, r), NEW s, Goto(a, s), UNCHANGED <<tables, cmd>>,
                 move' = move \/ \E m : move' = [move EXCEPT ![a] = m],
                 ref' = ref \/ \E t : ref' = [ref EXCEPT ![a] = t]
          PROVE  Goal
        BY <2>1, <2>2 DEF Writes, Goto, tables, Others, Carries, Sessions, TypeOK
    <2>3. ASSUME NEW s, Goto(a, s), UNCHANGED <<tables, cmd, row>>,
                 move' = move \/ \E m : move' = [move EXCEPT ![a] = m],
                 ref' = ref \/ \E t : ref' = [ref EXCEPT ![a] = t]
          PROVE  Goal
        BY <2>1, <2>3 DEF Goto, tables, Others, Carries, Sessions, TypeOK
    <2> QED BY <1>2, <1>10, <2>2, <2>3
        DEF ReadWallet, FindReference, CountRefunds, CountRollbacks, Count, LockWallet,
            AttachReference, SaveWallet, Reject
<1>11. CASE Commit(a) \/ CommitUnacknowledged(a)
    BY <1>11, CommitFiles
<1>12. CASE LoseConnection(a) \/ AbortDeadlock(a)
    BY <1>2, <1>12 DEF LoseConnection, AbortDeadlock
<1> QED BY <1>1, <1>5, <1>6, <1>7, <1>8, <1>9, <1>10, <1>11, <1>12 DEF Taken, Step

-----------------------------------------------------------------------------
(* The unique indexes.  A filed row belongs to a call that is over, and no *)
(* two rows, filed or about to be, share a key or an external id.          *)
KeysAreUnique ==
    /\ \A t \in Committed : pc[t] = "done"
    /\ \A t, u \in Committed : Collide(txs[t].cmd, txs[u].cmd) => t = u
    /\ \A t \in Committed, a \in Attempts :
          row[a] # None => ~ Collide(txs[t].cmd, cmd[a])
    /\ \A a, b \in Attempts :
          row[a] # None /\ row[b] # None /\ Collide(cmd[a], cmd[b]) => a = b

(* A database without transactions has no two of a key.                    *)
LEMMA KeysInit == Init => KeysAreUnique
    BY DEF Init, KeysAreUnique, Committed

(* A step that files nothing and inserts nothing keeps the keys apart.     *)
LEMMA QuietKeepsKeys ==
    ASSUME Sessions, KeysAreUnique, NEW a \in Attempts, Others(a), pc[a] # "done",
           txs' = txs, row'[a] # None => row[a] # None /\ UNCHANGED cmd
    PROVE  KeysAreUnique'
<1>1. Committed' = Committed
    BY DEF Committed
<1>2. \A b \in Attempts : row'[b] # None => row[b] # None /\ cmd'[b] = cmd[b]
    BY DEF Others
<1>3. \A t \in Committed : t # a
    BY DEF KeysAreUnique
<1>4. \A t \in Committed : pc'[t] = pc[t]
    BY <1>3 DEF Others, Committed
<1> QED BY <1>1, <1>2, <1>4 DEF KeysAreUnique

(* Filing a row moves it from the calls to the table.                      *)
LEMMA FilesKeepsKeys ==
    ASSUME Sessions, KeysAreUnique, NEW a \in Attempts, Others(a), pc[a] # "done", Files(a)
    PROVE  KeysAreUnique'
<1>1. row[a].cmd = cmd[a]
    BY DEF Files, Sessions, SessionOK
<1>2. Committed' = Committed \cup {a} /\ a \notin Committed
    BY DEF Files, Committed, KeysAreUnique, Sessions, TypeOK
<1>3. /\ txs'[a] = row[a]
      /\ \A t \in Committed : txs'[t] = txs[t] /\ t # a
    BY <1>2 DEF Files, Sessions, TypeOK, Committed
<1>4. /\ pc'[a] = "done" /\ row'[a] = None /\ row[a] # None
      /\ \A b \in Attempts : row'[b] # None => b # a /\ row[b] # None /\ cmd'[b] = cmd[b]
      /\ \A t \in Committed : pc'[t] = "done"
    BY <1>3 DEF Files, Ended, Others, KeysAreUnique, Committed
<1>5. \A t \in Committed : ~ Collide(txs[t].cmd, cmd[a]) /\ ~ Collide(cmd[a], txs[t].cmd)
    BY <1>4 DEF KeysAreUnique, Collide, SameKey, SameExternalId
<1>6. \A b \in Attempts : row'[b] # None => ~ Collide(cmd[a], cmd[b])
    BY <1>4 DEF KeysAreUnique
<1> QED BY <1>1, <1>2, <1>3, <1>4, <1>5, <1>6 DEF KeysAreUnique

(* A row is inserted only where nobody has its key or its external id.     *)
LEMMA InsertsKeepsKeys ==
    ASSUME Sessions, KeysAreUnique, NEW a \in Attempts, Others(a), Inserts(a)
    PROVE  KeysAreUnique'
<1>1. Committed' = Committed /\ txs' = txs /\ cmd' = cmd
    BY DEF Inserts, Committed
<1>2. \A t \in Committed : pc'[t] = "done"
    BY DEF Inserts, Others, KeysAreUnique, Committed
<1>3. \A b \in Attempts \ {a} :
        row'[b] # None => /\ row[b] # None
                          /\ ~ Collide(cmd[a], cmd[b]) /\ ~ Collide(cmd[b], cmd[a])
    BY DEF Inserts, Free, Others, Collide, SameKey, SameExternalId
<1>4. \A t \in Committed : ~ Collide(txs[t].cmd, cmd[a])
    BY DEF Inserts, Free
<1> QED BY <1>1, <1>2, <1>3, <1>4 DEF KeysAreUnique

(* Every step of every call keeps the keys apart.                          *)
LEMMA StepKeepsKeys == Sessions /\ KeysAreUnique /\ [Next]_vars => KeysAreUnique'
<1> SUFFICES ASSUME Sessions, KeysAreUnique, [Next]_vars PROVE KeysAreUnique'
    OBVIOUS
<1>1. CASE UNCHANGED vars
    BY <1>1 DEF vars, KeysAreUnique, Committed
<1>2. ASSUME NEW a \in Attempts, Taken(a) PROVE KeysAreUnique'
    <2>1. Others(a) /\ pc[a] # "done" /\ (Ends(a) \/ Files(a) \/ Inserts(a) \/ Carries(a))
        BY <1>2, StepsAreLocal
    <2>2. CASE Ends(a) \/ Carries(a)
        BY <2>1, <2>2, QuietKeepsKeys DEF Ends, Ended, Carries
    <2> QED BY <2>1, <2>2, FilesKeepsKeys, InsertsKeepsKeys
<1>3. CASE Next
    BY <1>2, <1>3 DEF Next, Taken
<1> QED BY <1>1, <1>3

(* A key names one transaction, and so does an external id: whatever is    *)
(* retried, redelivered or submitted twice, at once or later.              *)
THEOREM KeysNameOne == Spec => []OneTransactionPerKey
<1>1. KeysAreUnique => OneTransactionPerKey
    BY DEF KeysAreUnique, OneTransactionPerKey, Collide
<1> QED BY <1>1, SessionsInit, StepKeepsSessions, KeysInit, StepKeepsKeys, PTL DEF Spec

-----------------------------------------------------------------------------
(* The wallet's row lock and the foreign key.  Whoever owns a wallet is the*)
(* only call with a row of it past its INSERT.                             *)
OwnersAreAlone ==
    \A w \in Wallets, a, b \in Attempts :
        owner[w] = a /\ HoldsKeyShare(b) /\ cmd[b].wallet = w => a = b

(* At first nothing is locked.                                             *)
LEMMA OwnersInit == Init => OwnersAreAlone
    BY NoneAssumption DEF Init, OwnersAreAlone, HoldsKeyShare

(* A step that grants no FOR UPDATE and at most a share of a wallet that   *)
(* nobody else owns.                                                       *)
LEMMA QuietKeepsOwners ==
    ASSUME Sessions, OwnersAreAlone, NEW a \in Attempts, Others(a),
           \A w \in Wallets : owner'[w] \in {owner[w], None},
           HoldsKeyShare(a)' =>
               /\ UNCHANGED cmd
               /\ \/ HoldsKeyShare(a)
                  \/ \A b \in Attempts \ {a} : owner[cmd[a].wallet] # b
    PROVE  OwnersAreAlone'
<1> SUFFICES ASSUME NEW w \in Wallets, NEW b \in Attempts, NEW c \in Attempts,
                    owner'[w] = b, HoldsKeyShare(c)', cmd'[c].wallet = w
             PROVE  b = c
    BY DEF OwnersAreAlone
<1>1. owner[w] = b
    BY NoneAssumption
<1>2. CASE c = a
    BY <1>1, <1>2 DEF OwnersAreAlone
<1>3. CASE c # a
    BY <1>1, <1>3 DEF OwnersAreAlone, Others, HoldsKeyShare
<1> QED BY <1>2, <1>3

(* FOR UPDATE is granted when nobody else owns the wallet or shares it.    *)
LEMMA LockKeepsOwners ==
    ASSUME Sessions, OwnersAreAlone, NEW a \in Attempts, Others(a), UNCHANGED cmd,
           pc[a] = "lockWallet", Blockers(a) = {}, owner' = [owner EXCEPT ![cmd[a].wallet] = a]
    PROVE  OwnersAreAlone'
<1> SUFFICES ASSUME NEW w \in Wallets, NEW b \in Attempts, NEW c \in Attempts,
                    owner'[w] = b, HoldsKeyShare(c)', cmd[c].wallet = w
             PROVE  b = c
    BY DEF OwnersAreAlone
<1>1. \A d \in Attempts \ {a} :
        ~ (HoldsKeyShare(d) /\ cmd[d].wallet = cmd[a].wallet) /\ owner[cmd[a].wallet] # d
    BY DEF Blockers
<1>2. HoldsKeyShare(a)
    BY DEF Sessions, SessionOK, Written, HoldsKeyShare
<1>3. HoldsKeyShare(c)
    BY <1>2 DEF Others, HoldsKeyShare
<1>4. CASE w = cmd[a].wallet
    BY <1>1, <1>3, <1>4 DEF Sessions, TypeOK
<1>5. CASE w # cmd[a].wallet
    BY <1>3, <1>5 DEF OwnersAreAlone, Sessions, TypeOK
<1> QED BY <1>4, <1>5

(* Every step of every call keeps owners alone.                            *)
LEMMA StepKeepsOwners == Sessions /\ OwnersAreAlone /\ [Next]_vars => OwnersAreAlone'
<1> SUFFICES ASSUME Sessions, OwnersAreAlone, [Next]_vars PROVE OwnersAreAlone'
    OBVIOUS
<1>1. CASE UNCHANGED vars
    BY <1>1 DEF vars, OwnersAreAlone, HoldsKeyShare
<1>2. ASSUME NEW a \in Attempts, Taken(a) PROVE OwnersAreAlone'
    <2>1. Others(a)
        BY <1>2, StepsAreLocal
    <2>2. ASSUME \E ans : Return(a, ans) PROVE OwnersAreAlone'
        <3>1. \A w \in Wallets : owner'[w] \in {owner[w], None}
            BY <2>2 DEF Return
        <3>2. ~ HoldsKeyShare(a)'
            BY <2>2, ReturnIsLocal DEF Ended, HoldsKeyShare
        <3> QED BY <2>1, <3>1, <3>2, QuietKeepsOwners
    <2>3. ASSUME NEW e, Abort(a, e) PROVE OwnersAreAlone'
        BY <2>2, <2>3 DEF Abort
    <2>4. ASSUME UNCHANGED <<owner, cmd>>, HoldsKeyShare(a)' => HoldsKeyShare(a)
          PROVE  OwnersAreAlone'
        BY <2>1, <2>4, QuietKeepsOwners
    <2>5. CASE \E c \in Commands : Submit(a, c)
        <3>1. ~ HoldsKeyShare(a)'
            BY <2>5 DEF Submit, Goto, HoldsKeyShare, Sessions, TypeOK
        <3>2. UNCHANGED owner
            BY <2>5 DEF Submit
        <3> QED BY <2>1, <3>1, <3>2, QuietKeepsOwners
    <2>6. CASE FindInbox(a) \/ InsertInbox(a) \/ FindExternal(a)
        BY <2>3, <2>4, <2>6
        DEF FindInbox, InsertInbox, FindExternal, Reads, Goto, HoldsKeyShare, Sessions, TypeOK
    <2>7. CASE ReplayByKey(a) \/ Commit(a) \/ CommitUnacknowledged(a)
        BY <2>2, <2>3, <2>7 DEF ReplayByKey, Commit, CommitUnacknowledged
    <2>8. CASE FindKey(a)
        <3>1. row[a] = None
            BY <2>8 DEF FindKey, Sessions, SessionOK, Written, Booked
        <3> QED BY <2>3, <2>4, <2>8, <3>1
            DEF FindKey, Reads, Goto, HoldsKeyShare, Sessions, TypeOK
    <2>9. CASE Create(a)
        BY <2>3, <2>4, <2>9 DEF Create, Goto, HoldsKeyShare, Sessions, TypeOK
    <2>10. CASE ShareWallet(a)
        <3>1. CASE Abort(a, "UNKNOWN_WALLET")
            BY <2>3, <3>1
        <3>2. CASE ~ Abort(a, "UNKNOWN_WALLET")
            <4>1. /\ cmd[a].wallet \in Wallets /\ Blockers(a) = {} /\ pc[a] = "shareWallet"
                  /\ UNCHANGED <<owner, cmd>>
                BY <2>10, <3>2 DEF ShareWallet, Reads
            <4>2. \A b \in Attempts \ {a} : owner[cmd[a].wallet] # b
                BY <4>1 DEF Blockers
            <4> QED BY <2>1, <4>1, <4>2, QuietKeepsOwners
        <3> QED BY <3>1, <3>2
    <2>11. CASE ReadWallet(a) \/ FindReference(a) \/ CountRefunds(a) \/ CountRollbacks(a)
               \/ AttachReference(a) \/ SaveWallet(a)
        <3>1. HoldsKeyShare(a)
            BY <2>11 DEF ReadWallet, FindReference, CountRefunds, CountRollbacks, Count,
                         AttachReference, SaveWallet, Sessions, SessionOK, Written, Booked,
                         HoldsKeyShare
        <3> QED BY <2>3, <2>4, <2>11, <3>1
            DEF ReadWallet, FindReference, CountRefunds, CountRollbacks, Count,
                AttachReference, SaveWallet
    <2>12. CASE LockWallet(a)
        BY <2>1, <2>3, <2>12, LockKeepsOwners DEF LockWallet
    <2>13. CASE LoseConnection(a) \/ AbortDeadlock(a)
        BY <2>3, <2>13 DEF LoseConnection, AbortDeadlock
    <2> QED BY <1>2, <2>5, <2>6, <2>7, <2>8, <2>9, <2>10, <2>11, <2>12, <2>13
        DEF Taken, Step
<1>3. CASE Next
    BY <1>2, <1>3 DEF Next, Taken
<1> QED BY <1>1, <1>3

-----------------------------------------------------------------------------
(* Deadlocks.  Whoever owns a wallet has what it waited for: it is past    *)
(* LockWallet and waits for nothing any more.                              *)
Past(a) == pc[a] \in Booked \cup {"commit"}
OwnersAreServed == \A w \in Wallets : owner[w] # None => Past(owner[w])

(* At first nothing is owned.                                              *)
LEMMA ServedInit == Init => OwnersAreServed
    BY DEF Init, OwnersAreServed

(* A step that grants no FOR UPDATE, of a call that owns nothing or stays  *)
(* past LockWallet.                                                        *)
LEMMA QuietKeepsServed ==
    ASSUME Sessions, OwnersAreServed, NEW a \in Attempts, Others(a),
           \A w \in Wallets : owner'[w] \in {owner[w], None},
           Past(a) => Past(a)'
    PROVE  OwnersAreServed'
<1> SUFFICES ASSUME NEW w \in Wallets, owner'[w] # None
             PROVE  pc'[owner'[w]] \in Booked \cup {"commit"}
    BY DEF OwnersAreServed, Past
<1>1. owner'[w] = owner[w] /\ owner[w] \in Attempts
    BY DEF Sessions, TypeOK
<1>2. PICK b \in Attempts : b = owner[w]
    BY <1>1
<1>3. Past(b)
    BY <1>1, <1>2 DEF OwnersAreServed
<1>4. pc'[b] \in Booked \cup {"commit"}
    BY <1>3 DEF Others, Past
<1> QED BY <1>1, <1>2, <1>4

(* A call that returns releases what it owned.                             *)
LEMMA ReturnKeepsServed ==
    ASSUME Sessions, OwnersAreServed, NEW a \in Attempts, NEW ans, Return(a, ans)
    PROVE  OwnersAreServed'
<1> SUFFICES ASSUME NEW w \in Wallets, owner'[w] # None
             PROVE  pc'[owner'[w]] \in Booked \cup {"commit"}
    BY DEF OwnersAreServed, Past
<1>1. owner'[w] = owner[w] /\ owner[w] # a /\ owner[w] \in Attempts
    BY DEF Return, Sessions, TypeOK
<1>2. PICK b \in Attempts \ {a} : b = owner[w]
    BY <1>1
<1>3. Past(b)
    BY <1>1, <1>2 DEF OwnersAreServed
<1>4. pc'[b] \in Booked \cup {"commit"}
    BY <1>3, ReturnIsLocal DEF Others, Past
<1> QED BY <1>1, <1>2, <1>4

(* FOR UPDATE takes its new owner past LockWallet.                         *)
LEMMA LockKeepsServed ==
    ASSUME Sessions, OwnersAreServed, NEW a \in Attempts, Others(a), pc[a] = "lockWallet",
           owner' = [owner EXCEPT ![cmd[a].wallet] = a], Past(a)'
    PROVE  OwnersAreServed'
<1> SUFFICES ASSUME NEW w \in Wallets, owner'[w] # None
             PROVE  pc'[owner'[w]] \in Booked \cup {"commit"}
    BY DEF OwnersAreServed, Past
<1>1. CASE owner'[w] = a
    BY <1>1 DEF Past
<1>2. CASE owner'[w] # a
    <2>1. owner'[w] = owner[w] /\ owner[w] \in Attempts
        BY <1>2 DEF Sessions, TypeOK
    <2>2. PICK b \in Attempts \ {a} : b = owner[w]
        BY <1>2, <2>1
    <2>3. Past(b)
        BY <2>1, <2>2 DEF OwnersAreServed
    <2>4. pc'[b] \in Booked \cup {"commit"}
        BY <2>3 DEF Others, Past
    <2> QED BY <2>1, <2>2, <2>4
<1> QED BY <1>1, <1>2

(* Every step of every call keeps owners served.                           *)
LEMMA StepKeepsServed == Sessions /\ OwnersAreServed /\ [Next]_vars => OwnersAreServed'
<1> SUFFICES ASSUME Sessions, OwnersAreServed, [Next]_vars PROVE OwnersAreServed'
    OBVIOUS
<1>1. CASE UNCHANGED vars
    BY <1>1 DEF vars, OwnersAreServed, Past
<1>2. ASSUME NEW a \in Attempts, Taken(a) PROVE OwnersAreServed'
    <2>1. Others(a)
        BY <1>2, StepsAreLocal
    <2>2. ASSUME NEW ans, Return(a, ans) PROVE OwnersAreServed'
        BY <2>2, ReturnKeepsServed
    <2>3. ASSUME NEW e, Abort(a, e) PROVE OwnersAreServed'
        BY <2>2, <2>3 DEF Abort
    <2>4. ASSUME UNCHANGED owner, ~ Past(a) PROVE OwnersAreServed'
        BY <2>1, <2>4, QuietKeepsServed
    <2>5. CASE \/ \E c \in Commands : Submit(a, c)
               \/ FindInbox(a) \/ InsertInbox(a) \/ FindExternal(a) \/ FindKey(a)
               \/ Create(a) \/ ShareWallet(a) \/ ReadWallet(a) \/ FindReference(a)
               \/ CountRefunds(a) \/ CountRollbacks(a)
        <3>1. ~ Past(a)
            BY <2>5 DEF Submit, FindInbox, InsertInbox, FindExternal, FindKey, Create,
                ShareWallet, ReadWallet, FindReference, CountRefunds, CountRollbacks, Count,
                Past, Booked
        <3>2. UNCHANGED owner \/ \E e : Abort(a, e)
            BY <2>5 DEF Submit, FindInbox, InsertInbox, FindExternal, FindKey, Create,
                ShareWallet, ReadWallet, FindReference, CountRefunds, CountRollbacks, Count,
                Reads
        <3> QED BY <2>3, <2>4, <3>1, <3>2
    <2>6. CASE ReplayByKey(a) \/ Commit(a) \/ CommitUnacknowledged(a)
        BY <2>2, <2>3, <2>6 DEF ReplayByKey, Commit, CommitUnacknowledged
    <2>7. CASE LockWallet(a)
        <3>1. CASE Abort(a, "CURRENCY_MISMATCH")
            BY <2>3, <3>1
        <3>2. CASE ~ Abort(a, "CURRENCY_MISMATCH")
            <4>1. pc[a] = "lockWallet" /\ owner' = [owner EXCEPT ![cmd[a].wallet] = a]
                BY <2>7, <3>2 DEF LockWallet
            <4>2. \E s \in Booked \cup {"commit"} : pc' = [pc EXCEPT ![a] = s]
                BY <2>7, <3>2 DEF LockWallet, Goto, Reject, Booked
            <4>3. Past(a)'
                BY <4>2 DEF Past, Sessions, TypeOK
            <4> QED BY <2>1, <4>1, <4>3, LockKeepsServed
        <3> QED BY <3>1, <3>2
    <2>8. CASE AttachReference(a) \/ SaveWallet(a)
        <3>1. CASE \E e : Abort(a, e)
            BY <2>3, <3>1
        <3>2. CASE ~ \E e : Abort(a, e)
            <4>1. UNCHANGED owner /\ \E s \in Booked \cup {"commit"} : pc' = [pc EXCEPT ![a] = s]
                BY <2>8, <3>2 DEF AttachReference, SaveWallet, Goto, Booked
            <4>2. Past(a)'
                BY <4>1 DEF Past, Sessions, TypeOK
            <4> QED BY <2>1, <4>1, <4>2, QuietKeepsServed
        <3> QED BY <3>1, <3>2
    <2>9. CASE LoseConnection(a) \/ AbortDeadlock(a)
        BY <2>3, <2>9 DEF LoseConnection, AbortDeadlock
    <2> QED BY <1>2, <2>5, <2>6, <2>7, <2>8, <2>9 DEF Taken, Step
<1>3. CASE Next
    BY <1>2, <1>3 DEF Next, Taken
<1> QED BY <1>1, <1>3

(* Statements wait for statements further on: in a cycle nobody can wait   *)
(* for an index or for the foreign key.                                    *)
LEMMA StuckWaitForWallets ==
    ASSUME Sessions, OwnersAreServed, NEW S \in SUBSET Attempts, Stuck(S), NEW a \in S
    PROVE  /\ pc[a] \in {"insertInbox", "create", "lockWallet"}
           /\ pc[a] = "create" => \E b \in S : pc[b] = "lockWallet"
           /\ pc[a] = "insertInbox" => \E b \in S : pc[b] \in {"create", "lockWallet"}
           /\ pc[a] = "lockWallet" =>
                 \E b \in S : /\ b \in Blockers(a) /\ pc[b] = "lockWallet"
                             /\ cmd[b].wallet = cmd[a].wallet
<1>1. ASSUME NEW b \in S
      PROVE  pc[b] \in {"insertInbox", "create", "shareWallet", "lockWallet"}
    BY DEF Stuck, Blockers
<1>2. ASSUME NEW b \in S, NEW w \in Wallets PROVE owner[w] # b
    BY <1>1, NoneAssumption DEF OwnersAreServed, Past, Booked
<1>3. ASSUME NEW b \in S PROVE pc[b] # "shareWallet"
    BY <1>2 DEF Stuck, Blockers
<1>4. PICK b \in Attempts \ {a} : b \in S /\ b \in Blockers(a)
    BY DEF Stuck, Blockers
<1>5. pc[a] \in {"insertInbox", "create", "lockWallet"}
      /\ pc[b] \in {"insertInbox", "create", "lockWallet"}
    BY <1>1, <1>3, <1>4
<1>6. CASE pc[a] = "create"
    <2>1. row[b] # None
        BY <1>4, <1>6 DEF Blockers
    <2>2. pc[b] \in Written
        BY <1>5, <2>1 DEF Sessions, SessionOK
    <2> QED BY <1>4, <1>5, <1>6, <2>2 DEF Written, Booked
<1>7. CASE pc[a] = "insertInbox"
    <2>1. pc[b] # "insertInbox"
        BY <1>4, <1>7 DEF Blockers, HoldsInbox
    <2> QED BY <1>4, <1>5, <1>7, <2>1
<1>8. CASE pc[a] = "lockWallet"
    <2>1. cmd[a].wallet \in Wallets
        BY <1>8 DEF Sessions, SessionOK, Written
    <2>2. HoldsKeyShare(b) /\ cmd[b].wallet = cmd[a].wallet
        BY <1>2, <1>4, <1>8, <2>1 DEF Blockers
    <2>3. pc[b] = "lockWallet"
        BY <1>5, <2>2 DEF HoldsKeyShare
    <2> QED BY <1>4, <1>5, <1>8, <2>2, <2>3
<1> QED BY <1>5, <1>6, <1>7, <1>8

(* So a cycle has a member that waits for a wallet, and those that wait for*)
(* the same wallet are stuck by themselves: they are the cycle.            *)
LEMMA CyclesAreOnOneWallet == Sessions /\ OwnersAreServed => DeadlocksAreOnOneWallet
<1> SUFFICES ASSUME Sessions, OwnersAreServed, NEW S \in SUBSET Attempts, S # {}, WaitCycle(S)
             PROVE  \A a, b \in S : pc[a] = "lockWallet" /\ cmd[a].wallet = cmd[b].wallet
    BY DEF DeadlocksAreOnOneWallet
<1>1. Stuck(S)
    BY DEF WaitCycle
<1>2. PICK c \in S : pc[c] = "lockWallet"
    <2>1. ASSUME NEW b \in S, pc[b] = "create" PROVE \E d \in S : pc[d] = "lockWallet"
        BY <1>1, <2>1, StuckWaitForWallets
    <2>2. ASSUME NEW b \in S, pc[b] = "insertInbox" PROVE \E d \in S : pc[d] = "lockWallet"
        <3>1. PICK d \in S : pc[d] \in {"create", "lockWallet"}
            BY <1>1, <2>2, StuckWaitForWallets
        <3> QED BY <2>1, <3>1
    <2>3. PICK b : b \in S
        OBVIOUS
    <2>4. pc[b] \in {"insertInbox", "create", "lockWallet"}
        BY <1>1, <2>3, StuckWaitForWallets
    <2> QED BY <2>1, <2>2, <2>3, <2>4
<1> DEFINE T == {a \in S : pc[a] = "lockWallet" /\ cmd[a].wallet = cmd[c].wallet}
<1>3. Stuck(T)
    <2> SUFFICES ASSUME NEW a \in T PROVE Blockers(a) \cap T # {}
        BY DEF Stuck
    <2>1. PICK b \in S : /\ b \in Blockers(a) /\ pc[b] = "lockWallet"
                        /\ cmd[b].wallet = cmd[a].wallet
        BY <1>1, StuckWaitForWallets
    <2> QED BY <2>1
<1>4. T # {} /\ T \subseteq S
    BY <1>2
<1>5. T = S
    BY <1>3, <1>4 DEF WaitCycle
<1> QED BY <1>5

(* Deadlocks stay within one wallet (processBet to processReversal lock    *)
(* the wallet last): no cycle of waits ever runs through the inbox, a key  *)
(* or the foreign key, nor through two wallets.                            *)
THEOREM DeadlocksStayOnAWallet == Spec => []DeadlocksAreOnOneWallet
<1> QED BY SessionsInit, StepKeepsSessions, ServedInit, StepKeepsServed, CyclesAreOnOneWallet,
           PTL DEF Spec

-----------------------------------------------------------------------------
(* Reversals.  A reversal that has passed both counts waits for its wallet *)
(* or has moved it; one that has validated its reference is at its counts  *)
(* or past them.                                                           *)
Cleared(a) == cmd[a].kind \in Reversals /\ (pc[a] = "lockWallet" \/ move[a] # None)
Validated(a) == pc[a] \in {"countRefunds", "countRollbacks"} \/ Cleared(a)

NotUndone(t) == \A r \in Committed : ~ IsReversalOf(txs[r], t)

(* What a reversal knows at each statement: its reference is on its own    *)
(* wallet, and what a count found absent still is.                         *)
UndoOK(a) ==
    /\ pc[a] \in Written => row[a].status = "PENDING"
    /\ pc[a] = "readWallet" => cmd[a].kind = "LOSS"
    /\ pc[a] = "attachReference" => cmd[a].kind = "WIN"
    /\ row[a] # None /\ row[a].status = "PROCESSED" /\ cmd[a].kind \in Reversals =>
          move[a] # None /\ row[a].resolved = ref[a]
    /\ Validated(a) => ref[a] \in Committed /\ txs[ref[a]].cmd.wallet = cmd[a].wallet
    /\ pc[a] = "countRollbacks" => SuccessfulReversals(ref[a], "REFUND") = {}
    /\ Cleared(a) => NotUndone(ref[a])

UndoneOnce ==
    \A t \in Attempts : \A r1, r2 \in Committed :
        IsReversalOf(txs[r1], t) /\ IsReversalOf(txs[r2], t) => r1 = r2

Undoing == UndoneOnce /\ \A a \in Attempts : UndoOK(a)

(* Without transactions nothing is undone.                                 *)
LEMMA UndoingInit == Init => Undoing
    BY DEF Init, Undoing, UndoneOnce, Committed, UndoOK, Written, Booked, Validated,
           Cleared

(* A call that others leave alone, while no row is filed, knows what it    *)
(* knew.                                                                   *)
LEMMA OthersKeepUndo ==
    ASSUME Undoing, NEW a \in Attempts, Others(a), txs' = txs, UndoOK(a)'
    PROVE  Undoing'
<1>1. Committed' = Committed
    BY DEF Committed
<1>2. ASSUME NEW b \in Attempts \ {a} PROVE UndoOK(b)'
    <2>1. UndoOK(b)
        BY DEF Undoing
    <2> QED BY <1>1, <2>1
        DEF Others, UndoOK, Validated, Cleared, NotUndone, SuccessfulReversals
<1>3. UndoneOnce'
    BY <1>1 DEF Undoing, UndoneOnce
<1> QED BY <1>2, <1>3 DEF Undoing

(* A reversal past its validation shares its wallet row.                   *)
LEMMA ValidatedShares ==
    ASSUME Sessions, NEW a \in Attempts, Validated(a)
    PROVE  HoldsKeyShare(a) /\ cmd[a].wallet \in Wallets
    BY DEF Sessions, SessionOK, Validated, Cleared, HoldsKeyShare, Written, Booked

(* Filing a reversal: it owns the wallet of its reference, so no other     *)
(* call is between its counts and its own commit on that wallet, and what  *)
(* those calls have counted stays true.                                    *)
LEMMA FilesKeepsUndoing ==
    ASSUME Sessions, KeysAreUnique, Money, OwnersAreAlone, Undoing,
           NEW a \in Attempts, Others(a), pc[a] # "done", Files(a)
    PROVE  Undoing'
<1>1. Committed' = Committed \cup {a} /\ a \notin Committed
    BY DEF Files, Committed, KeysAreUnique, Sessions, TypeOK
<1>2. /\ txs'[a] = row[a]
      /\ \A t \in Committed : txs'[t] = txs[t]
    BY <1>1 DEF Files, Sessions, TypeOK, Committed
<1>3. row[a].cmd = cmd[a] /\ UndoOK(a)
    BY DEF Files, Sessions, SessionOK, Undoing
<1>4. ASSUME NEW t, IsReversalOf(row[a], t)
      PROVE  /\ ref[a] = t /\ t \in Committed /\ NotUndone(t)
             /\ owner[txs[t].cmd.wallet] = a /\ txs[t].cmd.wallet \in Wallets
    <2>1. Cleared(a) /\ ref[a] = t /\ move[a] # None
        BY <1>3, <1>4 DEF Files, UndoOK, IsReversalOf, Cleared
    <2>2. owner[cmd[a].wallet] = a /\ cmd[a].wallet \in Wallets
        BY <2>1 DEF Money, LockedReadsAreCurrent, Sessions, SessionOK
    <2> QED BY <1>3, <2>1, <2>2 DEF UndoOK, Validated
<1>5. ASSUME NEW b \in Attempts \ {a}, Validated(b)
      PROVE  ~ IsReversalOf(row[a], ref[b])
    <2>1. HoldsKeyShare(b) /\ txs[ref[b]].cmd.wallet = cmd[b].wallet
        BY <1>5, ValidatedShares DEF Undoing, UndoOK
    <2> QED BY <1>4, <2>1 DEF OwnersAreAlone
<1>6. UndoneOnce'
    <2> SUFFICES ASSUME NEW t \in Attempts, NEW r1 \in Committed', NEW r2 \in Committed',
                        IsReversalOf(txs'[r1], t), IsReversalOf(txs'[r2], t)
                 PROVE  r1 = r2
        BY DEF UndoneOnce
    <2>1. CASE r1 = a \/ r2 = a
        BY <1>1, <1>2, <1>4, <2>1 DEF NotUndone
    <2>2. CASE r1 # a /\ r2 # a
        BY <1>1, <1>2, <2>2 DEF Undoing, UndoneOnce
    <2> QED BY <2>1, <2>2
<1>7. ASSUME NEW b \in Attempts PROVE UndoOK(b)'
    <2>1. CASE b = a
        BY <2>1 DEF Files, Ended, UndoOK, Validated, Cleared, Written, Booked
    <2>2. CASE b # a
        <3>1. UndoOK(b)
            BY DEF Undoing
        <3>2. /\ pc'[b] = pc[b] /\ cmd'[b] = cmd[b] /\ row'[b] = row[b]
              /\ move'[b] = move[b] /\ ref'[b] = ref[b]
            BY <2>2 DEF Others
        <3>3. (Validated(b)' <=> Validated(b)) /\ (Cleared(b)' <=> Cleared(b))
            BY <3>2 DEF Validated, Cleared
        <3>4. Validated(b) => ref[b] \in Committed'
                              /\ txs'[ref[b]].cmd.wallet = cmd[b].wallet
            BY <1>1, <1>2, <3>1 DEF UndoOK
        <3>5. Cleared(b) => NotUndone(ref[b])'
            BY <1>1, <1>2, <1>5, <2>2, <3>1, <3>2 DEF UndoOK, NotUndone, Validated
        <3>6. pc[b] = "countRollbacks" => SuccessfulReversals(ref[b], "REFUND")' = {}
            BY <1>1, <1>2, <1>5, <2>2, <3>1, <3>2
            DEF UndoOK, SuccessfulReversals, Validated
        <3> QED BY <3>1, <3>2, <3>3, <3>4, <3>5, <3>6 DEF UndoOK
    <2> QED BY <2>1, <2>2
<1> QED BY <1>6, <1>7 DEF Undoing

(* A call that ends without filing its row knows nothing any more.         *)
LEMMA EndsKeepsUndoing ==
    ASSUME Sessions, Undoing, NEW a \in Attempts, Others(a), Ends(a)
    PROVE  Undoing'
<1>1. UndoOK(a)'
    BY DEF Ends, Ended, UndoOK, Validated, Cleared, Written, Booked
<1> QED BY <1>1, OthersKeepUndo DEF Ends

(* A call that has not inserted its row yet has nothing to know.           *)
LEMMA EarlyKeepsUndoing ==
    ASSUME Sessions, Undoing, NEW a \in Attempts, Others(a), UNCHANGED <<txs, row, move>>,
           row[a] = None, pc'[a] \notin Written
    PROVE  Undoing'
<1>1. move[a] = None
    BY DEF Sessions, SessionOK
<1>2. UndoOK(a)'
    BY <1>1 DEF UndoOK, Validated, Cleared, Written, Booked
<1> QED BY <1>2, OthersKeepUndo

(* A call whose row is decided without money gives up undoing.             *)
LEMMA DecideKeepsUndoing ==
    ASSUME Sessions, Undoing, NEW a \in Attempts, Others(a), UNCHANGED <<txs, cmd, move>>,
           pc[a] \in Written \ Booked, Goto(a, "commit"),
           cmd[a].kind \notin Reversals \/ row'[a].status # "PROCESSED"
    PROVE  Undoing'
<1>1. move[a] = None /\ pc'[a] = "commit"
    BY DEF Sessions, TypeOK, SessionOK, Written, Booked, Goto
<1>2. UndoOK(a)'
    BY <1>1 DEF UndoOK, Validated, Cleared, Written, Booked
<1> QED BY <1>2, OthersKeepUndo

(* rejectAndSave and the parking of a row do so.                           *)
LEMMA RejectKeepsUndoing ==
    ASSUME Sessions, Undoing, NEW a \in Attempts, Others(a), UNCHANGED <<tables, cmd, move>>,
           pc[a] \in Written \ Booked,
           \/ \E code : Reject(a, code)
           \/ Writes(a, MarkPendingReference(row[a])) /\ Goto(a, "commit")
    PROVE  Undoing'
<1>1. row[a] \in Rows
    BY DEF Sessions, TypeOK, SessionOK
<1>2. /\ \A code : MarkRejected(row[a], code).status = "REJECTED"
      /\ MarkPendingReference(row[a]).status = "PENDING_REFERENCE"
    BY <1>1 DEF MarkRejected, MarkPendingReference, Rows
<1>3. /\ Goto(a, "commit")
      /\ \/ \E code : row'[a] = MarkRejected(row[a], code)
         \/ row'[a] = MarkPendingReference(row[a])
    BY DEF Reject, Writes, Sessions, TypeOK
<1>4. row'[a].status # "PROCESSED"
    BY <1>2, <1>3
<1> QED BY <1>3, <1>4, DecideKeepsUndoing DEF tables

(* A fresh row is PENDING.                                                 *)
LEMMA CreateKeepsUndoing ==
    ASSUME Sessions, Undoing, NEW a \in Attempts, Others(a), Create(a) PROVE Undoing'
<1>1. CASE Abort(a, "CONFLICT")
    BY <1>1, AbortEnds, EndsKeepsUndoing
<1>2. CASE ~ Abort(a, "CONFLICT")
    <2>1. /\ row'[a].status = "PENDING" /\ pc'[a] = "shareWallet"
          /\ UNCHANGED <<tables, cmd, move>>
        BY <1>2 DEF Create, Writes, NewRow, Goto, Sessions, TypeOK
    <2>2. move[a] = None
        BY DEF Create, Sessions, SessionOK, Booked
    <2>3. UndoOK(a)'
        BY <2>1, <2>2 DEF UndoOK, Validated, Cleared, Written, Booked
    <2> QED BY <2>1, <2>3, OthersKeepUndo DEF tables
<1> QED BY <1>1, <1>2

(* Past the foreign key a reversal still has everything to find out.       *)
LEMMA ShareWalletKeepsUndoing ==
    ASSUME Sessions, Undoing, NEW a \in Attempts, Others(a), ShareWallet(a) PROVE Undoing'
<1>1. CASE Abort(a, "UNKNOWN_WALLET")
    BY <1>1, AbortEnds, EndsKeepsUndoing
<1>2. CASE ~ Abort(a, "UNKNOWN_WALLET")
    <2> DEFINE s == CASE cmd[a].kind \in {"BET", "WIN"} -> "lockWallet"
                      [] cmd[a].kind = "LOSS"           -> "readWallet"
                      [] cmd[a].kind \in Reversals      -> "findReference"
    <2>1. Reads(a, s) /\ pc[a] = "shareWallet" /\ cmd[a].kind \in Kinds
        BY <1>2, CommandsAssumption
        DEF ShareWallet, Sessions, TypeOK, SessionOK
    <2>2. \/ s = "lockWallet" /\ cmd[a].kind \notin Reversals
          \/ s = "readWallet" /\ cmd[a].kind = "LOSS"
          \/ s = "findReference"
        BY <2>1 DEF Kinds, Reversals
    <2>3. /\ pc'[a] = s /\ move[a] = None /\ row[a].status = "PENDING"
          /\ UNCHANGED <<tables, cmd, row, move>>
        BY <2>1 DEF Reads, Goto, Sessions, TypeOK, SessionOK, Booked, Undoing, UndoOK, Written
    <2> HIDE DEF s
    <2>4. UndoOK(a)'
        BY <2>2, <2>3 DEF UndoOK, Validated, Cleared
    <2> QED BY <2>3, <2>4, OthersKeepUndo DEF tables
<1> QED BY <1>1, <1>2

(* A validated reference is committed and on the reversal's own wallet.    *)
LEMMA FindReferenceKeepsUndoing ==
    ASSUME Sessions, KeysAreUnique, Undoing, NEW a \in Attempts, Others(a), FindReference(a)
    PROVE  Undoing'
<1>1. /\ pc[a] = "findReference" /\ row[a] # None /\ cmd[a].kind \in Reversals
      /\ UNCHANGED <<tables, cmd, move>> /\ pc[a] \in Written \ Booked
    BY DEF FindReference, Sessions, SessionOK, Written, Booked
<1>2. CASE \/ \E code : Reject(a, code)
           \/ Writes(a, MarkPendingReference(row[a])) /\ Goto(a, "commit")
    BY <1>1, <1>2, RejectKeepsUndoing
<1>3. ASSUME NEW t \in ByExternalId(a, cmd[a].provider, cmd[a].ref),
             ReferenceFault(cmd[a], Seen(a, t)) = None,
             ref' = [ref EXCEPT ![a] = t], Goto(a, "countRefunds"), UNCHANGED row
      PROVE  Undoing'
    <2>1. t \in Attempts /\ Seen(a, t) # None
        BY DEF ByExternalId
    <2>2. t \in Committed
        BY <1>1, <1>3, <2>1, ReferenceIsCommitted
    <2>3. Seen(a, t) = txs[t]
        BY <1>1, <2>2 DEF KeysAreUnique, Seen
    <2>4. txs[t].cmd.wallet = cmd[a].wallet
        <3>1. "REFERENCE_MISMATCH" \in Failures /\ "REFERENCE_NOT_PROCESSED" \in Failures
            BY DEF Failures
        <3> QED BY <1>3, <2>3, <3>1, NoneAssumption DEF ReferenceFault
    <2>5. /\ pc'[a] = "countRefunds" /\ ref'[a] = t /\ move[a] = None
          /\ row[a].status = "PENDING"
        BY <1>1, <1>3, <2>1
        DEF Goto, Sessions, TypeOK, SessionOK, Booked, Undoing, UndoOK, Written
    <2>6. Committed' = Committed
        BY <1>1 DEF tables, Committed
    <2>7. UndoOK(a)'
        BY <1>1, <1>3, <2>2, <2>4, <2>5, <2>6 DEF UndoOK, Validated, Cleared, tables
    <2> QED BY <1>1, <2>7, OthersKeepUndo DEF tables
<1> QED BY <1>2, <1>3 DEF FindReference

(* What a count finds absent, no committed row contradicts.                *)
LEMMA CountKeepsUndoing ==
    ASSUME Sessions, Undoing, NEW a \in Attempts, Others(a), CountRefunds(a) \/ CountRollbacks(a)
    PROVE  Undoing'
<1>1. /\ pc[a] \in {"countRefunds", "countRollbacks"} /\ pc[a] \in Written \ Booked
      /\ cmd[a].kind \in Reversals /\ UNCHANGED <<tables, cmd, move, ref>>
    BY DEF CountRefunds, CountRollbacks, Count, Sessions, SessionOK, Written, Booked
<1>2. CASE \E code : Reject(a, code)
    BY <1>1, <1>2, RejectKeepsUndoing
<1>3. CASE ~ \E code : Reject(a, code)
    <2>1. UNCHANGED row /\ row[a].status = "PENDING" /\ move[a] = None
        BY <1>1, <1>3
        DEF CountRefunds, CountRollbacks, Count, Sessions, SessionOK, Booked, Undoing, UndoOK
    <2>2. /\ ref[a] \in Committed /\ txs[ref[a]].cmd.wallet = cmd[a].wallet
          /\ pc[a] = "countRollbacks" => SuccessfulReversals(ref[a], "REFUND") = {}
        BY <1>1 DEF Undoing, UndoOK, Validated
    <2>3. CASE CountRefunds(a)
        <3>1. pc'[a] = "countRollbacks" /\ SuccessfulReversals(ref[a], "REFUND") = {}
            BY <1>3, <2>3 DEF CountRefunds, Count, Goto, Sessions, TypeOK
        <3> QED BY <1>1, <2>1, <2>2, <3>1, OthersKeepUndo
            DEF UndoOK, Validated, Cleared, SuccessfulReversals, tables, Committed
    <2>4. CASE CountRollbacks(a)
        <3>1. /\ pc[a] = "countRollbacks" /\ pc'[a] = "lockWallet"
              /\ SuccessfulReversals(ref[a], "ROLLBACK") = {}
            BY <1>3, <2>4 DEF CountRollbacks, Count, Goto, Sessions, TypeOK
        <3>2. NotUndone(ref[a])
            BY <2>2, <3>1 DEF NotUndone, SuccessfulReversals, IsReversalOf, Reversals
        <3> QED BY <1>1, <2>1, <2>2, <3>1, <3>2, OthersKeepUndo
            DEF UndoOK, Validated, Cleared, NotUndone, tables, Committed
    <2> QED BY <2>3, <2>4
<1> QED BY <1>2, <1>3

(* The counts of a reversal hold while it computes and books its movement. *)
LEMMA BookingKeepsUndoing ==
    ASSUME Sessions, Undoing, NEW a \in Attempts, Others(a),
           LockWallet(a) \/ AttachReference(a) \/ SaveWallet(a)
    PROVE  Undoing'
<1>1. UndoOK(a) /\ row[a] \in Rows /\ pc[a] \in Written
    BY DEF LockWallet, AttachReference, SaveWallet, Undoing, Sessions, TypeOK, SessionOK,
           Written, Booked
<1>2. ASSUME NEW e, Abort(a, e) PROVE Undoing'
    BY <1>2, AbortEnds, EndsKeepsUndoing
<1>3. ASSUME UndoOK(a)', UNCHANGED tables PROVE Undoing'
    BY <1>3, OthersKeepUndo DEF tables
<1>4. ASSUME UNCHANGED tables
      PROVE  Committed' = Committed /\ \A t : NotUndone(t)' <=> NotUndone(t)
    BY <1>4 DEF tables, Committed, NotUndone
<1>5. CASE LockWallet(a)
    <2>1. CASE \E e : Abort(a, e)
        BY <1>2, <2>1
    <2>2. CASE (\E code : Reject(a, code)) /\ UNCHANGED move /\ UNCHANGED <<tables, cmd>>
        <3>1. pc[a] \in Written \ Booked
            BY <1>5 DEF LockWallet, Written, Booked
        <3> QED BY <2>2, <3>1, RejectKeepsUndoing
    <2>3. CASE /\ Goto(a, IF cmd[a].kind = "WIN" /\ cmd[a].ref # None
                          THEN "attachReference" ELSE "saveWallet")
               /\ UNCHANGED <<tables, cmd, row, ref>>
        <3>1. /\ pc[a] = "lockWallet"
              /\ pc'[a] \in Booked /\ (pc'[a] = "attachReference" => cmd[a].kind = "WIN")
            BY <1>5, <2>3 DEF LockWallet, Goto, Booked, Sessions, TypeOK
        <3>2. Cleared(a)' => Cleared(a)
            BY <2>3, <3>1 DEF Cleared
        <3>3. Committed' = Committed /\ \A t : NotUndone(t)' <=> NotUndone(t)
            BY <1>4, <2>3
        <3>4. txs' = txs
            BY <2>3 DEF tables
        <3>5. UndoOK(a)'
            BY <1>1, <2>3, <3>1, <3>2, <3>3, <3>4 DEF UndoOK, Validated, Booked
        <3> QED BY <1>3, <2>3, <3>5
    <2> QED BY <1>5, <2>1, <2>2, <2>3 DEF LockWallet
<1>6. CASE AttachReference(a)
    <2>1. /\ pc[a] = "attachReference" /\ pc'[a] = "saveWallet" /\ cmd[a].kind = "WIN"
          /\ UNCHANGED <<tables, cmd, row, move>>
        BY <1>1, <1>6 DEF AttachReference, Goto, UndoOK, Sessions, TypeOK
    <2>2. UndoOK(a)'
        BY <1>1, <2>1 DEF UndoOK, Validated, Cleared, Reversals
    <2> QED BY <1>3, <2>1, <2>2
<1>7. CASE SaveWallet(a)
    <2>1. CASE \E e : Abort(a, e)
        BY <1>2, <2>1
    <2>2. CASE ~ \E e : Abort(a, e)
        <3>1. /\ pc[a] = "saveWallet" /\ pc'[a] = "commit" /\ move[a] # None
              /\ UNCHANGED <<tables, cmd, move, ref>>
            BY <1>7, <2>2 DEF SaveWallet, Goto, Sessions, TypeOK, SessionOK, Booked
        <3>2. row'[a].resolved = ref[a]
            <4> DEFINE q == AttachResolvedReference(row[a], ref[a])
            <4>1. q \in [cmd: Commands, status: Statuses, failure: Failures \cup {None},
                         resolved: Attempts \cup {None}, balance: Nat \cup {None}]
                  /\ q.resolved = ref[a]
                BY <1>1 DEF AttachResolvedReference, Rows, Sessions, TypeOK
            <4>2. row'[a] = MarkProcessed(q, move[a].after)
                BY <1>7, <2>2 DEF SaveWallet, Writes, Sessions, TypeOK
            <4> HIDE DEF q
            <4> QED BY <4>1, <4>2 DEF MarkProcessed
        <3>3. Committed' = Committed /\ \A t : NotUndone(t)' <=> NotUndone(t)
            BY <1>4, <3>1
        <3>4. UndoOK(a)'
            BY <1>1, <3>1, <3>2, <3>3
            DEF UndoOK, Validated, Cleared, Written, Booked, tables
        <3> QED BY <1>3, <3>1, <3>4
    <2> QED BY <2>1, <2>2
<1> QED BY <1>5, <1>6, <1>7

(* Every step of every call keeps it so.                                   *)
LEMMA StepKeepsUndoing ==
    Sessions /\ KeysAreUnique /\ Money /\ OwnersAreAlone /\ Undoing /\ [Next]_vars => Undoing'
<1> SUFFICES ASSUME Sessions, KeysAreUnique, Money, OwnersAreAlone, Undoing, [Next]_vars
             PROVE  Undoing'
    OBVIOUS
<1>1. CASE UNCHANGED vars
    BY <1>1 DEF vars, Undoing, UndoneOnce, UndoOK, Committed, Validated, Cleared, NotUndone,
                SuccessfulReversals
<1>2. ASSUME NEW a \in Attempts, Taken(a) PROVE Undoing'
    <2>1. Others(a) /\ pc[a] # "done"
        BY <1>2, StepsAreLocal
    <2>2. ASSUME NEW e, Abort(a, e) PROVE Undoing'
        BY <2>1, <2>2, AbortEnds, EndsKeepsUndoing
    <2>3. ASSUME UNCHANGED <<tables, row, move>>, NEW s, Goto(a, s), s \notin Written,
                 pc[a] \notin Written \cup {"commit"}
          PROVE  Undoing'
        <3>1. row[a] = None /\ pc'[a] = s
            BY <2>3 DEF Goto, Sessions, TypeOK, SessionOK
        <3> QED BY <2>1, <2>3, <3>1, EarlyKeepsUndoing DEF tables
    <2>4. CASE (\E c \in Commands : Submit(a, c)) \/ FindInbox(a) \/ InsertInbox(a)
              \/ FindExternal(a) \/ FindKey(a)
        BY <2>2, <2>3, <2>4
        DEF Submit, FindInbox, InsertInbox, FindExternal, FindKey, Reads, Written, Booked
    <2>5. CASE ReplayByKey(a)
        <3>1. CASE UNCHANGED tables /\ \E ans : Return(a, ans)
            BY <2>1, <3>1, ReturnIsLocal, EndsKeepsUndoing DEF tables, Ends
        <3> QED BY <2>2, <2>5, <3>1 DEF ReplayByKey
    <2>6. CASE Create(a) \/ ShareWallet(a)
        BY <2>1, <2>6, CreateKeepsUndoing, ShareWalletKeepsUndoing
    <2>7. CASE ReadWallet(a)
        <3>1. cmd[a].kind = "LOSS" /\ pc[a] \in Written \ Booked
            BY <2>7 DEF ReadWallet, Undoing, UndoOK, Written, Booked
        <3> QED BY <2>1, <2>7, <3>1, DecideKeepsUndoing DEF ReadWallet, tables, Reversals
    <2>8. CASE FindReference(a) \/ CountRefunds(a) \/ CountRollbacks(a)
        BY <2>1, <2>8, FindReferenceKeepsUndoing, CountKeepsUndoing
    <2>9. CASE LockWallet(a) \/ AttachReference(a) \/ SaveWallet(a)
        BY <2>1, <2>9, BookingKeepsUndoing
    <2>10. CASE Commit(a) \/ CommitUnacknowledged(a)
        BY <2>1, <2>10, CommitFiles, EndsKeepsUndoing, FilesKeepsUndoing
    <2>11. CASE LoseConnection(a) \/ AbortDeadlock(a)
        BY <2>2, <2>11 DEF LoseConnection, AbortDeadlock
    <2> QED BY <1>2, <2>4, <2>5, <2>6, <2>7, <2>8, <2>9, <2>10, <2>11 DEF Taken, Step
<1>3. CASE Next
    BY <1>2, <1>3 DEF Next, Taken
<1> QED BY <1>1, <1>3

(* A transaction is undone at most once, by a REFUND or by a ROLLBACK,     *)
(* whatever runs at the same time: the share lock that the INSERT of a     *)
(* reversal takes on its wallet is what keeps its counts true.             *)
THEOREM UndoneAtMostOnce == Spec => []AtMostOneReversal
<1>1. Undoing => AtMostOneReversal
    BY DEF Undoing, UndoneOnce, AtMostOneReversal, Committed
<1> QED BY <1>1, SessionsInit, StepKeepsSessions, MoneyInit, StepKeepsMoney, KeysInit,
           StepKeepsKeys, OwnersInit, StepKeepsOwners, UndoingInit, StepKeepsUndoing, PTL
    DEF Spec

-----------------------------------------------------------------------------
(* The inbox: whose record stands for a message whose payload has been     *)
(* dealt with.                                                             *)

(* A transaction with the payload of a hash is committed.                  *)
DealtWith(hash) == \E t \in Committed : CanonicalHash(txs[t].cmd) = hash

(* A call about to commit has a row with its payload to file, or has found *)
(* one that is filed.                                                      *)
Prepared(a) == pc[a] = "commit" => row[a] # None \/ DealtWith(CanonicalHash(cmd[a]))

Backing == InboxRecordsAreBacked /\ \A a \in Attempts : Prepared(a)

(* At first there are no records.                                          *)
LEMMA BackingInit == Init => Backing
    BY DEF Init, Backing, InboxRecordsAreBacked, Prepared

(* What is dealt with stays so.                                            *)
LEMMA DealtWithStays ==
    ASSUME Sessions, KeysAreUnique, NEW a \in Attempts, NEW hash, pc[a] # "done",
           txs' = txs \/ Files(a), DealtWith(hash)
    PROVE  DealtWith(hash)'
<1>1. PICK t \in Committed : CanonicalHash(txs[t].cmd) = hash
    BY DEF DealtWith
<1>2. t # a /\ t \in Attempts
    BY DEF KeysAreUnique, Committed
<1>3. txs'[t] = txs[t]
    BY <1>2 DEF Files, Sessions, TypeOK
<1>4. t \in Committed'
    BY <1>3 DEF Committed
<1> QED BY <1>1, <1>3, <1>4 DEF DealtWith

(* Other calls stay prepared, and records stay backed.                     *)
LEMMA OthersStayPrepared ==
    ASSUME Sessions, KeysAreUnique, Backing, NEW a \in Attempts, Others(a), pc[a] # "done",
           txs' = txs \/ Files(a)
    PROVE  /\ \A b \in Attempts \ {a} : Prepared(b)'
           /\ \A m \in Messages : inbox[m] # None =>
                 /\ inbox[m].completed
                 /\ \E t \in Committed' : CanonicalHash(txs'[t].cmd) = inbox[m].hash
<1>1. ASSUME NEW b \in Attempts \ {a} PROVE Prepared(b)'
    <2>1. Prepared(b) /\ pc'[b] = pc[b] /\ row'[b] = row[b] /\ cmd'[b] = cmd[b]
        BY DEF Backing, Others
    <2>2. PICK h : h = CanonicalHash(cmd[b])
        OBVIOUS
    <2>3. DealtWith(h) => DealtWith(h)'
        BY DealtWithStays
    <2>4. CanonicalHash(cmd[b])' = h
        BY <2>1, <2>2 DEF CanonicalHash
    <2> QED BY <2>1, <2>2, <2>3, <2>4 DEF Prepared, DealtWith
<1>2. ASSUME NEW m \in Messages, inbox[m] # None
      PROVE  /\ inbox[m].completed
             /\ \E t \in Committed' : CanonicalHash(txs'[t].cmd) = inbox[m].hash
    <2>1. inbox[m].completed /\ DealtWith(inbox[m].hash)
        BY <1>2 DEF Backing, InboxRecordsAreBacked, DealtWith
    <2>2. PICK h : h = inbox[m].hash
        OBVIOUS
    <2>3. DealtWith(h)'
        BY <2>1, <2>2, DealtWithStays
    <2> QED BY <2>1, <2>2, <2>3 DEF DealtWith, CanonicalHash
<1> QED BY <1>1, <1>2

(* A step that leaves the inbox alone, and does not take its call to a     *)
(* commit with nothing in hand.                                            *)
LEMMA QuietKeepsBacking ==
    ASSUME Sessions, KeysAreUnique, Backing, NEW a \in Attempts, Others(a), pc[a] # "done",
           txs' = txs \/ Files(a), UNCHANGED inbox, Prepared(a)'
    PROVE  Backing'
<1>1. InboxRecordsAreBacked'
    BY OthersStayPrepared DEF InboxRecordsAreBacked, CanonicalHash
<1>2. \A b \in Attempts : Prepared(b)'
    BY OthersStayPrepared
<1> QED BY <1>1, <1>2 DEF Backing

(* A commit completes the record of a message whose payload it files, or   *)
(* has found filed.                                                        *)
LEMMA CommitKeepsBacking ==
    ASSUME Sessions, KeysAreUnique, Backing, NEW a \in Attempts,
           Commit(a) \/ CommitUnacknowledged(a)
    PROVE  Backing'
<1>1. /\ pc[a] = "commit" /\ pc[a] # "done" /\ Publish(a) /\ Others(a) /\ pc'[a] = "done"
      /\ Ends(a) \/ Files(a)
    BY CommitFiles DEF Commit, CommitUnacknowledged, Ends, Files, Ended
<1>2. txs' = txs \/ Files(a)
    BY <1>1 DEF Ends
<1>3. PICK h : h = CanonicalHash(cmd[a])
    OBVIOUS
<1>4. DealtWith(h)'
    <2>1. CASE DealtWith(h)
        BY <1>1, <1>2, <2>1, DealtWithStays
    <2>2. CASE ~ DealtWith(h)
        <3>1. row[a] # None /\ row[a].cmd = cmd[a]
            BY <1>1, <1>3, <2>2 DEF Backing, Prepared, Sessions, SessionOK
        <3>2. txs'[a] = row[a]
            BY <1>1, <3>1 DEF Publish, Sessions, TypeOK
        <3>3. a \in Committed' /\ CanonicalHash(txs'[a].cmd) = h
            BY <1>3, <3>1, <3>2 DEF Committed, CanonicalHash
        <3> QED BY <3>3 DEF DealtWith, CanonicalHash
    <2> QED BY <2>1, <2>2
<1>5. Prepared(a)'
    BY <1>1 DEF Prepared
<1>6. CASE cmd[a].msg = None
    <2>1. UNCHANGED inbox
        BY <1>1, <1>6 DEF Publish
    <2> QED BY <1>1, <1>2, <1>5, <2>1, QuietKeepsBacking
<1>7. CASE cmd[a].msg # None
    <2>1. inbox' = [inbox EXCEPT ![cmd[a].msg] = [hash |-> h, completed |-> TRUE]]
        BY <1>1, <1>3, <1>7 DEF Publish
    <2>2. ASSUME NEW m \in Messages, inbox'[m] # None
          PROVE  /\ inbox'[m].completed
                 /\ \E t \in Committed' : CanonicalHash(txs'[t].cmd) = inbox'[m].hash
        <3>1. CASE m = cmd[a].msg
            <4>1. inbox'[m] = [hash |-> h, completed |-> TRUE]
                BY <2>1, <3>1 DEF Sessions, TypeOK
            <4> QED BY <1>4, <4>1 DEF DealtWith, CanonicalHash
        <3>2. CASE m # cmd[a].msg
            <4>1. inbox'[m] = inbox[m]
                BY <2>1, <3>2 DEF Sessions, TypeOK
            <4> QED BY <1>1, <1>2, <2>2, <4>1, OthersStayPrepared
        <3> QED BY <3>1, <3>2
    <2>3. InboxRecordsAreBacked'
        BY <2>2 DEF InboxRecordsAreBacked, CanonicalHash
    <2>4. \A b \in Attempts : Prepared(b)'
        BY <1>1, <1>2, <1>5, OthersStayPrepared
    <2> QED BY <2>3, <2>4 DEF Backing
<1> QED BY <1>6, <1>7

(* A call that has inserted its row works on it until it commits: each of  *)
(* its statements rolls it back, or leaves it a row and everything that is *)
(* committed as it is.                                                     *)
Working(a) ==
    \/ ReadWallet(a) \/ FindReference(a) \/ CountRefunds(a) \/ CountRollbacks(a)
    \/ LockWallet(a) \/ AttachReference(a) \/ SaveWallet(a)
KeepsRow(a) ==
    /\ row'[a] # None
    /\ pc'[a] \notin {"done", "replayByKey"}
    /\ UNCHANGED <<tables, cmd, answer>>

LEMMA WorkKeepsRow ==
    ASSUME Sessions, NEW a \in Attempts, Working(a)
    PROVE  KeepsRow(a) \/ \E e \in Errors : Abort(a, e)
<1>1. row[a] \in Rows /\ pc[a] \in Written
    BY DEF Working, ReadWallet, FindReference, CountRefunds, CountRollbacks, Count, LockWallet,
           AttachReference, SaveWallet, Sessions, TypeOK, SessionOK, Written, Booked
<1>2. ASSUME NEW r \in Rows, Writes(a, r), NEW s \in Statements \ {"replayByKey"}, Goto(a, s),
             UNCHANGED <<tables, cmd, answer>>
      PROVE  KeepsRow(a)
    BY <1>2, NoneAssumption DEF KeepsRow, Writes, Goto, Statements, Sessions, TypeOK
<1>3. ASSUME NEW code \in Failures, Reject(a, code), UNCHANGED <<tables, cmd, answer>>
      PROVE  KeepsRow(a)
    <2>1. MarkRejected(row[a], code) \in Rows
        BY <1>1, RowTransitions
    <2> QED BY <1>2, <1>3, <2>1 DEF Reject, Statements
<1>4. ASSUME NEW s \in Statements \ {"replayByKey"}, Goto(a, s),
             UNCHANGED <<tables, cmd, answer>>, UNCHANGED row
      PROVE  KeepsRow(a)
    BY <1>1, <1>4, NoneAssumption DEF KeepsRow, Goto, Statements, Sessions, TypeOK
<1>5. CASE ReadWallet(a)
    <2>1. wallets[cmd[a].wallet].balance \in Nat
        BY <1>5 DEF ReadWallet, Sessions, TypeOK, SessionOK, Written, WalletStates
    <2>2. MarkProcessed(row[a], wallets[cmd[a].wallet].balance) \in Rows
        BY <1>1, <2>1, RowTransitions
    <2> QED BY <1>2, <1>5, <2>2 DEF ReadWallet, Statements
<1>6. CASE FindReference(a)
    <2>1. UNCHANGED <<tables, cmd, answer>>
        BY <1>6 DEF FindReference
    <2>2. CASE Writes(a, MarkPendingReference(row[a])) /\ Goto(a, "commit")
        BY <1>1, <1>2, <2>1, <2>2, RowTransitions DEF Statements
    <2>3. ASSUME NEW t, ReferenceFault(cmd[a], Seen(a, t)) # None,
                 Reject(a, ReferenceFault(cmd[a], Seen(a, t)))
          PROVE  KeepsRow(a)
        <3>1. ReferenceFault(cmd[a], Seen(a, t)) \in Failures
            BY <2>3, FaultIsFailure
        <3> QED BY <1>3, <2>1, <2>3, <3>1
    <2>4. CASE Goto(a, "countRefunds") /\ UNCHANGED row
        BY <1>4, <2>1, <2>4 DEF Statements
    <2> QED BY <1>6, <2>2, <2>3, <2>4 DEF FindReference
<1>7. CASE CountRefunds(a) \/ CountRollbacks(a)
    <2>1. /\ UNCHANGED <<tables, cmd, answer>>
          /\ \/ Reject(a, "DUPLICATE_REVERSAL")
             \/ UNCHANGED row /\ (Goto(a, "countRollbacks") \/ Goto(a, "lockWallet"))
        BY <1>7 DEF CountRefunds, CountRollbacks, Count
    <2>2. "DUPLICATE_REVERSAL" \in Failures
        BY DEF Failures
    <2> QED BY <1>3, <1>4, <2>1, <2>2 DEF Statements
<1>8. CASE LockWallet(a)
    <2>1. CASE Abort(a, "CURRENCY_MISMATCH")
        BY <2>1 DEF Errors
    <2>2. CASE ~ Abort(a, "CURRENCY_MISMATCH")
        <3>1. /\ UNCHANGED <<tables, cmd, answer>>
              /\ \/ \E code \in {"INSUFFICIENT_FUNDS", "REVERSAL_EXCEEDS_BALANCE"} :
                       Reject(a, code)
                 \/ UNCHANGED row /\ (Goto(a, "attachReference") \/ Goto(a, "saveWallet"))
            BY <1>8, <2>2 DEF LockWallet
        <3>2. {"INSUFFICIENT_FUNDS", "REVERSAL_EXCEEDS_BALANCE"} \subseteq Failures
            BY DEF Failures
        <3> QED BY <1>3, <1>4, <3>1, <3>2 DEF Statements
    <2> QED BY <2>1, <2>2
<1>9. CASE AttachReference(a)
    BY <1>4, <1>9 DEF AttachReference, Statements
<1>10. CASE SaveWallet(a)
    <2>1. CASE Abort(a, "OPTIMISTIC_LOCK")
        BY <2>1 DEF Errors
    <2>2. CASE ~ Abort(a, "OPTIMISTIC_LOCK")
        <3> DEFINE q == AttachResolvedReference(row[a], ref[a])
        <3>1. move[a].after \in Nat /\ ref[a] \in Attempts \cup {None}
            BY <1>10 DEF SaveWallet, Sessions, TypeOK, SessionOK, Written, Booked, Movements
        <3>2. q \in Rows
            BY <1>1, <3>1, RowTransitions
        <3>3. /\ Writes(a, MarkProcessed(q, move[a].after)) /\ Goto(a, "commit")
              /\ UNCHANGED <<tables, cmd, answer>>
            BY <1>10, <2>2 DEF SaveWallet
        <3> HIDE DEF q
        <3> QED BY <1>2, <3>1, <3>2, <3>3, RowTransitions DEF Statements
    <2> QED BY <2>1, <2>2
<1> QED BY <1>5, <1>6, <1>7, <1>8, <1>9, <1>10 DEF Working

(* Every step of every call keeps it so.                                   *)
LEMMA StepKeepsBacking == Sessions /\ KeysAreUnique /\ Backing /\ [Next]_vars => Backing'
<1> SUFFICES ASSUME Sessions, KeysAreUnique, Backing, [Next]_vars PROVE Backing'
    OBVIOUS
<1>1. CASE UNCHANGED vars
    BY <1>1 DEF vars, Backing, InboxRecordsAreBacked, Prepared, DealtWith, Committed,
                CanonicalHash
<1>2. ASSUME NEW a \in Attempts, Taken(a) PROVE Backing'
    <2>1. Others(a) /\ pc[a] # "done"
        BY <1>2, StepsAreLocal
    <2>2. ASSUME UNCHANGED tables, Prepared(a)' PROVE Backing'
        BY <2>1, <2>2, QuietKeepsBacking DEF tables
    <2>3. ASSUME UNCHANGED tables, NEW ans, Return(a, ans) PROVE Backing'
        <3>1. pc'[a] = "done"
            BY <2>3, ReturnIsLocal DEF Ended
        <3> QED BY <2>2, <2>3, <3>1 DEF Prepared
    <2>4. ASSUME NEW e, Abort(a, e) PROVE Backing'
        BY <2>3, <2>4 DEF Abort
    <2>5. ASSUME UNCHANGED tables, NEW s, Goto(a, s), s # "commit" PROVE Backing'
        BY <2>2, <2>5 DEF Goto, Prepared, Sessions, TypeOK
    <2>6. ASSUME Working(a) PROVE Backing'
        <3>1. ASSUME KeepsRow(a) PROVE Backing'
            BY <2>2, <3>1 DEF KeepsRow, Prepared
        <3> QED BY <2>4, <2>6, <3>1, WorkKeepsRow
    <2>8. CASE (\E c \in Commands : Submit(a, c)) \/ FindInbox(a) \/ InsertInbox(a)
              \/ FindExternal(a) \/ Create(a)
        BY <2>4, <2>5, <2>8 DEF Submit, FindInbox, InsertInbox, FindExternal, Create, Reads
    <2>9. CASE ReplayByKey(a)
        BY <2>3, <2>4, <2>9 DEF ReplayByKey
    <2>10. CASE FindKey(a)
        <3>1. ASSUME NEW t \in ByKey(cmd[a]), CanonicalHash(txs[t].cmd) = CanonicalHash(cmd[a]),
                     UNCHANGED <<tables, cmd>>
              PROVE  Backing'
            <4>1. t \in Committed' /\ txs'[t] = txs[t]
                BY <3>1 DEF ByKey, Committed, tables
            <4>2. Prepared(a)'
                BY <3>1, <4>1 DEF Prepared, DealtWith, CanonicalHash
            <4> QED BY <2>2, <3>1, <4>2
        <3> QED BY <2>4, <2>5, <2>10, <3>1 DEF FindKey, Reads
    <2>11. CASE ShareWallet(a)
        <3>1. CASE ~ Abort(a, "UNKNOWN_WALLET")
            <4> DEFINE s == CASE cmd[a].kind \in {"BET", "WIN"} -> "lockWallet"
                              [] cmd[a].kind = "LOSS"           -> "readWallet"
                              [] cmd[a].kind \in Reversals      -> "findReference"
            <4>1. Reads(a, s) /\ cmd[a].kind \in Kinds
                BY <2>11, <3>1, CommandsAssumption
                DEF ShareWallet, Sessions, TypeOK, SessionOK
            <4>2. s # "commit"
                BY <4>1 DEF Kinds, Reversals
            <4> HIDE DEF s
            <4> QED BY <2>5, <4>1, <4>2 DEF Reads
        <3> QED BY <2>4, <3>1
    <2>12. CASE Commit(a) \/ CommitUnacknowledged(a)
        BY <2>12, CommitKeepsBacking
    <2>13. CASE LoseConnection(a) \/ AbortDeadlock(a)
        BY <2>4, <2>13 DEF LoseConnection, AbortDeadlock
    <2> QED BY <1>2, <2>6, <2>8, <2>9, <2>10, <2>11, <2>12, <2>13 DEF Taken, Step, Working
<1>3. CASE Next
    BY <1>2, <1>3 DEF Next, Taken
<1> QED BY <1>1, <1>3

(* An inbox record is completed, and a transaction with its payload is     *)
(* committed, in every state: no crash leaves the one without the other,   *)
(* so a redelivery never finds a message marked as seen and not dealt with.*)
THEOREM RecordsAreBacked == Spec => []InboxRecordsAreBacked
<1>1. Backing => InboxRecordsAreBacked
    BY DEF Backing
<1> QED BY <1>1, SessionsInit, StepKeepsSessions, KeysInit, StepKeepsKeys, BackingInit,
           StepKeepsBacking, PTL DEF Spec
-----------------------------------------------------------------------------
(* Answers.  An inbox record vouches for a payload: a command brought it   *)
(* under the message id, and a transaction with its key and its payload is *)
(* committed.                                                              *)
Vouched(m, hash) ==
    \E c \in Commands, t \in Committed :
        /\ c.msg = m /\ CanonicalHash(c) = hash
        /\ SameKey(txs[t].cmd, c) /\ CanonicalHash(txs[t].cmd) = hash

(* A call about to replay a message has seen its record; one about to      *)
(* commit without a row has its answer, which then stays what is committed.*)
AnswerOK(a) ==
    /\ pc[a] = "replayByKey" => Vouched(cmd[a].msg, CanonicalHash(cmd[a]))
    /\ pc[a] = "commit" /\ row[a] = None => AnswersMatch(a)
    /\ pc[a] = "done" => (answer[a].error = None => AnswersMatch(a))

RecordsVouch == \A m \in Messages : inbox[m] # None => Vouched(m, inbox[m].hash)
Answering == RecordsVouch /\ \A a \in Attempts : AnswerOK(a)

(* At first there are neither records nor answers.                         *)
LEMMA AnsweringInit == Init => Answering
    BY DEF Init, Answering, RecordsVouch, AnswerOK

(* What is committed stays so, while a call takes a step.                  *)
LEMMA CommittedStays ==
    ASSUME Sessions, KeysAreUnique, NEW a \in Attempts, pc[a] # "done",
           txs' = txs \/ Files(a), NEW t \in Committed
    PROVE  t # a /\ t \in Committed' /\ txs'[t] = txs[t]
<1>1. t # a /\ t \in Attempts
    BY DEF KeysAreUnique, Committed
<1>2. txs'[t] = txs[t]
    BY <1>1 DEF Files, Sessions, TypeOK
<1> QED BY <1>1, <1>2 DEF Committed

LEMMA VouchedStays ==
    ASSUME Sessions, KeysAreUnique, NEW a \in Attempts, pc[a] # "done",
           txs' = txs \/ Files(a), NEW m, NEW hash, Vouched(m, hash)
    PROVE  Vouched(m, hash)'
<1>1. PICK c \in Commands, t \in Committed :
          /\ c.msg = m /\ CanonicalHash(c) = hash
          /\ SameKey(txs[t].cmd, c) /\ CanonicalHash(txs[t].cmd) = hash
    BY DEF Vouched
<1>2. t \in Committed' /\ txs'[t] = txs[t]
    BY CommittedStays
<1> QED BY <1>1, <1>2 DEF Vouched, SameKey, CanonicalHash

(* What it takes of the next state for an answer to be right in it.        *)
LEMMA MatchesNext ==
    ASSUME NEW b \in Attempts, NEW t, NEW r, t \in Committed', txs'[t] = r,
           SameKey(r.cmd, cmd'[b]), CanonicalHash(r.cmd) = CanonicalHash(cmd'[b]),
           answer'[b] = Result(t, r, t # b)
    PROVE  AnswersMatch(b)'
<1>1. answer'[b].tx = t
    BY DEF Result
<1> QED BY <1>1 DEF AnswersMatch, SameKey, CanonicalHash, Result

(* An answer stays right as long as nobody changes it.                     *)
LEMMA MatchStays ==
    ASSUME Sessions, KeysAreUnique, NEW a \in Attempts, pc[a] # "done",
           txs' = txs \/ Files(a), NEW b \in Attempts, AnswersMatch(b),
           answer'[b] = answer[b], cmd'[b] = cmd[b]
    PROVE  AnswersMatch(b)'
<1>1. PICK t \in Committed : t = answer[b].tx
    BY DEF AnswersMatch
<1>2. /\ SameKey(txs[t].cmd, cmd[b])
      /\ CanonicalHash(txs[t].cmd) = CanonicalHash(cmd[b])
      /\ answer[b] = Result(t, txs[t], t # b)
    BY <1>1 DEF AnswersMatch
<1>3. t \in Committed' /\ txs'[t] = txs[t]
    BY CommittedStays
<1>4. /\ SameKey(txs'[t].cmd, cmd'[b])
      /\ CanonicalHash(txs'[t].cmd) = CanonicalHash(cmd'[b])
      /\ answer'[b] = Result(t, txs'[t], t # b) /\ t = answer'[b].tx
    BY <1>1, <1>2, <1>3
<1> QED BY <1>3, <1>4 DEF AnswersMatch, SameKey, CanonicalHash, Result

(* A step of a call that leaves the inbox alone and its own answer right.  *)
LEMMA QuietKeepsAnswers ==
    ASSUME Sessions, KeysAreUnique, Answering, NEW a \in Attempts, Others(a), pc[a] # "done",
           txs' = txs \/ Files(a), \A b \in Attempts \ {a} : answer'[b] = answer[b],
           UNCHANGED inbox \/ RecordsVouch', AnswerOK(a)'
    PROVE  Answering'
<1>1. ASSUME NEW m \in Messages, inbox[m] # None PROVE Vouched(m, inbox[m].hash)'
           \/ inbox' # inbox
    <2>1. PICK h : h = inbox[m].hash
        OBVIOUS
    <2>2. Vouched(m, h)'
        BY <1>1, <2>1, VouchedStays DEF Answering, RecordsVouch
    <2> QED BY <2>1, <2>2 DEF Vouched
<1>2. RecordsVouch'
    BY <1>1 DEF RecordsVouch
<1>3. ASSUME NEW b \in Attempts \ {a} PROVE AnswerOK(b)'
    <2>1. /\ AnswerOK(b) /\ pc'[b] = pc[b] /\ row'[b] = row[b] /\ cmd'[b] = cmd[b]
          /\ answer'[b] = answer[b]
        BY DEF Answering, Others
    <2>2. AnswersMatch(b) => AnswersMatch(b)'
        BY <2>1, MatchStays
    <2>3. PICK m, h : m = cmd[b].msg /\ h = CanonicalHash(cmd[b])
        OBVIOUS
    <2>4. Vouched(m, h) => Vouched(m, h)'
        BY VouchedStays
    <2>5. CanonicalHash(cmd'[b]) = h /\ cmd'[b].msg = m
        BY <2>1, <2>3
    <2>6. Vouched(cmd[b].msg, CanonicalHash(cmd[b])) => Vouched(m, h)
        BY <2>3
    <2>7. Vouched(m, h)' => Vouched(cmd[b].msg, CanonicalHash(cmd[b]))'
        BY <2>5 DEF Vouched, CanonicalHash
    <2> QED BY <2>1, <2>2, <2>4, <2>6, <2>7 DEF AnswerOK
<1> QED BY <1>2, <1>3 DEF Answering

(* A known message is replayed by its key: what the key names is what the  *)
(* record vouches for, unless keys are swapped under message ids.          *)
LEMMA ReplayMatches ==
    ASSUME Sessions, KeysAreUnique, SwapsNoKey(Commands), NEW a \in Attempts,
           cmd[a] \in Commands, cmd[a].msg # None,
           Vouched(cmd[a].msg, CanonicalHash(cmd[a])), NEW t \in ByKey(cmd[a])
    PROVE  /\ t \in Committed
           /\ SameKey(txs[t].cmd, cmd[a])
           /\ CanonicalHash(txs[t].cmd) = CanonicalHash(cmd[a])
<1>1. t \in Committed /\ SameKey(txs[t].cmd, cmd[a])
    BY DEF ByKey
<1>2. txs[t].cmd \in Commands
    BY <1>1 DEF Committed, Sessions, TypeOK, Rows
<1>3. PICK c \in Commands, u \in Committed :
          /\ c.msg = cmd[a].msg /\ CanonicalHash(c) = CanonicalHash(cmd[a])
          /\ SameKey(txs[u].cmd, c) /\ CanonicalHash(txs[u].cmd) = CanonicalHash(cmd[a])
    BY DEF Vouched
<1>4. CASE SameKey(c, cmd[a])
    <2>1. SameKey(txs[t].cmd, txs[u].cmd)
        BY <1>1, <1>3, <1>4 DEF SameKey
    <2>2. t = u
        BY <1>1, <2>1 DEF KeysAreUnique, Collide
    <2> QED BY <1>1, <1>3, <2>2
<1>5. CASE ~ SameKey(c, cmd[a])
    <2>1. SameKey(cmd[a], txs[t].cmd)
        BY <1>1 DEF SameKey
    <2> QED BY <1>1, <1>2, <1>3, <1>5, <2>1 DEF SwapsNoKey
<1> QED BY <1>4, <1>5

(* A commit vouches for its message and answers with what it has filed, or *)
(* found filed.                                                            *)
LEMMA CommitKeepsAnswers ==
    ASSUME Sessions, KeysAreUnique, Answering, NEW a \in Attempts,
           Commit(a) \/ CommitUnacknowledged(a)
    PROVE  Answering'
<1>1. /\ pc[a] = "commit" /\ pc[a] # "done" /\ Publish(a) /\ Others(a) /\ pc'[a] = "done"
      /\ Ends(a) \/ Files(a)
    BY CommitFiles DEF Commit, CommitUnacknowledged, Ends, Files, Ended
<1>2. txs' = txs \/ Files(a)
    BY <1>1 DEF Ends
<1>3. cmd' = cmd /\ cmd[a] \in Commands
    BY <1>1 DEF Commit, CommitUnacknowledged, Return, Sessions, SessionOK
<1>4. \A b \in Attempts \ {a} : answer'[b] = answer[b]
    BY DEF Commit, CommitUnacknowledged, Return, Sessions, TypeOK
<1>5. PICK m, h : m = cmd[a].msg /\ h = CanonicalHash(cmd[a])
    OBVIOUS
<1>6. Failure("CONNECTION_LOST").error # None
    BY ErrorsAssumption DEF Failure, Errors
<1>7. AnswerOK(a)' /\ Vouched(m, h)'
    <2>1. CASE row[a] # None
        <3>1. txs'[a] = row[a] /\ row[a].cmd = cmd[a] /\ a \in Committed'
            BY <1>1, <2>1 DEF Publish, Sessions, TypeOK, SessionOK, Committed
        <3>2. answer'[a] \in {Result(a, row[a], FALSE), Failure("CONNECTION_LOST")}
            BY <2>1 DEF Commit, CommitUnacknowledged, Return, Sessions, TypeOK
        <3>3. answer'[a] = Result(a, row[a], FALSE) => AnswersMatch(a)'
            <4>1. PICK r : r = row[a]
                OBVIOUS
            <4>2. /\ txs'[a] = r /\ SameKey(r.cmd, cmd'[a])
                  /\ CanonicalHash(r.cmd) = CanonicalHash(cmd'[a])
                BY <1>3, <3>1, <4>1 DEF SameKey
            <4>3. ASSUME answer'[a] = Result(a, row[a], FALSE)
                  PROVE  answer'[a] = Result(a, r, a # a)
                BY <4>1, <4>3
            <4> QED BY <3>1, <4>2, <4>3, MatchesNext
        <3>4. Vouched(m, h)'
            BY <1>3, <1>5, <3>1 DEF Vouched, SameKey, CanonicalHash
        <3> QED BY <1>1, <1>6, <3>2, <3>3, <3>4 DEF AnswerOK
    <2>2. CASE row[a] = None
        <3>1. AnswersMatch(a)
            BY <1>1, <2>2 DEF Answering, AnswerOK
        <3>2. answer'[a] \in {answer[a], Failure("CONNECTION_LOST")}
            BY <2>2 DEF Commit, CommitUnacknowledged, Return, Sessions, TypeOK
        <3>3. answer'[a] = answer[a] => AnswersMatch(a)'
            BY <1>1, <1>2, <1>3, <3>1, MatchStays
        <3>4. Vouched(m, h)
            BY <1>3, <1>5, <3>1 DEF AnswersMatch, Vouched
        <3>5. Vouched(m, h)'
            BY <1>1, <1>2, <3>4, VouchedStays
        <3> QED BY <1>1, <1>6, <3>2, <3>3, <3>5 DEF AnswerOK
    <2> QED BY <2>1, <2>2
<1>8. UNCHANGED inbox \/ RecordsVouch'
    <2>1. CASE cmd[a].msg = None
        BY <1>1, <2>1 DEF Publish
    <2>2. CASE cmd[a].msg # None
        <3>1. inbox' = [inbox EXCEPT ![m] = [hash |-> h, completed |-> TRUE]]
            BY <1>1, <1>5, <2>2 DEF Publish
        <3>2. ASSUME NEW n \in Messages, inbox'[n] # None, NEW k, k = inbox'[n].hash
              PROVE  Vouched(n, k)'
            <4>1. CASE n = m
                <5>1. k = h
                    BY <3>1, <3>2, <4>1 DEF Sessions, TypeOK
                <5> QED BY <1>7, <4>1, <5>1
            <4>2. CASE n # m
                <5>1. inbox'[n] = inbox[n]
                    BY <3>1, <4>2 DEF Sessions, TypeOK
                <5>2. inbox[n] # None /\ k = inbox[n].hash
                    BY <3>2, <5>1
                <5>3. Vouched(n, k)
                    BY <5>2 DEF Answering, RecordsVouch
                <5> QED BY <1>1, <1>2, <5>3, VouchedStays
            <4> QED BY <4>1, <4>2
        <3>3. ASSUME NEW n \in Messages, (inbox[n] # None)' PROVE Vouched(n, inbox[n].hash)'
            <4>1. PICK k : k = inbox'[n].hash
                OBVIOUS
            <4>2. Vouched(n, k)'
                BY <3>2, <3>3, <4>1
            <4> QED BY <4>1, <4>2 DEF Vouched
        <3> QED BY <3>3 DEF RecordsVouch
    <2> QED BY <2>1, <2>2
<1> QED BY <1>1, <1>2, <1>4, <1>7, <1>8, QuietKeepsAnswers

(* Every step of every call keeps it so.                                   *)
LEMMA StepKeepsAnswers ==
    ASSUME SwapsNoKey(Commands), Sessions, KeysAreUnique, Answering, [Next]_vars
    PROVE  Answering'
<1>1. CASE UNCHANGED vars
    <2>1. ASSUME NEW a \in Attempts PROVE AnswersMatch(a)' <=> AnswersMatch(a)
        BY <1>1 DEF vars, AnswersMatch, Committed, CanonicalHash, SameKey, Result
    <2>2. ASSUME NEW m, NEW h PROVE Vouched(m, h)' <=> Vouched(m, h)
        BY <1>1 DEF vars, Vouched, Committed
    <2>3. ASSUME NEW a \in Attempts PROVE AnswerOK(a)'
        <3>1. Vouched(cmd[a].msg, CanonicalHash(cmd[a]))'
                  <=> Vouched(cmd[a].msg, CanonicalHash(cmd[a]))
            BY <1>1 DEF vars, Vouched, Committed
        <3> QED BY <1>1, <2>1, <3>1 DEF vars, Answering, AnswerOK
    <2>4. ASSUME NEW m \in Messages, inbox[m] # None PROVE Vouched(m, inbox[m].hash)'
        BY <1>1, <2>4 DEF vars, Vouched, Committed, Answering, RecordsVouch
    <2>5. RecordsVouch'
        BY <1>1, <2>4 DEF vars, RecordsVouch
    <2> QED BY <2>3, <2>5 DEF Answering
<1>2. ASSUME NEW a \in Attempts, Taken(a) PROVE Answering'
    <2>1. Others(a) /\ pc[a] # "done"
        BY <1>2, StepsAreLocal
    <2>2. ASSUME UNCHANGED <<txs, inbox>>, \A b \in Attempts \ {a} : answer'[b] = answer[b],
                 AnswerOK(a)'
          PROVE  Answering'
        BY <2>1, <2>2, QuietKeepsAnswers
    <2>3. ASSUME NEW e \in Errors, Abort(a, e) PROVE Answering'
        <3>1. /\ UNCHANGED <<txs, inbox>> /\ \A b \in Attempts \ {a} : answer'[b] = answer[b]
              /\ pc'[a] = "done" /\ answer'[a] = Failure(e)
            BY <2>3 DEF Abort, Return, tables, Sessions, TypeOK
        <3>2. Failure(e).error # None
            BY ErrorsAssumption DEF Failure
        <3> QED BY <2>2, <3>1, <3>2 DEF AnswerOK
    <2>4. ASSUME NEW s, s \notin {"replayByKey", "commit", "done"}, Goto(a, s),
                 UNCHANGED <<txs, inbox, answer>>
          PROVE  Answering'
        BY <2>2, <2>4 DEF Goto, AnswerOK, Sessions, TypeOK
    <2>5. CASE (\E c \in Commands : Submit(a, c)) \/ InsertInbox(a) \/ FindExternal(a)
              \/ Create(a)
        BY <2>3, <2>4, <2>5
        DEF Submit, InsertInbox, FindExternal, Create, Reads, tables, Errors
    <2>6. CASE FindInbox(a)
        <3>1. cmd[a] \in Commands /\ cmd[a].msg \in Messages
            BY <2>6 DEF FindInbox, Sessions, SessionOK, Messages
        <3>2. CASE Reads(a, "replayByKey") /\ inbox[cmd[a].msg] # None
                   /\ inbox[cmd[a].msg].hash = CanonicalHash(cmd[a])
            <4>1. PICK m, h : m = cmd[a].msg /\ h = CanonicalHash(cmd[a])
                OBVIOUS
            <4>2. Vouched(m, h)
                BY <3>1, <3>2, <4>1 DEF Answering, RecordsVouch
            <4>3. txs' = txs /\ cmd' = cmd /\ UNCHANGED <<inbox, answer>>
                BY <3>2 DEF Reads, tables
            <4>4. Vouched(m, h)'
                BY <2>1, <4>2, <4>3, VouchedStays
            <4>5. Vouched(cmd[a].msg, CanonicalHash(cmd[a]))'
                BY <4>1, <4>3, <4>4 DEF Vouched, CanonicalHash
            <4>6. pc'[a] = "replayByKey"
                BY <3>2 DEF Reads, Goto, Sessions, TypeOK
            <4> QED BY <2>2, <4>3, <4>5, <4>6 DEF AnswerOK
        <3>3. CASE ~ (Reads(a, "replayByKey") /\ inbox[cmd[a].msg] # None
                      /\ inbox[cmd[a].msg].hash = CanonicalHash(cmd[a]))
            <4>1. \/ \E e \in Errors : Abort(a, e)
                  \/ \E s \in {"insertInbox", "findExternal"} : Reads(a, s)
                BY <2>6, <3>3 DEF FindInbox, Errors
            <4> QED BY <2>3, <2>4, <4>1 DEF Reads, tables
        <3> QED BY <3>2, <3>3
    <2>7. CASE ReplayByKey(a)
        <3>1. CASE Abort(a, "NOT_FOUND")
            BY <2>3, <3>1 DEF Errors
        <3>2. CASE ~ Abort(a, "NOT_FOUND")
            <4>1. PICK t \in ByKey(cmd[a]) :
                      Return(a, Result(t, txs[t], TRUE)) /\ UNCHANGED tables
                BY <2>7, <3>2 DEF ReplayByKey
            <4>2. pc[a] = "replayByKey" /\ cmd[a] \in Commands /\ cmd[a].msg # None
                BY <2>7 DEF ReplayByKey, Sessions, SessionOK
            <4>3. Vouched(cmd[a].msg, CanonicalHash(cmd[a]))
                BY <4>2 DEF Answering, AnswerOK
            <4>4. /\ t \in Committed
                  /\ SameKey(txs[t].cmd, cmd[a])
                  /\ CanonicalHash(txs[t].cmd) = CanonicalHash(cmd[a])
                BY <4>2, <4>3, ReplayMatches
            <4>5. t # a
                BY <2>1, <4>4 DEF KeysAreUnique
            <4>6. /\ txs' = txs /\ cmd' = cmd /\ inbox' = inbox /\ pc'[a] = "done"
                  /\ answer'[a] = Result(t, txs[t], TRUE)
                  /\ \A b \in Attempts \ {a} : answer'[b] = answer[b]
                BY <4>1 DEF Return, tables, Sessions, TypeOK
            <4>7. AnswersMatch(a)'
                <5>1. PICK r : r = txs[t]
                    OBVIOUS
                <5>2. t \in Committed'
                    BY <4>4, <4>6 DEF Committed
                <5>3. /\ txs'[t] = r /\ SameKey(r.cmd, cmd'[a])
                      /\ CanonicalHash(r.cmd) = CanonicalHash(cmd'[a])
                      /\ answer'[a] = Result(t, r, TRUE)
                    BY <4>4, <4>6, <5>1
                <5>4. answer'[a] = Result(t, r, t # a)
                    BY <4>5, <5>3
                <5> QED BY <5>2, <5>3, <5>4, MatchesNext
            <4> QED BY <2>2, <4>6, <4>7 DEF AnswerOK
        <3> QED BY <3>1, <3>2
    <2>8. CASE FindKey(a)
        <3>1. ASSUME NEW t \in ByKey(cmd[a]), CanonicalHash(txs[t].cmd) = CanonicalHash(cmd[a]),
                     answer' = [answer EXCEPT ![a] = Result(t, txs[t], TRUE)],
                     Goto(a, "commit"), UNCHANGED <<tables, cmd, row, move, ref, owner>>
              PROVE  Answering'
            <4>1. t \in Committed /\ SameKey(txs[t].cmd, cmd[a])
                BY DEF ByKey
            <4>2. t # a
                BY <2>1, <4>1 DEF KeysAreUnique
            <4>3. /\ txs' = txs /\ cmd' = cmd /\ inbox' = inbox /\ pc'[a] = "commit"
                  /\ answer'[a] = Result(t, txs[t], TRUE)
                  /\ \A b \in Attempts \ {a} : answer'[b] = answer[b]
                BY <3>1 DEF Goto, tables, Sessions, TypeOK
            <4>4. AnswersMatch(a)'
                <5>1. PICK r : r = txs[t]
                    OBVIOUS
                <5>2. t \in Committed'
                    BY <4>1, <4>3 DEF Committed
                <5>3. /\ txs'[t] = r /\ SameKey(r.cmd, cmd'[a])
                      /\ CanonicalHash(r.cmd) = CanonicalHash(cmd'[a])
                      /\ answer'[a] = Result(t, r, TRUE)
                    BY <3>1, <4>1, <4>3, <5>1
                <5>4. answer'[a] = Result(t, r, t # a)
                    BY <4>2, <5>3
                <5> QED BY <5>2, <5>3, <5>4, MatchesNext
            <4> QED BY <2>2, <4>3, <4>4 DEF AnswerOK
        <3>2. \/ \E e \in Errors : Abort(a, e)
              \/ Reads(a, "create")
              \/ \E t \in ByKey(cmd[a]) :
                    /\ CanonicalHash(txs[t].cmd) = CanonicalHash(cmd[a])
                    /\ answer' = [answer EXCEPT ![a] = Result(t, txs[t], TRUE)]
                    /\ Goto(a, "commit") /\ UNCHANGED <<tables, cmd, row, move, ref, owner>>
            BY <2>8 DEF FindKey, Errors
        <3> QED BY <2>3, <2>4, <3>1, <3>2 DEF Reads, tables
    <2>9. CASE ShareWallet(a)
        <3>1. CASE Abort(a, "UNKNOWN_WALLET")
            BY <2>3, <3>1 DEF Errors
        <3>2. CASE ~ Abort(a, "UNKNOWN_WALLET")
            <4>1. PICK s : Reads(a, s) /\ s \in {"lockWallet", "readWallet", "findReference"}
                BY <2>9, <3>2, CommandsAssumption
                DEF ShareWallet, Sessions, TypeOK, SessionOK, Kinds, Reversals
            <4> QED BY <2>4, <4>1 DEF Reads, tables
        <3> QED BY <3>1, <3>2
    <2>10. CASE Working(a)
        <3>1. ASSUME KeepsRow(a) PROVE Answering'
            BY <2>2, <3>1 DEF KeepsRow, AnswerOK, tables
        <3> QED BY <2>3, <2>10, <3>1, WorkKeepsRow
    <2>11. CASE Commit(a) \/ CommitUnacknowledged(a)
        BY <2>11, CommitKeepsAnswers
    <2>12. CASE LoseConnection(a) \/ AbortDeadlock(a)
        BY <2>3, <2>12 DEF LoseConnection, AbortDeadlock, Errors
    <2> QED BY <1>2, <2>5, <2>6, <2>7, <2>8, <2>9, <2>10, <2>11, <2>12 DEF Taken, Step, Working
<1>3. CASE Next
    BY <1>2, <1>3 DEF Next, Taken
<1> QED BY <1>1, <1>3

(* A call that returns without an error answers with the transaction that  *)
(* is committed under its key, whose payload is its own, as the row says:  *)
(* the first answer, a retry's and a redelivery's are the same.  It takes  *)
(* that keys are not swapped under a message id.                           *)
THEOREM AnswersAreTrue ==
    ASSUME SwapsNoKey(Commands)
    PROVE  Spec => []AnswersAreCommitted
<1>1. Answering => AnswersAreCommitted
    BY DEF Answering, AnswerOK, AnswersAreCommitted
<1>2. Answering /\ Sessions /\ KeysAreUnique /\ [Next]_vars => Answering'
    BY StepKeepsAnswers
<1> QED BY <1>1, <1>2, SessionsInit, StepKeepsSessions, KeysInit, StepKeepsKeys, AnsweringInit,
           PTL DEF Spec
=============================================================================
