------------------------- MODULE ProcessWagerProofs -------------------------
(***************************************************************************)
(* Theorems about ProcessWager for every set of attempts, commands and     *)
(* wallets.                                                                *)
(***************************************************************************)
EXTENDS ProcessWagerProps, TLAPS

(* Where an attempt has a row to commit, and where also a movement.        *)
Booked == {"attachReference", "saveWallet"}
Written == {"shareWallet", "readWallet", "findReference", "countRefunds",
            "countRollbacks", "lockWallet"} \cup Booked

(* What an attempt carries at each statement.                              *)
SessionOK(a) ==
    /\ pc[a] = "idle" \/ cmd[a] \in Commands
    /\ pc[a] \in {"findInbox", "replayByKey", "insertInbox"} => cmd[a].msg # None
    /\ pc[a] \in Written => row[a] # None
    /\ row[a] # None => pc[a] \in Written \cup {"commit"} /\ row[a].cmd = cmd[a]
    /\ pc[a] = "commit" /\ row[a] = None => answer[a] \in Answers
    /\ pc[a] = "commit" /\ row[a] # None => row[a].status # "PENDING"
    /\ pc[a] \in Booked => move[a] # None
    /\ move[a] # None => pc[a] \in Booked \cup {"commit"} /\ row[a] # None
    /\ pc[a] \in Written \ {"shareWallet"} \/ move[a] # None => cmd[a].wallet \in Wallets
    /\ pc[a] \in {"findReference", "countRefunds", "countRollbacks"} =>
          cmd[a].kind \in Reversals
    /\ pc[a] = "lockWallet" => cmd[a].kind \in {"BET", "WIN"} \cup Reversals
    /\ /\ pc[a] \in {"countRefunds", "countRollbacks", "lockWallet"}
       /\ cmd[a].kind \in Reversals
       => ref[a] \in Committed

Sessions == TypeOK /\ \A a \in Attempts : SessionOK(a)

(* Every opened database with no call in flight satisfies the invariant.   *)
LEMMA SessionsInit == Init => Sessions
<1> SUFFICES ASSUME Init PROVE Sessions
    OBVIOUS
<1> USE NoneAssumption, WalletsAssumption
<1>1. \A w \in Wallets : OpenedWallet(w) \in WalletStates
    BY DEF OpenedWallet, WalletStates
<1>2. ASSUME NEW w \in Wallets PROVE OpenedLedger(w) \in Seq(Movements)
    <2> DEFINE e == [tx |-> None, direction |-> "CREDIT", amount |-> OpeningBalance[w],
                     before |-> 0, after |-> OpeningBalance[w], version |-> 1]
    <2>1. e \in Movements
        BY DEF Movements, Directions
    <2>2. <<e>> \in Seq(Movements)
        BY <2>1
    <2> QED BY <2>2 DEF OpenedLedger
<1>3. TypeOK
    BY <1>1, <1>2 DEF Init, TypeOK
<1>4. \A a \in Attempts : SessionOK(a)
    BY DEF Init, SessionOK, Written, Booked
<1> QED BY <1>3, <1>4 DEF Sessions

-----------------------------------------------------------------------------
(* Facts about rows and answers.                                           *)

(* The transitions of the aggregate (transaction.go) stay within the table.*)
LEMMA RowTransitions ==
    ASSUME NEW r \in Rows
    PROVE  /\ MarkPendingReference(r) \in Rows
           /\ \A b \in Nat : MarkProcessed(r, b) \in Rows
           /\ \A code \in Failures : MarkRejected(r, code) \in Rows
           /\ \A id \in Attempts \cup {None} : AttachResolvedReference(r, id) \in Rows
    BY DEF Rows, Statuses, MarkPendingReference, MarkProcessed, MarkRejected,
           AttachResolvedReference

(* A result built from a row of the table is an answer a caller may get.   *)
LEMMA ResultIsAnswer ==
    ASSUME NEW r \in Rows, NEW id \in Attempts, NEW b \in BOOLEAN
    PROVE  Result(id, r, b) \in Answers
    BY DEF Rows, Answers, Result

(* So is every error.                                                      *)
LEMMA FailureIsAnswer ==
    ASSUME NEW e \in Errors PROVE Failure(e) \in Answers
    BY DEF Answers, Failure

(* A call that returns leaves every session in order, as long as the       *)
(* committed rows it leaves are those there were, or more.                 *)
LEMMA ReturnKeepsSessions ==
    ASSUME Sessions, NEW a \in Attempts, NEW ans \in Answers, Open(a), Return(a, ans),
           Committed \subseteq Committed'
    PROVE  /\ pc' \in [Attempts -> Statements \cup {"idle", "done"}]
           /\ cmd' \in [Attempts -> Commands \cup {None}]
           /\ row' \in [Attempts -> Rows \cup {None}]
           /\ move' \in [Attempts -> Movements \cup {None}]
           /\ ref' \in [Attempts -> Attempts \cup {None}]
           /\ owner' \in [Wallets -> Attempts \cup {None}]
           /\ answer' \in [Attempts -> Answers \cup {None}]
           /\ \A b \in Attempts : SessionOK(b)'
<1> USE NoneAssumption DEF Sessions, TypeOK, Return
<1>1. cmd[a] \in Commands
    BY DEF SessionOK, Open, Statements
<1>2. ASSUME NEW b \in Attempts PROVE SessionOK(b)'
    <2>1. CASE b = a
        BY <1>1, <2>1 DEF SessionOK, Written, Booked
    <2>2. CASE b # a
        <3>1. SessionOK(b)
            OBVIOUS
        <3>2. /\ pc'[b] = pc[b] /\ cmd'[b] = cmd[b] /\ row'[b] = row[b]
              /\ move'[b] = move[b] /\ ref'[b] = ref[b] /\ answer'[b] = answer[b]
            BY <2>2
        <3> HIDE DEF Sessions, TypeOK, Return
        <3> QED BY <3>1, <3>2 DEF SessionOK
    <2> QED BY <2>1, <2>2
<1> QED BY <1>2

(* A call whose transaction is rolled back leaves every session in order.  *)
LEMMA AbortKeepsSessions ==
    ASSUME Sessions, NEW a \in Attempts, NEW e \in Errors, Open(a), Abort(a, e)
    PROVE  Sessions'
<1>1. Committed' = Committed
    BY DEF Abort, tables, Committed
<1>2. Failure(e) \in Answers
    BY FailureIsAnswer
<1> QED BY <1>1, <1>2, ReturnKeepsSessions DEF Abort, tables, Sessions, TypeOK

-----------------------------------------------------------------------------
(* One lemma per kind of step.                                             *)

(* A new call starts in order.                                             *)
LEMMA SubmitKeepsSessions ==
    ASSUME Sessions, NEW a \in Attempts, NEW c \in Commands, Submit(a, c)
    PROVE  Sessions'
<1> USE NoneAssumption DEF Sessions, TypeOK, Submit, Goto, tables
<1>1. TypeOK'
    BY DEF Statements
<1>2. ASSUME NEW b \in Attempts PROVE SessionOK(b)'
    BY DEF SessionOK, Written, Booked, Committed
<1> QED BY <1>1, <1>2

(* The reads that only decide where to go next.                            *)
LEMMA ReadsKeepSessions ==
    ASSUME Sessions, NEW a \in Attempts, cmd[a] \in Commands, NEW s \in Statements,
           pc[a] \notin Written \cup {"commit"} \/ pc[a] = "shareWallet",
           s \in {"replayByKey", "insertInbox"} => cmd[a].msg # None,
           \/ s \in {"replayByKey", "insertInbox", "findExternal", "findKey", "create"}
                /\ pc[a] # "shareWallet"
           \/ pc[a] = "shareWallet" /\ cmd[a].wallet \in Wallets
                /\ s = CASE cmd[a].kind \in {"BET", "WIN"} -> "lockWallet"
                         [] cmd[a].kind = "LOSS"           -> "readWallet"
                         [] cmd[a].kind \in Reversals      -> "findReference",
           Reads(a, s)
    PROVE  Sessions'
<1> USE NoneAssumption DEF Sessions, TypeOK, Reads, Goto, tables
<1>1. TypeOK'
    OBVIOUS
<1>2. cmd[a].kind \in Kinds
    BY CommandsAssumption
<1>3. ASSUME NEW b \in Attempts PROVE SessionOK(b)'
    <2>1. CASE b = a
        BY <1>2, <2>1 DEF SessionOK, Written, Booked, Committed, Kinds, Reversals
    <2>2. CASE b # a
        BY <2>2 DEF SessionOK, Committed
    <2> QED BY <2>1, <2>2
<1> QED BY <1>1, <1>3

(* The first read of handleInbox keeps the sessions in order.              *)
LEMMA FindInboxKeepsSessions ==
    ASSUME Sessions, NEW a \in Attempts, FindInbox(a) PROVE Sessions'
<1>1. pc[a] = "findInbox" /\ Open(a) /\ cmd[a] \in Commands /\ cmd[a].msg # None
    BY DEF FindInbox, Sessions, SessionOK, Open, Statements
<1>2. CASE \E e \in Errors : Abort(a, e)
    BY <1>1, <1>2, AbortKeepsSessions
<1>3. CASE \E s \in {"insertInbox", "replayByKey", "findExternal"} : Reads(a, s)
    BY <1>1, <1>3, ReadsKeepSessions DEF Statements, Written, Booked
<1> QED BY <1>2, <1>3 DEF FindInbox, Errors

(* A replay answers from a committed row and leaves the rest alone.        *)
LEMMA ReplayByKeyKeepsSessions ==
    ASSUME Sessions, NEW a \in Attempts, ReplayByKey(a) PROVE Sessions'
<1>1. pc[a] = "replayByKey" /\ Open(a)
    BY DEF ReplayByKey, Open, Statements
<1>2. CASE Abort(a, "NOT_FOUND")
    BY <1>1, <1>2, AbortKeepsSessions DEF Errors
<1>3. CASE \E t \in ByKey(cmd[a]) : Return(a, Result(t, txs[t], TRUE)) /\ UNCHANGED tables
    <2>1. PICK t \in ByKey(cmd[a]) : Return(a, Result(t, txs[t], TRUE)) /\ UNCHANGED tables
        BY <1>3
    <2>2. t \in Attempts /\ txs[t] \in Rows
        BY NoneAssumption DEF ByKey, Committed, Sessions, TypeOK
    <2>3. Result(t, txs[t], TRUE) \in Answers
        BY <2>2, ResultIsAnswer
    <2>4. Committed \subseteq Committed'
        BY <2>1 DEF Committed, tables
    <2> QED BY <1>1, <2>1, <2>3, <2>4, ReturnKeepsSessions DEF Sessions, TypeOK, tables
<1> QED BY <1>2, <1>3 DEF ReplayByKey

(* The insert of the inbox record keeps the sessions in order.             *)
LEMMA InsertInboxKeepsSessions ==
    ASSUME Sessions, NEW a \in Attempts, InsertInbox(a) PROVE Sessions'
<1>1. pc[a] = "insertInbox" /\ Open(a) /\ cmd[a] \in Commands
    BY DEF InsertInbox, Sessions, SessionOK, Open, Statements
<1>2. CASE Abort(a, "CONFLICT")
    BY <1>1, <1>2, AbortKeepsSessions DEF Errors
<1>3. CASE Reads(a, "findExternal")
    BY <1>1, <1>3, ReadsKeepSessions DEF Statements, Written, Booked
<1> QED BY <1>2, <1>3 DEF InsertInbox

(* The lookup by external id keeps the sessions in order.                  *)
LEMMA FindExternalKeepsSessions ==
    ASSUME Sessions, NEW a \in Attempts, FindExternal(a) PROVE Sessions'
<1>1. pc[a] = "findExternal" /\ Open(a) /\ cmd[a] \in Commands
    BY DEF FindExternal, Sessions, SessionOK, Open, Statements
<1>2. CASE Abort(a, "EXTERNAL_KEY_MISMATCH")
    BY <1>1, <1>2, AbortKeepsSessions DEF Errors
<1>3. CASE Reads(a, "findKey")
    BY <1>1, <1>3, ReadsKeepSessions DEF Statements, Written, Booked
<1> QED BY <1>2, <1>3 DEF FindExternal

(* The lookup by key goes on, refuses, or has an answer to commit.         *)
LEMMA FindKeyKeepsSessions ==
    ASSUME Sessions, NEW a \in Attempts, FindKey(a) PROVE Sessions'
<1>1. pc[a] = "findKey" /\ Open(a) /\ cmd[a] \in Commands
    BY DEF FindKey, Sessions, SessionOK, Open, Statements
<1>2. CASE \E e \in Errors : Abort(a, e)
    BY <1>1, <1>2, AbortKeepsSessions
<1>3. CASE Reads(a, "create")
    BY <1>1, <1>3, ReadsKeepSessions DEF Statements, Written, Booked
<1>4. ASSUME NEW t \in ByKey(cmd[a]),
             answer' = [answer EXCEPT ![a] = Result(t, txs[t], TRUE)],
             Goto(a, "commit"), UNCHANGED <<tables, cmd, row, move, ref, owner>>
      PROVE  Sessions'
    <2>1. t \in Attempts /\ txs[t] \in Rows
        BY NoneAssumption DEF ByKey, Committed, Sessions, TypeOK
    <2>2. Result(t, txs[t], TRUE) \in Answers
        BY <2>1, ResultIsAnswer
    <2>3. TypeOK'
        BY <1>4, <2>2 DEF Sessions, TypeOK, Goto, tables, Statements
    <2>4. ASSUME NEW b \in Attempts PROVE SessionOK(b)'
        <3>1. CASE b = a
            BY <1>1, <1>4, <2>2, <3>1, NoneAssumption
            DEF Sessions, TypeOK, Goto, tables, SessionOK, Written, Booked
        <3>2. CASE b # a
            BY <1>4, <3>2 DEF Sessions, TypeOK, Goto, tables, SessionOK, Committed
        <3> QED BY <3>1, <3>2
    <2> QED BY <2>3, <2>4 DEF Sessions
<1> QED BY <1>2, <1>3, <1>4 DEF FindKey, Errors

(* A row that is inserted is the row of its own command.                   *)
LEMMA CreateKeepsSessions ==
    ASSUME Sessions, NEW a \in Attempts, Create(a) PROVE Sessions'
<1>1. pc[a] = "create" /\ Open(a) /\ cmd[a] \in Commands /\ row[a] = None
    BY DEF Create, Sessions, SessionOK, Open, Statements, Written, Booked
<1>2. CASE Abort(a, "CONFLICT")
    BY <1>1, <1>2, AbortKeepsSessions DEF Errors
<1>3. ASSUME Writes(a, NewRow(cmd[a])), Goto(a, "shareWallet"),
             UNCHANGED <<tables, cmd, move, ref, owner, answer>>
      PROVE  Sessions'
    <2>1. NewRow(cmd[a]) \in Rows /\ NewRow(cmd[a]).cmd = cmd[a]
        BY <1>1 DEF NewRow, Rows, Statuses
    <2>2. TypeOK'
        BY <1>3, <2>1 DEF Sessions, TypeOK, Writes, Goto, tables, Statements
    <2>3. ASSUME NEW b \in Attempts PROVE SessionOK(b)'
        <3>1. CASE b = a
            BY <1>1, <1>3, <2>1, <3>1, NoneAssumption
            DEF Sessions, TypeOK, Writes, Goto, tables, SessionOK, Written, Booked
        <3>2. CASE b # a
            BY <1>3, <3>2
            DEF Sessions, TypeOK, Writes, Goto, tables, SessionOK, Committed
        <3> QED BY <3>1, <3>2
    <2> QED BY <2>2, <2>3 DEF Sessions
<1> QED BY <1>2, <1>3 DEF Create

(* Past the foreign key the wallet exists; each kind goes its own way.     *)
LEMMA ShareWalletKeepsSessions ==
    ASSUME Sessions, NEW a \in Attempts, ShareWallet(a) PROVE Sessions'
<1>1. pc[a] = "shareWallet" /\ Open(a) /\ cmd[a] \in Commands
    BY DEF ShareWallet, Sessions, SessionOK, Open, Statements
<1>2. CASE Abort(a, "UNKNOWN_WALLET")
    BY <1>1, <1>2, AbortKeepsSessions DEF Errors
<1>3. CASE cmd[a].wallet \in Wallets
    <2> DEFINE s == CASE cmd[a].kind \in {"BET", "WIN"} -> "lockWallet"
                      [] cmd[a].kind = "LOSS"           -> "readWallet"
                      [] cmd[a].kind \in Reversals      -> "findReference"
    <2>1. Reads(a, s)
        BY <1>3 DEF ShareWallet
    <2>2. s \in {"lockWallet", "readWallet", "findReference"}
        BY <1>1, CommandsAssumption DEF Kinds, Reversals
    <2>3. s \in Statements /\ s \notin {"replayByKey", "insertInbox"}
        BY <2>2 DEF Statements
    <2> QED BY <1>1, <1>3, <2>1, <2>3, ReadsKeepSessions
<1> QED BY <1>2, <1>3 DEF ShareWallet

(* The outcome of a call without movement: its row is decided.             *)
LEMMA DecideKeepsSessions ==
    ASSUME Sessions, NEW a \in Attempts, NEW r \in Rows,
           pc[a] \in Written, r.cmd = row[a].cmd, r.status # "PENDING",
           Writes(a, r), Goto(a, "commit"),
           UNCHANGED <<tables, cmd, move, ref, answer>>,
           owner' \in [Wallets -> Attempts \cup {None}]
    PROVE  Sessions'
<1>1. TypeOK'
    BY DEF Sessions, TypeOK, Writes, Goto, tables, Statements
<1>2. row[a] # None /\ cmd[a] \in Commands
    BY DEF Sessions, SessionOK, Written, Booked
<1>3. ASSUME NEW b \in Attempts PROVE SessionOK(b)'
    <2>1. CASE b = a
        BY <1>2, <2>1, NoneAssumption
        DEF Sessions, TypeOK, Writes, Goto, tables, SessionOK, Written, Booked
    <2>2. CASE b # a
        BY <2>2 DEF Sessions, TypeOK, Writes, Goto, tables, SessionOK, Committed
    <2> QED BY <2>1, <2>2
<1> QED BY <1>1, <1>3 DEF Sessions

(* processLoss decides its row with a balance that is not negative.        *)
LEMMA ReadWalletKeepsSessions ==
    ASSUME Sessions, NEW a \in Attempts, ReadWallet(a) PROVE Sessions'
<1> DEFINE r == MarkProcessed(row[a], wallets[cmd[a].wallet].balance)
<1>1. pc[a] \in Written /\ row[a] \in Rows /\ cmd[a].wallet \in Wallets
    BY DEF ReadWallet, Sessions, TypeOK, SessionOK, Written
<1>2. wallets[cmd[a].wallet].balance \in Nat
    BY <1>1 DEF Sessions, TypeOK, WalletStates
<1>3. r \in Rows
    BY <1>1, <1>2, RowTransitions
<1>4. r.cmd = row[a].cmd /\ r.status # "PENDING"
    BY <1>1 DEF MarkProcessed, Rows
<1> HIDE DEF r
<1>5. Writes(a, r) /\ Goto(a, "commit") /\ UNCHANGED <<tables, cmd, move, ref, owner, answer>>
    BY DEF ReadWallet, r
<1>6. owner' \in [Wallets -> Attempts \cup {None}]
    BY <1>5 DEF Sessions, TypeOK
<1> QED BY <1>1, <1>3, <1>4, <1>5, <1>6, DecideKeepsSessions

(* rejectAndSave keeps the row of its command.                             *)
LEMMA RejectedRow ==
    ASSUME NEW r \in Rows, NEW code \in Failures
    PROVE  /\ MarkRejected(r, code) \in Rows
           /\ MarkRejected(r, code).cmd = r.cmd
           /\ MarkRejected(r, code).status # "PENDING"
    BY DEF MarkRejected, Rows, Statuses

(* validateReversalReference yields a failure code of the table, or none.  *)
LEMMA FaultIsFailure ==
    ASSUME NEW c, NEW r PROVE ReferenceFault(c, r) \in Failures \cup {None}
    BY DEF ReferenceFault, Failures

(* rejectAndSave decides the row of the call.                              *)
LEMMA RejectKeepsSessions ==
    ASSUME Sessions, NEW a \in Attempts, NEW code \in Failures,
           pc[a] \in Written, Reject(a, code),
           UNCHANGED <<tables, cmd, move, ref, answer>>,
           owner' \in [Wallets -> Attempts \cup {None}]
    PROVE  Sessions'
<1>1. row[a] \in Rows
    BY DEF Sessions, TypeOK, SessionOK
<1> DEFINE r == MarkRejected(row[a], code)
<1>2. r \in Rows /\ r.cmd = row[a].cmd /\ r.status # "PENDING"
    BY <1>1, RejectedRow
<1>3. Writes(a, r) /\ Goto(a, "commit")
    BY DEF Reject
<1> HIDE DEF r
<1> QED BY <1>2, <1>3, DecideKeepsSessions

(* A read of processReversal that goes on.                                 *)
LEMMA GoOnKeepsSessions ==
    ASSUME Sessions, NEW a \in Attempts,
           NEW s \in {"countRefunds", "countRollbacks", "lockWallet"},
           pc[a] \in {"findReference", "countRefunds", "countRollbacks"},
           Goto(a, s), ref' \in [Attempts -> Attempts \cup {None}],
           ref'[a] \in Committed, \A b \in Attempts \ {a} : ref'[b] = ref[b],
           UNCHANGED <<tables, cmd, row, move, owner, answer>>
    PROVE  Sessions'
<1>1. TypeOK'
    BY DEF Sessions, TypeOK, Goto, tables, Statements
<1>2. ASSUME NEW b \in Attempts PROVE SessionOK(b)'
    <2>1. CASE b = a
        BY <2>1 DEF Sessions, TypeOK, Goto, tables, SessionOK, Written, Booked, Committed
    <2>2. CASE b # a
        BY <2>2 DEF Sessions, TypeOK, Goto, tables, SessionOK, Committed
    <2> QED BY <2>1, <2>2
<1> QED BY <1>1, <1>2 DEF Sessions

(* A reversal that names itself is refused, so a validated reference is    *)
(* committed.                                                              *)
LEMMA ReferenceIsCommitted ==
    ASSUME Sessions, NEW a \in Attempts, NEW t \in Attempts,
           cmd[a].kind \in Reversals, row[a] # None,
           Seen(a, t) # None, ReferenceFault(cmd[a], Seen(a, t)) = None
    PROVE  t \in Committed
<1>1. CASE t = a
    <2>1. Seen(a, t) = row[a] /\ row[a].cmd = cmd[a]
        BY <1>1 DEF Seen, Sessions, SessionOK
    <2>2. row[a].cmd.kind \notin Reversible(cmd[a].kind)
        BY <2>1 DEF Reversals, Reversible
    <2>3. ReferenceFault(cmd[a], Seen(a, t)) = "REFERENCE_MISMATCH"
        BY <2>1, <2>2 DEF ReferenceFault
    <2>4. "REFERENCE_MISMATCH" \in Failures
        BY DEF Failures
    <2> QED BY <2>3, <2>4, NoneAssumption
<1>2. CASE t # a
    BY <1>2 DEF Seen, Committed
<1> QED BY <1>1, <1>2

(* processReversal parks, rejects, or goes on with a committed reference.  *)
LEMMA FindReferenceKeepsSessions ==
    ASSUME Sessions, NEW a \in Attempts, FindReference(a) PROVE Sessions'
<1> DEFINE found == ByExternalId(a, cmd[a].provider, cmd[a].ref)
<1>1. /\ pc[a] = "findReference" /\ pc[a] \in Written /\ row[a] \in Rows /\ row[a] # None
      /\ cmd[a].kind \in Reversals
    BY NoneAssumption DEF FindReference, Sessions, TypeOK, SessionOK, Written
<1>2. UNCHANGED <<tables, cmd, move, owner, answer>>
    BY DEF FindReference
<1>3. owner' \in [Wallets -> Attempts \cup {None}]
    BY <1>2 DEF Sessions, TypeOK
<1>4. ASSUME Writes(a, MarkPendingReference(row[a])), Goto(a, "commit"), UNCHANGED ref
      PROVE  Sessions'
    <2> DEFINE r == MarkPendingReference(row[a])
    <2>1. r \in Rows /\ r.cmd = row[a].cmd /\ r.status # "PENDING"
        BY <1>1, RowTransitions DEF MarkPendingReference, Rows
    <2>2. Writes(a, r)
        BY <1>4
    <2> HIDE DEF r
    <2> QED BY <1>1, <1>2, <1>3, <1>4, <2>1, <2>2, DecideKeepsSessions
<1>5. ASSUME NEW t \in found,
             IF ReferenceFault(cmd[a], Seen(a, t)) # None
             THEN Reject(a, ReferenceFault(cmd[a], Seen(a, t))) /\ UNCHANGED ref
             ELSE /\ ref' = [ref EXCEPT ![a] = t]
                  /\ Goto(a, "countRefunds")
                  /\ UNCHANGED row
      PROVE  Sessions'
    <2>1. t \in Attempts /\ Seen(a, t) # None
        BY DEF ByExternalId
    <2> DEFINE fault == ReferenceFault(cmd[a], Seen(a, t))
    <2>2. fault \in Failures \cup {None}
        BY FaultIsFailure
    <2>3. CASE fault # None
        <3>1. fault \in Failures /\ Reject(a, fault) /\ UNCHANGED ref
            BY <1>5, <2>2, <2>3
        <3> HIDE DEF fault
        <3> QED BY <1>1, <1>2, <1>3, <3>1, RejectKeepsSessions
    <2>4. CASE fault = None
        <3>1. t \in Committed
            BY <1>1, <2>1, <2>4, ReferenceIsCommitted
        <3>2. ref' = [ref EXCEPT ![a] = t] /\ Goto(a, "countRefunds") /\ UNCHANGED row
            BY <1>5, <2>4
        <3>3. /\ ref' \in [Attempts -> Attempts \cup {None}]
              /\ ref'[a] \in Committed
              /\ \A b \in Attempts \ {a} : ref'[b] = ref[b]
            BY <2>1, <3>1, <3>2 DEF Sessions, TypeOK
        <3> QED BY <1>1, <1>2, <3>2, <3>3, GoOnKeepsSessions
    <2> QED BY <2>3, <2>4
<1> QED BY <1>4, <1>5 DEF FindReference

(* The two counts reject, or go on with the same reference.                *)
LEMMA CountKeepsSessions ==
    ASSUME Sessions, NEW a \in Attempts, CountRefunds(a) \/ CountRollbacks(a)
    PROVE  Sessions'
<1>1. PICK here \in {"countRefunds", "countRollbacks"}, kind \in Reversals,
           next \in {"countRollbacks", "lockWallet"} : Count(a, here, kind, next)
    BY DEF CountRefunds, CountRollbacks, Reversals
<1>2. /\ pc[a] = here /\ pc[a] \in Written
      /\ ref[a] \in Committed
      /\ UNCHANGED <<tables, cmd, move, ref, owner, answer>>
    BY <1>1 DEF Count, Sessions, SessionOK, Written
<1>3. /\ owner' \in [Wallets -> Attempts \cup {None}]
      /\ ref' \in [Attempts -> Attempts \cup {None}]
    BY <1>2 DEF Sessions, TypeOK
<1>4. CASE Reject(a, "DUPLICATE_REVERSAL")
    BY <1>2, <1>3, <1>4, RejectKeepsSessions DEF Failures
<1>5. CASE Goto(a, next) /\ UNCHANGED row
    BY <1>1, <1>2, <1>3, <1>5, GoOnKeepsSessions
<1> QED BY <1>1, <1>4, <1>5 DEF Count

(* Movements have the right shape when the wallet covers them.             *)
LEMMA MoveIsMovement ==
    ASSUME NEW id \in Attempts, NEW d \in Directions, NEW n \in Nat, NEW w \in WalletStates,
           Covered(d, n, w)
    PROVE  Move(id, d, n, w) \in Movements
    BY DEF Move, Movements, Covered, WalletStates, Directions

(* Each kind that locks its wallet knows which way the money goes.         *)
LEMMA DirectionIsDirection ==
    ASSUME Sessions, NEW a \in Attempts, pc[a] = "lockWallet"
    PROVE  MoveDirection(a) \in Directions
<1>1. cmd[a].kind \in {"BET", "WIN"} \cup Reversals
    BY DEF Sessions, SessionOK
<1> QED BY <1>1 DEF MoveDirection, ReversalDirection, Directions, Reversals

(* Under the lock a movement is computed only if the wallet covers it.     *)
LEMMA LockWalletKeepsSessions ==
    ASSUME Sessions, NEW a \in Attempts, LockWallet(a) PROVE Sessions'
<1> DEFINE w == cmd[a].wallet
           d == MoveDirection(a)
           m == Move(a, d, cmd[a].amount, wallets[w])
<1>1. /\ pc[a] = "lockWallet" /\ pc[a] \in Written /\ Open(a) /\ row[a] # None
      /\ w \in Wallets /\ cmd[a] \in Commands
    BY DEF LockWallet, Sessions, SessionOK, Written, Open, Statements
<1>2. d \in Directions
    BY <1>1, DirectionIsDirection
<1>3. wallets[w] \in WalletStates /\ cmd[a].amount \in Nat
    BY <1>1, CommandsAssumption DEF Sessions, TypeOK
<1>4. CASE cmd[a].currency # Currency[w]
    <2>1. Abort(a, "CURRENCY_MISMATCH")
        BY <1>4 DEF LockWallet
    <2> QED BY <1>1, <2>1, AbortKeepsSessions DEF Errors
<1>5. CASE cmd[a].currency = Currency[w]
    <2>1. /\ owner' = [owner EXCEPT ![w] = a]
          /\ UNCHANGED <<tables, cmd, ref, answer>>
        BY <1>5 DEF LockWallet
    <2>2. owner' \in [Wallets -> Attempts \cup {None}]
        BY <2>1 DEF Sessions, TypeOK
    <2>3. CASE Covered(d, cmd[a].amount, wallets[w])
        <3>1. m \in Movements
            BY <1>2, <1>3, <2>3, MoveIsMovement
        <3>2. PICK s \in Booked : Goto(a, s)
            BY <1>5, <2>3 DEF LockWallet, Booked
        <3>3. move' = [move EXCEPT ![a] = m] /\ UNCHANGED row
            BY <1>5, <2>3 DEF LockWallet
        <3> HIDE DEF m, d
        <3>4. TypeOK'
            BY <2>1, <2>2, <3>1, <3>2, <3>3
            DEF Sessions, TypeOK, Goto, tables, Statements, Booked
        <3>5. ASSUME NEW b \in Attempts PROVE SessionOK(b)'
            <4>1. CASE b = a
                BY <1>1, <2>1, <3>1, <3>2, <3>3, <4>1, NoneAssumption
                DEF Sessions, TypeOK, Goto, tables, SessionOK, Written, Booked
            <4>2. CASE b # a
                BY <2>1, <3>2, <3>3, <4>2
                DEF Sessions, TypeOK, Goto, tables, SessionOK, Committed
            <4> QED BY <4>1, <4>2
        <3> QED BY <3>4, <3>5 DEF Sessions
    <2>4. CASE ~ Covered(d, cmd[a].amount, wallets[w])
        <3>1. PICK code \in Failures : Reject(a, code)
            BY <1>5, <2>4 DEF LockWallet, Failures
        <3>2. UNCHANGED move
            BY <1>5, <2>4 DEF LockWallet
        <3> QED BY <1>1, <2>1, <2>2, <3>1, <3>2, RejectKeepsSessions
    <2> QED BY <2>3, <2>4
<1> QED BY <1>4, <1>5

(* Attaching the reference of a WIN keeps the sessions in order.           *)
LEMMA AttachReferenceKeepsSessions ==
    ASSUME Sessions, NEW a \in Attempts, AttachReference(a) PROVE Sessions'
<1>1. /\ pc[a] = "attachReference" /\ Goto(a, "saveWallet")
      /\ UNCHANGED <<tables, cmd, row, move, owner, answer>>
    BY DEF AttachReference
<1>2. \/ UNCHANGED ref
      \/ \E t \in Attempts : ref' = [ref EXCEPT ![a] = t]
    BY DEF AttachReference, ByExternalId
<1>3. TypeOK'
    <2>1. TypeOK
        BY DEF Sessions
    <2>2. ref' \in [Attempts -> Attempts \cup {None}]
        <3>1. ref \in [Attempts -> Attempts \cup {None}]
            BY <2>1 DEF TypeOK
        <3>2. ASSUME NEW t \in Attempts, ref' = [ref EXCEPT ![a] = t]
              PROVE  ref' \in [Attempts -> Attempts \cup {None}]
            BY <3>1, <3>2
        <3> QED BY <1>2, <3>1, <3>2
    <2>3. pc' \in [Attempts -> Statements \cup {"idle", "done"}]
        BY <1>1, <2>1 DEF TypeOK, Goto, Statements
    <2> QED BY <1>1, <2>1, <2>2, <2>3 DEF TypeOK, tables
<1>4. ASSUME NEW b \in Attempts PROVE SessionOK(b)'
    <2>1. CASE b = a
        BY <1>1, <2>1 DEF Sessions, TypeOK, Goto, tables, SessionOK, Written, Booked
    <2>2. CASE b # a
        BY <1>1, <1>2, <2>2 DEF Sessions, TypeOK, Goto, tables, SessionOK, Committed
    <2> QED BY <2>1, <2>2
<1> QED BY <1>3, <1>4 DEF Sessions

(* commitMovement marks the row PROCESSED with the balance it moves to.    *)
LEMMA SaveWalletKeepsSessions ==
    ASSUME Sessions, NEW a \in Attempts, SaveWallet(a) PROVE Sessions'
<1>1. /\ pc[a] = "saveWallet" /\ pc[a] \in Written /\ Open(a)
      /\ row[a] \in Rows /\ move[a] \in Movements /\ ref[a] \in Attempts \cup {None}
    BY DEF SaveWallet, Sessions, TypeOK, SessionOK, Written, Booked, Open, Statements
<1>2. CASE Abort(a, "OPTIMISTIC_LOCK")
    BY <1>1, <1>2, AbortKeepsSessions DEF Errors
<1>3. ASSUME Writes(a, MarkProcessed(AttachResolvedReference(row[a], ref[a]), move[a].after)),
             Goto(a, "commit"), UNCHANGED <<tables, cmd, move, ref, owner, answer>>
      PROVE  Sessions'
    <2> DEFINE q == AttachResolvedReference(row[a], ref[a])
               r == MarkProcessed(q, move[a].after)
    <2>1. q \in Rows /\ q.cmd = row[a].cmd
        BY <1>1, RowTransitions DEF AttachResolvedReference, Rows
    <2>2. move[a].after \in Nat
        BY <1>1 DEF Movements
    <2>3. r \in Rows /\ r.cmd = q.cmd /\ r.status # "PENDING"
        <3> HIDE DEF q
        <3> QED BY <2>1, <2>2, RowTransitions DEF MarkProcessed, Rows
    <2>4. Writes(a, r)
        BY <1>3
    <2>5. owner' \in [Wallets -> Attempts \cup {None}]
        BY <1>3 DEF Sessions, TypeOK
    <2> HIDE DEF q, r
    <2> QED BY <1>1, <1>3, <2>1, <2>3, <2>4, <2>5, DecideKeepsSessions
<1> QED BY <1>2, <1>3 DEF SaveWallet

(* What a commit writes to the tables has the tables' types.               *)
LEMMA PublishTyped ==
    ASSUME Sessions, NEW a \in Attempts, pc[a] = "commit", Publish(a)
    PROVE  /\ wallets' \in [Wallets -> WalletStates]
           /\ txs' \in [Attempts -> Rows \cup {None}]
           /\ ledger' \in [Wallets -> Seq(Movements)]
           /\ inbox' \in [Messages -> InboxRecords \cup {None}]
           /\ outbox' \subseteq [tx: Attempts, type: EventTypes]
           /\ Committed \subseteq Committed'
<1>1. cmd[a] \in Commands
    BY DEF Sessions, SessionOK
<1>2. wallets' \in [Wallets -> WalletStates]
    <2>1. CASE move[a] # None
        <3>1. move[a] \in Movements /\ cmd[a].wallet \in Wallets
            BY <2>1 DEF Sessions, TypeOK, SessionOK
        <3>2. [balance |-> move[a].after, version |-> move[a].version] \in WalletStates
            BY <3>1 DEF Movements, WalletStates
        <3> QED BY <2>1, <3>1, <3>2 DEF Publish, Sessions, TypeOK
    <2> QED BY <2>1 DEF Publish, Sessions, TypeOK
<1>3. txs' \in [Attempts -> Rows \cup {None}]
    BY DEF Publish, Sessions, TypeOK
<1>4. ledger' \in [Wallets -> Seq(Movements)]
    <2>1. CASE move[a] # None
        <3>1. move[a] \in Movements /\ cmd[a].wallet \in Wallets
            BY <2>1 DEF Sessions, TypeOK, SessionOK
        <3>2. Append(ledger[cmd[a].wallet], move[a]) \in Seq(Movements)
            BY <3>1 DEF Sessions, TypeOK
        <3> QED BY <2>1, <3>1, <3>2 DEF Publish, Sessions, TypeOK
    <2> QED BY <2>1 DEF Publish, Sessions, TypeOK
<1>5. inbox' \in [Messages -> InboxRecords \cup {None}]
    <2>1. [hash |-> CanonicalHash(cmd[a]), completed |-> TRUE] \in InboxRecords
        BY <1>1 DEF InboxRecords
    <2> QED BY <2>1 DEF Publish, Sessions, TypeOK
<1>6. outbox' \subseteq [tx: Attempts, type: EventTypes]
    <2>1. CASE row[a] # None
        <3>1. row[a].status \in {"PROCESSED", "REJECTED", "PENDING_REFERENCE"}
            BY <2>1 DEF Sessions, TypeOK, SessionOK, Rows, Statuses
        <3>2. Events(a, row[a], move[a]) \subseteq [tx: Attempts, type: EventTypes]
            BY <3>1 DEF Events, EventTypes
        <3> QED BY <2>1, <3>2 DEF Publish, Sessions, TypeOK
    <2> QED BY <2>1 DEF Publish, Sessions, TypeOK
<1>7. Committed \subseteq Committed'
    BY DEF Publish, Sessions, TypeOK, Committed
<1> QED BY <1>2, <1>3, <1>4, <1>5, <1>6, <1>7

(* A commit, acknowledged or not, writes well-typed tables.                *)
LEMMA CommitKeepsSessions ==
    ASSUME Sessions, NEW a \in Attempts, Commit(a) \/ CommitUnacknowledged(a)
    PROVE  Sessions'
<1>1. pc[a] = "commit" /\ Open(a) /\ Publish(a)
    BY DEF Commit, CommitUnacknowledged, Open, Statements
<1>2. PICK ans \in Answers : Return(a, ans)
    <2>1. row[a] = None => answer[a] \in Answers
        BY <1>1 DEF Sessions, SessionOK
    <2>2. row[a] # None => Result(a, row[a], FALSE) \in Answers
        BY ResultIsAnswer DEF Sessions, TypeOK
    <2>3. Failure("CONNECTION_LOST") \in Answers
        BY FailureIsAnswer DEF Errors
    <2> QED BY <2>1, <2>2, <2>3 DEF Commit, CommitUnacknowledged
<1> QED BY <1>1, <1>2, PublishTyped, ReturnKeepsSessions DEF Sessions, TypeOK

(* A lost connection or a deadlock rolls back a call that was running.     *)
LEMMA AbortedKeepsSessions ==
    ASSUME Sessions, NEW a \in Attempts, LoseConnection(a) \/ AbortDeadlock(a)
    PROVE  Sessions'
<1>1. Open(a)
    <2>1. ASSUME Deadlocked(a) PROVE Open(a)
        BY <2>1 DEF Deadlocked, WaitCycle, Stuck, Blockers, Open, Statements
    <2> QED BY <2>1 DEF LoseConnection, AbortDeadlock
<1> QED BY <1>1, AbortKeepsSessions DEF LoseConnection, AbortDeadlock, Errors

(* Every step of every call keeps the invariant.                           *)
LEMMA StepKeepsSessions == Sessions /\ [Next]_vars => Sessions'
<1> SUFFICES ASSUME Sessions, [Next]_vars PROVE Sessions'
    OBVIOUS
<1>1. CASE UNCHANGED vars
    BY <1>1 DEF vars, Sessions, TypeOK, SessionOK, Committed
<1>2. ASSUME NEW a \in Attempts, NEW c \in Commands, Submit(a, c) PROVE Sessions'
    BY <1>2, SubmitKeepsSessions
<1>3. ASSUME NEW a \in Attempts, Step(a) PROVE Sessions'
    BY <1>3, FindInboxKeepsSessions, ReplayByKeyKeepsSessions, InsertInboxKeepsSessions,
       FindExternalKeepsSessions, FindKeyKeepsSessions, CreateKeepsSessions,
       ShareWalletKeepsSessions, ReadWalletKeepsSessions, FindReferenceKeepsSessions,
       CountKeepsSessions, LockWalletKeepsSessions, AttachReferenceKeepsSessions,
       SaveWalletKeepsSessions, CommitKeepsSessions
    DEF Step
<1>4. ASSUME NEW a \in Attempts, CommitUnacknowledged(a) PROVE Sessions'
    BY <1>4, CommitKeepsSessions
<1>5. ASSUME NEW a \in Attempts, LoseConnection(a) \/ AbortDeadlock(a) PROVE Sessions'
    BY <1>5, AbortedKeepsSessions
<1> QED BY <1>1, <1>2, <1>3, <1>4, <1>5 DEF Next

(* Every reachable state is well typed: in particular no balance in a      *)
(* wallet, a row or a ledger entry is ever negative, whatever is submitted *)
(* and however the calls interleave and fail.                              *)
THEOREM TypeCorrect == Spec => []TypeOK
<1>1. Sessions => TypeOK
    BY DEF Sessions
<1> QED BY <1>1, SessionsInit, StepKeepsSessions, PTL DEF Spec

-----------------------------------------------------------------------------
(* Money.  The invariant that carries the ledger: a movement waiting to be *)
(* committed was computed from the wallet as it still is, under a lock     *)
(* that nobody else can hold.                                              *)
Money == LockedReadsAreCurrent /\ BalanceMatchesLedger

(* Opening a wallet writes the entry that explains its balance.            *)
LEMMA MoneyInit == Init => Money
<1> SUFFICES ASSUME Init PROVE Money
    OBVIOUS
<1>1. LockedReadsAreCurrent
    BY DEF Init, LockedReadsAreCurrent
<1>2. ASSUME NEW w \in Wallets
      PROVE  /\ Consecutive(ledger[w])
             /\ IF ledger[w] = << >> THEN wallets[w] = [balance |-> 0, version |-> 1]
                ELSE LET last == ledger[w][Len(ledger[w])] IN
                     wallets[w] = [balance |-> last.after, version |-> last.version]
    <2>1. OpeningBalance[w] \in Nat
        BY WalletsAssumption
    <2>2. CASE OpeningBalance[w] = 0
        BY <2>1, <2>2 DEF Init, OpenedLedger, OpenedWallet, Consecutive
    <2>3. CASE OpeningBalance[w] # 0
        <3> DEFINE e == [tx |-> None, direction |-> "CREDIT", amount |-> OpeningBalance[w],
                         before |-> 0, after |-> OpeningBalance[w], version |-> 1]
        <3>1. ledger[w] = <<e>>
            BY <2>3 DEF Init, OpenedLedger
        <3>2. wallets[w] = [balance |-> e.after, version |-> e.version]
            BY DEF Init, OpenedWallet
        <3> HIDE DEF e
        <3> QED BY <3>1, <3>2 DEF Consecutive
    <2> QED BY <2>2, <2>3
<1> QED BY <1>1, <1>2 DEF Money, BalanceMatchesLedger, Explains

(* A step that leaves wallets and ledger alone and adds no movement keeps  *)
(* the invariant, whatever it releases on behalf of a.                     *)
LEMMA QuietKeepsMoney ==
    ASSUME Sessions, Money, NEW a \in Attempts,
           UNCHANGED <<wallets, ledger>>,
           \A b \in Attempts \ {a} : move'[b] = move[b] /\ cmd'[b] = cmd[b],
           \/ move'[a] = None
           \/ move'[a] = move[a] /\ cmd'[a] = cmd[a] /\ owner' = owner,
           \A w \in Wallets : owner'[w] = owner[w] \/ owner[w] = a \/ owner[w] = None
    PROVE  Money'
<1>1. BalanceMatchesLedger'
    BY DEF Money, BalanceMatchesLedger, Explains
<1>2. ASSUME NEW b \in Attempts, move'[b] # None
      PROVE  /\ owner'[cmd'[b].wallet] = b
             /\ move'[b].before = wallets'[cmd'[b].wallet].balance
             /\ move'[b].version = wallets'[cmd'[b].wallet].version + 1
    <2>1. move'[b] = move[b] /\ cmd'[b] = cmd[b] /\ cmd[b].wallet \in Wallets
        BY <1>2 DEF Sessions, SessionOK
    <2>2. owner[cmd[b].wallet] = b
        BY <1>2, <2>1 DEF Money, LockedReadsAreCurrent
    <2>3. owner'[cmd[b].wallet] = b
        <3>1. CASE b = a
            BY <1>2, <2>2, <3>1
        <3>2. CASE b # a
            BY <2>1, <2>2, <3>2, NoneAssumption
        <3> QED BY <3>1, <3>2
    <2> QED BY <1>2, <2>1, <2>3 DEF Money, LockedReadsAreCurrent
<1> QED BY <1>1, <1>2 DEF Money, LockedReadsAreCurrent

(* A call that returns without having written money keeps the invariant.   *)
LEMMA ReturnKeepsMoney ==
    ASSUME Sessions, Money, NEW a \in Attempts, NEW ans, Return(a, ans),
           UNCHANGED <<wallets, ledger>>
    PROVE  Money'
    BY QuietKeepsMoney DEF Return, Sessions, TypeOK

(* A movement is computed from the balance that its lock protects.         *)
LEMMA LockWalletKeepsMoney ==
    ASSUME Sessions, Money, NEW a \in Attempts, LockWallet(a) PROVE Money'
<1> DEFINE w == cmd[a].wallet
<1>1. pc[a] = "lockWallet" /\ w \in Wallets /\ Blockers(a) = {}
    BY DEF LockWallet, Sessions, SessionOK, Written
<1>2. move[a] = None
    BY <1>1 DEF Sessions, SessionOK, Booked
<1>3. owner[w] \in {a, None}
    BY <1>1 DEF Blockers, Sessions, TypeOK
<1>4. CASE Abort(a, "CURRENCY_MISMATCH")
    BY <1>4, ReturnKeepsMoney DEF Abort, tables
<1>5. ASSUME owner' = [owner EXCEPT ![w] = a], UNCHANGED <<tables, cmd>>, UNCHANGED move
      PROVE  Money'
    BY <1>2, <1>3, <1>5, QuietKeepsMoney DEF tables, Sessions, TypeOK
<1>6. ASSUME owner' = [owner EXCEPT ![w] = a], UNCHANGED <<tables, cmd>>,
             NEW d, move' = [move EXCEPT ![a] = Move(a, d, cmd[a].amount, wallets[w])]
      PROVE  Money'
    <2>1. BalanceMatchesLedger'
        BY <1>6 DEF Money, BalanceMatchesLedger, Explains, tables
    <2>2. ASSUME NEW b \in Attempts, move'[b] # None
          PROVE  /\ owner'[cmd'[b].wallet] = b
                 /\ move'[b].before = wallets'[cmd'[b].wallet].balance
                 /\ move'[b].version = wallets'[cmd'[b].wallet].version + 1
        <3>1. CASE b = a
            <4>1. move'[a] = Move(a, d, cmd[a].amount, wallets[w])
                BY <1>6 DEF Sessions, TypeOK
            <4> QED BY <1>1, <1>6, <3>1, <4>1 DEF Move, tables, Sessions, TypeOK
        <3>2. CASE b # a
            <4>1. move[b] # None /\ move'[b] = move[b]
                BY <1>6, <2>2, <3>2 DEF Sessions, TypeOK
            <4>2. /\ owner[cmd[b].wallet] = b
                  /\ move[b].before = wallets[cmd[b].wallet].balance
                  /\ move[b].version = wallets[cmd[b].wallet].version + 1
                BY <4>1 DEF Money, LockedReadsAreCurrent
            <4>3. cmd[b].wallet # w
                BY <1>3, <3>2, <4>2, NoneAssumption
            <4> QED BY <1>6, <4>1, <4>2, <4>3 DEF tables, Sessions, TypeOK
        <3> QED BY <3>1, <3>2
    <2> QED BY <2>1, <2>2 DEF Money, LockedReadsAreCurrent
<1> QED BY <1>4, <1>5, <1>6 DEF LockWallet

(* A commit extends the chain of its wallet by the entry it computed.      *)
LEMMA CommitKeepsMoney ==
    ASSUME Sessions, Money, NEW a \in Attempts, NEW ans,
           pc[a] = "commit", Publish(a), Return(a, ans)
    PROVE  Money'
<1> DEFINE w == cmd[a].wallet
           m == move[a]
<1>1. CASE m = None
    BY <1>1, ReturnKeepsMoney DEF Publish
<1>2. CASE m # None
    <2>1. w \in Wallets /\ m \in Movements
        BY <1>2 DEF Sessions, TypeOK, SessionOK
    <2>2. /\ owner[w] = a
          /\ m.before = wallets[w].balance
          /\ m.version = wallets[w].version + 1
        BY <1>2 DEF Money, LockedReadsAreCurrent
    <2>3. /\ wallets' = [wallets EXCEPT ![w] = [balance |-> m.after, version |-> m.version]]
          /\ ledger' = [ledger EXCEPT ![w] = Append(ledger[w], m)]
        BY <1>2 DEF Publish
    <2> HIDE DEF m
    <2>4. LockedReadsAreCurrent'
        <3> SUFFICES ASSUME NEW b \in Attempts, move'[b] # None
                     PROVE  /\ owner'[cmd'[b].wallet] = b
                            /\ move'[b].before = wallets'[cmd'[b].wallet].balance
                            /\ move'[b].version = wallets'[cmd'[b].wallet].version + 1
            BY DEF LockedReadsAreCurrent
        <3>1. b # a /\ move'[b] = move[b] /\ cmd' = cmd /\ cmd[b].wallet \in Wallets
            BY DEF Return, Sessions, TypeOK, SessionOK
        <3>2. /\ owner[cmd[b].wallet] = b
              /\ move[b].before = wallets[cmd[b].wallet].balance
              /\ move[b].version = wallets[cmd[b].wallet].version + 1
            BY <3>1 DEF Money, LockedReadsAreCurrent
        <3>3. cmd[b].wallet # w
            BY <2>2, <3>1, <3>2
        <3>4. owner'[cmd[b].wallet] = b
            BY <3>1, <3>2 DEF Return
        <3>5. wallets'[cmd[b].wallet] = wallets[cmd[b].wallet]
            BY <2>3, <3>1, <3>3 DEF Sessions, TypeOK
        <3> QED BY <3>1, <3>2, <3>4, <3>5
    <2>5. BalanceMatchesLedger'
        <3> SUFFICES ASSUME NEW v \in Wallets
                     PROVE  /\ Consecutive(ledger'[v])
                            /\ IF ledger'[v] = << >>
                               THEN wallets'[v] = [balance |-> 0, version |-> 1]
                               ELSE LET last == ledger'[v][Len(ledger'[v])] IN
                                    wallets'[v] = [balance |-> last.after,
                                                   version |-> last.version]
            BY DEF BalanceMatchesLedger, Explains
        <3>1. CASE v # w
            BY <2>3, <3>1 DEF Money, BalanceMatchesLedger, Explains, Sessions, TypeOK
        <3>2. CASE v = w
            <4> DEFINE es == ledger[w]
            <4>1. es \in Seq(Movements) /\ Len(es) \in Nat
                BY <2>1 DEF Sessions, TypeOK
            <4>2. ledger'[v] = Append(es, m)
                BY <2>1, <2>3, <3>2 DEF Sessions, TypeOK
            <4>3. wallets'[v] = [balance |-> m.after, version |-> m.version]
                BY <2>1, <2>3, <3>2 DEF Sessions, TypeOK
            <4>4. Consecutive(es)
                BY <2>1 DEF Money, BalanceMatchesLedger, Explains
            <4>5. ASSUME es # << >>
                  PROVE  /\ m.before = es[Len(es)].after
                         /\ m.version = es[Len(es)].version + 1
                <5>1. wallets[w] = [balance |-> es[Len(es)].after,
                                    version |-> es[Len(es)].version]
                    BY <2>1, <4>5 DEF Money, BalanceMatchesLedger, Explains
                <5> HIDE DEF es
                <5> QED BY <2>2, <5>1
            <4> HIDE DEF es
            <4>6. /\ Len(Append(es, m)) = Len(es) + 1
                  /\ Append(es, m)[Len(es) + 1] = m
                  /\ \A i \in 1 .. Len(es) : Append(es, m)[i] = es[i]
                  /\ Append(es, m) # << >>
                BY <2>1, <4>1
            <4>7. Consecutive(Append(es, m))
                <5> SUFFICES ASSUME NEW i \in 1 .. Len(es)
                             PROVE  /\ Append(es, m)[i + 1].before = Append(es, m)[i].after
                                    /\ Append(es, m)[i + 1].version
                                          = Append(es, m)[i].version + 1
                    BY <4>1, <4>6 DEF Consecutive
                <5>1. CASE i = Len(es)
                    <6>1. es # << >>
                        BY <4>1, <5>1
                    <6> QED BY <4>1, <4>5, <4>6, <5>1, <6>1
                <5>2. CASE i # Len(es)
                    <6>1. i \in 1 .. Len(es) - 1 /\ i + 1 \in 1 .. Len(es)
                        BY <4>1, <5>2
                    <6> QED BY <4>4, <4>6, <6>1 DEF Consecutive
                <5> QED BY <5>1, <5>2
            <4> QED BY <4>1, <4>2, <4>3, <4>6, <4>7
        <3> QED BY <3>1, <3>2
    <2> QED BY <2>4, <2>5 DEF Money
<1> QED BY <1>1, <1>2

(* Every step of every call keeps ledger and balances in agreement.        *)
LEMMA StepKeepsMoney == Sessions /\ Money /\ [Next]_vars => Money'
<1> SUFFICES ASSUME Sessions, Money, [Next]_vars PROVE Money'
    OBVIOUS
<1> USE DEF Sessions, TypeOK
<1>1. CASE UNCHANGED vars
    BY <1>1 DEF vars, Money, LockedReadsAreCurrent, BalanceMatchesLedger, Explains
<1>2. ASSUME NEW a \in Attempts, NEW c \in Commands, Submit(a, c) PROVE Money'
    <2>1. move[a] = None
        BY <1>2 DEF Submit, SessionOK, Booked
    <2> QED BY <1>2, <2>1, QuietKeepsMoney DEF Submit, Goto, tables
<1>3. ASSUME NEW a \in Attempts, NEW e, Abort(a, e) PROVE Money'
    BY <1>3, ReturnKeepsMoney DEF Abort, tables
<1>4. ASSUME NEW a \in Attempts, UNCHANGED <<tables, cmd, move, owner>> PROVE Money'
    BY <1>4, QuietKeepsMoney DEF tables
<1>5. ASSUME NEW a \in Attempts, Step(a) PROVE Money'
    <2> USE <1>3, <1>4
    <2> HIDE DEF Sessions, TypeOK
    <2>1. CASE FindInbox(a)
        BY <2>1 DEF FindInbox, Reads
    <2>2. CASE ReplayByKey(a)
        <3>1. CASE \E t \in ByKey(cmd[a]) :
                     Return(a, Result(t, txs[t], TRUE)) /\ UNCHANGED tables
            BY <3>1, ReturnKeepsMoney DEF tables
        <3> QED BY <2>2, <3>1 DEF ReplayByKey
    <2>3. CASE InsertInbox(a)
        BY <2>3 DEF InsertInbox, Reads
    <2>4. CASE FindExternal(a)
        BY <2>4 DEF FindExternal, Reads
    <2>5. CASE FindKey(a)
        BY <2>5 DEF FindKey, Reads
    <2>6. CASE Create(a)
        BY <2>6 DEF Create
    <2>7. CASE ShareWallet(a)
        BY <2>7 DEF ShareWallet, Reads
    <2>8. CASE ReadWallet(a)
        BY <2>8 DEF ReadWallet
    <2>9. CASE FindReference(a)
        BY <2>9 DEF FindReference
    <2>10. CASE CountRefunds(a) \/ CountRollbacks(a)
        BY <2>10 DEF CountRefunds, CountRollbacks, Count
    <2>11. CASE LockWallet(a)
        BY <2>11, LockWalletKeepsMoney
    <2>12. CASE AttachReference(a)
        BY <2>12 DEF AttachReference
    <2>13. CASE SaveWallet(a)
        BY <2>13 DEF SaveWallet
    <2>14. CASE Commit(a)
        BY <2>14, CommitKeepsMoney DEF Commit
    <2> QED BY <1>5, <2>1, <2>2, <2>3, <2>4, <2>5, <2>6, <2>7, <2>8, <2>9, <2>10, <2>11,
               <2>12, <2>13, <2>14 DEF Step
<1>6. ASSUME NEW a \in Attempts, CommitUnacknowledged(a) PROVE Money'
    BY <1>6, CommitKeepsMoney DEF CommitUnacknowledged
<1>7. ASSUME NEW a \in Attempts, LoseConnection(a) \/ AbortDeadlock(a) PROVE Money'
    BY <1>3, <1>7 DEF LoseConnection, AbortDeadlock
<1> QED BY <1>1, <1>2, <1>5, <1>6, <1>7 DEF Next

(* What a call has read of its wallet under FOR UPDATE is what the wallet  *)
(* still holds when the call writes it back: no update is ever lost, and   *)
(* the version check of WalletRepository.Save cannot fail.                 *)
THEOREM NoStaleMovement == Spec => []LockedReadsAreCurrent
<1>1. Money => LockedReadsAreCurrent
    BY DEF Money
<1> QED BY <1>1, SessionsInit, StepKeepsSessions, MoneyInit, StepKeepsMoney, PTL DEF Spec

(* The ledger of every wallet is an unbroken chain from its opening to its *)
(* stored balance, one entry per version.                                  *)
THEOREM LedgerExplainsBalance == Spec => []BalanceMatchesLedger
<1>1. Money => BalanceMatchesLedger
    BY DEF Money
<1> QED BY <1>1, SessionsInit, StepKeepsSessions, MoneyInit, StepKeepsMoney, PTL DEF Spec
=============================================================================
