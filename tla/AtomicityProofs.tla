-------------------------- MODULE AtomicityProofs ---------------------------
(***************************************************************************)
(* For every set of attempts, commands and wallets: money moves exactly    *)
(* for the transactions that say so, a reversal moves it back, and the     *)
(* interleaved, failing calls of Execute implement the atomic commands of  *)
(* AtomicWagers.                                                           *)
(***************************************************************************)
EXTENDS UniquenessProofs

(* What a call is about to write agrees with what it was asked: its        *)
(* movement is its own, for its amount, in its direction; its row says     *)
(* PROCESSED exactly if it moves money or is a LOSS; a reversal still fits *)
(* what it names.                                                          *)
BookOK(a) ==
    /\ move[a] # None =>
          /\ move[a].tx = a
          /\ move[a].amount = cmd[a].amount
          /\ move[a].direction = MoveDirection(a)
          /\ cmd[a].kind # "LOSS"
    /\ pc[a] = "commit" /\ row[a] # None =>
          IF row[a].status = "PROCESSED" /\ cmd[a].kind # "LOSS"
          THEN move[a] # None /\ row[a].balance = move[a].after
          ELSE move[a] = None
    /\ Validated(a) => ReferenceFault(cmd[a], txs[ref[a]]) = None

(* A filed row that has moved money, and the way it moved it.              *)
Moved(t) == t \in Committed /\ txs[t].status = "PROCESSED" /\ txs[t].cmd.kind # "LOSS"
Way(t) ==
    IF txs[t].cmd.kind \in Reversals THEN ReversalDirection(txs[txs[t].resolved].cmd.kind)
    ELSE IF txs[t].cmd.kind = "BET" THEN "DEBIT" ELSE "CREDIT"

(* Its only entry, in the ledger of its wallet.                            *)
EntryAt(t, w, i) ==
    /\ w = txs[t].cmd.wallet /\ w \in Wallets /\ i \in DOMAIN ledger[w]
    /\ EntriesOf(t, ledger) = {<<w, i>>}
    /\ ledger[w][i].amount = txs[t].cmd.amount
    /\ ledger[w][i].after = txs[t].balance
    /\ ledger[w][i].direction = Way(t)

FiledOK(t) ==
    IF Moved(t)
    THEN /\ \E w \in Wallets : \E i \in DOMAIN ledger[w] : EntryAt(t, w, i)
         /\ txs[t].cmd.kind \in Reversals =>
               /\ txs[t].resolved \in Committed
               /\ ReferenceFault(txs[t].cmd, txs[txs[t].resolved]) = None
    ELSE EntriesOf(t, ledger) = {}

Booking == \A a \in Attempts : BookOK(a) /\ FiledOK(a)

(* Everything the argument stands on.                                      *)
Standing == Sessions /\ KeysAreUnique /\ Money /\ OwnersAreAlone /\ Undoing

-----------------------------------------------------------------------------
(* The entries of a transaction, one by one.                               *)
LEMMA EntriesAre ==
    ASSUME NEW t, NEW books, NEW e
    PROVE  e \in EntriesOf(t, books) <=>
               \E w \in Wallets : \E i \in DOMAIN books[w] :
                   e = <<w, i>> /\ books[w][i].tx = t
<1>1. ASSUME e \in EntriesOf(t, books)
      PROVE  \E w \in Wallets : \E i \in DOMAIN books[w] : e = <<w, i>> /\ books[w][i].tx = t
    <2>1. PICK w \in Wallets : e \in {w} \X DOMAIN books[w]
        BY <1>1 DEF EntriesOf
    <2>2. e = <<w, e[2]>> /\ e[1] = w /\ e[2] \in DOMAIN books[w]
        BY <2>1
    <2>3. books[e[1]][e[2]].tx = t
        BY <1>1 DEF EntriesOf
    <2> QED BY <2>2, <2>3
<1>2. ASSUME NEW w \in Wallets, NEW i \in DOMAIN books[w], e = <<w, i>>, books[w][i].tx = t
      PROVE  e \in EntriesOf(t, books)
    <2>1. e \in {w} \X DOMAIN books[w] /\ e[1] = w /\ e[2] = i
        BY <1>2
    <2> QED BY <1>2, <2>1 DEF EntriesOf
<1> QED BY <1>1, <1>2

(* The opening entry belongs to no transaction.                            *)
LEMMA BookingInit == Init => Booking
<1> SUFFICES ASSUME Init, NEW a \in Attempts PROVE BookOK(a) /\ FiledOK(a)
    BY DEF Booking
<1>1. BookOK(a)
    BY DEF Init, BookOK, Validated, Cleared
<1>2. ASSUME NEW w \in Wallets, NEW i \in DOMAIN ledger[w] PROVE ledger[w][i].tx # a
    <2> DEFINE e == [tx |-> None, direction |-> "CREDIT", amount |-> OpeningBalance[w],
                     before |-> 0, after |-> OpeningBalance[w], version |-> 1]
    <2>1. ledger[w] = << >> \/ ledger[w] = <<e>>
        BY DEF Init, OpenedLedger
    <2>2. e.tx = None
        OBVIOUS
    <2> HIDE DEF e
    <2> QED BY <2>1, <2>2, <1>2, NoneAssumption
<1>3. EntriesOf(a, ledger) = {}
    BY <1>2, EntriesAre
<1>4. ~ Moved(a)
    BY DEF Init, Moved, Committed
<1> QED BY <1>1, <1>3, <1>4 DEF FiledOK

(* The books of all wallets grow by one entry, the n-th of wallet w.       *)
Grown(books, later, w, n, m) ==
    /\ \A v \in Wallets : \A i \in DOMAIN books[v] :
          i \in DOMAIN later[v] /\ later[v][i] = books[v][i]
    /\ n \in DOMAIN later[w] /\ later[w][n] = m
    /\ \A v \in Wallets : \A i \in DOMAIN later[v] :
          \/ i \in DOMAIN books[v] /\ later[v][i] = books[v][i]
          \/ v = w /\ i = n

(* The new entry goes to its transaction and to no other.                  *)
LEMMA EntriesGrow ==
    ASSUME NEW books, NEW later, NEW w \in Wallets, NEW n, NEW m, NEW t,
           Grown(books, later, w, n, m)
    PROVE  EntriesOf(t, later) =
               EntriesOf(t, books) \cup (IF m.tx = t THEN {<<w, n>>} ELSE {})
<1> USE DEF Grown
<1>1. ASSUME NEW e \in EntriesOf(t, later)
      PROVE  e \in EntriesOf(t, books) \/ (m.tx = t /\ e = <<w, n>>)
    <2>1. PICK v \in Wallets : \E i \in DOMAIN later[v] : e = <<v, i>> /\ later[v][i].tx = t
        BY EntriesAre
    <2>2. PICK i \in DOMAIN later[v] : e = <<v, i>> /\ later[v][i].tx = t
        BY <2>1
    <2>3. CASE i \in DOMAIN books[v] /\ later[v][i] = books[v][i]
        <3>1. books[v][i].tx = t
            BY <2>2, <2>3
        <3> QED BY <2>2, <2>3, <3>1, EntriesAre
    <2>4. CASE v = w /\ i = n
        BY <2>2, <2>4
    <2> QED BY <2>2, <2>3, <2>4
<1>2. ASSUME NEW e \in EntriesOf(t, books) PROVE e \in EntriesOf(t, later)
    <2>1. PICK v \in Wallets : \E i \in DOMAIN books[v] : e = <<v, i>> /\ books[v][i].tx = t
        BY EntriesAre
    <2>2. PICK i \in DOMAIN books[v] : e = <<v, i>> /\ books[v][i].tx = t
        BY <2>1
    <2>3. i \in DOMAIN later[v] /\ later[v][i].tx = t
        BY <2>2
    <2> QED BY <2>2, <2>3, EntriesAre
<1>3. ASSUME m.tx = t PROVE <<w, n>> \in EntriesOf(t, later)
    BY <1>3, EntriesAre
<1> QED BY <1>1, <1>2, <1>3

(* Appending to one ledger is such a growth.                               *)
LEMMA AppendGrows ==
    ASSUME NEW books \in [Wallets -> Seq(Movements)], NEW w \in Wallets, NEW m \in Movements,
           NEW later, later = [books EXCEPT ![w] = Append(@, m)]
    PROVE  Grown(books, later, w, Len(books[w]) + 1, m)
<1> DEFINE es == books[w]
<1>1. es \in Seq(Movements) /\ Len(es) \in Nat
    OBVIOUS
<1>2. later[w] = Append(es, m) /\ \A v \in Wallets \ {w} : later[v] = books[v]
    OBVIOUS
<1>3. /\ Append(es, m) \in Seq(Movements)
      /\ DOMAIN es = 1 .. Len(es)
      /\ DOMAIN Append(es, m) = 1 .. Len(es) + 1
      /\ Append(es, m)[Len(es) + 1] = m
      /\ \A i \in 1 .. Len(es) : Append(es, m)[i] = es[i]
    <2> HIDE DEF es
    <2> QED BY <1>1
<1>4. \A v \in Wallets : \A i \in DOMAIN books[v] :
        i \in DOMAIN later[v] /\ later[v][i] = books[v][i]
    <2> SUFFICES ASSUME NEW v \in Wallets, NEW i \in DOMAIN books[v]
                 PROVE  i \in DOMAIN later[v] /\ later[v][i] = books[v][i]
        OBVIOUS
    <2>1. CASE v = w
        BY <1>1, <1>2, <1>3, <2>1
    <2>2. CASE v # w
        BY <1>2, <2>2
    <2> QED BY <2>1, <2>2
<1>5. Len(es) + 1 \in DOMAIN later[w] /\ later[w][Len(es) + 1] = m
    BY <1>1, <1>2, <1>3
<1>6. ASSUME NEW v \in Wallets, NEW i \in DOMAIN later[v]
      PROVE  \/ i \in DOMAIN books[v] /\ later[v][i] = books[v][i]
             \/ v = w /\ i = Len(es) + 1
    <2>1. CASE v = w
        BY <1>1, <1>2, <1>3, <1>6, <2>1
    <2>2. CASE v # w
        BY <1>2, <1>6, <2>2
    <2> QED BY <2>1, <2>2
<1> QED BY <1>4, <1>5, <1>6 DEF Grown

-----------------------------------------------------------------------------
(* A step that files nothing leaves what is filed, and what others carry.  *)
LEMMA OthersKeepBooking ==
    ASSUME Standing, Booking, NEW a \in Attempts, Others(a), UNCHANGED <<txs, ledger>>,
           BookOK(a)'
    PROVE  Booking'
<1>1. Committed' = Committed
    BY DEF Committed
<1>2. ASSUME NEW b \in Attempts \ {a} PROVE BookOK(b)'
    <2>1. BookOK(b)
        BY DEF Booking
    <2> QED BY <2>1 DEF Others, BookOK, MoveDirection, Validated, Cleared
<1>3. ASSUME NEW t \in Attempts PROVE FiledOK(t)'
    <2>1. FiledOK(t)
        BY DEF Booking
    <2> QED BY <1>1, <2>1 DEF FiledOK, Moved, EntryAt, Way
<1> QED BY <1>2, <1>3 DEF Booking

(* A call that has ended has nothing left to book.                         *)
LEMMA EndsKeepsBooking ==
    ASSUME Standing, Booking, NEW a \in Attempts, Others(a), Ended(a), UNCHANGED <<txs, ledger>>
    PROVE  Booking'
<1>1. BookOK(a)'
    BY DEF Ended, BookOK, Validated, Cleared
<1> QED BY <1>1, OthersKeepBooking

(* A call that is rolled back has not booked anything.                     *)
LEMMA AbortKeepsBooking ==
    ASSUME Standing, Booking, NEW a \in Attempts, NEW e, Abort(a, e) PROVE Booking'
    BY AbortEnds, EndsKeepsBooking DEF Standing, Ends, Abort, tables

(* A call that is not done with its row, and has no movement yet.          *)
LEMMA QuietKeepsBooking ==
    ASSUME Standing, Booking, NEW a \in Attempts, Others(a), UNCHANGED <<txs, ledger, move>>,
           move[a] = None,
           pc'[a] # "commit" \/ row'[a] = None,
           Validated(a)' => ReferenceFault(cmd'[a], txs[ref'[a]]) = None
    PROVE  Booking'
<1>1. BookOK(a)'
    BY DEF BookOK
<1> QED BY <1>1, OthersKeepBooking

(* A call that decides its row without money.                              *)
LEMMA DecideKeepsBooking ==
    ASSUME Standing, Booking, NEW a \in Attempts, Others(a), UNCHANGED <<tables, cmd, move>>,
           pc[a] \in Written \ Booked, Goto(a, "commit"),
           \/ cmd[a].kind = "LOSS"
           \/ \E code : Writes(a, MarkRejected(row[a], code))
           \/ Writes(a, MarkPendingReference(row[a]))
    PROVE  Booking'
<1>1. move[a] = None /\ pc'[a] = "commit" /\ row[a] \in Rows
    BY DEF Standing, Sessions, TypeOK, SessionOK, Written, Booked, Goto
<1>2. /\ \A code : MarkRejected(row[a], code).status = "REJECTED"
      /\ MarkPendingReference(row[a]).status = "PENDING_REFERENCE"
    BY <1>1 DEF MarkRejected, MarkPendingReference, Rows
<1>3. \/ cmd[a].kind = "LOSS"
      \/ \E code : row'[a] = MarkRejected(row[a], code)
      \/ row'[a] = MarkPendingReference(row[a])
    BY DEF Writes, Standing, Sessions, TypeOK
<1>4. cmd[a].kind = "LOSS" \/ row'[a].status # "PROCESSED"
    BY <1>2, <1>3
<1>5. BookOK(a)'
    BY <1>1, <1>4 DEF BookOK, Validated, Cleared
<1> QED BY <1>5, OthersKeepBooking DEF tables

(* A reversal that goes on has found a reference that fits.                *)
LEMMA FindReferenceKeepsBooking ==
    ASSUME Standing, Booking, NEW a \in Attempts, Others(a), FindReference(a) PROVE Booking'
<1> USE DEF Standing
<1>1. /\ pc[a] = "findReference" /\ row[a] # None /\ cmd[a].kind \in Reversals
      /\ UNCHANGED <<tables, cmd, move>> /\ pc[a] \in Written \ Booked /\ move[a] = None
    BY DEF FindReference, Sessions, SessionOK, Written, Booked
<1>2. CASE \/ \E code : Writes(a, MarkRejected(row[a], code)) /\ Goto(a, "commit")
           \/ Writes(a, MarkPendingReference(row[a])) /\ Goto(a, "commit")
    BY <1>1, <1>2, DecideKeepsBooking
<1>3. ASSUME NEW t \in ByExternalId(a, cmd[a].provider, cmd[a].ref),
             ReferenceFault(cmd[a], Seen(a, t)) = None,
             ref' = [ref EXCEPT ![a] = t], Goto(a, "countRefunds"), UNCHANGED row
      PROVE  Booking'
    <2>1. t \in Attempts /\ Seen(a, t) # None
        BY DEF ByExternalId
    <2>2. t \in Committed
        BY <1>1, <1>3, <2>1, ReferenceIsCommitted
    <2>3. Seen(a, t) = txs[t]
        BY <1>1, <2>2 DEF KeysAreUnique, Seen
    <2>4. pc'[a] = "countRefunds" /\ ref'[a] = t
        BY <1>3, <2>1 DEF Goto, Sessions, TypeOK
    <2> QED BY <1>1, <1>3, <2>3, <2>4, QuietKeepsBooking DEF tables
<1> QED BY <1>2, <1>3 DEF FindReference, Reject

(* The movement a call computes is its own.                                *)
LEMMA LockWalletKeepsBooking ==
    ASSUME Standing, Booking, NEW a \in Attempts, Others(a), LockWallet(a) PROVE Booking'
<1> USE DEF Standing
<1> DEFINE m == Move(a, MoveDirection(a), cmd[a].amount, wallets[cmd[a].wallet])
<1>1. /\ pc[a] = "lockWallet" /\ pc[a] \in Written \ Booked /\ cmd[a].kind # "LOSS"
      /\ BookOK(a)
    BY DEF LockWallet, Sessions, SessionOK, Written, Booked, Reversals, Booking
<1>2. CASE \E e : Abort(a, e)
    BY <1>2, AbortKeepsBooking
<1>3. CASE (\E code : Reject(a, code)) /\ UNCHANGED <<tables, cmd, move>>
    BY <1>1, <1>3, DecideKeepsBooking DEF Reject
<1>4. CASE /\ move' = [move EXCEPT ![a] = m]
           /\ Goto(a, IF cmd[a].kind = "WIN" /\ cmd[a].ref # None
                      THEN "attachReference" ELSE "saveWallet")
           /\ UNCHANGED <<tables, cmd, row, ref>>
    <2>1. m.tx = a /\ m.amount = cmd[a].amount /\ m.direction = MoveDirection(a)
        BY DEF Move
    <2>2. pc'[a] \in Booked /\ move'[a] = m
        BY <1>4 DEF Goto, Booked, Sessions, TypeOK
    <2>3. Validated(a)' => Validated(a)
        BY <1>1, <1>4, <2>2 DEF Validated, Cleared, Booked
    <2>4. MoveDirection(a)' = MoveDirection(a)
        BY <1>4 DEF MoveDirection, tables
    <2> HIDE DEF m
    <2>5. BookOK(a)'
        <3>1. move'[a].direction = MoveDirection(a)'
            BY <2>1, <2>2, <2>4
        <3>2. pc'[a] # "commit"
            BY <2>2 DEF Booked
        <3>3. Validated(a)' => ReferenceFault(cmd[a], txs[ref[a]]) = None
            BY <1>1, <2>3 DEF BookOK
        <3>4. cmd' = cmd /\ txs' = txs /\ ref' = ref /\ cmd[a].kind # "LOSS"
            BY <1>1, <1>4 DEF tables
        <3>5. move'[a].tx = a /\ move'[a].amount = cmd[a].amount
            BY <2>1, <2>2
        <3> QED BY <3>1, <3>2, <3>3, <3>4, <3>5 DEF BookOK
    <2> QED BY <1>4, <2>5, OthersKeepBooking DEF tables
<1> QED BY <1>2, <1>3, <1>4 DEF LockWallet

(* Attaching a reference to a WIN does not turn its money round.           *)
LEMMA AttachReferenceKeepsBooking ==
    ASSUME Standing, Booking, NEW a \in Attempts, Others(a), AttachReference(a) PROVE Booking'
<1> USE DEF Standing
<1>1. /\ pc[a] = "attachReference" /\ pc'[a] = "saveWallet" /\ cmd[a].kind = "WIN"
      /\ UNCHANGED <<tables, cmd, row, move>> /\ BookOK(a)
    BY DEF AttachReference, Goto, Undoing, UndoOK, Sessions, TypeOK, Booking
<1>2. MoveDirection(a)' = MoveDirection(a)
    BY <1>1 DEF MoveDirection, Reversals
<1>3. BookOK(a)'
    BY <1>1, <1>2 DEF BookOK, Validated, Cleared, Reversals
<1> QED BY <1>1, <1>3, OthersKeepBooking DEF tables

(* commitMovement writes the row with the balance of its entry.            *)
LEMMA SaveWalletKeepsBooking ==
    ASSUME Standing, Booking, NEW a \in Attempts, Others(a), SaveWallet(a) PROVE Booking'
<1> USE DEF Standing
<1>1. CASE \E e : Abort(a, e)
    BY <1>1, AbortKeepsBooking
<1>2. CASE ~ \E e : Abort(a, e)
    <2>1. /\ pc[a] = "saveWallet" /\ pc'[a] = "commit" /\ move[a] # None
          /\ row[a] \in Rows /\ BookOK(a) /\ UNCHANGED <<tables, cmd, move, ref>>
        BY <1>2 DEF SaveWallet, Goto, Sessions, TypeOK, SessionOK, Booked, Written, Booking
    <2> DEFINE q == AttachResolvedReference(row[a], ref[a])
    <2>2. q \in [cmd: Commands, status: Statuses, failure: Failures \cup {None},
                 resolved: Attempts \cup {None}, balance: Nat \cup {None}]
        BY <2>1 DEF AttachResolvedReference, Rows, Sessions, TypeOK
    <2>3. row'[a] = MarkProcessed(q, move[a].after)
        BY <1>2 DEF SaveWallet, Writes, Sessions, TypeOK
    <2> HIDE DEF q
    <2>4. row'[a].balance = move[a].after /\ row'[a].status = "PROCESSED"
        BY <2>2, <2>3 DEF MarkProcessed
    <2>5. MoveDirection(a)' = MoveDirection(a) /\ (Validated(a)' => Validated(a))
        BY <2>1 DEF MoveDirection, Validated, Cleared, tables
    <2>6. BookOK(a)'
        BY <2>1, <2>4, <2>5 DEF BookOK, tables
    <2> QED BY <2>1, <2>6, OthersKeepBooking DEF tables
<1> QED BY <1>1, <1>2

-----------------------------------------------------------------------------
(* Filing a row with its movement: the one entry of that transaction.      *)
LEMMA CommitKeepsBooking ==
    ASSUME Standing, Booking, NEW a \in Attempts, Others(a), Ended(a), row[a] # None,
           pc[a] = "commit", Publish(a)
    PROVE  Booking'
<1> USE DEF Standing
<1> DEFINE w == cmd[a].wallet
           n == Len(ledger[w]) + 1
           m == move[a]
<1>1. /\ row[a].cmd = cmd[a] /\ row[a] \in Rows /\ BookOK(a) /\ UndoOK(a)
      /\ txs' = [txs EXCEPT ![a] = row[a]] /\ Files(a)
    BY DEF Publish, Files, Sessions, TypeOK, SessionOK, Booking, Undoing
<1>2. Committed' = Committed \cup {a} /\ a \notin Committed
    BY <1>1 DEF Committed, KeysAreUnique, Sessions, TypeOK
<1>3. /\ txs'[a] = row[a]
      /\ \A t \in Attempts \ {a} : txs'[t] = txs[t]
    BY <1>1 DEF Sessions, TypeOK
<1>4. EntriesOf(a, ledger) = {}
    BY <1>2 DEF Booking, FiledOK, Moved
<1>5. ASSUME NEW t \in Attempts \ {a}, Moved(t)' PROVE Moved(t) /\ Way(t)' = Way(t)
    <2>1. Moved(t)
        BY <1>2, <1>3, <1>5 DEF Moved
    <2>2. txs[t].cmd.kind \in Reversals => txs[t].resolved \in Committed
        BY <2>1 DEF Booking, FiledOK
    <2>3. txs'[t] = txs[t]
          /\ (txs[t].cmd.kind \in Reversals => txs'[txs[t].resolved] = txs[txs[t].resolved])
        BY <1>2, <1>3, <2>2 DEF Committed
    <2> QED BY <2>1, <2>3 DEF Way
<1>6. ASSUME NEW b \in Attempts PROVE BookOK(b)'
    <2>1. CASE b = a
        BY <2>1 DEF Ended, BookOK, Validated, Cleared
    <2>2. CASE b # a
        <3>1. BookOK(b) /\ (Validated(b) => ref[b] \in Committed)
            BY DEF Booking, Undoing, UndoOK
        <3>2. move[b] # None /\ cmd[b].kind \in Reversals => Validated(b)
            BY DEF Validated, Cleared
        <3>3. /\ pc'[b] = pc[b] /\ cmd'[b] = cmd[b] /\ row'[b] = row[b]
              /\ move'[b] = move[b] /\ ref'[b] = ref[b]
            BY <2>2 DEF Others
        <3>4. Validated(b)' <=> Validated(b)
            BY <3>3 DEF Validated, Cleared
        <3>5. Validated(b) => txs'[ref[b]] = txs[ref[b]]
            BY <1>2, <1>3, <3>1 DEF Committed
        <3>6. move[b] # None => MoveDirection(b)' = MoveDirection(b)
            BY <3>2, <3>3, <3>5 DEF MoveDirection
        <3> QED BY <3>1, <3>3, <3>4, <3>5, <3>6 DEF BookOK
    <2> QED BY <2>1, <2>2
<1>7. ASSUME NEW t \in Attempts \ {a}, EntriesOf(t, ledger)' = EntriesOf(t, ledger),
             \A v \in Wallets : \A i \in DOMAIN ledger[v] :
                 i \in DOMAIN ledger'[v] /\ ledger'[v][i] = ledger[v][i]
      PROVE  FiledOK(t)'
    <2>1. CASE ~ Moved(t)'
        <3>1. ~ Moved(t)
            BY <1>2, <1>3, <2>1 DEF Moved
        <3> QED BY <1>7, <2>1, <3>1 DEF Booking, FiledOK
    <2>2. CASE Moved(t)'
        <3>1. Moved(t) /\ Way(t)' = Way(t)
            BY <1>5, <2>2
        <3>2. PICK v \in Wallets : \E i \in DOMAIN ledger[v] : EntryAt(t, v, i)
            BY <3>1 DEF Booking, FiledOK
        <3>3. PICK i \in DOMAIN ledger[v] : EntryAt(t, v, i)
            BY <3>2
        <3>4. i \in DOMAIN ledger'[v] /\ ledger'[v][i] = ledger[v][i]
            BY <1>7
        <3>5. EntryAt(t, v, i)'
            BY <1>3, <1>7, <3>1, <3>3, <3>4 DEF EntryAt
        <3>6. txs[t].cmd.kind \in Reversals =>
                /\ txs'[t].resolved \in Committed'
                /\ ReferenceFault(txs'[t].cmd, txs'[txs'[t].resolved]) = None
            BY <1>2, <1>3, <3>1 DEF Booking, FiledOK, Committed
        <3> QED BY <1>3, <2>2, <3>4, <3>5, <3>6 DEF FiledOK
    <2> QED BY <2>1, <2>2
<1>8. CASE m = None
    <2>1. ledger' = ledger /\ ~ Moved(a)'
        BY <1>1, <1>3, <1>8 DEF Publish, BookOK, Moved
    <2>2. \A t : EntriesOf(t, ledger)' = EntriesOf(t, ledger)
        BY <2>1 DEF EntriesOf
    <2>3. FiledOK(a)'
        BY <1>4, <2>1, <2>2 DEF FiledOK
    <2>4. \A t \in Attempts \ {a} : FiledOK(t)'
        BY <1>7, <2>1, <2>2
    <2> QED BY <1>6, <2>3, <2>4 DEF Booking
<1>9. CASE m # None
    <2>1. /\ w \in Wallets /\ m \in Movements /\ m.tx = a
          /\ ledger' = [ledger EXCEPT ![w] = Append(@, m)]
        BY <1>1, <1>9 DEF Publish, Sessions, TypeOK, SessionOK, BookOK
    <2>2. PICK v \in Wallets : v = w
        BY <2>1
    <2>3. PICK i : i = n
        OBVIOUS
    <2>4. Grown(ledger, ledger', v, i, m)
        <3>1. ledger' = [ledger EXCEPT ![v] = Append(@, m)] /\ i = Len(ledger[v]) + 1
            BY <2>1, <2>2, <2>3
        <3> HIDE DEF m, w, n
        <3> QED BY <2>1, <3>1, AppendGrows DEF Sessions, TypeOK
    <2>5. /\ \A u \in Wallets : \A j \in DOMAIN ledger[u] :
                j \in DOMAIN ledger'[u] /\ ledger'[u][j] = ledger[u][j]
          /\ i \in DOMAIN ledger'[v] /\ ledger'[v][i] = m
        BY <2>4 DEF Grown
    <2>6. ASSUME NEW t \in Attempts
          PROVE  EntriesOf(t, ledger)' =
                     EntriesOf(t, ledger) \cup (IF t = a THEN {<<v, i>>} ELSE {})
        <3>1. EntriesOf(t, ledger') =
                  EntriesOf(t, ledger) \cup (IF m.tx = t THEN {<<v, i>>} ELSE {})
            <4> HIDE DEF m, n, w
            <4> QED BY <2>4, EntriesGrow
        <3> QED BY <2>1, <3>1 DEF EntriesOf
    <2>7. FiledOK(a)'
        <3>1. Moved(a)'
            BY <1>1, <1>2, <1>3, <1>9 DEF Moved, BookOK
        <3>2. /\ txs'[a].cmd = cmd[a] /\ txs'[a].balance = m.after
              /\ m.amount = cmd[a].amount /\ m.direction = MoveDirection(a)
              /\ cmd[a].kind \in Kinds /\ cmd[a].kind # "LOSS"
            BY <1>1, <1>3, <1>9, <3>1, CommandsAssumption
            DEF BookOK, Moved, Sessions, TypeOK, SessionOK
        <3>3. cmd[a].kind \in Reversals =>
                /\ txs'[a].resolved = ref[a] /\ ref[a] \in Committed
                /\ ReferenceFault(cmd[a], txs[ref[a]]) = None
                /\ txs'[ref[a]] = txs[ref[a]]
            <4>1. ASSUME cmd[a].kind \in Reversals
                  PROVE  /\ row[a].resolved = ref[a] /\ ref[a] \in Committed
                         /\ ReferenceFault(cmd[a], txs[ref[a]]) = None
                BY <1>1, <1>3, <1>9, <3>1, <4>1 DEF UndoOK, BookOK, Validated, Cleared, Moved
            <4> QED BY <1>2, <1>3, <4>1 DEF Committed
        <3>4. Way(a)' = m.direction
            BY <3>2, <3>3 DEF Way, MoveDirection, Reversals, Kinds
        <3>5. EntriesOf(a, ledger)' = {<<v, i>>}
            BY <1>4, <2>6
        <3>6. EntryAt(a, v, i)'
            <4>1. /\ ledger'[v][i].amount = txs'[a].cmd.amount
                  /\ ledger'[v][i].after = txs'[a].balance
                  /\ ledger'[v][i].direction = Way(a)'
                  /\ v = txs'[a].cmd.wallet
                BY <2>2, <2>5, <3>2, <3>4
            <4> QED BY <2>5, <3>5, <4>1 DEF EntryAt
        <3>7. txs'[a].cmd.kind \in Reversals =>
                /\ txs'[a].resolved \in Committed'
                /\ ReferenceFault(txs'[a].cmd, txs'[txs'[a].resolved]) = None
            BY <1>2, <3>2, <3>3
        <3> QED BY <2>5, <3>1, <3>6, <3>7 DEF FiledOK
    <2>8. ASSUME NEW t \in Attempts \ {a} PROVE FiledOK(t)'
        <3>1. EntriesOf(t, ledger)' = EntriesOf(t, ledger)
            BY <2>6
        <3> QED BY <1>7, <2>5, <3>1
    <2> QED BY <1>6, <2>7, <2>8 DEF Booking
<1> QED BY <1>8, <1>9

(* Every step of every call keeps the books.                               *)
LEMMA StepKeepsBooking == Standing /\ Booking /\ [Next]_vars => Booking'
<1> SUFFICES ASSUME Standing, Booking, [Next]_vars PROVE Booking'
    OBVIOUS
<1>1. CASE UNCHANGED vars
    <2>1. ASSUME NEW a \in Attempts PROVE BookOK(a)'
        <3>1. BookOK(a)
            BY DEF Booking
        <3> QED BY <1>1, <3>1 DEF vars, BookOK, Validated, Cleared, MoveDirection
    <2>2. ASSUME NEW t \in Attempts PROVE FiledOK(t)'
        <3>1. FiledOK(t)
            BY DEF Booking
        <3> QED BY <1>1, <3>1 DEF vars, FiledOK, Moved, EntryAt, Way, Committed
    <2> QED BY <2>1, <2>2 DEF Booking
<1>2. ASSUME NEW a \in Attempts, Taken(a) PROVE Booking'
    <2>1. Others(a)
        BY <1>2, StepsAreLocal DEF Standing
    <2>2. ASSUME NEW e, Abort(a, e) PROVE Booking'
        BY <2>2, AbortKeepsBooking
    <2>3. ASSUME UNCHANGED <<tables, row, move>>, NEW s, Goto(a, s), s \notin Written,
                 pc[a] \notin Written \cup {"commit"}
          PROVE  Booking'
        <3>1. row[a] = None /\ row'[a] = None /\ move[a] = None /\ pc'[a] = s
            BY <2>3 DEF Goto, Standing, Sessions, TypeOK, SessionOK, Booked
        <3>2. ~ Validated(a)'
            BY <2>3, <3>1 DEF Validated, Cleared, Written
        <3> QED BY <2>1, <2>3, <3>1, <3>2, QuietKeepsBooking DEF tables
    <2>4. CASE (\E c \in Commands : Submit(a, c)) \/ FindInbox(a) \/ InsertInbox(a)
              \/ FindExternal(a) \/ FindKey(a)
        BY <2>2, <2>3, <2>4
        DEF Submit, FindInbox, InsertInbox, FindExternal, FindKey, Reads, Written, Booked
    <2>5. CASE ReplayByKey(a)
        <3>1. CASE UNCHANGED tables /\ \E ans : Return(a, ans)
            BY <2>1, <3>1, ReturnIsLocal, EndsKeepsBooking DEF tables, Standing
        <3> QED BY <2>2, <2>5, <3>1 DEF ReplayByKey
    <2>6. CASE Create(a)
        <3>1. CASE ~ Abort(a, "CONFLICT")
            <4>1. /\ pc'[a] = "shareWallet" /\ move[a] = None /\ UNCHANGED <<tables, move>>
                BY <2>6, <3>1
                DEF Create, Goto, Standing, Sessions, TypeOK, SessionOK, Booked
            <4>2. ~ Validated(a)'
                BY <4>1 DEF Validated, Cleared
            <4> QED BY <2>1, <4>1, <4>2, QuietKeepsBooking DEF tables
        <3> QED BY <2>2, <3>1
    <2>7. CASE ShareWallet(a)
        <3>1. CASE ~ Abort(a, "UNKNOWN_WALLET")
            <4> DEFINE s == CASE cmd[a].kind \in {"BET", "WIN"} -> "lockWallet"
                              [] cmd[a].kind = "LOSS"           -> "readWallet"
                              [] cmd[a].kind \in Reversals      -> "findReference"
            <4>1. Reads(a, s) /\ pc[a] = "shareWallet" /\ cmd[a].kind \in Kinds
                BY <2>7, <3>1, CommandsAssumption
                DEF ShareWallet, Standing, Sessions, TypeOK, SessionOK
            <4>2. \/ s = "lockWallet" /\ cmd[a].kind \notin Reversals
                  \/ s \in {"readWallet", "findReference"}
                BY <4>1 DEF Kinds, Reversals
            <4>3. pc'[a] = s /\ move[a] = None /\ UNCHANGED <<tables, cmd, move>>
                BY <4>1 DEF Reads, Goto, Standing, Sessions, TypeOK, SessionOK, Booked
            <4> HIDE DEF s
            <4>4. ~ Validated(a)' /\ pc'[a] # "commit"
                BY <4>2, <4>3 DEF Validated, Cleared
            <4> QED BY <2>1, <4>3, <4>4, QuietKeepsBooking DEF tables
        <3> QED BY <2>2, <3>1
    <2>8. CASE ReadWallet(a)
        <3>1. cmd[a].kind = "LOSS" /\ pc[a] \in Written \ Booked
            BY <2>8 DEF ReadWallet, Standing, Undoing, UndoOK, Written, Booked
        <3> QED BY <2>1, <2>8, <3>1, DecideKeepsBooking DEF ReadWallet
    <2>9. CASE CountRefunds(a) \/ CountRollbacks(a)
        <3>1. /\ pc[a] \in {"countRefunds", "countRollbacks"} /\ pc[a] \in Written \ Booked
              /\ UNCHANGED <<tables, cmd, move, ref>> /\ move[a] = None
              /\ ReferenceFault(cmd[a], txs[ref[a]]) = None
            BY <2>9
            DEF CountRefunds, CountRollbacks, Count, Standing, Sessions, SessionOK, Written,
                Booked, Booking, BookOK, Validated
        <3>2. CASE \E code : Reject(a, code)
            BY <2>1, <3>1, <3>2, DecideKeepsBooking DEF Reject
        <3>3. CASE pc'[a] \in {"countRollbacks", "lockWallet"}
            BY <2>1, <3>1, <3>3, QuietKeepsBooking DEF tables
        <3> QED BY <2>9, <3>2, <3>3
            DEF CountRefunds, CountRollbacks, Count, Goto, Standing, Sessions, TypeOK
    <2>10. CASE FindReference(a) \/ LockWallet(a) \/ AttachReference(a) \/ SaveWallet(a)
        BY <2>1, <2>10, FindReferenceKeepsBooking, LockWalletKeepsBooking,
           AttachReferenceKeepsBooking, SaveWalletKeepsBooking
    <2>11. CASE Commit(a) \/ CommitUnacknowledged(a)
        <3>1. pc[a] = "commit" /\ Publish(a) /\ Ended(a)
            BY <2>11, ReturnIsLocal DEF Commit, CommitUnacknowledged, Standing
        <3>2. CASE row[a] = None
            <4>1. move[a] = None
                BY <3>2 DEF Standing, Sessions, SessionOK
            <4>2. UNCHANGED <<txs, ledger>>
                BY <3>1, <3>2, <4>1 DEF Publish
            <4> QED BY <2>1, <3>1, <4>2, EndsKeepsBooking
        <3>3. CASE row[a] # None
            BY <2>1, <3>1, <3>3, CommitKeepsBooking
        <3> QED BY <3>2, <3>3
    <2>12. CASE LoseConnection(a) \/ AbortDeadlock(a)
        BY <2>2, <2>12 DEF LoseConnection, AbortDeadlock
    <2> QED BY <1>2, <2>4, <2>5, <2>6, <2>7, <2>8, <2>9, <2>10, <2>11, <2>12 DEF Taken, Step
<1>3. CASE Next
    BY <1>2, <1>3 DEF Next, Taken
<1> QED BY <1>1, <1>3

(* All of it holds at first and is kept by every step.                     *)
LEMMA StandingInit == Init => Standing /\ Booking
    BY SessionsInit, MoneyInit, KeysInit, OwnersInit, UndoingInit, BookingInit DEF Standing

(* So it holds whenever it did.                                            *)
LEMMA StepKeepsStanding == Standing /\ Booking /\ [Next]_vars => Standing' /\ Booking'
    BY StepKeepsSessions, StepKeepsMoney, StepKeepsKeys, StepKeepsOwners, StepKeepsUndoing,
       StepKeepsBooking
    DEF Standing

(* Money moves exactly for the transactions that say so: each PROCESSED    *)
(* row but a LOSS has one ledger entry, on its wallet, for its amount and  *)
(* with its resulting balance, and no other row has any.                   *)
THEOREM MoneyMovesAsFiled == Spec => []MovementsMatchTransactions
<1>1. ASSUME Booking, NEW t \in Attempts
      PROVE  IF t \in Committed /\ txs[t].status = "PROCESSED" /\ txs[t].cmd.kind # "LOSS"
             THEN \E e \in EntriesOf(t, ledger) :
                     /\ EntriesOf(t, ledger) = {e}
                     /\ e[1] = txs[t].cmd.wallet
                     /\ ledger[e[1]][e[2]].amount = txs[t].cmd.amount
                     /\ ledger[e[1]][e[2]].after = txs[t].balance
             ELSE EntriesOf(t, ledger) = {}
    <2>1. FiledOK(t)
        BY <1>1 DEF Booking
    <2>2. CASE Moved(t)
        <3>1. PICK w \in Wallets : \E i \in DOMAIN ledger[w] : EntryAt(t, w, i)
            BY <2>1, <2>2 DEF FiledOK
        <3>2. PICK i \in DOMAIN ledger[w] : EntryAt(t, w, i)
            BY <3>1
        <3>3. PICK e \in EntriesOf(t, ledger) : e = <<w, i>>
            BY <3>2 DEF EntryAt
        <3>4. e[1] = w /\ e[2] = i /\ EntriesOf(t, ledger) = {e}
            BY <3>2, <3>3 DEF EntryAt
        <3>5. /\ w = txs[t].cmd.wallet
              /\ ledger[w][i].amount = txs[t].cmd.amount
              /\ ledger[w][i].after = txs[t].balance
            BY <3>2 DEF EntryAt
        <3> QED BY <2>2, <3>4, <3>5 DEF Moved
    <2>3. CASE ~ Moved(t)
        BY <2>1, <2>3 DEF FiledOK, Moved
    <2> QED BY <2>2, <2>3
<1>2. Booking => MovementsMatchTransactions
    BY <1>1 DEF MovementsMatchTransactions
<1> QED BY <1>2, StandingInit, StepKeepsStanding, PTL DEF Spec

(* A reversal moves its reference's money back: on the same wallet, the    *)
(* same amount, the other way, and only what a PROCESSED row had moved.    *)
THEOREM ReversalsMoveBack == Spec => []ReversalsUndo
<1>1. ASSUME Booking, NEW r \in Committed, NEW t \in Committed, IsReversalOf(txs[r], t)
      PROVE  /\ txs[t].status = "PROCESSED"
             /\ \E e \in EntriesOf(r, ledger), f \in EntriesOf(t, ledger) :
                   /\ e[1] = f[1]
                   /\ ledger[e[1]][e[2]].amount = ledger[f[1]][f[2]].amount
                   /\ ledger[e[1]][e[2]].direction # ledger[f[1]][f[2]].direction
    <2>1. /\ FiledOK(r) /\ FiledOK(t) /\ Moved(r) /\ txs[r].resolved = t
          /\ txs[r].cmd.kind \in Reversals
        BY <1>1 DEF Booking, Committed, IsReversalOf, Moved, Reversals
    <2>2. ReferenceFault(txs[r].cmd, txs[t]) = None
        BY <2>1 DEF FiledOK
    <2>3. /\ txs[t].status = "PROCESSED"
          /\ txs[t].cmd.kind \in {"BET", "WIN", "REFUND"}
          /\ txs[t].cmd.wallet = txs[r].cmd.wallet
          /\ txs[t].cmd.amount = txs[r].cmd.amount
        <3>1. "REFERENCE_MISMATCH" # None /\ "REFERENCE_NOT_PROCESSED" # None
            BY NoneAssumption DEF Failures
        <3> QED BY <2>1, <2>2, <3>1 DEF ReferenceFault, Reversible, Reversals
    <2>4. Moved(t)
        BY <2>3 DEF Moved
    <2>5. Way(r) # Way(t)
        <3>1. Way(r) = IF txs[t].cmd.kind = "BET" THEN "CREDIT" ELSE "DEBIT"
            BY <2>1 DEF Way, ReversalDirection
        <3>2. CASE txs[t].cmd.kind = "REFUND"
            <4>1. ReferenceFault(txs[t].cmd, txs[txs[t].resolved]) = None
                BY <2>1, <2>4, <3>2 DEF FiledOK, Reversals
            <4>2. "REFERENCE_MISMATCH" # None
                BY NoneAssumption DEF Failures
            <4>3. txs[txs[t].resolved].cmd.kind = "BET"
                BY <3>2, <4>1, <4>2 DEF ReferenceFault, Reversible
            <4> QED BY <3>1, <3>2, <4>3 DEF Way, ReversalDirection, Reversals
        <3>3. CASE txs[t].cmd.kind \in {"BET", "WIN"}
            BY <3>1, <3>3 DEF Way, Reversals
        <3> QED BY <2>3, <3>2, <3>3
    <2>6. PICK v \in Wallets : \E i \in DOMAIN ledger[v] : EntryAt(r, v, i)
        BY <2>1 DEF FiledOK
    <2>7. PICK i \in DOMAIN ledger[v] : EntryAt(r, v, i)
        BY <2>6
    <2>8. PICK w \in Wallets : \E j \in DOMAIN ledger[w] : EntryAt(t, w, j)
        BY <2>1, <2>4 DEF FiledOK
    <2>9. PICK j \in DOMAIN ledger[w] : EntryAt(t, w, j)
        BY <2>8
    <2>10. /\ v = w
           /\ ledger[v][i].amount = ledger[w][j].amount
           /\ ledger[v][i].direction # ledger[w][j].direction
        BY <2>3, <2>5, <2>7, <2>9 DEF EntryAt
    <2>11. PICK e \in EntriesOf(r, ledger) : e = <<v, i>>
        BY <2>7 DEF EntryAt
    <2>12. PICK f \in EntriesOf(t, ledger) : f = <<w, j>>
        BY <2>9 DEF EntryAt
    <2>13. e[1] = v /\ e[2] = i /\ f[1] = w /\ f[2] = j
        BY <2>11, <2>12
    <2> QED BY <2>3, <2>10, <2>13
<1>2. Booking => ReversalsUndo
    BY <1>1 DEF ReversalsUndo
<1> QED BY <1>2, StandingInit, StepKeepsStanding, PTL DEF Spec

-----------------------------------------------------------------------------
(***************************************************************************)
(* The refinement.  A call decides its row from what it has read, and      *)
(* files it later.  What it has decided is what it would decide at its     *)
(* commit: its wallet is locked or share-locked, so nothing moves money on *)
(* it in between.                                                          *)
(***************************************************************************)

(* The filed transactions that a command's reference names, and the call   *)
(* itself when it names its own id.  Which of them have moved money there. *)
Named(c) == {t \in Committed : txs[t].cmd.provider = c.provider /\ txs[t].cmd.ext = c.ref}
Itself(a) == {t \in {a} : cmd[a].ref = cmd[a].ext}
MovedOn(t, w) == Moved(t) /\ txs[t].cmd.wallet = w
NoneMoved(a) == \A t \in Named(cmd[a]) : ~ MovedOn(t, cmd[a].wallet)

(* What a call is about to file is what the command does now: its movement *)
(* and its row, or its row alone.                                          *)
Affords(a, direction) == Covered(direction, cmd[a].amount, wallets[cmd[a].wallet])
Moving(a, direction) ==
    /\ cmd[a].currency = Currency[cmd[a].wallet]
    /\ Affords(a, direction)
    /\ move[a] = Move(a, direction, cmd[a].amount, wallets[cmd[a].wallet])
Settling(a, direction, t) ==
    /\ Moving(a, direction)
    /\ row[a] = MarkProcessed(AttachResolvedReference(NewRow(cmd[a]), t), move[a].after)
Recording(a, r) == move[a] = None /\ row[a] = r

BetOK(a) ==
    /\ cmd[a].kind = "BET"
    /\ \/ Settling(a, "DEBIT", None)
       \/ /\ ~ Affords(a, "DEBIT") /\ cmd[a].currency = Currency[cmd[a].wallet]
          /\ Recording(a, MarkRejected(NewRow(cmd[a]), "INSUFFICIENT_FUNDS"))
WinOK(a) ==
    /\ cmd[a].kind = "WIN"
    /\ \/ \E t \in Named(cmd[a]) \cup Itself(a) : cmd[a].ref # None /\ Settling(a, "CREDIT", t)
       \/ (cmd[a].ref = None \/ NoneMoved(a)) /\ Settling(a, "CREDIT", None)
LossOK(a) ==
    /\ cmd[a].kind = "LOSS"
    /\ Recording(a, MarkProcessed(NewRow(cmd[a]), wallets[cmd[a].wallet].balance))
ReverseOK(a) ==
    /\ cmd[a].kind \in Reversals
    /\ \E t \in Named(cmd[a]) :
          LET direction == ReversalDirection(txs[t].cmd.kind) IN
          /\ ReferenceFault(cmd[a], txs[t]) = None
          /\ \/ ~ NotUndone(t) /\ Recording(a, MarkRejected(NewRow(cmd[a]), "DUPLICATE_REVERSAL"))
             \/ NotUndone(t) /\ Settling(a, direction, t)
             \/ /\ NotUndone(t) /\ ~ Affords(a, direction)
                /\ Recording(a, MarkRejected(NewRow(cmd[a]), "REVERSAL_EXCEEDS_BALANCE"))
MismatchOK(a) ==
    /\ cmd[a].kind \in Reversals
    /\ \E t \in Named(cmd[a]) \cup Itself(a) :
          LET fault == ReferenceFault(cmd[a], IF t = a THEN NewRow(cmd[a]) ELSE txs[t]) IN
          fault # None /\ Recording(a, MarkRejected(NewRow(cmd[a]), fault))
ParkOK(a) ==
    /\ cmd[a].kind \in Reversals
    /\ NoneMoved(a)
    /\ Recording(a, MarkPendingReference(NewRow(cmd[a])))
Decided(a) ==
    \/ BetOK(a) \/ WinOK(a) \/ LossOK(a)
    \/ ReverseOK(a) \/ MismatchOK(a) \/ ParkOK(a)

(* What a call has made sure of at each statement.                         *)
PlanOK(a) ==
    /\ pc[a] = "create" \/ row[a] # None => ValidCommand(cmd[a])
    /\ pc[a] \in Written => row[a] = NewRow(cmd[a])
    /\ HoldsKeyShare(a) => cmd[a].wallet \in Wallets
    /\ ref[a] # None =>
          /\ row[a] # None
          /\ \/ cmd[a].kind \in Reversals
             \/ cmd[a].kind = "WIN" /\ pc[a] \in {"saveWallet", "commit"}
    /\ Validated(a) => ref[a] \in Named(cmd[a])
    /\ pc[a] \in Booked => Moving(a, MoveDirection(a))
    /\ pc[a] = "attachReference" => cmd[a].ref # None
    /\ pc[a] = "saveWallet" /\ cmd[a].kind = "WIN" =>
          IF ref[a] = None THEN cmd[a].ref = None \/ NoneMoved(a)
          ELSE cmd[a].ref # None /\ ref[a] \in Named(cmd[a]) \cup Itself(a)
    /\ pc[a] = "commit" /\ row[a] # None => Decided(a)
Planning == \A a \in Attempts : PlanOK(a)

(* At first nothing is planned.                                            *)
LEMMA PlanningInit == Init => Planning
    BY DEF Init, Planning, PlanOK, HoldsKeyShare, Validated, Cleared, Written, Booked

-----------------------------------------------------------------------------
(* What a step leaves a call to stand on.                                  *)
Steady(a) ==
    LET w == cmd[a].wallet IN
    /\ cmd'[a] = cmd[a] /\ wallets'[w] = wallets[w]
    /\ Committed \subseteq Committed'
    /\ \A t \in Committed : txs'[t] = txs[t]
    /\ \A t \in Committed' : MovedOn(t, w)' => MovedOn(t, w)
    /\ \A t \in Committed : txs[t].cmd.wallet = w => (NotUndone(t)' <=> NotUndone(t))
Unmoved(a) ==
    /\ pc'[a] = pc[a] /\ cmd'[a] = cmd[a] /\ row'[a] = row[a]
    /\ move'[a] = move[a] /\ ref'[a] = ref[a]

(* A step that files nothing is steady.                                    *)
LEMMA QuietIsSteady ==
    ASSUME NEW a \in Attempts, UNCHANGED <<txs, wallets>>, cmd'[a] = cmd[a]
    PROVE  Steady(a)
    BY DEF Steady, Committed, MovedOn, Moved, NotUndone

(* A commit is steady for every other call that share-locks its wallet: if *)
(* it has moved money, it owns another wallet.                             *)
LEMMA CommitIsSteady ==
    ASSUME Standing, Booking, NEW b \in Attempts, NEW a \in Attempts \ {b},
           pc[b] = "commit", Publish(b), Others(b), HoldsKeyShare(a),
           cmd[a].wallet \in Wallets
    PROVE  Steady(a)
<1> USE DEF Standing
<1> DEFINE w == cmd[a].wallet
<1>1. move[b] # None => cmd[b].wallet # w /\ owner[cmd[b].wallet] = b /\ cmd[b].wallet \in Wallets
    BY DEF OwnersAreAlone, Money, LockedReadsAreCurrent, Sessions, SessionOK
<1>2. cmd'[a] = cmd[a] /\ wallets'[w] = wallets[w]
    BY <1>1 DEF Publish, Others, Sessions, TypeOK
<1>3. CASE row[b] = None
    <2>1. txs' = txs
        BY <1>3 DEF Publish
    <2> QED BY <1>2, <2>1 DEF Steady, Committed, MovedOn, Moved, NotUndone
<1>4. CASE row[b] # None
    <2>1. txs' = [txs EXCEPT ![b] = row[b]] /\ row[b].cmd = cmd[b]
        BY <1>4 DEF Publish, Sessions, SessionOK
    <2>2. b \notin Committed
        BY DEF KeysAreUnique
    <2>3. /\ Committed' = Committed \cup {b} /\ txs'[b] = row[b]
          /\ \A t \in Committed : txs'[t] = txs[t]
        BY <1>4, <2>1, <2>2 DEF Committed, Sessions, TypeOK
    <2>4. row[b].status = "PROCESSED" /\ cmd[b].kind # "LOSS" => move[b] # None
        BY <1>4 DEF Booking, BookOK
    <2>5. ASSUME NEW t \in Committed', MovedOn(t, w)'
                 PROVE  MovedOn(t, w)
        <3>1. t # b
            BY <1>1, <1>2, <2>1, <2>3, <2>4, <2>5 DEF MovedOn, Moved
        <3> QED BY <1>2, <2>3, <2>5, <3>1 DEF MovedOn, Moved
    <2>6. ASSUME NEW t \in Committed, txs[t].cmd.wallet = w PROVE NotUndone(t)' <=> NotUndone(t)
        <3>1. ~ IsReversalOf(row[b], t)
            <4>1. SUFFICES ASSUME IsReversalOf(row[b], t) PROVE FALSE
                OBVIOUS
            <4>2. /\ cmd[b].kind \in Reversals /\ row[b].status = "PROCESSED"
                  /\ row[b].resolved = t
                BY <2>1, <4>1 DEF IsReversalOf
            <4>3. move[b] # None /\ ref[b] = t
                BY <1>4, <4>2 DEF Undoing, UndoOK
            <4>4. txs[t].cmd.wallet = cmd[b].wallet
                BY <4>2, <4>3 DEF Undoing, UndoOK, Validated, Cleared
            <4> QED BY <1>1, <2>6, <4>3, <4>4
        <3> QED BY <2>2, <2>3, <3>1 DEF NotUndone
    <2> QED BY <1>2, <2>3, <2>5, <2>6 DEF Steady
<1> QED BY <1>3, <1>4

(* What stands, stands for the same reasons.                               *)
LEMMA SteadyNames ==
    ASSUME NEW a \in Attempts, Steady(a), Unmoved(a)
    PROVE  /\ \A t : t \in Named(cmd[a]) => t \in Named(cmd[a])' /\ txs'[t] = txs[t]
           /\ NoneMoved(a) => NoneMoved(a)'
           /\ Itself(a)' = Itself(a)
           /\ \A d : Affords(a, d)' = Affords(a, d)
           /\ \A d : Moving(a, d) => Moving(a, d)'
           /\ \A d, t : Settling(a, d, t) => Settling(a, d, t)'
           /\ \A r : Recording(a, r) => Recording(a, r)'
<1> USE DEF Steady, Unmoved
<1>1. \A t : t \in Named(cmd[a]) => t \in Named(cmd[a])' /\ txs'[t] = txs[t]
    BY DEF Named
<1>2. NoneMoved(a) => NoneMoved(a)'
    <2> SUFFICES ASSUME NoneMoved(a), NEW t \in Named(cmd[a])', MovedOn(t, cmd[a].wallet)'
                 PROVE  FALSE
        BY DEF NoneMoved
    <2>1. MovedOn(t, cmd[a].wallet) /\ t \in Committed'
        BY DEF Named
    <2>2. t \in Committed /\ txs'[t] = txs[t]
        BY <2>1 DEF MovedOn, Moved
    <2>3. t \in Named(cmd[a])
        BY <2>2 DEF Named
    <2> QED BY <2>1, <2>3 DEF NoneMoved
<1>3. Itself(a)' = Itself(a) /\ \A d : Affords(a, d)' = Affords(a, d)
    BY DEF Itself, Affords
<1>4. \A d : Moving(a, d) => Moving(a, d)'
    BY <1>3 DEF Moving
<1>5. \A d, t : Settling(a, d, t) => Settling(a, d, t)'
    BY <1>4 DEF Settling
<1>6. \A r : Recording(a, r) => Recording(a, r)'
    BY DEF Recording
<1> QED BY <1>1, <1>2, <1>3, <1>4, <1>5, <1>6

(* What a call has decided, it would decide again.                         *)
LEMMA SteadyKeepsDecision ==
    ASSUME NEW a \in Attempts, Steady(a), Unmoved(a), Decided(a)
    PROVE  Decided(a)'
<1>1. cmd'[a] = cmd[a] /\ row'[a] = row[a] /\ wallets'[cmd[a].wallet] = wallets[cmd[a].wallet]
    BY DEF Steady, Unmoved
<1>2. ASSUME NEW t \in Named(cmd[a]), ReferenceFault(cmd[a], txs[t]) = None
      PROVE  NotUndone(t)' <=> NotUndone(t)
    <2>1. txs[t].cmd.wallet = cmd[a].wallet
        BY <1>2, NoneAssumption DEF ReferenceFault, Failures
    <2> QED BY <2>1 DEF Named, Steady
<1>3. CASE BetOK(a)
    BY <1>1, <1>3, SteadyNames DEF BetOK, Decided
<1>4. CASE WinOK(a)
    <2>1. Named(cmd[a]) \cup Itself(a) \subseteq Named(cmd[a])' \cup Itself(a)'
        BY SteadyNames
    <2> QED BY <1>1, <1>4, <2>1, SteadyNames DEF WinOK, Decided
<1>5. CASE LossOK(a)
    BY <1>1, <1>5, SteadyNames DEF LossOK, Decided
<1>6. CASE ReverseOK(a)
    <2>1. PICK t \in Named(cmd[a]) :
            LET direction == ReversalDirection(txs[t].cmd.kind) IN
            /\ ReferenceFault(cmd[a], txs[t]) = None
            /\ \/ ~ NotUndone(t) /\ Recording(a, MarkRejected(NewRow(cmd[a]), "DUPLICATE_REVERSAL"))
               \/ NotUndone(t) /\ Settling(a, direction, t)
               \/ /\ NotUndone(t) /\ ~ Affords(a, direction)
                  /\ Recording(a, MarkRejected(NewRow(cmd[a]), "REVERSAL_EXCEEDS_BALANCE"))
        BY <1>6 DEF ReverseOK
    <2>2. t \in Named(cmd[a])' /\ txs'[t] = txs[t] /\ (NotUndone(t)' <=> NotUndone(t))
        BY <1>2, <2>1, SteadyNames
    <2> QED BY <1>1, <1>6, <2>1, <2>2, SteadyNames DEF ReverseOK, Decided
<1>7. CASE MismatchOK(a)
    <2>1. PICK t \in Named(cmd[a]) \cup Itself(a) :
            LET fault == ReferenceFault(cmd[a], IF t = a THEN NewRow(cmd[a]) ELSE txs[t]) IN
            fault # None /\ Recording(a, MarkRejected(NewRow(cmd[a]), fault))
        BY <1>7 DEF MismatchOK
    <2>2. t \in Named(cmd[a])' \cup Itself(a)' /\ (t # a => txs'[t] = txs[t])
        BY <2>1, SteadyNames DEF Itself
    <2> QED BY <1>1, <1>7, <2>1, <2>2, SteadyNames DEF MismatchOK, Decided
<1>8. CASE ParkOK(a)
    BY <1>1, <1>8, SteadyNames DEF ParkOK, Decided
<1> QED BY <1>3, <1>4, <1>5, <1>6, <1>7, <1>8 DEF Decided

(* What a call has made sure of, stays so.                                 *)
LEMMA SteadyKeepsPlan ==
    ASSUME Standing, Booking, NEW a \in Attempts, Steady(a), Unmoved(a), PlanOK(a)
    PROVE  PlanOK(a)'
<1> USE DEF Standing
<1>1. /\ Unmoved(a) /\ (Validated(a)' <=> Validated(a))
      /\ HoldsKeyShare(a)' <=> HoldsKeyShare(a)
    BY DEF Unmoved, Validated, Cleared, HoldsKeyShare
<1>2. Validated(a) => ref[a] \in Named(cmd[a])'
    BY SteadyNames DEF PlanOK
<1>3. pc[a] \in Booked => Moving(a, MoveDirection(a))'
    <2> SUFFICES ASSUME pc[a] \in Booked PROVE Moving(a, MoveDirection(a))'
        OBVIOUS
    <2>1. move[a] # None /\ Moving(a, MoveDirection(a))
        BY DEF PlanOK, Sessions, SessionOK
    <2>2. MoveDirection(a)' = MoveDirection(a)
        <3>1. cmd[a].kind \in Reversals => txs'[ref[a]] = txs[ref[a]]
            BY <2>1, SteadyNames DEF PlanOK, Validated, Cleared
        <3>2. cmd[a].kind # "LOSS" /\ cmd[a].kind \in Kinds
            BY <2>1, CommandsAssumption DEF Booking, BookOK, Sessions, TypeOK, SessionOK, Booked
        <3> QED BY <1>1, <3>1, <3>2 DEF MoveDirection, Unmoved, Kinds
    <2> QED BY <2>1, <2>2, SteadyNames
<1>4. NoneMoved(a) => NoneMoved(a)'
    BY SteadyNames
<1>5. \A t \in Named(cmd[a]) \cup Itself(a) : t \in Named(cmd[a])' \cup Itself(a)'
    BY SteadyNames
<1>6. pc[a] = "commit" /\ row[a] # None => Decided(a)'
    BY SteadyKeepsDecision DEF PlanOK
<1> QED BY <1>1, <1>2, <1>3, <1>4, <1>5, <1>6 DEF PlanOK, Unmoved

(* A call that has not reached the wallet yet has little to lose.          *)
LEMMA EarlyKeepsPlan ==
    ASSUME Standing, NEW a \in Attempts, Unmoved(a), PlanOK(a), ~ HoldsKeyShare(a)
    PROVE  PlanOK(a)'
<1>1. /\ pc[a] \in Written => pc[a] = "shareWallet"
      /\ pc[a] = "commit" => row[a] = None
      /\ ~ Validated(a) /\ pc[a] \notin Booked
    BY ValidatedShares DEF Standing, Sessions, SessionOK, HoldsKeyShare, Written, Booked
<1>2. Unmoved(a) /\ ~ Validated(a)' /\ ~ HoldsKeyShare(a)'
    BY <1>1 DEF Unmoved, Validated, Cleared, HoldsKeyShare
<1> QED BY <1>1, <1>2 DEF PlanOK, Unmoved, Booked

(* What a call does to itself is all that matters.                         *)
LEMMA OthersKeepPlans ==
    ASSUME Standing, Booking, Planning, NEW a \in Attempts, Others(a), PlanOK(a)',
           UNCHANGED <<txs, wallets>> \/ (pc[a] = "commit" /\ Publish(a))
    PROVE  Planning'
<1> SUFFICES ASSUME NEW b \in Attempts \ {a} PROVE PlanOK(b)'
    BY DEF Planning
<1>1. Unmoved(b) /\ PlanOK(b)
    BY DEF Others, Unmoved, Planning
<1>2. CASE ~ HoldsKeyShare(b)
    BY <1>1, <1>2, EarlyKeepsPlan
<1>3. CASE HoldsKeyShare(b)
    <2>1. cmd[b].wallet \in Wallets
        BY <1>1, <1>3 DEF PlanOK
    <2>2. Steady(b)
        BY <1>1, <1>3, <2>1, QuietIsSteady, CommitIsSteady DEF Unmoved
    <2> QED BY <1>1, <2>2, SteadyKeepsPlan
<1> QED BY <1>2, <1>3

-----------------------------------------------------------------------------
(* One lemma per kind of step of the call itself.                          *)

(* A call that has ended plans nothing.                                    *)
LEMMA EndedPlansNothing ==
    ASSUME NEW a \in Attempts, Ended(a) PROVE PlanOK(a)'
    BY DEF Ended, PlanOK, HoldsKeyShare, Validated, Cleared, Written, Booked

(* Nor does one that has no row.                                           *)
LEMMA RowlessPlan ==
    ASSUME Standing, NEW a \in Attempts, PlanOK(a), UNCHANGED <<row, move, ref>>,
           row[a] = None, pc'[a] \notin Written, pc'[a] = "create" => ValidCommand(cmd'[a])
    PROVE  PlanOK(a)'
<1>1. row'[a] = None /\ ref'[a] = None /\ move'[a] = None
    BY DEF PlanOK, Standing, Sessions, SessionOK
<1>2. ~ Validated(a)' /\ ~ HoldsKeyShare(a)' /\ pc'[a] \notin Booked
    BY <1>1 DEF Validated, Cleared, HoldsKeyShare, Written, Booked
<1> QED BY <1>1, <1>2 DEF PlanOK, Booked, Written

(* What a step that writes no table leaves as it was.                      *)
LEMMA StillNamed ==
    ASSUME NEW a \in Attempts, UNCHANGED <<txs, wallets, cmd>>
    PROVE  /\ Committed' = Committed /\ Named(cmd[a])' = Named(cmd[a])
           /\ Itself(a)' = Itself(a)
           /\ NoneMoved(a)' <=> NoneMoved(a)
           /\ \A t : NotUndone(t)' <=> NotUndone(t)
           /\ \A d : Affords(a, d)' <=> Affords(a, d)
    BY DEF Committed, Named, Itself, NoneMoved, MovedOn, Moved, NotUndone, Affords

(* A call that decides its row without money.                              *)
LEMMA DecidePlan ==
    ASSUME Standing, NEW a \in Attempts, PlanOK(a),
           pc[a] \in Written \ (Booked \cup {"shareWallet"}),
           Goto(a, "commit"), UNCHANGED <<tables, cmd, move, ref>>, row'[a] # None, Decided(a)'
    PROVE  PlanOK(a)'
<1>1. /\ pc'[a] = "commit" /\ move[a] = None /\ row[a] # None /\ HoldsKeyShare(a)
      /\ cmd[a].wallet \in Wallets
    BY DEF Goto, Standing, Sessions, TypeOK, SessionOK, Written, Booked, HoldsKeyShare
<1>2. ~ Validated(a)'
    BY <1>1 DEF Validated, Cleared
<1> QED BY <1>1, <1>2 DEF PlanOK, Written, Booked

(* The row a rejection writes.                                             *)
LEMMA RejectPlan ==
    ASSUME Standing, NEW a \in Attempts, PlanOK(a), NEW code \in Failures,
           Reject(a, code),
           pc[a] \in Written \ (Booked \cup {"shareWallet"}),
           UNCHANGED <<tables, cmd, move, ref>>,
           Recording(a, MarkRejected(NewRow(cmd[a]), code))' => Decided(a)'
    PROVE  PlanOK(a)'
<1>1. row[a] = NewRow(cmd[a]) /\ move[a] = None /\ row \in [Attempts -> Rows \cup {None}]
    BY DEF PlanOK, Standing, Sessions, SessionOK, TypeOK, Booked, Written
<1>2. row'[a] = MarkRejected(NewRow(cmd[a]), code)
    BY <1>1 DEF Reject, Writes
<1>3. row'[a] # None
    <2>1. row[a] \in Rows
        BY DEF Standing, Sessions, SessionOK, TypeOK
    <2>2. MarkRejected(NewRow(cmd[a]), code) \in Rows
        BY <1>1, <2>1, RejectedRow
    <2> QED BY <1>2, <2>2, NoneAssumption
<1>4. Recording(a, MarkRejected(NewRow(cmd[a]), code))'
    BY <1>1, <1>2 DEF Recording
<1> QED BY <1>3, <1>4, DecidePlan DEF Reject

(* What a call that has a row finds: what its reference names, or itself.  *)
LEMMA FoundAreNamed ==
    ASSUME Standing, NEW a \in Attempts, row[a] # None
    PROVE  /\ a \notin Committed
           /\ ByExternalId(a, cmd[a].provider, cmd[a].ref) = Named(cmd[a]) \cup Itself(a)
           /\ \A t \in Named(cmd[a]) : t # a /\ Seen(a, t) = txs[t]
           /\ Seen(a, a) = row[a]
<1>1. a \notin Committed /\ row[a].cmd = cmd[a]
    BY DEF Standing, KeysAreUnique, Sessions, SessionOK, Written, Booked
<1>2. Seen(a, a) = row[a] /\ \A t \in Attempts \ {a} : Seen(a, t) = txs[t]
    BY DEF Seen
<1>3. \A t \in Named(cmd[a]) : t \in Attempts \ {a}
    BY <1>1 DEF Named, Committed
<1>4. ASSUME NEW t \in Attempts
      PROVE  t \in ByExternalId(a, cmd[a].provider, cmd[a].ref) <=>
                 t \in Named(cmd[a]) \cup Itself(a)
    BY <1>1, <1>2 DEF ByExternalId, Named, Itself, Committed
<1>5. /\ ByExternalId(a, cmd[a].provider, cmd[a].ref) \subseteq Attempts
      /\ Named(cmd[a]) \cup Itself(a) \subseteq Attempts
    BY <1>3 DEF ByExternalId, Itself
<1> QED BY <1>1, <1>2, <1>3, <1>4, <1>5

(* Create inserts the row of a valid command.                              *)
LEMMA CreatePlan ==
    ASSUME Standing, NEW a \in Attempts, PlanOK(a), Create(a), ~ Abort(a, "CONFLICT")
    PROVE  PlanOK(a)'
<1>1. /\ pc'[a] = "shareWallet" /\ row'[a] = NewRow(cmd[a]) /\ UNCHANGED <<cmd, move, ref>>
      /\ pc[a] = "create" /\ row[a] = None /\ move[a] = None /\ ref[a] = None
    BY DEF Create, Goto, Writes, PlanOK, Standing, Sessions, TypeOK, SessionOK, Written, Booked
<1>2. ~ Validated(a)' /\ ~ HoldsKeyShare(a)'
    BY <1>1 DEF Validated, Cleared, HoldsKeyShare
<1> QED BY <1>1, <1>2 DEF PlanOK, Written, Booked

(* Its foreign key finds the wallet and share-locks it.                    *)
LEMMA ShareWalletPlan ==
    ASSUME Standing, NEW a \in Attempts, PlanOK(a), ShareWallet(a),
           ~ Abort(a, "UNKNOWN_WALLET"), Undoing
    PROVE  PlanOK(a)'
<1> DEFINE s == CASE cmd[a].kind \in {"BET", "WIN"} -> "lockWallet"
                  [] cmd[a].kind = "LOSS"           -> "readWallet"
                  [] cmd[a].kind \in Reversals      -> "findReference"
<1>1. /\ Reads(a, s) /\ pc[a] = "shareWallet" /\ cmd[a].kind \in Kinds
      /\ cmd[a].wallet \in Wallets
    BY CommandsAssumption DEF ShareWallet, Standing, Sessions, TypeOK, SessionOK
<1>2. \/ s = "lockWallet" /\ cmd[a].kind \notin Reversals
      \/ s \in {"readWallet", "findReference"}
    BY <1>1 DEF Kinds, Reversals
<1>3. pc'[a] = s /\ move[a] = None /\ UNCHANGED <<tables, cmd, row, move, ref>>
    BY <1>1 DEF Reads, Goto, Standing, Sessions, TypeOK, SessionOK, Booked
<1> HIDE DEF s
<1>4. ~ Validated(a)' /\ pc'[a] \notin Booked \cup {"commit", "create"}
    BY <1>2, <1>3 DEF Validated, Cleared, Booked
<1>5. row[a] = NewRow(cmd[a]) /\ row[a] # None
    BY <1>1 DEF PlanOK, Standing, Sessions, SessionOK, Written, Booked
<1> QED BY <1>1, <1>3, <1>4, <1>5 DEF PlanOK, Booked

(* A LOSS reports the balance of the moment.                               *)
LEMMA ReadWalletPlan ==
    ASSUME Standing, NEW a \in Attempts, PlanOK(a), ReadWallet(a) PROVE PlanOK(a)'
<1>1. /\ pc[a] = "readWallet" /\ pc[a] \in Written \ (Booked \cup {"shareWallet"})
      /\ cmd[a].kind = "LOSS" /\ row[a] = NewRow(cmd[a]) /\ move[a] = None
      /\ cmd[a].wallet \in Wallets /\ row[a] \in Rows
    <2>1. pc[a] = "readWallet" /\ pc[a] \in Written \ (Booked \cup {"shareWallet"})
        BY DEF ReadWallet, Written, Booked
    <2>2. cmd[a].kind = "LOSS" /\ row[a] = NewRow(cmd[a])
        BY <2>1 DEF PlanOK, Standing, Undoing, UndoOK
    <2>3. move[a] = None /\ cmd[a].wallet \in Wallets /\ row[a] \in Rows
        BY <2>1 DEF Standing, Sessions, TypeOK, SessionOK, Written, Booked
    <2> QED BY <2>1, <2>2, <2>3
<1>2. /\ row'[a] = MarkProcessed(NewRow(cmd[a]), wallets[cmd[a].wallet].balance)
      /\ Goto(a, "commit") /\ UNCHANGED <<tables, cmd, move, ref>>
    BY <1>1 DEF ReadWallet, Writes, Standing, Sessions, TypeOK
<1>3. row'[a] # None
    <2>1. wallets[cmd[a].wallet].balance \in Nat
        BY <1>1 DEF Standing, Sessions, TypeOK, WalletStates
    <2> QED BY <1>1, <1>2, <2>1, RowTransitions, NoneAssumption
<1>4. Decided(a)'
    BY <1>1, <1>2 DEF Decided, LossOK, Recording, tables
<1> QED BY <1>1, <1>2, <1>3, <1>4, DecidePlan

(* A reversal parks on nothing, is refused for what it finds, or goes on.  *)
LEMMA FindReferencePlan ==
    ASSUME Standing, NEW a \in Attempts, PlanOK(a), FindReference(a) PROVE PlanOK(a)'
<1>1. /\ pc[a] = "findReference" /\ pc[a] \in Written \ (Booked \cup {"shareWallet"})
      /\ UNCHANGED <<tables, cmd, move>>
    BY DEF FindReference, Written, Booked
<1>2. /\ cmd[a].kind \in Reversals /\ row[a] \in Rows /\ row[a] # None /\ move[a] = None
      /\ cmd[a].wallet \in Wallets /\ row[a].cmd = cmd[a]
    BY <1>1 DEF Standing, Sessions, TypeOK, SessionOK, Written, Booked
<1>3. row[a] = NewRow(cmd[a]) /\ ValidCommand(cmd[a])
    BY <1>1, <1>2 DEF PlanOK
<1>4. ASSUME ByExternalId(a, cmd[a].provider, cmd[a].ref) = {}, UNCHANGED ref,
             Writes(a, MarkPendingReference(row[a])), Goto(a, "commit")
      PROVE  PlanOK(a)'
    <2>1. row'[a] = MarkPendingReference(NewRow(cmd[a])) /\ row'[a] # None
        <3>1. row'[a] = MarkPendingReference(row[a])
            BY <1>4 DEF Writes, Standing, Sessions, TypeOK
        <3> QED BY <1>2, <1>3, <3>1, RowTransitions, NoneAssumption
    <2>2. NoneMoved(a)'
        <3>1. Named(cmd[a]) = {}
            BY <1>2, <1>4, FoundAreNamed
        <3> QED BY <1>1, <3>1, StillNamed DEF NoneMoved, tables
    <2>3. Decided(a)'
        BY <1>1, <1>2, <2>1, <2>2 DEF Decided, ParkOK, Recording
    <2> QED BY <1>1, <1>4, <2>1, <2>3, DecidePlan
<1>5. ASSUME NEW t \in ByExternalId(a, cmd[a].provider, cmd[a].ref), UNCHANGED ref,
             ReferenceFault(cmd[a], Seen(a, t)) # None,
             Reject(a, ReferenceFault(cmd[a], Seen(a, t)))
      PROVE  PlanOK(a)'
    <2>1. PICK code \in Failures : code = ReferenceFault(cmd[a], Seen(a, t))
        BY <1>5, FaultIsFailure
    <2>2. /\ t \in Named(cmd[a]) \cup Itself(a)
          /\ Seen(a, t) = IF t = a THEN NewRow(cmd[a]) ELSE txs[t]
        BY <1>2, <1>3, <1>5, FoundAreNamed DEF Itself
    <2>3. /\ t \in Named(cmd[a])' \cup Itself(a)'
          /\ cmd' = cmd /\ txs' = txs
        BY <1>1, <2>2, StillNamed DEF tables
    <2>4. code = ReferenceFault(cmd[a], IF t = a THEN NewRow(cmd[a]) ELSE txs[t])'
        BY <2>1, <2>2, <2>3
    <2>5. ASSUME Recording(a, MarkRejected(NewRow(cmd[a]), code))' PROVE Decided(a)'
        <3>1. code # None /\ cmd'[a].kind \in Reversals
            BY <1>2, <1>5, <2>1, <2>3
        <3>2. MismatchOK(a)'
            BY <2>3, <2>4, <2>5, <3>1 DEF MismatchOK
        <3> QED BY <3>2 DEF Decided
    <2>6. Reject(a, code)
        BY <1>5, <2>1
    <2> QED BY <1>1, <1>5, <2>5, <2>6, RejectPlan
<1>6. ASSUME NEW t \in ByExternalId(a, cmd[a].provider, cmd[a].ref),
             ReferenceFault(cmd[a], Seen(a, t)) = None,
             ref' = [ref EXCEPT ![a] = t], Goto(a, "countRefunds"), UNCHANGED row
      PROVE  PlanOK(a)'
    <2>1. t \in Attempts /\ Seen(a, t) # None
        BY DEF ByExternalId
    <2>2. t \in Committed
        BY <1>2, <1>6, <2>1, ReferenceIsCommitted DEF Standing
    <2>3. t \in Named(cmd[a])'
        BY <1>1, <1>2, <2>2, FoundAreNamed, StillNamed DEF Itself, tables
    <2>4. pc'[a] = "countRefunds" /\ ref'[a] = t /\ cmd' = cmd /\ row' = row
        BY <1>1, <1>6, <2>1 DEF Goto, Standing, Sessions, TypeOK
    <2> QED BY <1>2, <1>3, <2>3, <2>4 DEF PlanOK, Booked
<1> QED BY <1>4, <1>5, <1>6 DEF FindReference

(* A reversal that is counted is refused; the other goes on.               *)
LEMMA CountPlan ==
    ASSUME Standing, Booking, NEW a \in Attempts, PlanOK(a), CountRefunds(a) \/ CountRollbacks(a)
    PROVE  PlanOK(a)'
<1>1. /\ pc[a] \in {"countRefunds", "countRollbacks"}
      /\ pc[a] \in Written \ (Booked \cup {"shareWallet"}) /\ Validated(a)
      /\ UNCHANGED <<tables, cmd, move, ref>>
    BY DEF CountRefunds, CountRollbacks, Count, Written, Booked, Validated
<1>2. /\ cmd[a].kind \in Reversals /\ row[a] # None /\ move[a] = None
      /\ cmd[a].wallet \in Wallets
    BY <1>1 DEF Standing, Sessions, TypeOK, SessionOK, Written, Booked
<1>3. /\ row[a] = NewRow(cmd[a]) /\ ValidCommand(cmd[a]) /\ ref[a] \in Named(cmd[a])
      /\ ReferenceFault(cmd[a], txs[ref[a]]) = None
    BY <1>1, <1>2 DEF PlanOK, Booking, BookOK
<1>4. ref[a] \in Named(cmd[a])' /\ (NotUndone(ref[a])' <=> NotUndone(ref[a]))
    BY <1>1, <1>3, StillNamed DEF tables
<1>5. ASSUME NEW kind, SuccessfulReversals(ref[a], kind) # {}, Reject(a, "DUPLICATE_REVERSAL")
      PROVE  PlanOK(a)'
    <2> DEFINE r == MarkRejected(NewRow(cmd[a]), "DUPLICATE_REVERSAL")
    <2>1. ~ NotUndone(ref[a])'
        BY <1>4, <1>5 DEF SuccessfulReversals, NotUndone
    <2>2. ASSUME Recording(a, r)' PROVE Decided(a)'
        <3>1. ref'[a] = ref[a] /\ cmd' = cmd /\ txs' = txs
            BY <1>1 DEF tables
        <3>2. ReverseOK(a)'
            BY <1>2, <1>3, <1>4, <2>1, <2>2, <3>1 DEF ReverseOK
        <3> QED BY <3>2 DEF Decided
    <2> QED BY <1>1, <1>5, <2>2, RejectPlan DEF Failures
<1>6. ASSUME NEW s \in {"countRollbacks", "lockWallet"}, Goto(a, s), UNCHANGED row
      PROVE  PlanOK(a)'
    <2>1. pc'[a] = s /\ cmd' = cmd /\ row' = row /\ ref' = ref
        BY <1>1, <1>6 DEF Goto, Standing, Sessions, TypeOK
    <2> QED BY <1>2, <1>3, <1>4, <2>1 DEF PlanOK, Booked
<1> QED BY <1>5, <1>6 DEF CountRefunds, CountRollbacks, Count

(* Under the lock the wallet covers the movement, or the row is refused.   *)
LEMMA LockWalletPlan ==
    ASSUME Standing, Booking, NEW a \in Attempts, PlanOK(a), LockWallet(a),
           ~ Abort(a, "CURRENCY_MISMATCH")
    PROVE  PlanOK(a)'
<1> DEFINE w == cmd[a].wallet
           d == MoveDirection(a)
           m == Move(a, d, cmd[a].amount, wallets[w])
<1>1. /\ pc[a] = "lockWallet" /\ pc[a] \in Written \ (Booked \cup {"shareWallet"})
      /\ UNCHANGED <<tables, cmd, ref>> /\ cmd[a].currency = Currency[w]
    BY DEF LockWallet, Written, Booked
<1>2. /\ cmd[a].kind \in {"BET", "WIN"} \cup Reversals /\ row[a] # None /\ move[a] = None
      /\ w \in Wallets
    BY <1>1 DEF Standing, Sessions, TypeOK, SessionOK, Written, Booked
<1>3. /\ row[a] = NewRow(cmd[a]) /\ ValidCommand(cmd[a])
      /\ ref[a] # None => cmd[a].kind \in Reversals
    BY <1>1, <1>2 DEF PlanOK
<1>4. ASSUME cmd[a].kind \in Reversals
      PROVE  /\ ref[a] \in Named(cmd[a]) /\ ref[a] \in Named(cmd[a])' /\ NotUndone(ref[a])'
             /\ d = ReversalDirection(txs[ref[a]].cmd.kind)
    <2>1. Cleared(a) /\ Validated(a)
        BY <1>1, <1>4 DEF Cleared, Validated
    <2>2. ref[a] \in Named(cmd[a]) /\ NotUndone(ref[a])
        BY <2>1 DEF PlanOK, Standing, Undoing, UndoOK
    <2>3. d = ReversalDirection(txs[ref[a]].cmd.kind)
        BY <1>4 DEF MoveDirection, Reversals
    <2> QED BY <1>1, <2>2, <2>3, StillNamed DEF tables
<1>5. ASSUME ~ Covered(d, cmd[a].amount, wallets[w]), UNCHANGED move,
             Reject(a, IF cmd[a].kind = "BET" THEN "INSUFFICIENT_FUNDS"
                       ELSE "REVERSAL_EXCEEDS_BALANCE")
      PROVE  PlanOK(a)'
    <2>1. CASE cmd[a].kind = "BET"
        <3>1. ~ Affords(a, "DEBIT")' /\ cmd' = cmd
            <4>1. d = "DEBIT"
                BY <2>1 DEF MoveDirection, Reversals
            <4> QED BY <1>1, <1>5, <4>1 DEF Affords, tables
        <3>2. ASSUME Recording(a, MarkRejected(NewRow(cmd[a]), "INSUFFICIENT_FUNDS"))'
              PROVE  Decided(a)'
            BY <1>1, <2>1, <3>1, <3>2 DEF Decided, BetOK
        <3> QED BY <1>1, <1>5, <2>1, <3>2, RejectPlan DEF Failures
    <2>2. CASE cmd[a].kind # "BET"
        <3>1. cmd[a].kind \in Reversals
            BY <1>2, <1>5, <2>2 DEF MoveDirection, Covered
        <3>2. /\ ~ Affords(a, d) /\ cmd' = cmd /\ txs' = txs /\ ref' = ref
              /\ wallets' = wallets
            BY <1>1, <1>5 DEF Affords, tables
        <3>3. ReferenceFault(cmd[a], txs[ref[a]]) = None
            BY <1>1, <3>1 DEF Booking, BookOK, Validated, Cleared
        <3>4. ASSUME Recording(a, MarkRejected(NewRow(cmd[a]), "REVERSAL_EXCEEDS_BALANCE"))'
              PROVE  Decided(a)'
            <4>1. ReverseOK(a)'
                BY <1>4, <3>1, <3>2, <3>3, <3>4 DEF ReverseOK, Affords
            <4> QED BY <4>1 DEF Decided
        <3> QED BY <1>1, <1>5, <2>2, <3>4, RejectPlan DEF Failures
    <2> QED BY <2>1, <2>2
<1>6. ASSUME Covered(d, cmd[a].amount, wallets[w]), UNCHANGED row,
             move' = [move EXCEPT ![a] = m],
             Goto(a, IF cmd[a].kind = "WIN" /\ cmd[a].ref # None
                     THEN "attachReference" ELSE "saveWallet")
      PROVE  PlanOK(a)'
    <2>1. /\ pc'[a] = IF cmd[a].kind = "WIN" /\ cmd[a].ref # None
                      THEN "attachReference" ELSE "saveWallet"
          /\ move'[a] = m /\ UNCHANGED <<wallets, txs, cmd, row, ref>>
        BY <1>1, <1>6 DEF Goto, Standing, Sessions, TypeOK, tables
    <2>2. MoveDirection(a)' = d
        BY <2>1 DEF MoveDirection
    <2>3. Moving(a, MoveDirection(a))'
        BY <1>1, <1>6, <2>1, <2>2 DEF Moving, Affords
    <2>4. Validated(a)' => cmd[a].kind \in Reversals
        BY <2>1 DEF Validated, Cleared
    <2> HIDE DEF m, d
    <2> QED BY <1>2, <1>3, <1>4, <2>1, <2>3, <2>4 DEF PlanOK, Booked, Reversals
<1> QED BY <1>5, <1>6 DEF LockWallet

(* A WIN takes the reference it finds, and nothing when there is none.     *)
LEMMA AttachReferencePlan ==
    ASSUME Standing, NEW a \in Attempts, PlanOK(a), AttachReference(a) PROVE PlanOK(a)'
<1>1. /\ pc[a] = "attachReference" /\ pc'[a] = "saveWallet"
      /\ UNCHANGED <<wallets, txs, cmd, row, move>>
    BY DEF AttachReference, Goto, Standing, Sessions, TypeOK, tables
<1>2. /\ row[a] # None /\ cmd[a].kind = "WIN" /\ cmd[a].kind \notin Reversals
      /\ cmd[a].wallet \in Wallets
    BY <1>1 DEF Standing, Sessions, SessionOK, Undoing, UndoOK, Written, Booked, Reversals
<1>3. /\ row[a] = NewRow(cmd[a]) /\ ValidCommand(cmd[a]) /\ cmd[a].ref # None
      /\ ref[a] = None /\ Moving(a, MoveDirection(a))
    BY <1>1, <1>2 DEF PlanOK, Written, Booked
<1>4. MoveDirection(a) = "CREDIT" /\ MoveDirection(a)' = "CREDIT"
    BY <1>1, <1>2 DEF MoveDirection
<1>5. Moving(a, MoveDirection(a))'
    BY <1>1, <1>3, <1>4 DEF Moving, Affords
<1>6. ~ Validated(a)'
    BY <1>1, <1>2 DEF Validated, Cleared
<1>7. IF ref'[a] = None THEN NoneMoved(a)' ELSE ref'[a] \in Named(cmd[a])' \cup Itself(a)'
    <2>1. CASE ByExternalId(a, cmd[a].provider, cmd[a].ref) = {} /\ UNCHANGED ref
        <3>1. Named(cmd[a]) = {}
            BY <1>2, <2>1, FoundAreNamed
        <3> QED BY <1>1, <1>3, <2>1, <3>1, StillNamed DEF NoneMoved
    <2>2. ASSUME NEW t \in ByExternalId(a, cmd[a].provider, cmd[a].ref),
                 ref' = [ref EXCEPT ![a] = t]
          PROVE  ref'[a] \in Named(cmd[a])' \cup Itself(a)' /\ ref'[a] # None
        BY <1>1, <1>2, <2>2, FoundAreNamed, StillNamed, NoneAssumption
        DEF Standing, Sessions, TypeOK, ByExternalId
    <2> QED BY <2>1, <2>2 DEF AttachReference
<1> QED BY <1>1, <1>2, <1>3, <1>5, <1>6, <1>7 DEF PlanOK, Booked

(* The row is written with the balance of its movement.                    *)
LEMMA SaveWalletPlan ==
    ASSUME Standing, Booking, NEW a \in Attempts, PlanOK(a), SaveWallet(a),
           ~ Abort(a, "OPTIMISTIC_LOCK")
    PROVE  PlanOK(a)'
<1> DEFINE r == MarkProcessed(AttachResolvedReference(NewRow(cmd[a]), ref[a]), move[a].after)
<1>1. /\ pc[a] = "saveWallet" /\ pc'[a] = "commit" /\ UNCHANGED <<wallets, txs, cmd, move, ref>>
      /\ row'[a] = MarkProcessed(AttachResolvedReference(row[a], ref[a]), move[a].after)
    BY DEF SaveWallet, Goto, Writes, Standing, Sessions, TypeOK, tables
<1>2. /\ row[a] # None /\ row[a] \in Rows /\ move[a] # None /\ move[a] \in Movements
      /\ cmd[a].wallet \in Wallets /\ ref[a] \in Attempts \cup {None} /\ cmd[a].kind \in Kinds
    BY <1>1, CommandsAssumption
    DEF Standing, Sessions, TypeOK, SessionOK, Written, Booked
<1>3. /\ row[a] = NewRow(cmd[a]) /\ ValidCommand(cmd[a]) /\ Moving(a, MoveDirection(a))
      /\ ref[a] # None => cmd[a].kind \in Reversals \cup {"WIN"}
      /\ cmd[a].kind = "WIN" =>
            IF ref[a] = None THEN cmd[a].ref = None \/ NoneMoved(a)
            ELSE cmd[a].ref # None /\ ref[a] \in Named(cmd[a]) \cup Itself(a)
      /\ cmd[a].kind # "LOSS"
    <2>1. row[a] = NewRow(cmd[a]) /\ ValidCommand(cmd[a]) /\ Moving(a, MoveDirection(a))
        BY <1>1, <1>2 DEF PlanOK, Written, Booked
    <2>2. cmd[a].kind # "LOSS"
        BY <1>2 DEF Booking, BookOK
    <2> QED BY <1>1, <1>2, <2>1, <2>2 DEF PlanOK
<1>4. r \in Rows /\ r # None /\ row'[a] = r
    <2>1. move[a].after \in Nat
        BY <1>2 DEF Movements
    <2> QED BY <1>1, <1>2, <1>3, <2>1, RowTransitions, NoneAssumption
<1>5. /\ Settling(a, MoveDirection(a), ref[a])'
      /\ MoveDirection(a)' = MoveDirection(a)
    <2>1. MoveDirection(a)' = MoveDirection(a)
        BY <1>1 DEF MoveDirection
    <2>2. Moving(a, MoveDirection(a))'
        BY <1>1, <1>3, <2>1 DEF Moving, Affords
    <2> QED BY <1>1, <1>4, <2>1, <2>2 DEF Settling
<1>6. CASE cmd[a].kind = "BET"
    <2>1. ref'[a] = None /\ MoveDirection(a)' = "DEBIT"
        BY <1>1, <1>3, <1>5, <1>6 DEF MoveDirection, Reversals
    <2>2. Decided(a)'
        BY <1>1, <1>5, <1>6, <2>1 DEF Decided, BetOK
    <2>3. ~ Validated(a)'
        BY <1>1, <1>6 DEF Validated, Cleared, Reversals
    <2> QED BY <1>1, <1>2, <1>3, <1>4, <2>1, <2>2, <2>3 DEF PlanOK, Written, Booked
<1>7. CASE cmd[a].kind = "WIN"
    <2>1. MoveDirection(a)' = "CREDIT"
        BY <1>1, <1>7 DEF MoveDirection, Reversals
    <2>2. WinOK(a)'
        <3>1. CASE ref[a] = None
            BY <1>1, <1>3, <1>5, <1>7, <2>1, <3>1, StillNamed DEF WinOK
        <3>2. CASE ref[a] # None
            BY <1>1, <1>3, <1>5, <1>7, <2>1, <3>2, StillNamed DEF WinOK
        <3> QED BY <3>1, <3>2
    <2>3. ~ Validated(a)' /\ Decided(a)'
        BY <1>1, <1>7, <2>2 DEF Decided, Validated, Cleared, Reversals
    <2> QED BY <1>1, <1>2, <1>3, <1>4, <1>7, <2>3 DEF PlanOK, Written, Booked
<1>8. CASE cmd[a].kind \in Reversals
    <2>1. Cleared(a) /\ Validated(a)
        BY <1>2, <1>8 DEF Cleared, Validated
    <2>2. /\ ref[a] \in Named(cmd[a]) /\ NotUndone(ref[a])
          /\ ReferenceFault(cmd[a], txs[ref[a]]) = None
        BY <2>1 DEF PlanOK, Standing, Undoing, UndoOK, Booking, BookOK
    <2>3. ref[a] \in Named(cmd[a])' /\ NotUndone(ref[a])'
        BY <1>1, <2>2, StillNamed
    <2>4. MoveDirection(a)' = ReversalDirection(txs[ref[a]].cmd.kind)
        BY <1>5, <1>8 DEF MoveDirection, Reversals
    <2>5. ReverseOK(a)'
        BY <1>1, <1>5, <1>8, <2>2, <2>3, <2>4 DEF ReverseOK
    <2>6. Decided(a)'
        BY <2>5 DEF Decided
    <2> QED BY <1>1, <1>2, <1>3, <1>4, <1>8, <2>3, <2>6 DEF PlanOK, Written, Booked
<1> QED BY <1>2, <1>3, <1>6, <1>7, <1>8 DEF Kinds

(* Every step of every call keeps the plans of all.                        *)
LEMMA StepKeepsPlanning == Standing /\ Booking /\ Planning /\ [Next]_vars => Planning'
<1> SUFFICES ASSUME Standing, Booking, Planning, [Next]_vars PROVE Planning'
    OBVIOUS
<1>1. CASE UNCHANGED vars
    <2>1. ASSUME NEW a \in Attempts PROVE PlanOK(a)'
        <3>1. PlanOK(a) /\ Unmoved(a) /\ Steady(a)
            BY <1>1, QuietIsSteady DEF vars, Planning, Unmoved
        <3> QED BY <3>1, SteadyKeepsPlan
    <2> QED BY <2>1 DEF Planning
<1>2. ASSUME NEW a \in Attempts, Taken(a) PROVE Planning'
    <2>1. Others(a) /\ PlanOK(a)
        BY <1>2, StepsAreLocal DEF Standing, Planning
    <2>2. ASSUME UNCHANGED tables, PlanOK(a)' PROVE Planning'
        BY <2>1, <2>2, OthersKeepPlans DEF tables
    <2>3. ASSUME NEW e, Abort(a, e) PROVE Planning'
        <3>1. UNCHANGED tables /\ PlanOK(a)'
            BY <2>3, AbortEnds, EndedPlansNothing DEF Abort, Ends, Standing
        <3> QED BY <2>2, <3>1
    <2>4. ASSUME UNCHANGED <<tables, row, move, ref>>, NEW s, Goto(a, s), s \notin Written,
                 pc[a] \notin Written \cup {"commit"}, s = "create" => ValidCommand(cmd'[a])
          PROVE  Planning'
        <3>1. row[a] = None /\ pc'[a] = s
            BY <2>4 DEF Goto, Standing, Sessions, TypeOK, SessionOK
        <3>2. PlanOK(a)'
            BY <2>1, <2>4, <3>1, RowlessPlan
        <3> QED BY <2>2, <2>4, <3>2
    <2>5. CASE (\E c \in Commands : Submit(a, c)) \/ FindInbox(a) \/ InsertInbox(a)
              \/ FindExternal(a)
        BY <2>3, <2>4, <2>5
        DEF Submit, FindInbox, InsertInbox, FindExternal, Reads, Written, Booked
    <2>6. CASE FindKey(a)
        <3>1. CASE \E e : Abort(a, e)
            BY <2>3, <3>1
        <3>2. CASE Reads(a, "create") /\ ValidCommand(cmd[a])
            BY <2>4, <2>6, <3>2 DEF FindKey, Reads, Written, Booked
        <3>3. CASE Goto(a, "commit") /\ UNCHANGED <<tables, cmd, row, move, ref, owner>>
            BY <2>4, <2>6, <3>3 DEF FindKey, Written, Booked
        <3> QED BY <2>6, <3>1, <3>2, <3>3 DEF FindKey
    <2>7. CASE ReplayByKey(a)
        <3>1. CASE UNCHANGED tables /\ \E ans : Return(a, ans)
            <4>1. PlanOK(a)'
                BY <3>1, ReturnIsLocal, EndedPlansNothing DEF Standing
            <4> QED BY <2>2, <3>1, <4>1
        <3> QED BY <2>3, <2>7, <3>1 DEF ReplayByKey
    <2>8. CASE Create(a)
        <3>1. CASE ~ Abort(a, "CONFLICT")
            BY <2>1, <2>2, <2>8, <3>1, CreatePlan DEF Create
        <3> QED BY <2>3, <3>1
    <2>9. CASE ShareWallet(a)
        <3>1. CASE ~ Abort(a, "UNKNOWN_WALLET")
            BY <2>1, <2>2, <2>9, <3>1, ShareWalletPlan DEF ShareWallet, Reads, Standing
        <3> QED BY <2>3, <3>1
    <2>10. CASE ReadWallet(a)
        BY <2>1, <2>2, <2>10, ReadWalletPlan DEF ReadWallet
    <2>11. CASE FindReference(a)
        BY <2>1, <2>2, <2>11, FindReferencePlan DEF FindReference
    <2>12. CASE CountRefunds(a) \/ CountRollbacks(a)
        BY <2>1, <2>2, <2>12, CountPlan DEF CountRefunds, CountRollbacks, Count
    <2>13. CASE LockWallet(a)
        <3>1. CASE ~ Abort(a, "CURRENCY_MISMATCH")
            BY <2>1, <2>2, <2>13, <3>1, LockWalletPlan DEF LockWallet
        <3> QED BY <2>3, <3>1
    <2>14. CASE AttachReference(a)
        BY <2>1, <2>2, <2>14, AttachReferencePlan DEF AttachReference
    <2>15. CASE SaveWallet(a)
        <3>1. CASE ~ Abort(a, "OPTIMISTIC_LOCK")
            BY <2>1, <2>2, <2>15, <3>1, SaveWalletPlan DEF SaveWallet
        <3> QED BY <2>3, <3>1
    <2>16. CASE Commit(a) \/ CommitUnacknowledged(a)
        <3>1. pc[a] = "commit" /\ Publish(a) /\ PlanOK(a)'
            BY <2>16, ReturnIsLocal, EndedPlansNothing
            DEF Commit, CommitUnacknowledged, Standing
        <3> QED BY <2>1, <3>1, OthersKeepPlans
    <2>17. CASE LoseConnection(a) \/ AbortDeadlock(a)
        BY <2>3, <2>17 DEF LoseConnection, AbortDeadlock
    <2> QED BY <1>2, <2>5, <2>6, <2>7, <2>8, <2>9, <2>10, <2>11, <2>12, <2>13, <2>14, <2>15,
               <2>16, <2>17 DEF Taken, Step
<1>3. CASE Next
    BY <1>2, <1>3 DEF Next, Taken
<1> QED BY <1>1, <1>3

-----------------------------------------------------------------------------
(* AtomicWagers speaks of rows, movements and events as calls do.          *)
LEMMA SameWords ==
    /\ \A d, n, w : Atomic!Covered(d, n, w) = Covered(d, n, w)
    /\ \A t, d, n, w : Atomic!Move(t, d, n, w) = Move(t, d, n, w)
    /\ \A c : Atomic!ValidCommand(c) = ValidCommand(c)
    /\ \A c, d : Atomic!Collide(c, d) = Collide(c, d)
    /\ \A r, t : Atomic!IsReversalOf(r, t) = IsReversalOf(r, t)
    /\ \A c : Atomic!NewRow(c) = NewRow(c)
    /\ \A r : Atomic!MarkPendingReference(r) = MarkPendingReference(r)
    /\ \A r, n : Atomic!MarkProcessed(r, n) = MarkProcessed(r, n)
    /\ \A r, code : Atomic!MarkRejected(r, code) = MarkRejected(r, code)
    /\ \A r, t : Atomic!AttachResolvedReference(r, t) = AttachResolvedReference(r, t)
    /\ \A kind : Atomic!ReversalDirection(kind) = ReversalDirection(kind)
    /\ \A c, r : Atomic!ReferenceFault(c, r) = ReferenceFault(c, r)
    /\ \A t, r, m : Atomic!Events(t, r, m) = Events(t, r, m)
    /\ \A w : Atomic!OpenedWallet(w) = OpenedWallet(w)
    /\ \A w : Atomic!OpenedLedger(w) = OpenedLedger(w)
    /\ Atomic!Reversals = Reversals
BY DEF Atomic!Covered, Covered, Atomic!Move, Move, Atomic!NewRow, NewRow,
       Atomic!ValidCommand, ValidCommand, Atomic!Collide, Collide, Atomic!SameKey, SameKey,
       Atomic!SameExternalId, SameExternalId, Atomic!IsReversalOf, IsReversalOf,
       Atomic!MarkPendingReference, MarkPendingReference, Atomic!MarkProcessed, MarkProcessed,
       Atomic!MarkRejected, MarkRejected, Atomic!AttachResolvedReference,
       AttachResolvedReference, Atomic!ReversalDirection, ReversalDirection,
       Atomic!ReferenceFault, ReferenceFault, Atomic!Reversible, Reversible,
       Atomic!Reversals, Reversals, Atomic!Events, Events,
       Atomic!OpenedWallet, OpenedWallet, Atomic!OpenedLedger, OpenedLedger

(* And it reads the tables as calls do.                                    *)
LEMMA SameReads ==
    /\ \A t : Atomic!Exists(t) <=> txs[t] # None
    /\ \A c : Atomic!Named(c) = Named(c)
    /\ \A a \in Attempts : Atomic!Itself(a, cmd[a]) = Itself(a)
    /\ \A t : Atomic!Reversed(t) <=> ~ NotUndone(t)
    /\ \A c, w : \A t \in Named(c) : Atomic!HasMoved(t, w) <=> MovedOn(t, w)
<1>1. \A t : Atomic!Exists(t) <=> txs[t] # None
    BY DEF Atomic!Exists
<1>2. \A c : Atomic!Named(c) = Named(c)
    BY DEF Atomic!Named, Atomic!Exists, Named, Committed
<1>3. \A t : Atomic!Reversed(t) <=> ~ NotUndone(t)
    BY SameWords DEF Atomic!Reversed, Atomic!Exists, NotUndone, Committed
<1>4. \A c, w : \A t \in Named(c) : Atomic!HasMoved(t, w) <=> MovedOn(t, w)
    BY DEF Atomic!HasMoved, MovedOn, Moved, Named
<1>5. \A a \in Attempts : Atomic!Itself(a, cmd[a]) = Itself(a)
    BY DEF Atomic!Itself, Itself
<1> QED BY <1>1, <1>2, <1>3, <1>4, <1>5

(* A row that is filed alone is recorded.                                  *)
LEMMA FiledAloneIsRecorded ==
    ASSUME NEW a \in Attempts, row[a] # None, Publish(a), NEW r, Recording(a, r)
    PROVE  Atomic!Record(a, r)
    BY SameWords DEF Publish, Recording, Atomic!Record

(* A row that is filed with its movement is settled.                       *)
LEMMA FiledWithMoveIsSettled ==
    ASSUME NEW a \in Attempts, row[a] # None, move[a] # None, Publish(a), NEW d, NEW t,
           Settling(a, d, t)
    PROVE  Atomic!Settle(a, cmd[a], d, t)
<1> DEFINE w == cmd[a].wallet
           m == Move(a, d, cmd[a].amount, wallets[w])
           r == MarkProcessed(AttachResolvedReference(NewRow(cmd[a]), t), m.after)
<1>1. move[a] = m /\ row[a] = r /\ cmd[a].currency = Currency[w]
    BY DEF Settling, Moving
<1>2. m # None
    BY <1>1
<1>3. /\ wallets' = [wallets EXCEPT ![w] = [balance |-> m.after, version |-> m.version]]
      /\ ledger' = [ledger EXCEPT ![w] = Append(@, m)]
      /\ txs' = [txs EXCEPT ![a] = r]
      /\ outbox' = outbox \cup Events(a, r, m)
    BY <1>1, <1>2 DEF Publish
<1> HIDE DEF m
<1> QED BY <1>1, <1>3, SameWords DEF Atomic!Settle, m

(* What a call has decided is what its command does, all at once.          *)
LEMMA FilingExecutes ==
    ASSUME Standing, Booking, NEW a \in Attempts, PlanOK(a), pc[a] = "commit",
           row[a] # None, Publish(a)
    PROVE  Atomic!Execute(a, cmd[a])
<1> DEFINE c == cmd[a]
<1>1. /\ c \in Commands /\ row[a].cmd = c /\ a \notin Committed /\ c.wallet \in Wallets
      /\ ValidCommand(c) /\ Decided(a) /\ HoldsKeyShare(a)
    <2>1. HoldsKeyShare(a)
        BY DEF HoldsKeyShare
    <2>2. c \in Commands /\ row[a].cmd = c /\ a \notin Committed
        BY DEF Standing, Sessions, SessionOK, KeysAreUnique
    <2> QED BY <2>1, <2>2 DEF PlanOK
<1>2. Atomic!Fresh(a, c)
    <2>1. \A t \in Attempts : txs[t] # None => ~ Collide(txs[t].cmd, c)
        BY DEF Standing, KeysAreUnique, Committed
    <2> QED BY <1>1, <2>1, SameWords, SameReads DEF Atomic!Fresh, Committed
<1>3. ASSUME NEW d, NEW t, Settling(a, d, t), c.kind # "LOSS"
      PROVE  Atomic!Settle(a, c, d, t)
    <2> DEFINE q == AttachResolvedReference(NewRow(c), t)
    <2>1. row[a] = MarkProcessed(q, move[a].after)
        BY <1>3 DEF Settling
    <2>2. row[a].status = "PROCESSED"
        BY <2>1 DEF MarkProcessed, AttachResolvedReference, NewRow
    <2>3. move[a] # None
        BY <1>3, <2>2 DEF Booking, BookOK
    <2> QED BY <1>3, <2>3, FiledWithMoveIsSettled
<1>4. ASSUME NEW r, Recording(a, r) PROVE Atomic!Record(a, r)
    BY <1>4, FiledAloneIsRecorded
<1>5. CASE BetOK(a)
    <2>1. Atomic!Bet(a, c)
        <3>1. CASE Settling(a, "DEBIT", None)
            <4>1. Affords(a, "DEBIT") /\ c.kind = "BET"
                BY <1>5, <3>1 DEF BetOK, Settling, Moving
            <4>2. Atomic!Settle(a, c, "DEBIT", None)
                BY <1>3, <3>1, <4>1
            <4> QED BY <4>1, <4>2, SameWords DEF Atomic!Bet, Affords
        <3>2. CASE ~ Settling(a, "DEBIT", None)
            <4>1. /\ ~ Affords(a, "DEBIT") /\ c.kind = "BET" /\ c.currency = Currency[c.wallet]
                  /\ Recording(a, MarkRejected(NewRow(c), "INSUFFICIENT_FUNDS"))
                BY <1>5, <3>2 DEF BetOK
            <4>2. Atomic!Record(a, MarkRejected(NewRow(c), "INSUFFICIENT_FUNDS"))
                BY <1>4, <4>1
            <4> QED BY <4>1, <4>2, SameWords DEF Atomic!Bet, Affords
        <3> QED BY <3>1, <3>2
    <2> QED BY <1>2, <2>1 DEF Atomic!Execute
<1>6. CASE WinOK(a)
    <2>1. Atomic!Win(a, c)
        <3>1. c.kind = "WIN" /\ c.kind # "LOSS"
            BY <1>6 DEF WinOK
        <3>2. CASE \E t \in Named(c) \cup Itself(a) : c.ref # None /\ Settling(a, "CREDIT", t)
            BY <1>3, <3>1, <3>2, SameReads DEF Atomic!Win
        <3>3. CASE (c.ref = None \/ NoneMoved(a)) /\ Settling(a, "CREDIT", None)
            <4>1. \A t \in Atomic!Named(c) : c.ref = None \/ ~ Atomic!HasMoved(t, c.wallet)
                BY <3>3, SameReads DEF NoneMoved
            <4>2. Atomic!Settle(a, c, "CREDIT", None)
                BY <1>3, <3>1, <3>3
            <4> QED BY <3>1, <4>1, <4>2 DEF Atomic!Win
        <3> QED BY <1>6, <3>2, <3>3 DEF WinOK
    <2> QED BY <1>2, <2>1 DEF Atomic!Execute
<1>7. CASE LossOK(a)
    <2>1. Atomic!Loss(a, c)
        BY <1>4, <1>7, SameWords DEF LossOK, Atomic!Loss
    <2> QED BY <1>2, <2>1 DEF Atomic!Execute
<1>8. CASE ReverseOK(a)
    <2>1. PICK t \in Named(c) :
            LET direction == ReversalDirection(txs[t].cmd.kind) IN
            /\ ReferenceFault(c, txs[t]) = None
            /\ \/ ~ NotUndone(t) /\ Recording(a, MarkRejected(NewRow(c), "DUPLICATE_REVERSAL"))
               \/ NotUndone(t) /\ Settling(a, direction, t)
               \/ /\ NotUndone(t) /\ ~ Affords(a, direction)
                  /\ Recording(a, MarkRejected(NewRow(c), "REVERSAL_EXCEEDS_BALANCE"))
        BY <1>8 DEF ReverseOK
    <2>2. c.kind \in Reversals /\ c.kind # "LOSS"
        BY <1>8 DEF ReverseOK, Reversals
    <2> DEFINE direction == ReversalDirection(txs[t].cmd.kind)
    <2>3. IF Atomic!Reversed(t)
          THEN Atomic!Record(a, MarkRejected(NewRow(c), "DUPLICATE_REVERSAL"))
          ELSE IF Covered(direction, c.amount, wallets[c.wallet])
          THEN Atomic!Settle(a, c, direction, t)
          ELSE Atomic!Record(a, MarkRejected(NewRow(c), "REVERSAL_EXCEEDS_BALANCE"))
        <3>1. CASE ~ NotUndone(t)
            BY <1>4, <2>1, <3>1, SameReads
        <3>2. CASE NotUndone(t) /\ Settling(a, direction, t)
            <4>1. Covered(direction, c.amount, wallets[c.wallet])
                BY <3>2 DEF Settling, Moving, Affords
            <4> QED BY <1>3, <2>2, <3>2, <4>1, SameReads
        <3>3. CASE NotUndone(t) /\ ~ Settling(a, direction, t)
            BY <1>4, <2>1, <3>3, SameReads DEF Affords
        <3> QED BY <3>1, <3>2, <3>3
    <2>4. Atomic!Reverse(a, c)
        BY <2>1, <2>2, <2>3, SameReads, SameWords DEF Atomic!Reverse
    <2> QED BY <1>2, <2>4 DEF Atomic!Execute
<1>9. CASE MismatchOK(a)
    <2>1. PICK t \in Named(c) \cup Itself(a) :
            LET fault == ReferenceFault(c, IF t = a THEN NewRow(c) ELSE txs[t]) IN
            fault # None /\ Recording(a, MarkRejected(NewRow(c), fault))
        BY <1>9 DEF MismatchOK
    <2>2. Atomic!Record(a, MarkRejected(NewRow(c),
                               ReferenceFault(c, IF t = a THEN NewRow(c) ELSE txs[t])))
        BY <2>1, <1>4
    <2>3. Atomic!Mismatch(a, c)
        BY <1>9, <2>1, <2>2, SameReads, SameWords DEF Atomic!Mismatch, MismatchOK
    <2> QED BY <1>2, <2>3 DEF Atomic!Execute
<1>10. CASE ParkOK(a)
    <2>1. \A t \in Atomic!Named(c) : ~ Atomic!HasMoved(t, c.wallet)
        BY <1>10, SameReads DEF ParkOK, NoneMoved
    <2>2. Atomic!Park(a, c)
        BY <1>4, <1>10, <2>1, SameWords DEF ParkOK, Atomic!Park
    <2> QED BY <1>2, <2>2 DEF Atomic!Execute
<1> QED BY <1>1, <1>5, <1>6, <1>7, <1>8, <1>9, <1>10 DEF Decided

(* Every step executes a command or leaves the tables alone.               *)
LEMMA StepIsAtomic ==
    Standing /\ Booking /\ Planning /\ [Next]_vars => [Atomic!Next]_(Atomic!vars)
<1> SUFFICES ASSUME Standing, Booking, Planning, [Next]_vars
             PROVE  Atomic!Next \/ UNCHANGED <<wallets, txs, ledger, outbox>>
    BY DEF Atomic!vars
<1>1. CASE UNCHANGED vars
    BY <1>1 DEF vars
<1>2. ASSUME NEW a \in Attempts, Commit(a) \/ CommitUnacknowledged(a)
      PROVE  Atomic!Next \/ UNCHANGED <<wallets, txs, ledger, outbox>>
    <2>1. pc[a] = "commit" /\ Publish(a)
        BY <1>2 DEF Commit, CommitUnacknowledged
    <2>2. CASE row[a] = None
        <3>1. move[a] = None
            BY <2>2 DEF Standing, Sessions, SessionOK
        <3> QED BY <2>1, <2>2, <3>1 DEF Publish
    <2>3. CASE row[a] # None
        <3>1. Atomic!Execute(a, cmd[a]) /\ cmd[a] \in Commands
            BY <2>1, <2>3, FilingExecutes DEF Planning, Standing, Sessions, SessionOK
        <3>2. txs' # txs
            <4>1. txs[a] = None
                BY <2>1 DEF Standing, KeysAreUnique, Committed
            <4>2. txs'[a] = row[a]
                BY <2>1, <2>3 DEF Publish, Standing, Sessions, TypeOK
            <4> QED BY <2>3, <4>1, <4>2
        <3> QED BY <3>1, <3>2 DEF Atomic!Next
    <2> QED BY <2>2, <2>3
<1>3. ASSUME NEW a \in Attempts, NEW e, Abort(a, e) PROVE UNCHANGED tables
    BY <1>3 DEF Abort
<1>4. ASSUME NEW a \in Attempts, (\E c \in Commands : Submit(a, c)) \/ Step(a), ~ Commit(a)
      PROVE  UNCHANGED tables
    BY <1>3, <1>4
    DEF Step, Submit, FindInbox, ReplayByKey, InsertInbox, FindExternal, FindKey, Create,
        ShareWallet, ReadWallet, FindReference, CountRefunds, CountRollbacks, Count, LockWallet,
        AttachReference, SaveWallet, Reads
<1>5. ASSUME NEW a \in Attempts, LoseConnection(a) \/ AbortDeadlock(a) PROVE UNCHANGED tables
    BY <1>3, <1>5 DEF LoseConnection, AbortDeadlock
<1> QED BY <1>1, <1>2, <1>4, <1>5 DEF Next, tables

(* Whatever its interleavings, aborts and lost answers, Execute behaves to *)
(* the tables as commands that each take effect in one atomic step.        *)
THEOREM ExecuteIsAtomic == Spec => AtomicSpec
<1>1. Init => Atomic!Init
    BY SameWords DEF Init, Atomic!Init
<1> QED BY <1>1, PlanningInit, StepKeepsPlanning, StepIsAtomic, StandingInit,
           StepKeepsStanding, PTL DEF Spec, AtomicSpec, Atomic!Spec
=============================================================================
