----------------------- MODULE PendingReferencesProofs ----------------------
(***************************************************************************)
(* Resolvers pay a parked reversal at most once, announce what they move,  *)
(* keep ledger and balances in agreement and give nothing up too early,    *)
(* for any number of resolvers, rows, wallets and lost connections.        *)
(***************************************************************************)
EXTENDS PendingReferencesProps, FiniteSetTheorems, SequenceTheorems, TLAPS

(* Rows name opened wallets, and a parked one has not failed.              *)
RowsOK ==
    \A t \in Attempts : txs[t] # None =>
        /\ txs[t].cmd.wallet \in Wallets
        /\ Parked(t) => txs[t].failure = None

(* Every entry but the opening's belongs to a row of the wallet, and to no *)
(* other entry; it is announced, and nothing else is.                      *)
Announced(t) == [tx |-> t, type |-> "BalanceChanged"] \in outbox
BooksOK ==
    /\ BalanceMatchesLedger
    /\ \A w \in Wallets : \A i \in DOMAIN ledger[w] :
          LET t == ledger[w][i].tx IN
          t # None => /\ txs[t] # None /\ txs[t].cmd.wallet = w
                      /\ Announced(t)
    /\ \A w \in Wallets : \A i, j \in DOMAIN ledger[w] :
          ledger[w][i].tx # None /\ ledger[w][i].tx = ledger[w][j].tx => i = j
    /\ \A t \in Attempts : Announced(t) => \E w \in Wallets : EntryTaken(w, t)

(* What a resolver carries from statement to statement.  Its copy of a row *)
(* may be stale; its movement may not, and its age is the row's.           *)
Counting == {"countRefunds", "countRollbacks", "lock"}
Paying(r, w) ==
    /\ at[r] \in {"save", "commit"}
    /\ holder[w] = r
    /\ draft[r].status = "PROCESSED"
    /\ payback[r].tx = Current(r)
    /\ payback[r].before = wallets[w].balance
    /\ payback[r].version = wallets[w].version + 1
    /\ at[r] = "commit" => ~ EntryTaken(w, Current(r))
ResolverOK(r) ==
    /\ at[r] # "idle" => todo[r] # << >>
    /\ \A i \in DOMAIN todo[r] :
          LET t == todo[r][i].tx IN
          txs[t] # None /\ (todo[r][i].expired /\ Parked(t) => t \in old)
    /\ at[r] \in Counting => found[r] # None /\ txs[found[r]] # None
    /\ at[r] \in {"save", "commit"} =>
          /\ draft[r] # None
          /\ draft[r].cmd = txs[Current(r)].cmd
          /\ draft[r].status # "PENDING"
          /\ draft[r].failure = "REFERENCE_NOT_FOUND" => Head(todo[r]).expired
    /\ payback[r] # None => Paying(r, txs[Current(r)].cmd.wallet)

Resolving == TypeOK /\ RowsOK /\ BooksOK /\ \A r \in Resolvers : ResolverOK(r)

-----------------------------------------------------------------------------
(* The rows that calls and resolvers write.                                *)
LEMMA WrittenRows ==
    ASSUME NEW c \in Commands
    PROVE  /\ NewRow(c) \in Rows /\ NewRow(c).cmd = c
           /\ MarkPendingReference(NewRow(c)) \in Rows
           /\ MarkPendingReference(NewRow(c)).cmd = c
           /\ MarkPendingReference(NewRow(c)).status = "PENDING_REFERENCE"
           /\ MarkPendingReference(NewRow(c)).failure = None
           /\ \A row \in {NewRow(c), MarkPendingReference(NewRow(c))} :
                /\ \A code \in Failures :
                     /\ MarkRejected(row, code) \in Rows
                     /\ MarkRejected(row, code).cmd = c
                     /\ MarkRejected(row, code).status = "REJECTED"
                     /\ MarkRejected(row, code).failure = code
                /\ \A t \in Attempts \cup {None}, n \in Nat :
                     /\ MarkProcessed(AttachResolvedReference(row, t), n) \in Rows
                     /\ MarkProcessed(AttachResolvedReference(row, t), n).cmd = c
                     /\ MarkProcessed(AttachResolvedReference(row, t), n).status = "PROCESSED"
                     /\ MarkProcessed(AttachResolvedReference(row, t), n).failure = None
                /\ \A n \in Nat :
                     /\ MarkProcessed(row, n) \in Rows
                     /\ MarkProcessed(row, n).cmd = c
                     /\ MarkProcessed(row, n).status = "PROCESSED"
                     /\ MarkProcessed(row, n).failure = None
<1>1. NewRow(c) \in Rows /\ NewRow(c).cmd = c /\ NewRow(c).failure = None
  BY DEF NewRow, Rows, Statuses
<1>2. /\ MarkPendingReference(NewRow(c)) \in Rows
      /\ MarkPendingReference(NewRow(c)).cmd = c
      /\ MarkPendingReference(NewRow(c)).status = "PENDING_REFERENCE"
      /\ MarkPendingReference(NewRow(c)).failure = None
  BY DEF NewRow, Rows, Statuses, MarkPendingReference
<1>3. ASSUME NEW row \in Rows, row.cmd = c, row.failure = None
      PROVE  /\ \A code \in Failures :
                  /\ MarkRejected(row, code) \in Rows
                  /\ MarkRejected(row, code).cmd = c
                  /\ MarkRejected(row, code).status = "REJECTED"
                  /\ MarkRejected(row, code).failure = code
             /\ \A t \in Attempts \cup {None}, n \in Nat :
                  /\ MarkProcessed(AttachResolvedReference(row, t), n) \in Rows
                  /\ MarkProcessed(AttachResolvedReference(row, t), n).cmd = c
                  /\ MarkProcessed(AttachResolvedReference(row, t), n).status = "PROCESSED"
                  /\ MarkProcessed(AttachResolvedReference(row, t), n).failure = None
             /\ \A n \in Nat :
                  /\ MarkProcessed(row, n) \in Rows
                  /\ MarkProcessed(row, n).cmd = c
                  /\ MarkProcessed(row, n).status = "PROCESSED"
                  /\ MarkProcessed(row, n).failure = None
  BY <1>3 DEF Rows, Statuses, MarkProcessed, MarkRejected, AttachResolvedReference
<1> QED
  BY <1>1, <1>2, <1>3

(* A movement that the wallet covers.                                      *)
LEMMA CoveredMove ==
    ASSUME NEW t \in Attempts, NEW d \in Directions, NEW n \in Nat, NEW w \in WalletStates,
           Covered(d, n, w)
    PROVE  LET m == Move(t, d, n, w) IN
           /\ m \in Movements /\ m.tx = t
           /\ m.before = w.balance /\ m.version = w.version + 1 /\ m.after \in Nat
BY DEF Covered, Directions, Move, Movements, WalletStates

(* What is in a sequence, and an entry of a ledger: it is a row's, or none's*)
LEMMA Element ==
    ASSUME NEW S, NEW q \in Seq(S), NEW i \in DOMAIN q
    PROVE  q[i] \in S
OBVIOUS

(* A listed batch is a sequence.                                           *)
LEMMA FunctionIsSeq ==
    ASSUME NEW S, NEW n \in Nat, NEW f \in [1 .. n -> S]
    PROVE  f \in Seq(S)
<1>1. Seq(S) = UNION {[1 .. k -> S] : k \in Nat}
  BY SeqDef
<1> QED
  BY <1>1

(* An entry of a ledger is a row's, or none's.                             *)
LEMMA EntryTyped ==
    ASSUME NEW es \in Seq(Movements), NEW i \in DOMAIN es
    PROVE  es[i] \in Movements /\ es[i].tx \in Attempts \cup {None}
<1>1. es[i] \in Movements
  BY Element
<1> QED
  BY <1>1 DEF Movements

(* A chain that ends in a wallet's balance goes on from it.                *)
LEMMA ChainGoesOn ==
    ASSUME NEW es \in Seq(Movements), NEW w \in WalletStates, Explains(es, w),
           NEW m \in Movements, m.before = w.balance, m.version = w.version + 1
    PROVE  Explains(Append(es, m), [balance |-> m.after, version |-> m.version])
<1>1. Len(es) \in Nat
  OBVIOUS
<1>2. /\ Len(Append(es, m)) = Len(es) + 1
      /\ Append(es, m)[Len(es) + 1] = m
      /\ \A i \in 1 .. Len(es) : Append(es, m)[i] = es[i]
      /\ Append(es, m) # << >>
  OBVIOUS
<1>3. ASSUME es # << >>
      PROVE  m.before = es[Len(es)].after /\ m.version = es[Len(es)].version + 1
  <2>1. w = [balance |-> es[Len(es)].after, version |-> es[Len(es)].version]
    BY <1>3 DEF Explains
  <2> QED
    BY <2>1
<1>4. Consecutive(Append(es, m))
  <2> SUFFICES ASSUME NEW i \in 1 .. Len(es)
               PROVE  /\ Append(es, m)[i + 1].before = Append(es, m)[i].after
                      /\ Append(es, m)[i + 1].version = Append(es, m)[i].version + 1
    BY <1>1, <1>2 DEF Consecutive
  <2>1. CASE i = Len(es)
    <3>1. es # << >>
      BY <1>1, <2>1
    <3> QED
      BY <1>1, <1>2, <1>3, <2>1, <3>1
  <2>2. CASE i # Len(es)
    <3>1. i \in 1 .. Len(es) - 1 /\ i + 1 \in 1 .. Len(es)
      BY <1>1, <2>2
    <3> QED
      BY <1>2, <3>1 DEF Explains, Consecutive
  <2> QED
    BY <2>1, <2>2
<1> QED
  BY <1>1, <1>2, <1>4 DEF Explains

-----------------------------------------------------------------------------
(* Rows stay, with what they were asked.                                   *)
RowsStay == \A t \in Attempts : txs[t] # None => txs'[t] # None /\ txs'[t].cmd = txs[t].cmd

(* A step that writes no entry announces no movement.                      *)
LEMMA BooksStay ==
    ASSUME Resolving, RowsStay, wallets' = wallets, ledger' = ledger,
           outbox \subseteq outbox', \A t \in Attempts : Announced(t)' => Announced(t)
    PROVE  BooksOK'
<1>1. BooksOK /\ ledger \in [Wallets -> Seq(Movements)]
  BY DEF Resolving, TypeOK
<1>2. \A w \in Wallets : \A i \in DOMAIN ledger[w] : ledger[w][i].tx \in Attempts \cup {None}
  BY <1>1, EntryTyped
<1>3. BalanceMatchesLedger'
  BY <1>1 DEF BooksOK, BalanceMatchesLedger
<1>4. \A t \in Attempts, w \in Wallets : EntryTaken(w, t)' <=> EntryTaken(w, t)
  BY DEF EntryTaken
<1>5. \A t \in Attempts : Announced(t) => Announced(t)'
  BY DEF Announced
<1>6. ASSUME NEW w \in Wallets, NEW i \in DOMAIN ledger[w], NEW t, t = ledger[w][i].tx, t # None
      PROVE  txs'[t] # None /\ txs'[t].cmd.wallet = w /\ Announced(t)'
  BY <1>1, <1>2, <1>5, <1>6 DEF BooksOK, RowsStay
<1> QED
  BY <1>1, <1>3, <1>4, <1>6 DEF BooksOK

(* A movement of a row without one, from the wallet as it is.              *)
Books(t, w, m) ==
    /\ m.tx = t /\ m.before = wallets[w].balance /\ m.version = wallets[w].version + 1
    /\ ~ EntryTaken(w, t)
    /\ wallets' = [wallets EXCEPT ![w] = [balance |-> m.after, version |-> m.version]]
    /\ ledger' = [ledger EXCEPT ![w] = Append(@, m)]
    /\ txs'[t] # None /\ txs'[t].cmd.wallet = w
    /\ outbox \subseteq outbox' /\ Announced(t)'
    /\ \A s \in Attempts \ {t} : Announced(s)' => Announced(s)

(* A movement that is booked once keeps the books in order.                *)
LEMMA BooksGrow ==
    ASSUME Resolving, RowsStay, NEW t \in Attempts, NEW w \in Wallets, NEW m \in Movements,
           Books(t, w, m)
    PROVE  BooksOK'
<1>1. /\ BooksOK /\ ledger \in [Wallets -> Seq(Movements)]
      /\ wallets \in [Wallets -> WalletStates]
  BY DEF Resolving, TypeOK
<1> DEFINE es == ledger[w]
           n == Len(es) + 1
<1>2. es \in Seq(Movements) /\ Len(es) \in Nat
  BY <1>1
<1>3. /\ \A v \in Wallets \ {w} : ledger'[v] = ledger[v] /\ wallets'[v] = wallets[v]
      /\ ledger'[w] = Append(es, m)
      /\ wallets'[w] = [balance |-> m.after, version |-> m.version]
  BY <1>1 DEF Books
<1>4. /\ DOMAIN ledger'[w] = DOMAIN es \cup {n} /\ n \notin DOMAIN es
      /\ ledger'[w][n] = m
      /\ \A i \in DOMAIN es : ledger'[w][i] = es[i]
  BY <1>2, <1>3
<1>5. BalanceMatchesLedger'
  <2>1. Explains(ledger'[w], wallets'[w])
    BY <1>1, <1>2, <1>3, ChainGoesOn DEF Books, BooksOK, BalanceMatchesLedger
  <2> QED
    BY <1>1, <1>3, <2>1 DEF BooksOK, BalanceMatchesLedger
<1>6. \A i \in DOMAIN es : es[i].tx # t
  BY DEF Books, EntryTaken
<1> HIDE DEF es, n
<1>7. \A v \in Wallets : \A i \in DOMAIN ledger'[v] :
         \/ i \in DOMAIN ledger[v] /\ ledger'[v][i] = ledger[v][i]
         \/ v = w /\ i = n /\ ledger'[v][i] = m
  BY <1>3, <1>4 DEF es
<1>8. \A v \in Wallets : \A i \in DOMAIN ledger[v] :
         /\ ledger[v][i].tx \in Attempts \cup {None}
         /\ i \in DOMAIN ledger'[v] /\ ledger'[v][i] = ledger[v][i]
  <2>1. \A v \in Wallets : \A i \in DOMAIN ledger[v] : ledger[v][i].tx \in Attempts \cup {None}
    BY <1>1, EntryTyped
  <2>2. \A v \in Wallets : \A i \in DOMAIN ledger[v] :
           i \in DOMAIN ledger'[v] /\ ledger'[v][i] = ledger[v][i]
    <3>1. ASSUME NEW i \in DOMAIN ledger[w]
          PROVE  i \in DOMAIN ledger'[w] /\ ledger'[w][i] = ledger[w][i]
      BY <1>4 DEF es
    <3>2. ASSUME NEW v \in Wallets \ {w} PROVE ledger'[v] = ledger[v]
      BY <1>3
    <3> QED
      BY <3>1, <3>2
  <2> QED
    BY <2>1, <2>2
<1>9. \A s \in Attempts : Announced(s) => Announced(s)'
  BY DEF Announced, Books
<1>10. ASSUME NEW v \in Wallets, NEW i \in DOMAIN ledger'[v], NEW s, s = ledger'[v][i].tx,
              s # None
       PROVE  txs'[s] # None /\ txs'[s].cmd.wallet = v /\ Announced(s)'
  <2>1. CASE i \in DOMAIN ledger[v] /\ ledger'[v][i] = ledger[v][i]
    <3>1. s = ledger[v][i].tx /\ s \in Attempts
      BY <1>8, <1>10, <2>1
    <3>2. txs[s] # None /\ txs[s].cmd.wallet = v /\ Announced(s)
      BY <1>1, <1>10, <2>1, <3>1 DEF BooksOK
    <3> QED
      BY <1>9, <3>1, <3>2 DEF RowsStay
  <2>2. CASE v = w /\ i = n /\ ledger'[v][i] = m
    BY <1>10, <2>2 DEF Books
  <2> QED
    BY <1>7, <2>1, <2>2
<1>11. ASSUME NEW v \in Wallets, NEW i \in DOMAIN ledger'[v], NEW j \in DOMAIN ledger'[v],
              ledger'[v][i].tx # None, ledger'[v][i].tx = ledger'[v][j].tx
       PROVE  i = j
  <2>1. CASE v # w
    BY <1>1, <1>3, <1>11, <2>1 DEF BooksOK
  <2>2. CASE v = w
    BY <1>1, <1>4, <1>6, <1>11, <2>2 DEF BooksOK, Books, es
  <2> QED
    BY <2>1, <2>2
<1>12. ASSUME NEW s \in Attempts, Announced(s)' PROVE \E v \in Wallets : EntryTaken(v, s)'
  <2>1. CASE s = t
    <3>1. n \in DOMAIN ledger'[w] /\ ledger'[w][n].tx = t
      BY <1>4 DEF Books
    <3> QED
      BY <2>1, <3>1 DEF EntryTaken
  <2>2. CASE s # t
    <3>1. PICK v \in Wallets : EntryTaken(v, s)
      BY <1>1, <1>12, <2>2 DEF BooksOK, Books
    <3> QED
      BY <1>8, <3>1 DEF EntryTaken
  <2> QED
    BY <2>1, <2>2
<1> QED
  BY <1>5, <1>10, <1>11, <1>12 DEF BooksOK

-----------------------------------------------------------------------------
(* The events of a decided row; a movement is announced with it.           *)
LEMMA EventsAre ==
    ASSUME NEW t \in Attempts, NEW r, r.status \in Statuses \ {"PENDING"}, NEW m
    PROVE  /\ Events(t, r, m) \subseteq [tx : Attempts, type : EventTypes]
           /\ \A s \in Attempts :
                 [tx |-> s, type |-> "BalanceChanged"] \in Events(t, r, m) <=> s = t /\ m # None
<1> DEFINE type == CASE r.status = "PROCESSED"         -> "Processed"
                     [] r.status = "REJECTED"          -> "Rejected"
                     [] r.status = "PENDING_REFERENCE" -> "PendingReference"
<1>1. type \in {"Processed", "Rejected", "PendingReference"}
  BY DEF Statuses
<1>2. Events(t, r, m) = {[tx |-> t, type |-> type]}
                          \cup (IF m = None THEN {} ELSE {[tx |-> t, type |-> "BalanceChanged"]})
  BY DEF Events
<1> HIDE DEF type
<1>3. [tx |-> t, type |-> type].type = type
  OBVIOUS
<1>4. \A s : [tx |-> s, type |-> "BalanceChanged"] # [tx |-> t, type |-> type]
  BY <1>1
<1>5. \A s : [tx |-> s, type |-> "BalanceChanged"] = [tx |-> t, type |-> "BalanceChanged"] => s = t
  OBVIOUS
<1>6. Events(t, r, m) \subseteq [tx : Attempts, type : EventTypes]
  BY <1>1, <1>2 DEF EventTypes
<1> QED
  BY <1>2, <1>4, <1>5, <1>6

(* A fault is a code that a row can be rejected with, none of them for age.*)
LEMMA FaultIsFailure ==
    ASSUME NEW c, NEW r, ReferenceFault(c, r) # None
    PROVE  /\ ReferenceFault(c, r) \in Failures
           /\ ReferenceFault(c, r) # "REFERENCE_NOT_FOUND"
BY DEF ReferenceFault, Failures

(* AtomicWagers speaks of rows, movements and events as resolvers do.      *)
LEMMA SameWords ==
    /\ \A d, n, w : Calls!Covered(d, n, w) = Covered(d, n, w)
    /\ \A t, d, n, w : Calls!Move(t, d, n, w) = Move(t, d, n, w)
    /\ \A c : Calls!NewRow(c) = NewRow(c)
    /\ \A r : Calls!MarkPendingReference(r) = MarkPendingReference(r)
    /\ \A r, n : Calls!MarkProcessed(r, n) = MarkProcessed(r, n)
    /\ \A r, code : Calls!MarkRejected(r, code) = MarkRejected(r, code)
    /\ \A r, t : Calls!AttachResolvedReference(r, t) = AttachResolvedReference(r, t)
    /\ \A kind : Calls!ReversalDirection(kind) = ReversalDirection(kind)
    /\ \A c, r : Calls!ReferenceFault(c, r) = ReferenceFault(c, r)
    /\ \A t, r, m : Calls!Events(t, r, m) = Events(t, r, m)
    /\ \A w : Calls!OpenedWallet(w) = OpenedWallet(w)
    /\ \A w : Calls!OpenedLedger(w) = OpenedLedger(w)
BY DEF Calls!Covered, Covered, Calls!Move, Move, Calls!NewRow, NewRow,
       Calls!MarkPendingReference, MarkPendingReference, Calls!MarkProcessed, MarkProcessed,
       Calls!MarkRejected, MarkRejected, Calls!AttachResolvedReference, AttachResolvedReference,
       Calls!ReversalDirection, ReversalDirection, Calls!ReferenceFault, ReferenceFault,
       Calls!Reversible, Reversible, Calls!Events, Events,
       Calls!OpenedWallet, OpenedWallet, Calls!OpenedLedger, OpenedLedger

(* What a call comes to: a row that moves nothing, or a movement.          *)
Records(id, c, r) ==
    /\ r \in Rows /\ r.cmd = c /\ r.status # "PENDING"
    /\ r.status = "PENDING_REFERENCE" => r.failure = None
    /\ Calls!Record(id, r)
Settles(id, c, d, t) ==
    d \in Directions /\ t \in Attempts \cup {None}
    /\ Covered(d, c.amount, wallets[c.wallet]) /\ Calls!Settle(id, c, d, t)

(* Every call records a row or settles a movement.                         *)
LEMMA CallIs ==
    ASSUME Resolving, NEW id \in Attempts, NEW c \in Commands, Calls!Execute(id, c)
    PROVE  \/ \E r : Records(id, c, r)
           \/ \E d, t : Settles(id, c, d, t)
<1> DEFINE Goal == \/ \E r : Records(id, c, r)
                   \/ \E d, t : Settles(id, c, d, t)
<1>1. /\ c.wallet \in Wallets /\ wallets[c.wallet] \in WalletStates
      /\ wallets[c.wallet].balance \in Nat
  BY DEF Resolving, TypeOK, Calls!Execute, Calls!Fresh, WalletStates
<1>2. ASSUME NEW code \in Failures, Calls!Record(id, MarkRejected(NewRow(c), code)) PROVE Goal
  <2>1. Records(id, c, MarkRejected(NewRow(c), code))
    BY <1>2, WrittenRows DEF Records
  <2> QED
    BY <2>1
<1>3. Calls!Named(c) \subseteq Attempts /\ Calls!Itself(id, c) \subseteq {id}
  BY DEF Calls!Named, Calls!Itself
<1>4. {"INSUFFICIENT_FUNDS", "DUPLICATE_REVERSAL", "REVERSAL_EXCEEDS_BALANCE"} \subseteq Failures
  BY DEF Failures
<1>5. CASE Calls!Bet(id, c)
  <2>1. CASE Covered("DEBIT", c.amount, wallets[c.wallet])
    <3>1. Settles(id, c, "DEBIT", None)
      BY <1>5, <2>1, SameWords DEF Calls!Bet, Settles, Directions
    <3> QED
      BY <3>1
  <2>2. CASE ~ Covered("DEBIT", c.amount, wallets[c.wallet])
    <3>1. Calls!Record(id, MarkRejected(NewRow(c), "INSUFFICIENT_FUNDS"))
      BY <1>5, <2>2, SameWords DEF Calls!Bet
    <3> QED
      BY <1>2, <1>4, <3>1
  <2> QED
    BY <2>1, <2>2
<1>6. CASE Calls!Win(id, c)
  <2>1. PICK t \in Attempts \cup {None} : Calls!Settle(id, c, "CREDIT", t)
    BY <1>3, <1>6, SameWords DEF Calls!Win
  <2> QED
    <3>1. Settles(id, c, "CREDIT", t)
      BY <2>1 DEF Settles, Directions, Covered
    <3> QED
      BY <3>1
<1>7. CASE Calls!Loss(id, c)
  <2>1. Calls!Record(id, MarkProcessed(NewRow(c), wallets[c.wallet].balance))
    BY <1>7, SameWords DEF Calls!Loss
  <2> QED
    <3>1. Records(id, c, MarkProcessed(NewRow(c), wallets[c.wallet].balance))
      BY <1>1, <2>1, WrittenRows DEF Records
    <3> QED
      BY <3>1
<1>8. CASE Calls!Reverse(id, c)
  <2>1. PICK t \in Calls!Named(c) :
           LET direction == ReversalDirection(txs[t].cmd.kind) IN
           IF Calls!Reversed(t)
           THEN Calls!Record(id, MarkRejected(NewRow(c), "DUPLICATE_REVERSAL"))
           ELSE IF Covered(direction, c.amount, wallets[c.wallet])
           THEN Calls!Settle(id, c, direction, t)
           ELSE Calls!Record(id, MarkRejected(NewRow(c), "REVERSAL_EXCEEDS_BALANCE"))
    BY <1>8, SameWords DEF Calls!Reverse
  <2> DEFINE d == ReversalDirection(txs[t].cmd.kind)
  <2>2. d \in Directions
    BY DEF ReversalDirection, Directions
  <2> HIDE DEF d
  <2>3. CASE Calls!Settle(id, c, d, t) /\ Covered(d, c.amount, wallets[c.wallet])
    <3>1. Settles(id, c, d, t)
      BY <1>3, <2>2, <2>3 DEF Settles
    <3> QED
      BY <3>1
  <2>4. \/ Calls!Record(id, MarkRejected(NewRow(c), "DUPLICATE_REVERSAL"))
        \/ Calls!Record(id, MarkRejected(NewRow(c), "REVERSAL_EXCEEDS_BALANCE"))
        \/ Calls!Settle(id, c, d, t) /\ Covered(d, c.amount, wallets[c.wallet])
    BY <2>1 DEF d
  <2> QED
    BY <1>2, <1>4, <2>3, <2>4
<1>9. CASE Calls!Mismatch(id, c)
  <2>1. PICK t \in Calls!Named(c) \cup Calls!Itself(id, c) :
           LET named == IF t = id THEN NewRow(c) ELSE txs[t]
               fault == ReferenceFault(c, named)
           IN  fault # None /\ Calls!Record(id, MarkRejected(NewRow(c), fault))
    BY <1>9, SameWords DEF Calls!Mismatch
  <2> DEFINE fault == ReferenceFault(c, IF t = id THEN NewRow(c) ELSE txs[t])
  <2>2. fault # None /\ Calls!Record(id, MarkRejected(NewRow(c), fault))
    BY <2>1
  <2>3. fault \in Failures
    BY <2>2, FaultIsFailure
  <2> HIDE DEF fault
  <2> QED
    BY <1>2, <2>2, <2>3
<1>10. CASE Calls!Park(id, c)
  <2>1. Calls!Record(id, MarkPendingReference(NewRow(c)))
    BY <1>10, SameWords DEF Calls!Park
  <2> QED
    <3>1. Records(id, c, MarkPendingReference(NewRow(c)))
      BY <2>1, WrittenRows DEF Records
    <3> QED
      BY <3>1
<1> QED
  BY <1>5, <1>6, <1>7, <1>8, <1>9, <1>10 DEF Calls!Execute

-----------------------------------------------------------------------------
(* What the others do leaves a resolver's session as good as it was.       *)
SameSession(s) ==
    /\ at'[s] = at[s] /\ todo'[s] = todo[s] /\ found'[s] = found[s]
    /\ draft'[s] = draft[s] /\ payback'[s] = payback[s]
AgesStay ==
    \A t \in Attempts : txs[t] # None /\ Parked(t)' => Parked(t) /\ (t \in old => t \in old')
KeepsWallets(s) ==
    \A w \in Wallets : holder[w] = s =>
        holder'[w] = s /\ wallets'[w] = wallets[w] /\ ledger'[w] = ledger[w]

(* The rows a resolver has listed, and the one it is at.                   *)
LEMMA ListedTyped ==
    ASSUME Resolving, NEW r \in Resolvers
    PROVE  /\ todo[r] \in Seq([tx : Attempts, expired : BOOLEAN])
           /\ \A i \in DOMAIN todo[r] : todo[r][i].tx \in Attempts /\ todo[r][i].expired \in BOOLEAN
           /\ todo[r] # << >> => /\ Current(r) \in Attempts
                                /\ 1 \in DOMAIN todo[r] /\ Head(todo[r]) = todo[r][1]
                                /\ txs[Current(r)] \in Rows
                                /\ txs[Current(r)].cmd \in Commands
                                /\ txs[Current(r)].cmd.wallet \in Wallets
<1>1. todo[r] \in Seq([tx : Attempts, expired : BOOLEAN])
  BY DEF Resolving, TypeOK
<1>2. \A i \in DOMAIN todo[r] : todo[r][i] \in [tx : Attempts, expired : BOOLEAN]
  BY <1>1, Element
<1>3. ASSUME todo[r] # << >>
      PROVE  1 \in DOMAIN todo[r] /\ Head(todo[r]) = todo[r][1]
  BY <1>1, <1>3
<1>4. ASSUME todo[r] # << >>
      PROVE  /\ Current(r) \in Attempts /\ txs[Current(r)] # None
             /\ txs[Current(r)] \in Rows
  BY <1>2, <1>3, <1>4 DEF Current, Resolving, ResolverOK, TypeOK
<1> QED
  BY <1>1, <1>2, <1>3, <1>4 DEF Resolving, RowsOK, Rows

(* A resolver whose wallets, rows and session are left alone stays in order.*)
LEMMA OthersKeep ==
    ASSUME Resolving, RowsStay, AgesStay, NEW s \in Resolvers, SameSession(s), KeepsWallets(s)
    PROVE  ResolverOK(s)'
<1>1. ResolverOK(s)
  BY DEF Resolving
<1>2. (at[s] # "idle" => todo[s] # << >>)'
  BY <1>1 DEF ResolverOK, SameSession
<1>3. ASSUME NEW i \in DOMAIN todo[s], NEW t, t = todo[s][i].tx
      PROVE  txs'[t] # None /\ (todo[s][i].expired /\ Parked(t)' => t \in old')
  BY <1>1, <1>3, ListedTyped DEF ResolverOK, RowsStay, AgesStay
<1>4. (at[s] \in Counting => found[s] # None /\ txs[found[s]] # None)'
  BY <1>1 DEF ResolverOK, SameSession, RowsStay, Resolving, TypeOK
<1>5. ASSUME at[s] \in {"save", "commit"}
      PROVE  /\ todo[s] # << >> /\ Current(s)' = Current(s) /\ Current(s) \in Attempts
             /\ txs'[Current(s)].cmd = txs[Current(s)].cmd
  <2>1. todo[s] # << >>
    BY <1>1, <1>5 DEF ResolverOK
  <2>2. Current(s)' = Current(s)
    BY DEF Current, SameSession
  <2>3. Current(s) \in Attempts /\ txs[Current(s)] # None
    BY <1>1, <2>1, ListedTyped DEF ResolverOK, Current
  <2> QED
    BY <2>1, <2>2, <2>3 DEF RowsStay
<1>6. (at[s] \in {"save", "commit"} =>
          /\ draft[s] # None
          /\ draft[s].cmd = txs[Current(s)].cmd
          /\ draft[s].status # "PENDING"
          /\ draft[s].failure = "REFERENCE_NOT_FOUND" => Head(todo[s]).expired)'
  BY <1>1, <1>5 DEF ResolverOK, SameSession
<1>7. ASSUME payback[s] # None
      PROVE  payback'[s] # None /\ Paying(s, txs[Current(s)].cmd.wallet)'
  <2> DEFINE w == txs[Current(s)].cmd.wallet
  <2>1. Paying(s, w)
    BY <1>1, <1>7 DEF ResolverOK
  <2>2. w \in Wallets /\ txs'[Current(s)'].cmd.wallet = w
    BY <1>5, <2>1, ListedTyped DEF Paying
  <2>3. /\ holder'[w] = s /\ wallets'[w] = wallets[w] /\ ledger'[w] = ledger[w]
        /\ Current(s)' = Current(s)
    BY <1>5, <2>1, <2>2 DEF KeepsWallets, Paying
  <2>4. \A v : v = w => Paying(s, v)'
    BY <2>1, <2>2, <2>3 DEF Paying, SameSession, EntryTaken
  <2> QED
    BY <1>7, <2>2, <2>4 DEF SameSession
<1>8. payback'[s] # None => Paying(s, txs[Current(s)].cmd.wallet)'
  BY <1>7 DEF SameSession
<1> QED
  BY <1>2, <1>3, <1>4, <1>6, <1>8 DEF ResolverOK, SameSession

(* A step of one resolver, or of none.                                     *)
OthersSame(r) ==
    \A s \in Resolvers \ {r} :
        SameSession(s) /\ \A w \in Wallets : holder[w] = s => holder'[w] = s

(* Nothing in the tables changes.                                          *)
LEMMA QuietTables ==
    ASSUME Resolving, UNCHANGED <<tables, clock>>
    PROVE  RowsStay /\ AgesStay /\ RowsOK' /\ BooksOK'
<1>1. RowsStay /\ AgesStay /\ RowsOK'
  BY DEF tables, clock, RowsStay, AgesStay, Parked, RowsOK, Resolving
<1> QED
  BY <1>1, BooksStay DEF tables, Announced

(* A step of one resolver that writes nothing concerns only that resolver. *)
LEMMA QuietStep ==
    ASSUME Resolving, NEW r \in Resolvers, UNCHANGED <<tables, clock>>,
           OthersSame(r), TypeOK', ResolverOK(r)'
    PROVE  Resolving'
<1>1. RowsStay /\ AgesStay /\ RowsOK' /\ BooksOK'
  BY QuietTables
<1>2. \A s \in Resolvers \ {r} : KeepsWallets(s)
  BY DEF OthersSame, KeepsWallets, tables
<1>3. \A s \in Resolvers \ {r} : ResolverOK(s)'
  BY <1>1, <1>2, OthersKeep DEF OthersSame
<1> QED
  BY <1>1, <1>3 DEF Resolving

-----------------------------------------------------------------------------
(* Calls leave resolvers alone: each waits for those that hold its wallet. *)
LEMMA CallKeeps ==
    ASSUME Resolving, NEW id \in Attempts, NEW c \in Commands, Execute(id, c)
    PROVE  Resolving'
<1>1. /\ txs[id] = None /\ c.wallet \in Wallets /\ Calls!Execute(id, c)
      /\ holder[c.wallet] = None /\ UNCHANGED <<clock, resolverVars>>
  BY DEF Execute, Calls!Execute, Calls!Fresh, Calls!Exists
<1>2. /\ txs \in [Attempts -> Rows \cup {None}] /\ wallets \in [Wallets -> WalletStates]
      /\ ledger \in [Wallets -> Seq(Movements)]
      /\ outbox \subseteq [tx : Attempts, type : EventTypes]
      /\ RowsOK /\ BooksOK
  BY DEF Resolving, TypeOK
<1>3. c.amount \in Nat
  BY CommandsAssumption
<1>4. \A w \in Wallets : ~ EntryTaken(w, id)
  BY <1>1, <1>2, NoneAssumption DEF BooksOK, EntryTaken
<1>5. ~ Announced(id)
  BY <1>2, <1>4 DEF BooksOK
<1>6. ASSUME NEW r, r \in Rows, r.cmd = c, r.status \in Statuses \ {"PENDING"},
             r.status = "PENDING_REFERENCE" => r.failure = None,
             NEW m, txs' = [txs EXCEPT ![id] = r], outbox' = outbox \cup Events(id, r, m)
      PROVE  /\ RowsStay /\ AgesStay /\ RowsOK'
             /\ txs' \in [Attempts -> Rows \cup {None}]
             /\ outbox' \subseteq [tx : Attempts, type : EventTypes]
             /\ outbox \subseteq outbox'
             /\ \A s \in Attempts : Announced(s)' <=> Announced(s) \/ (s = id /\ m # None)
             /\ txs'[id] # None /\ txs'[id].cmd = c
  <2>1. /\ \A t \in Attempts \ {id} : txs'[t] = txs[t]
        /\ txs'[id] = r /\ r # None
    BY <1>2, <1>6, NoneAssumption
  <2>2. RowsStay /\ AgesStay
    BY <1>1, <2>1 DEF RowsStay, AgesStay, Parked, clock
  <2>3. RowsOK'
    BY <1>1, <1>2, <1>6, <2>1 DEF RowsOK, Parked
  <2>4. /\ outbox' \subseteq [tx : Attempts, type : EventTypes]
        /\ \A s \in Attempts : Announced(s)' <=> Announced(s) \/ (s = id /\ m # None)
    BY <1>2, <1>6, EventsAre DEF Announced
  <2> QED
    BY <1>2, <1>6, <2>1, <2>2, <2>3, <2>4
<1>7. ASSUME RowsStay, AgesStay, RowsOK', BooksOK',
             txs' \in [Attempts -> Rows \cup {None}],
             wallets' \in [Wallets -> WalletStates], ledger' \in [Wallets -> Seq(Movements)],
             outbox' \subseteq [tx : Attempts, type : EventTypes],
             \A w \in Wallets \ {c.wallet} : wallets'[w] = wallets[w] /\ ledger'[w] = ledger[w]
      PROVE  Resolving'
  <2>1. ASSUME NEW s \in Resolvers PROVE ResolverOK(s)'
    <3>1. SameSession(s)
      BY <1>1 DEF resolverVars, SameSession
    <3>2. KeepsWallets(s)
      BY <1>1, <1>7, ResolversAssumption DEF resolverVars, KeepsWallets
    <3> QED
      BY <1>7, <3>1, <3>2, OthersKeep
  <2>2. TypeOK'
    BY <1>1, <1>7 DEF Resolving, TypeOK, clock, resolverVars
  <2> QED
    BY <1>7, <2>1, <2>2 DEF Resolving
<1>8. ASSUME NEW r, Records(id, c, r) PROVE Resolving'
  <2>1. /\ r \in Rows /\ r.cmd = c /\ r.status \in Statuses \ {"PENDING"}
        /\ r.status = "PENDING_REFERENCE" => r.failure = None
    BY <1>8 DEF Records, Rows
  <2>2. /\ txs' = [txs EXCEPT ![id] = r] /\ outbox' = outbox \cup Events(id, r, None)
        /\ UNCHANGED <<wallets, ledger>>
    BY <1>8, SameWords DEF Records, Calls!Record
  <2>3. /\ RowsStay /\ AgesStay /\ RowsOK'
        /\ txs' \in [Attempts -> Rows \cup {None}]
        /\ outbox' \subseteq [tx : Attempts, type : EventTypes]
        /\ outbox \subseteq outbox'
        /\ \A s \in Attempts : Announced(s)' <=> Announced(s)
    BY <1>6, <2>1, <2>2
  <2>4. BooksOK'
    BY <2>2, <2>3, BooksStay
  <2> QED
    BY <1>2, <1>7, <2>2, <2>3, <2>4
<1>9. ASSUME NEW d, NEW t, Settles(id, c, d, t) PROVE Resolving'
  <2> DEFINE m == Move(id, d, c.amount, wallets[c.wallet])
             r == MarkProcessed(AttachResolvedReference(NewRow(c), t), m.after)
  <2>1. /\ m \in Movements /\ m.tx = id /\ m.after \in Nat
        /\ m.before = wallets[c.wallet].balance /\ m.version = wallets[c.wallet].version + 1
    BY <1>1, <1>2, <1>3, <1>9, CoveredMove DEF Settles
  <2>2. /\ txs' = [txs EXCEPT ![id] = r] /\ outbox' = outbox \cup Events(id, r, m)
        /\ wallets' = [wallets EXCEPT ![c.wallet] = [balance |-> m.after, version |-> m.version]]
        /\ ledger' = [ledger EXCEPT ![c.wallet] = Append(@, m)]
    BY <1>9, SameWords DEF Settles, Calls!Settle
  <2> HIDE DEF m
  <2>3. r \in Rows /\ r.cmd = c /\ r.status = "PROCESSED"
    BY <1>9, <2>1, WrittenRows DEF Settles
  <2> HIDE DEF r
  <2>4. m # None
    BY <2>1, NoneAssumption
  <2>5. /\ RowsStay /\ AgesStay /\ RowsOK'
        /\ txs' \in [Attempts -> Rows \cup {None}]
        /\ outbox' \subseteq [tx : Attempts, type : EventTypes]
        /\ outbox \subseteq outbox'
        /\ \A s \in Attempts : Announced(s)' <=> Announced(s) \/ s = id
        /\ txs'[id] # None /\ txs'[id].cmd = c
    BY <1>6, <2>2, <2>3, <2>4 DEF Statuses
  <2>6. BooksOK'
    BY <1>1, <1>4, <2>1, <2>2, <2>5, BooksGrow DEF Books
  <2>7. /\ wallets' \in [Wallets -> WalletStates] /\ ledger' \in [Wallets -> Seq(Movements)]
        /\ \A w \in Wallets \ {c.wallet} : wallets'[w] = wallets[w] /\ ledger'[w] = ledger[w]
    <3>1. [balance |-> m.after, version |-> m.version] \in WalletStates
      BY <2>1 DEF WalletStates, Movements
    <3>2. Append(ledger[c.wallet], m) \in Seq(Movements)
      BY <1>1, <1>2, <2>1
    <3> QED
      BY <1>1, <1>2, <2>2, <3>1, <3>2
  <2> QED
    BY <1>7, <2>5, <2>6, <2>7
<1> QED
  BY <1>1, <1>8, <1>9, CallIs

-----------------------------------------------------------------------------
(* A row is left with nothing of it kept.                                  *)
LEMMA LeaveKeeps ==
    ASSUME Resolving, NEW r \in Resolvers, at[r] # "idle",
           NEW rest \in {<< >>, Tail(todo[r])}, Leave(r, rest), RowsStay, AgesStay
    PROVE  /\ OthersSame(r)
           /\ ResolverOK(r)'
           /\ at' \in [Resolvers -> Statements \cup {"idle"}]
           /\ todo' \in [Resolvers -> Seq([tx : Attempts, expired : BOOLEAN])]
           /\ found' \in [Resolvers -> Attempts \cup {None}]
           /\ draft' \in [Resolvers -> Rows \cup {None}]
           /\ payback' \in [Resolvers -> Movements \cup {None}]
           /\ holder' \in [Wallets -> Resolvers \cup {None}]
<1> DEFINE S == [tx : Attempts, expired : BOOLEAN]
           q == todo[r]
<1>1. /\ todo \in [Resolvers -> Seq(S)] /\ at \in [Resolvers -> Statements \cup {"idle"}]
      /\ found \in [Resolvers -> Attempts \cup {None}]
      /\ draft \in [Resolvers -> Rows \cup {None}]
      /\ payback \in [Resolvers -> Movements \cup {None}]
      /\ holder \in [Wallets -> Resolvers \cup {None}]
      /\ ResolverOK(r)
  BY DEF Resolving, TypeOK
<1>2. q \in Seq(S) /\ q # << >>
  BY <1>1 DEF ResolverOK
<1> HIDE DEF S, q
<1>3. /\ rest \in Seq(S)
      /\ \A i \in DOMAIN rest : \E j \in DOMAIN q : q[j] = rest[i]
  <2>1. CASE rest = << >>
    BY <2>1
  <2>2. CASE rest = Tail(q)
    <3>1. /\ Tail(q) \in Seq(S)
          /\ Len(Tail(q)) = Len(q) - 1
          /\ \A i \in 1 .. Len(Tail(q)) : Tail(q)[i] = q[i + 1]
      BY <1>2, HeadTailProperties
    <3>2. \A i \in DOMAIN Tail(q) : i + 1 \in DOMAIN q /\ Tail(q)[i] = q[i + 1]
      BY <1>2, <3>1
    <3> QED
      BY <2>2, <3>1, <3>2
  <2> QED
    BY <2>1, <2>2 DEF q
<1>4. /\ todo' = [todo EXCEPT ![r] = rest]
      /\ at' = [at EXCEPT ![r] = IF rest = << >> THEN "idle" ELSE "lookup"]
      /\ found' = [found EXCEPT ![r] = None]
      /\ draft' = [draft EXCEPT ![r] = None]
      /\ payback' = [payback EXCEPT ![r] = None]
      /\ holder' = [w \in Wallets |-> IF holder[w] = r THEN None ELSE holder[w]]
  BY DEF Leave, Goto
<1>5. OthersSame(r)
  BY <1>1, <1>4 DEF OthersSame, SameSession
<1>6. /\ at' \in [Resolvers -> Statements \cup {"idle"}]
      /\ todo' \in [Resolvers -> Seq(S)]
      /\ found' \in [Resolvers -> Attempts \cup {None}]
      /\ draft' \in [Resolvers -> Rows \cup {None}]
      /\ payback' \in [Resolvers -> Movements \cup {None}]
      /\ holder' \in [Wallets -> Resolvers \cup {None}]
  BY <1>1, <1>3, <1>4 DEF Statements
<1>7. /\ at'[r] \in {"idle", "lookup"} /\ (at'[r] # "idle" => rest # << >>)
      /\ payback'[r] = None /\ todo'[r] = rest
  BY <1>1, <1>4
<1>8. ASSUME NEW i \in DOMAIN rest, NEW t, t = rest[i].tx
      PROVE  txs'[t] # None /\ (rest[i].expired /\ Parked(t)' => t \in old')
  <2>1. PICK j \in DOMAIN todo[r] : todo[r][j] = rest[i]
    BY <1>3 DEF q
  <2>2. t \in Attempts /\ txs[t] # None /\ (rest[i].expired /\ Parked(t) => t \in old)
    BY <1>1, <1>8, <2>1, ListedTyped DEF ResolverOK
  <2> QED
    BY <2>2 DEF RowsStay, AgesStay
<1>9. ResolverOK(r)'
  BY <1>7, <1>8 DEF ResolverOK, Counting
<1> QED
  BY <1>5, <1>6, <1>9 DEF S

(* An error ends the round and leaves nothing behind.                      *)
LEMMA FailKeeps ==
    ASSUME Resolving, NEW r \in Resolvers, at[r] # "idle", Fail(r), losses' \in 0 .. MaxLosses
    PROVE  Resolving'
<1>1. UNCHANGED <<tables, clock>> /\ Leave(r, << >>)
  BY DEF Fail
<1>2. OthersSame(r) /\ ResolverOK(r)' /\ TypeOK'
  BY <1>1, QuietTables, LeaveKeeps DEF Resolving, TypeOK, tables, clock
<1> QED
  BY <1>1, <1>2, QuietStep

(* The listing: what is due is there, and its age is the row's.            *)
LEMMA ListDueKeeps ==
    ASSUME Resolving, NEW r \in Resolvers, ListDue(r)
    PROVE  Resolving'
<1>1. PICK batch \in Batches \ {<< >>} :
         todo' = [todo EXCEPT ![r] =
                      [i \in DOMAIN batch |-> [tx |-> batch[i], expired |-> batch[i] \in old]]]
  BY DEF ListDue
<1> DEFINE due == {t \in Attempts : Due(t) /\ \A s \in Resolvers : ~ Updating(s, t)}
           q == [i \in DOMAIN batch |-> [tx |-> batch[i], expired |-> batch[i] \in old]]
<1>2. PICK A \in SUBSET due : batch \in SetToSeqs(A)
  BY <1>1 DEF Batches
<1>3. A \subseteq Attempts /\ Cardinality(A) \in Nat
  BY <1>2, FiniteAssumption, FS_Subset, FS_CardinalityType
<1>4. batch \in [1 .. Cardinality(A) -> A]
  BY <1>2 DEF SetToSeqs
<1>5. \A t \in A : t \in Attempts /\ Parked(t) /\ txs[t] # None
  BY <1>2 DEF Due, Parked
<1>6. q \in [1 .. Cardinality(A) -> [tx : Attempts, expired : BOOLEAN]]
  BY <1>3, <1>4
<1>7. q \in Seq([tx : Attempts, expired : BOOLEAN])
  BY <1>3, <1>6, FunctionIsSeq
<1>8. q # << >>
  <2>1. batch # << >>
    BY <1>1
  <2>2. Cardinality(A) # 0
    BY <1>4, <2>1
  <2>3. DOMAIN q = 1 .. Cardinality(A) /\ 1 \in DOMAIN q
    BY <1>3, <1>4, <2>2
  <2> QED
    BY <2>3
<1>9. \A i \in DOMAIN q : q[i].tx \in A /\ q[i].expired = (q[i].tx \in old)
  BY <1>4
<1> HIDE DEF q
<1>10. /\ todo' = [todo EXCEPT ![r] = q] /\ at' = [at EXCEPT ![r] = "lookup"] /\ at[r] = "idle"
       /\ UNCHANGED <<tables, clock, found, draft, payback, holder, losses>>
  BY <1>1 DEF ListDue, q
<1>11. TypeOK'
  BY <1>7, <1>10 DEF Resolving, TypeOK, tables, clock, Statements
<1>12. OthersSame(r)
  BY <1>10 DEF OthersSame, SameSession, Resolving, TypeOK
<1>13. payback[r] = None
  BY <1>10 DEF Resolving, ResolverOK, Paying
<1>14. todo'[r] = q /\ at'[r] = "lookup" /\ payback'[r] = None
  BY <1>10, <1>13 DEF Resolving, TypeOK
<1>15. \A i \in DOMAIN todo'[r] :
          /\ txs'[q[i].tx] # None
          /\ q[i].expired /\ txs'[q[i].tx].status = "PENDING_REFERENCE" => q[i].tx \in old'
  BY <1>5, <1>9, <1>10, <1>14 DEF tables, clock
<1>16. ResolverOK(r)'
  BY <1>8, <1>14, <1>15 DEF ResolverOK, Parked, Counting
<1> QED
  BY <1>10, <1>11, <1>12, <1>16, QuietStep

(* What a resolver decides is a row of the same command.                   *)
Decided(r, d) ==
    /\ d \in Rows /\ d.cmd = txs[Current(r)].cmd /\ d.status # "PENDING"
    /\ d.failure = "REFERENCE_NOT_FOUND" => Head(todo[r]).expired

(* Every outcome of a row is one for the command it was listed with.       *)
LEMMA ListedCopyDecided ==
    ASSUME Resolving, NEW r \in Resolvers, todo[r] # << >>
    PROVE  /\ Decided(r, ListedCopy(r))
           /\ Decided(r, PutOff(r))
           /\ \A code \in Failures \ {"REFERENCE_NOT_FOUND"} :
                 Decided(r, MarkRejected(ListedCopy(r), code))
           /\ \A t \in Attempts, n \in Nat :
                 LET d == MarkProcessed(AttachResolvedReference(ListedCopy(r), t), n) IN
                 Decided(r, d) /\ d.status = "PROCESSED"
<1>1. txs[Current(r)].cmd \in Commands
  BY ListedTyped
<1>2. "REFERENCE_NOT_FOUND" \in Failures
  BY DEF Failures
<1>3. /\ Decided(r, ListedCopy(r))
      /\ \A code \in Failures \ {"REFERENCE_NOT_FOUND"} :
                 Decided(r, MarkRejected(ListedCopy(r), code))
      /\ \A t \in Attempts, n \in Nat :
            LET d == MarkProcessed(AttachResolvedReference(ListedCopy(r), t), n) IN
            Decided(r, d) /\ d.status = "PROCESSED"
  BY <1>1, <1>2, WrittenRows, NoneAssumption DEF ListedCopy, Decided
<1>4. Decided(r, PutOff(r))
  BY <1>1, <1>2, <1>3, WrittenRows DEF PutOff, ListedCopy, Decided
<1> QED
  BY <1>3, <1>4

(* A resolver that goes on with the row it is at.                          *)
Onward(r, statement) ==
    /\ at' = [at EXCEPT ![r] = statement]
    /\ UNCHANGED <<tables, clock, todo, holder, losses>>

(* Going on with the row keeps the invariant.                              *)
LEMMA OnwardKeeps ==
    ASSUME Resolving, NEW r \in Resolvers, at[r] # "idle", NEW statement \in Statements,
           Onward(r, statement), payback' = payback, payback[r] = None,
           \/ /\ statement = "save" /\ found' = found
              /\ \E d : Decided(r, d) /\ draft' = [draft EXCEPT ![r] = d]
           \/ /\ statement \in Counting /\ draft' = draft
              /\ \E t \in Attempts : txs[t] # None /\ found' = [found EXCEPT ![r] = t]
    PROVE  Resolving'
<1>1. ResolverOK(r) /\ TypeOK
  BY DEF Resolving
<1>2. todo'[r] = todo[r] /\ todo[r] # << >> /\ txs' = txs /\ old' = old /\ Current(r)' = Current(r)
  BY <1>1 DEF Onward, tables, clock, ResolverOK, Current
<1>3. at'[r] = statement /\ payback'[r] = None
  BY <1>1 DEF Onward, TypeOK
<1>4. OthersSame(r)
  BY <1>1 DEF Onward, OthersSame, SameSession, TypeOK
<1>5. ResolverOK(r)' /\ TypeOK'
  <2>1. CASE /\ statement = "save" /\ found' = found
             /\ \E d : Decided(r, d) /\ draft' = [draft EXCEPT ![r] = d]
    <3>1. PICK d : Decided(r, d) /\ draft' = [draft EXCEPT ![r] = d]
      BY <2>1
    <3>2. draft'[r] = d /\ d \in Rows /\ d # None
      BY <1>1, <3>1, NoneAssumption DEF Decided, TypeOK
    <3>3. ResolverOK(r)'
      BY <1>1, <1>2, <1>3, <2>1, <3>1, <3>2 DEF ResolverOK, Decided, Parked, Counting
    <3>4. TypeOK'
      BY <1>1, <2>1, <3>1, <3>2 DEF Onward, TypeOK, tables, clock, Statements
    <3> QED
      BY <3>3, <3>4
  <2>2. CASE /\ statement \in Counting /\ draft' = draft
             /\ \E t \in Attempts : txs[t] # None /\ found' = [found EXCEPT ![r] = t]
    <3>1. PICK t \in Attempts : txs[t] # None /\ found' = [found EXCEPT ![r] = t]
      BY <2>2
    <3>2. found'[r] = t /\ t # None
      BY <1>1, <3>1, NoneAssumption DEF TypeOK
    <3>3. ResolverOK(r)'
      BY <1>1, <1>2, <1>3, <2>2, <3>1, <3>2 DEF ResolverOK, Parked, Counting
    <3>4. TypeOK'
      BY <1>1, <2>2, <3>1 DEF Onward, TypeOK, tables, clock, Statements, Counting
    <3> QED
      BY <3>3, <3>4
  <2> QED
    BY <2>1, <2>2
<1> QED
  BY <1>4, <1>5, QuietStep DEF Onward

(* The lookup decides the row or finds its reference.                      *)
LEMMA LookupKeeps ==
    ASSUME Resolving, NEW r \in Resolvers, Lookup(r)
    PROVE  Resolving'
<1>1. /\ at[r] = "lookup" /\ UNCHANGED <<tables, clock, todo, payback, holder, losses>>
  BY DEF Lookup
<1>2. payback[r] = None /\ todo[r] # << >>
  BY <1>1 DEF Resolving, ResolverOK, Paying
<1>3. ASSUME NEW d, Decided(r, d), Decide(r, d), found' = found PROVE Resolving'
  BY <1>1, <1>2, <1>3, OnwardKeeps DEF Decide, Goto, Onward, Statements
<1>4. ASSUME NEW t \in Attempts, txs[t] # None, found' = [found EXCEPT ![r] = t],
             Goto(r, "countRefunds"), draft' = draft
      PROVE  Resolving'
  BY <1>1, <1>2, <1>4, OnwardKeeps DEF Goto, Onward, Statements, Counting
<1>5. CASE Decide(r, PutOff(r)) /\ UNCHANGED found
  BY <1>2, <1>3, <1>5, ListedCopyDecided
<1>6. CASE \E t \in Calls!Named(txs[Current(r)].cmd) :
              LET fault == ReferenceFault(txs[Current(r)].cmd, txs[t]) IN
              IF fault # None
              THEN Decide(r, MarkRejected(ListedCopy(r), fault)) /\ UNCHANGED found
              ELSE /\ found' = [found EXCEPT ![r] = t]
                   /\ Goto(r, "countRefunds")
                   /\ UNCHANGED draft
  <2>1. PICK t \in Calls!Named(txs[Current(r)].cmd) :
              LET fault == ReferenceFault(txs[Current(r)].cmd, txs[t]) IN
              IF fault # None
              THEN Decide(r, MarkRejected(ListedCopy(r), fault)) /\ UNCHANGED found
              ELSE /\ found' = [found EXCEPT ![r] = t]
                   /\ Goto(r, "countRefunds")
                   /\ UNCHANGED draft
    BY <1>6
  <2> DEFINE fault == ReferenceFault(txs[Current(r)].cmd, txs[t])
  <2>2. t \in Attempts /\ txs[t] # None
    BY DEF Calls!Named, Calls!Exists
  <2>3. CASE fault # None
    <3>1. Decided(r, MarkRejected(ListedCopy(r), fault))
      BY <1>2, <2>3, FaultIsFailure, ListedCopyDecided
    <3> QED
      BY <1>3, <2>1, <2>3, <3>1
  <2>4. CASE fault = None
    BY <1>4, <2>1, <2>2, <2>4
  <2> QED
    BY <2>3, <2>4
<1> QED
  BY <1>5, <1>6 DEF Lookup

(* The counts reject the row or let it go on.                              *)
LEMMA CountKeeps ==
    ASSUME Resolving, NEW r \in Resolvers, NEW here \in Counting, NEW kind,
           NEW next \in Counting, Count(r, here, kind, next)
    PROVE  Resolving'
<1>1. at[r] = here /\ UNCHANGED <<tables, clock, todo, found, payback, holder, losses>>
  BY DEF Count
<1>2. payback[r] = None /\ todo[r] # << >> /\ found[r] # None /\ txs[found[r]] # None
  BY <1>1 DEF Resolving, ResolverOK, Paying, Counting
<1>3. found[r] \in Attempts /\ found' = [found EXCEPT ![r] = found[r]]
  BY <1>1, <1>2 DEF Resolving, TypeOK
<1>4. CASE Decide(r, MarkRejected(ListedCopy(r), "DUPLICATE_REVERSAL"))
  <2>1. Decided(r, MarkRejected(ListedCopy(r), "DUPLICATE_REVERSAL"))
    BY <1>2, ListedCopyDecided DEF Failures
  <2> QED
    BY <1>1, <1>2, <1>4, <2>1, OnwardKeeps DEF Decide, Goto, Onward, Statements, Counting
<1>5. CASE Goto(r, next) /\ UNCHANGED draft
  BY <1>1, <1>2, <1>3, <1>5, OnwardKeeps DEF Goto, Onward, Statements, Counting
<1> QED
  BY <1>4, <1>5 DEF Count

(* The movement is computed from the wallet whose lock is taken with it.   *)
LEMMA LockKeeps ==
    ASSUME Resolving, NEW r \in Resolvers, Lock(r)
    PROVE  Resolving'
<1> DEFINE c == txs[Current(r)].cmd
           w == c.wallet
           direction == ReversalDirection(txs[found[r]].cmd.kind)
<1>1. /\ at[r] = "lock" /\ holder[w] = None /\ losses' = losses
  BY DEF Lock
<1>2. /\ payback[r] = None /\ todo[r] # << >> /\ found[r] \in Attempts
      /\ TypeOK /\ ResolverOK(r)
  <2>1. TypeOK /\ ResolverOK(r)
    BY DEF Resolving
  <2>2. payback[r] = None /\ todo[r] # << >> /\ found[r] # None
    BY <1>1, <2>1 DEF ResolverOK, Paying, Counting
  <2> QED
    BY <2>1, <2>2 DEF TypeOK
<1>3. /\ c \in Commands /\ w \in Wallets /\ c.amount \in Nat /\ Current(r) \in Attempts
      /\ wallets[w] \in WalletStates
  BY <1>2, ListedTyped, CommandsAssumption DEF TypeOK
<1>4. CASE Fail(r)
  BY <1>1, <1>2, <1>4, FailKeeps DEF TypeOK
<1>5. ASSUME holder' = [holder EXCEPT ![w] = r], UNCHANGED <<tables, clock, todo, found>>,
             NEW d, Decided(r, d), Decide(r, d),
             \/ payback' = payback
             \/ \E m \in Movements :
                   /\ payback' = [payback EXCEPT ![r] = m] /\ d.status = "PROCESSED"
                   /\ m.tx = Current(r) /\ m.before = wallets[w].balance
                   /\ m.version = wallets[w].version + 1
      PROVE  Resolving'
  <2>1. draft' = [draft EXCEPT ![r] = d] /\ at' = [at EXCEPT ![r] = "save"] /\ d \in Rows
    BY <1>5 DEF Decide, Goto, Decided
  <2>2. /\ at'[r] = "save" /\ draft'[r] = d /\ d # None /\ todo'[r] = todo[r]
        /\ holder'[w] = r /\ Current(r)' = Current(r) /\ txs' = txs /\ old' = old
        /\ wallets' = wallets
    BY <1>2, <1>3, <1>5, <2>1, NoneAssumption DEF TypeOK, tables, clock, Current
  <2>3. TypeOK'
    <3>1. payback' \in [Resolvers -> Movements \cup {None}]
      <4>1. payback \in [Resolvers -> Movements \cup {None}]
        BY <1>2 DEF TypeOK
      <4>2. CASE payback' = payback
        BY <4>1, <4>2
      <4>3. ASSUME NEW m \in Movements, payback' = [payback EXCEPT ![r] = m]
            PROVE  payback' \in [Resolvers -> Movements \cup {None}]
        BY <4>1, <4>3
      <4> QED
        BY <1>5, <4>2, <4>3
    <3> QED
      BY <1>1, <1>2, <1>3, <1>5, <2>1, <3>1 DEF TypeOK, tables, clock, Statements
  <2>4. OthersSame(r)
    <3>1. \A s \in Resolvers \ {r} : SameSession(s)
      BY <1>2, <1>5, <2>1 DEF SameSession, TypeOK
    <3>2. \A s \in Resolvers \ {r} : \A v \in Wallets : holder[v] = s => holder'[v] = s
      BY <1>1, <1>2, <1>5, ResolversAssumption DEF TypeOK
    <3> QED
      BY <3>1, <3>2 DEF OthersSame
  <2>5. payback'[r] # None => Paying(r, w)'
    <3>1. CASE payback' = payback
      BY <1>2, <3>1
    <3>2. ASSUME NEW m \in Movements,
                 payback' = [payback EXCEPT ![r] = m], d.status = "PROCESSED",
                 m.tx = Current(r), m.before = wallets[w].balance,
                 m.version = wallets[w].version + 1
          PROVE  Paying(r, w)'
      <4>1. payback'[r] = m
        BY <1>2, <3>2 DEF TypeOK
      <4>2. \A v : v = w => Paying(r, v)'
        BY <2>2, <3>2, <4>1 DEF Paying
      <4>3. w' = w
        BY <2>2
      <4> QED
        BY <4>2, <4>3
    <3> QED
      BY <1>5, <3>1, <3>2
  <2>6. ResolverOK(r)'
    BY <1>2, <1>5, <2>2, <2>5 DEF ResolverOK, Decided, Counting, Parked
  <2> QED
    BY <1>5, <2>3, <2>4, <2>6, QuietStep
<1>6. CASE ~ Covered(direction, c.amount, wallets[w]) /\ ~ Fail(r)
  <2>1. Decided(r, MarkRejected(ListedCopy(r), "REVERSAL_EXCEEDS_BALANCE"))
    BY <1>2, ListedCopyDecided DEF Failures
  <2> QED
    BY <1>5, <1>6, <2>1 DEF Lock
<1>7. CASE Covered(direction, c.amount, wallets[w]) /\ ~ Fail(r)
  <2> DEFINE m == Move(Current(r), direction, c.amount, wallets[w])
             d == MarkProcessed(AttachResolvedReference(ListedCopy(r), found[r]), m.after)
  <2>1. direction \in Directions
    BY DEF ReversalDirection, Directions
  <2>2. /\ m \in Movements /\ m.tx = Current(r) /\ m.after \in Nat
        /\ m.before = wallets[w].balance /\ m.version = wallets[w].version + 1
    <3>1. PICK t \in Attempts, e \in Directions, n \in Nat, b \in WalletStates :
              t = Current(r) /\ e = direction /\ n = c.amount /\ b = wallets[w]
      BY <1>3, <2>1
    <3>2. Covered(e, n, b)
      BY <1>7, <3>1
    <3>3. LET x == Move(t, e, n, b) IN
          /\ x \in Movements /\ x.tx = t
          /\ x.before = b.balance /\ x.version = b.version + 1 /\ x.after \in Nat
      BY <3>2, CoveredMove
    <3> QED
      BY <3>1, <3>3
  <2>3. Decided(r, d) /\ d.status = "PROCESSED"
    BY <1>2, <2>2, ListedCopyDecided
  <2>4. /\ payback' = [payback EXCEPT ![r] = m] /\ Decide(r, d)
        /\ holder' = [holder EXCEPT ![w] = r] /\ UNCHANGED <<tables, clock, todo, found>>
    BY <1>7 DEF Lock
  <2> HIDE DEF m, d
  <2> QED
    BY <1>5, <2>2, <2>3, <2>4
<1> QED
  BY <1>4, <1>6, <1>7

(* The writes go past the index and the version check, or end the round.   *)
LEMMA SaveKeeps ==
    ASSUME Resolving, NEW r \in Resolvers, Save(r)
    PROVE  Resolving'
<1> DEFINE w == txs[Current(r)].cmd.wallet
<1>1. at[r] = "save" /\ losses' = losses /\ TypeOK /\ ResolverOK(r) /\ losses \in 0 .. MaxLosses
  BY DEF Save, Resolving, TypeOK
<1>2. CASE Fail(r)
  BY <1>1, <1>2, FailKeeps
<1>3. CASE /\ ~ Refused(r) /\ Goto(r, "commit")
           /\ UNCHANGED <<tables, clock, todo, found, draft, payback, holder>>
  <2>1. /\ at'[r] = "commit" /\ Current(r)' = Current(r) /\ todo' = todo
        /\ draft' = draft /\ payback' = payback /\ holder' = holder
        /\ UNCHANGED <<txs, old, wallets, ledger>>
    BY <1>1, <1>3 DEF Goto, TypeOK, tables, clock, Current
  <2>2. TypeOK'
    BY <1>1, <1>3 DEF Goto, TypeOK, tables, clock, Statements
  <2>3. OthersSame(r)
    BY <1>1, <1>3 DEF OthersSame, SameSession, Goto, TypeOK
  <2>4. payback[r] # None => Paying(r, w)'
    <3> SUFFICES ASSUME payback[r] # None PROVE Paying(r, w)'
      OBVIOUS
    <3>1. Paying(r, w) /\ ~ EntryTaken(w, Current(r))
      BY <1>1, <1>3 DEF ResolverOK, Refused
    <3>2. \A v : v = w => Paying(r, v)'
      BY <2>1, <3>1 DEF Paying, EntryTaken
    <3>3. w' = w
      BY <2>1
    <3> QED
      BY <3>2, <3>3
  <2>5. ResolverOK(r)'
    BY <1>1, <2>1, <2>4 DEF ResolverOK, Counting, Parked
  <2> QED
    BY <1>3, <2>2, <2>3, <2>5, QuietStep
<1> QED
  BY <1>2, <1>3 DEF Save

-----------------------------------------------------------------------------
(* A commit files the row as decided and moves the money it has computed.  *)
LEMMA PublishKeeps ==
    ASSUME Resolving, NEW r \in Resolvers, at[r] = "commit", Publish(r),
           NEW rest \in {<< >>, Tail(todo[r])}, Leave(r, rest), losses' \in 0 .. MaxLosses
    PROVE  Resolving'
<1>a. PICK t : t = Current(r)
  OBVIOUS
<1>b. PICK w : w = txs[t].cmd.wallet
  OBVIOUS
<1> DEFINE d == draft[r]
           m == payback[r]
<1>1. TypeOK /\ RowsOK /\ BooksOK /\ ResolverOK(r)
  BY DEF Resolving
<1>2. /\ todo[r] # << >> /\ t \in Attempts /\ txs[t] # None /\ w \in Wallets
      /\ d \in Rows /\ d # None /\ d.cmd = txs[t].cmd /\ d.status \in Statuses \ {"PENDING"}
      /\ m # None => m \in Movements /\ Paying(r, w)
  <2>1. todo[r] # << >>
    BY <1>1 DEF ResolverOK
  <2>2. t \in Attempts /\ w \in Wallets
    BY <1>a, <1>b, <2>1, ListedTyped
  <2>3. txs[t] # None
    BY <1>a, <1>1, <2>1, ListedTyped DEF ResolverOK, Current
  <2>4. d \in Rows /\ d # None /\ d.cmd = txs[t].cmd /\ d.status # "PENDING"
    BY <1>a, <1>1 DEF ResolverOK, TypeOK
  <2>5. m # None => m \in Movements /\ Paying(r, w)
    BY <1>a, <1>b, <1>1 DEF ResolverOK, TypeOK
  <2> QED
    BY <2>1, <2>2, <2>3, <2>4, <2>5 DEF Rows
<1>3. /\ txs \in [Attempts -> Rows \cup {None}] /\ wallets \in [Wallets -> WalletStates]
      /\ ledger \in [Wallets -> Seq(Movements)]
      /\ outbox \subseteq [tx : Attempts, type : EventTypes]
      /\ schedule \in [Attempts -> {"unset", "later", "due"}] /\ old \subseteq Attempts
  BY <1>1 DEF TypeOK
<1>4. CASE d.status = "PENDING_REFERENCE"
  <2>1. m = None
    BY <1>2, <1>4 DEF Paying
  <2>2. /\ UNCHANGED <<txs, outbox, old, wallets, ledger>>
        /\ schedule' = [schedule EXCEPT ![t] = IF Parked(t) THEN "later" ELSE @]
    BY <1>a, <1>4, <2>1 DEF Publish, Written, Moved
  <2>3. RowsStay /\ AgesStay /\ RowsOK'
    BY <1>1, <2>2 DEF RowsStay, AgesStay, RowsOK, Parked
  <2>4. BooksOK'
    BY <2>2, <2>3, BooksStay DEF Announced
  <2>5. OthersSame(r) /\ ResolverOK(r)' /\ TypeOK'
    <3>1. schedule' \in [Attempts -> {"unset", "later", "due"}]
      BY <1>3, <2>2
    <3>2. /\ OthersSame(r) /\ ResolverOK(r)'
          /\ at' \in [Resolvers -> Statements \cup {"idle"}]
          /\ todo' \in [Resolvers -> Seq([tx : Attempts, expired : BOOLEAN])]
          /\ found' \in [Resolvers -> Attempts \cup {None}]
          /\ draft' \in [Resolvers -> Rows \cup {None}]
          /\ payback' \in [Resolvers -> Movements \cup {None}]
          /\ holder' \in [Wallets -> Resolvers \cup {None}]
      BY <2>3, LeaveKeeps
    <3> QED
      BY <1>3, <2>2, <3>1, <3>2 DEF TypeOK
  <2>6. ASSUME NEW s \in Resolvers \ {r} PROVE ResolverOK(s)'
    BY <2>2, <2>3, <2>5, OthersKeep DEF OthersSame, KeepsWallets
  <2> QED
    BY <2>3, <2>4, <2>5, <2>6 DEF Resolving
<1>5. CASE d.status # "PENDING_REFERENCE"
  <2>1. /\ txs' = [txs EXCEPT ![t] = d] /\ outbox' = outbox \cup Events(t, d, m)
        /\ schedule' = [schedule EXCEPT ![t] = "unset"] /\ old' = old \ {t}
    BY <1>a, <1>5 DEF Publish, Written
  <2>2. /\ txs'[t] = d /\ ~ Parked(t)' /\ \A s \in Attempts \ {t} : txs'[s] = txs[s]
    BY <1>2, <1>3, <1>5, <2>1 DEF Parked
  <2>3. RowsStay /\ AgesStay
    BY <1>2, <2>1, <2>2 DEF RowsStay, AgesStay, Parked
  <2>4. RowsOK'
    BY <1>b, <1>1, <1>2, <2>2 DEF RowsOK, Parked
  <2>5. /\ outbox' \subseteq [tx : Attempts, type : EventTypes]
        /\ \A s \in Attempts : Announced(s)' <=> Announced(s) \/ (s = t /\ m # None)
        /\ outbox \subseteq outbox'
    BY <1>2, <1>3, <2>1, EventsAre DEF Announced
  <2>6. /\ schedule' \in [Attempts -> {"unset", "later", "due"}] /\ old' \subseteq Attempts
        /\ txs' \in [Attempts -> Rows \cup {None}]
    BY <1>2, <1>3, <2>1
  <2>7. CASE m = None
    <3>1. UNCHANGED <<wallets, ledger>>
      BY <2>7 DEF Publish, Moved
    <3>2. BooksOK'
      BY <2>3, <2>5, <2>7, <3>1, BooksStay
    <3>3. OthersSame(r) /\ ResolverOK(r)' /\ TypeOK'
      BY <1>1, <2>3, <2>5, <2>6, <3>1, LeaveKeeps DEF TypeOK
    <3>4. ASSUME NEW s \in Resolvers \ {r} PROVE ResolverOK(s)'
      BY <2>3, <3>1, <3>3, OthersKeep DEF OthersSame, KeepsWallets
    <3> QED
      BY <2>4, <3>2, <3>3, <3>4 DEF Resolving
  <2>8. CASE m # None
    <3>1. /\ m \in Movements /\ m.tx = t /\ m.before = wallets[w].balance
          /\ m.version = wallets[w].version + 1 /\ ~ EntryTaken(w, t) /\ holder[w] = r
      BY <1>a, <1>2, <2>8 DEF Paying
    <3>2. /\ wallets' = [wallets EXCEPT ![w] = [balance |-> m.after, version |-> m.version]]
          /\ ledger' = [ledger EXCEPT ![w] = Append(@, m)]
      BY <1>a, <1>b, <2>8 DEF Publish, Moved
    <3>3. txs'[t] # None /\ txs'[t].cmd.wallet = w
      BY <1>b, <1>2, <2>2
    <3>4. BooksOK'
      <4>1. Books(t, w, m)
        BY <1>2, <2>5, <2>8, <3>1, <3>2, <3>3 DEF Books
      <4> QED
        BY <1>2, <2>3, <3>1, <4>1, BooksGrow
    <3>5. /\ wallets' \in [Wallets -> WalletStates] /\ ledger' \in [Wallets -> Seq(Movements)]
          /\ \A v \in Wallets \ {w} : wallets'[v] = wallets[v] /\ ledger'[v] = ledger[v]
      <4>1. [balance |-> m.after, version |-> m.version] \in WalletStates
        BY <3>1 DEF Movements, WalletStates
      <4>2. Append(ledger[w], m) \in Seq(Movements)
        BY <1>2, <1>3, <3>1
      <4> HIDE DEF m
      <4> QED
        BY <1>2, <1>3, <3>2, <4>1, <4>2
    <3>6. OthersSame(r) /\ ResolverOK(r)' /\ TypeOK'
      BY <1>1, <2>3, <2>5, <2>6, <3>5, LeaveKeeps DEF TypeOK
    <3>7. ASSUME NEW s \in Resolvers \ {r} PROVE ResolverOK(s)'
      BY <2>3, <3>1, <3>5, <3>6, OthersKeep DEF OthersSame, KeepsWallets
    <3> QED
      BY <2>4, <3>4, <3>6, <3>7 DEF Resolving
  <2> QED
    BY <2>7, <2>8
<1> QED
  BY <1>4, <1>5

(* Time passes by the sessions; a row only gets older.                     *)
LEMMA TimeKeeps ==
    ASSUME Resolving, NEW t \in Attempts, Wake(t) \/ GrowOld(t)
    PROVE  Resolving'
<1>1. UNCHANGED <<tables, resolverVars>> /\ old \subseteq old' /\ TypeOK'
  BY DEF Wake, GrowOld, Resolving, TypeOK, tables, resolverVars
<1>2. RowsStay /\ AgesStay /\ RowsOK'
  BY <1>1 DEF Resolving, RowsStay, AgesStay, RowsOK, Parked, tables
<1>3. BooksOK'
  BY <1>1, <1>2, BooksStay DEF tables, Announced
<1>4. ASSUME NEW s \in Resolvers PROVE ResolverOK(s)'
  BY <1>1, <1>2, OthersKeep DEF SameSession, KeepsWallets, resolverVars, tables
<1> QED
  BY <1>1, <1>2, <1>3, <1>4 DEF Resolving

-----------------------------------------------------------------------------
(* The opened wallets satisfy the invariant.                               *)
LEMMA ResolvingInit == Init => Resolving
<1> SUFFICES ASSUME Init PROVE Resolving
  OBVIOUS
<1>1. /\ wallets = [w \in Wallets |-> OpenedWallet(w)]
      /\ txs = [t \in Attempts |-> None]
      /\ ledger = [w \in Wallets |-> OpenedLedger(w)]
      /\ outbox = {}
  BY SameWords DEF Init, Calls!Init
<1>2. ASSUME NEW w \in Wallets
      PROVE  /\ OpenedWallet(w) \in WalletStates /\ OpenedLedger(w) \in Seq(Movements)
             /\ Explains(OpenedLedger(w), OpenedWallet(w))
             /\ \A i \in DOMAIN OpenedLedger(w) : OpenedLedger(w)[i].tx = None
  <2> DEFINE e == [tx |-> None, direction |-> "CREDIT", amount |-> OpeningBalance[w],
                   before |-> 0, after |-> OpeningBalance[w], version |-> 1]
  <2>1. OpeningBalance[w] \in Nat /\ OpenedWallet(w) \in WalletStates
    BY WalletsAssumption DEF OpenedWallet, WalletStates
  <2>2. e \in Movements /\ e.tx = None
    BY <2>1 DEF Movements, Directions
  <2>3. CASE OpeningBalance[w] = 0
    BY <2>1, <2>3 DEF OpenedLedger, OpenedWallet, Explains, Consecutive
  <2>4. CASE OpeningBalance[w] # 0
    <3>1. OpenedLedger(w) = <<e>>
      BY <2>4 DEF OpenedLedger
    <3>2. <<e>> \in Seq(Movements) /\ Len(<<e>>) = 1 /\ <<e>>[1] = e /\ DOMAIN <<e>> = {1}
      BY <2>2
    <3>3. OpenedWallet(w) = [balance |-> e.after, version |-> e.version]
      BY DEF OpenedWallet
    <3> HIDE DEF e
    <3>4. Explains(<<e>>, OpenedWallet(w))
      BY <3>2, <3>3 DEF Explains, Consecutive
    <3> QED
      BY <2>1, <2>2, <3>1, <3>2, <3>4
  <2> QED
    BY <2>3, <2>4
<1>3. BooksOK
  BY <1>1, <1>2 DEF BooksOK, BalanceMatchesLedger, Announced
<1>4. TypeOK
  BY <1>1, <1>2, ResolversAssumption DEF Init, TypeOK
<1>5. RowsOK
  BY <1>1 DEF RowsOK
<1>6. \A r \in Resolvers : ResolverOK(r)
  BY DEF Init, ResolverOK, Counting
<1> QED
  BY <1>3, <1>4, <1>5, <1>6 DEF Resolving

(* Every step keeps the invariant.                                         *)
LEMMA ResolvingStep == Resolving /\ [Next]_vars => Resolving'
<1> SUFFICES ASSUME Resolving, [Next]_vars PROVE Resolving'
  OBVIOUS
<1>1. ASSUME NEW r \in Resolvers, Resolve(r) PROVE Resolving'
  <2>1. CASE CountRefunds(r) \/ CountRollbacks(r)
    BY <2>1, CountKeeps DEF CountRefunds, CountRollbacks, Counting
  <2>2. CASE Commit(r)
    <3>1. losses' \in 0 .. MaxLosses
      BY <2>2 DEF Commit, Resolving, TypeOK
    <3> QED
      BY <2>2, <3>1, PublishKeeps DEF Commit
  <2> QED
    BY <1>1, <2>1, <2>2, ListDueKeeps, LookupKeeps, LockKeeps, SaveKeeps DEF Resolve
<1>2. ASSUME NEW r \in Resolvers, LoseConnection(r) \/ CommitUnacknowledged(r) PROVE Resolving'
  <2>1. losses' \in 0 .. MaxLosses
    BY <1>2, ResolversAssumption DEF LoseConnection, CommitUnacknowledged, Lost, Resolving, TypeOK
  <2> QED
    BY <1>2, <2>1, FailKeeps, PublishKeeps DEF LoseConnection, CommitUnacknowledged
<1>3. CASE UNCHANGED vars
  <2>1. UNCHANGED <<tables, clock, resolverVars>>
    BY <1>3 DEF vars
  <2>2. RowsStay /\ AgesStay /\ RowsOK' /\ BooksOK' /\ TypeOK'
    BY <2>1, QuietTables DEF Resolving, TypeOK, tables, clock, resolverVars
  <2>3. ASSUME NEW s \in Resolvers PROVE ResolverOK(s)'
    BY <2>1, <2>2, OthersKeep DEF SameSession, KeepsWallets, resolverVars, tables
  <2> QED
    BY <2>2, <2>3 DEF Resolving
<1> QED
  BY <1>1, <1>2, <1>3, CallKeeps, TimeKeeps DEF Next

-----------------------------------------------------------------------------
(* So it always holds.                                                     *)
LEMMA ResolvingAlways == Spec => []Resolving
BY ResolvingInit, ResolvingStep, PTL DEF Spec

(* The types.                                                              *)
THEOREM ResolversAreTyped == Spec => []TypeOK
<1>1. Resolving => TypeOK
  BY DEF Resolving
<1> QED
  BY ResolvingAlways, <1>1, PTL

(* Resolvers and calls together keep every ledger the explanation of its   *)
(* wallet's balance.                                                       *)
THEOREM ResolversKeepBooks == Spec => []BalanceMatchesLedger
<1>1. Resolving => BalanceMatchesLedger
  BY DEF Resolving, BooksOK
<1> QED
  BY ResolvingAlways, <1>1, PTL

(* The entries of a transaction, one by one.                               *)
LEMMA EntryIs ==
    ASSUME NEW t, NEW e \in EntriesOf(t, ledger)
    PROVE  \E w \in Wallets : \E i \in DOMAIN ledger[w] : e = <<w, i>> /\ ledger[w][i].tx = t
<1>1. PICK w \in Wallets : e \in {w} \X DOMAIN ledger[w]
  BY DEF EntriesOf
<1>2. e = <<w, e[2]>> /\ e[1] = w /\ e[2] \in DOMAIN ledger[w]
  BY <1>1
<1>3. ledger[e[1]][e[2]].tx = t
  BY DEF EntriesOf
<1> QED
  BY <1>2, <1>3

(* And what is such an entry counts.                                       *)
LEMMA EntryCounts ==
    ASSUME NEW t, NEW w \in Wallets, NEW i \in DOMAIN ledger[w], ledger[w][i].tx = t
    PROVE  <<w, i>> \in EntriesOf(t, ledger)
<1>1. <<w, i>> \in {w} \X DOMAIN ledger[w] /\ <<w, i>>[1] = w /\ <<w, i>>[2] = i
  OBVIOUS
<1> QED
  BY <1>1 DEF EntriesOf

(* A parked reversal pays at most once, whoever lists it and how often:    *)
(* resolve_pending_references.go writes the entry before the row, under    *)
(* the index on wallet and transaction.                                    *)
THEOREM RowsPayOnce == Spec => []OneMovementPerRow
<1>1. Resolving => OneMovementPerRow
  <2> SUFFICES ASSUME Resolving, NEW t \in Attempts PROVE Cardinality(EntriesOf(t, ledger)) <= 1
    BY DEF OneMovementPerRow
  <2>1. ASSUME NEW e \in EntriesOf(t, ledger), NEW f \in EntriesOf(t, ledger) PROVE e = f
    <3>1. PICK v \in Wallets : \E i \in DOMAIN ledger[v] : e = <<v, i>> /\ ledger[v][i].tx = t
      BY EntryIs
    <3>2. PICK i \in DOMAIN ledger[v] : e = <<v, i>> /\ ledger[v][i].tx = t
      BY <3>1
    <3>3. PICK w \in Wallets : \E j \in DOMAIN ledger[w] : f = <<w, j>> /\ ledger[w][j].tx = t
      BY EntryIs
    <3>4. PICK j \in DOMAIN ledger[w] : f = <<w, j>> /\ ledger[w][j].tx = t
      BY <3>3
    <3>5. v = w /\ t # None
      BY <3>2, <3>4, NoneAssumption DEF Resolving, BooksOK
    <3>6. i = j
      BY <3>2, <3>4, <3>5 DEF Resolving, BooksOK
    <3> QED
      BY <3>2, <3>4, <3>5, <3>6
  <2>2. CASE EntriesOf(t, ledger) = {}
    BY <2>2, FS_EmptySet
  <2>3. ASSUME NEW e \in EntriesOf(t, ledger) PROVE Cardinality(EntriesOf(t, ledger)) = 1
    <3>1. EntriesOf(t, ledger) = {e}
      BY <2>1, <2>3
    <3> QED
      BY <3>1, FS_Singleton
  <2> QED
    BY <2>2, <2>3
<1> QED
  BY ResolvingAlways, <1>1, PTL

(* Money moves exactly when it is announced (the outbox is written in the  *)
(* transaction of the movement), however rounds are cut short.             *)
THEOREM MovementsGetAnnounced == Spec => []MovementsAreAnnounced
<1>1. Resolving => MovementsAreAnnounced
  <2> SUFFICES ASSUME Resolving, NEW t \in Attempts
               PROVE  EntriesOf(t, ledger) # {} <=> Announced(t)
    BY DEF MovementsAreAnnounced, Announced
  <2>1. ASSUME NEW e \in EntriesOf(t, ledger) PROVE Announced(t)
    <3>1. \E w \in Wallets : \E i \in DOMAIN ledger[w] : ledger[w][i].tx = t
      BY EntryIs
    <3> QED
      BY <3>1, NoneAssumption DEF Resolving, BooksOK
  <2>2. ASSUME Announced(t) PROVE EntriesOf(t, ledger) # {}
    <3>1. PICK w \in Wallets : EntryTaken(w, t)
      BY <2>2 DEF Resolving, BooksOK
    <3>2. PICK i \in DOMAIN ledger[w] : ledger[w][i].tx = t
      BY <3>1 DEF EntryTaken
    <3> QED
      BY <3>2, EntryCounts
  <2> QED
    BY <2>1, <2>2
<1> QED
  BY ResolvingAlways, <1>1, PTL

(* A step that leaves the parked rows as they are gives none of them up.   *)
LEMMA ParkedStays ==
    ASSUME Resolving, NEW t \in Attempts, Parked(t), txs'[t] = txs[t],
           txs'[t].failure = "REFERENCE_NOT_FOUND"
    PROVE  FALSE
<1>1. txs[t].failure = None
  BY DEF Resolving, RowsOK, Parked
<1>2. "REFERENCE_NOT_FOUND" \in Failures
  BY DEF Failures
<1> QED
  BY <1>1, <1>2, NoneAssumption

(* No reversal is given up as REFERENCE_NOT_FOUND before its time: what a  *)
(* resolver has listed as expired stays expired while the row is parked.   *)
THEOREM NothingExpiresEarly == Spec => ExpiryIsEarned
<1>1. ASSUME Resolving, [Next]_vars, NEW t \in Attempts, Parked(t),
             txs'[t].failure = "REFERENCE_NOT_FOUND"
      PROVE  t \in old
  <2>1. ASSUME NEW r \in Resolvers, at[r] = "commit", Publish(r) PROVE t \in old
    <3>1. ResolverOK(r)
      BY <1>1 DEF Resolving
    <3>2. todo[r] # << >> /\ Head(todo[r]) = todo[r][1] /\ 1 \in DOMAIN todo[r]
      BY <1>1, <2>1, <3>1, ListedTyped DEF ResolverOK
    <3>3. CASE txs' = txs \/ t # Current(r)
      <4>1. txs'[t] = txs[t]
        BY <2>1, <3>3, <1>1 DEF Publish, Written, Resolving, TypeOK
      <4> QED
        BY <1>1, <4>1, ParkedStays
    <3>4. CASE txs' # txs /\ t = Current(r)
      <4>1. txs' = [txs EXCEPT ![t] = draft[r]]
        BY <2>1, <3>4 DEF Publish, Written
      <4>2. draft[r].failure = "REFERENCE_NOT_FOUND"
        BY <1>1, <4>1 DEF Resolving, TypeOK
      <4>3. todo[r][1].expired
        BY <2>1, <3>1, <3>2, <4>2 DEF ResolverOK
      <4> QED
        BY <1>1, <3>1, <3>2, <3>4, <4>3 DEF ResolverOK, Current
    <3> QED
      BY <3>3, <3>4
  <2>2. ASSUME txs' = txs PROVE t \in old
    BY <1>1, <2>2, ParkedStays
  <2>3. ASSUME NEW id \in Attempts, NEW c \in Commands, Execute(id, c) PROVE t \in old
    <3>1. txs[id] = None /\ Calls!Execute(id, c)
      BY <2>3 DEF Execute, Calls!Execute, Calls!Fresh, Calls!Exists
    <3>2. \E row : txs' = [txs EXCEPT ![id] = row]
      BY <1>1, <3>1, CallIs DEF Records, Settles, Calls!Record, Calls!Settle
    <3>3. txs'[t] = txs[t]
      BY <1>1, <3>1, <3>2 DEF Parked, Resolving, TypeOK
    <3> QED
      BY <1>1, <3>3, ParkedStays
  <2>4. ASSUME NEW r \in Resolvers,
               Resolve(r) \/ LoseConnection(r) \/ CommitUnacknowledged(r),
               ~ (at[r] = "commit" /\ Publish(r))
        PROVE  txs' = txs
    BY <2>4 DEF Resolve, LoseConnection, CommitUnacknowledged, ListDue, Lookup, CountRefunds,
                CountRollbacks, Count, Lock, Save, Commit, Fail, tables
  <2>5. ASSUME NEW s \in Attempts, Wake(s) \/ GrowOld(s) PROVE txs' = txs
    BY <2>5 DEF Wake, GrowOld, tables
  <2> QED
    BY <1>1, <2>1, <2>2, <2>3, <2>4, <2>5 DEF Next, vars, tables
<1>2. Resolving /\ [Next]_vars =>
        [\A t \in Attempts :
            Parked(t) /\ txs'[t].failure = "REFERENCE_NOT_FOUND" => t \in old]_vars
  BY <1>1
<1> QED
  BY ResolvingAlways, <1>2, PTL DEF Spec, ExpiryIsEarned
=============================================================================
