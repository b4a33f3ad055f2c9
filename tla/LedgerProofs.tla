---------------------------- MODULE LedgerProofs ----------------------------
(***************************************************************************)
(* For every set of openings, wallets and entries: a wallet's balance is   *)
(* the sum of its entries from its opening on, a reconciliation blames it  *)
(* only for what was committed between its two reads, and a client that    *)
(* follows the cursors of its ledger misses and repeats nothing.           *)
(***************************************************************************)
EXTENDS WalletsProofs, FiniteSetTheorems, SequenceTheorems, WellFoundedInduction

(* The least number principle, and the same for the parts of a finite set: *)
(* what holds of a part whenever it holds of the smaller ones holds of it. *)
LEMMA LeastNumber ==
    ASSUME NEW T \in SUBSET Nat, T # {}
    PROVE  \E n \in T : \A m \in T : n <= m
<1>1. PICK n \in T : \A m \in T : ~ (<<m, n>> \in OpToRel(<, Nat))
  BY NatLessThanWellFounded, WFMin, Zenon
<1>2. \A m \in T : m < n => <<m, n>> \in OpToRel(<, Nat)
  BY DEF OpToRel
<1>3. \A m \in T : ~ (m < n)
  BY <1>1, <1>2, Zenon
<1> QED
  BY <1>3

LEMMA SmallestPart ==
    ASSUME NEW S, IsFiniteSet(S), NEW F \in SUBSET (SUBSET S), F # {}
    PROVE  \E T \in F : IsFiniteSet(T) /\ \A U \in F : U \subseteq T => U = T
<1> DEFINE sizes == {Cardinality(T) : T \in F}
<1>1. ASSUME NEW T \in F PROVE IsFiniteSet(T) /\ Cardinality(T) \in Nat
  <2>1. T \in SUBSET S
    OBVIOUS
  <2>2. IsFiniteSet(T)
    BY <2>1, FS_Subset
  <2> QED
    BY <2>2, FS_CardinalityType
<1>2. sizes \in SUBSET Nat /\ sizes # {}
  BY <1>1
<1>3. PICK n \in sizes : \A m \in sizes : n <= m
  BY <1>2, LeastNumber
<1>4. PICK T \in F : n = Cardinality(T)
  OBVIOUS
<1>5. ASSUME NEW U \in F, U \subseteq T PROVE U = T
  <2>1. Cardinality(U) <= Cardinality(T) /\ (Cardinality(T) = Cardinality(U) => T = U)
    BY <1>1, <1>5, FS_Subset
  <2>2. Cardinality(T) <= Cardinality(U)
    BY <1>3, <1>4
  <2> QED
    BY <1>1, <2>1, <2>2
<1> QED
  BY <1>1, <1>5

-----------------------------------------------------------------------------
(* The function that Total applies, by its equation: it adds the entry     *)
(* that Picked chooses to the sum of the others.                           *)
Picked(S) == CHOOSE e \in S : TRUE
Adds(g, S) ==
    g = [s \in SUBSET S |-> IF s = {} THEN 0 ELSE Signed(Picked(s)) + g[s \ {Picked(s)}]]

LEMMA TotalIs ==
    ASSUME NEW S
    PROVE  Total(S) = (CHOOSE g : Adds(g, S))[S]
  BY DEF Total, MapThenSumSet, MapThenFoldSet, Adds, Picked

LEMMA PickedIn ==
    ASSUME NEW S, S # {}
    PROVE  Picked(S) \in S
  BY DEF Picked

LEMMA AddsAt ==
    ASSUME NEW S, NEW g, Adds(g, S), NEW s \in SUBSET S
    PROVE  g[s] = IF s = {} THEN 0 ELSE Signed(Picked(s)) + g[s \ {Picked(s)}]
<1> DEFINE f == [t \in SUBSET S |-> IF t = {} THEN 0 ELSE Signed(Picked(t)) + g[t \ {Picked(t)}]]
<1>1. f[s] = IF s = {} THEN 0 ELSE Signed(Picked(s)) + g[s \ {Picked(s)}]
  OBVIOUS
<1>2. g = f
  BY DEF Adds
<1> HIDE DEF f
<1> QED
  BY <1>1, <1>2

(* Two functions that add agree on finite sets.                            *)
LEMMA AddsAgree ==
    ASSUME NEW S, NEW R, NEW g, Adds(g, S), NEW h, Adds(h, R),
           NEW s \in SUBSET (S \cap R), IsFiniteSet(s)
    PROVE  g[s] = h[s]
<1> DEFINE F == {t \in SUBSET s : g[t] # h[t]}
<1>1. SUFFICES ASSUME F # {} PROVE FALSE
  OBVIOUS
<1>2. F \in SUBSET (SUBSET s)
  OBVIOUS
<1> HIDE DEF F
<1>3. PICK t \in F : IsFiniteSet(t) /\ \A u \in F : u \subseteq t => u = t
  BY <1>1, <1>2, SmallestPart
<1>4. t \in SUBSET S /\ t \in SUBSET R /\ t \in SUBSET s /\ g[t] # h[t]
  BY DEF F
<1>5. /\ g[t] = IF t = {} THEN 0 ELSE Signed(Picked(t)) + g[t \ {Picked(t)}]
      /\ h[t] = IF t = {} THEN 0 ELSE Signed(Picked(t)) + h[t \ {Picked(t)}]
  BY <1>4, AddsAt
<1>6. CASE t = {}
  BY <1>4, <1>5, <1>6
<1>7. CASE t # {}
  <2>1. t \ {Picked(t)} \in SUBSET s /\ t \ {Picked(t)} \subseteq t /\ t \ {Picked(t)} # t
    BY <1>4, <1>7, PickedIn
  <2>2. g[t \ {Picked(t)}] = h[t \ {Picked(t)}]
    BY <1>3, <2>1 DEF F
  <2> QED
    BY <1>4, <1>5, <1>7, <2>2
<1> QED
  BY <1>6, <1>7

(* A part of a function that adds adds too.                                *)
LEMMA AddsBelow ==
    ASSUME NEW S, NEW g, Adds(g, S), NEW R \in SUBSET S
    PROVE  Adds([s \in SUBSET R |-> g[s]], R)
<1> DEFINE f == [s \in SUBSET R |-> g[s]]
<1>1. ASSUME NEW s \in SUBSET R
      PROVE  g[s] = IF s = {} THEN 0 ELSE Signed(Picked(s)) + f[s \ {Picked(s)}]
  <2>1. g[s] = IF s = {} THEN 0 ELSE Signed(Picked(s)) + g[s \ {Picked(s)}]
    BY AddsAt
  <2>2. f[s \ {Picked(s)}] = g[s \ {Picked(s)}]
    OBVIOUS
  <2> QED
    BY <2>1, <2>2
<1>2. f = [s \in SUBSET R |->
              IF s = {} THEN 0 ELSE Signed(Picked(s)) + f[s \ {Picked(s)}]]
  BY <1>1
<1> HIDE DEF f
<1> QED
  BY <1>2 DEF Adds, f

(* On every finite set there is such a function: sum each smaller set with *)
(* its own.                                                                *)
LEMMA AddsExists ==
    ASSUME NEW S, IsFiniteSet(S)
    PROVE  \E g : Adds(g, S)
<1> DEFINE F == {T \in SUBSET S : ~ \E g : Adds(g, T)}
<1>1. SUFFICES ASSUME F # {} PROVE FALSE
  OBVIOUS
<1>2. F \in SUBSET (SUBSET S)
  OBVIOUS
<1> HIDE DEF F
<1>3. PICK T \in F : IsFiniteSet(T) /\ \A U \in F : U \subseteq T => U = T
  BY <1>1, <1>2, SmallestPart
<1>4. T \in SUBSET S /\ IsFiniteSet(T) /\ ~ \E g : Adds(g, T)
  BY <1>3 DEF F
<1> DEFINE own(s) == CHOOSE g : Adds(g, s)
           sum(s) == own(s)[s]
           h == [s \in SUBSET T |-> IF s # T THEN sum(s)
                                    ELSE IF T = {} THEN 0
                                    ELSE Signed(Picked(T)) + sum(T \ {Picked(T)})]
<1>5. ASSUME NEW s \in SUBSET T, s # T PROVE Adds(own(s), s) /\ IsFiniteSet(s)
  BY <1>3, <1>4, <1>5, FS_Subset DEF F
<1>6. ASSUME NEW s \in SUBSET T, s # T, s # {}
      PROVE  sum(s) = Signed(Picked(s)) + sum(s \ {Picked(s)})
  <2> DEFINE r == s \ {Picked(s)}
  <2>1. r \in SUBSET T /\ r # T /\ r \in SUBSET (s \cap r)
    BY <1>6, PickedIn
  <2>2. Adds(own(s), s) /\ Adds(own(r), r) /\ IsFiniteSet(r)
    BY <1>5, <1>6, <2>1
  <2> HIDE DEF own
  <2>3. own(s)[r] = own(r)[r]
    BY <2>1, <2>2, AddsAgree
  <2>4. own(s)[s] = Signed(Picked(s)) + own(s)[r]
    BY <1>6, <2>2, AddsAt
  <2> QED
    BY <2>3, <2>4
<1>7. ASSUME {} # T PROVE sum({}) = 0
  BY <1>5, <1>7, AddsAt
<1> HIDE DEF own, sum
<1>8. ASSUME NEW s \in SUBSET T
      PROVE  h[s] = IF s = {} THEN 0 ELSE Signed(Picked(s)) + h[s \ {Picked(s)}]
  <2>1. CASE s = {}
    BY <1>7, <2>1
  <2>2. CASE s # {}
    <3>1. s \ {Picked(s)} \in SUBSET T /\ s \ {Picked(s)} # T
      BY <2>2, PickedIn
    <3>2. h[s \ {Picked(s)}] = sum(s \ {Picked(s)})
      BY <3>1
    <3> QED
      BY <1>6, <2>2, <3>2
  <2> QED
    BY <2>1, <2>2
<1> DEFINE e == [s \in SUBSET T |-> IF s = {} THEN 0 ELSE Signed(Picked(s)) + h[s \ {Picked(s)}]]
<1>9. h = e
  BY <1>8
<1> HIDE DEF h
<1>10. Adds(h, T)
  BY <1>9 DEF Adds
<1> QED
  BY <1>4, <1>10

-----------------------------------------------------------------------------
(* The finite sets of entries.                                             *)
Sheet(S) == S \subseteq Entries /\ IsFiniteSet(S)

LEMMA SignedIsAmount ==
    ASSUME NEW e \in Entries
    PROVE  Signed(e) \in Int
  BY MaxIntAssumption DEF Entries, Signed

LEMMA TotalPicks ==
    ASSUME NEW S, IsFiniteSet(S)
    PROVE  Total(S) = IF S = {} THEN 0 ELSE Signed(Picked(S)) + Total(S \ {Picked(S)})
<1> DEFINE g == CHOOSE f : Adds(f, S)
           R == S \ {Picked(S)}
           h == CHOOSE f : Adds(f, R)
<1>1. IsFiniteSet(R) /\ R \in SUBSET S /\ R \in SUBSET (S \cap R)
  BY FS_Subset
<1>2. Adds(g, S) /\ Adds(h, R)
  BY <1>1, AddsExists
<1>3. Total(S) = g[S] /\ Total(R) = h[R]
  BY TotalIs
<1> HIDE DEF g, h, R
<1>4. g[R] = h[R]
  <2>1. R \in SUBSET (S \cap R)
    BY <1>1
  <2> QED
    BY <1>1, <1>2, <2>1, AddsAgree
<1>5. g[S] = IF S = {} THEN 0 ELSE Signed(Picked(S)) + g[R]
  BY <1>2, AddsAt DEF R
<1> QED
  BY <1>3, <1>4, <1>5 DEF R

LEMMA TotalEmpty == Total({}) = 0
  BY FS_EmptySet, TotalPicks

LEMMA TotalIsInt ==
    ASSUME NEW S, Sheet(S)
    PROVE  Total(S) \in Int
<1> DEFINE F == {T \in SUBSET S : Total(T) \notin Int}
<1>1. SUFFICES ASSUME F # {} PROVE FALSE
  OBVIOUS
<1>2. F \in SUBSET (SUBSET S)
  OBVIOUS
<1> HIDE DEF F
<1>3. PICK T \in F : IsFiniteSet(T) /\ \A U \in F : U \subseteq T => U = T
  BY <1>1, <1>2, SmallestPart DEF Sheet
<1>4. T \in SUBSET S /\ IsFiniteSet(T) /\ Total(T) \notin Int
  BY <1>3 DEF F
<1>5. T # {}
  BY <1>4, TotalEmpty
<1>6. Picked(T) \in T /\ Picked(T) \in Entries
  BY <1>4, <1>5, PickedIn DEF Sheet
<1>7. Total(T \ {Picked(T)}) \in Int
  BY <1>3, <1>4, <1>6 DEF F
<1> QED
  BY <1>4, <1>5, <1>6, <1>7, TotalPicks, SignedIsAmount

(* Which entry is taken first does not matter.                             *)
LEMMA TotalWithout ==
    ASSUME NEW S, Sheet(S), NEW x \in S
    PROVE  Total(S) = Signed(x) + Total(S \ {x})
<1> DEFINE F == {T \in SUBSET S : \E y \in T : Total(T) # Signed(y) + Total(T \ {y})}
<1>1. SUFFICES ASSUME F # {} PROVE FALSE
  BY DEF F
<1>2. F \in SUBSET (SUBSET S)
  OBVIOUS
<1> HIDE DEF F
<1>3. PICK T \in F : IsFiniteSet(T) /\ \A U \in F : U \subseteq T => U = T
  BY <1>1, <1>2, SmallestPart DEF Sheet
<1>4. PICK y \in T : Total(T) # Signed(y) + Total(T \ {y})
  BY DEF F
<1>5. T \in SUBSET S /\ IsFiniteSet(T) /\ T # {}
  BY <1>3 DEF F
<1> DEFINE p == Picked(T)
<1>6. p \in T /\ Total(T) = Signed(p) + Total(T \ {p})
  BY <1>5, PickedIn, TotalPicks
<1>7. p # y
  BY <1>4, <1>6
<1> HIDE DEF p
<1>8. /\ Total(T \ {p}) = Signed(y) + Total((T \ {p}) \ {y})
      /\ Total(T \ {y}) = Signed(p) + Total((T \ {y}) \ {p})
  <2>1. /\ T \ {p} \in SUBSET S /\ T \ {p} \subseteq T /\ T \ {p} # T /\ y \in T \ {p}
        /\ T \ {y} \in SUBSET S /\ T \ {y} \subseteq T /\ T \ {y} # T /\ p \in T \ {y}
    BY <1>5, <1>6, <1>7
  <2>2. T \ {p} \notin F /\ T \ {y} \notin F
    BY <1>3, <2>1
  <2> QED
    BY <2>1, <2>2 DEF F
<1>9. (T \ {p}) \ {y} = (T \ {y}) \ {p}
  OBVIOUS
<1>10. /\ Signed(y) \in Int /\ Signed(p) \in Int
       /\ Total((T \ {y}) \ {p}) \in Int
  <2>1. Sheet((T \ {y}) \ {p}) /\ y \in Entries /\ p \in Entries
    BY <1>5, <1>6, FS_Subset DEF Sheet
  <2> QED
    BY <2>1, SignedIsAmount, TotalIsInt
<1>11. PICK n \in Int : n = Total((T \ {y}) \ {p})
  BY <1>10
<1>12. Total(T \ {p}) = Signed(y) + n /\ Total(T \ {y}) = Signed(p) + n
  BY <1>8, <1>9, <1>11
<1>13. Signed(p) + (Signed(y) + n) = Signed(y) + (Signed(p) + n)
  BY <1>10
<1> QED
  BY <1>4, <1>6, <1>12, <1>13

(* One more entry adds its amount.                                         *)
LEMMA TotalWith ==
    ASSUME NEW S, Sheet(S), NEW x \in Entries, x \notin S
    PROVE  Sheet(S \cup {x}) /\ Total(S \cup {x}) = Total(S) + Signed(x)
<1>1. Sheet(S \cup {x}) /\ (S \cup {x}) \ {x} = S
  BY FS_AddElement DEF Sheet
<1>2. Total(S \cup {x}) = Signed(x) + Total(S)
  BY <1>1, TotalWithout
<1> QED
  BY <1>1, <1>2, SignedIsAmount, TotalIsInt

(* A sum is that of a part and that of the rest.                           *)
LEMMA TotalSplits ==
    ASSUME NEW S, Sheet(S), NEW R \in SUBSET S
    PROVE  Total(S) = Total(R) + Total(S \ R)
<1> DEFINE F == {T \in SUBSET S : R \subseteq T /\ Total(T) # Total(R) + Total(T \ R)}
<1>1. SUFFICES ASSUME F # {} PROVE FALSE
  OBVIOUS
<1>2. F \in SUBSET (SUBSET S)
  OBVIOUS
<1> HIDE DEF F
<1>3. PICK T \in F : IsFiniteSet(T) /\ \A U \in F : U \subseteq T => U = T
  BY <1>1, <1>2, SmallestPart DEF Sheet
<1>4. /\ T \in SUBSET S /\ IsFiniteSet(T) /\ R \subseteq T
      /\ Total(T) # Total(R) + Total(T \ R)
      /\ Sheet(R) /\ Sheet(T) /\ Sheet(T \ R)
  BY <1>3, FS_Subset DEF Sheet, F
<1>5. T # R
  <2>1. R \ R = {}
    OBVIOUS
  <2> QED
    BY <1>4, <2>1, TotalEmpty, TotalIsInt
<1>6. PICK x : x \in T \ R
  BY <1>4, <1>5
<1>7. /\ T \ {x} \in SUBSET S /\ R \subseteq T \ {x} /\ T \ {x} \subseteq T /\ T \ {x} # T
      /\ (T \ {x}) \ R = (T \ R) \ {x}
  BY <1>4, <1>6
<1>8. Total(T \ {x}) = Total(R) + Total((T \ R) \ {x})
  BY <1>3, <1>7 DEF F
<1>9. /\ Total(T) = Signed(x) + Total(T \ {x})
      /\ Total(T \ R) = Signed(x) + Total((T \ R) \ {x})
  BY <1>4, <1>6, TotalWithout
<1>10. Signed(x) \in Int /\ Total(R) \in Int /\ Total((T \ R) \ {x}) \in Int
  <2>1. Sheet((T \ R) \ {x}) /\ x \in Entries
    BY <1>4, <1>6, FS_Subset DEF Sheet
  <2> QED
    BY <1>4, <2>1, SignedIsAmount, TotalIsInt
<1> QED
  BY <1>4, <1>8, <1>9, <1>10
-----------------------------------------------------------------------------
(* The entries of a wallet, each with an id of its own.                    *)
LedgersOK ==
    /\ ledger \in [Openings -> SUBSET Entries]
    /\ outbox \in [Openings -> SUBSET {"Processed", "BalanceChanged"}]
    /\ \A o \in Openings : IsFiniteSet(ledger[o])
    /\ \A o, p \in Openings : \A e \in ledger[o], f \in ledger[p] : e.id = f.id => e = f

(* A wallet with what came with it, and the call that opened it.           *)
Booked(o) ==
    /\ opening[o].step \in {"opened", "lost"}
    /\ opening[o].request \in Accepted /\ opening[o].at \in Times
    /\ wallets[o].balance = Total(ledger[o])
    /\ IF Open!Initial(opening[o].request).value = 0 THEN outbox[o] = {}
       ELSE /\ outbox[o] = {"Processed", "BalanceChanged"}
            /\ \E e \in ledger[o] : IsOpening(e, o)

BooksInv ==
    /\ OwnersInv /\ LedgersOK
    /\ \A o \in Openings : opening[o].step \in {"insert", "commit"} => opening[o].at \in Times
    /\ \A o \in Openings :
          IF wallets[o] = None THEN ledger[o] = {} /\ outbox[o] = {} ELSE Booked(o)

(* None is no wallet.                                                      *)
LEMMA NoneIsNoWallet ==
    ASSUME OwnersInv, NEW o \in Openings, wallets[o] # None
    PROVE  wallets[o] \in WalletStates
  BY DEF OwnersInv, BalancesInv

(* An instance has its own names for the same ids and sums.                *)
LEMMA SameIds == Open!FreshIds(ledger) = FreshIds(ledger)
  BY DEF Open!FreshIds, FreshIds

LEMMA SameTotal ==
    ASSUME NEW S
    PROVE  Audit!Total(S) = Total(S)
  BY DEF Total, MapThenSumSet, MapThenFoldSet, Signed,
         Audit!Total, Audit!MapThenSumSet, Audit!MapThenFoldSet, Audit!Signed

LEMMA SameEntries == Audit!Entries = Entries /\ Pages!Entries = Entries
  BY DEF Audit!Entries, Pages!Entries, Entries

(* An entry with a fresh id is a new one, and the only one with its id.    *)
LEMMA EntryAppears ==
    ASSUME BooksInv, NEW o \in Openings, NEW e \in Entries, e.id \in FreshIds(ledger),
           ledger' = [ledger EXCEPT ![o] = @ \cup {e}],
           outbox' \in [Openings -> SUBSET {"Processed", "BalanceChanged"}]
    PROVE  /\ LedgersOK'
           /\ \A p \in Openings \ {o} : ledger'[p] = ledger[p]
           /\ ledger'[o] = ledger[o] \cup {e} /\ e \notin ledger[o]
           /\ Total(ledger'[o]) = Total(ledger[o]) + Signed(e)
<1>1. LedgersOK /\ \A p \in Openings : Sheet(ledger[p])
  BY DEF BooksInv, LedgersOK, Sheet
<1>2. /\ \A p \in Openings \ {o} : ledger'[p] = ledger[p]
      /\ ledger'[o] = ledger[o] \cup {e}
      /\ ledger' \in [Openings -> SUBSET Entries]
  BY <1>1 DEF LedgersOK
<1>3. \A p \in Openings : \A f \in ledger[p] : f.id # e.id
  BY DEF FreshIds
<1>4. e \notin ledger[o]
  BY <1>3
<1>5. PICK S : S = ledger[o]
  OBVIOUS
<1>6. Sheet(S) /\ e \notin S
  BY <1>1, <1>4, <1>5
<1>7. Sheet(S \cup {e}) /\ Total(S \cup {e}) = Total(S) + Signed(e)
  BY <1>6, TotalWith
<1>8. PICK R : R = ledger'[o]
  OBVIOUS
<1>9. R = S \cup {e}
  BY <1>2, <1>5, <1>8
<1>10. Total(ledger'[o]) = Total(ledger[o]) + Signed(e)
  BY <1>5, <1>7, <1>8, <1>9
<1>11. \A p \in Openings : IsFiniteSet(ledger'[p])
  BY <1>1, <1>2, <1>5, <1>7 DEF Sheet
<1>12. \A p, q \in Openings : \A f \in ledger'[p], g \in ledger'[q] : f.id = g.id => f = g
  BY <1>1, <1>2, <1>3 DEF LedgersOK
<1>13. LedgersOK'
  BY <1>2, <1>11, <1>12 DEF LedgersOK
<1> QED
  BY <1>2, <1>4, <1>10, <1>13

-----------------------------------------------------------------------------
LEMMA BooksInit == Init => BooksInv
<1> SUFFICES ASSUME Init PROVE BooksInv
  OBVIOUS
<1>1. /\ OwnersInv
      /\ \A o \in Openings : wallets[o] = None /\ ledger[o] = {} /\ outbox[o] = {}
                             /\ opening[o].step = "idle"
  BY OwnersInit DEF Init, Open!Init
<1>2. LedgersOK
  BY <1>1, FS_EmptySet DEF Init, Open!Init, LedgersOK
<1> QED
  BY <1>1, <1>2 DEF BooksInv

(* Whoever has a wallet has had its call.                                  *)
LEMMA OpenedCallsRest ==
    ASSUME BooksInv, NEW p \in Openings, wallets[p] # None
    PROVE  opening[p].step \in {"opened", "lost"}
  BY DEF BooksInv, Booked

(* A step of a call without a wallet that leaves the tables alone.         *)
LEMMA CallKeepsBooks ==
    ASSUME BooksInv, OwnersInv', NEW o \in Openings, wallets[o] = None,
           UNCHANGED <<wallets, ledger, outbox>>, NEW c, opening' = [opening EXCEPT ![o] = c],
           c.step \in {"insert", "commit"} => c.at \in Times
    PROVE  BooksInv'
<1>1. \A p \in Openings : opening'[p] = IF p = o THEN c ELSE opening[p]
  BY DEF BooksInv, OwnersInv, BalancesInv
<1>2. LedgersOK'
  BY DEF BooksInv, LedgersOK
<1>3. \A p \in Openings : opening'[p].step \in {"insert", "commit"} => opening'[p].at \in Times
  BY <1>1 DEF BooksInv
<1>4. ASSUME NEW p \in Openings, wallets'[p] # None PROVE Booked(p)'
  <2>1. opening'[p] = opening[p] /\ Booked(p)
    BY <1>1, <1>4 DEF BooksInv
  <2> QED
    BY <2>1 DEF Booked, IsOpening
<1>5. \A p \in Openings : wallets'[p] = None => ledger'[p] = {} /\ outbox'[p] = {}
  BY DEF BooksInv
<1> QED
  BY <1>2, <1>3, <1>4, <1>5 DEF BooksInv

(* A wallet commits with what comes with it.                               *)
LEMMA PublishKeepsBooks ==
    ASSUME BooksInv, OwnersInv', NEW o \in Openings, opening[o].step = "commit",
           Open!Publish(o), NEW s \in {"opened", "lost"},
           opening' = [opening EXCEPT ![o].step = s]
    PROVE  BooksInv'
<1> DEFINE n == Open!Initial(opening[o].request).value
<1>1. /\ opening[o].request \in Accepted /\ opening[o].at \in Times /\ wallets[o] = None
      /\ ledger[o] = {} /\ outbox[o] = {}
      /\ wallets \in [Openings -> WalletStates \cup {None}] /\ opening \in [Openings -> Open!Calls]
  BY DEF BooksInv, OwnersInv, BalancesInv, Unrivalled
<1>2. n \in 0 .. MaxInt
  BY <1>1, InitialIsBalance
<1>3. /\ \A p \in Openings \ {o} : wallets'[p] = wallets[p] /\ opening'[p] = opening[p]
      /\ wallets'[o] = Open!NewWallet(opening[o].request) /\ wallets'[o].balance = n
      /\ opening'[o].step = s /\ opening'[o].request = opening[o].request
      /\ opening'[o].at = opening[o].at
  BY <1>1 DEF Open!Publish, Open!NewWallet, Open!Calls
<1>4. /\ LedgersOK'
      /\ \A p \in Openings \ {o} : ledger'[p] = ledger[p] /\ outbox'[p] = outbox[p]
      /\ Total(ledger'[o]) = n
      /\ IF n = 0 THEN outbox'[o] = {}
         ELSE /\ outbox'[o] = {"Processed", "BalanceChanged"}
              /\ \E e \in ledger'[o] : e.at = opening[o].at /\ e.direction = "CREDIT" /\ e.amount = n
  <2>1. CASE n = 0
    <3>1. UNCHANGED <<ledger, outbox>>
      BY <2>1 DEF Open!Publish, Open!NewWallet
    <3>2. LedgersOK'
      BY <3>1 DEF BooksInv, LedgersOK
    <3> QED
      BY <1>1, <2>1, <3>1, <3>2, TotalEmpty
  <2>2. CASE n # 0
    <3> HIDE DEF n
    <3>1. PICK id \in FreshIds(ledger) :
              ledger' = [ledger EXCEPT ![o] =
                            @ \cup {[at |-> opening[o].at, id |-> id,
                                     direction |-> "CREDIT", amount |-> n]}]
      BY <2>2, SameIds DEF Open!Publish, Open!NewWallet, n
    <3>2. outbox' = [outbox EXCEPT ![o] = {"Processed", "BalanceChanged"}]
      BY <2>2 DEF Open!Publish, Open!NewWallet, n
    <3>3. PICK e : e = [at |-> opening[o].at, id |-> id, direction |-> "CREDIT", amount |-> n]
      OBVIOUS
    <3>4. e \in Entries /\ e.id \in FreshIds(ledger) /\ Signed(e) = n
      BY <1>1, <1>2, <2>2, <3>3 DEF Entries, Signed, FreshIds
    <3>5. /\ outbox' \in [Openings -> SUBSET {"Processed", "BalanceChanged"}]
          /\ outbox'[o] = {"Processed", "BalanceChanged"}
          /\ \A p \in Openings \ {o} : outbox'[p] = outbox[p]
      BY <3>2 DEF BooksInv, LedgersOK
    <3>6. ledger' = [ledger EXCEPT ![o] = @ \cup {e}]
      BY <3>1, <3>3
    <3>7. /\ LedgersOK' /\ \A p \in Openings \ {o} : ledger'[p] = ledger[p]
          /\ ledger'[o] = ledger[o] \cup {e}
          /\ Total(ledger'[o]) = Total(ledger[o]) + Signed(e)
      BY <3>4, <3>5, <3>6, EntryAppears
    <3>8. Total(ledger'[o]) = n
      BY <1>1, <1>2, <3>4, <3>7, TotalEmpty
    <3>9. e \in ledger'[o] /\ e.at = opening[o].at /\ e.direction = "CREDIT" /\ e.amount = n
      BY <3>3, <3>7
    <3> QED
      BY <2>2, <3>5, <3>7, <3>8, <3>9
  <2> QED
    BY <2>1, <2>2
<1>5. Booked(o)'
  BY <1>1, <1>3, <1>4 DEF Booked, IsOpening
<1>6. ASSUME NEW p \in Openings \ {o}
      PROVE  /\ wallets'[p] # None => Booked(p)'
             /\ wallets'[p] = None => ledger'[p] = {} /\ outbox'[p] = {}
             /\ opening'[p].step \in {"insert", "commit"} => opening'[p].at \in Times
  <2>1. /\ wallets'[p] = wallets[p] /\ opening'[p] = opening[p] /\ ledger'[p] = ledger[p]
        /\ outbox'[p] = outbox[p]
    BY <1>3, <1>4
  <2>2. wallets[p] # None => Booked(p)
    BY DEF BooksInv
  <2> QED
    BY <2>1, <2>2 DEF BooksInv, Booked, IsOpening
<1>7. wallets'[o] # None /\ opening'[o].step \notin {"insert", "commit"}
  <2>1. Open!NewWallet(opening[o].request) \in WalletStates
    BY <1>1, <1>2, WalletsAssumption DEF Accepted, Open!NewWallet, WalletStates
  <2> QED
    BY <1>3, <2>1, NoneAssumption
<1> QED
  BY <1>4, <1>5, <1>6, <1>7 DEF BooksInv

(* A call that opens a wallet, by its step.                                *)
LEMMA OpeningKeepsBooks ==
    ASSUME BooksInv, OwnersInv', NEW o \in Openings, Open!Step(o)
    PROVE  BooksInv'
<1>0. opening \in [Openings -> Open!Calls] /\ opening[o] \in Open!Calls
  BY DEF BooksInv, OwnersInv, BalancesInv
<1>1. ASSUME NEW step \in {"refused", "conflict", "lost"}, Open!End(o, step),
             UNCHANGED <<wallets, ledger, outbox>>, opening[o].step \in {"idle", "insert", "commit"}
      PROVE  BooksInv'
  <2>1. wallets[o] = None
    BY <1>1, OpenedCallsRest
  <2>2. PICK c : c = [step |-> step, request |-> None, at |-> None]
    OBVIOUS
  <2>3. opening' = [opening EXCEPT ![o] = c] /\ c.step = step
    BY <1>1, <2>2 DEF Open!End
  <2> QED
    BY <1>1, <2>1, <2>3, CallKeepsBooks
<1>2. ASSUME NEW q \in Requests, NEW at \in Times, Open!Begin(o, q, at)
      PROVE  BooksInv'
  <2>1. /\ UNCHANGED <<wallets, ledger, outbox>> /\ opening[o].step = "idle"
        /\ wallets[o] = None
    BY <1>2, OpenedCallsRest DEF Open!Begin
  <2>2. CASE opening' = [opening EXCEPT ![o] = [step |-> "insert", request |-> q, at |-> at]]
    <3>1. PICK c : c = [step |-> "insert", request |-> q, at |-> at]
      OBVIOUS
    <3>2. opening' = [opening EXCEPT ![o] = c] /\ c.at \in Times
      BY <2>2, <3>1
    <3> QED
      BY <2>1, <3>2, CallKeepsBooks
  <2> QED
    BY <1>1, <1>2, <2>1, <2>2 DEF Open!Begin
<1>3. ASSUME Open!Insert(o)
      PROVE  BooksInv'
  <2>1. /\ UNCHANGED <<wallets, ledger, outbox>> /\ opening[o].step = "insert"
        /\ wallets[o] = None /\ opening[o].at \in Times
    BY <1>3, OpenedCallsRest DEF Open!Insert, BooksInv
  <2>2. CASE Open!Goto(o, "commit")
    <3>1. PICK c : c = [opening[o] EXCEPT !.step = "commit"]
      OBVIOUS
    <3>2. opening' = [opening EXCEPT ![o] = c] /\ c.at = opening[o].at
      BY <1>0, <2>2, <3>1 DEF Open!Goto, Open!Calls
    <3> QED
      BY <2>1, <3>2, CallKeepsBooks
  <2> QED
    BY <1>1, <1>3, <2>1, <2>2 DEF Open!Insert
<1>4. CASE Open!Commit(o)
  BY <1>4, PublishKeepsBooks DEF Open!Commit, Open!Goto
<1>5. CASE Open!CommitUnacknowledged(o)
  BY <1>5, PublishKeepsBooks DEF Open!CommitUnacknowledged, Open!Goto
<1>6. CASE Open!Lose(o)
  BY <1>1, <1>6 DEF Open!Lose
<1> QED
  BY <1>2, <1>3, <1>4, <1>5, <1>6 DEF Open!Step

(* What a movement makes of the balance is what its entry says.            *)
LEMMA MovedByAmount ==
    ASSUME NEW b \in 0 .. MaxInt, NEW n \in 1 .. MaxInt, NEW d \in {"CREDIT", "DEBIT"},
           After(d, n, b).ok
    PROVE  After(d, n, b).value = IF d = "CREDIT" THEN b + n ELSE b - n
<1>1. b \in Int64 /\ n \in Int64 /\ n # MinInt
  BY MaxIntAssumption DEF Int64, MinInt
<1>2. CASE d = "DEBIT"
  <2>1. After(d, n, b) = IfItFits(b - n)
    BY <1>1, <1>2, SubtractIsExact DEF After
  <2> QED
    BY <1>2, <2>1 DEF IfItFits, Exactly, Overflow
<1>3. CASE d = "CREDIT"
  <2>1. After(d, n, b) = IfItFits(b + n)
    BY <1>1, <1>3, AddIsExact DEF After
  <2> QED
    BY <1>3, <2>1 DEF IfItFits, Exactly, Overflow
<1> QED
  BY <1>2, <1>3

(* A movement adds its entry and nothing else.                             *)
LEMMA MoveKeepsBooks ==
    ASSUME BooksInv, OwnersInv', NEW w \in Openings, NEW d \in {"CREDIT", "DEBIT"},
           NEW n \in Amounts, NEW at \in Times, Move(w, d, n, at), UNCHANGED <<outbox, opening>>
    PROVE  BooksInv'
<1> DEFINE b == wallets[w].balance
<1>1. /\ wallets[w] # None /\ wallets[w] \in WalletStates /\ Booked(w) /\ n \in 1 .. MaxInt
      /\ wallets \in [Openings -> WalletStates \cup {None}]
  BY NoneIsNoWallet, WalletsAssumption DEF Move, BooksInv, OwnersInv, BalancesInv
<1>2. b \in 0 .. MaxInt /\ After(d, n, b).ok
  BY <1>1 DEF Move, WalletStates
<1>3. /\ wallets'[w].balance = After(d, n, b).value
      /\ \A p \in Openings \ {w} : wallets'[p] = wallets[p]
  BY <1>1 DEF Move, WalletStates
<1>4. PICK id \in FreshIds(ledger) :
          ledger' = [ledger EXCEPT ![w] =
                        @ \cup {[at |-> at, id |-> id, direction |-> d, amount |-> n]}]
  BY DEF Move
<1>5. PICK e : e = [at |-> at, id |-> id, direction |-> d, amount |-> n]
  OBVIOUS
<1>6. e \in Entries /\ e.id \in FreshIds(ledger) /\ Signed(e) = IF d = "CREDIT" THEN n ELSE - n
  BY <1>1, <1>5 DEF Entries, Signed, FreshIds
<1>7. ledger' = [ledger EXCEPT ![w] = @ \cup {e}]
      /\ outbox' \in [Openings -> SUBSET {"Processed", "BalanceChanged"}]
  BY <1>4, <1>5 DEF BooksInv, LedgersOK
<1>8. /\ LedgersOK' /\ \A p \in Openings \ {w} : ledger'[p] = ledger[p]
      /\ ledger'[w] = ledger[w] \cup {e}
      /\ Total(ledger'[w]) = Total(ledger[w]) + Signed(e)
  BY <1>6, <1>7, EntryAppears
<1>9. wallets'[w].balance = Total(ledger'[w])
  <2>1. Total(ledger[w]) = b
    BY <1>1 DEF Booked
  <2>2. After(d, n, b).value = IF d = "CREDIT" THEN b + n ELSE b - n
    BY <1>1, <1>2, MovedByAmount
  <2> QED
    BY <1>1, <1>2, <1>3, <1>6, <1>8, <2>1, <2>2
<1>10. Booked(w)'
  <2>1. opening' = opening /\ outbox' = outbox
    OBVIOUS
  <2>2. ASSUME Open!Initial(opening[w].request).value # 0
        PROVE  \E f \in ledger'[w] : f.at = opening[w].at /\ f.direction = "CREDIT"
                                     /\ f.amount = Open!Initial(opening[w].request).value
    BY <1>1, <1>8, <2>2 DEF Booked, IsOpening
  <2> QED
    BY <1>1, <1>9, <2>1, <2>2 DEF Booked, IsOpening
<1>11. wallets'[w] # None
  <2> DEFINE moved(x, y) == [x EXCEPT !.balance = y, !.version = x.version + 1]
  <2>2. wallets'[w] = moved(wallets[w], After(d, n, b).value)
    BY <1>1 DEF Move
  <2>3. PICK h \in WalletStates : h = wallets[w]
    BY <1>1
  <2>4. PICK v \in 0 .. MaxInt : v = After(d, n, b).value
    BY <1>1, <1>2, MovedIsBalance DEF Move
  <2>1. h.version + 1 \in Nat \ {0}
    BY DEF WalletStates
  <2>5. moved(h, v) \in WalletStates
    BY <2>1 DEF WalletStates
  <2> HIDE DEF moved, b
  <2>6. wallets'[w] = moved(h, v)
    BY <2>2, <2>3, <2>4
  <2> QED
    BY <2>5, <2>6, NoneAssumption
<1>12. ASSUME NEW p \in Openings \ {w}
       PROVE  /\ wallets'[p] # None => Booked(p)'
              /\ wallets'[p] = None => ledger'[p] = {} /\ outbox'[p] = {}
  <2>1. wallets'[p] = wallets[p] /\ ledger'[p] = ledger[p] /\ outbox' = outbox /\ opening' = opening
    BY <1>3, <1>8
  <2> QED
    BY <2>1 DEF BooksInv, Booked, IsOpening
<1>13. \A p \in Openings : opening'[p].step \in {"insert", "commit"} => opening'[p].at \in Times
  BY DEF BooksInv
<1> QED
  BY <1>8, <1>10, <1>11, <1>12, <1>13 DEF BooksInv

(* Only openings and movements change the tables.                          *)
LEMMA BooksNext == BooksInv /\ [Next]_vars => BooksInv'
<1> SUFFICES ASSUME BooksInv, [Next]_vars PROVE BooksInv'
  OBVIOUS
<1>0. OwnersInv'
  BY OwnersNext DEF BooksInv
<1>1. CASE UNCHANGED <<wallets, ledger, outbox, opening>>
  BY <1>0, <1>1 DEF BooksInv, LedgersOK, Booked, IsOpening
<1>2. ASSUME NEW r \in Auditors, Audit!Step(r), UNCHANGED <<outbox, opening, walk>>
      PROVE  BooksInv'
  BY <1>1, <1>2 DEF Audit!Step, Audit!FindByID, Audit!SumByWallet
<1>3. ASSUME NEW k \in Walks, Pages!Step(k), UNCHANGED <<wallets, outbox, opening, audit>>
      PROVE  BooksInv'
  BY <1>1, <1>3 DEF Pages!Step, Pages!FirstPage, Pages!NextPage
<1> QED
  BY <1>0, <1>1, <1>2, <1>3, OpeningKeepsBooks, MoveKeepsBooks DEF Next, vars

(* A wallet is there with the entry and the events of its opening or not   *)
(* at all (OpenWallet's transaction), and from then on its balance is the  *)
(* sum of its entries, for any number of wallets, movements and calls.     *)
THEOREM WalletsOpenWhole == Spec => []OpenedWhole
<1>1. BooksInv => OpenedWhole
  BY DEF BooksInv, Booked, OpenedWhole
<1> QED
  BY BooksInit, BooksNext, <1>1, PTL DEF Spec
-----------------------------------------------------------------------------
(* What is committed stays: entries, wallets and the calls that opened     *)
(* them.                                                                   *)
LEMMA TablesGrow ==
    ASSUME BooksInv, [Next]_vars, NEW o \in Openings
    PROVE  /\ ledger[o] \subseteq ledger'[o]
           /\ wallets[o] # None => wallets'[o] # None /\ opening'[o] = opening[o]
<1>0. /\ ledger \in [Openings -> SUBSET Entries] /\ BooksInv'
      /\ wallets \in [Openings -> WalletStates \cup {None}]
      /\ opening \in [Openings -> Open!Calls]
  BY BooksNext DEF BooksInv, LedgersOK, OwnersInv, BalancesInv
<1>1. CASE UNCHANGED <<wallets, ledger, opening>>
  BY <1>1
<1>2. ASSUME NEW p \in Openings, Open!Step(p) PROVE ledger[o] \subseteq ledger'[o]
  <2>1. CASE Open!Publish(p)
    BY <1>0, <2>1 DEF Open!Publish
  <2>2. CASE UNCHANGED ledger
    BY <2>2
  <2> QED
    BY <1>2, <2>1, <2>2 DEF Open!Step, Open!Begin, Open!Insert, Open!Commit, Open!Lose,
                            Open!CommitUnacknowledged
<1>3. ASSUME NEW p \in Openings, Open!Step(p), wallets[o] # None
      PROVE  opening'[o] = opening[o] /\ wallets'[o] = wallets[o]
  <2>1. opening[o].step \in {"opened", "lost"}
    BY <1>3, OpenedCallsRest
  <2>2. p # o
    BY <1>3, <2>1 DEF Open!Step, Open!Begin, Open!Insert, Open!Commit, Open!Lose,
                      Open!CommitUnacknowledged
  <2>3. opening'[o] = opening[o]
    BY <1>0, <1>3, <2>2
    DEF Open!Step, Open!Begin, Open!Insert, Open!Commit, Open!Lose,
        Open!CommitUnacknowledged, Open!Goto, Open!End
  <2>4. wallets'[o] = wallets[o]
    BY <1>0, <1>3, <2>2
    DEF Open!Step, Open!Begin, Open!Insert, Open!Commit, Open!Lose,
        Open!CommitUnacknowledged, Open!Publish
  <2> QED
    BY <2>3, <2>4
<1>4. ASSUME NEW w \in Openings, NEW d \in {"CREDIT", "DEBIT"}, NEW n \in Amounts,
             NEW at \in Times, Move(w, d, n, at), UNCHANGED <<outbox, opening, audit, walk>>
      PROVE  ledger[o] \subseteq ledger'[o] /\ (wallets[o] # None => wallets'[o] # None)
  <2>1. ledger[o] \subseteq ledger'[o]
    BY <1>0, <1>4 DEF Move
  <2>2. ASSUME wallets[o] # None PROVE wallets'[o] # None
    <3>1. CASE o # w
      BY <1>0, <1>4, <2>2, <3>1 DEF Move
    <3>2. CASE o = w
      <4>1. ledger'[o] # {}
        BY <1>0, <1>4, <3>2 DEF Move
      <4> QED
        BY <1>0, <4>1 DEF BooksInv
    <3> QED
      BY <3>1, <3>2
  <2> QED
    BY <2>1, <2>2
<1>5. ASSUME NEW r \in Auditors, Audit!Step(r), UNCHANGED <<outbox, opening, walk>>
      PROVE  UNCHANGED <<wallets, ledger, opening>>
  BY <1>5 DEF Audit!Step, Audit!FindByID, Audit!SumByWallet
<1>6. ASSUME NEW k \in Walks, Pages!Step(k), UNCHANGED <<wallets, outbox, opening, audit>>
      PROVE  UNCHANGED <<wallets, ledger, opening>>
  BY <1>6 DEF Pages!Step, Pages!FirstPage, Pages!NextPage
<1> QED
  BY <1>1, <1>2, <1>3, <1>4, <1>5, <1>6 DEF Next, vars

-----------------------------------------------------------------------------
(* A reconciliation that has read the balance, and one that has answered.  *)
HasRead(a) ==
    /\ a.wallet \in Openings /\ wallets[a.wallet] # None
    /\ a.entries \subseteq ledger[a.wallet] /\ a.stored = Total(a.entries)
Explained(a) ==
    /\ a.error # "OVERFLOW"
    /\ a.error = "INVALID_CURRENCY" =>
           /\ a.wallet \in Openings /\ wallets[a.wallet] # None /\ a.stored = 0
           /\ Open!Initial(opening[a.wallet].request).value = 0
    /\ a.error = None => /\ a.entries \subseteq a.counted
                         /\ a.difference + Total(a.counted \ a.entries) = 0

AuditOK(r) ==
    /\ audit[r].difference # MinInt
    /\ audit[r].step = "sum" => HasRead(audit[r])
    /\ audit[r].step = "done" => Explained(audit[r])

AuditsInv ==
    /\ BooksInv
    /\ audit \in [Auditors -> Audit!Audits]
    /\ \A r \in Auditors : AuditOK(r)

LEMMA SameSubtract == \A a, b : Audit!Subtract(a, b) = Subtract(a, b)
  BY DEF Audit!Subtract, Audit!CheckedAdd, Audit!CheckedNegate, Audit!Wrap, Audit!Width,
         Audit!MinInt, Audit!Exactly, Audit!Overflow,
         Subtract, CheckedAdd, CheckedNegate, Wrap, Width, MinInt, Exactly, Overflow

LEMMA AuditsTyped ==
    Audit!Audits =
        [step : {"idle", "sum", "done"}, wallet : Openings \cup {None},
         stored : 0 .. MaxInt, entries : SUBSET Entries, counted : SUBSET Entries,
         difference : Int64, error : {None, "NOT_FOUND", "INVALID_CURRENCY", "OVERFLOW"}]
  BY SameEntries DEF Audit!Audits, Audit!Int64, Audit!MinInt, Int64, MinInt

(* The balances of wallets with money and without.                         *)
LEMMA BalanceIsTotal ==
    ASSUME BooksInv, NEW o \in Openings, wallets[o] # None
    PROVE  /\ wallets[o].balance \in 0 .. MaxInt /\ wallets[o].balance = Total(ledger[o])
           /\ Sheet(ledger[o])
           /\ ledger[o] = {} => Open!Initial(opening[o].request).value = 0
<1>1. wallets[o] \in WalletStates
  BY NoneIsNoWallet DEF BooksInv
<1> QED
  BY <1>1 DEF BooksInv, Booked, LedgersOK, Sheet, WalletStates

LEMMA AuditsInit == Init => AuditsInv
<1> SUFFICES ASSUME Init PROVE AuditsInv
  OBVIOUS
<1>1. audit = [r \in Auditors |-> Audit!NoAudit]
  BY DEF Init, Audit!Init
<1>2. Audit!NoAudit \in Audit!Audits /\ Audit!NoAudit.step = "idle" /\ Audit!NoAudit.difference = 0
  BY AuditsTyped, MaxIntAssumption DEF Audit!NoAudit, Int64, MinInt
<1>3. 0 # MinInt
  BY MaxIntAssumption DEF MinInt
<1> QED
  BY <1>1, <1>2, <1>3, BooksInit DEF AuditsInv, AuditOK

(* Whatever is committed, the other reconciliations stay right.            *)
LEMMA AuditStays ==
    ASSUME AuditsInv, [Next]_vars, NEW r \in Auditors, audit'[r] = audit[r]
    PROVE  AuditOK(r)'
<1>1. PICK a : a = audit[r]
  OBVIOUS
<1>2. \A o \in Openings :
         /\ ledger[o] \subseteq ledger'[o]
         /\ wallets[o] # None => wallets'[o] # None /\ opening'[o] = opening[o]
  BY TablesGrow DEF AuditsInv
<1>3. HasRead(a) => HasRead(a)'
  BY <1>2 DEF HasRead
<1>4. Explained(a) => Explained(a)'
  BY <1>2 DEF Explained
<1>5. /\ a.difference # MinInt /\ (a.step = "sum" => HasRead(a))
      /\ (a.step = "done" => Explained(a))
  BY <1>1 DEF AuditsInv, AuditOK
<1>6. AuditOK(r)' <=> /\ a.difference # MinInt /\ (a.step = "sum" => HasRead(a)')
                      /\ (a.step = "done" => Explained(a)')
  BY <1>1 DEF AuditOK, HasRead, Explained
<1> QED
  BY <1>3, <1>4, <1>5, <1>6

(* The first read: the balance is the sum of the entries there are.        *)
LEMMA FindKeepsAudits ==
    ASSUME AuditsInv, NEW r \in Auditors, NEW w \in Openings, Audit!FindByID(r, w)
    PROVE  audit' \in [Auditors -> Audit!Audits] /\ AuditOK(r)'
<1>1. audit[r] \in Audit!Audits /\ audit[r].difference # MinInt /\ UNCHANGED <<wallets, ledger>>
  BY DEF AuditsInv, AuditOK, Audit!FindByID
<1>2. CASE wallets[w] = None
  <2>1. PICK a : a = [audit[r] EXCEPT !.step = "done", !.wallet = w, !.error = "NOT_FOUND"]
    OBVIOUS
  <2>2. audit' = [audit EXCEPT ![r] = a]
    BY <1>2, <2>1 DEF Audit!FindByID
  <2>3. /\ a \in Audit!Audits /\ a.difference # MinInt /\ a.step = "done"
        /\ a.error = "NOT_FOUND"
    BY <1>1, <2>1, AuditsTyped
  <2>4. audit'[r] = a /\ audit' \in [Auditors -> Audit!Audits]
    BY <2>2, <2>3 DEF AuditsInv
  <2>5. Explained(a)'
    BY <2>3, NoneAssumption DEF Explained
  <2> QED
    BY <2>3, <2>4, <2>5 DEF AuditOK, Explained
<1>3. CASE wallets[w] # None
  <2>1. PICK a : a = [audit[r] EXCEPT !.step = "sum", !.wallet = w, !.stored = wallets[w].balance,
                                      !.entries = ledger[w]]
    OBVIOUS
  <2>2. audit' = [audit EXCEPT ![r] = a]
    BY <1>3, <2>1 DEF Audit!FindByID
  <2>3. /\ wallets[w].balance \in 0 .. MaxInt /\ wallets[w].balance = Total(ledger[w])
        /\ ledger[w] \in SUBSET Entries
    BY <1>3, BalanceIsTotal DEF AuditsInv, Sheet
  <2>4. /\ a \in Audit!Audits /\ a.difference # MinInt /\ a.step = "sum"
        /\ a.wallet = w /\ a.entries = ledger[w] /\ a.stored = wallets[w].balance
    BY <1>1, <2>1, <2>3, AuditsTyped
  <2>5. audit'[r] = a /\ audit' \in [Auditors -> Audit!Audits]
    BY <2>2, <2>4 DEF AuditsInv
  <2>6. HasRead(a)
    BY <1>3, <2>3, <2>4 DEF HasRead
  <2>7. HasRead(a)'
    BY <1>1, <2>6 DEF HasRead
  <2> QED
    BY <2>4, <2>5, <2>7 DEF AuditOK, HasRead
<1> QED
  BY <1>2, <1>3

(* The second read: the entries still add up to the balance of now, which  *)
(* is within the word, and differs from the first by what came between.    *)
LEMMA SumKeepsAudits ==
    ASSUME AuditsInv, NEW r \in Auditors, Audit!SumByWallet(r), UNCHANGED opening
    PROVE  audit' \in [Auditors -> Audit!Audits] /\ AuditOK(r)'
<1> DEFINE w == audit[r].wallet
           es == ledger[w]
           b == audit[r].stored
           t == wallets[w].balance
<1>1. /\ audit[r] \in Audit!Audits /\ HasRead(audit[r]) /\ UNCHANGED <<wallets, ledger>>
      /\ w \in Openings /\ wallets[w] # None
  BY DEF AuditsInv, AuditOK, Audit!SumByWallet, HasRead
<1>2. t \in 0 .. MaxInt /\ t = Total(es) /\ Sheet(es)
      /\ (es = {} => Open!Initial(opening[w].request).value = 0)
  BY <1>1, BalanceIsTotal DEF AuditsInv
<1>3. b \in 0 .. MaxInt /\ b = Total(audit[r].entries) /\ audit[r].entries \in SUBSET es
  BY <1>1, AuditsTyped DEF HasRead
<1>4. Subtract(b, Total(es)) = Exactly(b - t)
  <2>1. b \in Int64 /\ t \in Int64 /\ t # MinInt /\ b - t \in Int64
    BY <1>2, <1>3, MaxIntAssumption DEF Int64, MinInt
  <2> QED
    BY <1>2, <2>1, SubtractIsExact DEF IfItFits
<1>5. Audit!Subtract(b, Audit!Calculated(es)) = Exactly(b - t)
  BY <1>4, SameSubtract, SameTotal DEF Audit!Calculated
<1>6. PICK a : a = [audit[r] EXCEPT !.step = "done", !.counted = es, !.difference = b - t,
                                    !.error = IF es = {} THEN "INVALID_CURRENCY" ELSE None]
  OBVIOUS
<1>7. audit' = [audit EXCEPT ![r] = a]
  BY <1>5, <1>6 DEF Audit!SumByWallet, Exactly
<1>8. b - t \in Int64 /\ b - t # MinInt /\ es \in SUBSET Entries
  BY <1>2, <1>3, MaxIntAssumption DEF Int64, MinInt, Sheet
<1>9. /\ a \in Audit!Audits /\ a.step = "done" /\ a.counted = es /\ a.difference = b - t
      /\ a.error = (IF es = {} THEN "INVALID_CURRENCY" ELSE None)
      /\ a.wallet = w /\ a.stored = b /\ a.entries = audit[r].entries
  BY <1>1, <1>6, <1>8, AuditsTyped
<1>10. audit'[r] = a /\ audit' \in [Auditors -> Audit!Audits]
  BY <1>7, <1>9 DEF AuditsInv
<1>11. (b - t) + Total(es \ a.entries) = 0
  <2>1. t = b + Total(es \ a.entries)
    BY <1>2, <1>3, <1>9, TotalSplits
  <2>2. Total(es \ a.entries) \in Int
    BY <1>2, FS_Subset, TotalIsInt DEF Sheet
  <2> QED
    BY <1>2, <1>3, <2>1, <2>2
<1>12. ASSUME es = {} PROVE b = 0
  BY <1>3, <1>12, TotalEmpty
<1>13. Explained(a)
  <2>1. a.error # "OVERFLOW"
    BY <1>9, NoneAssumption
  <2>2. a.error = "INVALID_CURRENCY" =>
           /\ a.wallet \in Openings /\ wallets[a.wallet] # None /\ a.stored = 0
           /\ Open!Initial(opening[a.wallet].request).value = 0
    BY <1>1, <1>2, <1>9, <1>12, NoneAssumption
  <2>3. a.error = None => /\ a.entries \subseteq a.counted
                          /\ a.difference + Total(a.counted \ a.entries) = 0
    BY <1>3, <1>9, <1>11
  <2> QED
    BY <2>1, <2>2, <2>3 DEF Explained
<1>14. Explained(a)'
  BY <1>1, <1>13 DEF Explained
<1> HIDE DEF w, es, b, t
<1> QED
  BY <1>8, <1>9, <1>10, <1>14 DEF AuditOK, Explained

LEMMA AuditsNext == AuditsInv /\ [Next]_vars => AuditsInv'
<1> SUFFICES ASSUME AuditsInv, [Next]_vars PROVE AuditsInv'
  OBVIOUS
<1>1. BooksInv'
  BY BooksNext DEF AuditsInv
<1>2. CASE UNCHANGED audit
  BY <1>1, <1>2, AuditStays DEF AuditsInv
<1>3. ASSUME NEW r \in Auditors, Audit!Step(r), UNCHANGED <<outbox, opening, walk>>
      PROVE  AuditsInv'
  <2>1. audit' \in [Auditors -> Audit!Audits] /\ AuditOK(r)'
    BY <1>3, FindKeepsAudits, SumKeepsAudits DEF Audit!Step
  <2>2. \A q \in Auditors \ {r} : audit'[q] = audit[q]
    BY <1>3 DEF AuditsInv, Audit!Step, Audit!FindByID, Audit!SumByWallet
  <2>3. \A q \in Auditors \ {r} : AuditOK(q)'
    BY <2>2, AuditStays
  <2> QED
    BY <1>1, <2>1, <2>3 DEF AuditsInv
<1> QED
  BY <1>2, <1>3 DEF Next, vars

(* A reconciliation blames a wallet for just what was committed between    *)
(* its two reads, its subtraction never fails, and only a wallet opened    *)
(* with nothing has no answer, for any number of wallets and movements.    *)
THEOREM DifferencesAreExplained == Spec => []ReconciliationIsExplained
<1>1. AuditsInv => ReconciliationIsExplained
  BY DEF AuditsInv, AuditOK, Explained, ReconciliationIsExplained
<1> QED
  BY AuditsInit, AuditsNext, <1>1, PTL DEF Spec

(* An opened wallet holds just the amount its request spells, and what a   *)
(* reconciliation answers with is read back as it is written, in every     *)
(* word.                                                                   *)
THEOREM AnsweredAmountsAreExact == Spec => []AmountsAreExact
<1>1. AuditsInv => AmountsAreExact
  <2> SUFFICES ASSUME AuditsInv PROVE AmountsAreExact
    OBVIOUS
  <2>1. ASSUME NEW o \in Openings, wallets[o] # None
        PROVE  Open!Initial(opening[o].request)
                   = Exactly(ValueOf(opening[o].request.initialBalance))
    <3>1. PICK q \in Accepted : q = opening[o].request
      BY <2>1 DEF AuditsInv, BooksInv, Booked
    <3>2. q.initialBalance \in Texts /\ Open!Initial(q) = Parse(q.initialBalance)
      BY WalletsAssumption, SameParse DEF Accepted, Open!Initial
    <3>3. Parse(q.initialBalance).ok
      BY <3>2 DEF Accepted
    <3> QED
      BY <3>1, <3>2, <3>3, ParseIsExact DEF IfItFits, Overflow
  <2>2. ASSUME NEW m \in Int64, m # MinInt PROVE ReadsBack(m)
    BY <2>2, TextExact DEF TextIsExact, ReadsBack
  <2>3. ASSUME NEW r \in Auditors
        PROVE  /\ audit[r].stored \in Int64 /\ audit[r].stored # MinInt
               /\ audit[r].difference \in Int64 /\ audit[r].difference # MinInt
    <3>1. audit[r] \in Audit!Audits /\ audit[r].difference # MinInt
      BY DEF AuditsInv, AuditOK
    <3>2. audit[r].stored \in 0 .. MaxInt /\ audit[r].difference \in Int64
      BY <3>1, AuditsTyped
    <3> QED
      BY <3>1, <3>2, MaxIntAssumption DEF Int64, MinInt
  <2> QED
    BY <2>1, <2>2, <2>3 DEF AmountsAreExact
<1> QED
  BY AuditsInit, AuditsNext, <1>1, PTL DEF Spec

-----------------------------------------------------------------------------
(***************************************************************************)
(* Pages.  The entries beyond a cursor can be put in one order, a page is  *)
(* the head of it, and what is beyond the last entry of a page is what the *)
(* page left out.                                                          *)
(***************************************************************************)

(* Entries with ids of their own are in one order only.                    *)
Distinct(S) == \A e, f \in S : e.id = f.id => e = f
Ascending(s) == \A i, j \in DOMAIN s : i < j => Precedes(s[i], s[j])

LEMMA PrecedesOrders ==
    ASSUME NEW e \in Entries, NEW f \in Entries
    PROVE  /\ ~ Precedes(e, e)
           /\ Precedes(e, f) => ~ Precedes(f, e) /\ e # f
           /\ e.id # f.id => Precedes(e, f) \/ Precedes(f, e)
           /\ \A g \in Entries : Precedes(e, f) /\ Precedes(f, g) => Precedes(e, g)
<1>1. /\ e.at \in Int /\ e.id \in Int /\ f.at \in Int /\ f.id \in Int
      /\ \A g \in Entries : g.at \in Int /\ g.id \in Int
  BY RecordsAssumption DEF Entries
<1>2. /\ ~ Precedes(e, e)
      /\ Precedes(e, f) => ~ Precedes(f, e) /\ e # f
      /\ e.id # f.id => Precedes(e, f) \/ Precedes(f, e)
  BY <1>1 DEF Precedes
<1>3. ASSUME NEW g \in Entries, Precedes(e, f), Precedes(f, g) PROVE Precedes(e, g)
  BY <1>1, <1>3 DEF Precedes
<1> QED
  BY <1>2, <1>3

(* One of them is the last.                                                *)
LEMMA LastEntry ==
    ASSUME NEW S, Sheet(S), Distinct(S), S # {}
    PROVE  \E m \in S : \A e \in S \ {m} : Precedes(e, m)
<1> DEFINE F == {T \in SUBSET S : T # {} /\ ~ \E m \in T : \A e \in T \ {m} : Precedes(e, m)}
<1>1. SUFFICES ASSUME F # {} PROVE FALSE
  OBVIOUS
<1>2. F \in SUBSET (SUBSET S)
  OBVIOUS
<1> HIDE DEF F
<1>3. PICK T \in F : IsFiniteSet(T) /\ \A U \in F : U \subseteq T => U = T
  BY <1>1, <1>2, SmallestPart DEF Sheet
<1>4. T \in SUBSET S /\ T # {} /\ ~ \E m \in T : \A e \in T \ {m} : Precedes(e, m)
  BY <1>3 DEF F
<1>5. PICK x : x \in T
  BY <1>4
<1>6. T \ {x} # {}
  BY <1>4, <1>5
<1>7. PICK y \in T \ {x} : \A e \in (T \ {x}) \ {y} : Precedes(e, y)
  <2>1. T \ {x} \in SUBSET S /\ T \ {x} \subseteq T /\ T \ {x} # T
    BY <1>4, <1>5
  <2>2. T \ {x} \notin F
    BY <1>3, <2>1
  <2> QED
    BY <1>6, <2>1, <2>2 DEF F
<1>8. /\ x \in Entries /\ y \in Entries /\ x.id # y.id /\ T \subseteq Entries
  BY <1>4, <1>5, <1>7 DEF Sheet, Distinct
<1>9. CASE Precedes(x, y)
  BY <1>4, <1>7, <1>9
<1>10. CASE Precedes(y, x)
  <2>1. ASSUME NEW e \in T \ {x} PROVE Precedes(e, x)
    <3>1. e \in Entries /\ (e = y \/ Precedes(e, y))
      BY <1>7, <1>8
    <3> QED
      BY <1>8, <1>10, <3>1, PrecedesOrders
  <2> QED
    BY <1>4, <1>5, <2>1
<1> QED
  BY <1>8, <1>9, <1>10, PrecedesOrders

(* They can be put in order: the last one after the others.                *)
LEMMA OrderExists ==
    ASSUME NEW S, Sheet(S), Distinct(S)
    PROVE  \E s \in [1 .. Cardinality(S) -> S] : Ascending(s)
<1> DEFINE F == {T \in SUBSET S : ~ \E s \in [1 .. Cardinality(T) -> T] : Ascending(s)}
<1>1. SUFFICES ASSUME F # {} PROVE FALSE
  OBVIOUS
<1>2. F \in SUBSET (SUBSET S)
  OBVIOUS
<1> HIDE DEF F
<1>3. PICK T \in F : IsFiniteSet(T) /\ \A U \in F : U \subseteq T => U = T
  BY <1>1, <1>2, SmallestPart DEF Sheet
<1>4. T \in SUBSET S /\ ~ \E s \in [1 .. Cardinality(T) -> T] : Ascending(s)
  BY <1>3 DEF F
<1>5. CASE T = {}
  <2>1. Cardinality(T) = 0
    BY <1>5, FS_EmptySet
  <2>2. [i \in 1 .. 0 |-> i] \in [1 .. Cardinality(T) -> T]
    BY <2>1
  <2>3. Ascending([i \in 1 .. 0 |-> i])
    BY DEF Ascending
  <2> QED
    BY <1>4, <2>2, <2>3
<1>6. CASE T # {}
  <2>1. Sheet(T) /\ Distinct(T)
    BY <1>3, <1>4 DEF Sheet, Distinct
  <2>2. PICK m \in T : \A e \in T \ {m} : Precedes(e, m)
    BY <1>6, <2>1, LastEntry
  <2>3. PICK n \in Nat : n = Cardinality(T)
    BY <1>3, FS_CardinalityType
  <2>4. Cardinality(T \ {m}) = n - 1
    BY <1>3, <2>3, FS_RemoveElement
  <2>5. PICK s \in [1 .. n - 1 -> T \ {m}] : Ascending(s)
    <3>1. T \ {m} \in SUBSET S /\ T \ {m} \subseteq T /\ T \ {m} # T
      BY <1>4
    <3>2. \E s \in [1 .. Cardinality(T \ {m}) -> T \ {m}] : Ascending(s)
      BY <1>3, <3>1 DEF F
    <3> QED
      BY <2>4, <3>2
  <2> DEFINE u == [i \in 1 .. n |-> IF i = n THEN m ELSE s[i]]
  <2>6. u \in [1 .. n -> T]
    <3>1. ASSUME NEW i \in 1 .. n PROVE (IF i = n THEN m ELSE s[i]) \in T
      <4>1. i # n => i \in 1 .. n - 1
        BY <2>3
      <4> QED
        BY <4>1
    <3> QED
      BY <3>1
  <2>7. ASSUME NEW i \in 1 .. n, NEW j \in 1 .. n, i < j PROVE Precedes(u[i], u[j])
    <3>1. i \in 1 .. n - 1 /\ u[i] = s[i]
      BY <2>7
    <3>2. CASE j = n
      BY <2>2, <3>1, <3>2
    <3>3. CASE j # n
      <4>1. j \in 1 .. n - 1 /\ u[j] = s[j]
        BY <3>3
      <4> QED
        BY <2>5, <2>7, <3>1, <4>1 DEF Ascending
    <3> QED
      BY <3>2, <3>3
  <2> HIDE DEF u
  <2>8. Ascending(u)
    BY <2>6, <2>7 DEF Ascending
  <2> QED
    BY <1>4, <2>3, <2>6, <2>8
<1> QED
  BY <1>5, <1>6

(* ORDER BY lists every entry once and in order.                           *)
LEMMA InOrderLists ==
    ASSUME NEW S, Sheet(S), Distinct(S)
    PROVE  /\ Pages!InOrder(S) \in Seq(S) /\ Ascending(Pages!InOrder(S))
           /\ \A e \in S : \E i \in DOMAIN Pages!InOrder(S) : Pages!InOrder(S)[i] = e
<1> DEFINE s == Pages!InOrder(S)
           n == Cardinality(S)
<1>1. s = CHOOSE f \in [1 .. n -> S] : Ascending(f)
  BY DEF Pages!InOrder, Ascending, Pages!Precedes, Precedes, Cardinality, Pages!Cardinality
<1>2. s \in [1 .. n -> S] /\ Ascending(s)
  BY <1>1, OrderExists
<1>3. n \in Nat
  BY FS_CardinalityType DEF Sheet
<1> HIDE DEF s, n
<1>4. s \in Seq(S) /\ DOMAIN s = 1 .. n
  BY <1>2, <1>3
<1>5. ASSUME NEW i \in 1 .. n, NEW j \in 1 .. n, s[i] = s[j] PROVE i = j
  <2>1. s[i] \in Entries /\ s[j] \in Entries
    BY <1>2 DEF Sheet
  <2>2. ~ (i < j) /\ ~ (j < i)
    BY <1>2, <1>4, <1>5, <2>1, PrecedesOrders DEF Ascending
  <2> QED
    BY <2>2
<1>6. s \in Injection(1 .. n, S)
  BY <1>2, <1>5 DEF Injection, IsInjective
<1>7. Cardinality(1 .. n) = n /\ IsFiniteSet(1 .. n)
  BY <1>3, FS_Interval
<1>8. s \in Surjection(1 .. n, S)
  BY <1>6, <1>7, FS_Injection DEF Sheet, n
<1>9. \A e \in S : \E i \in DOMAIN s : s[i] = e
  BY <1>4, <1>8 DEF Surjection
<1> QED
  BY <1>2, <1>4, <1>9 DEF s
-----------------------------------------------------------------------------
(* A walk goes on behind the last entry it has seen: what its wallet had   *)
(* when it began is beyond the cursor, or seen.                            *)
Behind(cursor, seen) ==
    IF cursor = None THEN seen = << >>
    ELSE \A i \in DOMAIN seen : ~ Pages!Beyond(seen[i], cursor)
Ahead(cursor, seen, began) ==
    \A e \in began : Pages!Beyond(e, cursor) \/ \E i \in DOMAIN seen : seen[i] = e

Walked(x) ==
    /\ Ascending(x.seen)
    /\ x.step = "on" =>
           /\ x.wallet \in Openings /\ x.limit >= 1 /\ x.cursor # None
           /\ Behind(x.cursor, x.seen) /\ Ahead(x.cursor, x.seen, x.began)
           /\ x.began \subseteq ledger[x.wallet]
    /\ x.step = "done" => \A e \in x.began : \E i \in DOMAIN x.seen : x.seen[i] = e
WalkOK(k) == Walked(walk[k])

WalksInv ==
    /\ BooksInv
    /\ walk \in [Walks -> Pages!WalkStates]
    /\ \A k \in Walks : WalkOK(k)

LEMMA WalksTyped ==
    Pages!WalkStates =
        [step : {"idle", "on", "done", "failed"}, wallet : Openings \cup {None},
         limit : Int64, cursor : (Times \X EntryIds) \cup {None},
         seen : Seq(Entries), began : SUBSET Entries]
  BY SameEntries DEF Pages!WalkStates, Pages!Int64, Pages!MinInt, Int64, MinInt

(* The order of entries is that of their cursors.                          *)
LEMMA BeyondIsAfter ==
    ASSUME NEW e \in Entries, NEW f \in Entries
    PROVE  /\ <<f.at, f.id>> \in Times \X EntryIds /\ <<f.at, f.id>> # None
           /\ Pages!Beyond(e, <<f.at, f.id>>) <=> Precedes(f, e)
<1>1. <<f.at, f.id>> \in Times \X EntryIds /\ f.at \in Int /\ f.id \in Int
      /\ e.at \in Int /\ e.id \in Int
  BY RecordsAssumption DEF Entries
<1>2. <<f.at, f.id>> # None
  BY <1>1, NoneAssumption
<1>3. Pages!Beyond(e, <<f.at, f.id>>) <=> e.at > f.at \/ (e.at = f.at /\ e.id > f.id)
  BY <1>2 DEF Pages!Beyond
<1> QED
  BY <1>1, <1>2, <1>3 DEF Precedes

(* What is not beyond a cursor is before what is.                          *)
LEMMA BeyondSplits ==
    ASSUME NEW e \in Entries, NEW f \in Entries, NEW c \in Times \X EntryIds,
           ~ Pages!Beyond(e, c), Pages!Beyond(f, c)
    PROVE  Precedes(e, f)
<1>1. /\ c # None /\ c[1] \in Int /\ c[2] \in Int
      /\ e.at \in Int /\ e.id \in Int /\ f.at \in Int /\ f.id \in Int
  BY NoneAssumption, RecordsAssumption DEF Entries
<1> QED
  BY <1>1 DEF Pages!Beyond, Precedes

(* A page continues what is seen, in order.                                *)
LEMMA PageContinues ==
    ASSUME NEW seen \in Seq(Entries), Ascending(seen), NEW page \in Seq(Entries), Ascending(page),
           \A i \in DOMAIN seen, j \in DOMAIN page : Precedes(seen[i], page[j])
    PROVE  /\ seen \o page \in Seq(Entries) /\ Ascending(seen \o page)
           /\ \A i \in DOMAIN seen : \E k \in DOMAIN (seen \o page) : (seen \o page)[k] = seen[i]
           /\ \A j \in DOMAIN page : \E k \in DOMAIN (seen \o page) : (seen \o page)[k] = page[j]
           /\ \A k \in DOMAIN (seen \o page) :
                 \/ \E i \in DOMAIN seen : (seen \o page)[k] = seen[i]
                 \/ \E j \in DOMAIN page : (seen \o page)[k] = page[j]
<1> DEFINE all == seen \o page
           n == Len(seen)
           m == Len(page)
<1>1. /\ all \in Seq(Entries) /\ DOMAIN all = 1 .. n + m /\ n \in Nat /\ m \in Nat
      /\ DOMAIN seen = 1 .. n /\ DOMAIN page = 1 .. m
  BY ConcatProperties, LenProperties
<1>2. \A k \in 1 .. n : all[k] = seen[k]
  BY ConcatProperties
<1>3. \A k \in 1 .. n + m : k > n => all[k] = page[k - n] /\ k - n \in 1 .. m
  BY <1>1, ConcatProperties
<1>4. ASSUME NEW j \in 1 .. m PROVE n + j \in 1 .. n + m /\ all[n + j] = page[j]
  <2>1. n + j \in 1 .. n + m /\ n + j > n /\ (n + j) - n = j
    BY <1>1
  <2> QED
    BY <1>3, <2>1
<1> HIDE DEF all, n, m
<1>5. ASSUME NEW i \in 1 .. n + m, NEW j \in 1 .. n + m, i < j
      PROVE  Precedes(all[i], all[j])
  <2>1. CASE j <= n
    <3>1. i \in 1 .. n /\ j \in 1 .. n
      BY <1>1, <1>5, <2>1
    <3> QED
      BY <1>1, <1>2, <1>5, <3>1 DEF Ascending
  <2>2. CASE i <= n /\ j > n
    <3>1. i \in 1 .. n /\ j - n \in 1 .. m /\ all[j] = page[j - n]
      BY <1>1, <1>3, <2>2
    <3> QED
      BY <1>1, <1>2, <3>1
  <2>3. CASE i > n
    <3>1. /\ i - n \in 1 .. m /\ all[i] = page[i - n] /\ j > n
          /\ j - n \in 1 .. m /\ all[j] = page[j - n] /\ i - n < j - n
      BY <1>1, <1>3, <1>5, <2>3
    <3> QED
      BY <1>1, <3>1 DEF Ascending
  <2> QED
    BY <1>1, <2>1, <2>2, <2>3
<1>6. Ascending(all)
  BY <1>1, <1>5 DEF Ascending
<1>7. \A i \in 1 .. n : i \in 1 .. n + m
  BY <1>1
<1>8. ASSUME NEW k \in 1 .. n + m
      PROVE  (\E i \in 1 .. n : all[k] = seen[i]) \/ \E j \in 1 .. m : all[k] = page[j]
  BY <1>1, <1>2, <1>3
<1> QED
  BY <1>1, <1>2, <1>4, <1>6, <1>7, <1>8 DEF all

(* A page and what comes after it: the state a walk is in when it has read *)
(* one more.                                                               *)
LEMMA PageKeepsWalk ==
    ASSUME BooksInv, NEW k \in Walks, NEW w \in Openings,
           NEW cursor \in (Times \X EntryIds) \cup {None}, NEW limit \in Int64, limit >= 1,
           NEW seen \in Seq(Entries), NEW began \in SUBSET Entries,
           Ascending(seen), Behind(cursor, seen), Ahead(cursor, seen, began),
           began \subseteq ledger[w],
           walk \in [Walks -> Pages!WalkStates], Ascending(walk[k].seen),
           Pages!List(k, w, cursor, limit, seen, began), UNCHANGED ledger
    PROVE  walk' \in [Walks -> Pages!WalkStates] /\ WalkOK(k)'
<1> DEFINE es == {e \in ledger[w] : Pages!Beyond(e, cursor)}
           left == Pages!InOrder(es)
           n == Len(left)
<1>1. Sheet(es) /\ Distinct(es) /\ es \subseteq Entries
  <2>1. ledger[w] \subseteq Entries /\ IsFiniteSet(ledger[w])
        /\ \A e, f \in ledger[w] : e.id = f.id => e = f
    BY DEF BooksInv, LedgersOK
  <2>2. es \in SUBSET ledger[w]
    OBVIOUS
  <2> HIDE DEF es
  <2> QED
    BY <2>1, <2>2, FS_Subset DEF Sheet, Distinct
<1>2. /\ \A e : e \in es <=> e \in ledger[w] /\ Pages!Beyond(e, cursor)
  OBVIOUS
<1> HIDE DEF es
<1>3. /\ left \in Seq(es) /\ Ascending(left) /\ \A e \in es : \E i \in DOMAIN left : left[i] = e
  BY <1>1, InOrderLists
<1>4. /\ n \in Nat /\ DOMAIN left = 1 .. n /\ left \in Seq(Entries)
      /\ \A i \in 1 .. n : left[i] \in es /\ left[i] \in Entries
  BY <1>1, <1>3, LenProperties, ElementOfSeq, SeqMonotonic
<1> HIDE DEF left, n
<1>5. \A i \in DOMAIN seen : seen[i] \in Entries
  BY ElementOfSeq, LenProperties
<1>6. ASSUME NEW i \in DOMAIN seen, NEW f \in es PROVE Precedes(seen[i], f)
  <2>1. seen[i] \in Entries /\ f \in Entries
    BY <1>1, <1>5
  <2>2. cursor # None
    <3>1. DOMAIN << >> = {}
      OBVIOUS
    <3> QED
      BY <3>1 DEF Behind
  <2>3. cursor \in Times \X EntryIds /\ ~ Pages!Beyond(seen[i], cursor)
    BY <2>2 DEF Behind
  <2> QED
    BY <1>2, <2>1, <2>3, BeyondSplits
<1>7. CASE Pages!Wrap(limit + 1) < 0
  <2>1. PICK x : x = [walk[k] EXCEPT !.step = "failed"]
    OBVIOUS
  <2>2. x \in Pages!WalkStates /\ x.step = "failed" /\ x.seen = walk[k].seen
    BY <2>1, WalksTyped
  <2>3. walk' = [walk EXCEPT ![k] = x]
    BY <1>7, <2>1 DEF Pages!List
  <2>4. walk'[k] = x /\ walk' \in [Walks -> Pages!WalkStates]
    BY <2>2, <2>3
  <2> QED
    BY <2>2, <2>4 DEF WalkOK, Walked, Ascending
<1>8. CASE ~ (Pages!Wrap(limit + 1) < 0) /\ n > limit
  <2> DEFINE page == SubSeq(left, 1, limit)
             last == left[limit]
             new == <<last.at, last.id>>
  <2>1. limit \in 1 .. n /\ last \in Entries /\ last \in es
    BY <1>4, <1>8 DEF Int64
  <2>2. /\ page \in Seq(Entries) /\ DOMAIN page = 1 .. limit
        /\ \A i \in 1 .. limit : page[i] = left[i] /\ i \in 1 .. n
    BY <1>4, <2>1, SubSeqProperties, LenProperties
  <2>3. Ascending(page)
    BY <1>3, <1>4, <2>2 DEF Ascending
  <2>4. \A i \in DOMAIN seen, j \in DOMAIN page : Precedes(seen[i], page[j])
    BY <1>4, <1>6, <2>2
  <2> DEFINE all == seen \o page
  <2> HIDE DEF page
  <2>5. /\ all \in Seq(Entries) /\ Ascending(all)
        /\ \A i \in DOMAIN seen : \E j \in DOMAIN all : all[j] = seen[i]
        /\ \A i \in DOMAIN page : \E j \in DOMAIN all : all[j] = page[i]
        /\ \A j \in DOMAIN all : \/ \E i \in DOMAIN seen : all[j] = seen[i]
                                 \/ \E i \in DOMAIN page : all[j] = page[i]
    BY <2>2, <2>3, <2>4, PageContinues
  <2>6. PICK x : x = [step |-> "on", wallet |-> w, limit |-> limit, cursor |-> new,
                      seen |-> all, began |-> began]
    OBVIOUS
  <2>7. walk' = [walk EXCEPT ![k] = x]
    <3>1. page[limit] = last
      BY <2>1, <2>2
    <3> QED
      BY <1>8, <2>6, <3>1 DEF Pages!List, page, left, n, es
  <2> HIDE DEF all, last
  <2>8. /\ new \in Times \X EntryIds /\ new # None
        /\ \A e \in Entries : Pages!Beyond(e, new) <=> Precedes(last, e)
    BY <2>1, BeyondIsAfter
  <2>9. Behind(new, all)
    <3>1. ASSUME NEW j \in DOMAIN all PROVE ~ Pages!Beyond(all[j], new)
      <4>1. CASE \E i \in DOMAIN seen : all[j] = seen[i]
        <5>1. Precedes(all[j], last) /\ all[j] \in Entries
          BY <1>5, <1>6, <2>1, <4>1
        <5> QED
          BY <2>1, <2>8, <5>1, PrecedesOrders
      <4>2. CASE \E i \in DOMAIN page : all[j] = page[i]
        <5>1. PICK i \in 1 .. limit : all[j] = left[i] /\ i \in 1 .. n
          BY <2>2, <4>2
        <5>2. all[j] \in Entries /\ (all[j] = last \/ Precedes(all[j], last))
          <6>1. i = limit \/ i < limit
            BY <2>1
          <6> QED
            BY <1>3, <1>4, <2>1, <5>1, <6>1 DEF Ascending, last
        <5> QED
          BY <2>1, <2>8, <5>2, PrecedesOrders
      <4> QED
        BY <2>5, <4>1, <4>2
    <3> QED
      BY <2>8, <3>1 DEF Behind
  <2>10. Ahead(new, all, began)
    <3>1. ASSUME NEW e \in began
          PROVE  Pages!Beyond(e, new) \/ \E j \in DOMAIN all : all[j] = e
      <4>1. CASE \E i \in DOMAIN seen : seen[i] = e
        BY <2>5, <4>1
      <4>2. CASE Pages!Beyond(e, cursor)
        <5>1. e \in es
          BY <1>2, <4>2
        <5>2. PICK i \in 1 .. n : left[i] = e
          BY <1>3, <1>4, <5>1
        <5>3. CASE i <= limit
          <6>1. i \in DOMAIN page /\ page[i] = e
            BY <2>1, <2>2, <5>2, <5>3
          <6> QED
            BY <2>5, <6>1
        <5>4. CASE i > limit
          <6>1. Precedes(last, e)
            BY <1>3, <1>4, <2>1, <5>2, <5>4 DEF Ascending, last
          <6> QED
            BY <2>8, <6>1
        <5> QED
          BY <2>1, <5>3, <5>4
      <4> QED
        BY <4>1, <4>2 DEF Ahead
    <3> QED
      BY <3>1 DEF Ahead
  <2> HIDE DEF new
  <2>11. x \in Pages!WalkStates
    BY <2>5, <2>6, <2>8, WalksTyped
  <2>12. walk'[k] = x /\ walk' \in [Walks -> Pages!WalkStates]
    BY <2>7, <2>11
  <2>13. Walked(x)
    BY <2>5, <2>6, <2>8, <2>9, <2>10 DEF WalkOK, Walked
  <2>14. Walked(x)'
    BY <2>13 DEF WalkOK, Walked
  <2> QED
    BY <2>12, <2>14 DEF WalkOK, Walked
<1>9. CASE ~ (Pages!Wrap(limit + 1) < 0) /\ ~ (n > limit)
  <2> DEFINE all == seen \o left
  <2>1. \A i \in DOMAIN seen, j \in DOMAIN left : Precedes(seen[i], left[j])
    BY <1>4, <1>6
  <2>2. /\ all \in Seq(Entries) /\ Ascending(all)
        /\ \A i \in DOMAIN seen : \E j \in DOMAIN all : all[j] = seen[i]
        /\ \A i \in DOMAIN left : \E j \in DOMAIN all : all[j] = left[i]
    BY <1>3, <1>4, <2>1, PageContinues
  <2>3. PICK x : x = [step |-> "done", wallet |-> w, limit |-> limit, cursor |-> None,
                      seen |-> all, began |-> began]
    OBVIOUS
  <2>4. walk' = [walk EXCEPT ![k] = x]
    BY <1>9, <2>3 DEF Pages!List, left, n, es
  <2> HIDE DEF all
  <2>5. ASSUME NEW e \in began PROVE \E j \in DOMAIN all : all[j] = e
    <3>1. CASE \E i \in DOMAIN seen : seen[i] = e
      BY <2>2, <3>1
    <3>2. CASE Pages!Beyond(e, cursor)
      <4>1. e \in es
        BY <1>2, <3>2
      <4> QED
        BY <1>3, <2>2, <4>1
    <3> QED
      BY <3>1, <3>2 DEF Ahead
  <2>6. x \in Pages!WalkStates
    BY <2>2, <2>3, WalksTyped
  <2>7. walk'[k] = x /\ walk' \in [Walks -> Pages!WalkStates]
    BY <2>4, <2>6
  <2>8. Walked(x)'
    BY <2>2, <2>3, <2>5 DEF WalkOK, Walked
  <2> QED
    BY <2>7, <2>8 DEF WalkOK, Walked
<1> QED
  BY <1>7, <1>8, <1>9

(* A walk whose steps are others' is left as it is.                        *)
LEMMA WalkStays ==
    ASSUME BooksInv, [Next]_vars, NEW k \in Walks, WalkOK(k), walk'[k] = walk[k]
    PROVE  WalkOK(k)'
<1>1. PICK x : x = walk[k]
  OBVIOUS
<1>2. \A o \in Openings : ledger[o] \subseteq ledger'[o]
  BY TablesGrow
<1>3. Walked(x)
  BY <1>1 DEF WalkOK
<1>4. Walked(x)'
  BY <1>2, <1>3 DEF WalkOK, Walked
<1> QED
  BY <1>1, <1>4 DEF WalkOK, Walked

LEMMA WalksInit == Init => WalksInv
<1> SUFFICES ASSUME Init PROVE WalksInv
  OBVIOUS
<1>1. walk = [k \in Walks |-> Pages!NoWalk]
  BY DEF Init, Pages!Init
<1>2. << >> \in Seq(Entries) /\ DOMAIN << >> = {} /\ 0 \in Int64
  BY MaxIntAssumption DEF Int64, MinInt
<1>3. Pages!NoWalk \in Pages!WalkStates /\ Pages!NoWalk.step = "idle" /\ Pages!NoWalk.seen = << >>
  BY <1>2, WalksTyped DEF Pages!NoWalk
<1>4. Walked(Pages!NoWalk)
  BY <1>2, <1>3 DEF WalkOK, Walked, Ascending
<1> QED
  BY <1>1, <1>3, <1>4, BooksInit DEF WalksInv, WalkOK

(* A page is at least one entry long, whatever number the query wraps to.  *)
LEMMA PagesAreLong ==
    ASSUME NEW n \in Limits
    PROVE  Pages!PageLimit(n) \in Int64 /\ Pages!PageLimit(n) >= 1
<1>1. Pages!Wrap(n) = Wrap(n)
  BY DEF Pages!Wrap, Pages!MinInt, Pages!Width, Wrap, MinInt, Width
<1>2. Wrap(n) \in Int64
  BY WrapInWord, WalletsAssumption
<1>3. DefaultLimit \in 1 .. MaxInt - 1
  BY WalletsAssumption
<1> QED
  BY <1>1, <1>2, <1>3, MaxIntAssumption DEF Pages!PageLimit, Int64, MinInt

LEMMA WalksNext == WalksInv /\ [Next]_vars => WalksInv'
<1> SUFFICES ASSUME WalksInv, [Next]_vars PROVE WalksInv'
  OBVIOUS
<1>1. BooksInv /\ BooksInv' /\ walk \in [Walks -> Pages!WalkStates]
  BY BooksNext DEF WalksInv
<1>2. CASE UNCHANGED walk
  BY <1>1, <1>2, WalkStays DEF WalksInv
<1>3. ASSUME NEW k \in Walks, Pages!Step(k), UNCHANGED <<wallets, outbox, opening, audit>>
      PROVE  WalksInv'
  <2>1. WalkOK(k) /\ walk[k] \in Pages!WalkStates
    BY DEF WalksInv
  <2>2. ASSUME NEW w \in Openings, NEW n \in Limits, Pages!FirstPage(k, w, n)
        PROVE  walk' \in [Walks -> Pages!WalkStates] /\ WalkOK(k)'
    <3>1. /\ Pages!List(k, w, None, Pages!PageLimit(n), << >>, ledger[w]) /\ UNCHANGED ledger
          /\ Ascending(walk[k].seen)
      BY <2>1, <2>2 DEF Pages!FirstPage, WalkOK, Walked
    <3>2. /\ << >> \in Seq(Entries) /\ Ascending(<< >>) /\ Behind(None, << >>)
          /\ ledger[w] \in SUBSET Entries
      BY <1>1 DEF Ascending, Behind, BooksInv, LedgersOK
    <3>3. Ahead(None, << >>, ledger[w])
      BY DEF Ahead, Pages!Beyond
    <3>4. PICK b \in SUBSET Entries : b = ledger[w]
      BY <3>2
    <3> QED
      BY <1>1, <3>1, <3>2, <3>3, <3>4, PagesAreLong, PageKeepsWalk
  <2>3. ASSUME Pages!NextPage(k)
        PROVE  walk' \in [Walks -> Pages!WalkStates] /\ WalkOK(k)'
    <3>1. PICK x : x = walk[k]
      OBVIOUS
    <3>2. /\ x.step = "on" /\ UNCHANGED ledger /\ x \in Pages!WalkStates /\ Walked(x)
          /\ Pages!List(k, x.wallet, x.cursor, x.limit, x.seen, x.began)
      BY <2>1, <2>3, <3>1 DEF Pages!NextPage, WalkOK
    <3>3. /\ x.wallet \in Openings /\ x.cursor \in (Times \X EntryIds) \cup {None}
          /\ x.limit \in Int64 /\ x.limit >= 1 /\ x.seen \in Seq(Entries)
          /\ x.began \in SUBSET Entries /\ Ascending(x.seen) /\ Behind(x.cursor, x.seen)
          /\ Ahead(x.cursor, x.seen, x.began) /\ x.began \subseteq ledger[x.wallet]
      BY <3>2, WalksTyped DEF WalkOK, Walked
    <3>4. PICK w \in Openings, c \in (Times \X EntryIds) \cup {None}, l \in Int64,
               s \in Seq(Entries), b \in SUBSET Entries :
                   w = x.wallet /\ c = x.cursor /\ l = x.limit /\ s = x.seen /\ b = x.began
      BY <3>3
    <3>5. /\ Pages!List(k, w, c, l, s, b) /\ l >= 1 /\ Ascending(s) /\ Behind(c, s)
          /\ Ahead(c, s, b) /\ b \subseteq ledger[w] /\ Ascending(walk[k].seen)
      BY <3>1, <3>2, <3>3, <3>4
    <3> QED
      BY <1>1, <3>2, <3>5, PageKeepsWalk
  <2>4. walk' \in [Walks -> Pages!WalkStates] /\ WalkOK(k)'
    BY <1>3, <2>2, <2>3 DEF Pages!Step
  <2>5. \A j \in Walks \ {k} : walk'[j] = walk[j]
    BY <1>1, <1>3 DEF Pages!Step, Pages!FirstPage, Pages!NextPage, Pages!List
  <2>6. \A j \in Walks \ {k} : WalkOK(j)'
    BY <1>1, <2>5, WalkStays DEF WalksInv
  <2> QED
    BY <1>1, <2>4, <2>6 DEF WalksInv
<1> QED
  BY <1>2, <1>3 DEF Next, vars

(* A client that follows the cursors to the last page has seen every entry *)
(* that its wallet had when it began, once and in order, whatever commits  *)
(* meanwhile, for any number of entries, clients and times they share.     *)
THEOREM WalksAreComplete == Spec => []WalkIsComplete
<1>1. WalksInv => WalkIsComplete
  <2> SUFFICES ASSUME WalksInv, NEW k \in Walks
               PROVE  /\ \A i \in 1 .. Len(walk[k].seen) - 1 :
                            Precedes(walk[k].seen[i], walk[k].seen[i + 1])
                      /\ walk[k].step = "done" => walk[k].began \subseteq ToSet(walk[k].seen)
    BY DEF WalkIsComplete
  <2>1. WalkOK(k) /\ walk[k].seen \in Seq(Entries)
    BY WalksTyped DEF WalksInv
  <2>2. \A i \in 1 .. Len(walk[k].seen) - 1 :
            i \in DOMAIN walk[k].seen /\ i + 1 \in DOMAIN walk[k].seen /\ i < i + 1
    BY <2>1, LenProperties
  <2> QED
    BY <2>1, <2>2 DEF WalkOK, Walked, Ascending, ToSet
<1> QED
  BY WalksInit, WalksNext, <1>1, PTL DEF Spec

(* Every value the wallets, the calls, the reconciliations and the walks   *)
(* keep is one of its kind: nothing that is computed leaves the word.      *)
THEOREM WalletsTypes == Spec => []TypeOK
<1>1. AuditsInv /\ WalksInv => TypeOK
  BY DEF AuditsInv, WalksInv, BooksInv, OwnersInv, BalancesInv, LedgersOK, TypeOK
<1> QED
  BY AuditsInit, AuditsNext, WalksInit, WalksNext, <1>1, PTL DEF Spec
=============================================================================
