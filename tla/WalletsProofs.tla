--------------------------- MODULE WalletsProofs ----------------------------
(***************************************************************************)
(* Checked arithmetic and decimal text are exact in every machine word.    *)
(* Balances stay amounts of the word, and players never get two wallets of *)
(* one currency, for any number of calls and any word.                     *)
(***************************************************************************)
EXTENDS WalletsProps, TLAPS

(* Wrapping stays within the word.                                         *)
LEMMA WrapInWord ==
    ASSUME NEW x \in Int
    PROVE Wrap(x) \in Int64
<1>1. Width \in Nat /\ Width > 0
  BY MaxIntAssumption DEF Width
<1>2. (x - MinInt) % Width \in 0 .. Width - 1
  BY <1>1, MaxIntAssumption DEF MinInt
<1> QED
  BY <1>2, MaxIntAssumption DEF Wrap, Width, Int64, MinInt

(* What lies strictly between two neighbouring multiples is none itself.   *)
LEMMA NoMultipleBetween ==
    ASSUME NEW w \in Nat, w > 0, NEW n \in Int, - w < w * n, w * n < w
    PROVE n = 0
<1>1. CASE n >= 1
  <2>1. w * n >= w * 1
    BY <1>1
  <2> QED
    BY <2>1
<1>2. CASE n <= -1
  <2>1. w * n <= w * (-1)
    BY <1>2
  <2> QED
    BY <2>1
<1> QED
  BY <1>1, <1>2

(* Wrapping moves by multiples of the width, so what is in the word after  *)
(* such a move is what it answers.                                         *)
LEMMA WrapIs ==
    ASSUME NEW x \in Int, NEW k \in Int, x + k * Width \in Int64
    PROVE Wrap(x) = x + k * Width
<1> DEFINE a == x - MinInt
           q == a \div Width
           r == a % Width
<1>1. Width \in Nat /\ Width > 0 /\ MinInt \in Int /\ a \in Int
  BY MaxIntAssumption DEF Width, MinInt
<1>2. q \in Int /\ r \in 0 .. Width - 1 /\ a = Width * q + r
  BY <1>1
<1>3. a + k * Width \in 0 .. Width - 1
  BY MaxIntAssumption DEF Int64, Width, MinInt
<1> HIDE DEF a, q, r
<1>4. Width * (q + k) = (a + k * Width) - r
  BY <1>1, <1>2
<1>5. - Width < Width * (q + k) /\ Width * (q + k) < Width
  BY <1>1, <1>2, <1>3, <1>4
<1>6. q + k = 0
  BY <1>1, <1>2, <1>5, NoMultipleBetween
<1>7. r = a + k * Width
  BY <1>1, <1>2, <1>4, <1>6
<1> QED
  BY <1>7, <1>1 DEF a, r, Wrap

(* A number in the word stays; one just beyond comes in at the other end.  *)
LEMMA WrapNearby ==
    ASSUME NEW x \in Int
    PROVE /\ x \in Int64 => Wrap(x) = x
          /\ x - Width \in Int64 => Wrap(x) = x - Width
          /\ x + Width \in Int64 => Wrap(x) = x + Width
<1>1. Width \in Int
  BY MaxIntAssumption DEF Width
<1>2. x + 0 * Width = x /\ x + (-1) * Width = x - Width /\ x + 1 * Width = x + Width
  BY <1>1
<1>3. /\ x + 0 * Width \in Int64 => Wrap(x) = x + 0 * Width
      /\ x + (-1) * Width \in Int64 => Wrap(x) = x + (-1) * Width
      /\ x + 1 * Width \in Int64 => Wrap(x) = x + 1 * Width
  <2>1. 0 \in Int /\ -1 \in Int /\ 1 \in Int
    OBVIOUS
  <2> QED
    BY <2>1, WrapIs
<1> QED
  BY <1>2, <1>3

-----------------------------------------------------------------------------
(* The sign of the second summand tells an overflow exactly.               *)
LEMMA AddIsExact ==
    ASSUME NEW a \in Int64, NEW b \in Int64
    PROVE CheckedAdd(a, b) = IfItFits(a + b)
<1>0. a + b \in Int
  BY MaxIntAssumption DEF Int64, MinInt
<1>1. CASE a + b \in Int64
  <2>1. Wrap(a + b) = a + b
    BY <1>0, <1>1, WrapNearby
  <2> QED
    BY <1>1, <2>1, MaxIntAssumption DEF CheckedAdd, IfItFits, Int64, MinInt
<1>2. CASE a + b > MaxInt
  <2>1. (a + b) - Width \in Int64
    BY <1>2, MaxIntAssumption DEF Int64, MinInt, Width
  <2>2. Wrap(a + b) = (a + b) - Width
    BY <1>0, <2>1, WrapNearby
  <2> QED
    BY <1>2, <2>2, MaxIntAssumption DEF CheckedAdd, IfItFits, Int64, MinInt, Width
<1>3. CASE a + b < MinInt
  <2>1. a + b + Width \in Int64
    BY <1>3, MaxIntAssumption DEF Int64, MinInt, Width
  <2>2. Wrap(a + b) = a + b + Width
    BY <1>0, <2>1, WrapNearby
  <2> QED
    BY <1>3, <2>2, MaxIntAssumption DEF CheckedAdd, IfItFits, Int64, MinInt, Width
<1> QED
  BY <1>1, <1>2, <1>3, MaxIntAssumption DEF Int64, MinInt

(* A difference is exact too, but for the number that has no negation.     *)
LEMMA SubtractIsExact ==
    ASSUME NEW a \in Int64, NEW b \in Int64
    PROVE Subtract(a, b) = IF b = MinInt THEN Overflow ELSE IfItFits(a - b)
<1>1. CASE b = MinInt
  BY <1>1 DEF Subtract, CheckedNegate, Overflow
<1>2. CASE b # MinInt
  <2>1. - b \in Int64
    BY <1>2, MaxIntAssumption DEF Int64, MinInt
  <2>2. CheckedAdd(a, - b) = IfItFits(a + (- b))
    BY <2>1, AddIsExact
  <2>3. a + (- b) = a - b
    BY MaxIntAssumption DEF Int64, MinInt
  <2> QED
    BY <1>2, <2>2, <2>3 DEF Subtract, CheckedNegate, Exactly
<1> QED
  BY <1>1, <1>2

(* Dividing the wrapped product again gives the factor only when nothing   *)
(* was wrapped.                                                            *)
LEMMA MulIsExact ==
    ASSUME NEW a \in Int64
    PROVE CheckedMul(a, 100) = IfItFits(a * 100)
<1> DEFINE result == Wrap(a * 100)
<1>1. a \in Int /\ MinInt \in Int /\ result \in Int64 /\ result \in Int
  BY WrapInWord, MaxIntAssumption DEF Int64, MinInt
<1>2. CASE a * 100 \in Int64
  <2>1. result = a * 100
    BY <1>1, <1>2, WrapNearby
  <2>2. Quotient(a * 100, 100) = a
    BY <1>1 DEF Quotient
  <2> QED
    BY <1>2, <2>1, <2>2 DEF CheckedMul, IfItFits
<1>3. CASE a * 100 \notin Int64
  <2> HIDE DEF result
  <2>1. Quotient(result, 100) # a
    BY <1>1, <1>3, MaxIntAssumption DEF Quotient, Int64, MinInt
  <2> QED
    BY <1>3, <2>1 DEF CheckedMul, IfItFits, result
<1> QED
  BY <1>2, <1>3

(* In every word, sums, differences and products by 100 are exact or       *)
(* refused, and refused only for not fitting (checkedAdd, checkedNegate,   *)
(* checkedMul): no balance is ever a wrapped one.                          *)
THEOREM ArithmeticExact == ArithmeticIsExact
BY AddIsExact, SubtractIsExact, MulIsExact DEF ArithmeticIsExact

-----------------------------------------------------------------------------
(* The text of an amount means that amount.                                *)
LEMMA TextSaysIt ==
    ASSUME NEW m \in Int64
    PROVE /\ Text(m) \in Texts
          /\ Text(m).integer <= MaxInt
          /\ ValueOf(Text(m)) = m
<1>1. m \in Int /\ MinInt \in Int /\ MinInt < 0 /\ MaxInt \in Nat /\ MinInt = - MaxInt - 1
  BY MaxIntAssumption DEF Int64, MinInt
<1>2. m >= MinInt /\ m <= MaxInt
  BY <1>1 DEF Int64
<1> DEFINE abs == IF m < 0 THEN - m ELSE m
           i == abs \div 100
           f == abs - 100 * i
<1>3. /\ abs \in Nat /\ i \in Nat /\ f \in 0 .. 99 /\ 100 * i + f = abs
      /\ i <= MaxInt
  BY <1>1, <1>2, MaxIntAssumption
<1>4. abs >= 0 /\ i = abs \div 100 /\ f = abs - 100 * i /\ (m < 0 => m = - abs) /\ (m >= 0 => m = abs)
  BY <1>1, <1>3
<1>5. m = MinInt => m < 0
  BY <1>1
<1> HIDE DEF abs, i, f
<1>6. Text(m) = [negative |-> m < 0, integer |-> i, fraction |-> f]
  <2>1. CASE m = MinInt
    <3>1. ~ (m >= 0) /\ - m = abs
      BY <1>1, <1>3, <1>4, <2>1
    <3>2. Quotient(m, 100) = - i /\ Remainder(m, 100) = - f
      BY <1>1, <1>3, <1>4, <3>1 DEF Quotient, Remainder
    <3>3. - Quotient(m, 100) = i /\ - Remainder(m, 100) = f
      BY <1>3, <3>2
    <3> QED
      BY <1>5, <2>1, <3>3 DEF Text
  <2>2. CASE m # MinInt
    <3>1. Quotient(abs, 100) = i /\ Remainder(abs, 100) = f
      BY <1>4 DEF Quotient, Remainder
    <3>2. Text(m) = [negative |-> m < 0, integer |-> Quotient(abs, 100), fraction |-> Remainder(abs, 100)]
      BY <2>2 DEF Text, abs
    <3> QED
      BY <3>1, <3>2
  <2> QED
    BY <2>1, <2>2
<1>7. Text(m) \in Texts /\ Text(m).integer <= MaxInt
  BY <1>3, <1>6 DEF Texts
<1>8. 100 * i + f = abs
  BY <1>3
<1>9. Text(m).integer = i /\ Text(m).fraction = f
  BY <1>6
<1>10. CASE m < 0
  <2>0. Text(m) = [negative |-> TRUE, integer |-> i, fraction |-> f]
    BY <1>6, <1>10
  <2>1. Text(m).negative
    BY <2>0
  <2>2. ValueOf(Text(m)) = (-1) * (100 * i + f)
    BY <1>9, <2>1 DEF ValueOf
  <2> QED
    BY <1>3, <1>4, <1>7, <1>8, <1>10, <2>2
<1>11. CASE m >= 0
  <2>1. (m < 0) = FALSE
    BY <1>1, <1>11
  <2>0. Text(m) = [negative |-> FALSE, integer |-> i, fraction |-> f]
    BY <1>6, <2>1
  <2>2. ~ Text(m).negative
    BY <2>0
  <2>3. ValueOf(Text(m)) = 1 * (100 * i + f)
    BY <1>9, <2>2 DEF ValueOf
  <2> QED
    BY <1>3, <1>4, <1>7, <1>8, <1>11, <2>3
<1> QED
  BY <1>1, <1>10, <1>11

(* Text is read as what it means, if that fits.                            *)
LEMMA ParseIsExact ==
    ASSUME NEW t \in Texts
    PROVE Parse(t) = IF ValueOf(t) = MinInt THEN Overflow ELSE IfItFits(ValueOf(t))
<1> DEFINE i == t.integer
           f == t.fraction
<1>1. i \in Nat /\ f \in 0 .. 99 /\ t.negative \in BOOLEAN /\ MaxInt >= 99 /\ MaxInt \in Nat
  BY MaxIntAssumption DEF Texts
<1>2. f \in Int64
  BY <1>1 DEF Int64, MinInt
<1>3. CASE i > MaxInt
  BY <1>1, <1>3 DEF Parse, ValueOf, IfItFits, Int64, MinInt
<1>4. CASE i <= MaxInt /\ i * 100 > MaxInt
  <2>1. i \in Int64
    BY <1>1, <1>4 DEF Int64, MinInt
  <2>2. ~ CheckedMul(i, 100).ok
    BY <1>1, <1>4, <2>1, MulIsExact DEF IfItFits, Int64, Overflow
  <2>3. ValueOf(t) = MinInt \/ ValueOf(t) \notin Int64
    BY <1>1, <1>4 DEF ValueOf, Int64, MinInt
  <2> QED
    BY <2>2, <2>3 DEF Parse, IfItFits
<1>5. CASE i * 100 <= MaxInt
  <2>1. i \in Int64 /\ i * 100 \in Int64
    BY <1>1, <1>5 DEF Int64, MinInt
  <2>2. CheckedMul(i, 100) = Exactly(i * 100)
    BY <2>1, MulIsExact DEF IfItFits
  <2>3. CheckedAdd(i * 100, f) = IfItFits(i * 100 + f)
    BY <1>2, <2>1, AddIsExact
  <2>4. ValueOf(t) = IF t.negative THEN - (i * 100 + f) ELSE i * 100 + f
    BY <1>1 DEF ValueOf
  <2> DEFINE v == i * 100 + f
  <2>0. v \in Nat /\ ~ (i > MaxInt)
    BY <1>1, <1>5
  <2>5. CASE v > MaxInt
    <3>1. v \notin Int64 /\ (ValueOf(t) = MinInt \/ ValueOf(t) \notin Int64)
      BY <1>1, <2>0, <2>4, <2>5 DEF Int64, MinInt
    <3>2. ~ CheckedAdd(i * 100, f).ok
      BY <2>3, <3>1 DEF IfItFits, Overflow
    <3>3. Parse(t) = Overflow
      BY <2>2, <3>2 DEF Parse, Exactly
    <3> QED
      BY <3>1, <3>3 DEF IfItFits
  <2>6. CASE v <= MaxInt
    <3>1. v \in Int64 /\ v # MinInt /\ - v \in Int64 /\ - v # MinInt
      BY <1>1, <2>0, <2>6 DEF Int64, MinInt
    <3>2. CheckedAdd(i * 100, f) = Exactly(v)
      BY <2>3, <3>1 DEF IfItFits
    <3> HIDE DEF v
    <3>5. CheckedNegate(v) = Exactly(- v)
      BY <3>1 DEF CheckedNegate
    <3>6. /\ CheckedMul(i, 100).ok /\ CheckedMul(i, 100).value = i * 100
          /\ Exactly(v).ok /\ Exactly(v).value = v
      BY <2>2 DEF Exactly
    <3>3. Parse(t) = IF t.negative THEN Exactly(- v) ELSE Exactly(v)
      BY <2>0, <3>2, <3>5, <3>6 DEF Parse
    <3>4. ValueOf(t) = IF t.negative THEN - v ELSE v
      BY <2>4 DEF v
    <3> QED
      BY <1>1, <3>1, <3>3, <3>4 DEF IfItFits
  <2> QED
    BY <1>1, <2>5, <2>6
<1> QED
  BY <1>1, <1>3, <1>4, <1>5

(* In every word, the text of an amount means that amount and is read back *)
(* as it (String, Parse), and text that is read is read as what it means.  *)
THEOREM TextExact == TextIsExact
<1>1. ASSUME NEW m \in Int64
      PROVE /\ Text(m) \in Texts
            /\ ValueOf(Text(m)) = m
            /\ Parse(Text(m)) = IF m = MinInt THEN Overflow ELSE Exactly(m)
  BY TextSaysIt, ParseIsExact DEF IfItFits
<1> QED
  BY <1>1, ParseIsExact DEF TextIsExact

-----------------------------------------------------------------------------
(* The requests that pass the handler's checks.                            *)
Accepted == {q \in Requests : Open!Initial(q).ok /\ Open!Initial(q).value >= 0}

(* The amounts of wallets and calls.                                       *)
BalancesInv ==
    /\ wallets \in [Openings -> WalletStates \cup {None}]
    /\ opening \in [Openings -> Open!Calls]
    /\ \A o \in Openings :
          opening[o].step \in {"insert", "commit"} => opening[o].request \in Accepted

(* A call that is about to commit has no wallet yet, and shares its player *)
(* and currency neither with another such call nor with a wallet.          *)
Unrivalled(o) ==
    /\ wallets[o] = None
    /\ \A p \in Openings :
          /\ p # o /\ opening[p].step = "commit"
                => ~ Open!SameOwner(opening[p].request, opening[o].request)
          /\ wallets[p] # None => ~ Open!SameOwner(wallets[p], opening[o].request)

OwnersInv ==
    /\ BalancesInv
    /\ OneWalletPerCurrency
    /\ \A o \in Openings : opening[o].step \in {"idle", "insert"} => wallets[o] = None
    /\ \A o \in Openings : opening[o].step = "commit" => Unrivalled(o)

-----------------------------------------------------------------------------
(* OpenWallet parses as Money does.                                        *)
LEMMA SameParse == \A t : Open!Parse(t) = Parse(t)
<1>1. /\ Open!MinInt = MinInt /\ Open!Overflow = Overflow
      /\ \A x : Open!Exactly(x) = Exactly(x)
  BY DEF Open!MinInt, Open!Overflow, Open!Exactly, MinInt, Overflow, Exactly
<1>2. \A x : Open!Wrap(x) = Wrap(x)
  BY <1>1 DEF Open!Wrap, Open!Width, Wrap, Width
<1>3. \A a, b : Open!CheckedAdd(a, b) = CheckedAdd(a, b)
  BY <1>1, <1>2 DEF Open!CheckedAdd, CheckedAdd
<1>4. \A a : Open!CheckedNegate(a) = CheckedNegate(a)
  BY <1>1 DEF Open!CheckedNegate, CheckedNegate
<1>5. \A a, b : Open!CheckedMul(a, b) = CheckedMul(a, b)
  BY <1>1, <1>2 DEF Open!CheckedMul, Open!Quotient, CheckedMul, Quotient
<1> QED
  BY <1>1, <1>3, <1>4, <1>5 DEF Open!Parse, Parse

(* What passes the handler's checks is a balance.                          *)
LEMMA InitialIsBalance ==
    ASSUME NEW q \in Accepted
    PROVE Open!Initial(q).value \in 0 .. MaxInt
<1>1. q.initialBalance \in Texts
  BY WalletsAssumption DEF Accepted
<1>2. Open!Initial(q) = Parse(q.initialBalance)
  BY SameParse DEF Open!Initial
<1>3. Open!Initial(q).value \in Int64
  <2>1. ValueOf(q.initialBalance) \in Int64 /\ Open!Initial(q) = Exactly(ValueOf(q.initialBalance))
    BY <1>1, <1>2, ParseIsExact DEF Accepted, IfItFits, Overflow
  <2> QED
    BY <2>1 DEF Exactly
<1> QED
  BY <1>3, MaxIntAssumption DEF Accepted, Int64, MinInt

(* Neither does a movement leave the balances.                             *)
LEMMA MovedIsBalance ==
    ASSUME NEW b \in 0 .. MaxInt, NEW n \in 1 .. MaxInt, NEW d \in {"CREDIT", "DEBIT"},
           After(d, n, b).ok, d = "DEBIT" => After(d, n, b).value >= 0
    PROVE After(d, n, b).value \in 0 .. MaxInt
<1>1. b \in Int64 /\ n \in Int64 /\ n # MinInt
  BY MaxIntAssumption DEF Int64, MinInt
<1>2. CASE d = "DEBIT"
  <2>1. After(d, n, b) = IfItFits(b - n)
    BY <1>1, <1>2, SubtractIsExact DEF After
  <2>2. After(d, n, b).value = b - n
    BY <2>1 DEF IfItFits, Exactly, Overflow
  <2> QED
    BY <1>2, <2>2, MaxIntAssumption
<1>3. CASE d = "CREDIT"
  <2>1. After(d, n, b) = IfItFits(b + n)
    BY <1>1, <1>3, AddIsExact DEF After
  <2>2. b + n \in Int64 /\ After(d, n, b).value = b + n
    BY <2>1 DEF IfItFits, Exactly, Overflow
  <2> QED
    BY <2>2, MaxIntAssumption DEF Int64, MinInt
<1> QED
  BY <1>2, <1>3
-----------------------------------------------------------------------------
(* At first there is no wallet.                                            *)
LEMMA OwnersInit == Init => OwnersInv
<1> SUFFICES ASSUME Init PROVE OwnersInv
  OBVIOUS
<1>1. /\ \A o \in Openings : wallets[o] = None /\ opening[o].step = "idle"
      /\ BalancesInv
  BY DEF Init, Open!Init, BalancesInv, Open!Calls, Open!OpeningSteps
<1> QED
  BY <1>1 DEF OwnersInv, OneWalletPerCurrency

(* A step of a call that leaves the wallets alone.                         *)
LEMMA CallGoesOn ==
    ASSUME OwnersInv, NEW o \in Openings, NEW c \in Open!Calls,
           opening' = [opening EXCEPT ![o] = c], UNCHANGED wallets,
           c.step \in {"idle", "insert"} => wallets[o] = None,
           c.step \in {"insert", "commit"} => c.request \in Accepted,
           c.step = "commit" =>
               /\ wallets[o] = None
               /\ \A p \in Openings :
                     /\ opening[p].step = "commit" => ~ Open!SameOwner(opening[p].request, c.request)
                     /\ wallets[p] # None => ~ Open!SameOwner(wallets[p], c.request)
    PROVE OwnersInv'
<1>1. \A p \in Openings : opening'[p] = IF p = o THEN c ELSE opening[p]
  BY DEF OwnersInv, BalancesInv
<1>2. BalancesInv'
  <2>1. opening' \in [Openings -> Open!Calls]
    BY DEF OwnersInv, BalancesInv
  <2>2. \A p \in Openings :
          opening'[p].step \in {"insert", "commit"} => opening'[p].request \in Accepted
    BY <1>1 DEF OwnersInv, BalancesInv
  <2>3. wallets' \in [Openings -> WalletStates \cup {None}]
    BY DEF OwnersInv, BalancesInv
  <2> QED
    BY <2>1, <2>2, <2>3 DEF BalancesInv
<1>3. OneWalletPerCurrency'
  BY DEF OwnersInv, OneWalletPerCurrency
<1>4. \A p \in Openings : opening'[p].step \in {"idle", "insert"} => wallets'[p] = None
  BY <1>1 DEF OwnersInv
<1>5. ASSUME NEW p \in Openings, opening'[p].step = "commit"
      PROVE Unrivalled(p)'
  <2>1. wallets'[p] = None
    BY <1>1, <1>5 DEF OwnersInv, Unrivalled
  <2>2. ASSUME NEW q \in Openings
        PROVE /\ q # p /\ opening'[q].step = "commit"
                    => ~ Open!SameOwner(opening'[q].request, opening'[p].request)
              /\ wallets'[q] # None => ~ Open!SameOwner(wallets'[q], opening'[p].request)
    BY <1>1, <1>5 DEF OwnersInv, Unrivalled, Open!SameOwner
  <2> QED
    BY <2>1, <2>2 DEF Unrivalled, Open!SameOwner
<1> QED
  BY <1>2, <1>3, <1>4, <1>5 DEF OwnersInv

(* A call commits its wallet.                                              *)
LEMMA WalletAppears ==
    ASSUME OwnersInv, NEW o \in Openings, opening[o].step = "commit",
           wallets' = [wallets EXCEPT ![o] = Open!NewWallet(opening[o].request)],
           NEW s \in {"opened", "lost"}, opening' = [opening EXCEPT ![o].step = s]
    PROVE OwnersInv'
<1> DEFINE w == Open!NewWallet(opening[o].request)
<1>1. opening[o].request \in Accepted /\ Unrivalled(o) /\ opening[o] \in Open!Calls
  BY DEF OwnersInv, BalancesInv
<1>2. w \in WalletStates /\ w.player = opening[o].request.player
                         /\ w.currency = opening[o].request.currency
  BY <1>1, InitialIsBalance, WalletsAssumption DEF Accepted, Open!NewWallet, WalletStates
<1> HIDE DEF w
<1>3. \A p \in Openings :
        /\ wallets'[p] = IF p = o THEN w ELSE wallets[p]
        /\ opening'[p].request = opening[p].request
        /\ opening'[p].step = IF p = o THEN s ELSE opening[p].step
  BY <1>1 DEF OwnersInv, BalancesInv, w, Open!Calls
<1>4. BalancesInv'
  <2>1. wallets' \in [Openings -> WalletStates \cup {None}]
    BY <1>2 DEF OwnersInv, BalancesInv, w
  <2>2. opening' \in [Openings -> Open!Calls]
    BY <1>1 DEF OwnersInv, BalancesInv, Open!Calls, Open!OpeningSteps
  <2>3. \A p \in Openings :
          opening'[p].step \in {"insert", "commit"} => opening'[p].request \in Accepted
    BY <1>3 DEF OwnersInv, BalancesInv
  <2> QED
    BY <2>1, <2>2, <2>3 DEF BalancesInv
<1>5. \A p \in Openings : p # o /\ wallets[p] # None =>
                             ~ (wallets[p].player = w.player /\ wallets[p].currency = w.currency)
  BY <1>1, <1>2 DEF Unrivalled, Open!SameOwner
<1>6. OneWalletPerCurrency'
  BY <1>3, <1>5 DEF OwnersInv, OneWalletPerCurrency
<1>7. \A p \in Openings : opening'[p].step \in {"idle", "insert"} => wallets'[p] = None
  BY <1>3 DEF OwnersInv
<1>8. ASSUME NEW p \in Openings, opening'[p].step = "commit"
      PROVE Unrivalled(p)'
  <2>1. p # o /\ Unrivalled(p)
    BY <1>3, <1>8 DEF OwnersInv
  <2>2. ~ Open!SameOwner(opening[o].request, opening[p].request)
    BY <2>1 DEF Unrivalled
  <2>3. wallets'[p] = None
    BY <1>3, <2>1 DEF Unrivalled
  <2>4. ASSUME NEW q \in Openings
        PROVE /\ q # p /\ opening'[q].step = "commit"
                    => ~ Open!SameOwner(opening'[q].request, opening'[p].request)
              /\ wallets'[q] # None => ~ Open!SameOwner(wallets'[q], opening'[p].request)
    BY <1>2, <1>3, <2>1, <2>2 DEF Unrivalled, Open!SameOwner
  <2> QED
    BY <2>3, <2>4 DEF Unrivalled, Open!SameOwner
<1> QED
  BY <1>4, <1>6, <1>7, <1>8 DEF OwnersInv

(* A call that opens a wallet, by its step.                                *)
LEMMA OpeningKeepsOwners ==
    ASSUME OwnersInv, NEW o \in Openings, Open!Step(o)
    PROVE OwnersInv'
<1>0. opening[o] \in Open!Calls /\ None \in Requests \cup {None} /\ None \in Times \cup {None}
  BY DEF OwnersInv, BalancesInv
<1>1. ASSUME NEW step \in {"refused", "conflict", "lost"}, Open!End(o, step), UNCHANGED wallets
      PROVE OwnersInv'
  <2> DEFINE c == [step |-> step, request |-> None, at |-> None]
  <2>1. c \in Open!Calls /\ c.step = step
    BY DEF Open!Calls, Open!OpeningSteps
  <2>2. opening' = [opening EXCEPT ![o] = c]
    BY <1>1 DEF Open!End
  <2> HIDE DEF c
  <2> QED
    BY <1>1, <2>1, <2>2, CallGoesOn
<1>2. ASSUME NEW q \in Requests, NEW at \in Times, Open!Begin(o, q, at)
      PROVE OwnersInv'
  <2>1. CASE Open!Initial(q).ok /\ Open!Initial(q).value >= 0
    <3> DEFINE c == [step |-> "insert", request |-> q, at |-> at]
    <3>1. c \in Open!Calls /\ c.step = "insert" /\ c.request = q
      BY DEF Open!Calls, Open!OpeningSteps
    <3>2. opening' = [opening EXCEPT ![o] = c] /\ UNCHANGED wallets /\ wallets[o] = None
      BY <1>2, <2>1 DEF Open!Begin, OwnersInv
    <3>3. c.request \in Accepted
      BY <2>1, <3>1 DEF Accepted
    <3> HIDE DEF c
    <3> QED
      BY <3>1, <3>2, <3>3, CallGoesOn
  <2>2. CASE ~ (Open!Initial(q).ok /\ Open!Initial(q).value >= 0)
    BY <1>1, <1>2, <2>2 DEF Open!Begin
  <2> QED
    BY <2>1, <2>2
<1>3. ASSUME Open!Insert(o)
      PROVE OwnersInv'
  <2>1. UNCHANGED wallets /\ opening[o].step = "insert"
    BY <1>3 DEF Open!Insert
  <2>2. CASE Open!End(o, "conflict")
    BY <1>1, <2>1, <2>2
  <2>3. CASE /\ Open!Goto(o, "commit")
             /\ ~ \E p \in Openings :
                   wallets[p] # None /\ Open!SameOwner(wallets[p], opening[o].request)
    <3> DEFINE c == [opening[o] EXCEPT !.step = "commit"]
    <3>1. c \in Open!Calls /\ c.step = "commit" /\ c.request = opening[o].request
      BY <1>0 DEF Open!Calls, Open!OpeningSteps
    <3>2. opening' = [opening EXCEPT ![o] = c]
      BY <2>3 DEF Open!Goto
    <3>3. c.request \in Accepted /\ wallets[o] = None
      BY <2>1, <3>1 DEF OwnersInv, BalancesInv
    <3>4. \A p \in Openings :
            /\ opening[p].step = "commit" => ~ Open!SameOwner(opening[p].request, c.request)
            /\ wallets[p] # None => ~ Open!SameOwner(wallets[p], c.request)
      BY <1>3, <2>3, <3>1 DEF Open!Insert
    <3> HIDE DEF c
    <3> QED
      BY <2>1, <3>1, <3>2, <3>3, <3>4, CallGoesOn
  <2> QED
    BY <1>3, <2>2, <2>3 DEF Open!Insert
<1>4. ASSUME Open!Commit(o)
      PROVE OwnersInv'
  BY <1>4, WalletAppears DEF Open!Commit, Open!Publish, Open!Goto
<1>5. ASSUME Open!CommitUnacknowledged(o)
      PROVE OwnersInv'
  BY <1>5, WalletAppears DEF Open!CommitUnacknowledged, Open!Publish, Open!Goto
<1>6. ASSUME Open!Lose(o)
      PROVE OwnersInv'
  BY <1>1, <1>6 DEF Open!Lose
<1> QED
  BY <1>2, <1>3, <1>4, <1>5, <1>6 DEF Open!Step

(* A movement changes no owner and keeps balances in range.                *)
LEMMA MoveKeepsOwners ==
    ASSUME OwnersInv, NEW w \in Openings, NEW d \in {"CREDIT", "DEBIT"}, NEW n \in Amounts,
           NEW at \in Times, Move(w, d, n, at), UNCHANGED opening
    PROVE OwnersInv'
<1> DEFINE after == After(d, n, wallets[w].balance)
<1>1. wallets[w] \in WalletStates /\ n \in 1 .. MaxInt
  BY WalletsAssumption DEF Move, OwnersInv, BalancesInv
<1>2. after.value \in 0 .. MaxInt
  <2>1. wallets[w].balance \in 0 .. MaxInt
    BY <1>1 DEF WalletStates
  <2> QED
    BY <1>1, <2>1, MovedIsBalance DEF Move
<1>3. wallets' = [wallets EXCEPT ![w] =
                     [wallets[w] EXCEPT !.balance = after.value, !.version = wallets[w].version + 1]]
  BY DEF Move
<1> HIDE DEF after
<1>4. wallets'[w] = [wallets[w] EXCEPT !.balance = after.value, !.version = wallets[w].version + 1]
  BY <1>3 DEF OwnersInv, BalancesInv
<1>5. /\ wallets'[w] \in WalletStates
      /\ wallets'[w].player = wallets[w].player
      /\ wallets'[w].currency = wallets[w].currency
  <2> DEFINE h == wallets[w]
             b == after.value
  <2>1. h \in WalletStates /\ b \in 0 .. MaxInt /\ h.version + 1 \in Nat \ {0}
    BY <1>1, <1>2 DEF WalletStates
  <2> HIDE DEF h, b
  <2>2. /\ [h EXCEPT !.balance = b, !.version = h.version + 1] \in WalletStates
        /\ [h EXCEPT !.balance = b, !.version = h.version + 1].player = h.player
        /\ [h EXCEPT !.balance = b, !.version = h.version + 1].currency = h.currency
    BY <2>1 DEF WalletStates
  <2> QED
    BY <1>4, <2>2 DEF h, b
<1>6. \A p \in Openings :
         /\ p # w => wallets'[p] = wallets[p]
         /\ wallets'[p] # None => /\ wallets[p] # None
                                  /\ wallets'[p].player = wallets[p].player
                                  /\ wallets'[p].currency = wallets[p].currency
  BY <1>3, <1>5 DEF OwnersInv, BalancesInv, Move
<1>7. BalancesInv'
  <2>1. wallets' \in [Openings -> WalletStates \cup {None}]
    BY <1>3, <1>5 DEF OwnersInv, BalancesInv
  <2> QED
    BY <2>1 DEF OwnersInv, BalancesInv
<1>8. OneWalletPerCurrency'
  BY <1>6 DEF OwnersInv, OneWalletPerCurrency
<1>9. \A o \in Openings : opening'[o].step \in {"idle", "insert", "commit"} => o # w
  BY DEF Move, OwnersInv, Unrivalled
<1>10. \A o \in Openings : opening'[o].step \in {"idle", "insert"} => wallets'[o] = None
  BY <1>9, <1>6 DEF OwnersInv
<1>11. ASSUME NEW o \in Openings, opening'[o].step = "commit"
       PROVE Unrivalled(o)'
  <2>1. o # w /\ Unrivalled(o) /\ opening' = opening
    BY <1>9, <1>11 DEF OwnersInv
  <2>2. wallets'[o] = None
    BY <1>6, <2>1 DEF Unrivalled
  <2>3. \A p \in Openings : wallets'[p] # None => ~ Open!SameOwner(wallets'[p], opening'[o].request)
    BY <1>6, <2>1 DEF Unrivalled, Open!SameOwner
  <2> QED
    BY <2>1, <2>2, <2>3 DEF Unrivalled, Open!SameOwner
<1> QED
  BY <1>7, <1>8, <1>10, <1>11 DEF OwnersInv

(* Only openings and movements change a wallet.                            *)
LEMMA OwnersNext == OwnersInv /\ [Next]_vars => OwnersInv'
<1> SUFFICES ASSUME OwnersInv, [Next]_vars PROVE OwnersInv'
  OBVIOUS
<1>1. CASE UNCHANGED <<wallets, opening>>
  BY <1>1 DEF OwnersInv, BalancesInv, OneWalletPerCurrency, Unrivalled, Open!SameOwner
<1>2. ASSUME NEW r \in Auditors, Audit!Step(r), UNCHANGED <<outbox, opening, walk>>
      PROVE OwnersInv'
  BY <1>1, <1>2 DEF Audit!Step, Audit!FindByID, Audit!SumByWallet
<1> QED
  BY <1>1, <1>2, OpeningKeepsOwners, MoveKeepsOwners DEF Next, vars

(* No player ever has two wallets of one currency (OpenWallet's Create     *)
(* against the unique constraint), however many requests race.             *)
THEOREM OneWallet == Spec => []OneWalletPerCurrency
<1>1. OwnersInv => OneWalletPerCurrency
  BY DEF OwnersInv
<1> QED
  BY OwnersInit, OwnersNext, <1>1, PTL DEF Spec

(* No balance is ever negative or more than the word holds: whatever is    *)
(* opened, credited or debited, an overflow is refused and never stored.   *)
THEOREM BalancesFit == Spec => [](wallets \in [Openings -> WalletStates \cup {None}])
<1>1. OwnersInv => wallets \in [Openings -> WalletStates \cup {None}]
  BY DEF OwnersInv, BalancesInv
<1> QED
  BY OwnersInit, OwnersNext, <1>1, PTL DEF Spec
=============================================================================
