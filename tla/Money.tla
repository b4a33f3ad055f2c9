------------------------------- MODULE Money --------------------------------
(***************************************************************************)
(* money.Money: amounts in minor units, held in a signed machine integer,  *)
(* and the checks that keep its operations from wrapping around.           *)
(*                                                                         *)
(* Currencies are compared before every operation and are the caller's     *)
(* business here.  The decimal text of an amount is its sign, the number   *)
(* its integer digits spell and the number of its two fractional digits;   *)
(* any other text is refused by a regular expression.                      *)
(***************************************************************************)
EXTENDS Integers

CONSTANT MaxInt   \* the largest int64, 2^63 - 1 in the program

ASSUME MaxIntAssumption == MaxInt \in Nat /\ MaxInt >= 99

MinInt == - MaxInt - 1
Int64 == MinInt .. MaxInt

(* What a machine word keeps of an integer: two's complement.              *)
Width == 2 * (MaxInt + 1)
Wrap(x) == ((x - MinInt) % Width) + MinInt

(* The outcome of an operation.  Go answers 0 with an error.               *)
Exactly(x) == [ok |-> TRUE, value |-> x]
Overflow == [ok |-> FALSE, value |-> 0]

-----------------------------------------------------------------------------
Unchecked(a, b) == Exactly(Wrap(a + b))  \* mutant: the sum is not looked at
CheckedAdd(a, b) ==
    LET sum == Wrap(a + b) IN
    IF (b > 0 /\ sum < a) \/ (b < 0 /\ sum > a) THEN Overflow ELSE Exactly(sum)

CheckedNegate(a) == IF a = MinInt THEN Overflow ELSE Exactly(- a)

(* Go's division truncates towards zero; \div rounds down.                 *)
Quotient(a, b) == IF a >= 0 THEN a \div b ELSE - ((- a) \div b)
Remainder(a, b) == a - b * Quotient(a, b)

(* The product by a positive factor; the only one in use is 100.           *)
CheckedMul(a, b) ==
    LET result == Wrap(a * b) IN
    IF Quotient(result, b) # a THEN Overflow ELSE Exactly(result)

(* Money.Subtract negates first, so it refuses to subtract MinInt at all.  *)
Subtract(a, b) ==
    LET negated == CheckedNegate(b) IN
    IF negated.ok THEN CheckedAdd(a, negated.value) ELSE Overflow

-----------------------------------------------------------------------------
Texts == [negative : BOOLEAN, integer : Nat, fraction : 0 .. 99]

(* Money.String; MinInt, which has no negation, is taken apart as it is.   *)
Text(m) ==
    IF m = MinInt
    THEN [negative |-> TRUE, integer |-> - Quotient(m, 100), fraction |-> - Remainder(m, 100)]
    ELSE LET abs == IF m < 0 THEN - m ELSE m IN
         [negative |-> m < 0, integer |-> Quotient(abs, 100), fraction |-> Remainder(abs, 100)]

(* Mutant: the product by 100 is not checked.                              *)
ParseUnchecked(t) ==
    LET sum == CheckedAdd(Wrap(t.integer * 100), t.fraction) IN
    IF t.integer > MaxInt \/ ~ sum.ok THEN Overflow
    ELSE IF t.negative THEN CheckedNegate(sum.value) ELSE sum
(* money.Parse.  strconv.ParseInt refuses digits beyond the word.          *)
Parse(t) ==
    LET major == CheckedMul(t.integer, 100)
        sum == CheckedAdd(major.value, t.fraction)
    IN
    IF t.integer > MaxInt \/ ~ major.ok \/ ~ sum.ok THEN Overflow
    ELSE IF t.negative THEN CheckedNegate(sum.value) ELSE sum
=============================================================================
