----------------------------- MODULE MoneyProps -----------------------------
(***************************************************************************)
(* Checked arithmetic against arithmetic on unbounded integers.            *)
(***************************************************************************)
EXTENDS Money

(* The outcome of an operation whose exact result is x.                    *)
IfItFits(x) == IF x \in Int64 THEN Exactly(x) ELSE Overflow

(* A sum, a difference or a product by 100 is exact or refused, never      *)
(* wrapped, and it is refused only when it does not fit, or when what is   *)
(* subtracted has no negation (checkedAdd tells an overflow by the sign of *)
(* what was added, checkedMul by dividing the wrapped product again).      *)
ArithmeticIsExact ==
    \A a \in Int64 :
        /\ CheckedMul(a, 100) = IfItFits(a * 100)
        /\ \A b \in Int64 :
              /\ CheckedAdd(a, b) = IfItFits(a + b)
              /\ Subtract(a, b) = IF b = MinInt THEN Overflow ELSE IfItFits(a - b)

(* The amount that decimal text means.                                     *)
ValueOf(t) == (IF t.negative THEN -1 ELSE 1) * (100 * t.integer + t.fraction)

(* Decimal text says exactly what is stored, even at MinInt, and is read   *)
(* back as it was written; only MinInt, whose text is read before its sign *)
(* is applied, is refused.                                                 *)
TextIsExact ==
    /\ \A m \in Int64 :
          /\ Text(m) \in Texts
          /\ ValueOf(Text(m)) = m
          /\ Parse(Text(m)) = IF m = MinInt THEN Overflow ELSE Exactly(m)
    /\ \A t \in Texts :
          Parse(t) = IF ValueOf(t) = MinInt THEN Overflow ELSE IfItFits(ValueOf(t))
=============================================================================
