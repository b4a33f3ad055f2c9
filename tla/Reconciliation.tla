--------------------------- MODULE Reconciliation ---------------------------
(***************************************************************************)
(* ReconciliationUseCase: the stored balance of a wallet against the sum   *)
(* of its entries, read by two statements of a READ COMMITTED transaction. *)
(***************************************************************************)
EXTENDS WalletRecords

CONSTANT Auditors   \* calls of Reconciliation

VARIABLES wallets, ledger,
    audit   \* the calls: step, wallet, what was read, and the answer

(* entries are those the wallet had at the first read, counted those that  *)
(* were summed; the program keeps their number alone.                      *)
Audits == [step : {"idle", "sum", "done"}, wallet : Openings \cup {None},
           stored : 0 .. MaxInt, entries : SUBSET Entries, counted : SUBSET Entries,
           difference : Int64, error : {None, "NOT_FOUND", "INVALID_CURRENCY", "OVERFLOW"}]

NoAudit == [step |-> "idle", wallet |-> None, stored |-> 0, entries |-> {}, counted |-> {},
            difference |-> 0, error |-> None]
Init == audit = [r \in Auditors |-> NoAudit]

FindByID(r, w) ==
    /\ audit[r].step = "idle"
    /\ audit' = [audit EXCEPT ![r] =
          IF wallets[w] = None
          THEN [@ EXCEPT !.step = "done", !.wallet = w, !.error = "NOT_FOUND"]
          ELSE [@ EXCEPT !.step = "sum", !.wallet = w, !.stored = wallets[w].balance,
                         !.entries = ledger[w]]]
    /\ UNCHANGED <<wallets, ledger>>

(* SumByWallet, as the amounts with their sign.  Without entries there is  *)
(* no currency either.                                                     *)
CalculatedFromCredits(es) == Total({e \in es : e.direction = "CREDIT"})  \* mutant: debits are left out
Calculated(es) == Total(es)

SumByWallet(r) ==
    LET es == ledger[audit[r].wallet]
        difference == Subtract(audit[r].stored, Calculated(es))
    IN
    /\ audit[r].step = "sum"
    /\ audit' = [audit EXCEPT ![r] =
          [@ EXCEPT !.step = "done", !.counted = es, !.difference = difference.value,
                    !.error = IF es = {} THEN "INVALID_CURRENCY"
                              ELSE IF difference.ok THEN None ELSE "OVERFLOW"]]
    /\ UNCHANGED <<wallets, ledger>>

Step(r) == SumByWallet(r) \/ \E w \in Openings : FindByID(r, w)
=============================================================================
