---------------------------- MODULE LedgerPaging ----------------------------
(***************************************************************************)
(* The ledger of a wallet page by page: GetWalletLedger and ListByWallet.  *)
(* A walk is a client that follows the cursors to the last page.           *)
(***************************************************************************)
EXTENDS WalletRecords

CONSTANTS
    Walks,         \* clients
    Limits,        \* the decimal numbers they write in the query
    DefaultLimit   \* 50

VARIABLES ledger,
    walk   \* the walks: step, wallet, limit, cursor, entries seen so far, and
           \* those the wallet had when the walk began

WalkStates == [step : {"idle", "on", "done", "failed"}, wallet : Openings \cup {None},
               limit : Int64, cursor : (Times \X EntryIds) \cup {None},
               seen : Seq(Entries), began : SUBSET Entries]

NoWalk == [step |-> "idle", wallet |-> None, limit |-> 0, cursor |-> None,
           seen |-> << >>, began |-> {}]
Init == walk = [k \in Walks |-> NoWalk]

(* parsePositiveInt folds the digits in a machine word that may wrap;      *)
(* what is not positive then is replaced by the default.                   *)
PageLimit(n) == IF Wrap(n) > 0 THEN Wrap(n) ELSE DefaultLimit

(* (created_at, id) > cursor, as a row comparison.                         *)
BeyondTime(e, cursor) == cursor = None \/ e.at > cursor[1]  \* mutant: by created_at alone
Beyond(e, cursor) ==
    cursor = None \/ e.at > cursor[1] \/ (e.at = cursor[1] /\ e.id > cursor[2])

(* ORDER BY created_at, id.                                                *)
InOrder(es) ==
    CHOOSE s \in [1 .. Cardinality(es) -> es] :
        \A i, j \in DOMAIN s : i < j => Precedes(s[i], s[j])

(* One page: a row more than the limit is read to know whether another     *)
(* page follows.  LIMIT with a number that has wrapped is an SQL error.    *)
List(k, w, cursor, limit, seen, began) ==
    LET left == InOrder({e \in ledger[w] : Beyond(e, cursor)})
        more == Len(left) > limit
        page == IF more THEN SubSeq(left, 1, limit) ELSE left
    IN
    walk' = [walk EXCEPT ![k] =
        IF Wrap(limit + 1) < 0 THEN [@ EXCEPT !.step = "failed"]
        ELSE [step |-> IF more THEN "on" ELSE "done", wallet |-> w, limit |-> limit,
              cursor |-> IF more THEN <<page[limit].at, page[limit].id>> ELSE None,
              seen |-> seen \o page, began |-> began]]

FirstPage(k, w, n) ==
    /\ walk[k].step = "idle"
    /\ List(k, w, None, PageLimit(n), << >>, ledger[w])
    /\ UNCHANGED ledger

NextPage(k) ==
    /\ walk[k].step = "on"
    /\ List(k, walk[k].wallet, walk[k].cursor, walk[k].limit, walk[k].seen, walk[k].began)
    /\ UNCHANGED ledger

Step(k) == NextPage(k) \/ \E w \in Openings, n \in Limits : FirstPage(k, w, n)
=============================================================================
