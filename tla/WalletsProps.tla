---------------------------- MODULE WalletsProps ----------------------------
(***************************************************************************)
(* What opening, reconciling and listing promise while money moves.        *)
(***************************************************************************)
EXTENDS Wallets, MoneyProps

(* A player never has two wallets of one currency, although each opening   *)
(* makes a new id and asks nobody first: the second insert waits for the   *)
(* first and finds its wallet.                                             *)
OneWalletPerCurrency ==
    \A o, p \in Openings :
        /\ wallets[o] # None /\ wallets[p] # None /\ o # p
        => <<wallets[o].player, wallets[o].currency>> # <<wallets[p].player, wallets[p].currency>>

(* A wallet is there with the entry and the events of its opening, or not  *)
(* at all, wherever a connection is lost; one opened with nothing has      *)
(* neither.  From then on its entries add up to its balance.               *)
IsOpening(e, o) ==
    e.at = opening[o].at /\ e.direction = "CREDIT" /\ e.amount = Open!Initial(opening[o].request).value
OpenedWhole ==
    \A o \in Openings :
        IF wallets[o] = None THEN ledger[o] = {} /\ outbox[o] = {}
        ELSE /\ wallets[o].balance = Total(ledger[o])
             /\ IF Open!Initial(opening[o].request).value = 0 THEN outbox[o] = {}
                ELSE /\ outbox[o] = {"Processed", "BalanceChanged"}
                     /\ \E e \in ledger[o] : IsOpening(e, o)

(* What is written is what is kept and what is kept is what is read: a     *)
(* wallet is opened only with the amount that its request spells, however  *)
(* large, and the balance and the difference a reconciliation answers      *)
(* with, above or below zero, are read back as they are.                   *)
ReadsBack(m) == Parse(Text(m)) = Exactly(m) /\ ValueOf(Text(m)) = m
AmountsAreExact ==
    /\ \A o \in Openings :
          wallets[o] # None =>
              LET t == opening[o].request.initialBalance IN
              Open!Initial(opening[o].request) = Exactly(ValueOf(t))
    /\ \A r \in Auditors : ReadsBack(audit[r].stored) /\ ReadsBack(audit[r].difference)

(* A reconciliation never blames a wallet for more than what was committed *)
(* between its two reads: the difference it reports is undone by just those*)
(* entries, it loses none it has seen, and its subtraction never fails.  A *)
(* wallet has no answer only if it was opened with nothing and had not     *)
(* moved.                                                                  *)
ReconciliationIsExplained ==
    \A r \in Auditors :
        LET a == audit[r] IN
        a.step = "done" =>
            /\ a.error # "OVERFLOW"
            /\ a.error = "INVALID_CURRENCY" => a.stored = 0
                                               /\ Open!Initial(opening[a.wallet].request).value = 0
            /\ a.error = None => /\ a.entries \subseteq a.counted
                                 /\ a.difference + Total(a.counted \ a.entries) = 0

(* A client that follows the cursors to the last page has seen every entry *)
(* its wallet had when it began, each once and in order, whatever commits  *)
(* meanwhile and however entries share their time.                         *)
WalkIsComplete ==
    \A k \in Walks :
        LET seen == walk[k].seen IN
        /\ \A i \in 1 .. Len(seen) - 1 : Precedes(seen[i], seen[i + 1])
        /\ walk[k].step = "done" => walk[k].began \subseteq ToSet(seen)
=============================================================================
