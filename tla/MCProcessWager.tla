--------------------------- MODULE MCProcessWager ---------------------------
(***************************************************************************)
(* Small instances of ProcessWager for TLC.                                *)
(***************************************************************************)
EXTENDS ProcessWagerProps, TLC

CONSTANTS a1, a2, a3, a4   \* attempts

Symmetry == Permutations(Attempts)

(* One provider, player and round unless a command says otherwise.         *)
Command(kind, ext, amount, reference) ==
    [provider |-> "p", ext |-> ext, key |-> ext, player |-> "alice", wallet |-> "w",
     round |-> "r1", kind |-> kind, amount |-> amount, currency |-> "BRL",
     ref |-> reference, msg |-> None]

Bet1 == Command("BET", "bet1", 2, None)
Bet2 == Command("BET", "bet2", 2, None)
Win1 == Command("WIN", "win1", 1, "bet1")
Loss1 == Command("LOSS", "loss1", 0, None)
Refund1 == Command("REFUND", "refund1", 2, "bet1")
Rollback1 == Command("ROLLBACK", "rollback1", 2, "bet1")
UndoRefund == Command("ROLLBACK", "undo1", 2, "refund1")
UndoWin == Command("ROLLBACK", "undo2", 1, "win1")
UndoLoss == Command("ROLLBACK", "undo3", 2, "loss1")

MCWallets == {"w", "v"}
MCCurrency == [w |-> "BRL", v |-> "USD"]
MCOpening == [w |-> 3, v |-> 0]

(* Competing movements of one wallet, key and external-id reuse.           *)
Bets == {Bet1, Bet2, Win1, Loss1,
         [Bet1 EXCEPT !.amount = 1],           \* same key, another payload
         [Bet1 EXCEPT !.key = "other"],        \* same external id, another key
         [Bet1 EXCEPT !.provider = "q"],       \* another provider's key space
         [Bet2 EXCEPT !.wallet = "v", !.ext = "usd", !.key = "usd"],
         [Bet2 EXCEPT !.wallet = "lost", !.ext = "x", !.key = "x"],
         [Loss1 EXCEPT !.amount = 1]}

(* References of every kind, fitting and not, early and late.              *)
References == {Bet1, Win1, Loss1, Refund1, Rollback1, UndoRefund, UndoWin, UndoLoss,
               [Refund1 EXCEPT !.ext = "refund2", !.key = "refund2", !.round = "r2"],
               [Rollback1 EXCEPT !.ref = "rollback1"],  \* names itself
               [Win1 EXCEPT !.ext = "win2", !.key = "win2", !.ref = "win2"]}

(* Both: commands of every kind, each with every other.                    *)
Wagers == Bets \cup References

(* Deliveries: a message redelivered, with the same body, with another key *)
(* and with another payload, mixed with an HTTP call of the same body.     *)
Deliver(c, m) == [c EXCEPT !.msg = m]
Deliveries == {Deliver(Bet1, "m1"), Deliver([Bet1 EXCEPT !.key = "other"], "m1"),
               Deliver(Bet2, "m1"), Bet1}

(* One message id under which two bodies are sent that differ in the key   *)
(* alone; the second key is another transaction's.                         *)
SwappedKeys == {Deliver(Bet1, "m1"), Deliver([Bet1 EXCEPT !.key = "bet2"], "m1"), Bet2}

(* The last set is what the others are not.                                *)
ASSUME OnlySwappedKeys ==
    SwapsNoKey(Wagers) /\ SwapsNoKey(Deliveries) /\ ~ SwapsNoKey(SwappedKeys)

(* Two BETs of one wallet, a repeated one among them.                      *)
TwoBets == {Bet1, Bet2}
=============================================================================
