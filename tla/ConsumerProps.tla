--------------------------- MODULE ConsumerProps ---------------------------
(***************************************************************************)
(* What makes the consumers correct.                                       *)
(***************************************************************************)
EXTENDS Consumer, FiniteSets

(* Types, and what a consumer has in hand at each step.                    *)
Reasons == {"unreadable", "conflict", "exhausted", "panic"}
TypeOK ==
    /\ sent \in SUBSET Messages
    /\ IsABag(main) /\ BagToSet(main) \subseteq Copies
    /\ waiting \in Seq(Copies)
    /\ dead \in SUBSET [msg : Messages, why : Reasons]
    /\ done \in SUBSET Messages
    /\ failures \in [Messages -> 0 .. MaxRetries + 2]
    /\ pc \in [Consumers -> {"idle", "handle", "retry", "bury", "ack"}]
    /\ \A c \in Consumers : holds[c] \in IF pc[c] = "idle" THEN {NoCopy} ELSE Copies
    /\ \A c \in Consumers : reason[c] \in IF pc[c] = "bury" THEN Reasons ELSE {"none"}
    /\ channel \in [Consumers -> {"open", "closed"}]
    /\ closings \in 0 .. MaxClosings

Buried(m) == \E x \in dead : x.msg = m
Queued(m) ==
    \/ \E d \in BagToSet(main) : d.msg = m
    \/ \E i \in DOMAIN waiting : waiting[i].msg = m
    \/ \E c \in Consumers : channel[c] = "open" /\ pc[c] # "idle" /\ holds[c].msg = m

(* No message is lost: at every step it is with the broker, or its         *)
(* transaction is committed, or it is in the dead-letter queue             *)
(* (consumer.go acknowledges only after it has published).                 *)
NothingIsLost == \A m \in sent : Queued(m) \/ m \in done \/ Buried(m)

(* The retry budget: a message is given up as exhausted only after         *)
(* Execute has failed MaxRetries + 1 times, whatever copies of it a lost   *)
(* acknowledgement leaves, and without such a loss fails no more often.    *)
BudgetIsKept ==
    \A m \in Messages :
        /\ [msg |-> m, why |-> "exhausted"] \in dead => failures[m] > MaxRetries
        /\ closings = 0 => failures[m] <= MaxRetries + 1

(* Every message is settled, once and for all: committed or buried, and no *)
(* copy of it comes round any more, even if Execute never succeeds.        *)
Settled(m) == (m \in done \/ Buried(m)) /\ ~ Queued(m)
EveryMessageSettles == \A m \in Messages : m \in sent ~> []Settled(m)
=============================================================================
