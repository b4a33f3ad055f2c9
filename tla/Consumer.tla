------------------------------ MODULE Consumer ------------------------------
(***************************************************************************)
(* The RabbitMQ consumers and their topology: a main queue, a retry queue  *)
(* whose messages come back when their time to live ends, a dead-letter    *)
(* queue; at-least-once delivery with manual acknowledgement.  One         *)
(* consumer per process of the service, one action per call it makes.      *)
(* Execute is seen here by what it returns; ProcessWager is its model.     *)
(***************************************************************************)
EXTENDS Integers, Sequences, Bags

CONSTANTS
    Consumers,      \* consumers, one per process
    Messages,       \* messages that providers publish, by MessageId
    Unreadable,     \* those without id, provider or valid payload
    Conflicting,    \* those that reuse a key for another payload
    MaxRetries,     \* Config.MaxRetries
    MaxClosings     \* bound on lost channels and crashes

ASSUME MessagesAssumption ==
    /\ Unreadable \subseteq Messages
    /\ Conflicting \subseteq Messages
    /\ Unreadable \cap Conflicting = {}
ASSUME RetriesAssumption == MaxRetries \in Nat /\ MaxClosings \in Nat

VARIABLES
    sent,       \* messages that have been published
    main,       \* copies in the main queue that no consumer has
    waiting,    \* the retry queue, oldest first
    dead,       \* what has reached the dead-letter queue, with the reason
    done,       \* messages whose transaction is committed
    failures,   \* errors of Execute per message, counted up to MaxRetries + 2
    pc,         \* what each consumer does next
    holds,      \* the delivery it handles
    reason,     \* why it buries that delivery
    channel,    \* its AMQP channel
    closings    \* channels lost so far, up to MaxClosings

queues == <<main, waiting, dead>>
vars == <<sent, main, waiting, dead, done, failures, pc, holds, reason, channel, closings>>

(* A copy of a message, with its x-retry-count header.                     *)
Copies == [msg : Messages, retries : 0 .. MaxRetries]
NoCopy == [msg |-> "none", retries |-> 0]
One(d) == SetToBag({d})

Init ==
    /\ sent = {}
    /\ main = EmptyBag
    /\ waiting = << >>
    /\ dead = {}
    /\ done = {}
    /\ failures = [m \in Messages |-> 0]
    /\ pc = [c \in Consumers |-> "idle"]
    /\ holds = [c \in Consumers |-> NoCopy]
    /\ reason = [c \in Consumers |-> "none"]
    /\ channel = [c \in Consumers |-> "open"]
    /\ closings = 0

-----------------------------------------------------------------------------
(* A provider publishes a message.                                         *)
Send(m) ==
    /\ m \notin sent
    /\ sent' = sent \cup {m}
    /\ main' = main (+) One([msg |-> m, retries |-> 0])
    /\ UNCHANGED <<waiting, dead, done, failures, pc, holds, reason, channel, closings>>

Unbound(d) == EmptyBag  \* mutant: the main queue is not bound to the retry key
(* Where a message whose time to live has ended is routed.                 *)
Rerouted(d) == One(d)

(* The time to live of the oldest retry ends; those behind it wait for it. *)
Expire ==
    /\ waiting # << >>
    /\ main' = main (+) Rerouted(Head(waiting))
    /\ waiting' = Tail(waiting)
    /\ UNCHANGED <<sent, dead, done, failures, pc, holds, reason, channel, closings>>

-----------------------------------------------------------------------------
Go(c, step) == pc' = [pc EXCEPT ![c] = step]
Bury(c, why) == Go(c, "bury") /\ reason' = [reason EXCEPT ![c] = why]

(* Prefetching and redelivery let deliveries overtake each other.          *)
Receive(c) ==
    /\ pc[c] = "idle"
    /\ channel[c] = "open"
    /\ \E d \in BagToSet(main) :
          /\ main' = main (-) One(d)
          /\ holds' = [holds EXCEPT ![c] = d]
    /\ Go(c, "handle")
    /\ UNCHANGED <<sent, waiting, dead, done, failures, reason, channel, closings>>

(* No id, no provider, a malformed body or an invalid payload.             *)
Refuse(c) ==
    /\ pc[c] = "handle"
    /\ holds[c].msg \in Unreadable
    /\ Bury(c, "unreadable")
    /\ UNCHANGED <<sent, queues, done, failures, holds, channel, closings>>

Executes(c) == pc[c] = "handle" /\ holds[c].msg \notin Unreadable
QueuesKept == UNCHANGED <<sent, queues, holds, channel, closings>>

(* Execute returns a result, or replays one.                               *)
Succeed(c) ==
    /\ Executes(c)
    /\ holds[c].msg \notin Conflicting
    /\ done' = done \cup {holds[c].msg}
    /\ Go(c, "ack")
    /\ QueuesKept /\ UNCHANGED <<failures, reason>>

(* ErrIdempotencyKeyReused or ErrExternalTransactionKeyMismatch.           *)
Conflict(c) ==
    /\ Executes(c)
    /\ holds[c].msg \in Conflicting
    /\ Bury(c, "conflict")
    /\ QueuesKept /\ UNCHANGED <<done, failures>>

(* Mutants: one retry too few, one too many.                               *)
BudgetShort(d) == d.retries + 1 >= MaxRetries
BudgetLong(d) == d.retries > MaxRetries

(* The header says that no retry is left.                                  *)
Exhausted(d) == d.retries + 1 > MaxRetries

(* Any other error; the transaction may have been committed all the same.  *)
Fail(c) ==
    LET m == holds[c].msg IN
    /\ Executes(c)
    /\ done' \in {done} \cup (IF m \in Conflicting THEN {} ELSE {done \cup {m}})
    /\ failures' = [failures EXCEPT ![m] = IF @ <= MaxRetries + 1 THEN @ + 1 ELSE @]
    /\ IF Exhausted(holds[c]) THEN Bury(c, "exhausted")
       ELSE Go(c, "retry") /\ UNCHANGED reason
    /\ QueuesKept

(* A panic is recovered.                                                   *)
Panic(c) ==
    /\ Executes(c)
    /\ Bury(c, "panic")
    /\ QueuesKept /\ UNCHANGED <<done, failures>>

-----------------------------------------------------------------------------
(* A publish reaches the broker before the acknowledgement that follows it *)
(* on the same channel; on a closed channel neither arrives.               *)
PublishRetry(c) ==
    /\ pc[c] = "retry"
    /\ waiting' = IF channel[c] = "open"
                  THEN Append(waiting, [holds[c] EXCEPT !.retries = @ + 1]) ELSE waiting
    /\ Go(c, "ack")
    /\ UNCHANGED <<sent, main, dead, done, failures, holds, reason, channel, closings>>

DeadLetter(c) ==
    /\ pc[c] = "bury"
    /\ dead' = IF channel[c] = "open"
               THEN dead \cup {[msg |-> holds[c].msg, why |-> reason[c]]} ELSE dead
    /\ Go(c, "ack")
    /\ reason' = [reason EXCEPT ![c] = "none"]
    /\ UNCHANGED <<sent, main, waiting, done, failures, holds, channel, closings>>

(* Ack, or Nack where the retry could not be published: with an open       *)
(* channel the broker forgets the delivery, without it has done nothing.   *)
Ack(c) ==
    /\ pc[c] = "ack"
    /\ Go(c, "idle")
    /\ holds' = [holds EXCEPT ![c] = NoCopy]
    /\ UNCHANGED <<sent, queues, done, failures, reason, channel, closings>>

-----------------------------------------------------------------------------
ForgetsUnacked(c) == EmptyBag  \* mutant: deliveries are acknowledged when they are sent
(* What the broker requeues when the channel closes.                       *)
Unacked(c) == IF pc[c] = "idle" THEN EmptyBag ELSE One(holds[c])

(* The channel closes.  The consumer still finishes its delivery, and then *)
(* its loop ends.                                                          *)
CloseChannel(c) ==
    /\ channel[c] = "open"
    /\ closings < MaxClosings
    /\ closings' = closings + 1
    /\ channel' = [channel EXCEPT ![c] = "closed"]
    /\ main' = main (+) Unacked(c)
    /\ UNCHANGED <<sent, waiting, dead, done, failures, pc, holds, reason>>

(* The process is replaced; only that opens a channel again.               *)
Restart(c) ==
    /\ channel[c] = "closed"
    /\ channel' = [channel EXCEPT ![c] = "open"]
    /\ Go(c, "idle")
    /\ holds' = [holds EXCEPT ![c] = NoCopy]
    /\ reason' = [reason EXCEPT ![c] = "none"]
    /\ UNCHANGED <<sent, queues, done, failures, closings>>

Step(c) ==
    \/ Receive(c)
    \/ Refuse(c)
    \/ Succeed(c)
    \/ Conflict(c)
    \/ Fail(c)
    \/ Panic(c)
    \/ PublishRetry(c)
    \/ DeadLetter(c)
    \/ Ack(c)

Next ==
    \/ \E m \in Messages : Send(m)
    \/ Expire
    \/ \E c \in Consumers : Step(c) \/ CloseChannel(c) \/ Restart(c)

Spec == Init /\ [][Next]_vars

(* Consumers run, times to live end, and a process whose channel is closed *)
(* is restarted.  Nothing makes Execute succeed.                           *)
FairSpec ==
    /\ Spec
    /\ WF_vars(Expire)
    /\ \A c \in Consumers : WF_vars(Step(c)) /\ WF_vars(Restart(c))
=============================================================================
