------------------------------- MODULE Outbox -------------------------------
(***************************************************************************)
(* The outbox workers: they claim records of outbox_records, publish each  *)
(* to RabbitMQ and wait for the broker's confirm, then mark the record or  *)
(* reschedule it.  One worker per process of the service, one action per   *)
(* statement or publish; workers, the broker and the database fail.        *)
(* The changes that append the records are ProcessWager's transactions,    *)
(* seen here only as they end.                                             *)
(***************************************************************************)
EXTENDS Integers, Sequences, FiniteSets

CONSTANTS
    Workers,          \* outbox workers, one per process
    Changes,          \* database transactions that append events
    Events,           \* outbox records, by event id
    Appends,          \* the events each change appends
    BatchSize,        \* limit of a claim
    Base, MaxDelay,   \* BackoffPolicy, in units of the model's clock
    AttemptsCap,      \* attempts from which the backoff is MaxDelay
    Overdue           \* how far in the past a due time is told apart

ASSUME ChangesAssumption ==
    /\ Appends \in [Changes -> SUBSET Events]
    /\ \A e \in Events : \E c \in Changes : e \in Appends[c]
    /\ \A c, d \in Changes : c # d => Appends[c] \cap Appends[d] = {}

ASSUME BoundsAssumption ==
    /\ BatchSize \in Nat \ {0}
    /\ Base \in Nat \ {0}
    /\ MaxDelay \in Nat
    /\ Base <= MaxDelay
    /\ AttemptsCap \in Nat \ {0}
    /\ Overdue \in Nat

VARIABLES
    change,      \* how each database transaction ended
    attempts,    \* column attempts
    due,         \* column next_attempt, as the time that is left until then
    published,   \* whether published_at is set
    pc,          \* what each worker does next
    batch,       \* the claimed records it has not dealt with, as it read them
    age,         \* time since it read the clock for this batch
    channel,     \* its AMQP channel
    confirmed,   \* events the broker has confirmed at least once
    queue        \* events that reached a subscriber's queue at least once

records == <<attempts, due, published>>
vars == <<change, attempts, due, published, pc, batch, age, channel, confirmed, queue>>

AppendedAtOnce(e) == \E c \in Changes : e \in Appends[c]  \* mutant: not in the transaction
Stored(e) == \E c \in Changes : change[c] = "committed" /\ e \in Appends[c]

Least(a, b) == IF a <= b THEN a ELSE b
Greatest(a, b) == IF a >= b THEN a ELSE b

(* Doubled from Base up to MaxDelay.                                       *)
Backoff(n) == IF n <= 1 THEN Base ELSE Least(Base * 2 ^ (n - 1), MaxDelay)

(* Attempts are counted up to AttemptsCap, from where Backoff is constant. *)
ASSUME CapAssumption == Backoff(AttemptsCap) = MaxDelay

Init ==
    /\ change = [c \in Changes |-> "open"]
    /\ attempts = [e \in Events |-> 0]
    /\ due = [e \in Events |-> 0]
    /\ published = [e \in Events |-> FALSE]
    /\ pc = [w \in Workers |-> "poll"]
    /\ batch = [w \in Workers |-> << >>]
    /\ age = [w \in Workers |-> 0]
    /\ channel = [w \in Workers |-> "open"]
    /\ confirmed = {}
    /\ queue = {}

-----------------------------------------------------------------------------
(* A change ends; its records appear with it, due at the time at which the *)
(* call began, lag ago.                                                    *)
Commit(c, lag) ==
    /\ change[c] = "open"
    /\ change' = [change EXCEPT ![c] = "committed"]
    /\ due' = [e \in Events |-> IF e \in Appends[c] THEN - lag ELSE due[e]]
    /\ UNCHANGED <<attempts, published, pc, batch, age, channel, confirmed, queue>>

Rollback(c) ==
    /\ change[c] = "open"
    /\ change' = [change EXCEPT ![c] = "rolled back"]
    /\ UNCHANGED <<records, pc, batch, age, channel, confirmed, queue>>

-----------------------------------------------------------------------------
(* Mutants: a record is given up; a marked record is claimed again.        *)
GivenUp == {e \in Events : Stored(e) /\ ~ published[e] /\ due[e] <= 0 /\ attempts[e] < AttemptsCap}
MarkIgnored == {e \in Events : Stored(e) /\ due[e] <= 0}

(* WHERE published_at IS NULL AND next_attempt <= now.                     *)
Claimable == {e \in Events : Stored(e) /\ ~ published[e] /\ due[e] <= 0}

(* The oldest of them, at most BatchSize; equal due times in any order.    *)
IsClaim(s) ==
    /\ Len(s) = Least(BatchSize, Cardinality(Claimable))
    /\ \A i, j \in DOMAIN s : i < j => s[i] # s[j] /\ due[s[i]] <= due[s[j]]
    /\ \A i \in DOMAIN s, e \in Claimable :
          (\A j \in DOMAIN s : s[j] # e) => due[s[i]] <= due[e]
Claims == {s \in UNION {[1 .. n -> Claimable] : n \in 1 .. BatchSize} : IsClaim(s)}

(* ClaimPending is a statement of its own: its row locks end with it.      *)
ClaimPending(w) ==
    /\ pc[w] = "poll"
    /\ \E s \in Claims :
          batch' = [batch EXCEPT ![w] =
                       [i \in DOMAIN s |-> [event |-> s[i], attempts |-> attempts[s[i]]]]]
    /\ pc' = [pc EXCEPT ![w] = "publish"]
    /\ age' = [age EXCEPT ![w] = 0]
    /\ UNCHANGED <<change, records, channel, confirmed, queue>>

Current(w) == Head(batch[w])

(* Mutant: the end of the batch goes unnoticed.                            *)
ContinueAnyway(w) ==
    /\ batch' = [batch EXCEPT ![w] = Tail(@)]
    /\ pc' = [pc EXCEPT ![w] = "publish"]

(* The rest of the batch, or the next poll.                                *)
Continue(w) ==
    /\ batch' = [batch EXCEPT ![w] = Tail(@)]
    /\ pc' = [pc EXCEPT ![w] = IF Tail(batch[w]) = << >> THEN "poll" ELSE "publish"]

(* RunOnce returns; what is left of the batch is claimed again later.      *)
Abandon(w) ==
    /\ batch' = [batch EXCEPT ![w] = << >>]
    /\ pc' = [pc EXCEPT ![w] = "poll"]

(* A subscriber has bound a queue for the keys of events.  Without one the *)
(* broker drops the event and confirms it: the publish is not mandatory.   *)
Routed(e) == queue \cup {e}

(* Publish returns nil: the broker has confirmed the event.                *)
PublishConfirmed(w) ==
    /\ pc[w] = "publish"
    /\ channel[w] = "open"
    /\ confirmed' = confirmed \cup {Current(w).event}
    /\ queue' = Routed(Current(w).event)
    /\ pc' = [pc EXCEPT ![w] = "mark"]
    /\ UNCHANGED <<change, records, batch, age, channel>>

(* Mutant: the error or the broker's refusal is dropped.                   *)
NackUnnoticed(w) ==
    /\ pc[w] = "publish"
    /\ \/ UNCHANGED queue
       \/ channel[w] = "open" /\ queue' = Routed(Current(w).event)
    /\ pc' = [pc EXCEPT ![w] = "mark"]
    /\ UNCHANGED <<change, records, batch, age, channel, confirmed>>

(* Publish returns an error: nothing was sent, the broker refused, or it   *)
(* has the event and its confirm did not arrive.                           *)
PublishFailed(w) ==
    /\ pc[w] = "publish"
    /\ \/ UNCHANGED queue
       \/ channel[w] = "open" /\ queue' = Routed(Current(w).event)
    /\ pc' = [pc EXCEPT ![w] = "reschedule"]
    /\ UNCHANGED <<change, records, batch, age, channel, confirmed>>

SetPublished(w) ==
    /\ published' = [published EXCEPT ![Current(w).event] = TRUE]
    /\ UNCHANGED <<attempts, due>>

(* attempts are those that were read, plus one; the next attempt is        *)
(* reckoned from the clock that was read before the claim.                 *)
SetRetry(w) ==
    LET e == Current(w).event
        n == Least(Current(w).attempts + 1, AttemptsCap)
    IN
    /\ attempts' = [attempts EXCEPT ![e] = n]
    /\ due' = [due EXCEPT ![e] = Greatest(Backoff(n) - age[w], - Overdue)]
    /\ UNCHANGED published

MarkPublished(w) ==
    /\ pc[w] = "mark"
    /\ SetPublished(w)
    /\ Continue(w)
    /\ UNCHANGED <<change, age, channel, confirmed, queue>>

ScheduleRetry(w) ==
    /\ pc[w] = "reschedule"
    /\ SetRetry(w)
    /\ Continue(w)
    /\ UNCHANGED <<change, age, channel, confirmed, queue>>

(* MarkPublished or ScheduleRetry returns an error, with or without effect,*)
(* and the batch ends.                                                     *)
UpdateFails(w) ==
    /\ \/ pc[w] \in {"mark", "reschedule"} /\ UNCHANGED records
       \/ pc[w] = "mark" /\ SetPublished(w)
       \/ pc[w] = "reschedule" /\ SetRetry(w)
    /\ Abandon(w)
    /\ UNCHANGED <<change, age, channel, confirmed, queue>>

-----------------------------------------------------------------------------
(* The connection or the channel closes.  Nothing opens it again but a     *)
(* restart: the publisher keeps the channel it was built with.             *)
LoseChannel(w) ==
    /\ channel[w] = "open"
    /\ channel' = [channel EXCEPT ![w] = "closed"]
    /\ UNCHANGED <<change, records, pc, batch, age, confirmed, queue>>

(* The process ends anywhere in the loop and is started again.             *)
Restart(w) ==
    /\ Abandon(w)
    /\ age' = [age EXCEPT ![w] = 0]
    /\ channel' = [channel EXCEPT ![w] = "open"]
    /\ UNCHANGED <<change, records, confirmed, queue>>

(* Time passes; the due time of a marked record matters no more.           *)
Tick ==
    /\ due' = [e \in Events |-> IF Stored(e) /\ ~ published[e]
                                THEN Greatest(due[e] - 1, - Overdue) ELSE due[e]]
    /\ age' = [w \in Workers |-> IF pc[w] = "poll" THEN age[w]
                                 ELSE Least(age[w] + 1, MaxDelay + Overdue)]
    /\ UNCHANGED <<change, attempts, published, pc, batch, channel, confirmed, queue>>

Step(w) ==
    \/ ClaimPending(w)
    \/ PublishConfirmed(w)
    \/ PublishFailed(w)
    \/ MarkPublished(w)
    \/ ScheduleRetry(w)
    \/ UpdateFails(w)

Next ==
    \/ \E c \in Changes : Rollback(c) \/ \E lag \in 0 .. Overdue : Commit(c, lag)
    \/ \E w \in Workers : Step(w) \/ LoseChannel(w) \/ Restart(w)
    \/ Tick

Spec == Init /\ [][Next]_vars

(* The loop runs, time passes, and neither the broker nor the database     *)
(* refuses for ever what is asked again and again.                         *)
FairSpec ==
    /\ Spec
    /\ WF_vars(Tick)
    /\ \A w \in Workers :
          /\ WF_vars(Step(w))
          /\ SF_vars(PublishConfirmed(w))
          /\ SF_vars(MarkPublished(w))

(* Moreover connections are lost for the last time at some point, and      *)
(* somebody restarts each process whose channel is closed.                 *)
RestartedSpec == FairSpec /\ <>[](\A w \in Workers : channel[w] = "open")
=============================================================================
