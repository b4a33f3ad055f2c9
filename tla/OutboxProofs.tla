---------------------------- MODULE OutboxProofs ----------------------------
(***************************************************************************)
(* Theorems about Outbox, for every set of workers, changes and events and *)
(* every batch size and backoff: a marked record has been confirmed, and   *)
(* the workers implement the safety part of AtLeastOnce.                   *)
(***************************************************************************)
EXTENDS OutboxProps, SequenceTheorems, TLAPS

(* A claimed record, as the worker read it.                                *)
Held == [event : Events, attempts : Int]

(* What a worker has in hand: records of committed changes, none exactly   *)
(* while it polls; and, before it marks a record, the broker's confirm.    *)
BatchOK(w) ==
    /\ batch[w] \in Seq(Held)
    /\ batch[w] = << >> <=> pc[w] = "poll"
    /\ \A i \in DOMAIN batch[w] : Stored(batch[w][i].event)
    /\ pc[w] = "mark" => Current(w).event \in confirmed

(* The inductive invariant.                                                *)
Delivery ==
    /\ change \in [Changes -> {"open", "committed", "rolled back"}]
    /\ attempts \in [Events -> Int]
    /\ published \in [Events -> BOOLEAN]
    /\ pc \in [Workers -> {"poll", "publish", "mark", "reschedule"}]
    /\ DOMAIN batch = Workers
    /\ \A w \in Workers : BatchOK(w)
    /\ MarkedIsConfirmed

(* Initially no worker has anything in hand and nothing is marked.         *)
LEMMA DeliveryInit == Init => Delivery
<1> SUFFICES ASSUME Init PROVE Delivery
  OBVIOUS
<1>1. \A w \in Workers : BatchOK(w)
  BY DEF Init, BatchOK
<1>2. MarkedIsConfirmed
  BY DEF Init, MarkedIsConfirmed
<1> QED
  BY <1>1, <1>2 DEF Init, Delivery

(* A change that ends leaves what is stored, so every batch stays sound.   *)
LEMMA EndKeepsDelivery ==
    ASSUME Delivery, NEW c \in Changes, NEW s \in {"committed", "rolled back"},
           change[c] = "open", change' = [change EXCEPT ![c] = s],
           UNCHANGED <<attempts, published, pc, batch, confirmed>>
    PROVE  Delivery'
<1>1. \A e : Stored(e) => Stored(e)'
  BY DEF Delivery, Stored
<1>2. ASSUME NEW w \in Workers PROVE BatchOK(w)'
  BY <1>1 DEF Delivery, BatchOK, Current
<1> QED
  BY <1>2 DEF Delivery, MarkedIsConfirmed

(* The event a worker that does not poll is about to deal with is stored.  *)
LEMMA CurrentIsStored ==
    ASSUME Delivery, NEW w \in Workers, pc[w] # "poll"
    PROVE  /\ batch[w] \in Seq(Held)
           /\ batch[w] # << >>
           /\ Current(w) \in Held
           /\ Stored(Current(w).event)
<1>1. batch[w] \in Seq(Held) /\ batch[w] # << >>
  BY DEF Delivery, BatchOK
<1>2. 1 \in DOMAIN batch[w] /\ Current(w) = batch[w][1]
  BY <1>1 DEF Current
<1>3. Current(w) \in Held
  BY <1>1, HeadTailProperties DEF Current
<1>4. Stored(Current(w).event)
  BY <1>2 DEF Delivery, BatchOK
<1> QED
  BY <1>1, <1>3, <1>4

(* Steps that go on with the batch or give it up, and mark at most a       *)
(* record whose confirm the worker has.                                    *)
LEMMA UpdateKeepsDelivery ==
    ASSUME Delivery, NEW w \in Workers, pc[w] # "poll",
           Continue(w) \/ Abandon(w),
           attempts' \in [Events -> Int],
           \/ UNCHANGED published
           \/ pc[w] = "mark" /\ published' = [published EXCEPT ![Current(w).event] = TRUE],
           UNCHANGED <<change, confirmed>>
    PROVE  Delivery'
<1>1. /\ batch[w] \in Seq(Held)
      /\ batch[w] # << >>
  BY CurrentIsStored
<1>2. \A e : Stored(e)' <=> Stored(e)
  BY DEF Stored
<1>3. /\ pc' \in [Workers -> {"poll", "publish", "mark", "reschedule"}]
      /\ DOMAIN batch' = Workers
      /\ \A v \in Workers \ {w} : pc'[v] = pc[v] /\ batch'[v] = batch[v]
      /\ pc'[w] # "mark"
  BY DEF Delivery, Continue, Abandon
<1>4. /\ batch'[w] \in Seq(Held)
      /\ batch'[w] = << >> <=> pc'[w] = "poll"
      /\ \A i \in DOMAIN batch'[w] : Stored(batch'[w][i].event)
  <2>1. CASE Continue(w)
    <3>1. batch'[w] = Tail(batch[w]) /\ (pc'[w] = "poll" <=> Tail(batch[w]) = << >>)
      BY <2>1 DEF Delivery, Continue
    <3>2. /\ Tail(batch[w]) \in Seq(Held)
          /\ \A i \in DOMAIN Tail(batch[w]) :
                i + 1 \in DOMAIN batch[w] /\ Tail(batch[w])[i] = batch[w][i + 1]
      BY <1>1, HeadTailProperties, LenProperties
    <3>3. \A i \in DOMAIN batch[w] : Stored(batch[w][i].event)
      BY DEF Delivery, BatchOK
    <3> QED
      BY <3>1, <3>2, <3>3
  <2>2. CASE Abandon(w)
    <3>1. batch'[w] = << >> /\ pc'[w] = "poll"
      BY <2>2 DEF Delivery, Abandon
    <3> QED
      BY <3>1, EmptySeq
  <2> QED
    BY <2>1, <2>2
<1>5. ASSUME NEW v \in Workers PROVE BatchOK(v)'
  <2>1. CASE v = w
    BY <2>1, <1>2, <1>3, <1>4 DEF BatchOK
  <2>2. CASE v # w
    BY <2>2, <1>2, <1>3 DEF Delivery, BatchOK, Current
  <2> QED
    BY <2>1, <2>2
<1>6. published' \in [Events -> BOOLEAN] /\ MarkedIsConfirmed'
  BY DEF Delivery, MarkedIsConfirmed, BatchOK
<1> QED
  BY <1>3, <1>5, <1>6 DEF Delivery

(* A claim takes records of committed changes only.                        *)
LEMMA ClaimKeepsDelivery ==
    ASSUME Delivery, NEW w \in Workers, ClaimPending(w)
    PROVE  Delivery'
<1>1. PICK s \in Claims :
          batch' = [batch EXCEPT ![w] =
                       [i \in DOMAIN s |-> [event |-> s[i], attempts |-> attempts[s[i]]]]]
  BY DEF ClaimPending
<1>2. PICK n \in 1 .. BatchSize : s \in [1 .. n -> Claimable]
  BY DEF Claims
<1>3. n \in Nat \ {0}
  BY BoundsAssumption
<1>4. /\ batch'[w] = [i \in 1 .. n |-> [event |-> s[i], attempts |-> attempts[s[i]]]]
      /\ \A v \in Workers \ {w} : batch'[v] = batch[v]
      /\ DOMAIN batch' = Workers
  BY <1>1, <1>2 DEF Delivery
<1>5. \A i \in 1 .. n : s[i] \in Events /\ Stored(s[i]) /\ attempts[s[i]] \in Int
  BY <1>2 DEF Claimable, Delivery
<1>6. batch'[w] \in Seq(Held) /\ batch'[w] # << >>
  <2>1. \A i \in 1 .. n : [event |-> s[i], attempts |-> attempts[s[i]]] \in Held
    BY <1>5 DEF Held
  <2>2. batch'[w] \in [1 .. n -> Held]
    BY <1>4, <2>1
  <2>3. batch'[w] \in Seq(Held)
    BY <1>3, <2>2, SeqDef
  <2> QED
    BY <1>3, <2>2, <2>3
<1>7. /\ pc' = [pc EXCEPT ![w] = "publish"]
      /\ UNCHANGED <<change, attempts, published, confirmed>>
  BY DEF ClaimPending, records
<1>8. \A e : Stored(e)' <=> Stored(e)
  BY <1>7 DEF Stored
<1>9. ASSUME NEW v \in Workers PROVE BatchOK(v)'
  <2>1. CASE v = w
    <3>1. pc'[w] = "publish"
      BY <1>7 DEF Delivery
    <3>2. DOMAIN batch'[w] = 1 .. n /\ \A i \in 1 .. n : batch'[w][i].event = s[i]
      BY <1>4
    <3>3. \A i \in DOMAIN batch'[w] : Stored(batch'[w][i].event)
      BY <1>5, <3>2
    <3> QED
      BY <2>1, <1>6, <1>8, <3>1, <3>3 DEF BatchOK
  <2>2. CASE v # w
    BY <2>2, <1>4, <1>7, <1>8 DEF Delivery, BatchOK, Current
  <2> QED
    BY <2>1, <2>2
<1> QED
  BY <1>4, <1>7, <1>9 DEF Delivery, MarkedIsConfirmed

(* A publish moves the worker on; to "mark" only with the broker's confirm.*)
LEMMA PublishKeepsDelivery ==
    ASSUME Delivery, NEW w \in Workers, PublishConfirmed(w) \/ PublishFailed(w)
    PROVE  Delivery'
<1>1. UNCHANGED <<change, attempts, published, batch>> /\ confirmed \subseteq confirmed'
  BY DEF PublishConfirmed, PublishFailed, records
<1>2. /\ pc' \in [Workers -> {"poll", "publish", "mark", "reschedule"}]
      /\ \A v \in Workers \ {w} : pc'[v] = pc[v]
      /\ pc'[w] \in {"mark", "reschedule"}
      /\ pc'[w] = "mark" => Current(w).event \in confirmed'
      /\ pc[w] = "publish"
  BY DEF Delivery, PublishConfirmed, PublishFailed
<1>3. \A e : Stored(e)' <=> Stored(e)
  BY <1>1 DEF Stored
<1>4. ASSUME NEW v \in Workers PROVE BatchOK(v)'
  <2>1. CASE v = w
    BY <2>1, <1>1, <1>2, <1>3 DEF Delivery, BatchOK, Current
  <2>2. CASE v # w
    BY <2>2, <1>1, <1>2, <1>3 DEF Delivery, BatchOK, Current
  <2> QED
    BY <2>1, <2>2
<1> QED
  BY <1>1, <1>2, <1>4 DEF Delivery, MarkedIsConfirmed

(* Every step keeps the invariant.                                         *)
LEMMA StepKeepsDelivery ==
    ASSUME Delivery, [Next]_vars
    PROVE  Delivery'
<1>1. CASE UNCHANGED vars
  BY <1>1 DEF vars, Delivery, BatchOK, Current, Stored, MarkedIsConfirmed
<1>2. ASSUME NEW c \in Changes, Rollback(c) PROVE Delivery'
  BY <1>2, EndKeepsDelivery DEF Rollback, records
<1>3. ASSUME NEW c \in Changes, NEW lag \in 0 .. Overdue, Commit(c, lag) PROVE Delivery'
  BY <1>3, EndKeepsDelivery DEF Commit
<1>4. ASSUME NEW w \in Workers, ClaimPending(w) PROVE Delivery'
  BY <1>4, ClaimKeepsDelivery
<1>5. ASSUME NEW w \in Workers, PublishConfirmed(w) \/ PublishFailed(w) PROVE Delivery'
  BY <1>5, PublishKeepsDelivery
<1>6. ASSUME NEW w \in Workers, MarkPublished(w) PROVE Delivery'
  BY <1>6, UpdateKeepsDelivery DEF MarkPublished, SetPublished, Delivery
<1>7. ASSUME NEW w \in Workers, SetRetry(w), pc[w] # "poll"
      PROVE  attempts' \in [Events -> Int] /\ UNCHANGED published
  <2>1. Current(w).attempts \in Int
    BY <1>7, CurrentIsStored DEF Held
  <2>2. Least(Current(w).attempts + 1, AttemptsCap) \in Int
    BY <2>1, BoundsAssumption DEF Least
  <2> QED
    BY <1>7, <2>2 DEF SetRetry, Delivery
<1>8. ASSUME NEW w \in Workers, ScheduleRetry(w) PROVE Delivery'
  BY <1>8, <1>7, UpdateKeepsDelivery DEF ScheduleRetry
<1>9. ASSUME NEW w \in Workers, UpdateFails(w) PROVE Delivery'
  <2>1. /\ pc[w] # "poll" /\ Abandon(w) /\ UNCHANGED <<change, confirmed>>
        /\ attempts' \in [Events -> Int]
        /\ \/ UNCHANGED published
           \/ pc[w] = "mark" /\ published' = [published EXCEPT ![Current(w).event] = TRUE]
    BY <1>9, <1>7 DEF UpdateFails, SetPublished, records, Delivery
  <2> QED
    BY <2>1, UpdateKeepsDelivery
<1>10. ASSUME NEW w \in Workers, LoseChannel(w) PROVE Delivery'
  BY <1>10 DEF LoseChannel, records, Delivery, BatchOK, Current, Stored, MarkedIsConfirmed
<1>11. ASSUME NEW w \in Workers, Restart(w) PROVE Delivery'
  <2>1. UNCHANGED <<change, attempts, published, confirmed>> /\ Abandon(w)
    BY <1>11 DEF Restart, records
  <2>2. ASSUME NEW v \in Workers PROVE BatchOK(v)'
    <3>1. CASE v = w
      <4>1. batch'[w] = << >> /\ pc'[w] = "poll"
        BY <2>1 DEF Abandon, Delivery
      <4> QED
        BY <3>1, <4>1, EmptySeq DEF BatchOK
    <3>2. CASE v # w
      BY <2>1, <3>2 DEF Abandon, BatchOK, Delivery, Current, Stored
    <3> QED
      BY <3>1, <3>2
  <2> QED
    BY <2>1, <2>2 DEF Abandon, Delivery, MarkedIsConfirmed
<1>12. CASE Tick
  BY <1>12 DEF Tick, Delivery, BatchOK, Current, Stored, MarkedIsConfirmed
<1> QED
  BY <1>1, <1>2, <1>3, <1>4, <1>5, <1>6, <1>8, <1>9, <1>10, <1>11, <1>12 DEF Next, Step

(* The invariant holds in every state.                                     *)
LEMMA DeliveryAlways == Spec => []Delivery
<1> QED
  BY DeliveryInit, StepKeepsDelivery, PTL DEF Spec

(* A record is marked only if the broker has confirmed its event           *)
(* (RunOnce marks after Publish has returned nil).                         *)
THEOREM MarkedAreConfirmed == Spec => []MarkedIsConfirmed
<1>1. Delivery => MarkedIsConfirmed
  BY DEF Delivery
<1> QED
  BY <1>1, DeliveryAlways, PTL

-----------------------------------------------------------------------------
(* A publish that reaches a subscriber is a delivery of a stored event.    *)
LEMMA PublishIsDeliver ==
    ASSUME Delivery, NEW w \in Workers, PublishConfirmed(w) \/ PublishFailed(w)
    PROVE  [Promise!Next]_(Promise!vars)
<1>1. pc[w] = "publish" /\ UNCHANGED change
  BY DEF PublishConfirmed, PublishFailed
<1>2. Current(w).event \in Events /\ Stored(Current(w).event)
  BY <1>1, CurrentIsStored DEF Held
<1>3. UNCHANGED queue \/ queue' = queue \cup {Current(w).event}
  BY DEF PublishConfirmed, PublishFailed, Routed
<1> QED
  BY <1>1, <1>2, <1>3 DEF Promise!Next, Promise!Deliver, Promise!vars, Stored

(* Every step of the workers is a step of AtLeastOnce or changes nothing   *)
(* that it speaks of.                                                      *)
LEMMA StepIsPromised ==
    ASSUME Delivery, [Next]_vars
    PROVE  [Promise!Next]_(Promise!vars)
<1>1. CASE UNCHANGED vars
  BY <1>1 DEF vars, Promise!vars
<1>2. ASSUME NEW c \in Changes, Rollback(c) PROVE [Promise!Next]_(Promise!vars)
  BY <1>2 DEF Rollback, Promise!Next, Promise!Rollback
<1>3. ASSUME NEW c \in Changes, NEW lag \in 0 .. Overdue, Commit(c, lag)
      PROVE  [Promise!Next]_(Promise!vars)
  BY <1>3 DEF Commit, Promise!Next, Promise!Commit
<1>4. ASSUME NEW w \in Workers, PublishConfirmed(w) \/ PublishFailed(w)
      PROVE  [Promise!Next]_(Promise!vars)
  BY <1>4, PublishIsDeliver
<1>5. ASSUME NEW w \in Workers,
             \/ ClaimPending(w) \/ MarkPublished(w) \/ ScheduleRetry(w) \/ UpdateFails(w)
             \/ LoseChannel(w) \/ Restart(w)
      PROVE  UNCHANGED <<change, queue>>
  BY <1>5 DEF ClaimPending, MarkPublished, ScheduleRetry, UpdateFails, LoseChannel, Restart
<1>6. CASE Tick
  BY <1>6 DEF Tick, Promise!vars
<1> QED
  BY <1>1, <1>2, <1>3, <1>4, <1>5, <1>6 DEF Next, Step, Promise!vars

(* Whatever fails, the workers deliver only events of committed changes:   *)
(* they implement the safety part of AtLeastOnce.                          *)
THEOREM OutboxDeliversAtLeastOnce == Spec => DeliversAtLeastOnce
<1>1. Init => Promise!Init
  BY DEF Init, Promise!Init
<1> QED
  BY <1>1, StepIsPromised, DeliveryAlways, PTL DEF Spec, DeliversAtLeastOnce, Promise!Spec
-----------------------------------------------------------------------------
(* The types.                                                              *)

(* A delay is at most MaxDelay, however often it has been doubled.         *)
LEMMA BackoffIsBounded ==
    ASSUME NEW n \in Int
    PROVE  Backoff(n) \in Int /\ Backoff(n) <= MaxDelay
<1>1. Base * 2 ^ (n - 1) \in Int
  BY BoundsAssumption
<1> QED
  BY <1>1, BoundsAssumption DEF Backoff, Least

(* What is claimed, dealt with or given up leaves the batches typed.       *)
LEMMA CurrentIsClaimed ==
    ASSUME TypeOK, NEW w \in Workers, pc[w] # "poll"
    PROVE  Current(w) \in Claimed /\ Tail(batch[w]) \in Seq(Claimed)
<1>1. batch[w] \in Seq(Claimed) /\ batch[w] # << >>
  BY DEF TypeOK
<1> QED
  BY <1>1, HeadTailProperties DEF Current

LEMMA ClaimKeepsTypes ==
    ASSUME TypeOK, NEW w \in Workers, ClaimPending(w)
    PROVE  TypeOK'
<1>1. PICK s \in Claims :
          batch' = [batch EXCEPT ![w] =
                       [i \in DOMAIN s |-> [event |-> s[i], attempts |-> attempts[s[i]]]]]
  BY DEF ClaimPending
<1>2. PICK n \in 1 .. BatchSize : s \in [1 .. n -> Claimable]
  BY DEF Claims
<1>3. n \in Nat \ {0}
  BY BoundsAssumption
<1> DEFINE b == [i \in 1 .. n |-> [event |-> s[i], attempts |-> attempts[s[i]]]]
<1>4. \A i \in 1 .. n : [event |-> s[i], attempts |-> attempts[s[i]]] \in Claimed
  BY <1>2 DEF Claimable, TypeOK, Claimed
<1>5. b \in Seq(Claimed) /\ b # << >>
  <2>1. b \in [1 .. n -> Claimed]
    BY <1>4
  <2> QED
    BY <1>3, <2>1, SeqDef
<1>6. batch' = [batch EXCEPT ![w] = b] /\ pc' = [pc EXCEPT ![w] = "publish"]
  BY <1>1, <1>2 DEF ClaimPending
<1>7. age' = [age EXCEPT ![w] = 0] /\ 0 \in 0 .. MaxDelay + Overdue
  BY BoundsAssumption DEF ClaimPending
<1> HIDE DEF b
<1>8. /\ batch' \in [Workers -> Seq(Claimed)]
      /\ pc' \in [Workers -> {"poll", "publish", "mark", "reschedule"}]
      /\ \A v \in Workers : batch'[v] = << >> <=> pc'[v] = "poll"
  BY <1>5, <1>6 DEF TypeOK
<1>9. age' \in [Workers -> 0 .. MaxDelay + Overdue]
  BY <1>7 DEF TypeOK
<1> QED
  BY <1>8, <1>9 DEF TypeOK, ClaimPending, records

LEMMA UpdateKeepsTypes ==
    ASSUME TypeOK, NEW w \in Workers, pc[w] # "poll", Continue(w) \/ Abandon(w),
           UNCHANGED records \/ SetPublished(w) \/ SetRetry(w),
           UNCHANGED <<change, age, channel, confirmed, queue>>
    PROVE  TypeOK'
<1>1. Current(w) \in Claimed /\ Tail(batch[w]) \in Seq(Claimed)
  BY CurrentIsClaimed
<1>2. /\ batch' \in [Workers -> Seq(Claimed)]
      /\ pc' \in [Workers -> {"poll", "publish", "mark", "reschedule"}]
      /\ \A v \in Workers : batch'[v] = << >> <=> pc'[v] = "poll"
  <2>1. CASE Continue(w)
    BY <1>1, <2>1 DEF TypeOK, Continue
  <2>2. CASE Abandon(w)
    BY <2>2, EmptySeq DEF TypeOK, Abandon
  <2> QED
    BY <2>1, <2>2
<1>3. /\ attempts' \in [Events -> 0 .. AttemptsCap]
      /\ due' \in [Events -> - Overdue .. MaxDelay]
      /\ published' \in [Events -> BOOLEAN]
  <2>1. CASE UNCHANGED records
    BY <2>1 DEF TypeOK, records
  <2>2. CASE SetPublished(w)
    BY <1>1, <2>2 DEF TypeOK, SetPublished, Claimed
  <2>3. CASE SetRetry(w)
    <3> DEFINE n == Least(Current(w).attempts + 1, AttemptsCap)
               d == Greatest(Backoff(n) - age[w], - Overdue)
    <3>1. n \in 0 .. AttemptsCap
      BY <1>1, BoundsAssumption DEF Claimed, Least
    <3>2. Backoff(n) \in Int /\ Backoff(n) <= MaxDelay
      BY <3>1, BackoffIsBounded
    <3>3. age[w] \in 0 .. MaxDelay + Overdue
      BY DEF TypeOK
    <3>4. d \in - Overdue .. MaxDelay
      BY <3>2, <3>3, BoundsAssumption DEF Greatest
    <3>5. /\ attempts' = [attempts EXCEPT ![Current(w).event] = n]
          /\ due' = [due EXCEPT ![Current(w).event] = d]
          /\ UNCHANGED published
      BY <2>3 DEF SetRetry
    <3> HIDE DEF n, d
    <3> QED
      BY <1>1, <3>1, <3>4, <3>5 DEF TypeOK, Claimed
  <2> QED
    BY <2>1, <2>2, <2>3
<1> QED
  BY <1>2, <1>3 DEF TypeOK

LEMMA StepKeepsTypes ==
    ASSUME TypeOK, [Next]_vars
    PROVE  TypeOK'
<1>1. CASE UNCHANGED vars
  BY <1>1 DEF vars, records, TypeOK
<1>2. ASSUME NEW c \in Changes, Rollback(c) PROVE TypeOK'
  BY <1>2 DEF Rollback, records, TypeOK
<1>3. ASSUME NEW c \in Changes, NEW lag \in 0 .. Overdue, Commit(c, lag) PROVE TypeOK'
  <2>1. - lag \in - Overdue .. MaxDelay
    BY BoundsAssumption
  <2>2. due' \in [Events -> - Overdue .. MaxDelay]
    BY <1>3, <2>1 DEF Commit, TypeOK
  <2> QED
    BY <1>3, <2>2 DEF Commit, TypeOK
<1>4. ASSUME NEW w \in Workers, ClaimPending(w) PROVE TypeOK'
  BY <1>4, ClaimKeepsTypes
<1>5. ASSUME NEW w \in Workers, PublishConfirmed(w) \/ PublishFailed(w) PROVE TypeOK'
  <2>1. pc[w] = "publish"
    BY <1>5 DEF PublishConfirmed, PublishFailed
  <2>2. Current(w).event \in Events
    BY <2>1, CurrentIsClaimed DEF Claimed
  <2>3. confirmed' \in SUBSET Events /\ queue' \in SUBSET Events
    BY <1>5, <2>2 DEF PublishConfirmed, PublishFailed, Routed, TypeOK
  <2>4. /\ pc' = [pc EXCEPT ![w] = "mark"] \/ pc' = [pc EXCEPT ![w] = "reschedule"]
        /\ UNCHANGED <<change, attempts, due, published, batch, age, channel>>
    BY <1>5 DEF PublishConfirmed, PublishFailed, records
  <2> QED
    BY <2>1, <2>3, <2>4 DEF TypeOK
<1>6. ASSUME NEW w \in Workers, MarkPublished(w) PROVE TypeOK'
  BY <1>6, UpdateKeepsTypes DEF MarkPublished
<1>7. ASSUME NEW w \in Workers, ScheduleRetry(w) PROVE TypeOK'
  BY <1>7, UpdateKeepsTypes DEF ScheduleRetry
<1>8. ASSUME NEW w \in Workers, UpdateFails(w) PROVE TypeOK'
  <2>1. pc[w] # "poll" /\ (UNCHANGED records \/ SetPublished(w) \/ SetRetry(w))
    BY <1>8 DEF UpdateFails
  <2> QED
    BY <1>8, <2>1, UpdateKeepsTypes DEF UpdateFails
<1>9. ASSUME NEW w \in Workers, LoseChannel(w) PROVE TypeOK'
  BY <1>9 DEF LoseChannel, records, TypeOK
<1>10. ASSUME NEW w \in Workers, Restart(w) PROVE TypeOK'
  <2>1. 0 \in 0 .. MaxDelay + Overdue
    BY BoundsAssumption
  <2> QED
    BY <1>10, <2>1, EmptySeq DEF Restart, Abandon, records, TypeOK
<1>11. CASE Tick
  <2>1. ASSUME NEW e \in Events PROVE Greatest(due[e] - 1, - Overdue) \in - Overdue .. MaxDelay
    <3>1. due[e] \in - Overdue .. MaxDelay
      BY DEF TypeOK
    <3> QED
      BY <3>1, BoundsAssumption DEF Greatest
  <2>2. ASSUME NEW w \in Workers
        PROVE  Least(age[w] + 1, MaxDelay + Overdue) \in 0 .. MaxDelay + Overdue
    <3>1. age[w] \in 0 .. MaxDelay + Overdue
      BY DEF TypeOK
    <3> QED
      BY <3>1, BoundsAssumption DEF Least
  <2>3. due' \in [Events -> - Overdue .. MaxDelay]
    BY <1>11, <2>1 DEF Tick, TypeOK
  <2>4. age' \in [Workers -> 0 .. MaxDelay + Overdue]
    BY <1>11, <2>2 DEF Tick, TypeOK
  <2> QED
    BY <1>11, <2>3, <2>4 DEF Tick, TypeOK
<1> QED
  BY <1>1, <1>2, <1>3, <1>4, <1>5, <1>6, <1>7, <1>8, <1>9, <1>10, <1>11 DEF Next, Step

(* Types hold in every state: due times and ages stay within the bounds    *)
(* that MaxDelay sets, since ScheduleRetry caps every delay, and a worker  *)
(* has something in hand exactly while it does not poll.                   *)
THEOREM OutboxTypes == Spec => []TypeOK
<1>1. Init => TypeOK
  BY BoundsAssumption, EmptySeq DEF Init, TypeOK
<1> QED
  BY <1>1, StepKeepsTypes, PTL DEF Spec
=============================================================================
