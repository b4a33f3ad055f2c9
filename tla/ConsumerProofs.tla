--------------------------- MODULE ConsumerProofs ---------------------------
(***************************************************************************)
(* No message is lost and no retry budget is exceeded, for any number of   *)
(* consumers, messages, retries and lost channels.                         *)
(***************************************************************************)
EXTENDS ConsumerProps, SequenceTheorems, TLAPS

(* The delivery is still to be settled by the consumer that has it.        *)
Working(c) == pc[c] \in {"handle", "retry", "bury"}

(* A retry is published only while one is left, and a channel that is      *)
(* closed was lost.                                                        *)
Typed ==
    /\ TypeOK
    /\ holds \in [Consumers -> Copies \cup {NoCopy}]
    /\ reason \in [Consumers -> Reasons \cup {"none"}]
    /\ \A c \in Consumers : pc[c] = "retry" => holds[c].retries < MaxRetries
    /\ \A c \in Consumers : channel[c] = "closed" => closings > 0

(* Where a message is while nobody has acknowledged it.  A delivery that   *)
(* awaits its acknowledgement counts no more.                              *)
InMain(m) == \E d \in BagToSet(main) : d.msg = m
InWaiting(m) == \E i \in DOMAIN waiting : waiting[i].msg = m
InHand(m) == \E c \in Consumers : channel[c] = "open" /\ Working(c) /\ holds[c].msg = m
Safe(m) == InMain(m) \/ InWaiting(m) \/ InHand(m) \/ m \in done \/ Buried(m)
Kept == \A m \in sent : Safe(m)

(* Every copy's header is covered by failures.                             *)
Tried ==
    /\ \A d \in BagToSet(main) : failures[d.msg] >= d.retries
    /\ \A i \in DOMAIN waiting : failures[waiting[i].msg] >= waiting[i].retries
    /\ \A c \in Consumers :
          /\ pc[c] # "idle" => failures[holds[c].msg] >= holds[c].retries
          /\ pc[c] = "retry" => failures[holds[c].msg] > holds[c].retries
          /\ pc[c] = "bury" /\ reason[c] = "exhausted" => failures[holds[c].msg] > MaxRetries
    /\ \A m \in Messages : [msg |-> m, why |-> "exhausted"] \in dead => failures[m] > MaxRetries

(* While no channel has been lost there is one copy of a message, and its  *)
(* header counts every failure.                                            *)
InWork(m) == \E c \in Consumers : Working(c) /\ holds[c].msg = m
OneCopy ==
    /\ \A d \in BagToSet(main) : main[d] = 1
    /\ \A d, e \in BagToSet(main) : d.msg = e.msg => d = e
    /\ \A i, j \in DOMAIN waiting : waiting[i].msg = waiting[j].msg => i = j
    /\ \A c, e \in Consumers : Working(c) /\ Working(e) /\ holds[c].msg = holds[e].msg => c = e
    /\ \A m \in Messages :
          /\ ~ (InMain(m) /\ InWaiting(m))
          /\ ~ (InMain(m) /\ InWork(m))
          /\ ~ (InWaiting(m) /\ InWork(m))
          /\ m \notin sent =>
                ~ InMain(m) /\ ~ InWaiting(m) /\ ~ InWork(m) /\ failures[m] = 0
Counted ==
    /\ \A m \in Messages : failures[m] <= MaxRetries + 1
    /\ \A d \in BagToSet(main) : failures[d.msg] <= d.retries
    /\ \A i \in DOMAIN waiting : failures[waiting[i].msg] <= waiting[i].retries
    /\ \A c \in Consumers :
          /\ pc[c] = "handle" => failures[holds[c].msg] <= holds[c].retries
          /\ pc[c] = "retry" => failures[holds[c].msg] <= holds[c].retries + 1
Single == closings = 0 => OneCopy /\ Counted

-----------------------------------------------------------------------------
(* A copy put into a queue, and one taken from it.                         *)
LEMMA Adding ==
    ASSUME NEW B, IsABag(B), NEW d
    PROVE /\ IsABag(B (+) One(d))
          /\ BagToSet(B (+) One(d)) = BagToSet(B) \cup {d}
          /\ \A e \in BagToSet(B) \ {d} : (B (+) One(d))[e] = B[e]
          /\ d \notin BagToSet(B) => (B (+) One(d))[d] = 1
<1> DEFINE S == B (+) One(d)
<1>1. DOMAIN One(d) = {d} /\ One(d)[d] = 1
  BY DEF One, SetToBag
<1>2. DOMAIN S = DOMAIN B \cup {d}
  BY <1>1 DEF (+)
<1>3. \A e \in DOMAIN B : B[e] \in Nat /\ B[e] > 0
  BY DEF IsABag
<1>4. \A e \in DOMAIN S : S[e] = (IF e \in DOMAIN B THEN B[e] ELSE 0) + (IF e = d THEN 1 ELSE 0)
  BY <1>1, <1>2 DEF (+)
<1>5. \A e \in DOMAIN S : S[e] \in {n \in Nat : n > 0}
  BY <1>2, <1>3, <1>4
<1>6. S = [e \in DOMAIN S |-> S[e]]
  BY DEF (+)
<1>7. IsABag(S)
  BY <1>5, <1>6 DEF IsABag
<1>8. \A e \in BagToSet(B) \ {d} : S[e] = B[e]
  BY <1>2, <1>3, <1>4 DEF BagToSet
<1>9. d \notin BagToSet(B) => S[d] = 1
  BY <1>2, <1>4 DEF BagToSet
<1> QED
  BY <1>2, <1>7, <1>8, <1>9 DEF BagToSet

(* A copy taken from a queue leaves all others in it.                      *)
LEMMA Taking ==
    ASSUME NEW B, IsABag(B), NEW d \in BagToSet(B)
    PROVE /\ IsABag(B (-) One(d))
          /\ BagToSet(B) \ {d} \subseteq BagToSet(B (-) One(d))
          /\ BagToSet(B (-) One(d)) \subseteq BagToSet(B)
          /\ \A e \in BagToSet(B) \ {d} : (B (-) One(d))[e] = B[e]
          /\ B[d] = 1 => d \notin BagToSet(B (-) One(d))
<1> DEFINE F == [e \in DOMAIN B |-> IF e \in DOMAIN One(d) THEN B[e] - One(d)[e] ELSE B[e]]
           S == [e \in {x \in DOMAIN F : F[x] > 0} |-> F[e]]
<1>1. DOMAIN One(d) = {d} /\ One(d)[d] = 1
  BY DEF One, SetToBag
<1>2. B (-) One(d) = S
  BY DEF (-)
<1>3. \A e \in DOMAIN B : B[e] \in Nat /\ B[e] > 0
  BY DEF IsABag
<1>4. \A e \in DOMAIN B : F[e] = IF e = d THEN B[e] - 1 ELSE B[e]
  BY <1>1
<1>5. \A e \in DOMAIN B : F[e] \in Nat
  BY <1>3, <1>4
<1>6. DOMAIN S = {x \in DOMAIN B : F[x] > 0}
  OBVIOUS
<1>7. IsABag(S)
  BY <1>5, <1>6 DEF IsABag
<1>8. \A e \in DOMAIN B \ {d} : e \in DOMAIN S /\ S[e] = B[e]
  BY <1>3, <1>4, <1>6
<1>9. B[d] = 1 => d \notin DOMAIN S
  BY <1>4, <1>6 DEF BagToSet
<1> HIDE DEF F, S
<1> QED
  BY <1>2, <1>6, <1>7, <1>8, <1>9 DEF BagToSet

(* A closed channel with nothing unacknowledged requeues nothing.          *)
LEMMA AddingNothing ==
    ASSUME NEW B, IsABag(B)
    PROVE B (+) EmptyBag = B
BY DEF IsABag, (+), EmptyBag, SetToBag

(* The retry queue takes a copy at its end and loses the one at its head.  *)
LEMMA Queueing ==
    ASSUME NEW S, NEW q \in Seq(S), NEW d \in S
    PROVE /\ Append(q, d) \in Seq(S)
          /\ DOMAIN Append(q, d) = DOMAIN q \cup {Len(q) + 1}
          /\ Append(q, d)[Len(q) + 1] = d
          /\ \A i \in DOMAIN q : Append(q, d)[i] = q[i]
          /\ Len(q) + 1 \notin DOMAIN q
BY AppendProperties

(* The retry queue loses its head.                                         *)
LEMMA Leaving ==
    ASSUME NEW S, NEW q \in Seq(S), q # << >>
    PROVE /\ Tail(q) \in Seq(S)
          /\ 1 \in DOMAIN q /\ Head(q) = q[1] /\ Head(q) \in S
          /\ \A i \in DOMAIN Tail(q) : i + 1 \in DOMAIN q /\ Tail(q)[i] = q[i + 1]
          /\ \A i \in DOMAIN q : i = 1 \/ (i - 1 \in DOMAIN Tail(q) /\ Tail(q)[i - 1] = q[i])
<1>1. Len(q) \in Nat /\ Len(q) > 0 /\ DOMAIN q = 1 .. Len(q)
  BY EmptySeq
<1>2. /\ Head(q) \in S /\ Tail(q) \in Seq(S)
      /\ Len(Tail(q)) = Len(q) - 1
      /\ \A i \in 1 .. Len(Tail(q)) : Tail(q)[i] = q[i + 1]
  BY HeadTailProperties
<1>3. Head(q) = q[1]
  OBVIOUS
<1> QED
  BY <1>1, <1>2, <1>3

-----------------------------------------------------------------------------
(* What a consumer has in hand at every step.                              *)
LEMMA Held ==
    ASSUME Typed
    PROVE /\ \A c \in Consumers : pc[c] # "idle" => holds[c] \in Copies
          /\ \A d \in Copies : d.msg \in Messages /\ d.retries \in 0 .. MaxRetries
          /\ MaxRetries \in Nat
          /\ \A m \in Messages : failures[m] \in 0 .. MaxRetries + 2
<1>1. \A c \in Consumers : pc[c] # "idle" => holds[c] \in Copies
  BY DEF Typed, TypeOK
<1>2. \A d \in Copies : d.msg \in Messages /\ d.retries \in 0 .. MaxRetries
  BY DEF Copies
<1>3. \A m \in Messages : failures[m] \in 0 .. MaxRetries + 2
  BY DEF Typed, TypeOK
<1> QED
  BY <1>1, <1>2, <1>3, RetriesAssumption

(* The types hold at the start and through every step.                     *)
LEMMA TypedInit == Init => Typed
<1> SUFFICES ASSUME Init PROVE Typed
  OBVIOUS
<1>1. IsABag(main) /\ BagToSet(main) = {}
  BY DEF Init, EmptyBag, SetToBag, IsABag, BagToSet
<1> QED
  BY <1>1, RetriesAssumption DEF Init, Typed, TypeOK, Reasons

(* Every step keeps the types.                                             *)
LEMMA TypedStep == Typed /\ [Next]_vars => Typed'
<1> SUFFICES ASSUME Typed, [Next]_vars PROVE Typed'
  OBVIOUS
<1> USE Held, RetriesAssumption
<1>1. ASSUME NEW m \in Messages, Send(m) PROVE Typed'
  <2>1. [msg |-> m, retries |-> 0] \in Copies
    BY DEF Copies
  <2>2. IsABag(main') /\ BagToSet(main') \subseteq Copies
    BY <1>1, <2>1, Adding DEF Send, Typed, TypeOK
  <2> QED
    BY <1>1, <2>2 DEF Send, Typed, TypeOK
<1>2. CASE Expire
  <2>1. waiting' \in Seq(Copies) /\ Head(waiting) \in Copies
    BY <1>2, Leaving DEF Expire, Typed, TypeOK
  <2>2. IsABag(main') /\ BagToSet(main') \subseteq Copies
    BY <1>2, <2>1, Adding DEF Expire, Rerouted, Typed, TypeOK
  <2> QED
    BY <1>2, <2>1, <2>2 DEF Expire, Typed, TypeOK
<1>3. ASSUME NEW c \in Consumers, Step(c) PROVE Typed'
  <2>1. CASE Receive(c)
    <3>1. PICK d \in BagToSet(main) : main' = main (-) One(d) /\ holds' = [holds EXCEPT ![c] = d]
      BY <2>1 DEF Receive
    <3>2. IsABag(main') /\ BagToSet(main') \subseteq Copies /\ d \in Copies
      BY <3>1, Taking DEF Typed, TypeOK
    <3> QED
      BY <2>1, <3>1, <3>2 DEF Receive, Go, Typed, TypeOK
  <2>2. CASE Refuse(c)
    BY <2>2 DEF Refuse, Bury, Go, queues, Typed, TypeOK, Reasons
  <2>3. CASE Succeed(c)
    BY <2>3 DEF Succeed, Executes, QueuesKept, Go, queues, Typed, TypeOK
  <2>4. CASE Conflict(c)
    BY <2>4 DEF Conflict, Executes, QueuesKept, Bury, Go, queues, Typed, TypeOK, Reasons
  <2>5. CASE Fail(c)
    <3>1. done' \in SUBSET Messages /\ failures' \in [Messages -> 0 .. MaxRetries + 2]
      BY <2>5 DEF Fail, Executes, Typed, TypeOK
    <3>2. CASE Exhausted(holds[c])
      <4>1. /\ UNCHANGED <<sent, main, waiting, dead, holds, channel, closings>>
            /\ pc[c] = "handle"
            /\ pc' = [pc EXCEPT ![c] = "bury"] /\ reason' = [reason EXCEPT ![c] = "exhausted"]
        BY <2>5, <3>2 DEF Fail, Executes, QueuesKept, Bury, Go, queues
      <4> QED
        BY <3>1, <4>1 DEF Typed, TypeOK, Reasons
    <3>3. CASE ~ Exhausted(holds[c])
      <4>1. holds[c].retries < MaxRetries
        BY <2>5, <3>3 DEF Fail, Executes, Exhausted
      <4>2. /\ UNCHANGED <<sent, main, waiting, dead, holds, reason, channel, closings>>
            /\ pc[c] = "handle" /\ pc' = [pc EXCEPT ![c] = "retry"]
        BY <2>5, <3>3 DEF Fail, Executes, QueuesKept, Go, queues
      <4> QED
        BY <3>1, <4>1, <4>2 DEF Typed, TypeOK
    <3> QED
      BY <3>2, <3>3
  <2>6. CASE Panic(c)
    BY <2>6 DEF Panic, Executes, QueuesKept, Bury, Go, queues, Typed, TypeOK, Reasons
  <2>7. CASE PublishRetry(c)
    <3> DEFINE d == [holds[c] EXCEPT !.retries = @ + 1]
    <3>1. d \in Copies
      BY <2>7 DEF PublishRetry, Typed, Copies
    <3>2. waiting' \in Seq(Copies)
      BY <2>7, <3>1, Queueing DEF PublishRetry, Typed, TypeOK
    <3> QED
      BY <2>7, <3>2 DEF PublishRetry, Go, Typed, TypeOK
  <2>8. CASE DeadLetter(c)
    <3>1. dead' \in SUBSET [msg : Messages, why : Reasons]
      BY <2>8 DEF DeadLetter, Typed, TypeOK
    <3> QED
      BY <2>8, <3>1 DEF DeadLetter, Go, Typed, TypeOK
  <2>9. CASE Ack(c)
    BY <2>9 DEF Ack, Go, queues, Typed, TypeOK
  <2> QED
    BY <1>3, <2>1, <2>2, <2>3, <2>4, <2>5, <2>6, <2>7, <2>8, <2>9 DEF Step
<1>4. ASSUME NEW c \in Consumers, CloseChannel(c) PROVE Typed'
  <2>1. IsABag(main') /\ BagToSet(main') \subseteq Copies
    <3>1. CASE pc[c] = "idle"
      BY <1>4, <3>1, AddingNothing DEF CloseChannel, Unacked, Typed, TypeOK
    <3>2. CASE pc[c] # "idle"
      BY <1>4, <3>2, Adding DEF CloseChannel, Unacked, Typed, TypeOK
    <3> QED
      BY <3>1, <3>2
  <2> QED
    BY <1>4, <2>1 DEF CloseChannel, Typed, TypeOK
<1>5. ASSUME NEW c \in Consumers, Restart(c) PROVE Typed'
  BY <1>5 DEF Restart, Go, queues, Typed, TypeOK
<1>6. CASE UNCHANGED vars
  BY <1>6 DEF vars, Typed, TypeOK
<1> QED
  BY <1>1, <1>2, <1>3, <1>4, <1>5, <1>6 DEF Next

-----------------------------------------------------------------------------
(* No step loses a message: what leaves a place is in another one before.  *)
LEMMA KeptStep == Typed /\ Kept /\ [Next]_vars => Kept'
<1> SUFFICES ASSUME Typed, Kept, [Next]_vars PROVE Kept'
  OBVIOUS
<1>0. /\ IsABag(main) /\ waiting \in Seq(Copies)
      /\ \A c \in Consumers : pc[c] # "idle" => holds[c] \in Copies
      /\ pc \in [Consumers -> {"idle", "handle", "retry", "bury", "ack"}]
      /\ channel \in [Consumers -> {"open", "closed"}]
      /\ holds \in [Consumers -> Copies \cup {NoCopy}]
  BY DEF Typed, TypeOK
<1>1. ASSUME NEW m \in Messages, Send(m) PROVE Kept'
  <2> DEFINE d == [msg |-> m, retries |-> 0]
  <2>1. BagToSet(main') = BagToSet(main) \cup {d} /\ d.msg = m
    BY <1>0, <1>1, Adding DEF Send
  <2>2. InMain(m)' /\ \A k : InMain(k) => InMain(k)'
    BY <2>1 DEF InMain
  <2>3. sent' = sent \cup {m} /\ UNCHANGED <<waiting, dead, done, pc, holds, channel>>
    BY <1>1 DEF Send
  <2> QED
    BY <2>2, <2>3 DEF Kept, Safe, InWaiting, InHand, Working, Buried
<1>2. CASE Expire
  <2>1. BagToSet(main') = BagToSet(main) \cup {Head(waiting)}
    BY <1>0, <1>2, Adding DEF Expire, Rerouted
  <2>2. \A i \in DOMAIN waiting :
           waiting[i] = Head(waiting) \/ \E j \in DOMAIN waiting' : waiting'[j] = waiting[i]
    BY <1>0, <1>2, Leaving DEF Expire
  <2>3. \A k : InMain(k) \/ InWaiting(k) => InMain(k)' \/ InWaiting(k)'
    BY <2>1, <2>2 DEF InMain, InWaiting
  <2> QED
    BY <1>2, <2>3 DEF Expire, Kept, Safe, InHand, Working, Buried
<1>3. ASSUME NEW c \in Consumers, Step(c) PROVE Kept'
  <2>1. CASE Receive(c)
    <3>1. PICK d \in BagToSet(main) : main' = main (-) One(d) /\ holds' = [holds EXCEPT ![c] = d]
      BY <2>1 DEF Receive
    <3>2. BagToSet(main) \ {d} \subseteq BagToSet(main')
      BY <1>0, <3>1, Taking
    <3>3. channel'[c] = "open" /\ Working(c)' /\ holds'[c] = d
      BY <1>0, <2>1, <3>1 DEF Receive, Go, Working
    <3>4. \A k : InMain(k) => InMain(k)' \/ InHand(k)'
      BY <3>2, <3>3 DEF InMain, InHand
    <3>5. \A k : InHand(k) => InHand(k)'
      BY <1>0, <2>1, <3>1 DEF Receive, Go, InHand, Working
    <3> QED
      BY <2>1, <3>4, <3>5 DEF Receive, Kept, Safe, InWaiting, Buried
  <2>2. CASE Refuse(c)
    BY <1>0, <2>2 DEF Refuse, Bury, Go, queues, Kept, Safe, InMain, InWaiting, InHand,
                      Working, Buried
  <2>3. CASE Succeed(c)
    <3>1. \A k : InHand(k) => InHand(k)' \/ k \in done'
      BY <1>0, <2>3 DEF Succeed, Go, QueuesKept, queues, InHand, Working
    <3> QED
      BY <2>3, <3>1 DEF Succeed, QueuesKept, queues, Kept, Safe, InMain, InWaiting, Buried
  <2>4. CASE Conflict(c)
    BY <1>0, <2>4 DEF Conflict, QueuesKept, Bury, Go, queues, Kept, Safe, InMain, InWaiting,
                      InHand, Working, Buried
  <2>5. CASE Fail(c)
    <3>1. \A k : InHand(k) => InHand(k)'
      BY <1>0, <2>5 DEF Fail, Executes, QueuesKept, Bury, Go, queues, InHand, Working
    <3>2. done \subseteq done'
      BY <2>5 DEF Fail
    <3> QED
      BY <2>5, <3>1, <3>2 DEF Fail, QueuesKept, queues, Kept, Safe, InMain, InWaiting, Buried
  <2>6. CASE Panic(c)
    BY <1>0, <2>6 DEF Panic, Executes, QueuesKept, Bury, Go, queues, Kept, Safe, InMain, InWaiting,
                      InHand, Working, Buried
  <2>7. CASE PublishRetry(c)
    <3> DEFINE d == [holds[c] EXCEPT !.retries = @ + 1]
    <3>1. d \in Copies /\ d.msg = holds[c].msg
      BY <1>0, <2>7, Held DEF PublishRetry, Typed, Copies
    <3>2. /\ \A i \in DOMAIN waiting : i \in DOMAIN waiting' /\ waiting'[i] = waiting[i]
          /\ channel[c] = "open" => \E i \in DOMAIN waiting' : waiting'[i] = d
      BY <1>0, <2>7, <3>1, Queueing DEF PublishRetry
    <3>3. \A k : InWaiting(k) => InWaiting(k)'
      BY <3>2 DEF InWaiting
    <3>4. \A k : InHand(k) => InHand(k)' \/ InWaiting(k)'
      BY <1>0, <2>7, <3>1, <3>2 DEF PublishRetry, Go, InHand, InWaiting, Working
    <3> QED
      BY <2>7, <3>3, <3>4 DEF PublishRetry, Kept, Safe, InMain, Buried
  <2>8. CASE DeadLetter(c)
    <3>1. dead \subseteq dead'
      BY <2>8 DEF DeadLetter
    <3>2. \A k : InHand(k) => InHand(k)' \/ Buried(k)'
      <4>1. channel[c] = "open" => Buried(holds[c].msg)'
        <5> DEFINE x == [msg |-> holds[c].msg, why |-> reason[c]]
        <5>1. channel[c] = "open" => x \in dead'
          BY <2>8 DEF DeadLetter
        <5>2. x.msg = holds[c].msg /\ holds' = holds
          BY <2>8 DEF DeadLetter
        <5> QED
          BY <5>1, <5>2 DEF Buried
      <4>2. \A e \in Consumers \ {c} : Working(e) => Working(e)'
        BY <1>0, <2>8 DEF DeadLetter, Go, Working
      <4>3. UNCHANGED <<channel, holds>>
        BY <2>8 DEF DeadLetter
      <4> QED
        BY <4>1, <4>2, <4>3 DEF InHand
    <3> QED
      BY <2>8, <3>1, <3>2 DEF DeadLetter, Kept, Safe, InMain, InWaiting, Buried
  <2>9. CASE Ack(c)
    BY <1>0, <2>9 DEF Ack, Go, queues, Kept, Safe, InMain, InWaiting, InHand, Working, Buried
  <2> QED
    BY <1>3, <2>1, <2>2, <2>3, <2>4, <2>5, <2>6, <2>7, <2>8, <2>9 DEF Step
<1>4. ASSUME NEW c \in Consumers, CloseChannel(c) PROVE Kept'
  <2>1. /\ BagToSet(main) \subseteq BagToSet(main')
        /\ pc[c] # "idle" => holds[c] \in BagToSet(main')
    BY <1>0, <1>4, Adding, AddingNothing DEF CloseChannel, Unacked
  <2>2. \A k : InMain(k) => InMain(k)'
    BY <2>1 DEF InMain
  <2>3. \A k : InHand(k) => InHand(k)' \/ InMain(k)'
    BY <1>0, <1>4, <2>1 DEF CloseChannel, InHand, InMain, Working
  <2> QED
    BY <1>4, <2>2, <2>3 DEF CloseChannel, Kept, Safe, InWaiting, Buried
<1>5. ASSUME NEW c \in Consumers, Restart(c) PROVE Kept'
  BY <1>0, <1>5 DEF Restart, Go, queues, Kept, Safe, InMain, InWaiting, InHand, Working, Buried
<1>6. CASE UNCHANGED vars
  BY <1>6 DEF vars, Kept, Safe, InMain, InWaiting, InHand, Working, Buried
<1> QED
  BY <1>1, <1>2, <1>3, <1>4, <1>5, <1>6 DEF Next

-----------------------------------------------------------------------------
(* No step puts more retries into a header than Execute has failed.        *)
LEMMA TriedStep == Typed /\ Tried /\ [Next]_vars => Tried'
<1> SUFFICES ASSUME Typed, Tried, [Next]_vars PROVE Tried'
  OBVIOUS
<1>0. /\ IsABag(main) /\ BagToSet(main) \subseteq Copies /\ waiting \in Seq(Copies)
      /\ \A i \in DOMAIN waiting : waiting[i] \in Copies
      /\ \A c \in Consumers : pc[c] # "idle" => holds[c] \in Copies
      /\ pc \in [Consumers -> {"idle", "handle", "retry", "bury", "ack"}]
      /\ holds \in [Consumers -> Copies \cup {NoCopy}]
      /\ reason \in [Consumers -> Reasons \cup {"none"}]
      /\ failures \in [Messages -> 0 .. MaxRetries + 2]
      /\ dead \in SUBSET [msg : Messages, why : Reasons]
      /\ MaxRetries \in Nat
      /\ \A d \in Copies : d.msg \in Messages /\ d.retries \in 0 .. MaxRetries
  BY Held DEF Typed, TypeOK
<1>1. ASSUME NEW m \in Messages, Send(m) PROVE Tried'
  <2> DEFINE d == [msg |-> m, retries |-> 0]
  <2>1. BagToSet(main') = BagToSet(main) \cup {d} /\ failures[d.msg] >= d.retries
    BY <1>0, <1>1, Adding DEF Send
  <2> QED
    BY <1>1, <2>1 DEF Send, Tried
<1>2. CASE Expire
  <2>1. BagToSet(main') = BagToSet(main) \cup {Head(waiting)}
    BY <1>0, <1>2, Adding DEF Expire, Rerouted
  <2>2. \E i \in DOMAIN waiting : Head(waiting) = waiting[i]
    BY <1>0, <1>2, Leaving DEF Expire
  <2>3. \A j \in DOMAIN waiting' : \E i \in DOMAIN waiting : waiting'[j] = waiting[i]
    BY <1>0, <1>2, Leaving DEF Expire
  <2> QED
    BY <1>2, <2>1, <2>2, <2>3 DEF Expire, Tried
<1>3. ASSUME NEW c \in Consumers, Step(c) PROVE Tried'
  <2>1. CASE Receive(c)
    <3>1. PICK d \in BagToSet(main) : main' = main (-) One(d) /\ holds' = [holds EXCEPT ![c] = d]
      BY <2>1 DEF Receive
    <3>2. BagToSet(main') \subseteq BagToSet(main)
      BY <1>0, <3>1, Taking
    <3> QED
      BY <1>0, <2>1, <3>1, <3>2 DEF Receive, Go, Tried
  <2>2. CASE Refuse(c)
    BY <1>0, <2>2 DEF Refuse, Bury, Go, queues, Tried
  <2>3. CASE Succeed(c)
    BY <1>0, <2>3 DEF Succeed, QueuesKept, Executes, Go, queues, Tried
  <2>4. CASE Conflict(c)
    BY <1>0, <2>4 DEF Conflict, Executes, QueuesKept, Bury, Go, queues, Tried
  <2>5. CASE Fail(c)
    <3>1. /\ holds[c] \in Copies
          /\ \A m \in Messages : failures'[m] >= failures[m]
          /\ failures'[holds[c].msg] > holds[c].retries
      BY <1>0, <2>5 DEF Fail, Executes, Tried
    <3>2. /\ UNCHANGED <<main, waiting, dead, holds>>
          /\ failures' \in [Messages -> 0 .. MaxRetries + 2]
      BY <1>0, <2>5 DEF Fail, Executes, QueuesKept, queues
    <3>3. /\ pc'[c] = "retry" \/ (pc'[c] = "bury" /\ failures'[holds[c].msg] > MaxRetries)
          /\ \A e \in Consumers \ {c} : pc'[e] = pc[e] /\ reason'[e] = reason[e]
      BY <1>0, <2>5, <3>1, <3>2 DEF Fail, Exhausted, Bury, Go
    <3>4. /\ \A d \in BagToSet(main') : failures'[d.msg] >= d.retries
          /\ \A i \in DOMAIN waiting' : failures'[waiting'[i].msg] >= waiting'[i].retries
      <4>1. ASSUME NEW d \in Copies, failures[d.msg] >= d.retries
            PROVE  failures'[d.msg] >= d.retries
        <5>1. d.msg \in Messages /\ d.retries \in Nat
          BY RetriesAssumption DEF Copies
        <5>2. failures'[d.msg] >= failures[d.msg] /\ failures[d.msg] \in Nat
              /\ failures'[d.msg] \in Nat
          BY <1>0, <3>1, <3>2, <5>1, RetriesAssumption
        <5> QED
          BY <4>1, <5>1, <5>2
      <4>2. ASSUME NEW d \in BagToSet(main) PROVE d \in Copies /\ failures[d.msg] >= d.retries
        BY <1>0 DEF Tried
      <4>3. ASSUME NEW i \in DOMAIN waiting
            PROVE  waiting[i] \in Copies /\ failures[waiting[i].msg] >= waiting[i].retries
        BY <1>0 DEF Tried
      <4> QED
        BY <3>2, <4>1, <4>2, <4>3
    <3>5. ASSUME NEW e \in Consumers, pc'[e] # "idle"
          PROVE /\ failures'[holds[e].msg] >= holds[e].retries
                /\ pc'[e] = "retry" => failures'[holds[e].msg] > holds[e].retries
                /\ pc'[e] = "bury" /\ reason'[e] = "exhausted" =>
                      failures'[holds[e].msg] > MaxRetries
      <4>1. CASE e = c
        BY <1>0, <3>1, <3>2, <3>3, <4>1
      <4>2. CASE e # c
        BY <1>0, <3>1, <3>2, <3>3, <3>5, <4>2 DEF Tried
      <4> QED
        BY <4>1, <4>2
    <3>6. \A m \in Messages : [msg |-> m, why |-> "exhausted"] \in dead => failures'[m] > MaxRetries
      BY <1>0, <3>1, <3>2 DEF Tried
    <3> QED
      BY <3>2, <3>4, <3>5, <3>6 DEF Tried
  <2>6. CASE Panic(c)
    BY <1>0, <2>6 DEF Panic, Executes, QueuesKept, Bury, Go, queues, Tried
  <2>7. CASE PublishRetry(c)
    <3> DEFINE d == [holds[c] EXCEPT !.retries = @ + 1]
    <3>1. d \in Copies /\ failures[d.msg] >= d.retries
      <4>1. /\ pc[c] = "retry" /\ holds[c] \in Copies
            /\ failures[holds[c].msg] > holds[c].retries
        BY <1>0, <2>7 DEF PublishRetry, Tried
      <4>2. d \in Copies /\ d.msg = holds[c].msg /\ d.retries = holds[c].retries + 1
        BY <1>0, <2>7, <4>1, RetriesAssumption DEF PublishRetry, Typed, Copies
      <4>3. /\ failures[holds[c].msg] \in Int /\ holds[c].retries \in Int
        BY <1>0, <4>1, RetriesAssumption DEF Copies
      <4> QED
        BY <4>1, <4>2, <4>3
    <3>2. \A i \in DOMAIN waiting' :
             waiting'[i] = d \/ (i \in DOMAIN waiting /\ waiting'[i] = waiting[i])
      BY <1>0, <2>7, <3>1, Queueing DEF PublishRetry
    <3> HIDE DEF d
    <3>3. \A i \in DOMAIN waiting' : failures[waiting'[i].msg] >= waiting'[i].retries
      BY <3>1, <3>2 DEF Tried
    <3> QED
      BY <1>0, <2>7, <3>3 DEF PublishRetry, Go, Tried
  <2>8. CASE DeadLetter(c)
    <3>1. \A m \in Messages : [msg |-> m, why |-> "exhausted"] \in dead' => failures[m] > MaxRetries
      BY <1>0, <2>8 DEF DeadLetter, Tried
    <3> QED
      BY <1>0, <2>8, <3>1 DEF DeadLetter, Go, Tried
  <2>9. CASE Ack(c)
    BY <1>0, <2>9 DEF Ack, Go, queues, Tried
  <2> QED
    BY <1>3, <2>1, <2>2, <2>3, <2>4, <2>5, <2>6, <2>7, <2>8, <2>9 DEF Step
<1>4. ASSUME NEW c \in Consumers, CloseChannel(c) PROVE Tried'
  <2>1. \A d \in BagToSet(main') : d \in BagToSet(main) \/ (pc[c] # "idle" /\ d = holds[c])
    BY <1>0, <1>4, Adding, AddingNothing DEF CloseChannel, Unacked
  <2> QED
    BY <1>4, <2>1 DEF CloseChannel, Tried
<1>5. ASSUME NEW c \in Consumers, Restart(c) PROVE Tried'
  BY <1>0, <1>5 DEF Restart, Go, queues, Tried
<1>6. CASE UNCHANGED vars
  BY <1>6 DEF vars, Tried
<1> QED
  BY <1>1, <1>2, <1>3, <1>4, <1>5, <1>6 DEF Next

-----------------------------------------------------------------------------
(* No step copies a message or forgets a failure while channels are open.  *)
LEMMA SingleStep == Typed /\ Single /\ [Next]_vars => Single'
<1> SUFFICES ASSUME Typed, Single, [Next]_vars, closings' = 0 PROVE OneCopy' /\ Counted'
  BY DEF Single
<1>0. /\ IsABag(main) /\ BagToSet(main) \subseteq Copies /\ waiting \in Seq(Copies)
      /\ \A i \in DOMAIN waiting : waiting[i] \in Copies
      /\ \A c \in Consumers : pc[c] # "idle" => holds[c] \in Copies
      /\ pc \in [Consumers -> {"idle", "handle", "retry", "bury", "ack"}]
      /\ holds \in [Consumers -> Copies \cup {NoCopy}]
      /\ failures \in [Messages -> 0 .. MaxRetries + 2]
      /\ closings \in Nat /\ MaxRetries \in Nat
      /\ \A d \in Copies : d.msg \in Messages /\ d.retries \in 0 .. MaxRetries
      /\ \A c \in Consumers : channel[c] = "closed" => closings > 0
      /\ channel \in [Consumers -> {"open", "closed"}]
  BY Held, RetriesAssumption DEF Typed, TypeOK
<1>0a. closings = 0
  <2>1. ASSUME NEW c \in Consumers, Step(c) PROVE closings' = closings
    BY <2>1 DEF Step, Receive, Refuse, Succeed, Conflict, Fail, Panic, PublishRetry, DeadLetter,
                Ack, QueuesKept
  <2>2. ASSUME NEW c \in Consumers, CloseChannel(c) PROVE FALSE
    BY <1>0, <2>2 DEF CloseChannel
  <2> QED
    BY <2>1, <2>2 DEF Next, vars, Send, Expire, Restart
<1>0b. OneCopy /\ Counted
  BY <1>0a DEF Single
<1>1. ASSUME NEW m \in Messages, Send(m) PROVE OneCopy' /\ Counted'
  <2> DEFINE d == [msg |-> m, retries |-> 0]
  <2>1. ~ InMain(m) /\ ~ InWaiting(m) /\ ~ InWork(m) /\ failures[m] = 0
    BY <1>1, <1>0b DEF Send, OneCopy
  <2>2. d \notin BagToSet(main) /\ d.msg = m /\ d.retries = 0
    BY <2>1 DEF InMain
  <2>3. /\ BagToSet(main') = BagToSet(main) \cup {d} /\ main'[d] = 1
        /\ \A e \in BagToSet(main) : main'[e] = main[e]
    BY <1>0, <1>1, <2>2, Adding DEF Send
  <2> HIDE DEF d
  <2>4. /\ sent' = sent \cup {m}
        /\ UNCHANGED <<waiting, failures, pc, holds>>
        /\ \A k : InMain(k)' <=> InMain(k) \/ k = m
        /\ \A k : (InWaiting(k)' <=> InWaiting(k)) /\ (InWork(k)' <=> InWork(k))
        /\ \A c : Working(c)' <=> Working(c)
    BY <1>1, <2>2, <2>3 DEF Send, InMain, InWaiting, InWork, Working
  <2>5. \A e \in BagToSet(main) : e.msg # m
    BY <2>1 DEF InMain
  <2>6. OneCopy'
    BY <1>0b, <2>1, <2>2, <2>3, <2>4, <2>5 DEF OneCopy
  <2>7. Counted'
    BY <1>0b, <2>1, <2>2, <2>3, <2>4 DEF Counted
  <2> QED
    BY <2>6, <2>7
<1>2. CASE Expire
  <2> DEFINE d == Head(waiting)
  <2>1. /\ 1 \in DOMAIN waiting /\ d = waiting[1] /\ d \in Copies
        /\ \A i \in DOMAIN waiting' : i + 1 \in DOMAIN waiting /\ waiting'[i] = waiting[i + 1]
                                       /\ i \in Nat /\ i > 0
    BY <1>0, <1>2, Leaving DEF Expire
  <2>2. InWaiting(d.msg) /\ d.msg \in Messages
    BY <1>0, <2>1 DEF InWaiting
  <2>3. ~ InMain(d.msg) /\ ~ InWork(d.msg) /\ d.msg \in sent
    BY <1>0b, <2>2 DEF OneCopy
  <2>4. d \notin BagToSet(main) /\ \A e \in BagToSet(main) : e.msg # d.msg
    BY <2>3 DEF InMain
  <2>5. /\ BagToSet(main') = BagToSet(main) \cup {d} /\ main'[d] = 1
        /\ \A e \in BagToSet(main) : main'[e] = main[e]
    <3>1. main' = main (+) One(d)
      BY <1>2 DEF Expire, Rerouted
    <3> HIDE DEF d
    <3> QED
      BY <1>0, <2>4, <3>1, Adding
  <2>6. \A i \in DOMAIN waiting' : waiting'[i].msg # d.msg
    BY <1>0b, <2>1 DEF OneCopy
  <2> HIDE DEF d
  <2>7. /\ UNCHANGED <<sent, failures, pc, holds>>
        /\ \A k : InMain(k)' <=> InMain(k) \/ k = d.msg
        /\ \A k : InWaiting(k)' => InWaiting(k) /\ k # d.msg
        /\ \A k : InWork(k)' <=> InWork(k)
        /\ \A c : Working(c)' <=> Working(c)
    BY <1>2, <2>1, <2>5, <2>6 DEF Expire, InMain, InWaiting, InWork, Working
  <2>8. \A i, j \in DOMAIN waiting' : waiting'[i].msg = waiting'[j].msg => i = j
    BY <1>0b, <2>1 DEF OneCopy
  <2>9. OneCopy'
    BY <1>0b, <2>3, <2>4, <2>5, <2>7, <2>8 DEF OneCopy
  <2>10. Counted'
    BY <1>0b, <2>1, <2>5, <2>7 DEF Counted
  <2> QED
    BY <2>9, <2>10
<1>3. ASSUME NEW c \in Consumers, Step(c) PROVE OneCopy' /\ Counted'
  <2>1. CASE Receive(c)
    <3>1. PICK d \in BagToSet(main) : main' = main (-) One(d) /\ holds' = [holds EXCEPT ![c] = d]
      BY <2>1 DEF Receive
    <3>2. main[d] = 1 /\ d.msg \in Messages /\ InMain(d.msg)
      BY <1>0, <1>0b, <3>1 DEF OneCopy, InMain
    <3>3. /\ BagToSet(main') = BagToSet(main) \ {d}
          /\ \A e \in BagToSet(main') : main'[e] = main[e]
      BY <1>0, <3>1, <3>2, Taking
    <3>4. ~ InWaiting(d.msg) /\ ~ InWork(d.msg) /\ d.msg \in sent
      BY <1>0b, <3>2 DEF OneCopy
    <3>5. /\ UNCHANGED <<sent, failures, waiting>>
          /\ holds'[c] = d /\ pc'[c] = "handle" /\ ~ Working(c)
          /\ \A e \in Consumers \ {c} : pc'[e] = pc[e] /\ holds'[e] = holds[e]
      BY <1>0, <2>1, <3>1 DEF Receive, Go, Working
    <3>6. \A e \in Consumers : Working(e)' <=> Working(e) \/ e = c
      BY <3>5 DEF Working
    <3>7. /\ \A k : InMain(k)' => InMain(k) /\ k # d.msg
          /\ \A k : InWaiting(k)' <=> InWaiting(k)
          /\ \A k : InWork(k)' => InWork(k) \/ k = d.msg
      BY <1>0b, <3>3, <3>5, <3>6 DEF InMain, InWaiting, InWork, OneCopy
    <3>8. \A e \in Consumers : Working(e) => holds[e].msg # d.msg
      BY <3>4 DEF InWork
    <3>9. OneCopy'
      BY <1>0b, <3>3, <3>4, <3>5, <3>6, <3>7, <3>8 DEF OneCopy
    <3>10. Counted'
      BY <1>0b, <3>3, <3>5 DEF Counted
    <3> QED
      BY <3>9, <3>10
  <2>2. ASSUME /\ UNCHANGED <<sent, main, waiting, holds, failures>>
               /\ \A e \in Consumers \ {c} : pc'[e] = pc[e]
               /\ pc'[c] \in {"idle", "bury", "ack"}
               /\ Working(c)' => Working(c)
        PROVE OneCopy' /\ Counted'
    <3>1. /\ \A e \in Consumers : Working(e)' => Working(e)
          /\ \A k : (InMain(k)' <=> InMain(k)) /\ (InWaiting(k)' <=> InWaiting(k))
          /\ \A k : InWork(k)' => InWork(k)
      BY <2>2 DEF Working, InMain, InWaiting, InWork
    <3>2. OneCopy'
      BY <1>0b, <2>2, <3>1 DEF OneCopy
    <3>3. Counted'
      BY <1>0b, <2>2 DEF Counted
    <3> QED
      BY <3>2, <3>3
  <2>3. CASE Refuse(c) \/ Succeed(c) \/ Conflict(c) \/ Panic(c) \/ DeadLetter(c)
    BY <1>0, <2>2, <2>3 DEF Refuse, Succeed, Conflict, Panic, DeadLetter, Executes, QueuesKept,
                            Bury, Go, queues, Working
  <2>4. CASE Ack(c)
    <3>1. /\ UNCHANGED <<sent, main, waiting, failures>>
          /\ ~ Working(c)'
          /\ \A e \in Consumers \ {c} : pc'[e] = pc[e] /\ holds'[e] = holds[e]
          /\ pc'[c] = "idle"
      BY <1>0, <2>4 DEF Ack, Go, queues, Working
    <3>2. /\ \A e \in Consumers : Working(e)' => Working(e) /\ holds'[e] = holds[e]
          /\ \A k : (InMain(k)' <=> InMain(k)) /\ (InWaiting(k)' <=> InWaiting(k))
          /\ \A k : InWork(k)' => InWork(k)
      BY <3>1 DEF Working, InMain, InWaiting, InWork
    <3>3. OneCopy'
      BY <1>0b, <3>1, <3>2 DEF OneCopy
    <3>4. Counted'
      BY <1>0b, <3>1 DEF Counted
    <3> QED
      BY <3>3, <3>4
  <2>5. CASE Fail(c)
    <3> DEFINE m == holds[c].msg
    <3>1. /\ m \in Messages /\ holds[c].retries \in 0 .. MaxRetries
          /\ Working(c) /\ pc[c] = "handle" /\ InWork(m)
      BY <1>0, <2>5 DEF Fail, Executes, Working, InWork
    <3>2. /\ UNCHANGED <<sent, main, waiting, holds>>
          /\ \A k \in Messages \ {m} : failures'[k] = failures[k]
          /\ failures'[m] <= holds[c].retries + 1
          /\ pc'[c] \in {"retry", "bury"}
          /\ \A e \in Consumers \ {c} : pc'[e] = pc[e]
      <4>1. failures[m] <= holds[c].retries
        BY <1>0b, <3>1 DEF Counted
      <4>2. failures' = [failures EXCEPT ![m] = IF @ <= MaxRetries + 1 THEN @ + 1 ELSE @]
        BY <2>5 DEF Fail
      <4>3. UNCHANGED <<sent, main, waiting, holds>>
        BY <2>5 DEF Fail, QueuesKept, queues
      <4>4. pc' = [pc EXCEPT ![c] = "bury"] \/ pc' = [pc EXCEPT ![c] = "retry"]
        BY <2>5 DEF Fail, Bury, Go
      <4> QED
        BY <1>0, <3>1, <4>1, <4>2, <4>3, <4>4
    <3>3. m \in sent /\ ~ InMain(m) /\ ~ InWaiting(m)
      BY <1>0b, <3>1 DEF OneCopy
    <3>4. /\ \A d \in BagToSet(main) : d.msg # m
          /\ \A i \in DOMAIN waiting : waiting[i].msg # m
          /\ \A e \in Consumers \ {c} : Working(e) => holds[e].msg # m
      BY <1>0b, <3>1, <3>3 DEF OneCopy, InMain, InWaiting
    <3> HIDE DEF m
    <3>5. /\ \A e \in Consumers : Working(e)' <=> Working(e)
          /\ \A k : (InMain(k)' <=> InMain(k)) /\ (InWaiting(k)' <=> InWaiting(k))
          /\ \A k : InWork(k)' <=> InWork(k)
      BY <3>1, <3>2 DEF Working, InMain, InWaiting, InWork
    <3>6. OneCopy'
      BY <1>0b, <3>2, <3>3, <3>5 DEF OneCopy
    <3>7. /\ \A k \in Messages : failures'[k] <= MaxRetries + 1
          /\ \A d \in BagToSet(main') : failures'[d.msg] <= d.retries
          /\ \A i \in DOMAIN waiting' : failures'[waiting'[i].msg] <= waiting'[i].retries
      <4>0. failures' \in [Messages -> 0 .. MaxRetries + 2]
        BY <1>0, <2>5, TypedStep DEF Typed, TypeOK
      <4>1. \A k \in Messages : failures'[k] <= MaxRetries + 1
        <5>1. failures'[m] <= MaxRetries + 1
          BY <1>0, <3>1, <3>2, <4>0
        <5> QED
          BY <1>0b, <3>2, <5>1 DEF Counted
      <4>2. \A d \in BagToSet(main') : failures'[d.msg] <= d.retries
        <5>1. \A d \in BagToSet(main) : d.msg \in Messages \ {m}
          BY <1>0, <3>4
        <5> QED
          BY <1>0b, <3>2, <5>1 DEF Counted
      <4>3. \A i \in DOMAIN waiting' : failures'[waiting'[i].msg] <= waiting'[i].retries
        <5>1. \A i \in DOMAIN waiting : waiting[i].msg \in Messages \ {m}
          BY <1>0, <3>4
        <5> QED
          BY <1>0b, <3>2, <5>1 DEF Counted
      <4> QED
        BY <4>1, <4>2, <4>3
    <3>8. ASSUME NEW e \in Consumers, pc'[e] \in {"handle", "retry"}
          PROVE /\ pc'[e] = "handle" => failures'[holds'[e].msg] <= holds'[e].retries
                /\ pc'[e] = "retry" => failures'[holds'[e].msg] <= holds'[e].retries + 1
      <4>1. CASE e = c
        BY <3>2, <4>1 DEF m
      <4>2. CASE e # c
        <5>1. Working(e) /\ pc[e] = pc'[e] /\ pc[e] # "idle"
          BY <3>2, <3>8, <4>2 DEF Working
        <5>2. holds[e].msg \in Messages \ {m}
          BY <1>0, <3>4, <4>2, <5>1
        <5> QED
          BY <1>0b, <3>2, <5>1, <5>2 DEF Counted
      <4> QED
        BY <4>1, <4>2
    <3>9. Counted'
      BY <3>7, <3>8 DEF Counted
    <3> QED
      BY <3>6, <3>9
  <2>6. CASE PublishRetry(c)
    <3> DEFINE d == [holds[c] EXCEPT !.retries = @ + 1]
    <3>1. /\ d \in Copies /\ d.msg = holds[c].msg /\ d.retries = holds[c].retries + 1
          /\ channel[c] = "open" /\ Working(c) /\ d.msg \in Messages
      <4>1. pc[c] = "retry" /\ holds[c] \in Copies
        BY <1>0, <2>6 DEF PublishRetry
      <4>2. holds[c].retries < MaxRetries
        BY <4>1 DEF Typed
      <4>3. channel[c] = "open" /\ Working(c)
        BY <1>0, <1>0a, <4>1 DEF Working
      <4> QED
        BY <1>0, <4>1, <4>2, <4>3 DEF Copies
    <3> HIDE DEF d
    <3>2. /\ waiting' = Append(waiting, d)
          /\ UNCHANGED <<sent, main, failures, holds>>
          /\ pc'[c] = "ack"
          /\ \A e \in Consumers \ {c} : pc'[e] = pc[e]
      BY <1>0, <2>6, <3>1 DEF PublishRetry, Go, d
    <3>3. /\ DOMAIN waiting' = DOMAIN waiting \cup {Len(waiting) + 1}
          /\ waiting'[Len(waiting) + 1] = d
          /\ \A i \in DOMAIN waiting : waiting'[i] = waiting[i]
      BY <1>0, <3>1, <3>2, Queueing
    <3>4. InWork(d.msg)
      BY <3>1 DEF InWork
    <3>5. ~ InMain(d.msg) /\ ~ InWaiting(d.msg) /\ d.msg \in sent
      BY <1>0b, <3>1, <3>4 DEF OneCopy
    <3>6. \A i \in DOMAIN waiting : waiting[i].msg # d.msg
      BY <3>5 DEF InWaiting
    <3>7. \A e \in Consumers : Working(e)' <=> Working(e) /\ e # c
      BY <3>2 DEF Working
    <3>8. /\ \A k : InMain(k)' <=> InMain(k)
          /\ \A k : InWaiting(k)' => InWaiting(k) \/ k = d.msg
          /\ \A k : InWork(k)' => InWork(k) /\ k # d.msg
      BY <1>0b, <3>1, <3>2, <3>3, <3>7 DEF InMain, InWaiting, InWork, OneCopy
    <3>9. OneCopy'
      BY <1>0b, <3>2, <3>3, <3>5, <3>6, <3>7, <3>8 DEF OneCopy
    <3>10. failures[d.msg] <= d.retries
      BY <1>0b, <2>6, <3>1 DEF PublishRetry, Counted
    <3>11. Counted'
      BY <1>0b, <3>2, <3>3, <3>10 DEF Counted
    <3> QED
      BY <3>9, <3>11
  <2> QED
    BY <1>3, <2>1, <2>3, <2>4, <2>5, <2>6 DEF Step
<1>4. ASSUME NEW c \in Consumers, CloseChannel(c) PROVE OneCopy' /\ Counted'
  BY <1>0, <1>4 DEF CloseChannel
<1>5. ASSUME NEW c \in Consumers, Restart(c) PROVE OneCopy' /\ Counted'
  BY <1>0, <1>0a, <1>5 DEF Restart
<1>6. CASE UNCHANGED vars
  BY <1>0b, <1>6 DEF vars, OneCopy, Counted, InMain, InWaiting, InWork, Working
<1> QED
  BY <1>1, <1>2, <1>3, <1>4, <1>5, <1>6 DEF Next

-----------------------------------------------------------------------------
(* The consumers' types.                                                   *)
THEOREM ConsumersAreTyped == Spec => []TypeOK
<1>1. Typed => TypeOK
  BY DEF Typed
<1> QED
  BY TypedInit, TypedStep, <1>1, PTL DEF Spec

(* No message is lost, however many channels are: consumer.go publishes    *)
(* before it acknowledges, and the broker requeues what it has not seen    *)
(* acknowledged.                                                           *)
THEOREM NothingGetsLost == Spec => []NothingIsLost
<1>1. Init => Kept
  BY DEF Init, Kept
<1>2. Kept => NothingIsLost
  BY DEF Kept, NothingIsLost, Safe, Queued, InMain, InWaiting, InHand, Working
<1> QED
  BY TypedInit, TypedStep, KeptStep, <1>1, <1>2, PTL DEF Spec

(* The retry budget, for any budget and any number of consumers.           *)
THEOREM RetriesAreBudgeted == Spec => []BudgetIsKept
<1>1. Init => Tried /\ Single
  <2>1. Init => BagToSet(main) = {}
    BY DEF Init, EmptyBag, SetToBag, BagToSet
  <2> QED
    BY <2>1, RetriesAssumption DEF Init, Tried, Single, OneCopy, Counted, InMain, InWaiting,
                                   InWork, Working
<1>2. Typed /\ Tried /\ Single => BudgetIsKept
  BY DEF Tried, Single, Counted, BudgetIsKept
<1> QED
  BY TypedInit, TypedStep, TriedStep, SingleStep, <1>1, <1>2, PTL DEF Spec
=============================================================================
