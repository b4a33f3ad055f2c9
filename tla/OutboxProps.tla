---------------------------- MODULE OutboxProps ----------------------------
(***************************************************************************)
(* What makes the outbox workers correct.                                  *)
(***************************************************************************)
EXTENDS Outbox

Claimed == [event : Events, attempts : 0 .. AttemptsCap]

(* Types, and what a worker holds at each step of its loop.                *)
TypeOK ==
    /\ change \in [Changes -> {"open", "committed", "rolled back"}]
    /\ attempts \in [Events -> 0 .. AttemptsCap]
    /\ due \in [Events -> - Overdue .. MaxDelay]
    /\ published \in [Events -> BOOLEAN]
    /\ pc \in [Workers -> {"poll", "publish", "mark", "reschedule"}]
    /\ batch \in [Workers -> Seq(Claimed)]
    /\ \A w \in Workers : batch[w] = << >> <=> pc[w] = "poll"
    /\ age \in [Workers -> 0 .. MaxDelay + Overdue]
    /\ channel \in [Workers -> {"open", "closed"}]
    /\ confirmed \in SUBSET Events
    /\ queue \in SUBSET Events

(* A record is marked only if the broker has confirmed its event: a        *)
(* publish that fails, a worker that dies and an update that is lost leave *)
(* it to be published again.                                               *)
MarkedIsConfirmed == \A e \in Events : published[e] => e \in confirmed

(* Seen from the subscriber, the workers deliver at least once, and only   *)
(* events of changes that committed.                                       *)
Promise == INSTANCE AtLeastOnce WITH delivered <- queue
DeliversAtLeastOnce == Promise!Spec
EventuallyDelivers == Promise!FairSpec

(* Publishing ends: a committed event is eventually marked and no worker   *)
(* holds it any more, whatever the claims that overlapped.                 *)
Settled(e) ==
    published[e] /\ \A w \in Workers : \A i \in DOMAIN batch[w] : batch[w][i].event # e
PublishingEnds == \A e \in Events : Stored(e) ~> []Settled(e)

(* "uma alteração nunca é confirmada (committed) sem que seu evento        *)
(* eventualmente seja publicado" (ARCHITECTURE.md:190-191), of a service   *)
(* that keeps running and a broker that comes back when it was away.       *)
CommittedIsPublished == \A e \in Events : Stored(e) ~> published[e]
=============================================================================
