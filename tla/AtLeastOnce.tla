---------------------------- MODULE AtLeastOnce ----------------------------
(***************************************************************************)
(* What the transactional outbox promises (ARCHITECTURE.md section 8): an  *)
(* event of a change that was rolled back is never published, an event of  *)
(* a committed change is eventually published, once or more.               *)
(***************************************************************************)
CONSTANTS Changes, Events, Appends

VARIABLES change, delivered

vars == <<change, delivered>>

Init ==
    /\ change = [c \in Changes |-> "open"]
    /\ delivered = {}

Commit(c) ==
    /\ change[c] = "open"
    /\ change' = [change EXCEPT ![c] = "committed"]
    /\ UNCHANGED delivered

Rollback(c) ==
    /\ change[c] = "open"
    /\ change' = [change EXCEPT ![c] = "rolled back"]
    /\ UNCHANGED delivered

Deliver(e) ==
    /\ \E c \in Changes : change[c] = "committed" /\ e \in Appends[c]
    /\ delivered' = delivered \cup {e}
    /\ UNCHANGED change

Next ==
    \/ \E c \in Changes : Commit(c) \/ Rollback(c)
    \/ \E e \in Events : Deliver(e)

Spec == Init /\ [][Next]_vars

(* Every committed event is delivered; nothing makes a change end.         *)
FairSpec == Spec /\ \A e \in Events : WF_vars(Deliver(e))
=============================================================================
