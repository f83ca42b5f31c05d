------------------------------ MODULE WorkQueue ------------------------------
(***************************************************************************)
(* What the two database-backed queues promise about a clip, with no       *)
(* worker, batches, retries or restarts: it is queued at most once, it     *)
(* ends in exactly one way, and an end is never taken back, except that a  *)
(* failed clip may be queued again where the queue offers that.            *)
(***************************************************************************)
CONSTANTS
    Clips,
    Retriable   \* a failed clip may be queued again, or its failure dropped

VARIABLE state

States == {"absent", "queued", "done", "failed"}

Init == state = [c \in Clips |-> "absent"]

Move(c, from, to) ==
    /\ state[c] = from
    /\ state' = [state EXCEPT ![c] = to]

(* Each failed clip of S is queued again, as "retry all" does.             *)
RequeueFailed(S) ==
    /\ Retriable
    /\ \A c \in S : state[c] = "failed"
    /\ state' = [c \in Clips |-> IF c \in S THEN "queued" ELSE state[c]]

ClearFailed(S) ==
    /\ Retriable
    /\ \A c \in S : state[c] = "failed"
    /\ state' = [c \in Clips |-> IF c \in S THEN "absent" ELSE state[c]]

(* Deleted clips take their queue entries along, whatever their state.     *)
Forget(S) ==
    state' = [c \in Clips |-> IF c \in S THEN "absent" ELSE state[c]]

Next ==
    \/ \E c \in Clips :
         \/ Move(c, "absent", "queued")
         \/ Move(c, "queued", "done")
         \/ Move(c, "queued", "failed")
    \/ \E S \in SUBSET Clips :
         RequeueFailed(S) \/ ClearFailed(S) \/ Forget(S)

Spec == Init /\ [][Next]_state
=============================================================================
