--------------------------- MODULE RemoteDetection --------------------------
(***************************************************************************)
(* Object detection on Hugging Face's servers                              *)
(* (vision/remote_detection.py): the frames of one clip are posted a few   *)
(* at a time, each with its retries, and one failed frame fails the clip.  *)
(* Every request is billed.                                                *)
(***************************************************************************)
EXTENDS Integers, FiniteSets

CONSTANTS Frames,      \* the clip's scan frames
          Concurrency, \* _CONCURRENCY
          Attempts     \* _ATTEMPTS

VARIABLES request,  \* [frame -> queued, sent, pausing, looked or given_up]
          attempt,  \* [frame -> requests sent]
          failure,  \* run.failure: none, transient or permanent
          refused,  \* some answer said that retrying cannot help
          late,     \* requests sent after a failure was known
          outcome   \* what detect returned: pending, boxes or none
remoteVars == <<request, attempt, failure, refused, late, outcome>>

Init ==
    /\ request = [f \in Frames |-> "queued"]
    /\ attempt = [f \in Frames |-> 0]
    /\ failure = "none" /\ refused = FALSE /\ late = 0
    /\ outcome = "pending"

InFlight == {f \in Frames : request[f] \in {"sent", "pausing"}}

(* A permanent failure replaces a transient one.                           *)
Record(kind) ==
    IF failure = "none" \/ (kind = "permanent" /\ failure = "transient") THEN kind ELSE failure

Post(f) ==
    /\ request' = [request EXCEPT ![f] = "sent"]
    /\ attempt' = [attempt EXCEPT ![f] = @ + 1]
    /\ late' = IF failure = "none" THEN late ELSE late + 1

(* Behind the gate a frame is not sent once another has failed.            *)
Enter(f) ==
    /\ request[f] = "queued" /\ Cardinality(InFlight) < Concurrency
    /\ IF failure = "none" THEN Post(f)
       ELSE request' = [request EXCEPT ![f] = "given_up"] /\ UNCHANGED <<attempt, late>>
    /\ UNCHANGED <<failure, refused, outcome>>

(* A list of boxes, of which the malformed, the unlikely and those of no   *)
(* interest are left out.                                                  *)
Boxes(f) ==
    /\ request[f] = "sent"
    /\ request' = [request EXCEPT ![f] = "looked"]
    /\ UNCHANGED <<attempt, failure, refused, late, outcome>>

(* A frame that cannot be examined: JSON that is no list, or an answer     *)
(* that retrying does not change.                                          *)
GiveUpOn(f, kind) ==
    /\ request' = [request EXCEPT ![f] = "given_up"]
    /\ failure' = Record(kind)
    /\ UNCHANGED <<attempt, late, outcome>>

Refused(f, kind) ==
    /\ request[f] = "sent"
    /\ refused' = (refused \/ kind = "permanent")
    /\ GiveUpOn(f, kind)

(* A throttled request, a failing server, a page in front of it or no      *)
(* answer at all: the frame waits and is asked about again.                *)
TryLater(f) ==
    /\ request[f] = "sent"
    /\ IF attempt[f] < Attempts
         THEN /\ request' = [request EXCEPT ![f] = "pausing"]
              /\ UNCHANGED <<attempt, failure, late, outcome>>
         ELSE GiveUpOn(f, "transient")
    /\ UNCHANGED refused

Retry(f) ==
    /\ request[f] = "pausing"
    /\ Post(f)
    /\ UNCHANGED <<failure, refused, outcome>>

Return ==
    /\ outcome = "pending" /\ \A f \in Frames : request[f] \in {"looked", "given_up"}
    /\ outcome' = IF failure = "none" THEN "boxes" ELSE "none"
    /\ UNCHANGED <<request, attempt, failure, refused, late>>

Detected == outcome # "pending" /\ UNCHANGED remoteVars

RemoteStep(f) ==
    \/ Enter(f) \/ Boxes(f) \/ TryLater(f) \/ Retry(f)
    \/ \E kind \in {"transient", "permanent"} : Refused(f, kind)
Next == (\E f \in Frames : RemoteStep(f)) \/ Return \/ Detected

Spec == Init /\ [][Next]_remoteVars

(* A request ends within its timeout, and a pause is at most 20 s.         *)
RemoteFairness == (\A f \in Frames : WF_remoteVars(RemoteStep(f))) /\ WF_remoteVars(Return)
FairSpec == Spec /\ RemoteFairness

-----------------------------------------------------------------------------
RemoteTypeOK ==
    /\ request \in [Frames -> {"queued", "sent", "pausing", "looked", "given_up"}]
    /\ attempt \in [Frames -> 0..Attempts]
    /\ failure \in {"none", "transient", "permanent"} /\ refused \in BOOLEAN
    /\ Cardinality(InFlight) <= Concurrency
    /\ outcome \in {"pending", "boxes", "none"}

(* An empty driveway is reported only when every frame was looked at.      *)
EmptyMeansLooked == outcome = "boxes" => \A f \in Frames : request[f] = "looked"

(* Whatever the order of the answers, a refusal the user can act on is     *)
(* what gets reported.                                                     *)
RefusalIsReported == refused => failure = "permanent"

(* Once a frame has failed, only the retries of those in flight are still  *)
(* paid for.                                                               *)
BillStops == late <= (Concurrency - 1) * (Attempts - 1)

(* The clip's detection ends, whatever the servers answer.                 *)
Ended == outcome # "pending"
DetectionEnds == []<>Ended

-----------------------------------------------------------------------------
(* The inductive invariant.  Those in flight have asked once at least, and *)
(* what has been paid for after a failure and what they may yet ask is     *)
(* within the bill.                                                        *)
Owed == {p \in Frames \X (1..Attempts) : p[1] \in InFlight /\ p[2] > attempt[p[1]]}

Asked ==
    \A f \in Frames : /\ request[f] \in {"sent", "pausing"} => attempt[f] > 0
                      /\ request[f] = "pausing" => attempt[f] < Attempts
                      /\ request[f] = "queued" => attempt[f] = 0

GivenUpIsKnown == failure = "none" => \A f \in Frames : request[f] # "given_up"

WithinTheBill ==
    /\ late \in Nat
    /\ failure = "none" => late = 0
    /\ failure # "none" => late + Cardinality(Owed) <= (Concurrency - 1) * (Attempts - 1)

IInv ==
    /\ RemoteTypeOK /\ Asked /\ GivenUpIsKnown
    /\ EmptyMeansLooked /\ RefusalIsReported /\ WithinTheBill
=============================================================================
