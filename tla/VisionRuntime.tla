--------------------------- MODULE VisionRuntime ----------------------------
(***************************************************************************)
(* What the heavy vision stages of concurrently analyzed clips share       *)
(* (vision/runtime.py): the slots that cap how many run, one lock for each *)
(* model's first load, and one for every first import.  A stage takes a    *)
(* slot, loads its model if nobody has, and works in a thread that nothing *)
(* can stop.                                                               *)
(*                                                                         *)
(* Each clip runs detection and then audio, which has a time budget of its *)
(* own and never waits for its model (vision/audio.py); the Faces tab      *)
(* loads the face model before it looks at a photo (media_server/faces.py).*)
(***************************************************************************)
EXTENDS Integers, FiniteSets

CONSTANTS Clips,       \* clips being analyzed at once
          CvLimit,     \* ai_cv_concurrency
          MaxFailures, \* failed loads
          Tab, Loader  \* the Faces tab's request, the audio model's load task

VARIABLES at,      \* [job -> the step it is at]
          stage,   \* [job -> the model its stage uses]
          slots,   \* the jobs inside the semaphore
          loaded,  \* the models in memory
          locks,   \* [model -> the job holding its lock, or Nobody]
          threads, \* the executor's work: [job, model, work, left], left once nobody waits
          importing, \* the models whose load holds the import lock: at most one
          failures
runtimeVars == <<at, stage, slots, loaded, locks, threads, importing, failures>>

Models == {"detection", "audio", "face"}
Jobs == Clips \cup {Tab, Loader}
Nobody == "nobody"

Thread(j, work) == [job |-> j, model |-> stage[j], work |-> work, left |-> FALSE]

Init ==
    /\ at = [j \in Jobs |-> CASE j \in Clips -> "want" [] j = Tab -> "idle" [] j = Loader -> "idle"]
    /\ stage = [j \in Jobs |-> CASE j \in Clips -> "detection" [] j = Tab -> "face"
                                 [] j = Loader -> "audio"]
    /\ slots = {} /\ loaded = {} /\ threads = {} /\ importing = {}
    /\ locks = [m \in Models |-> Nobody]
    /\ failures = 0

(* Where a job goes when its stage is over, with or without a result.      *)
After(j) == CASE j \in Clips /\ stage[j] = "detection" -> "extract"
              [] j \in Clips /\ stage[j] = "audio" -> "done"
              [] j = Tab -> "done"
              [] j = Loader -> "idle"

EndStage(j) ==
    /\ at' = [at EXCEPT ![j] = After(j)]
    /\ stage' = IF After(j) = "extract" THEN [stage EXCEPT ![j] = "audio"] ELSE stage
    /\ slots' = slots \ {j}

GiveUp(j) == EndStage(j)

(* The Faces tab asks for the model first, without a slot.                 *)
OpenTab ==
    /\ at[Tab] = "idle"
    /\ at' = [at EXCEPT ![Tab] = IF "face" \in loaded THEN "want" ELSE "lock"]
    /\ UNCHANGED <<stage, slots, loaded, locks, threads, importing, failures>>

(* A silent clip has no audio stage; without a model its load is started,  *)
(* unless one runs, and the clip goes on without it.                       *)
ExtractAudio(j, sound) ==
    /\ at[j] = "extract"
    /\ at' = [at EXCEPT ![j] = IF sound /\ "audio" \in loaded THEN "want" ELSE "done",
                        ![Loader] = IF sound /\ "audio" \notin loaded /\ at[Loader] = "idle"
                                      THEN "lock" ELSE @]
    /\ UNCHANGED <<stage, slots, loaded, locks, threads, importing, failures>>

EnterSlot(j) ==
    /\ at[j] = "want" /\ Cardinality(slots) < CvLimit
    /\ slots' = slots \cup {j}
    /\ at' = [at EXCEPT ![j] = IF stage[j] \in loaded THEN "infer" ELSE "lock"]
    /\ UNCHANGED <<stage, loaded, locks, threads, importing, failures>>

Ready(j) == IF j \in slots THEN "infer" ELSE IF j = Tab THEN "want" ELSE After(j)

\* Mutant: the model is loaded without asking again under the lock.
LoadRegardless(j) ==
    /\ at[j] = "lock" /\ locks[stage[j]] = Nobody
    /\ locks' = [locks EXCEPT ![stage[j]] = j]
    /\ threads' = threads \cup {Thread(j, "load")}
    /\ at' = [at EXCEPT ![j] = "loading"]
    /\ UNCHANGED <<stage, slots, loaded, importing, failures>>

(* ensure_ready: who gets the lock may find the model loaded meanwhile.    *)
TakeLock(j) ==
    /\ at[j] = "lock" /\ locks[stage[j]] = Nobody
    /\ IF stage[j] \in loaded
         THEN at' = [at EXCEPT ![j] = Ready(j)] /\ UNCHANGED <<locks, threads>>
         ELSE /\ locks' = [locks EXCEPT ![stage[j]] = j]
              /\ threads' = threads \cup {Thread(j, "load")}
              /\ at' = [at EXCEPT ![j] = "loading"]
    /\ UNCHANGED <<stage, slots, loaded, importing, failures>>

TakeImportLock(t) ==
    /\ t \in threads /\ t.work = "load" /\ importing = {}
    /\ importing' = {t.model}
    /\ UNCHANGED <<at, stage, slots, loaded, locks, threads, failures>>

FinishLoad(t, ok) ==
    /\ t \in threads /\ t.work = "load" /\ t.model \in importing
    /\ importing' = {}
    /\ threads' = threads \ {t}
    /\ locks' = [locks EXCEPT ![t.model] = Nobody]
    /\ loaded' = IF ok THEN loaded \cup {t.model} ELSE loaded
    /\ failures' = IF ok THEN failures ELSE failures + 1
    /\ IF ok THEN at' = [at EXCEPT ![t.job] = Ready(t.job)] /\ UNCHANGED <<stage, slots>>
       ELSE GiveUp(t.job)

Infer(j) ==
    /\ at[j] = "infer"
    /\ threads' = threads \cup {Thread(j, "infer")}
    /\ at' = [at EXCEPT ![j] = "inferring"]
    /\ UNCHANGED <<stage, slots, loaded, locks, importing, failures>>

(* With or without a result; a thread nobody waits for ends unseen.        *)
FinishInfer(t) ==
    /\ t \in threads /\ t.work = "infer"
    /\ threads' = threads \ {t}
    /\ IF t.left THEN UNCHANGED <<at, stage, slots>> ELSE EndStage(t.job)
    /\ UNCHANGED <<loaded, locks, importing, failures>>

(* The audio budget ends the wait for a slot or for the thread, and frees  *)
(* the slot; the thread goes on.                                           *)
AudioTimeout(j) ==
    /\ j \in Clips /\ stage[j] = "audio" /\ at[j] \in {"extract", "want", "inferring"}
    /\ threads' = {IF t.job = j THEN [t EXCEPT !.left = TRUE] ELSE t : t \in threads}
    /\ EndStage(j)
    /\ UNCHANGED <<loaded, locks, importing, failures>>

AllDone ==
    /\ \A j \in Clips : at[j] = "done"
    /\ at[Tab] \in {"idle", "done"} /\ at[Loader] = "idle" /\ threads = {}
    /\ UNCHANGED runtimeVars

Working ==
    \/ \E j \in Clips, sound \in BOOLEAN : ExtractAudio(j, sound)
    \/ \E j \in Jobs : EnterSlot(j) \/ TakeLock(j) \/ Infer(j)
    \/ \E t \in threads : TakeImportLock(t) \/ FinishInfer(t)
    \/ \E t \in threads : FinishLoad(t, TRUE)
Next ==
    \/ Working
    \/ OpenTab
    \/ \E j \in Clips : AudioTimeout(j)
    \/ failures < MaxFailures /\ \E t \in threads : FinishLoad(t, FALSE)
    \/ AllDone

Spec == Init /\ [][Next]_runtimeVars

(* The event loop runs what it can, and threads end.                       *)
RuntimeFairness == WF_runtimeVars(Working)
FairSpec == Spec /\ RuntimeFairness

-----------------------------------------------------------------------------
RuntimeTypeOK ==
    /\ at \in [Jobs -> {"idle", "want", "lock", "loading", "infer", "inferring", "extract", "done"}]
    /\ stage \in [Jobs -> Models] /\ slots \subseteq Jobs /\ loaded \subseteq Models
    /\ \A m \in Models : locks[m] # Nobody => at[locks[m]] = "loading" /\ stage[locks[m]] = m
    /\ \A t \in threads : t.job \in Jobs /\ t.model \in Models /\ t.work \in {"load", "infer"}
    /\ \A t \in threads : t.left \/ at[t.job] \in {"loading", "inferring"}

(* A model is loaded once: no thread loads one that is in memory or that   *)
(* another is loading.                                                     *)
LoadedOnce ==
    \A t \in threads : t.work = "load" =>
        t.model \notin loaded /\ \A u \in threads : u.work = "load" /\ u.model = t.model => u = t

(* No job keeps a slot once its stage is over, however it ended.           *)
SlotsReturned == \A j \in slots : at[j] \in {"lock", "loading", "infer", "inferring"}

(* Every clip gets through its stages, whatever fails to load.             *)
Through == \A j \in Clips : at[j] = "done"
ClipsGetThrough == []<>Through

=============================================================================
