------------------------------- MODULE Feedback -------------------------------
(***************************************************************************)
(* What people say about a verdict (verdict_feedback.py, alert_actions.py, *)
(* database/learning.py): thumbs in the Library, "Not a threat" on a phone *)
(* alert, and the training run that uses them up.  A clip may be analyzed  *)
(* again between any two steps, and two people may answer at once.         *)
(***************************************************************************)
EXTENDS Integers, FiniteSets

CONSTANTS Clips, People, Limit,           \* Limit: rows of one training run
          MaxAnswers, MaxAnalyses, MaxRuns

VARIABLES verdict,   \* [clip -> "none", "flagged" or "clear"]
          rows,      \* analysis_feedback: set of [id, clip, was, correct, corrected, trained, meant, tapped]
          answering, \* [person -> the answer under way]
          run,       \* the training run: [on, examples]
          shown,     \* history: the <<id, label>> a run has trained on
          changed,   \* history: clips analyzed again while an answer was under way
          crossed,   \* history: clips with two answers stored across each other
          acts
feedbackVars == <<verdict, rows, answering, run, shown, changed, crossed, acts>>

Quiet == [op |-> "none", clip |-> CHOOSE c \in Clips : TRUE, correct |-> FALSE, tapped |-> FALSE, was |-> "none", meant |-> "none", doomed |-> {}]
Other(v) == IF v = "flagged" THEN "clear" ELSE "flagged"
Of(c) == {r \in rows : r.clip = c}

Init ==
    /\ verdict \in [Clips -> {"none", "flagged"}] /\ rows = {} /\ shown = {} /\ changed = {} /\ crossed = {}
    /\ answering = [p \in People |-> Quiet] /\ run = [on |-> FALSE, examples |-> {}]
    /\ acts = [answers |-> 0, analyses |-> 0, runs |-> 0, stored |-> 0]

-----------------------------------------------------------------------------
(* A verdict is replaced whenever the clip is analyzed again.              *)
Analyzed(c, v) ==
    /\ acts.analyses < MaxAnalyses /\ v # verdict[c]
    /\ verdict' = [verdict EXCEPT ![c] = v] /\ acts' = [acts EXCEPT !.analyses = @ + 1]
    /\ changed' = IF \E p \in People : answering[p].op # "none" /\ answering[p].clip = c THEN changed \cup {c} ELSE changed
    /\ UNCHANGED <<rows, answering, run, shown, crossed>>

Begin(p, answer) ==
    /\ answering[p].op = "none" /\ acts.answers < MaxAnswers
    /\ answering' = [answering EXCEPT ![p] = answer] /\ acts' = [acts EXCEPT !.answers = @ + 1]
    /\ UNCHANGED <<verdict, rows, run, shown, changed, crossed>>

(* In the Library, about the verdict on the page.                          *)
Thumb(p, c, up) ==
    /\ verdict[c] # "none"
    /\ Begin(p, [Quiet EXCEPT !.op = "judged", !.clip = c, !.correct = up,
                              !.meant = IF up THEN verdict[c] ELSE Other(verdict[c])])

(* On the phone, about the alert.                                          *)
Tap(p, c) == Begin(p, [Quiet EXCEPT !.op = "tapped", !.clip = c, !.tapped = TRUE, !.meant = "clear"])

(* With a verdict that is clear by now, "not a threat" agrees.             *)
TapAgrees(v) == v = "clear"

(* record_not_a_threat: the first look at the stored verdict.              *)
JudgeTap(p) ==
    LET a == answering[p]
        v == verdict[a.clip]
    IN /\ a.op = "tapped"
       /\ answering' = [answering EXCEPT ![p] = IF v = "none" THEN Quiet ELSE [a EXCEPT !.op = "judged", !.correct = TapAgrees(v)]]
       /\ UNCHANGED <<verdict, rows, run, shown, changed, crossed, acts>>

(* record_verdict_feedback: its own look.                                  *)
Record(p) ==
    LET a == answering[p]
        v == verdict[a.clip]
    IN /\ a.op = "judged"
       /\ answering' = [answering EXCEPT ![p] = IF v = "none" THEN Quiet ELSE [a EXCEPT !.op = "derived", !.was = v]]
       /\ UNCHANGED <<verdict, rows, run, shown, changed, crossed, acts>>

Doomed(c) == {r.id : r \in Of(c)}

(* add_feedback: one transaction, whose delete sees what is committed.     *)
Replace(p) ==
    LET a == answering[p]
    IN /\ a.op = "derived"
       /\ answering' = [answering EXCEPT ![p] = [a EXCEPT !.op = "replacing", !.doomed = Doomed(a.clip)]]
       /\ crossed' = IF \E q \in People : answering[q].op = "replacing" /\ answering[q].clip = a.clip
                       THEN crossed \cup {a.clip} ELSE crossed
       /\ UNCHANGED <<verdict, rows, run, shown, changed, acts>>

(* A thumbs-down can only mean the other verdict.                          *)
Corrected(a) == IF a.correct THEN "none" ELSE Other(a.was)

Row(a, id) == [id |-> id, clip |-> a.clip, was |-> a.was, correct |-> a.correct, corrected |-> Corrected(a),
               trained |-> FALSE, meant |-> a.meant, tapped |-> a.tapped]

Commit(p) ==
    LET a == answering[p]
    IN /\ a.op = "replacing"
       /\ rows' = {r \in rows : r.id \notin a.doomed} \cup {Row(a, acts.stored + 1)}
       /\ answering' = [answering EXCEPT ![p] = Quiet] /\ acts' = [acts EXCEPT !.stored = @ + 1]
       /\ UNCHANGED <<verdict, run, shown, changed, crossed>>

(* Taken back entirely.                                                    *)
Retract(c) ==
    /\ Of(c) # {} /\ rows' = rows \ Of(c)
    /\ UNCHANGED <<verdict, answering, run, shown, changed, crossed, acts>>

-----------------------------------------------------------------------------
Label(r) == IF r.corrected = "none" THEN r.was ELSE r.corrected

(* The oldest not trained on, each with a frame of its clip if there is    *)
(* one.                                                                    *)
Pending == {r \in rows : ~r.trained}
Oldest == {r \in Pending : Cardinality({q \in Pending : q.id < r.id}) < Limit}

StartTraining(usable) ==
    /\ ~run.on /\ Pending # {} /\ acts.runs < MaxRuns
    /\ run' = [on |-> TRUE, examples |-> {r \in Oldest : r.clip \in usable}]
    /\ acts' = [acts EXCEPT !.runs = @ + 1]
    /\ UNCHANGED <<verdict, rows, answering, shown, changed, crossed>>

\* Mutant: what there is to say about those clips counts as used.
ByClip(done) == {r.id : r \in {q \in rows : q.clip \in {d.clip : d \in done}}}

Used(done) == {d.id : d \in done}

(* Marked once the whole run is over: those Moondream made a step with.    *)
EndTraining(done) ==
    /\ run.on /\ run' = [on |-> FALSE, examples |-> {}]
    /\ shown' = shown \cup {[id |-> d.id, label |-> Label(d), was |-> d.was, correct |-> d.correct] : d \in done}
    /\ rows' = {[r EXCEPT !.trained = @ \/ r.id \in Used(done)] : r \in rows}
    /\ UNCHANGED <<verdict, answering, changed, crossed, acts>>

Next ==
    \/ \E c \in Clips : Retract(c) \/ \E v \in {"flagged", "clear"} : Analyzed(c, v)
    \/ \E p \in People :
          \/ JudgeTap(p) \/ Record(p) \/ Replace(p) \/ Commit(p)
          \/ \E c \in Clips : Tap(p, c) \/ \E up \in BOOLEAN : Thumb(p, c, up)
    \/ \E usable \in SUBSET Clips : StartTraining(usable)
    \/ \E done \in SUBSET run.examples : EndTraining(done)

Spec == Init /\ [][Next]_feedbackVars

-----------------------------------------------------------------------------
(* Whatever a clip's answer was, it is one row that says what the person   *)
(* meant, unless the clip was analyzed again or two people answered across *)
(* each other meanwhile.                                                   *)
OpinionKept ==
    \A c \in Clips :
        /\ c \notin crossed => Cardinality(Of(c)) <= 1
        /\ c \notin changed => \A r \in Of(c) : Label(r) = r.meant

(* A training run never teaches the verdict a person called wrong.         *)
NeverTowardMistake == \A s \in shown : ~s.correct => s.label # s.was

(* An answer given while a run is under way is not used up by it: what is  *)
(* marked was trained on, as it stands.                                    *)
FreshAnswersTrained ==
    \A r \in rows : r.trained => \E s \in shown : s.id = r.id /\ s.label = Label(r)

(* "Not a threat" on a phone is never stored as "should have been          *)
(* flagged".                                                               *)
NotAThreatNeverFlags == \A r \in rows : r.tapped => Label(r) = "clear"

(* What these rest on.  A row has a number of its own, of an answer that   *)
(* is stored; what a run has taken of a row stays true of it.              *)
Verdicts == {"flagged", "clear"}
Says(r) ==
    /\ DOMAIN r = {"id", "clip", "was", "correct", "corrected", "trained", "meant", "tapped"}
    /\ r.id \in 1..acts.stored /\ r.was \in Verdicts
    /\ r.corrected = IF r.correct THEN "none" ELSE Other(r.was)

FeedbackShape ==
    /\ verdict \in [Clips -> Verdicts \cup {"none"}]
    /\ acts.stored \in Nat /\ DOMAIN acts = {"answers", "analyses", "runs", "stored"}
    /\ DOMAIN answering = People
    /\ \A p \in People :
          /\ DOMAIN answering[p] = DOMAIN Quiet
          /\ answering[p].correct \in BOOLEAN
          /\ answering[p].op # "none" => answering[p].clip \in Clips
    /\ \A r \in rows : Says(r) /\ r.trained \in BOOLEAN
    /\ \A d \in run.examples : Says(d)

StaysTrue == \A d \in run.examples \cup rows, r \in rows : d.id = r.id => Label(d) = Label(r)

(* Whoever replaces a clip's answers has seen the one there is.            *)
OneAnswer ==
    \A c \in Clips \ crossed :
        /\ \A r, q \in Of(c) : r = q
        /\ \A p, q \in People :
              answering[p].op = "replacing" /\ answering[p].clip = c =>
                 /\ \A r \in Of(c) : r.id \in answering[p].doomed
                 /\ answering[q].op = "replacing" /\ answering[q].clip = c => q = p

(* An answer under way still says what the person meant.                   *)
Meaning(correct, was) == IF correct THEN was ELSE Other(was)
SaysWhatIsMeant(a) ==
    /\ a.op = "tapped" => a.meant = "clear"
    /\ a.op = "judged" => verdict[a.clip] # "none" /\ a.meant = Meaning(a.correct, verdict[a.clip])
    /\ a.op \in {"derived", "replacing"} => a.meant = Meaning(a.correct, a.was)
StillMeant ==
    \A p \in People :
        /\ answering[p].op \in {"derived", "replacing"} => answering[p].was \in Verdicts
        /\ answering[p].clip \notin changed => SaysWhatIsMeant(answering[p])

IInv ==
    /\ FeedbackShape /\ StaysTrue /\ OneAnswer /\ StillMeant
    /\ \A c \in Clips \ changed : \A r \in Of(c) : Label(r) = r.meant
    /\ NeverTowardMistake /\ FreshAnswersTrained
=============================================================================
