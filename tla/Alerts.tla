-------------------------------- MODULE Alerts --------------------------------
(***************************************************************************)
(* Alerts on their way to the enabled channels (notification_channels.py), *)
(* what they carry besides their text (rich_alerts.py), and the picture    *)
(* (alert_media.py).  A message is the set of its extras.  A receiver may  *)
(* refuse a message for one of them, and a reply may be lost before or     *)
(* after the message took effect.                                          *)
(***************************************************************************)
EXTENDS Integers, Sequences

Channels == {"phone", "email", "discord", "ha"}
Extras == {"image", "image_url", "open_path", "open_url", "action"}

(* What is sent, to whom: settings, the alert, the parts that can be had   *)
(* (a key frame, a stored copy of it, links, a signed button), and what    *)
(* goes wrong at the n-th post to each channel.                            *)
Message ==
    [about : {"clip", "clear clip", "battery", "test"}, enabled : SUBSET Channels, token : BOOLEAN,
     target : {"none", "companion", "group"}, mailbox : BOOLEAN, webhook : BOOLEAN,
     builder : {"none", "works", "raises"}, known : BOOLEAN, had : SUBSET Extras,
     dislikes : SUBSET (Extras \cup {"everything"}), lost : [1..2 -> {"no", "before", "after"}]]

Whole == [about |-> "clip", enabled |-> Channels, token |-> TRUE, target |-> "companion", mailbox |-> TRUE,
          webhook |-> TRUE, builder |-> "works", known |-> TRUE, had |-> Extras, dislikes |-> {},
          lost |-> [n \in 1..2 |-> "no"]]

(* Messages that differ from a whole one in their settings, in their parts *)
(* or in what happens to them.                                             *)
Alerts ==
    {[Whole EXCEPT !.about = about, !.enabled = on, !.token = token, !.target = target, !.mailbox = mail, !.webhook = mail] :
         about \in {"clip", "clear clip", "battery", "test"}, on \in SUBSET Channels, token \in BOOLEAN,
         target \in {"none", "companion", "group"}, mail \in BOOLEAN}
    \cup {[Whole EXCEPT !.enabled = on, !.builder = builder, !.known = known, !.had = had, !.dislikes = dislikes] :
              on \in {Channels, {"phone"}, {"phone", "discord"}, {"email"}}, builder \in {"none", "works", "raises"},
              known \in BOOLEAN, had \in SUBSET Extras, dislikes \in {{}, {"image_url"}, {"everything"}}}
    \cup {[Whole EXCEPT !.had = had, !.dislikes = dislikes, !.lost = lost] :
              had \in {{}, {"image"}, {"open_path", "open_url"}, Extras},
              dislikes \in {{}, {"image", "image_url"}, {"action"}, {"open_url"}, {"open_path", "image_url"}, {"everything"}},
              lost \in [1..2 -> {"no", "before", "after"}]}

Ready(x, ch) ==
    CASE ch = "phone"   -> x.token /\ x.target # "none"
      [] ch = "email"   -> x.mailbox
      [] ch = "discord" -> x.webhook
      [] ch = "ha"      -> x.token

PhoneIsCompanionApp(x) == "phone" \in x.enabled /\ x.token /\ x.target = "companion"
External(x) == x.enabled \cap {"email", "discord"} # {}

(* The key frame, extracted once if a channel will show it, and its copy   *)
(* in Home Assistant's media folder for the phone.                         *)
PictureExtras(x) ==
    {part \in x.had \cap {"image", "image_url"} :
        "image" \in x.had /\ IF part = "image" THEN External(x) ELSE PhoneIsCompanionApp(x)}

(* A clip without an id can neither be linked to nor answered.             *)
LinkExtras(x) ==
    {part \in x.had \cap {"open_path", "open_url", "action"} :
        x.known /\ IF part = "open_url" THEN External(x) ELSE PhoneIsCompanionApp(x)}

(* Each part fails on its own.                                             *)
Build(x) == PictureExtras(x) \cup LinkExtras(x)

(* Without a builder, and when it fails, the clip's id is left.            *)
BuildExtras(x) ==
    (IF x.builder = "works" THEN Build(x) ELSE {}) \cup (IF x.known THEN {"clip_id"} ELSE {})

(* Only alerts about clips have extras.                                    *)
Given(x) == IF x.about = "clip" THEN BuildExtras(x) ELSE {}

(* Only the companion app understands extras; a clip's later alert         *)
(* replaces an earlier rich one by its tag.                                *)
CompanionAppData(x) ==
    LET data == Given(x) \cap {"image_url", "open_path", "action"}
    IN IF x.target # "companion" \/ data = {} THEN {}
       ELSE data \cup (IF "clip_id" \in Given(x) THEN {"tag"} ELSE {})

(* Mail and Discord carry the picture itself and an absolute link.         *)
Attached(x) == Given(x) \cap {"image", "open_url"}

Refuses(x, message) == "everything" \in x.dislikes \/ message \cap x.dislikes # {}
Arrives(x, n, message) == x.lost[n] # "before" /\ ~Refuses(x, message)

(* What comes back for the n-th post to a channel: a status or None.       *)
Reply(x, n, message) ==
    IF x.lost[n] # "no" THEN "none" ELSE IF Refuses(x, message) THEN "refused" ELSE "accepted"

\* Mutant: whatever was not confirmed is sent again.
Unconfirmed(reply) == reply # "accepted"

(* A refused message is sent once more without what made it rich; one that *)
(* got no reply is not.                                                    *)
Again(reply) == reply = "refused"

SendMobile(x) ==
    LET data == CompanionAppData(x)
    IN IF data # {} /\ Again(Reply(x, 1, data)) THEN <<data, {}>> ELSE <<data>>

(* Discord's second attempt keeps the link.                                *)
SendDiscord(x) ==
    LET embed == Attached(x)
    IN IF "image" \in embed /\ Again(Reply(x, 1, embed)) THEN <<embed, embed \ {"image"}>> ELSE <<embed>>

SendEmail(x) == <<Attached(x)>>
SendHaNotification(x) == <<{}>>

(* A test goes to its channel whether it is enabled or not, an alert about *)
(* a clip only if it is suspicious.                                        *)
Addressed(x, ch) == x.about # "clear clip" /\ (ch \in x.enabled \/ x.about = "test") /\ Ready(x, ch)

(* The messages posted to a channel, in order.  The channels are served    *)
(* one after the other; none raises, so none keeps the next from its turn. *)
Dispatch(x, ch) ==
    CASE ~Addressed(x, ch) -> <<>>
      [] Addressed(x, ch) /\ ch = "phone"   -> SendMobile(x)
      [] Addressed(x, ch) /\ ch = "email"   -> SendEmail(x)
      [] Addressed(x, ch) /\ ch = "discord" -> SendDiscord(x)
      [] Addressed(x, ch) /\ ch = "ha"      -> SendHaNotification(x)

Copies(x, ch) == Len(SelectSeq([n \in DOMAIN Dispatch(x, ch) |-> Arrives(x, n, Dispatch(x, ch)[n])], LAMBDA there : there))

(* What the sender is told, and a test shows: the last reply.              *)
Confirmed(x, ch) ==
    LET posts == Dispatch(x, ch) IN posts # <<>> /\ Reply(x, Len(posts), posts[Len(posts)]) = "accepted"

(* What each channel is prepared to go without.                            *)
Bearable(ch) == CASE ch = "phone" -> Extras [] ch = "discord" -> {"image"} [] OTHER -> {}

(* No channel shows one alert twice, also when its answer is lost, and     *)
(* what is reported as sent has arrived.                                   *)
NeverTwice(x) == \A ch \in Channels : Copies(x, ch) <= 1 /\ (Confirmed(x, ch) => Copies(x, ch) = 1)

(* An alert arrives whatever extras are missing and, where they can be     *)
(* left out, refused.                                                      *)
ArrivesAnyway(x) ==
    \A ch \in x.enabled :
        LET posts == Dispatch(x, ch) IN
        (posts # <<>> /\ x.lost = [n \in 1..2 |-> "no"] /\ "everything" \notin x.dislikes
            /\ posts[1] \cap x.dislikes \subseteq Bearable(ch)) => Copies(x, ch) = 1

(* What a channel is sent does not depend on the others that are enabled:  *)
(* a part gathered for one neither appears at nor is missing from another. *)
ChannelsApart(x) ==
    \A ch \in x.enabled : Dispatch(x, ch) = Dispatch([x EXCEPT !.enabled = {ch}], ch)

-----------------------------------------------------------------------------
(* The picture.  A detection has a label, the area of its box, how sure it *)
(* is in hundredths and the sampled frame it is in, the i-th here; when    *)
(* detection gives no picture, `frames` are taken a second apart, and      *)
(* motion[i] is the change from the i-th to the next.                      *)
Detection == [label : {"person", "car", "cat"}, area : {1, 4}, sure : {39, 40, 90}]
Pictures ==
    {p \in [seen : UNION {[1..n -> Detection] : n \in 0..2}, motion : UNION {[1..n -> 0..2] : n \in 0..2},
           frames : 0..3, sampled : BOOLEAN, inClip : BOOLEAN, comparable : BOOLEAN] :
        Len(p.motion) = IF p.frames = 0 THEN 0 ELSE p.frames - 1}

Priority(label) == CASE label = "person" -> 0 [] label = "car" -> 1 [] OTHER -> 2
MinSubjectConfidence == 40

(* d makes a better picture than e.                                        *)
Outranks(d, e) ==
    \/ Priority(d.label) < Priority(e.label)
    \/ Priority(d.label) = Priority(e.label) /\ d.area * d.sure > e.area * e.sure

Confident(p) == {i \in DOMAIN p.seen : p.seen[i].sure >= MinSubjectConfidence}

(* The first of the most prominent; 0 if detection has nothing to go on.   *)
SubjectMoment(p) ==
    IF ~p.sampled \/ Confident(p) = {} THEN 0
    ELSE CHOOSE i \in Confident(p) : \A j \in Confident(p) :
             ~Outranks(p.seen[j], p.seen[i]) /\ (Outranks(p.seen[i], p.seen[j]) \/ i <= j)

(* The frame after the largest change; the middle one if frames cannot be  *)
(* compared.                                                               *)
BusiestFrame(p) ==
    CASE p.frames = 1 -> 1
      [] p.frames > 1 /\ ~p.comparable -> p.frames \div 2 + 1
      [] OTHER -> 1 + (CHOOSE i \in DOMAIN p.motion : \A j \in DOMAIN p.motion :
                           p.motion[j] < p.motion[i] \/ (p.motion[j] = p.motion[i] /\ i <= j))

(* A moment that gives no frame, being past the end of the clip, is passed *)
(* over.                                                                   *)
KeyFrame(p) ==
    CASE SubjectMoment(p) # 0 /\ p.inClip -> [of |-> "subject", at |-> SubjectMoment(p)]
      [] (SubjectMoment(p) = 0 \/ ~p.inClip) /\ p.frames = 0 -> [of |-> "nothing", at |-> 0]
      [] OTHER -> [of |-> "motion", at |-> BusiestFrame(p)]

(* The picture shows a person whenever a confident one was detected in     *)
(* reach, never one less prominent than another, and without a subject     *)
(* never the still empty first frame of several.                           *)
PictureShowsSubject(p) ==
    LET shown == KeyFrame(p)
        people == {i \in DOMAIN p.seen : p.seen[i].label = "person" /\ p.seen[i].sure >= 40}
    IN /\ (p.sampled /\ p.inClip /\ people # {}) =>
              /\ shown.of = "subject" /\ shown.at \in people
              /\ \A i \in people : p.seen[i].area > p.seen[shown.at].area => p.seen[i].sure < p.seen[shown.at].sure
       /\ (shown.of = "motion" /\ p.frames > 1) => shown.at # 1
       /\ shown.of = "nothing" => p.frames = 0
=============================================================================
