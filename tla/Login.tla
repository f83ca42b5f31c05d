------------------------------- MODULE Login -------------------------------
(***************************************************************************)
(* Signing in to Blink: BlinkDownloader.connect with its cached token, the *)
(* two-factor prompt (_handle_2fa) that waits for a code from the web page *)
(* or from a file, the application's retries around it, and the page that  *)
(* submits a code and polls for the answer (stores/auth.ts).               *)
(***************************************************************************)
EXTENDS Integers

CONSTANTS
    MaxSubmissions,     \* bound: codes entered on the page
    MaxPrompts,         \* bound: two-factor prompts
    MaxRestarts,        \* bound: restarts of the process
    PromptTime          \* two_fa_timeout, in units of the deadline's clock

None == 0       \* no id, no code, no result

VARIABLES
    conn,       \* where connect() and its caller are
    state,      \* auth_state
    token,      \* AUTH_FILE: absent, or the device id saved in it
    device,     \* the device id in HARDWARE_ID_FILE, and the last one presented
    box,        \* the web code: its event, the prompt it was typed for, seq
    sending,    \* what send_2fa_code is awaiting: source, seq and prompt
    result,     \* two_fa_result_seq and two_fa_result_ok
    timer,      \* what is left of the prompt's deadline
    file,       \* TWO_FA_FILE exists
    page,       \* the page: the state it last saw, its form, pendingSeq
    left,       \* what is left of each bound
    prompts,    \* history: prompts opened
    refused     \* history: fresh logins refused since the process started

avars == <<conn, state, token, device, box, sending, result, timer, file,
           page, left, prompts, refused>>

-----------------------------------------------------------------------------
EmptyBox   == [event |-> "none", typed |-> None, seq |-> 0]
NotSending == [from |-> "nobody", seq |-> 0, typed |-> None]
NoResult   == [seq |-> 0, ok |-> "none"]

Init ==
    /\ conn = [pc |-> "calling", cached |-> FALSE]
    /\ state = "disconnected"
    /\ token = None
    /\ device = [file |-> None, presented |-> None, writable |-> TRUE]
    /\ box = EmptyBox
    /\ sending = NotSending
    /\ result = NoResult
    /\ timer = 0
    /\ file = FALSE
    /\ page = [sees |-> "disconnected", form |-> "idle", pending |-> 0]
    /\ left = [submit |-> MaxSubmissions, prompt |-> MaxPrompts,
               restart |-> MaxRestarts, file |-> 1, break |-> 1]
    /\ prompts = 0
    /\ refused = 0

Spend(kind) == left[kind] > 0 /\ left' = [left EXCEPT ![kind] = @ - 1]
Pc(p)       == conn.pc = p
Goes(p)     == conn' = [conn EXCEPT !.pc = p]

-----------------------------------------------------------------------------
(* connect.  The id of this installation is the one in its file, else the  *)
(* one the cached token carries, else a new one.                           *)
NewId == IF device.presented = 1 THEN 2 ELSE 1

DeviceId == IF device.file # None THEN device.file
            ELSE IF token # None THEN token ELSE NewId

Connect ==
    /\ Pc("calling")
    /\ state' = "authenticating"
    /\ conn' = [pc |-> "starting", cached |-> token # None]
    /\ device' = [device EXCEPT !.presented = DeviceId,
                                !.file = IF device.writable THEN DeviceId
                                                            ELSE @]
    /\ UNCHANGED <<token, box, sending, result, timer, file, page, left,
                   prompts, refused>>

(* The login went through.  The token is saved, with the id it was given.  *)
Connected ==
    /\ conn' = [conn EXCEPT !.pc = "connected"]
    /\ state' = "connected"
    /\ token' = device.presented

Started ==
    /\ Pc("starting")
    /\ Connected
    /\ UNCHANGED <<device, box, sending, result, timer, file, page, left,
                   prompts, refused>>

(* start() returns False: the token is dropped and the login tried afresh, *)
(* or, without a token, the credentials are wrong: no further attempt is   *)
(* made in this process.                                                   *)

AfterRefusal(cached) == IF cached THEN "calling" ELSE "locked"

Refused ==
    /\ IF conn.cached THEN token' = None ELSE token' = token
    /\ Goes(AfterRefusal(conn.cached))
    /\ state' = IF conn.cached THEN state ELSE "error"
    /\ refused' = IF conn.cached THEN refused ELSE refused + 1

StartRefused ==
    /\ Pc("starting") /\ refused < 2
    /\ Refused
    /\ UNCHANGED <<device, box, sending, result, timer, file, page, left,
                   prompts>>

(* Any other exception: the token is dropped, the application tries again  *)
(* after its interval.                                                     *)
StartFails ==
    /\ Pc("starting")
    /\ state' = "error"
    /\ token' = None
    /\ Goes("waiting")
    /\ UNCHANGED <<device, box, sending, result, timer, file, page, left,
                   prompts, refused>>

-----------------------------------------------------------------------------
(* _handle_2fa.                                                            *)

\* Mutant: the code of an earlier prompt is left where it is.
SameBox == [box EXCEPT !.event = IF @ = "none" THEN "clear" ELSE @]

FreshBox == [box EXCEPT !.event = "clear", !.typed = None]

Prompt ==
    /\ Pc("starting")
    /\ Spend("prompt")
    /\ Goes("prompt")
    /\ state' = "needs_2fa"
    /\ box' = FreshBox
    /\ result' = [seq |-> box.seq, ok |-> "none"]
    /\ timer' = PromptTime
    /\ prompts' = prompts + 1
    /\ UNCHANGED <<token, device, sending, file, page, refused>>

AnswerSeq(b) == b.seq

(* The web code goes first, then the file's.  seq is read before either.   *)
TakeCode ==
    /\ Pc("prompt") /\ timer > 0
    /\ \/ /\ box.event = "set"
          /\ sending' = [from |-> "web", seq |-> AnswerSeq(box), typed |-> box.typed]
          /\ box' = [box EXCEPT !.event = "clear", !.typed = None]
          /\ file' = file
       \/ /\ box.event # "set" /\ file
          /\ sending' = [from |-> "file", seq |-> AnswerSeq(box), typed |-> None]
          /\ file' = FALSE
          /\ box' = box
    /\ Goes("sending")
    /\ UNCHANGED <<state, token, device, result, timer, page, left, prompts,
                   refused>>

CodeAccepted ==
    /\ Pc("sending")
    /\ result' = [seq |-> sending.seq, ok |-> "yes"]
    /\ sending' = NotSending
    /\ \/ Connected /\ UNCHANGED refused
       \/ refused < 2 /\ Refused        \* accepted, but without an account
    /\ UNCHANGED <<device, box, timer, file, page, left, prompts>>

CodeRejected ==
    /\ Pc("sending")
    /\ result' = [seq |-> sending.seq, ok |-> "no"]
    /\ sending' = NotSending
    /\ Goes("prompt")
    /\ UNCHANGED <<state, token, device, box, timer, file, page, left,
                   prompts, refused>>

(* The deadline is read at the top of the loop only.                       *)
PromptExpires ==
    /\ Pc("prompt") /\ timer = 0
    /\ state' = "error"
    /\ Goes("waiting")
    /\ UNCHANGED <<token, device, box, sending, result, timer, file, page,
                   left, prompts, refused>>

Tick ==
    /\ conn.pc \in {"prompt", "sending"} /\ timer > 0
    /\ timer' = timer - 1
    /\ UNCHANGED <<conn, state, token, device, box, sending, result, file,
                   page, left, prompts, refused>>

-----------------------------------------------------------------------------
(* The application: wait and call connect again; a poll that meets an      *)
(* expired session does the same.  Wrong credentials wait for a restart.   *)
\* Mutant: the wait between two attempts begins again at its end.
WaitOn == "waiting"

AfterWait == "calling"

Retry ==
    /\ Pc("waiting")
    /\ Goes(AfterWait)
    /\ UNCHANGED <<state, token, device, box, sending, result, timer, file,
                   page, left, prompts, refused>>

SessionBreaks ==
    /\ Pc("connected")
    /\ Spend("break")
    /\ Goes("calling")
    /\ UNCHANGED <<state, token, device, box, sending, result, timer, file,
                   page, prompts, refused>>

Restart ==
    /\ Spend("restart")
    /\ conn' = [pc |-> "calling", cached |-> FALSE]
    /\ state' = "disconnected"
    /\ box' = EmptyBox /\ sending' = NotSending /\ result' = NoResult
    /\ timer' = 0 /\ refused' = 0
    /\ \/ device' = device
       \/ device.file = None /\ device' = [device EXCEPT !.writable = ~@]
    /\ UNCHANGED <<token, file, page, prompts>>

-----------------------------------------------------------------------------
(* The page.  Its form is open while a prompt is what it last saw.  A code *)
(* is typed for the prompt that is open by then; if none is, it is dropped *)
(* when the next one opens.                                                *)
Submit ==
    /\ page.sees = "needs_2fa" /\ page.form = "idle"
    /\ Spend("submit")
    /\ box' = [event |-> IF box.event = "none" THEN "none" ELSE "set",
               typed |-> prompts, seq |-> box.seq + 1]
    /\ page' = [page EXCEPT !.form = "submitted", !.pending = box.seq + 1]
    /\ UNCHANGED <<conn, state, token, device, sending, result, timer, file,
                   prompts, refused>>

WriteFile ==
    /\ Spend("file")
    /\ file' = TRUE
    /\ UNCHANGED <<conn, state, token, device, box, sending, result, timer,
                   page, prompts, refused>>

(* check(), every three seconds.                                           *)
Answered(p) == p.pending # 0 /\ result.seq = p.pending

SeesPrompt ==
    LET p == IF page.sees = "needs_2fa" THEN page ELSE [page EXCEPT !.pending = 0]
    IN  IF Answered(p)
        THEN [sees |-> "needs_2fa", pending |-> 0,
              form |-> IF result.ok = "no" THEN "idle" ELSE p.form]
        ELSE [p EXCEPT !.sees = "needs_2fa"]

Poll ==
    /\ page' = IF state = "needs_2fa" THEN SeesPrompt
               ELSE [page EXCEPT !.sees = state, !.pending = 0]
    /\ page' # page
    /\ UNCHANGED <<conn, state, token, device, box, sending, result, timer,
                   file, left, prompts, refused>>

(* Opening the page anew.                                                  *)
Reload ==
    /\ page.form = "submitted"
    /\ page' = [sees |-> state, form |-> "idle", pending |-> 0]
    /\ UNCHANGED <<conn, state, token, device, box, sending, result, timer,
                   file, left, prompts, refused>>

-----------------------------------------------------------------------------
ConnectStep ==
    Connect \/ StartRefused \/ StartFails \/ Prompt \/ Retry
    \/ TakeCode \/ CodeAccepted \/ CodeRejected \/ PromptExpires

(* Signed in, the application polls; locked, it sleeps until a restart.    *)
Settled == conn.pc \in {"connected", "locked"} /\ UNCHANGED avars

Next ==
    \/ ConnectStep \/ Settled \/ Started \/ Tick
    \/ SessionBreaks \/ Restart
    \/ Submit \/ WriteFile \/ Poll \/ Reload

Spec == Init /\ [][Next]_avars

-----------------------------------------------------------------------------
(* While a code is with Blink, its event is armed and a prompt is open.    *)
LoginTypeOK ==
    /\ Pc("sending") <=> sending.from # "nobody"
    /\ conn.pc \in {"prompt", "sending"} => state = "needs_2fa"
    /\ result.seq <= box.seq

(* A code goes to Blink for the prompt it was typed for, never for a later *)
(* one: "fresh event for this authentication attempt".                     *)
NoStaleCode == sending.from = "web" => sending.typed = prompts

(* Blink refuses these credentials at most once before someone restarts:   *)
(* more attempts "would trigger Blink's lockout protection".               *)
NoLockout == refused <= 1

(* Retries and restarts look like one device to Blink for as long as its   *)
(* id can be written down.                                                 *)
SameDevice ==
    device'.presented # device.presented =>
      device.presented = None \/ ~device.writable \/ device.file = None

(* What these rest on: a code that waits while a prompt is open was typed  *)
(* for it; a refused login is the process's last; and an id that could be  *)
(* written down is the one Blink has seen.                                 *)
LoginShape ==
    /\ conn \in [pc : {"calling", "starting", "connected", "locked", "waiting",
                      "prompt", "sending"},
                cached : BOOLEAN]
    /\ box \in [event : {"none", "clear", "set"}, typed : Nat, seq : Nat]
    /\ sending \in [from : {"nobody", "web", "file"}, seq : Nat, typed : Nat]
    /\ result.seq \in Nat /\ prompts \in Nat /\ token \in {None, 1, 2}
    /\ device \in [file : {None, 1, 2}, presented : {None, 1, 2},
                   writable : BOOLEAN]

WaitingCodeFits ==
    conn.pc \in {"prompt", "sending"} /\ box.event = "set" => box.typed = prompts

AnswersAreOfCodes == sending.seq <= box.seq

RefusalIsLast == refused = 0 \/ (refused = 1 /\ conn.pc = "locked")

WrittenIsPresented ==
    device.file # None /\ device.presented # None =>
        device.file = device.presented

IInv ==
    /\ LoginShape /\ LoginTypeOK /\ NoStaleCode /\ WaitingCodeFits
    /\ AnswersAreOfCodes /\ RefusalIsLast /\ WrittenIsPresented

(* The loop runs, the interval passes, and Blink does not refuse or fail a *)
(* login for ever.                                                         *)
LoginFairness == WF_avars(ConnectStep) /\ WF_avars(Tick) /\ SF_avars(Started)

FairSpec == Spec /\ LoginFairness

(* No prompt stays open for ever, and the add-on signs in by itself again  *)
(* unless its credentials are wrong or a prompt expects its user.          *)
SignedIn == conn.pc \in {"connected", "locked"}
SignsInAgain == []<>~Pc("prompt") /\ []<>SignedIn

=============================================================================
