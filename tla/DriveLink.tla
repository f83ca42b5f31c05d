----------------------------- MODULE DriveLink -----------------------------
(***************************************************************************)
(* The Google Drive connection (gdrive_client.py): the device flow a       *)
(* Storage-tab request starts and a task polls (media_server/storage.py),  *)
(* the refresh that any call to Drive may need first, disconnecting, and   *)
(* the credentials file that a restart reads.  Each of them awaits Google  *)
(* with the client's fields as they were, and writes them as they are then.*)
(***************************************************************************)
EXTENDS Integers

CONSTANTS
    MaxGrants,      \* bound: refresh tokens Google gives out
    MaxRequests     \* bound: Connect and Disconnect pressed, and restarts

NoToken == 0

VARIABLES
    client,     \* refresh token, valid access token, connected
    disk,       \* CREDENTIALS_FILE: absent, or the refresh token in it
    google,     \* the grants given out, and those revoked
    flow,       \* the tasks that poll for a token: where each one is
    shown,      \* _gdrive_connect_state
    refresh,    \* a call that awaits a refresh, with the token it sent
    leaving,    \* a disconnect that awaits the revocation of a token
    requests    \* what is left of MaxRequests

dvars == <<client, disk, google, flow, shown, refresh, leaving, requests>>

-----------------------------------------------------------------------------
Nothing == [refresh |-> NoToken, access |-> FALSE, connected |-> FALSE]
Absent  == [exists |-> FALSE, refresh |-> NoToken]
Quiet   == [on |-> FALSE, token |-> NoToken]
Flows   == {"first", "second"}

Init ==
    /\ client = Nothing
    /\ disk = Absent
    /\ google = [given |-> 0, revoked |-> {}]
    /\ flow = [f \in Flows |-> "none"]
    /\ shown = "idle"
    /\ refresh = Quiet
    /\ leaving = Quiet
    /\ requests = MaxRequests

Ask == requests > 0 /\ requests' = requests - 1

(* _persist_credentials, whatever the fields hold by now.                  *)
Persist(c) == disk' = [exists |-> TRUE, refresh |-> c.refresh]

ClearCredentials == client' = Nothing /\ disk' = Absent

-----------------------------------------------------------------------------
(* A Connect that finds another one pending joins it.                      *)
Connect(f) ==
    /\ Ask
    /\ shown # "pending" /\ flow[f] = "none"
    /\ flow' = [flow EXCEPT ![f] = "polling"]
    /\ shown' = "pending"
    /\ UNCHANGED <<client, disk, google, refresh, leaving>>

(* The user has signed in: the tokens are set, and saved once the account  *)
(* has told its address.                                                   *)
Polled(f) ==
    /\ flow[f] = "polling" /\ google.given < MaxGrants
    /\ google' = [google EXCEPT !.given = @ + 1]
    /\ client' = [refresh |-> google.given + 1, access |-> TRUE,
                  connected |-> TRUE]
    /\ flow' = [flow EXCEPT ![f] = "asking"]
    /\ UNCHANGED <<disk, shown, refresh, leaving, requests>>

Answered(f) ==
    /\ flow[f] = "asking"
    /\ Persist(client)
    /\ flow' = [flow EXCEPT ![f] = "none"]
    /\ shown' = "connected"
    /\ UNCHANGED <<client, google, refresh, leaving, requests>>

(* Denied, expired, an error, or the deadline.                             *)
FlowFails(f) ==
    /\ flow[f] = "polling"
    /\ flow' = [flow EXCEPT ![f] = "none"]
    /\ shown' \in {"expired", "error"}
    /\ UNCHANGED <<client, disk, google, refresh, leaving, requests>>

-----------------------------------------------------------------------------
(* _ensure_valid_token, from any call to Drive.                            *)
AccessExpires ==
    /\ client.access
    /\ client' = [client EXCEPT !.access = FALSE]
    /\ UNCHANGED <<disk, google, flow, shown, refresh, leaving, requests>>

BeginRefresh ==
    /\ ~refresh.on /\ client.refresh # NoToken /\ ~client.access
    /\ refresh' = [on |-> TRUE, token |-> client.refresh]
    /\ UNCHANGED <<client, disk, google, flow, shown, leaving, requests>>

KeepOld(old, new) == IF new = NoToken THEN old ELSE new

(* Google seldom rotates the refresh token.                                *)
Refreshed ==
    /\ refresh.on /\ refresh.token \notin google.revoked
    /\ \E new \in {NoToken, google.given + 1} :
         /\ new <= MaxGrants
         /\ google' = IF new = NoToken THEN google
                      ELSE [google EXCEPT !.given = new]
         /\ client' = [client EXCEPT !.refresh = KeepOld(@, new),
                                     !.access = TRUE]
         /\ Persist(client')
    /\ refresh' = Quiet
    /\ UNCHANGED <<flow, shown, leaving, requests>>

(* invalid_grant: the connection is dead.  Any other failure changes       *)
(* nothing.                                                                *)
RefreshFails ==
    /\ refresh.on
    /\ IF refresh.token \in google.revoked THEN ClearCredentials
                                           ELSE UNCHANGED <<client, disk>>
    /\ refresh' = Quiet
    /\ UNCHANGED <<google, flow, shown, leaving, requests>>

(* The user revokes the access in their Google account.                    *)
Revoke ==
    /\ Ask
    /\ google.given > 0
    /\ google' = [google EXCEPT !.revoked = 1..google.given]
    /\ UNCHANGED <<client, disk, flow, shown, refresh, leaving>>

-----------------------------------------------------------------------------
(* disconnect: revoke what there is, then clear whatever the reply.        *)
BeginDisconnect ==
    /\ Ask
    /\ ~leaving.on /\ client.connected
    /\ leaving' = [on |-> TRUE, token |-> client.refresh]
    /\ UNCHANGED <<client, disk, google, flow, shown, refresh>>

Disconnected ==
    /\ leaving.on
    /\ \/ google' = [google EXCEPT !.revoked = @ \cup {leaving.token}]
       \/ google' = google
    /\ ClearCredentials
    /\ shown' = "idle"
    /\ leaving' = Quiet
    /\ UNCHANGED <<flow, refresh, requests>>

Restart ==
    /\ Ask
    /\ client' = [refresh |-> disk.refresh, access |-> FALSE,
                  connected |-> disk.refresh # NoToken]
    /\ flow' = [f \in Flows |-> "none"]
    /\ shown' = "idle"
    /\ refresh' = Quiet /\ leaving' = Quiet
    /\ UNCHANGED <<disk, google>>

(* Nothing asks anything any more.                                         *)
Idle == requests = 0 /\ UNCHANGED dvars

Next ==
    \/ \E f \in Flows : Connect(f) \/ Polled(f) \/ Answered(f) \/ FlowFails(f)
    \/ AccessExpires \/ BeginRefresh \/ Refreshed \/ RefreshFails
    \/ Revoke \/ BeginDisconnect \/ Disconnected \/ Restart \/ Idle

Spec == Init /\ [][Next]_dvars

-----------------------------------------------------------------------------
(* There is no half-connected limbo: a client that calls itself connected  *)
(* has a token to refresh with, whatever interleaves.                      *)
NoLimbo == client.connected => client.refresh # NoToken

(* A restart finds the connection the process had: the file carries the    *)
(* token in use, but for the moment in which the address is asked for.     *)
FileMatchesClient ==
    disk.refresh = client.refresh \/ \E f \in Flows : flow[f] = "asking"

-----------------------------------------------------------------------------
(* The inductive invariant: tokens given out are told from NoToken.        *)
LinkShapes ==
    /\ client \in [refresh : Nat, access : BOOLEAN, connected : BOOLEAN]
    /\ disk \in [exists : BOOLEAN, refresh : Nat]
    /\ google \in [given : Nat, revoked : SUBSET Nat]
    /\ flow \in [Flows -> {"none", "polling", "asking"}]
    /\ refresh \in [on : BOOLEAN, token : Nat]
    /\ leaving \in [on : BOOLEAN, token : Nat]

IInv == LinkShapes /\ NoLimbo /\ FileMatchesClient

=============================================================================
