---------------------------- MODULE LicenseSystem ----------------------------
(***************************************************************************)
(* The license service: the server and its reaper threads, the database    *)
(* they share with its own events, the clients, and the clock that makes   *)
(* an entry of currentClients time out.                                    *)
(***************************************************************************)
EXTENDS LicenseServer, LicenseClient

CONSTANTS
  FreshIds,    \* uid(gen) never repeats an id that somebody still remembers
  Timely       \* a running client is back before its entry is 1.7 s old

ASSUME SystemAssumption == FreshIds \in BOOLEAN /\ Timely \in BOOLEAN

vars == <<serverVars, socketVars, dbVars, clientVars>>

TypeOK == DBTypeOK /\ SocketTypeOK /\ ServerTypeOK /\ ClientTypeOK

Init == DBInit /\ SocketInit /\ ServerInit /\ ClientInit

-----------------------------------------------------------------------------
\* the ids a client, a message under way, a session or a queue still holds
Remembered ==
  {uid[c] : c \in Clients}
    \cup {inbox[c].arg : c \in {c \in Clients : inbox[c] # None}}
    \cup {outbox[s].arg : s \in {s \in Sessions : outbox[s] # None}}
    \cup {sess[s].id : s \in Sessions}
    \cup UNION {reap[r].q1 : r \in Reapers}

OfferAnyId(s) ==
  /\ \E id \in TempIds : (FreshIds => id \notin Remembered) /\ OfferId(s, id)
  /\ UNCHANGED clientVars

\* the entry id is the one a running client is going to name, or is naming
InUse(id) ==
  \E c \in Clients :
    /\ cpc[c] # "off"
    /\ \/ uid[c] = id
       \/ conn[c] # None /\ outbox[conn[c]] # None /\ outbox[conn[c]].arg = id

\* passed(Period::Second, 1.7, ...) becomes true of the entry
Age(id) ==
  /\ id \in Tracked /\ ~currentClients[id].stale
  /\ Timely => ~InUse(id)
  /\ currentClients' = [currentClients EXCEPT ![id].stale = TRUE]
  /\ UNCHANGED <<up, isNotUse, m, sess, reap, socketVars, dbVars, clientVars>>

\* acc->accept: the connection gets a thread of client_session
Accept(c, s) ==
  /\ up
  /\ sess[s].pc = "idle"
  /\ Connect(c, s)
  /\ sess' = [sess EXCEPT ![s].pc = "read"]
  /\ UNCHANGED <<up, currentClients, isNotUse, m, reap, dbVars>>

NotAccepted(c) ==
  /\ ~up \/ "net" \in Faults
  /\ ConnectFails(c)
  /\ UNCHANGED <<serverVars, dbVars>>

\* what a session does without waiting for m
SessionStep(s) ==
  \/ ReadKey(s) /\ UNCHANGED clientVars
  \/ ReadKeyFails(s) /\ UNCHANGED clientVars
  \/ FindUser(s) /\ UNCHANGED clientVars
  \/ Watch(s) /\ UNCHANGED clientVars
  \/ RefuseKey(s) /\ UNCHANGED clientVars
  \/ ExchangeFails(s) /\ UNCHANGED clientVars
  \/ HandleRequest(s) /\ UNCHANGED clientVars
  \/ HandleCheck(s) /\ UNCHANGED clientVars
  \/ HandleRelease(s) /\ UNCHANGED clientVars
  \/ HandleUnknown(s) /\ UNCHANGED clientVars
  \/ Reply(s) /\ UNCHANGED clientVars
  \/ ReplyFails(s) /\ UNCHANGED clientVars

\* what a reaper does without waiting for m
ReaperStep(r) ==
  \/ StartReaper(r) /\ UNCHANGED clientVars
  \/ LoopTest(r) /\ UNCHANGED clientVars
  \/ Drain(r) /\ UNCHANGED clientVars
  \/ FinishSweep(r) /\ UNCHANGED clientVars

TakeTurn(r) == Sweep(r) /\ UNCHANGED clientVars

\* a turn that finds MySQL, if there is anything to release
TurnConnects(r) == TakeTurn(r) /\ (reap'[r].pc = "loop" => reap'[r].q1 = {})

Recover == Restart /\ UNCHANGED clientVars

\* what a client does once it is connected
DialogueStep(c) ==
  \/ SendKey(c) /\ UNCHANGED <<serverVars, dbVars>>
  \/ ExchangeError(c) /\ UNCHANGED <<serverVars, dbVars>>
  \/ KeyGood(c) /\ UNCHANGED <<serverVars, dbVars>>
  \/ KeyRefused(c) /\ UNCHANGED <<serverVars, dbVars>>
  \/ LicenseGood(c) /\ UNCHANGED <<serverVars, dbVars>>
  \/ LicenseRefused(c) /\ UNCHANGED <<serverVars, dbVars>>

\* what no fairness is assumed of
Environment ==
  \/ Crash /\ UNCHANGED clientVars
  \/ StartAnother /\ UNCHANGED clientVars
  \/ \E s \in Sessions : FindUserFails(s) /\ UNCHANGED clientVars
  \/ \E c \in Clients : Start(c) /\ UNCHANGED <<serverVars, dbVars>>
  \/ \E c \in Clients : Vanish(c) /\ UNCHANGED <<serverVars, dbVars>>
  \/ \E c \in Clients : NetworkReset(c) /\ UNCHANGED <<serverVars, dbVars>>
  \/ \E c \in Clients : NotAccepted(c)
  \/ \E c \in Clients, s \in Sessions : Accept(c, s)

Tables ==
  \/ \E l \in Licenses : Lapse(l) /\ UNCHANGED <<serverVars, socketVars, clientVars>>
  \/ CheckLicenseValidity /\ UNCHANGED <<serverVars, socketVars, clientVars>>
  \/ \E S \in SUBSET Licenses :
       DeleteExpiredLicense(S) /\ UNCHANGED <<serverVars, socketVars, clientVars>>
  \/ \E l \in Licenses : RemoveLicense(l) /\ UNCHANGED <<serverVars, socketVars, clientVars>>
  \/ \E l \in Licenses : ExtendLicense(l) /\ UNCHANGED <<serverVars, socketVars, clientVars>>
  \/ \E l \in Licenses : ReviveLicense(l) /\ UNCHANGED <<serverVars, socketVars, clientVars>>
  \/ \E k, new \in Keys :
       KeyReplacement(k, new) /\ UNCHANGED <<serverVars, socketVars, clientVars>>

Next ==
  \/ \E s \in Sessions : SessionStep(s) \/ OfferAnyId(s)
  \/ \E r \in Reapers : ReaperStep(r) \/ TakeTurn(r)
  \/ \E id \in TempIds : Age(id)
  \/ \E c \in Clients : DialogueStep(c)
  \/ Recover
  \/ Environment
  \/ Tables

Spec == Init /\ [][Next]_vars

(***************************************************************************)
(* Fairness.  A thread that can run does; a thread waiting for m gets it   *)
(* when m is free again and again (SF: every holder gives it back and then *)
(* ends or sleeps a second); a connected client goes on with the dialogue  *)
(* unless it vanishes, which is detected; a reaper that connects to MySQL  *)
(* again and again succeeds in the end; time passes; the process is        *)
(* started again after it ended.  SF of SessionStep asks for more than WF   *)
(* only in Watch, which the bound on Reapers can disable: the program      *)
(* creates a thread whenever it wants one.                                 *)
(***************************************************************************)
Fairness ==
  /\ \A s \in Sessions : SF_vars(SessionStep(s)) /\ SF_vars(OfferAnyId(s))
  /\ \A r \in Reapers : WF_vars(ReaperStep(r)) /\ SF_vars(TurnConnects(r))
  /\ \A c \in Clients : WF_vars(DialogueStep(c))
  /\ \A id \in TempIds : WF_vars(Age(id))
  /\ WF_vars(Recover)

FairSpec == Spec /\ Fairness

-----------------------------------------------------------------------------
(***************************************************************************)
(* Who holds a key for the server: the entries of currentClients, and the  *)
(* client a session has accepted but not inserted yet.                     *)
(***************************************************************************)
Accepted(s) == sess[s].client # None

Holds(k) ==
  \/ \E i \in Tracked : currentClients[i].key = k
  \/ \E s \in Sessions : Accepted(s) /\ sess[s].client.key = k

\* A key is held by at most one client: no two entries of currentClients, and
\* no entry and accepted client, have the same key (RequestKey's answer 0 for a
\* key already requested, main.cpp:373-389).
OneHolder ==
  /\ \A i, j \in Tracked : currentClients[i].key = currentClients[j].key => i = j
  /\ \A s \in Sessions : Accepted(s) =>
       /\ \A i \in Tracked : currentClients[i].key # sess[s].client.key
       /\ \A t \in Sessions \ {s} :
            Accepted(t) => sess[t].client.key # sess[s].client.key

\* While isNotUse is false some reaper is still going to run its loop, so a
\* session that does not start one relies on a thread that exists
\* (main.cpp:296-319, 218-221).
ReaperAlive == ~isNotUse => \E r \in Reapers : reap[r].pc \notin {"idle", "start"}

\* At most one thread is between taking and giving back m, and m says which.
MutexHeld ==
  /\ \A s \in Sessions : sess[s].pc \in {"exchange", "reply"} <=> m = s
  /\ \A r \in Reapers : reap[r].pc = "drain" <=> m = r

\* A key marked as requested in the table has a client the server knows of and
\* will release it for: nothing stays requested for nobody (main.cpp:127-128).
NoHangingKey == up => \A k \in Keys : key_s[k] = "requested" => Holds(k)

\* What a client remembers as its id is an entry of its own key, or no entry:
\* RELEASE, which does not compare keys, cannot end another client's entry
\* (main.cpp:429-440).
OwnHandle ==
  \A c \in Clients : uid[c] \in Tracked => currentClients[uid[c]].key = KeyOf[c]

\* Two running clients are never both confirmed for the same key
\* (LicenseControl.cpp:157).
OneRunning ==
  \A c, d \in Clients : Licensed(c) /\ Licensed(d) /\ KeyOf[c] = KeyOf[d] => c = d

\* A confirmed client between two of its checks is tracked under the id it is
\* going to send, and not marked for deletion.
ConfirmedIsTracked ==
  \A c \in Clients : Licensed(c) /\ cpc[c] = "connect" =>
    /\ uid[c] \in Tracked
    /\ currentClients[uid[c]].key = KeyOf[c]
    /\ ~currentClients[uid[c]].for_deleting

\* The reservation of an active license's key is taken away only together with
\* its holder, unless the server is not running.
ReservationKept ==
  [][\A k \in Keys :
       key_s[k] = "requested" /\ key_s'[k] = "free" /\ up
         /\ license'[LicenseOf[k]].status = "active" => ~Holds(k)']_vars

\* An entry that has not timed out leaves currentClients only in a session of
\* its own key, or with the process.
FreshEntryKept ==
  [][\A i \in Tracked :
       ~currentClients[i].stale /\ i \notin Tracked' /\ up' =>
         \E s \in Sessions : m = s /\ sess[s].key = currentClients[i].key]_vars

\* A session that has been accepted ends: m always comes back.
SessionsEnd == \A s \in Sessions : sess[s].pc # "idle" ~> sess[s].pc = "idle"

\* the key is requested in the table and none of its clients runs
HangingKey(k) ==
  /\ key_s[k] = "requested"
  /\ \A c \in Clients : KeyOf[c] = k => cpc[c] = "off"

\* A key left requested by clients that are gone is given back before anybody is
\* granted it again, as long as sessions keep coming, for this key or another one
\* (main.cpp:127-128, 296).
HangingKeyReleased ==
  []<>(\E s \in Sessions : sess[s].pc = "watch") =>
    \A k \in Keys : HangingKey(k) ~> key_s[k] # "requested"

\* The same with no condition: what the comment at main.cpp:127-128 says, "if the
\* time has run out the key is released".
TimedOutKeyReleased == \A k \in Keys : HangingKey(k) ~> key_s[k] # "requested"
=============================================================================
