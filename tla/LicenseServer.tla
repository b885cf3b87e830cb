---------------------------- MODULE LicenseServer ----------------------------
(***************************************************************************)
(* main.cpp of the license server: one thread per connection running       *)
(* client_session, the threads running release_unused_keys, and the        *)
(* globals they share.  An action is the code between two points where     *)
(* another thread, the client or the database can be seen to interleave.   *)
(***************************************************************************)
EXTENDS LicenseDB, LicenseSockets

CONSTANTS
  Reapers      \* the threads that may run release_unused_keys at once (a bound)

VARIABLES
  up,              \* the process runs and has passed NullStart
  currentClients,  \* temporary id -> Client
  isNotUse,
  m,               \* the holder of the mutex
  sess,            \* the locals of client_session
  reap             \* the locals of release_unused_keys

serverVars == <<up, currentClients, isNotUse, m, sess, reap>>

ClientRecord == [user : Users, license : Licenses, key : Keys,
                 stale : BOOLEAN,        \* create_time is 1.7 s ago or more
                 for_deleting : BOOLEAN]

SessionPC == {"idle", "read", "find", "watch", "lock", "exchange", "reply"}

SessionRecord ==
  [pc : SessionPC,
   key : Keys \cup {None},                 \* user_key
   user : Users \cup {None},               \* user_id
   id : TempIds \cup {None},               \* temp_uid
   answer : LicenseAnswers \cup {None},    \* new_mess
   client : ClientRecord \cup {None}]      \* client, None unless ALL_RIGHT

IdleSession == [pc |-> "idle", key |-> None, user |-> None, id |-> None,
                answer |-> None, client |-> None]

\* the locals of a session are assigned before they are used
Assigned(t) ==
  /\ t.pc \in {"find", "watch", "lock", "exchange", "reply"} => t.key \in Keys
  /\ t.pc \in {"exchange", "reply"} => t.user \in Users /\ t.id \in TempIds
  /\ t.pc = "reply" => t.answer \in LicenseAnswers

ReaperPC == {"idle", "start", "loop", "sleep", "drain"}

ReaperRecord == [pc : ReaperPC, q1 : SUBSET TempIds]

IdleReaper == [pc |-> "idle", q1 |-> {}]

ASSUME ServerAssumption ==
  /\ Sessions \cap Reapers = {}
  /\ None \notin Reapers \cup ClientRecord \cup LicenseAnswers

ServerTypeOK ==
  /\ up \in BOOLEAN
  /\ currentClients \in [TempIds -> ClientRecord \cup {None}]
  /\ isNotUse \in BOOLEAN
  /\ m \in Sessions \cup Reapers \cup {None}
  /\ sess \in [Sessions -> SessionRecord] /\ \A s \in Sessions : Assigned(sess[s])
  /\ reap \in [Reapers -> ReaperRecord]

ServerInit ==
  /\ up = FALSE
  /\ currentClients = [i \in TempIds |-> None]
  /\ isNotUse = TRUE
  /\ m = None
  /\ sess = [s \in Sessions |-> IdleSession]
  /\ reap = [r \in Reapers |-> IdleReaper]

Tracked == {i \in TempIds : currentClients[i] # None}

-----------------------------------------------------------------------------
(***************************************************************************)
(* The process.  It ends by a crash ("crash") or because the session's     *)
(* connection to MySQL failed and the null handle is used ("connect"); the *)
(* kernel closes its sockets, and what a client has not read may be lost.  *)
(***************************************************************************)
Die ==
  /\ up' = FALSE
  /\ currentClients' = [i \in TempIds |-> None]
  /\ isNotUse' = TRUE
  /\ m' = None
  /\ sess' = [s \in Sessions |-> IdleSession]
  /\ reap' = [r \in Reapers |-> IdleReaper]
  /\ conn' = [c \in Clients |-> None]
  /\ inbox' \in {inbox, [c \in Clients |-> None]}
  /\ outbox' = [s \in Sessions |-> None]

Crash ==
  /\ up /\ "crash" \in Faults
  /\ Die
  /\ UNCHANGED dbVars

\* run_server: NullStart, then the accept loop
Restart ==
  /\ ~up
  /\ up' = TRUE
  /\ NullStart
  /\ UNCHANGED <<currentClients, isNotUse, m, sess, reap, socketVars>>

\* a second server takes the next port and runs NullStart on the same tables
StartAnother ==
  /\ "another" \in Changes
  /\ NullStart
  /\ UNCHANGED <<serverVars, socketVars>>

-----------------------------------------------------------------------------
(***************************************************************************)
(* client_session                                                          *)
(***************************************************************************)
At(s, pc) == sess[s].pc = pc

\* the session ends, closes its socket, and gives m back if it holds it
End(s) ==
  /\ sess' = [sess EXCEPT ![s] = IdleSession]
  /\ conn' = Without(s)
  /\ outbox' = [outbox EXCEPT ![s] = None]
  /\ m' = IF m = s THEN None ELSE m

ReadKey(s) ==
  /\ At(s, "read") /\ Received(s, "KEY")
  /\ sess' = [sess EXCEPT ![s].pc = "find", ![s].key = outbox[s].arg]
  /\ outbox' = [outbox EXCEPT ![s] = None]
  /\ UNCHANGED <<up, currentClients, isNotUse, m, reap, conn, inbox, dbVars>>

\* read_some throws: the client went away without sending its key
ReadKeyFails(s) ==
  /\ At(s, "read") /\ outbox[s] = None /\ PeerGone(s)
  /\ End(s)
  /\ UNCHANGED <<up, currentClients, isNotUse, reap, inbox, dbVars>>

FindUser(s) ==
  /\ At(s, "find")
  /\ \E user \in Users \cup {None} :
       /\ FindUserByKey(sess[s].key, user)
       /\ sess' = [sess EXCEPT ![s].pc = "watch", ![s].user = user]
  /\ UNCHANGED <<up, currentClients, isNotUse, m, reap, socketVars, dbVars>>

\* mysql_real_connect fails and mysql_query is given the null handle
FindUserFails(s) ==
  /\ At(s, "find") /\ "connect" \in Faults
  /\ Die
  /\ UNCHANGED dbVars

\* if(isNotUse) a thread of release_unused_keys is created; isNotUse itself
\* changes only when that thread runs
Watch(s) ==
  /\ At(s, "watch")
  /\ \/ ~isNotUse /\ UNCHANGED reap
     \/ /\ isNotUse
        /\ \E r \in Reapers : /\ reap[r].pc = "idle"
                              /\ reap' = [reap EXCEPT ![r].pc = "start"]
  /\ sess' = [sess EXCEPT ![s].pc = "lock"]
  /\ UNCHANGED <<up, currentClients, isNotUse, m, socketVars, dbVars>>

\* no such key: the answer is written without m, and the session is over
RefuseKey(s) ==
  /\ At(s, "lock") /\ sess[s].user = None
  /\ inbox' = ToClient(s, Msg("KEY_ANSWER_UNKNOWN_KEY_REQUEST", None))
  /\ End(s)
  /\ UNCHANGED <<up, currentClients, isNotUse, reap, dbVars>>

\* Mutation: the loop on currentClients.count(temp_uid) is forgotten.
OfferIdUnchecked(s, id) ==
  /\ At(s, "lock") /\ sess[s].user # None
  /\ m = None
  /\ m' = s
  /\ sess' = [sess EXCEPT ![s].pc = "exchange", ![s].id = id]
  /\ inbox' = ToClient(s, Msg("KEY_ANSWER_GOOD", id))
  /\ UNCHANGED <<up, currentClients, isNotUse, reap, conn, outbox, dbVars>>

\* Mutation: m is locked by hand, and not unlocked when MessageParsing throws.
ExchangeFailsLocked(s) ==
  /\ At(s, "exchange") /\ outbox[s] = None /\ PeerGone(s)
  /\ sess' = [sess EXCEPT ![s] = IdleSession]
  /\ UNCHANGED <<up, currentClients, isNotUse, m, reap, socketVars, dbVars>>

(* m is taken, an id that is not in currentClients is drawn, and           *)
(* DataExchange writes it; m stays taken while the session reads.          *)
OfferId(s, id) ==
  /\ At(s, "lock") /\ sess[s].user # None
  /\ m = None
  /\ id \notin Tracked
  /\ m' = s
  /\ sess' = [sess EXCEPT ![s].pc = "exchange", ![s].id = id]
  /\ inbox' = ToClient(s, Msg("KEY_ANSWER_GOOD", id))
  /\ UNCHANGED <<up, currentClients, isNotUse, reap, conn, outbox, dbVars>>

\* DataExchange returns "ERROR", MessageParsing throws on it
ExchangeFails(s) ==
  /\ At(s, "exchange") /\ outbox[s] = None /\ PeerGone(s)
  /\ End(s)
  /\ UNCHANGED <<up, currentClients, isNotUse, reap, inbox, dbVars>>

\* the query is read and the answer decided; client is what will be tracked
Answer(s, answer, client) ==
  /\ sess' = [sess EXCEPT ![s].pc = "reply", ![s].answer = answer, ![s].client = client]
  /\ outbox' = [outbox EXCEPT ![s] = None]
  /\ UNCHANGED <<up, isNotUse, m, reap, conn, inbox>>

\* Mutation: license_id is not compared with 0.
HandleRequestUnchecked(s) ==
  /\ At(s, "exchange") /\ Received(s, "REQUEST") /\ outbox[s].arg = sess[s].user
  /\ \E ret \in Licenses \cup {None} :
       /\ Select("REQUEST", sess[s].user, sess[s].key, ret)
       /\ Answer(s, "LICENSE_ANSWER_GOOD",
                 [user |-> outbox[s].arg, license |-> ret, key |-> sess[s].key,
                  stale |-> FALSE, for_deleting |-> FALSE])
  /\ UNCHANGED currentClients

HandleRequest(s) ==
  /\ At(s, "exchange") /\ Received(s, "REQUEST") /\ outbox[s].arg = sess[s].user
  /\ \E ret \in Licenses \cup {None} :
       /\ Select("REQUEST", sess[s].user, sess[s].key, ret)
       /\ \/ /\ ret # None
             /\ Answer(s, "LICENSE_ANSWER_GOOD",
                       [user |-> outbox[s].arg, license |-> ret, key |-> sess[s].key,
                        stale |-> FALSE, for_deleting |-> FALSE])
          \/ ret = None /\ Answer(s, "LICENSE_ANSWER_BUSY", None)
  /\ UNCHANGED currentClients

\* the query names an id of currentClients
Names(s, query) == At(s, "exchange") /\ Received(s, query) /\ outbox[s].arg \in Tracked

\* Mutation: the entry stays under the old id as well.
HandleCheckKeepsOld(s) ==
  /\ Names(s, "CHECK")
  /\ LET entry == currentClients[outbox[s].arg] IN
     /\ entry.key = sess[s].key
     /\ \E ret \in Licenses \cup {None} :
          /\ Select("CHECK", entry.user, entry.key, ret)
          /\ IF ret = entry.license /\ ~entry.for_deleting
             THEN Answer(s, "LICENSE_ANSWER_GOOD_WORK", entry)
             ELSE Answer(s, "LICENSE_ANSWER_NOT_WORK", None)
  /\ UNCHANGED currentClients

\* CHECK: the entry is taken out, to come back under the new id
HandleCheck(s) ==
  LET id == outbox[s].arg
      entry == currentClients[id] IN
  /\ Names(s, "CHECK")
  /\ \/ /\ entry.key = sess[s].key
        /\ \E ret \in Licenses \cup {None} :
             /\ Select("CHECK", entry.user, entry.key, ret)
             /\ \/ /\ ret = entry.license /\ ~entry.for_deleting
                   /\ Answer(s, "LICENSE_ANSWER_GOOD_WORK", entry)
                   /\ currentClients' = [currentClients EXCEPT ![id] = None]
                \/ /\ ret # entry.license \/ entry.for_deleting
                   /\ Answer(s, "LICENSE_ANSWER_NOT_WORK", None)
                   /\ UNCHANGED currentClients
     \/ /\ entry.key # sess[s].key
        /\ Answer(s, "LICENSE_ANSWER_KEY_NOT_WORK", None)
        /\ UNCHANGED <<currentClients, dbVars>>

\* Mutation: the entry is not erased.
HandleReleaseKeepsEntry(s) ==
  /\ Names(s, "RELEASE")
  /\ \E ret \in Licenses \cup {None} :
       /\ Select("RELEASE", currentClients[outbox[s].arg].user, sess[s].key, ret)
       /\ Answer(s, IF ret = currentClients[outbox[s].arg].license
                    THEN "LICENSE_ANSWER_GOOD_RELEASE" ELSE "LICENSE_ANSWER_NOT_RELEASE", None)
  /\ UNCHANGED currentClients

\* RELEASE: the session's key is given back for the entry the id names
HandleRelease(s) ==
  LET id == outbox[s].arg
      entry == currentClients[id] IN
  /\ Names(s, "RELEASE")
  /\ \E ret \in Licenses \cup {None} :
       /\ Select("RELEASE", entry.user, sess[s].key, ret)
       /\ \/ /\ ret = entry.license
             /\ Answer(s, "LICENSE_ANSWER_GOOD_RELEASE", None)
             /\ currentClients' = [currentClients EXCEPT ![id] = None]
          \/ /\ ret # entry.license
             /\ Answer(s, "LICENSE_ANSWER_NOT_RELEASE", None)
             /\ UNCHANGED currentClients

HandleUnknown(s) ==
  /\ At(s, "exchange") /\ outbox[s] # None
  /\ \/ Received(s, "REQUEST") /\ outbox[s].arg # sess[s].user
     \/ outbox[s].type \in {"CHECK", "RELEASE"} /\ outbox[s].arg \notin Tracked
  /\ Answer(s, "LICENSE_ANSWER_UNKNOWN_KLIENT_REQUEST", None)
  /\ UNCHANGED <<currentClients, dbVars>>

(* The answer is written; an accepted client is inserted under the offered *)
(* id with create_time = now; m is given back.                             *)
Reply(s) ==
  /\ At(s, "reply")
  /\ inbox' = ToClient(s, Msg(sess[s].answer, None))
  /\ currentClients' =
       IF sess[s].client = None THEN currentClients
       ELSE [currentClients EXCEPT ![sess[s].id] = [sess[s].client EXCEPT !.stale = FALSE]]
  /\ End(s)
  /\ UNCHANGED <<up, isNotUse, reap, dbVars>>

\* write throws, the catch at the end is reached, nothing is inserted
ReplyFails(s) ==
  /\ At(s, "reply") /\ PeerGone(s) /\ "write" \in Faults
  /\ End(s)
  /\ UNCHANGED <<up, currentClients, isNotUse, reap, inbox, dbVars>>

-----------------------------------------------------------------------------
(***************************************************************************)
(* release_unused_keys                                                     *)
(***************************************************************************)
StartReaper(r) ==
  /\ reap[r].pc = "start"
  /\ isNotUse' = FALSE
  /\ reap' = [reap EXCEPT ![r].pc = "loop"]
  /\ UNCHANGED <<up, currentClients, m, sess, socketVars, dbVars>>

\* Mutation: the loop ends when the container is empty, isNotUse is not looked at.
LoopTestByEmptiness(r) ==
  /\ reap[r].pc = "loop"
  /\ reap' = [reap EXCEPT ![r] = IF Tracked = {} THEN IdleReaper ELSE [@ EXCEPT !.pc = "sleep"]]
  /\ UNCHANGED <<up, currentClients, isNotUse, m, sess, socketVars, dbVars>>

\* while(!isNotUse), then sleep_for
LoopTest(r) ==
  /\ reap[r].pc = "loop"
  /\ reap' = [reap EXCEPT ![r] = IF isNotUse THEN IdleReaper ELSE [@ EXCEPT !.pc = "sleep"]]
  /\ UNCHANGED <<up, currentClients, isNotUse, m, sess, socketVars, dbVars>>

\* Mutation: the time is not looked at.
StaleAlways == Tracked

Stale == {i \in Tracked : currentClients[i].stale}

\* if(currentClients.empty()) isNotUse = true; m is given back
EndSweep(r, q) ==
  /\ isNotUse' = (isNotUse \/ Tracked = {})
  /\ reap' = [reap EXCEPT ![r] = [pc |-> "loop", q1 |-> q]]
  /\ m' = None

(* m is taken, the entries that timed out are flagged and queued.  With    *)
(* nothing queued, or no connection to MySQL, the turn ends at once and    *)
(* what is queued stays for the next one.                                  *)
Sweep(r) ==
  LET q == reap[r].q1 \cup Stale IN
  /\ reap[r].pc = "sleep" /\ m = None
  /\ currentClients' = [i \in TempIds |->
       IF i \in Stale THEN [currentClients[i] EXCEPT !.for_deleting = TRUE]
                      ELSE currentClients[i]]
  /\ \/ /\ q # {}
        /\ m' = r
        /\ reap' = [reap EXCEPT ![r] = [pc |-> "drain", q1 |-> q]]
        /\ UNCHANGED isNotUse
     \/ /\ q = {} \/ "connect" \in Faults
        /\ EndSweep(r, q)
  /\ UNCHANGED <<up, sess, socketVars, dbVars>>

\* Mutation: the entry is erased before its key is read.
DrainWithoutRelease(r) ==
  /\ reap[r].pc = "drain"
  /\ \E i \in reap[r].q1 :
       /\ reap' = [reap EXCEPT ![r].q1 = @ \ {i}]
       /\ currentClients' = [currentClients EXCEPT ![i] = None]
  /\ UNCHANGED <<up, isNotUse, m, sess, socketVars, dbVars>>

\* Mutation: the key is released and the entry stays.
DrainKeepsEntry(r) ==
  /\ reap[r].pc = "drain"
  /\ \E i \in reap[r].q1 :
       /\ reap' = [reap EXCEPT ![r].q1 = @ \ {i}]
       /\ i \in Tracked
       /\ \E ret \in Licenses \cup {None} :
            Select("RELEASE", currentClients[i].user, currentClients[i].key, ret)
  /\ UNCHANGED <<up, currentClients, isNotUse, m, sess, socketVars>>

\* one turn of while(!q1.empty()): what Select returns is not looked at
Drain(r) ==
  /\ reap[r].pc = "drain"
  /\ \E i \in reap[r].q1 :
       /\ reap' = [reap EXCEPT ![r].q1 = @ \ {i}]
       /\ \/ /\ i \in Tracked /\ currentClients[i].for_deleting
             /\ \E ret \in Licenses \cup {None} :
                  Select("RELEASE", currentClients[i].user, currentClients[i].key, ret)
             /\ currentClients' = [currentClients EXCEPT ![i] = None]
          \/ /\ ~(i \in Tracked /\ currentClients[i].for_deleting)
             /\ UNCHANGED <<currentClients, dbVars>>
  /\ UNCHANGED <<up, isNotUse, m, sess, socketVars>>

FinishSweep(r) ==
  /\ reap[r].pc = "drain" /\ reap[r].q1 = {}
  /\ EndSweep(r, {})
  /\ UNCHANGED <<up, currentClients, sess, socketVars, dbVars>>
=============================================================================
