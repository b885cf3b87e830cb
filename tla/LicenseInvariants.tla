------------------------- MODULE LicenseInvariants -------------------------
(***************************************************************************)
(* The inductive invariants behind OwnHandle, OneHolder and OneRunning.    *)
(***************************************************************************)
EXTENDS LicenseSystem

(***************************************************************************)
(* Dialogue: how far a client and the session it is connected to may be    *)
(* from each other.                                                        *)
(***************************************************************************)

\* a session serves at most one client
OneConnection == \A c, d \in Clients : conn[c] # None /\ conn[c] = conn[d] => c = d

\* once the key is read the session works for the key of its client
KeyOfPeer ==
  \A c \in Clients : conn[c] # None =>
    /\ Received(conn[c], "KEY") => outbox[conn[c]].arg = KeyOf[c]
    /\ sess[conn[c]].pc \notin {"idle", "read"} => sess[conn[c]].key = KeyOf[c]

\* client c is where session s, its peer, expects it
InPhase(c, s) ==
  \/ cpc[c] = "key" /\ At(s, "read") /\ outbox[s] = None /\ inbox[c] = None
  \/ cpc[c] = "keyAnswer" /\ At(s, "read") /\ inbox[c] = None
  \/ /\ cpc[c] = "keyAnswer" /\ sess[s].pc \in {"find", "watch", "lock"}
     /\ outbox[s] = None /\ inbox[c] = None
  \/ cpc[c] = "keyAnswer" /\ At(s, "exchange") /\ outbox[s] = None
  \/ cpc[c] = "licenseAnswer" /\ At(s, "exchange") /\ inbox[c] = None
  \/ cpc[c] = "licenseAnswer" /\ At(s, "reply") /\ outbox[s] = None /\ inbox[c] = None

InStep ==
  /\ \A c \in Clients : cpc[c] \in {"off", "connect"} => conn[c] = None /\ inbox[c] = None
  /\ \A c \in Clients : conn[c] # None => InPhase(c, conn[c])
  /\ \A s \in Sessions : At(s, "idle") => outbox[s] = None

\* the id is offered by a session that holds m; what it has accepted is for its
\* own key, and not inserted yet
LocalsInScope ==
  \A s \in Sessions :
    /\ sess[s].id # None => sess[s].pc \in {"exchange", "reply"}
    /\ Accepted(s) => At(s, "reply") /\ sess[s].client.key = sess[s].key

\* How a client and its session stay in step (main.cpp:261-355,
\* LicenseControl.cpp:195-333).
DialogueInv == OneConnection /\ KeyOfPeer /\ InStep /\ LocalsInScope

-----------------------------------------------------------------------------
(***************************************************************************)
(* Ids: somebody uses the temporary id i for key k.                        *)
(***************************************************************************)

\* the entry
TrackedFor(i, k) == i \in Tracked /\ currentClients[i].key = k

\* the session that offers it
OfferedFor(i, k) == \E s \in Sessions : sess[s].id = i /\ sess[s].key = k

\* the query under way that names it
NamedFor(i, k) ==
  \E s \in Sessions : /\ Received(s, "CHECK") \/ Received(s, "RELEASE")
                      /\ outbox[s].arg = i /\ sess[s].key = k

\* the client that remembers it
KeptFor(i, k) == \E c \in Clients : uid[c] = i /\ KeyOf[c] = k

\* the answer under way that tells it
ToldFor(i, k) ==
  \E c \in Clients : /\ inbox[c] # None /\ inbox[c].type = "KEY_ANSWER_GOOD"
                     /\ inbox[c].arg = i /\ KeyOf[c] = k

Claims(i, k) ==
  TrackedFor(i, k) \/ OfferedFor(i, k) \/ NamedFor(i, k) \/ KeptFor(i, k) \/ ToldFor(i, k)

\* Wherever an id is in use, it is in use for the same key (main.cpp:343-355,
\* LicenseControl.cpp:224-238).
IdOfOneKey ==
  \A i \in TempIds, k, l \in Keys \cup {None} : Claims(i, k) /\ Claims(i, l) => k = l

-----------------------------------------------------------------------------
(***************************************************************************)
(* Time: only what has timed out is marked for deletion.                   *)
(***************************************************************************)
MarkedAreStale ==
  /\ \A i \in Tracked : currentClients[i].for_deleting => currentClients[i].stale
  /\ \A s \in Sessions : Accepted(s) => ~sess[s].client.for_deleting

-----------------------------------------------------------------------------
(***************************************************************************)
(* Holders: what the tables say of a key that is held.                     *)
(***************************************************************************)

\* entries name the license and the user of their key
OwnRow(e) == e.license = LicenseOf[e.key] /\ e.user = UserOf[e.key]

RowsMatch ==
  /\ \A i \in Tracked : OwnRow(currentClients[i])
  /\ \A s \in Sessions : Accepted(s) => OwnRow(sess[s].client)

NothingWhileDown == ~up => Tracked = {} /\ \A s \in Sessions : At(s, "idle")

\* a deleted license has no keys
NoRowsOfAbsent ==
  \A k \in Keys : license[LicenseOf[k]].status = "absent" => ~HasRow(k)

\* RequestKey will not grant k
Reserved(k) ==
  \/ license[LicenseOf[k]].status \in {"expired", "absent"}
  \/ license[LicenseOf[k]].status = "active" /\ key_s[k] \in {"requested", "deleted"}

\* A held key cannot be granted: it is requested, replaced by another, or its
\* license is over; so RequestKey's test protects the holder (Alex_K_DB.sql:1799-1809).
HolderInv ==
  /\ RowsMatch
  /\ NothingWhileDown
  /\ NoRowsOfAbsent
  /\ \A k \in Keys : Holds(k) => Reserved(k)
  /\ OneHolder

\* the id a session offers is not in currentClients, so that Reply replaces no entry
OfferUntracked == \A s \in Sessions : sess[s].id # None => sess[s].id \notin Tracked

\* The reverse: a reserved key is held, by somebody named as its row names him, so
\* that the release that ends the holder finds the row (main.cpp:178-207, 429-443).
ReservedInv ==
  /\ RowsMatch
  /\ NothingWhileDown
  /\ OfferUntracked
  /\ NoHangingKey

-----------------------------------------------------------------------------
(***************************************************************************)
(* Running clients: how the server keeps track of a client from one check  *)
(* to the next, while nothing ends the server and time is on its side.     *)
(***************************************************************************)
Told(c) == inbox[c] # None /\ inbox[c].type = "KEY_ANSWER_GOOD"

Naming(s) ==
  (Received(s, "CHECK") \/ Received(s, "RELEASE")) /\ outbox[s].arg # None

\* an id is remembered by one client, or told to one, or named in one query
IdInOnePlace ==
  /\ \A c, d \in Clients : uid[c] # None /\ uid[c] = uid[d] => c = d
  /\ \A c, d \in Clients : Told(c) => inbox[c].arg # uid[d]
  /\ \A c, d \in Clients : Told(c) /\ Told(d) /\ inbox[c].arg = inbox[d].arg => c = d
  /\ \A s \in Sessions, c \in Clients :
       Naming(s) => outbox[s].arg # uid[c] /\ (Told(c) => outbox[s].arg # inbox[c].arg)
  /\ \A s, t \in Sessions :
       Naming(s) /\ Naming(t) /\ outbox[s].arg = outbox[t].arg => s = t

\* a client that is told an id, or has sent its query, has the id its session offers
KnowsOffer(c) ==
  /\ Told(c) => conn[c] # None /\ inbox[c].arg = sess[conn[c]].id
  /\ cpc[c] = "licenseAnswer" /\ conn[c] # None => uid[c] = sess[conn[c]].id

\* run_license_ctrl confirms or releases what it has been told is good, and nothing else
StatusFits(c) ==
  /\ cpc[c] = "off" => query[c] = "REQUEST"
  /\ cpc[c] # "off" =>
       IF query[c] = "REQUEST" THEN status[c] = "undefined"
       ELSE status[c] \in {"confirmed", "continued"}

\* the entry of a client that is in time
Live(i, k) == TrackedFor(i, k) /\ ~currentClients[i].stale

Confirming(answer) == answer \in {"LICENSE_ANSWER_GOOD", "LICENSE_ANSWER_GOOD_WORK"}

\* the session of c has decided and not written its answer yet
DecidedFor(c) == conn[c] # None /\ At(conn[c], "reply")

\* the answer is written and c has not read it yet
AnsweredTo(c) == cpc[c] = "licenseAnswer" /\ inbox[c] # None

\* The client's entry is under the id the client is going to name, then under the id
\* its query names; then the session has it, and then it is under the offered id
\* (main.cpp:394-478, LicenseControl.cpp:195-333).
Followed(c) ==
  /\ Licensed(c) /\ cpc[c] # "licenseAnswer" => Live(uid[c], KeyOf[c])
  /\ cpc[c] = "licenseAnswer" /\ conn[c] # None /\ At(conn[c], "exchange") =>
       /\ Received(conn[c], query[c])
       /\ query[c] = "CHECK" => Live(outbox[conn[c]].arg, KeyOf[c])
  /\ DecidedFor(c) /\ Confirming(sess[conn[c]].answer) =>
       Accepted(conn[c]) /\ query[c] # "RELEASE"
  /\ AnsweredTo(c) /\ Confirming(inbox[c].type) =>
       Live(uid[c], KeyOf[c]) /\ query[c] # "RELEASE"

\* Sessions, queries and answers may overlap as they like: an id is in one place, a client
\* and its session mean the same one, and a client that runs, or that a confirming
\* answer is on its way to, has an entry of its key that is in time
\* (main.cpp:341-478, LicenseControl.cpp:195-333).
RunningInv ==
  /\ IdInOnePlace
  /\ \A c \in Clients : KnowsOffer(c) /\ StatusFits(c) /\ Followed(c)

\* k will never be granted again
Over(k) == license[LicenseOf[k]].status \in {"expired", "absent"} \/ key_s[k] = "deleted"

\* a client whose check is refused has nothing left that somebody else could be granted
RefusedForGood(c) ==
  cpc[c] = "licenseAnswer" /\ query[c] = "CHECK" =>
    /\ conn[c] # None \/ inbox[c] # None
    /\ DecidedFor(c) /\ ~Confirming(sess[conn[c]].answer) => Over(KeyOf[c])
    /\ AnsweredTo(c) /\ ~Confirming(inbox[c].type) => Over(KeyOf[c])

\* c has been granted its key: it runs under it, or is about to
Granted(c) ==
  \/ Licensed(c)
  \/ DecidedFor(c) /\ Confirming(sess[conn[c]].answer)
  \/ AnsweredTo(c) /\ Confirming(inbox[c].type)

\* A key is granted to one client at a time, from the server's decision until the
\* client knows that it is over (main.cpp:373-392, LicenseControl.cpp:267-333).
GrantedOnce ==
  /\ \A c \in Clients : RefusedForGood(c)
  /\ \A c, d \in Clients : Granted(c) /\ Granted(d) /\ KeyOf[c] = KeyOf[d] => c = d

-----------------------------------------------------------------------------
(***************************************************************************)
(* The system as an implementation of KeyLease: a key is leased to the id  *)
(* its entry has, or will have when the answer is written.                 *)
(***************************************************************************)
LeasedTo(k) ==
  {i \in Tracked : currentClients[i].key = k}
    \cup {sess[s].id : s \in {s \in Sessions : Accepted(s) /\ sess[s].client.key = k}}

\* RequestKey would grant k
Vacant(k) ==
  key_s[k] = "free" /\ license[LicenseOf[k]].status \notin {"expired", "absent"}

Lease == INSTANCE KeyLease WITH
  Handles <- TempIds,
  lease <- [k \in Keys |-> LeasedTo(k)],
  vacant <- [k \in Keys |-> Vacant(k)]

\* The service implements KeyLease: however sessions, reapers, crashes and changes of
\* the tables interleave, a lease begins only on a vacant key, moves to another handle
\* only by a renewal, and its key is not vacant as long as it lasts (main.cpp:373-443,
\* 178-207; Alex_K_DB.sql:1799-1809).
KeyLeaseKept == Lease!LeaseSpec
=============================================================================
