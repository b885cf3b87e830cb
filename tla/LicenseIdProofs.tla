--------------------------- MODULE LicenseIdProofs ---------------------------
(***************************************************************************)
(* A temporary id belongs to one key wherever it is in use, as long as the *)
(* server never draws an id that somebody still remembers (FreshIds).      *)
(***************************************************************************)
EXTENDS LicenseDialogueProofs

\* Nobody comes to use an id for a key it was not used for.
NoNewClaims == \A i \in TempIds, k \in Keys \cup {None} : Claims(i, k)' => Claims(i, k)

\* Then every id is still used for one key.
LEMMA ClaimsShrink ==
  ASSUME IdOfOneKey, NoNewClaims
  PROVE  IdOfOneKey'
BY DEF IdOfOneKey, NoNewClaims

\* The entries of currentClients leave or keep their key.
EntriesShrink ==
  \A i \in TempIds : i \in Tracked' => i \in Tracked /\ currentClients'[i].key = currentClients[i].key

\* A step of a reaper, of the clock, of the tables.
LEMMA ClaimsOfEntries ==
  ASSUME UNCHANGED <<sess, socketVars, uid>>, EntriesShrink
  PROVE  NoNewClaims
BY DEF NoNewClaims, EntriesShrink, Claims, TrackedFor, OfferedFor, NamedFor, KeptFor, ToldFor,
       Received, socketVars

\* A session ends: its entry is for the id and the key it worked with, and its last
\* message offers no id.
LEMMA ClaimsEnd ==
  ASSUME TypeOK, NEW s \in Sessions, End(s), UNCHANGED uid,
         \A i \in TempIds : i \in Tracked' =>
           \/ i \in Tracked /\ currentClients'[i].key = currentClients[i].key
           \/ sess[s].id = i /\ currentClients'[i].key = sess[s].key,
         \A c \in Clients : inbox'[c] = inbox[c] \/ inbox'[c].type # "KEY_ANSWER_GOOD"
  PROVE  NoNewClaims
<1> SUFFICES ASSUME NEW i \in TempIds, NEW k \in Keys \cup {None}, Claims(i, k)'
             PROVE  Claims(i, k)
  BY DEF NoNewClaims
<1> USE NoneIsNothing DEF TypeOK, SocketTypeOK, ServerTypeOK, Claims
<1>1. CASE TrackedFor(i, k)'
  BY <1>1 DEF TrackedFor, OfferedFor
<1>2. CASE OfferedFor(i, k)'
  BY <1>2 DEF OfferedFor, End, IdleSession
<1>3. CASE NamedFor(i, k)'
  BY <1>3 DEF NamedFor, Received, End
<1>4. CASE KeptFor(i, k)'
  BY <1>4 DEF KeptFor
<1>5. CASE ToldFor(i, k)'
  BY <1>5 DEF ToldFor
<1> QED
  BY <1>1, <1>2, <1>3, <1>4, <1>5

\* The query is read and answered; no entry is added.
LEMMA ClaimsAnswer ==
  ASSUME TypeOK, NEW s \in Sessions, NEW answer, NEW client, Answer(s, answer, client),
         UNCHANGED uid, EntriesShrink
  PROVE  NoNewClaims
<1> SUFFICES ASSUME NEW i \in TempIds, NEW k \in Keys \cup {None}, Claims(i, k)'
             PROVE  Claims(i, k)
  BY DEF NoNewClaims
<1> USE NoneIsNothing DEF TypeOK, SocketTypeOK, ServerTypeOK, Claims
<1>1. /\ \A t \in Sessions : sess'[t].id = sess[t].id /\ sess'[t].key = sess[t].key
      /\ \A t \in Sessions : outbox'[t] \in {None, outbox[t]}
      /\ inbox' = inbox
  BY DEF Answer, SessionRecord
<1>2. CASE TrackedFor(i, k)'
  BY <1>2 DEF TrackedFor, EntriesShrink
<1>3. CASE OfferedFor(i, k)'
  BY <1>1, <1>3 DEF OfferedFor
<1>4. CASE NamedFor(i, k)'
  BY <1>1, <1>4 DEF NamedFor, Received
<1>5. CASE KeptFor(i, k)' \/ ToldFor(i, k)'
  BY <1>1, <1>5 DEF KeptFor, ToldFor
<1> QED
  BY <1>2, <1>3, <1>4, <1>5

\* A session goes on before it has an id.
LEMMA ClaimsMove ==
  ASSUME TypeOK, NEW s \in Sessions, sess'[s].id = None,
         \A t \in Sessions : t # s => sess'[t] = sess[t] /\ outbox'[t] = outbox[t],
         \/ outbox'[s] = None
         \/ outbox'[s] = outbox[s] /\ sess'[s].key = sess[s].key,
         UNCHANGED <<inbox, uid, currentClients>>
  PROVE  NoNewClaims
<1> USE NoneIsNothing DEF TypeOK, SocketTypeOK, ServerTypeOK
<1>1. ASSUME NEW i \in TempIds, NEW k \in Keys \cup {None}
      PROVE  /\ OfferedFor(i, k)' => OfferedFor(i, k)
             /\ NamedFor(i, k)' => NamedFor(i, k)
  BY DEF OfferedFor, NamedFor, Received
<1>2. ASSUME NEW i \in TempIds, NEW k \in Keys \cup {None}
      PROVE  /\ TrackedFor(i, k)' => TrackedFor(i, k)
             /\ KeptFor(i, k)' => KeptFor(i, k)
             /\ ToldFor(i, k)' => ToldFor(i, k)
  BY DEF TrackedFor, Tracked, KeptFor, ToldFor
<1> QED
  BY <1>1, <1>2 DEF NoNewClaims, Claims

\* Clients and messages only forget ids.
LEMMA ClaimsForgotten ==
  ASSUME UNCHANGED <<sess, currentClients>>,
         \A c \in Clients : uid'[c] \in {uid[c], None} /\ inbox'[c] \in {inbox[c], None},
         \A s \in Sessions : \/ outbox'[s] \in {outbox[s], None}
                             \/ outbox'[s] # None /\ outbox'[s].type \in {"KEY", "REQUEST"}
  PROVE  NoNewClaims
<1> SUFFICES ASSUME NEW i \in TempIds, NEW k \in Keys \cup {None}, Claims(i, k)'
             PROVE  Claims(i, k)
  BY DEF NoNewClaims
<1> USE NoneIsNothing DEF Claims
<1>1. CASE TrackedFor(i, k)' \/ OfferedFor(i, k)'
  BY <1>1 DEF TrackedFor, Tracked, OfferedFor
<1>2. CASE NamedFor(i, k)'
  BY <1>2 DEF NamedFor, Received
<1>3. CASE KeptFor(i, k)' \/ ToldFor(i, k)'
  BY <1>3 DEF KeptFor, ToldFor
<1> QED
  BY <1>1, <1>2, <1>3

\* Nothing of the server is left, the clients remember what they remembered.
LEMMA ClaimsDie ==
  ASSUME Die, UNCHANGED uid
  PROVE  NoNewClaims
<1> SUFFICES ASSUME NEW i \in TempIds, NEW k \in Keys \cup {None}, Claims(i, k)'
             PROVE  Claims(i, k)
  BY DEF NoNewClaims
<1> USE NoneIsNothing DEF Die, Claims
<1>1. ~TrackedFor(i, k)' /\ ~OfferedFor(i, k)' /\ ~NamedFor(i, k)'
  BY DEF TrackedFor, Tracked, OfferedFor, IdleSession, NamedFor, Received
<1>2. CASE KeptFor(i, k)' \/ ToldFor(i, k)'
  BY <1>2 DEF KeptFor, ToldFor
<1> QED
  BY <1>1, <1>2

-----------------------------------------------------------------------------
\* The steps of a session, after the id is offered as before.
LEMMA ClaimsOfSession ==
  ASSUME TypeOK, DialogueInv, NEW s \in Sessions, SessionStep(s)
  PROVE  NoNewClaims
<1> USE NoneIsNothing
<1>1. sess[s] \in SessionRecord /\ Assigned(sess[s]) /\ UNCHANGED uid
  BY DEF TypeOK, ServerTypeOK, SessionStep, clientVars
<1>2. CASE ReadKey(s) \/ FindUser(s) \/ Watch(s)
  <2>1. sess[s].id = None
    BY <1>2 DEF ReadKey, FindUser, Watch, At, DialogueInv, LocalsInScope
  <2>2. /\ sess'[s].id = None /\ UNCHANGED <<inbox, currentClients>>
        /\ \A x \in Sessions : x # s => sess'[x] = sess[x] /\ outbox'[x] = outbox[x]
        /\ \/ outbox'[s] = None
           \/ outbox'[s] = outbox[s] /\ sess'[s].key = sess[s].key
    BY <1>1, <1>2, <2>1
    DEF ReadKey, FindUser, Watch, SessionRecord, socketVars, TypeOK, ServerTypeOK, SocketTypeOK
  <2> QED
    BY <1>1, <2>2, ClaimsMove
<1>3. CASE ReadKeyFails(s) \/ ExchangeFails(s) \/ ReplyFails(s)
  <2>1. End(s) /\ UNCHANGED <<inbox, currentClients>>
    BY <1>3 DEF ReadKeyFails, ExchangeFails, ReplyFails
  <2> QED
    BY <1>1, <2>1, ClaimsEnd DEF Tracked
<1>4. CASE RefuseKey(s)
  <2>1. \A c \in Clients : inbox'[c] = inbox[c] \/ inbox'[c].type # "KEY_ANSWER_GOOD"
    BY <1>4 DEF RefuseKey, ToClient, Msg
  <2>2. End(s) /\ UNCHANGED currentClients
    BY <1>4 DEF RefuseKey
  <2> QED
    BY <1>1, <2>1, <2>2, ClaimsEnd DEF Tracked
<1>5. CASE Reply(s)
  <2>1. sess[s].answer # "KEY_ANSWER_GOOD"
    BY <1>1, <1>5 DEF Reply, At, Assigned, LicenseAnswers
  <2>2. \A c \in Clients : inbox'[c] = inbox[c] \/ inbox'[c].type # "KEY_ANSWER_GOOD"
    BY <1>5, <2>1 DEF Reply, ToClient, Msg
  <2>3. CASE sess[s].client = None
    BY <1>1, <1>5, <2>2, <2>3, ClaimsEnd DEF Reply, Tracked
  <2>4. CASE sess[s].client # None
    <3>1. sess[s].client.key = sess[s].key /\ sess[s].client \in ClientRecord /\ sess[s].id \in TempIds
      BY <1>1, <1>5, <2>4 DEF Reply, At, Assigned, SessionRecord, DialogueInv, LocalsInScope, Accepted
    <3>2. currentClients' = [currentClients EXCEPT ![sess[s].id] = [sess[s].client EXCEPT !.stale = FALSE]]
      BY <1>5, <2>4 DEF Reply
    <3>3. [sess[s].client EXCEPT !.stale = FALSE].key = sess[s].key
      BY <3>1 DEF ClientRecord
    <3>4. \A i \in TempIds : i \in Tracked' =>
            \/ i \in Tracked /\ currentClients'[i].key = currentClients[i].key
            \/ sess[s].id = i /\ currentClients'[i].key = sess[s].key
      BY <3>1, <3>2, <3>3 DEF Tracked, TypeOK, ServerTypeOK
    <3> QED
      BY <1>1, <1>5, <2>2, <3>4, ClaimsEnd DEF Reply
  <2> QED
    BY <2>3, <2>4
<1>6. CASE HandleRequest(s) \/ HandleCheck(s) \/ HandleRelease(s) \/ HandleUnknown(s)
  <2>1. \E answer, client : Answer(s, answer, client)
    BY <1>6 DEF HandleRequest, HandleCheck, HandleRelease, HandleUnknown
  <2>2. UNCHANGED currentClients \/ currentClients' = [currentClients EXCEPT ![outbox[s].arg] = None]
    BY <1>6 DEF HandleRequest, HandleCheck, HandleRelease, HandleUnknown
  <2>3. EntriesShrink
    BY <2>2 DEF EntriesShrink, Tracked, TypeOK, ServerTypeOK
  <2> QED
    BY <1>1, <2>1, <2>3, ClaimsAnswer
<1> QED
  BY <1>2, <1>3, <1>4, <1>5, <1>6 DEF SessionStep

\* The offer of an id nobody has, to the client of the session's own key.
LEMMA OfferKeepsIds ==
  ASSUME FreshIds, TypeOK, DialogueInv, IdOfOneKey, NEW s \in Sessions, OfferAnyId(s)
  PROVE  IdOfOneKey'
<1> USE NoneIsNothing DEF TypeOK, SocketTypeOK, ServerTypeOK
<1>1. PICK id \in TempIds : id \notin Remembered /\ OfferId(s, id)
  BY DEF OfferAnyId
<1>2. /\ \A t \in Sessions : t # s => sess'[t] = sess[t]
      /\ sess'[s].id = id /\ sess'[s].key = sess[s].key /\ sess[s].key \in Keys
      /\ UNCHANGED <<currentClients, outbox, uid>>
      /\ \A c \in Clients : inbox'[c] = IF conn[c] = s THEN Msg("KEY_ANSWER_GOOD", id) ELSE inbox[c]
  BY <1>1 DEF OfferAnyId, OfferId, At, SessionRecord, Assigned, ToClient, clientVars
<1>3. \A k \in Keys \cup {None} : ~Claims(id, k)
  <2> SUFFICES ASSUME NEW k \in Keys \cup {None} PROVE ~Claims(id, k)
    OBVIOUS
  <2>1. ~TrackedFor(id, k)
    BY <1>1 DEF OfferId, TrackedFor
  <2>2. ~OfferedFor(id, k) /\ ~KeptFor(id, k)
    BY <1>1 DEF Remembered, OfferedFor, KeptFor
  <2>3. ~NamedFor(id, k)
    BY <1>1 DEF Remembered, NamedFor, Received
  <2>4. ~ToldFor(id, k)
    BY <1>1 DEF Remembered, ToldFor
  <2> QED
    BY <2>1, <2>2, <2>3, <2>4 DEF Claims
<1>4. ASSUME NEW i \in TempIds, NEW k \in Keys \cup {None}, Claims(i, k)'
      PROVE  Claims(i, k) \/ (i = id /\ k = sess[s].key)
  <2>1. CASE TrackedFor(i, k)'
    BY <1>2, <2>1 DEF TrackedFor, Tracked, Claims
  <2>2. CASE OfferedFor(i, k)'
    BY <1>2, <2>2 DEF OfferedFor, Claims
  <2>3. CASE NamedFor(i, k)'
    BY <1>2, <2>3 DEF NamedFor, Received, Claims
  <2>4. CASE KeptFor(i, k)'
    BY <1>2, <2>4 DEF KeptFor, Claims
  <2>5. CASE ToldFor(i, k)'
    <3>1. \A c \in Clients : conn[c] = s => KeyOf[c] = sess[s].key
      BY <1>1 DEF OfferId, At, DialogueInv, KeyOfPeer
    <3>2. PICK c \in Clients : inbox'[c] # None /\ inbox'[c].type = "KEY_ANSWER_GOOD"
                               /\ inbox'[c].arg = i /\ KeyOf[c] = k
      BY <2>5 DEF ToldFor
    <3>3. CASE conn[c] = s
      BY <1>2, <3>1, <3>2, <3>3 DEF Msg
    <3>4. CASE conn[c] # s
      BY <1>2, <3>2, <3>4 DEF ToldFor, Claims
    <3> QED
      BY <3>3, <3>4
  <2> QED
    BY <1>4, <2>1, <2>2, <2>3, <2>4, <2>5 DEF Claims
<1> QED
  BY <1>3, <1>4 DEF IdOfOneKey

\* The client takes the id it was told, and names the one it had.
LEMMA ClaimsKeyGood ==
  ASSUME TypeOK, DialogueInv, NEW c \in Clients, KeyGood(c), UNCHANGED serverVars
  PROVE  NoNewClaims
<1> SUFFICES ASSUME NEW i \in TempIds, NEW k \in Keys \cup {None}, Claims(i, k)'
             PROVE  Claims(i, k)
  BY DEF NoNewClaims
<1> USE NoneIsNothing DEF TypeOK, SocketTypeOK, ServerTypeOK, ClientTypeOK
<1>1. /\ UNCHANGED <<sess, currentClients>>
      /\ inbox[c] # None /\ inbox[c].type = "KEY_ANSWER_GOOD" /\ uid'[c] = inbox[c].arg
      /\ inbox'[c] = None
      /\ \A x \in Clients : x # c => uid'[x] = uid[x] /\ inbox'[x] = inbox[x]
  BY DEF KeyGood, serverVars
<1>2. CASE TrackedFor(i, k)' \/ OfferedFor(i, k)'
  BY <1>1, <1>2 DEF TrackedFor, Tracked, OfferedFor, Claims
<1>3. CASE NamedFor(i, k)'
  <2>1. PICK s \in Sessions : /\ Received(s, "CHECK")' \/ Received(s, "RELEASE")'
                              /\ outbox'[s].arg = i /\ sess[s].key = k
    BY <1>1, <1>3 DEF NamedFor
  <2>2. CASE conn[c] # s
    <3>1. outbox'[s] = outbox[s]
      BY <2>2 DEF KeyGood
    <3> QED
      BY <2>1, <3>1 DEF NamedFor, Received, Claims
  <2>3. CASE conn[c] = s
    <3>1. outbox'[s] = Msg(query[c], IF query[c] = "REQUEST" THEN UserIdOf[c] ELSE uid[c])
      BY <2>3 DEF KeyGood
    <3>2. uid[c] = i
      BY <2>1, <3>1 DEF Received, Msg
    <3>3. At(s, "exchange")
      BY <1>1, <2>3, PeerPhase DEF InPhase, KeyGood
    <3>4. KeyOf[c] = k
      BY <2>1, <2>3, <3>3, PeerPhase DEF At
    <3> QED
      BY <3>2, <3>4 DEF KeptFor, Claims
  <2> QED
    BY <2>2, <2>3
<1>4. CASE KeptFor(i, k)'
  BY <1>1, <1>4 DEF KeptFor, ToldFor, Claims
<1>5. CASE ToldFor(i, k)'
  BY <1>1, <1>5 DEF ToldFor, Claims
<1> QED
  BY <1>2, <1>3, <1>4, <1>5 DEF Claims

\* The other steps of a client, of the network between them, and the accept.
LEMMA ClaimsOfClient ==
  ASSUME TypeOK, DialogueInv, NEW c \in Clients,
         \/ DialogueStep(c)
         \/ Start(c) /\ UNCHANGED <<serverVars, dbVars>>
         \/ Vanish(c) /\ UNCHANGED <<serverVars, dbVars>>
         \/ NetworkReset(c) /\ UNCHANGED <<serverVars, dbVars>>
         \/ NotAccepted(c)
         \/ \E s \in Sessions : Accept(c, s)
  PROVE  NoNewClaims
<1>1. CASE /\ UNCHANGED serverVars
           /\ \/ ExchangeError(c) \/ KeyRefused(c) \/ LicenseRefused(c) \/ Vanish(c) \/ ConnectFails(c)
              \/ LicenseGood(c) \/ NetworkReset(c) \/ Start(c) \/ SendKey(c)
  <2>1. UNCHANGED <<sess, currentClients>>
    BY <1>1 DEF serverVars
  <2>2. CASE LicenseGood(c) \/ NetworkReset(c) \/ Start(c) \/ SendKey(c)
    <3>1. /\ uid' = uid
          /\ \A x \in Clients : inbox'[x] \in {inbox[x], None}
      BY <2>2 DEF LicenseGood, NetworkReset, Start, SendKey, socketVars, clientVars, TypeOK, SocketTypeOK
    <3>2. \A s \in Sessions : \/ outbox'[s] \in {outbox[s], None}
                              \/ outbox'[s] # None /\ outbox'[s].type \in {"KEY", "REQUEST"}
      <4>1. CASE SendKey(c)
        <5>1. Msg("KEY", KeyOf[c]) # None /\ Msg("KEY", KeyOf[c]).type = "KEY"
          BY NoneIsNothing, Messages, ClientAssumption DEF Msg
        <5> QED
          BY <4>1, <5>1 DEF SendKey, TypeOK, SocketTypeOK
      <4>2. CASE ~SendKey(c)
        BY <2>2, <4>2 DEF LicenseGood, NetworkReset, Start, socketVars, TypeOK, SocketTypeOK
      <4> QED
        BY <4>1, <4>2
    <3> QED
      BY <2>1, <3>1, <3>2, ClaimsForgotten
  <2>3. ASSUME NEW newStatus, Return(c, newStatus), UNCHANGED outbox
        PROVE  NoNewClaims
    <3>1. \A x \in Clients : uid'[x] \in {uid[x], None} /\ inbox'[x] \in {inbox[x], None}
      BY <2>3 DEF Return, TypeOK, SocketTypeOK, ClientTypeOK
    <3> QED
      BY <2>1, <2>3, <3>1, ClaimsForgotten
  <2> QED
    BY <1>1, <2>2, <2>3 DEF ExchangeError, KeyRefused, LicenseRefused, Vanish, ConnectFails
<1>2. CASE KeyGood(c) /\ UNCHANGED serverVars
  BY <1>2, ClaimsKeyGood
<1>3. ASSUME NEW s \in Sessions, Accept(c, s)
      PROVE  NoNewClaims
  <2>1. /\ \A t \in Sessions : t # s => sess'[t] = sess[t]
        /\ sess'[s].id = sess[s].id /\ sess'[s].key = sess[s].key
        /\ UNCHANGED <<outbox, inbox, uid, currentClients>>
    BY <1>3 DEF Accept, Connect, TypeOK, ServerTypeOK, SessionRecord
  <2>2. sess[s].id = None
    BY <1>3 DEF Accept, DialogueInv, LocalsInScope
  <2> QED
    BY <2>1, <2>2, ClaimsMove
<1> QED
  BY <1>1, <1>2, <1>3 DEF DialogueStep, NotAccepted

\* The steps that leave the dialogue alone.
LEMMA ClaimsElsewhere ==
  ASSUME TypeOK,
         \/ \E r \in Reapers : ReaperStep(r) \/ TakeTurn(r)
         \/ \E id \in TempIds : Age(id)
         \/ Recover
         \/ StartAnother /\ UNCHANGED clientVars
         \/ Tables
         \/ UNCHANGED vars
  PROVE  NoNewClaims
<1> USE DEF TypeOK, ServerTypeOK
<1>1. UNCHANGED <<sess, socketVars, uid>>
  BY DEF ReaperStep, TakeTurn, StartReaper, LoopTest, Drain, FinishSweep, Sweep, Age, Recover,
         Restart, StartAnother, Tables, vars, serverVars, clientVars
<1>2. UNCHANGED currentClients => EntriesShrink
  BY DEF EntriesShrink, Tracked
<1>3. ASSUME NEW r \in Reapers, Drain(r)
      PROVE  EntriesShrink
  BY <1>2, <1>3 DEF Drain, EntriesShrink, Tracked
<1>4. ASSUME NEW r \in Reapers, Sweep(r)
      PROVE  EntriesShrink
  <2>1. \A i \in Tracked : [currentClients[i] EXCEPT !.for_deleting = TRUE].key = currentClients[i].key
    BY DEF Tracked, ClientRecord
  <2> QED
    BY <1>4, <2>1 DEF Sweep, EntriesShrink, Tracked, Stale
<1>5. ASSUME NEW id \in TempIds, Age(id)
      PROVE  EntriesShrink
  <2>1. id \in Tracked /\ [currentClients[id] EXCEPT !.stale = TRUE].key = currentClients[id].key
    BY <1>5 DEF Age, Tracked, ClientRecord
  <2>2. currentClients' = [currentClients EXCEPT ![id] = [currentClients[id] EXCEPT !.stale = TRUE]]
    BY <1>5 DEF Age
  <2> QED
    BY <2>1, <2>2 DEF EntriesShrink, Tracked
<1>6. EntriesShrink
  BY <1>2, <1>3, <1>4, <1>5
  DEF ReaperStep, TakeTurn, StartReaper, LoopTest, FinishSweep, Recover, Restart, StartAnother,
      Tables, vars, serverVars
<1> QED
  BY <1>1, <1>6, ClaimsOfEntries

\* The step of the induction: only an offer adds a claim, and to an id nobody has.
LEMMA IdsStep ==
  ASSUME FreshIds, TypeOK, DialogueInv, IdOfOneKey, [Next]_vars
  PROVE  IdOfOneKey'
<1>1. ASSUME NEW s \in Sessions, SessionStep(s) \/ OfferAnyId(s)
      PROVE  IdOfOneKey'
  BY <1>1, ClaimsOfSession, ClaimsShrink, OfferKeepsIds
<1>2. CASE \E c \in Clients : DialogueStep(c)
  BY <1>2, ClaimsOfClient, ClaimsShrink
<1>3. CASE Environment
  <2>1. CASE Die /\ UNCHANGED clientVars
    BY <2>1, ClaimsDie, ClaimsShrink DEF clientVars
  <2>2. CASE StartAnother /\ UNCHANGED clientVars
    BY <2>2, ClaimsElsewhere, ClaimsShrink
  <2> QED
    BY <1>3, <2>1, <2>2, ClaimsOfClient, ClaimsShrink DEF Environment, Crash, FindUserFails
<1>4. CASE \/ \E r \in Reapers : ReaperStep(r) \/ TakeTurn(r)
           \/ \E id \in TempIds : Age(id)
           \/ Recover \/ Tables \/ UNCHANGED vars
  BY <1>4, ClaimsElsewhere, ClaimsShrink
<1> QED
  BY <1>1, <1>2, <1>3, <1>4 DEF Next

\* An id is used for one key by everybody who uses it: the entry, the session, the
\* query, the client (main.cpp:343-355, LicenseControl.cpp:224-238).
THEOREM IdsOfOneKey ==
  ASSUME FreshIds
  PROVE  Spec => []IdOfOneKey
<1>1. Init => IdOfOneKey
  BY NoneIsNothing
  DEF Init, ServerInit, SocketInit, ClientInit, IdOfOneKey, Claims, TrackedFor, Tracked,
      OfferedFor, NamedFor, KeptFor, ToldFor, Received, IdleSession
<1>2. TypeOK /\ DialogueInv /\ IdOfOneKey /\ [Next]_vars => IdOfOneKey'
  BY IdsStep
<1> QED
  BY <1>1, <1>2, TypeCorrect, DialogueInStep, PTL DEF Spec

\* The entry a client's id names is of the client's key, so that a RELEASE, which does
\* not compare keys, ends no other client's entry (main.cpp:429-440).
THEOREM HandlesOwn ==
  ASSUME FreshIds
  PROVE  Spec => []OwnHandle
<1>1. TypeOK /\ IdOfOneKey => OwnHandle
  <2> SUFFICES ASSUME TypeOK, IdOfOneKey, NEW c \in Clients, uid[c] \in Tracked
               PROVE  currentClients[uid[c]].key = KeyOf[c]
    BY DEF OwnHandle
  <2>1. uid[c] \in TempIds /\ currentClients[uid[c]] \in ClientRecord
    BY DEF TypeOK, ServerTypeOK, Tracked
  <2>2. currentClients[uid[c]].key \in Keys /\ KeyOf[c] \in Keys
    BY <2>1, ClientAssumption DEF ClientRecord
  <2>3. Claims(uid[c], currentClients[uid[c]].key) /\ Claims(uid[c], KeyOf[c])
    BY DEF Claims, TrackedFor, KeptFor
  <2> QED
    BY <2>1, <2>2, <2>3 DEF IdOfOneKey
<1> QED
  BY <1>1, TypeCorrect, IdsOfOneKey, PTL

-----------------------------------------------------------------------------
(***************************************************************************)
(* Entries that have not timed out.                                        *)
(***************************************************************************)

\* Only what has timed out is marked for deletion, and what comes back is not marked
\* (main.cpp:145-176, 398-420, 459-478).
LEMMA MarksStep ==
  ASSUME TypeOK, DialogueInv, MarkedAreStale, [Next]_vars
  PROVE  MarkedAreStale'
<1> USE NoneIsNothing DEF TypeOK, ServerTypeOK
<1>1. ASSUME \A i \in Tracked' : i \in Tracked /\ currentClients'[i] = currentClients[i],
             \A s \in Sessions : Accepted(s)' =>
               Accepted(s) /\ sess'[s].client = sess[s].client
      PROVE  MarkedAreStale'
  BY <1>1 DEF MarkedAreStale
<1>2. UNCHANGED serverVars => MarkedAreStale'
  BY <1>1 DEF serverVars, Tracked, Accepted
<1>3. ASSUME NEW s \in Sessions, SessionStep(s) \/ OfferAnyId(s)
      PROVE  MarkedAreStale'
  <2>1. /\ \A t \in Sessions : t # s => sess'[t] = sess[t]
        /\ sess[s] \in SessionRecord
    BY <1>3
    DEF SessionStep, OfferAnyId, ReadKey, FindUser, Watch, OfferId, HandleRequest, HandleCheck,
        HandleRelease, HandleUnknown, ReadKeyFails, RefuseKey, ExchangeFails, Reply, ReplyFails,
        Answer, End
  <2>2. ASSUME NEW answer, NEW client, Answer(s, answer, client),
               client # None => ~client.for_deleting,
               \A i \in Tracked' : i \in Tracked /\ currentClients'[i] = currentClients[i]
        PROVE  MarkedAreStale'
    <3>1. sess'[s].client = client
      BY <2>1, <2>2 DEF Answer, SessionRecord
    <3> QED
      BY <2>1, <2>2, <3>1 DEF MarkedAreStale, Accepted
  <2>3. CASE HandleRequest(s)
    BY <2>2, <2>3 DEF HandleRequest, Tracked
  <2>4. CASE HandleCheck(s)
    BY <2>2, <2>4 DEF HandleCheck, Names, Tracked
  <2>5. CASE HandleRelease(s) \/ HandleUnknown(s)
    BY <2>2, <2>5 DEF HandleRelease, Names, HandleUnknown, Tracked
  <2>6. CASE Reply(s)
    <3>1. sess[s].id \in TempIds /\ sess'[s].client = None
      BY <2>6 DEF Reply, At, Assigned, End, IdleSession
    <3>2. CASE sess[s].client = None
      BY <1>1, <2>1, <2>6, <3>1, <3>2 DEF Reply, Tracked, Accepted
    <3>3. CASE sess[s].client # None
      <4>1. ~[sess[s].client EXCEPT !.stale = FALSE].for_deleting
        BY <2>1, <3>3 DEF MarkedAreStale, Accepted, SessionRecord, ClientRecord
      <4>2. currentClients' = [currentClients EXCEPT ![sess[s].id] = [sess[s].client EXCEPT !.stale = FALSE]]
        BY <2>6, <3>3 DEF Reply
      <4> QED
        BY <2>1, <3>1, <4>1, <4>2 DEF MarkedAreStale, Tracked, Accepted
    <3> QED
      BY <3>2, <3>3
  <2>7. CASE \/ ReadKey(s) \/ FindUser(s) \/ Watch(s) \/ OfferAnyId(s)
             \/ ReadKeyFails(s) \/ RefuseKey(s) \/ ExchangeFails(s) \/ ReplyFails(s)
    <3>1. UNCHANGED currentClients /\ sess'[s].client \in {sess[s].client, None}
      BY <2>1, <2>7
      DEF ReadKey, FindUser, Watch, OfferAnyId, OfferId, ReadKeyFails, RefuseKey, ExchangeFails,
          ReplyFails, End, IdleSession, SessionRecord
    <3> QED
      BY <1>1, <2>1, <3>1 DEF Tracked, Accepted
  <2> QED
    BY <1>3, <2>3, <2>4, <2>5, <2>6, <2>7 DEF SessionStep
<1>4. ASSUME NEW r \in Reapers, ReaperStep(r) \/ TakeTurn(r)
      PROVE  MarkedAreStale'
  <2>1. CASE Sweep(r)
    BY <2>1 DEF Sweep, MarkedAreStale, Tracked, Stale, Accepted, ClientRecord
  <2>2. CASE ~Sweep(r)
    BY <1>1, <1>4, <2>2
    DEF ReaperStep, TakeTurn, StartReaper, LoopTest, Drain, FinishSweep, Tracked, Accepted
  <2> QED
    BY <2>1, <2>2
<1>5. ASSUME NEW id \in TempIds, Age(id)
      PROVE  MarkedAreStale'
  BY <1>5 DEF Age, MarkedAreStale, Tracked, Accepted, ClientRecord
<1>6. CASE Environment
  <2>1. Die => MarkedAreStale'
    BY DEF Die, MarkedAreStale, Tracked, Accepted, IdleSession
  <2>2. ASSUME NEW c \in Clients, NEW s \in Sessions, Accept(c, s)
        PROVE  MarkedAreStale'
    BY <1>1, <2>2 DEF Accept, Tracked, Accepted, SessionRecord
  <2> QED
    BY <1>2, <1>6, <2>1, <2>2 DEF Environment, Crash, FindUserFails, StartAnother, NotAccepted
<1>7. CASE \/ \E c \in Clients : DialogueStep(c)
           \/ Recover \/ Tables \/ UNCHANGED vars
  <2>1. UNCHANGED <<currentClients, sess>>
    BY <1>7 DEF DialogueStep, Recover, Restart, Tables, vars, serverVars
  <2> QED
    BY <1>1, <2>1 DEF Tracked, Accepted
<1> QED
  BY <1>3, <1>4, <1>5, <1>6, <1>7 DEF Next

\* An entry leaves currentClients by a reaper only when it is marked, by a session only
\* when the session works for its key, or with the process.
LEMMA EntryLeaves ==
  ASSUME TypeOK, MutexHeld, IdOfOneKey, MarkedAreStale, [Next]_vars,
         NEW i \in Tracked, ~currentClients[i].stale, i \notin Tracked', up'
  PROVE  \E s \in Sessions : m = s /\ sess[s].key = currentClients[i].key
<1> USE NoneIsNothing DEF TypeOK, ServerTypeOK
<1>1. currentClients'[i] = None /\ i \in TempIds /\ currentClients[i] \in ClientRecord
  BY DEF Tracked
<1>2. ASSUME NEW s \in Sessions, HandleCheck(s) \/ HandleRelease(s)
      PROVE  m = s /\ sess[s].key = currentClients[i].key
  <2>1. m = s /\ sess[s].key \in Keys
    BY <1>2 DEF HandleCheck, HandleRelease, Names, At, MutexHeld, Assigned, SessionRecord
  <2>2. outbox[s].arg = i /\ (Received(s, "CHECK") \/ Received(s, "RELEASE"))
    BY <1>1, <1>2 DEF HandleCheck, HandleRelease, Names
  <2>3. Claims(i, sess[s].key) /\ Claims(i, currentClients[i].key)
    BY <2>2 DEF Claims, NamedFor, TrackedFor
  <2>4. currentClients[i].key \in Keys
    BY <1>1 DEF ClientRecord
  <2> QED
    BY <1>1, <2>1, <2>3, <2>4 DEF IdOfOneKey
<1>3. ASSUME NEW s \in Sessions, Reply(s)
      PROVE  FALSE
  <2>1. sess[s].client = None \/ [sess[s].client EXCEPT !.stale = FALSE] \in ClientRecord
    BY DEF SessionRecord, ClientRecord
  <2> QED
    BY <1>1, <1>3, <2>1 DEF Reply
<1>4. ASSUME NEW r \in Reapers, Sweep(r)
      PROVE  FALSE
  <2>1. [currentClients[i] EXCEPT !.for_deleting = TRUE] \in ClientRecord
    BY <1>1 DEF ClientRecord
  <2> QED
    BY <1>1, <1>4, <2>1 DEF Sweep
<1>5. ASSUME NEW r \in Reapers, Drain(r)
      PROVE  FALSE
  BY <1>1, <1>5 DEF Drain, MarkedAreStale
<1>6. ASSUME NEW id \in TempIds, Age(id)
      PROVE  FALSE
  <2>1. [currentClients[id] EXCEPT !.stale = TRUE] \in ClientRecord
    BY <1>6 DEF Age, Tracked, ClientRecord
  <2>2. currentClients' = [currentClients EXCEPT ![id] = [currentClients[id] EXCEPT !.stale = TRUE]]
    BY <1>6 DEF Age
  <2> QED
    BY <1>1, <2>1, <2>2
<1>7. ~Die
  BY DEF Die
<1>8. currentClients' # currentClients
  BY <1>1
<1> QED
  BY <1>2, <1>3, <1>4, <1>5, <1>6, <1>7, <1>8
  DEF Next, SessionStep, ReadKey, ReadKeyFails, FindUser, Watch, RefuseKey, ExchangeFails,
      HandleRequest, HandleUnknown, ReplyFails, OfferAnyId, OfferId, ReaperStep, TakeTurn,
      StartReaper, LoopTest, FinishSweep, DialogueStep, Recover, Restart, Environment, Crash,
      FindUserFails, StartAnother, NotAccepted, Accept, Tables, vars, serverVars

\* A client that keeps answering in time is not dropped: its entry leaves only in a
\* session of its own key, or with the process (main.cpp:145-207, 394-443).
THEOREM FreshEntriesKept ==
  ASSUME FreshIds
  PROVE  Spec => FreshEntryKept
<1>1. Init => MarkedAreStale
  BY DEF Init, ServerInit, MarkedAreStale, Tracked, Accepted, IdleSession
<1>2. TypeOK /\ DialogueInv /\ MarkedAreStale /\ [Next]_vars => MarkedAreStale'
  BY MarksStep
<1>3. TypeOK /\ MutexHeld /\ IdOfOneKey /\ MarkedAreStale /\ [Next]_vars =>
        [\A i \in Tracked :
           ~currentClients[i].stale /\ i \notin Tracked' /\ up' =>
             \E s \in Sessions : m = s /\ sess[s].key = currentClients[i].key]_vars
  BY EntryLeaves
<1> QED
  BY <1>1, <1>2, <1>3, TypeCorrect, MutualExclusion, DialogueInStep, IdsOfOneKey, PTL
  DEF Spec, FreshEntryKept
=============================================================================
