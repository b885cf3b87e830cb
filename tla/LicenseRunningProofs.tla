------------------------- MODULE LicenseRunningProofs -------------------------
(***************************************************************************)
(* What a running client relies on, for every number of clients, sessions, *)
(* reapers, licenses, keys and ids: between its checks it is tracked, and  *)
(* nobody else is confirmed for its key.                                   *)
(***************************************************************************)
EXTENDS LicenseHolderProofs

\* Nothing ends the server, the clients are in time, ids are fresh.
Undisturbed ==
  /\ FreshIds /\ Timely
  /\ Faults \cap {"crash", "connect"} = {}

-----------------------------------------------------------------------------
(***************************************************************************)
(* What a step leaves alone.                                               *)
(***************************************************************************)

\* What client c, its socket and its session hold.
Unseen(c) ==
  /\ cpc'[c] = cpc[c] /\ query'[c] = query[c] /\ uid'[c] = uid[c] /\ status'[c] = status[c]
  /\ conn'[c] = conn[c] /\ inbox'[c] = inbox[c]
  /\ conn[c] # None => outbox'[conn[c]] = outbox[conn[c]] /\ sess'[conn[c]] = sess[conn[c]]

\* The steps of a client, of the network between it and the server, and the accept.
ClientStep(c) ==
  \/ DialogueStep(c)
  \/ Start(c) /\ UNCHANGED <<serverVars, dbVars>>
  \/ Vanish(c) /\ UNCHANGED <<serverVars, dbVars>>
  \/ NetworkReset(c) /\ UNCHANGED <<serverVars, dbVars>>
  \/ NotAccepted(c)
  \/ \E s \in Sessions : Accept(c, s)

\* The steps of nobody's session and nobody's client.
OtherStep ==
  \/ \E r \in Reapers : ReaperStep(r) \/ TakeTurn(r)
  \/ \E id \in TempIds : Age(id)
  \/ Recover
  \/ StartAnother /\ UNCHANGED clientVars
  \/ Tables
  \/ UNCHANGED vars

\* Without a fault that ends the server every step is one of these.
LEMMA StepOfOne ==
  ASSUME Faults \cap {"crash", "connect"} = {}, [Next]_vars
  PROVE  \/ \E s \in Sessions : SessionStep(s) \/ OfferAnyId(s)
         \/ \E c \in Clients : ClientStep(c)
         \/ OtherStep
BY DEF Next, Environment, Crash, FindUserFails, ClientStep, OtherStep

\* A session changes its own client's view only.
LEMMA SessionUnseen ==
  ASSUME TypeOK, NEW s \in Sessions, SessionStep(s) \/ OfferAnyId(s),
         NEW c \in Clients, conn[c] # s
  PROVE  Unseen(c)
<1> USE NoneIsNothing DEF TypeOK, ServerTypeOK, SocketTypeOK
<1>1. UNCHANGED clientVars
  BY DEF SessionStep, OfferAnyId
<1>2. CASE \/ ReadKeyFails(s) \/ RefuseKey(s) \/ ExchangeFails(s) \/ Reply(s) \/ ReplyFails(s)
  <2>1. End(s) /\ inbox'[c] = inbox[c]
    BY <1>2 DEF ReadKeyFails, RefuseKey, ExchangeFails, Reply, ReplyFails, ToClient
  <2> QED
    BY <1>1, <2>1 DEF Unseen, clientVars, End, Without
<1>3. CASE \/ HandleRequest(s) \/ HandleCheck(s) \/ HandleRelease(s) \/ HandleUnknown(s)
  <2>1. \E answer, client : Answer(s, answer, client)
    BY <1>3 DEF HandleRequest, HandleCheck, HandleRelease, HandleUnknown
  <2> QED
    BY <1>1, <2>1 DEF Unseen, clientVars, Answer
<1>4. CASE ReadKey(s) \/ FindUser(s) \/ Watch(s) \/ OfferAnyId(s)
  <2>1. /\ conn' = conn /\ inbox'[c] = inbox[c]
        /\ \A t \in Sessions : t # s => outbox'[t] = outbox[t] /\ sess'[t] = sess[t]
    BY <1>4 DEF ReadKey, FindUser, Watch, OfferAnyId, OfferId, ToClient, socketVars
  <2> QED
    BY <1>1, <2>1 DEF Unseen, clientVars
<1> QED
  BY <1>2, <1>3, <1>4 DEF SessionStep

\* A client changes its own view only.
LEMMA ClientUnseen ==
  ASSUME TypeOK, DialogueInv, NEW d \in Clients, ClientStep(d), NEW c \in Clients, c # d
  PROVE  Unseen(c)
<1> USE NoneIsNothing DEF TypeOK, ServerTypeOK, SocketTypeOK
<1>1. /\ cpc'[c] = cpc[c] /\ query'[c] = query[c] /\ uid'[c] = uid[c] /\ status'[c] = status[c]
      /\ conn'[c] = conn[c] /\ inbox'[c] = inbox[c]
  BY DEF ClientStep, DialogueStep, SendKey, ExchangeError, KeyGood, KeyRefused, LicenseGood,
         LicenseRefused, Start, Vanish, NetworkReset, NotAccepted, ConnectFails, Accept, Connect,
         Return, clientVars, socketVars, ClientTypeOK
<1>2. conn[c] # None => conn[c] # conn[d]
  BY DEF DialogueInv, OneConnection
<1>3. ASSUME NEW s \in Sessions, Accept(d, s), conn[c] # None
      PROVE  outbox'[conn[c]] = outbox[conn[c]] /\ sess'[conn[c]] = sess[conn[c]]
  <2>1. conn[c] # s /\ conn[c] \in Sessions
    BY <1>3 DEF Accept, DialogueInv, InStep, InPhase, At
  <2> QED
    BY <1>3, <2>1 DEF Accept, Connect
<1>4. ASSUME UNCHANGED sess, ~\E s \in Sessions : Accept(d, s), conn[c] # None
      PROVE  outbox'[conn[c]] = outbox[conn[c]]
  BY <1>2, <1>4
  DEF ClientStep, DialogueStep, SendKey, ExchangeError, KeyGood, KeyRefused, LicenseGood,
      LicenseRefused, Start, Vanish, NetworkReset, NotAccepted, ConnectFails, socketVars
<1>5. (~\E s \in Sessions : Accept(d, s)) => UNCHANGED sess
  BY DEF ClientStep, DialogueStep, NotAccepted, serverVars
<1> QED
  BY <1>1, <1>3, <1>4, <1>5 DEF Unseen

\* The others change no client's view.
LEMMA OtherUnseen ==
  ASSUME OtherStep, NEW c \in Clients
  PROVE  Unseen(c)
BY DEF OtherStep, ReaperStep, TakeTurn, StartReaper, LoopTest, Drain, FinishSweep, Sweep, Age,
       Recover, Restart, StartAnother, Tables, vars, serverVars, clientVars, socketVars, Unseen

-----------------------------------------------------------------------------
(***************************************************************************)
(* Every id in one place.                                                  *)
(***************************************************************************)

\* Clients, answers and queries only forget ids.
LEMMA PlacesForgotten ==
  ASSUME IdInOnePlace,
         \A c \in Clients : uid'[c] \in {uid[c], None},
         \A c \in Clients : Told(c)' => Told(c) /\ inbox'[c] = inbox[c],
         \A s \in Sessions : Naming(s)' => Naming(s) /\ outbox'[s] = outbox[s],
         \A c \in Clients : Told(c) => inbox[c].arg # None
  PROVE  IdInOnePlace'
BY DEF IdInOnePlace, Naming

\* The id a client is told is an id.
LEMMA ToldId ==
  ASSUME TypeOK, NEW c \in Clients, Told(c)
  PROVE  inbox[c].arg \in TempIds /\ inbox[c].arg # None
BY NoneIsNothing, Arguments DEF TypeOK, SocketTypeOK, Told

\* The steps of a session that offer nothing.
LEMMA PlacesOfSession ==
  ASSUME TypeOK, IdInOnePlace, NEW s \in Sessions, SessionStep(s)
  PROVE  IdInOnePlace'
<1> USE NoneIsNothing DEF TypeOK, ServerTypeOK, SocketTypeOK
<1>1. UNCHANGED uid
  BY DEF SessionStep, clientVars
<1>2. \A t \in Sessions : outbox'[t] \in {outbox[t], None}
  BY DEF SessionStep, ReadKey, ReadKeyFails, FindUser, Watch, RefuseKey, ExchangeFails,
         HandleRequest, HandleCheck, HandleRelease, HandleUnknown, Reply, ReplyFails, End, Answer,
         socketVars
<1>3. \A c \in Clients : inbox'[c] = inbox[c] \/ inbox'[c].type # "KEY_ANSWER_GOOD"
  <2>1. CASE Reply(s)
    <3>1. sess[s].answer # "KEY_ANSWER_GOOD"
      BY <2>1 DEF Reply, At, Assigned, LicenseAnswers
    <3> QED
      BY <2>1, <3>1 DEF Reply, ToClient, Msg
  <2>2. CASE RefuseKey(s)
    BY <2>2 DEF RefuseKey, ToClient, Msg
  <2>3. CASE ~Reply(s) /\ ~RefuseKey(s)
    BY <2>3
    DEF SessionStep, ReadKey, ReadKeyFails, FindUser, Watch, ExchangeFails, HandleRequest,
        HandleCheck, HandleRelease, HandleUnknown, ReplyFails, Answer, socketVars
  <2> QED
    BY <2>1, <2>2, <2>3
<1>4. \A c \in Clients : Told(c)' => Told(c) /\ inbox'[c] = inbox[c]
  BY <1>3 DEF Told
<1>5. \A t \in Sessions : Naming(t)' => Naming(t) /\ outbox'[t] = outbox[t]
  BY <1>2 DEF Naming, Received
<1> QED
  BY <1>1, <1>4, <1>5, PlacesForgotten, ToldId

\* The id that is offered is in no place yet.
LEMMA PlacesOfOffer ==
  ASSUME FreshIds, TypeOK, DialogueInv, IdInOnePlace, NEW s \in Sessions, OfferAnyId(s)
  PROVE  IdInOnePlace'
<1> USE NoneIsNothing DEF TypeOK, SocketTypeOK
<1>1. PICK id \in TempIds : id \notin Remembered /\ OfferId(s, id)
  BY DEF OfferAnyId
<1>2. /\ UNCHANGED <<outbox, uid>>
      /\ \A c \in Clients : inbox'[c] = IF conn[c] = s THEN Msg("KEY_ANSWER_GOOD", id) ELSE inbox[c]
  BY <1>1 DEF OfferAnyId, OfferId, ToClient, clientVars
<1>3. /\ \A c \in Clients : uid[c] # id
      /\ \A c \in Clients : Told(c) => inbox[c].arg # id
      /\ \A t \in Sessions : Naming(t) => outbox[t].arg # id
  BY <1>1 DEF Remembered, Told, Naming, Received
<1>4. \A c \in Clients : Told(c)' => \/ conn[c] = s /\ inbox'[c].arg = id
                                     \/ conn[c] # s /\ Told(c) /\ inbox'[c] = inbox[c]
  BY <1>2 DEF Told, Msg
<1>5. \A c, d \in Clients : conn[c] = s /\ conn[d] = s => c = d
  BY DEF DialogueInv, OneConnection
<1>6. \A t \in Sessions : Naming(t)' => Naming(t)
  BY <1>2 DEF Naming, Received
<1> QED
  BY <1>2, <1>3, <1>4, <1>5, <1>6 DEF IdInOnePlace

\* The client takes the id it was told, and names the one it had.
LEMMA PlacesOfKeyGood ==
  ASSUME TypeOK, IdInOnePlace, NEW c \in Clients, KeyGood(c)
  PROVE  IdInOnePlace'
<1> USE NoneIsNothing DEF TypeOK, SocketTypeOK, ClientTypeOK
<1>1. /\ Told(c) /\ uid'[c] = inbox[c].arg /\ ~Told(c)'
      /\ \A d \in Clients : d # c => uid'[d] = uid[d] /\ inbox'[d] = inbox[d]
  BY DEF KeyGood, Told
<1>2. \A d \in Clients : Told(d)' => d # c /\ Told(d) /\ inbox'[d] = inbox[d]
  BY <1>1 DEF Told
<1>3. ASSUME NEW s \in Sessions, Naming(s)'
      PROVE  \/ s = conn[c] /\ outbox'[s].arg = uid[c] /\ uid[c] # None
             \/ s # conn[c] /\ Naming(s) /\ outbox'[s] = outbox[s]
  <2>1. CASE s # conn[c]
    BY <1>3, <2>1 DEF KeyGood, Naming, Received
  <2>2. CASE s = conn[c]
    <3>1. outbox'[s] = Msg(query[c], IF query[c] = "REQUEST" THEN UserIdOf[c] ELSE uid[c])
      BY <2>2 DEF KeyGood
    <3> QED
      BY <1>3, <2>2, <3>1 DEF Naming, Received, Msg
  <2> QED
    BY <2>1, <2>2
<1>4. inbox[c].arg # None
  BY <1>1, ToldId
<1>5. \A d, e \in Clients : uid'[d] # None /\ uid'[d] = uid'[e] => d = e
  BY <1>1 DEF IdInOnePlace
<1>6. \A d, e \in Clients : Told(d)' => inbox'[d].arg # uid'[e]
  BY <1>1, <1>2 DEF IdInOnePlace
<1>7. \A d, e \in Clients : Told(d)' /\ Told(e)' /\ inbox'[d].arg = inbox'[e].arg => d = e
  BY <1>2 DEF IdInOnePlace
<1>8. ASSUME NEW s \in Sessions, Naming(s)', NEW d \in Clients
      PROVE  outbox'[s].arg # uid'[d] /\ (Told(d)' => outbox'[s].arg # inbox'[d].arg)
  BY <1>1, <1>2, <1>3, <1>8 DEF IdInOnePlace
<1>9. ASSUME NEW s \in Sessions, NEW t \in Sessions, Naming(s)', Naming(t)',
             outbox'[s].arg = outbox'[t].arg
      PROVE  s = t
  BY <1>3, <1>9 DEF IdInOnePlace
<1> QED
  BY <1>5, <1>6, <1>7, <1>8, <1>9 DEF IdInOnePlace

\* The other steps of a client.
LEMMA PlacesOfClient ==
  ASSUME TypeOK, IdInOnePlace, NEW c \in Clients, ClientStep(c)
  PROVE  IdInOnePlace'
<1> USE NoneIsNothing DEF TypeOK, SocketTypeOK, ClientTypeOK
<1>1. CASE KeyGood(c)
  BY <1>1, PlacesOfKeyGood
<1>2. CASE ~KeyGood(c)
  <2>1. \A d \in Clients : uid'[d] \in {uid[d], None} /\ inbox'[d] \in {inbox[d], None}
    BY <1>2
    DEF ClientStep, DialogueStep, SendKey, ExchangeError, KeyRefused, LicenseGood,
        LicenseRefused, Start, Vanish, NetworkReset, NotAccepted, ConnectFails, Accept, Connect,
        Return, clientVars, socketVars
  <2>2. ASSUME NEW s \in Sessions
        PROVE  outbox'[s] \in {outbox[s], None, Msg("KEY", KeyOf[c])}
    BY <1>2
    DEF ClientStep, DialogueStep, SendKey, ExchangeError, KeyRefused, LicenseGood,
        LicenseRefused, Start, Vanish, NetworkReset, NotAccepted, ConnectFails, Accept, Connect,
        Return, clientVars, socketVars
  <2>3. \A d \in Clients : Told(d)' => Told(d) /\ inbox'[d] = inbox[d]
    BY <2>1 DEF Told
  <2>4. \A s \in Sessions : Naming(s)' => Naming(s) /\ outbox'[s] = outbox[s]
    BY <2>2 DEF Naming, Received, Msg
  <2> QED
    BY <2>1, <2>3, <2>4, PlacesForgotten, ToldId
<1> QED
  BY <1>1, <1>2

\* The step of the induction.
LEMMA PlacesStep ==
  ASSUME Undisturbed, TypeOK, DialogueInv, IdInOnePlace, [Next]_vars
  PROVE  IdInOnePlace'
<1>1. ASSUME NEW s \in Sessions, SessionStep(s) \/ OfferAnyId(s)
      PROVE  IdInOnePlace'
  BY <1>1, PlacesOfSession, PlacesOfOffer DEF Undisturbed
<1>2. ASSUME NEW c \in Clients, ClientStep(c)
      PROVE  IdInOnePlace'
  BY <1>2, PlacesOfClient
<1>3. CASE OtherStep
  <2>1. UNCHANGED <<socketVars, uid>>
    BY <1>3
    DEF OtherStep, ReaperStep, TakeTurn, StartReaper, LoopTest, Drain, FinishSweep, Sweep, Age,
        Recover, Restart, StartAnother, Tables, vars, serverVars, clientVars, socketVars
  <2> QED
    BY <2>1 DEF socketVars, IdInOnePlace, Told, Naming, Received
<1> QED
  BY <1>1, <1>2, <1>3, StepOfOne DEF Undisturbed

-----------------------------------------------------------------------------
(***************************************************************************)
(* The entry of a client that is in time.                                  *)
(***************************************************************************)

\* It stays, unless a query names it (main.cpp:145-207, 394-478).
LEMMA LiveStays ==
  ASSUME Undisturbed, TypeOK, DialogueInv, IdOfOneKey, MarkedAreStale, [Next]_vars,
         NEW i \in TempIds, NEW k \in Keys, Live(i, k), InUse(i),
         \A s \in Sessions : HandleCheck(s) \/ HandleRelease(s) => outbox[s].arg # i
  PROVE  Live(i, k)'
<1> USE NoneIsNothing DEF TypeOK, ServerTypeOK
<1>1. i \in Tracked /\ currentClients[i].key = k /\ ~currentClients[i].stale
  BY DEF Live, TrackedFor
<1>2. currentClients[i] \in ClientRecord
  BY <1>1 DEF Tracked
<1>3. currentClients'[i] = currentClients[i] => Live(i, k)'
  BY <1>1, <1>2 DEF Live, TrackedFor, Tracked
<1>4. ASSUME NEW s \in Sessions, SessionStep(s) \/ OfferAnyId(s)
      PROVE  Live(i, k)'
  <2>1. CASE HandleCheck(s) \/ HandleRelease(s)
    <3>1. outbox[s].arg # i
      BY <2>1
    <3>2. UNCHANGED currentClients \/ currentClients' = [currentClients EXCEPT ![outbox[s].arg] = None]
      BY <2>1 DEF HandleCheck, HandleRelease
    <3> QED
      BY <1>3, <3>1, <3>2
  <2>2. CASE Reply(s)
    <3>1. CASE sess[s].client = None \/ sess[s].id # i
      BY <1>3, <2>2, <3>1 DEF Reply
    <3>2. CASE sess[s].client # None /\ sess[s].id = i
      <4> DEFINE entry == [sess[s].client EXCEPT !.stale = FALSE]
      <4>1. sess[s] \in SessionRecord /\ sess[s].client \in ClientRecord
        BY <3>2 DEF SessionRecord
      <4>2. entry.key = sess[s].client.key /\ ~entry.stale /\ entry # None
        BY <4>1 DEF ClientRecord
      <4>3. sess[s].client.key = sess[s].key
        BY <3>2 DEF DialogueInv, LocalsInScope, Accepted
      <4>4. sess[s].key = k
        <5>1. Claims(i, k) /\ Claims(i, sess[s].key)
          BY <1>1, <3>2 DEF Claims, TrackedFor, OfferedFor
        <5>2. sess[s].key \in Keys \cup {None}
          BY <4>1 DEF SessionRecord
        <5> QED
          BY <5>1, <5>2 DEF IdOfOneKey
      <4>5. currentClients'[i] = entry
        BY <2>2, <3>2 DEF Reply
      <4> HIDE DEF entry
      <4> QED
        BY <4>2, <4>3, <4>4, <4>5 DEF Live, TrackedFor, Tracked
    <3> QED
      BY <3>1, <3>2
  <2>3. CASE \/ ReadKey(s) \/ FindUser(s) \/ Watch(s) \/ OfferAnyId(s)
             \/ ReadKeyFails(s) \/ RefuseKey(s) \/ ExchangeFails(s) \/ ReplyFails(s)
             \/ HandleRequest(s) \/ HandleUnknown(s)
    <3>1. UNCHANGED currentClients
      BY <2>3
      DEF ReadKey, FindUser, Watch, OfferAnyId, OfferId, ReadKeyFails, RefuseKey, ExchangeFails,
          ReplyFails, HandleRequest, HandleUnknown
    <3> QED
      BY <1>3, <3>1
  <2> QED
    BY <1>4, <2>1, <2>2, <2>3 DEF SessionStep
<1>5. ASSUME NEW c \in Clients, ClientStep(c)
      PROVE  Live(i, k)'
  <2>1. UNCHANGED currentClients
    BY <1>5 DEF ClientStep, DialogueStep, NotAccepted, Accept, serverVars
  <2> QED
    BY <1>3, <2>1
<1>6. CASE OtherStep
  <2>1. ASSUME NEW r \in Reapers, Sweep(r)
        PROVE  currentClients'[i] = currentClients[i]
    BY <1>1, <2>1 DEF Sweep, Stale
  <2>2. ASSUME NEW r \in Reapers, Drain(r)
        PROVE  currentClients'[i] = currentClients[i]
    BY <1>1, <2>2 DEF Drain, MarkedAreStale
  <2>3. ASSUME NEW id \in TempIds, Age(id)
        PROVE  currentClients'[i] = currentClients[i]
    BY <2>3 DEF Age, Undisturbed
  <2>4. currentClients'[i] = currentClients[i]
    BY <1>6, <2>1, <2>2, <2>3
    DEF OtherStep, ReaperStep, TakeTurn, StartReaper, LoopTest, FinishSweep, Recover, Restart,
        StartAnother, Tables, vars, serverVars
  <2> QED
    BY <1>3, <2>4
<1> QED
  BY <1>4, <1>5, <1>6, StepOfOne DEF Undisturbed

\* A client whose view does not change is followed on (main.cpp:145-207, 394-478).
LEMMA FollowedUnseen ==
  ASSUME Undisturbed, TypeOK, DialogueInv, IdOfOneKey, MarkedAreStale, IdInOnePlace, [Next]_vars,
         NEW c \in Clients, KnowsOffer(c), StatusFits(c), Followed(c), Unseen(c)
  PROVE  KnowsOffer(c)' /\ StatusFits(c)' /\ Followed(c)'
<1> USE NoneIsNothing
<1>1. KeyOf[c] \in Keys
  BY ClientAssumption
<1>2. KnowsOffer(c)' /\ StatusFits(c)'
  BY DEF Unseen, KnowsOffer, StatusFits, Told
<1>3. ASSUME NEW s \in Sessions, HandleCheck(s) \/ HandleRelease(s)
      PROVE  /\ Naming(s) /\ At(s, "exchange") /\ ~At(s, "exchange")'
  <2>1. Received(s, "CHECK") \/ Received(s, "RELEASE")
    BY <1>3 DEF HandleCheck, HandleRelease, Names
  <2>2. outbox[s].arg \in Tracked
    BY <1>3 DEF HandleCheck, HandleRelease, Names
  <2>3. \E answer : \E client : Answer(s, answer, client)
    BY <1>3 DEF HandleCheck, HandleRelease
  <2>4. sess'[s].pc = "reply"
    BY <2>3 DEF Answer, TypeOK, ServerTypeOK, SessionRecord
  <2> QED
    BY <1>3, <2>1, <2>2, <2>4 DEF Naming, HandleCheck, HandleRelease, Names, Tracked, At
<1>4. ASSUME Live(uid[c], KeyOf[c]), cpc[c] # "off"
      PROVE  Live(uid[c], KeyOf[c])'
  <2>1. uid[c] \in TempIds /\ InUse(uid[c])
    BY <1>4 DEF Live, TrackedFor, Tracked, InUse
  <2>2. \A s \in Sessions : HandleCheck(s) \/ HandleRelease(s) => outbox[s].arg # uid[c]
    BY <1>3 DEF IdInOnePlace
  <2>3. PICK i \in TempIds : i = uid[c]
    BY <2>1
  <2>4. Live(i, KeyOf[c])'
    BY <1>1, <1>4, <2>1, <2>2, <2>3, LiveStays
  <2> QED
    BY <2>3, <2>4 DEF Unseen, Live, TrackedFor
<1>5. /\ Licensed(c)' = Licensed(c) /\ cpc'[c] = cpc[c] /\ query'[c] = query[c]
      /\ inbox'[c] = inbox[c] /\ AnsweredTo(c)' = AnsweredTo(c) /\ DecidedFor(c)' = DecidedFor(c)
  BY DEF Unseen, Licensed, AnsweredTo, DecidedFor, At
<1>6. Licensed(c)' /\ cpc'[c] # "licenseAnswer" => Live(uid[c], KeyOf[c])'
  BY <1>4, <1>5 DEF Followed, Licensed
<1>7. ASSUME cpc'[c] = "licenseAnswer", conn'[c] # None, At(conn[c], "exchange")'
      PROVE  /\ Received(conn[c], query[c])'
             /\ query[c] = "CHECK" => Live(outbox[conn[c]].arg, KeyOf[c])'
  <2>1. /\ cpc[c] = "licenseAnswer" /\ conn[c] # None /\ conn[c] \in Sessions
        /\ At(conn[c], "exchange") /\ outbox'[conn[c]] = outbox[conn[c]] /\ conn'[c] = conn[c]
    BY <1>7 DEF Unseen, At, TypeOK, SocketTypeOK
  <2>2. Received(conn[c], query[c])'
    BY <1>5, <2>1 DEF Followed, Received
  <2>3. ASSUME query[c] = "CHECK"
        PROVE  Live(outbox[conn[c]].arg, KeyOf[c])'
    <3>1. Live(outbox[conn[c]].arg, KeyOf[c]) /\ Received(conn[c], "CHECK")
      BY <2>1, <2>3 DEF Followed
    <3>2. PICK i \in TempIds : i = outbox[conn[c]].arg
      BY <3>1 DEF Live, TrackedFor, Tracked
    <3>3. InUse(i) /\ Naming(conn[c])
      BY <2>1, <3>1, <3>2 DEF InUse, Naming, Received
    <3>4. \A s \in Sessions : HandleCheck(s) \/ HandleRelease(s) => outbox[s].arg # i
      BY <1>3, <1>7, <2>1, <3>2, <3>3 DEF IdInOnePlace
    <3>5. Live(i, KeyOf[c])'
      BY <1>1, <3>1, <3>2, <3>3, <3>4, LiveStays
    <3> QED
      BY <2>1, <3>2, <3>5 DEF Live, TrackedFor
  <2> QED
    BY <2>2, <2>3
<1>8. DecidedFor(c)' /\ Confirming(sess[conn[c]].answer)' => Accepted(conn[c])' /\ query'[c] # "RELEASE"
  <2>1. conn[c] # None => sess'[conn'[c]] = sess[conn[c]] /\ conn'[c] = conn[c]
    BY DEF Unseen
  <2>2. DecidedFor(c)' => /\ DecidedFor(c)
                          /\ sess'[conn'[c]].answer = sess[conn[c]].answer
                          /\ Accepted(conn[c])' = Accepted(conn[c])
    BY <1>5, <2>1 DEF DecidedFor, Accepted
  <2>3. Confirming(sess[conn[c]].answer)' => Confirming(sess'[conn'[c]].answer)
    BY DEF Confirming
  <2> QED
    BY <1>5, <2>2, <2>3 DEF Followed, Confirming
<1>9. AnsweredTo(c)' /\ Confirming(inbox[c].type)' => Live(uid[c], KeyOf[c])' /\ query'[c] # "RELEASE"
  BY <1>4, <1>5 DEF Followed, AnsweredTo, Confirming
<1> QED
  BY <1>2, <1>5, <1>6, <1>7, <1>8, <1>9 DEF Followed

\* A client waits for the answer to its key: its session comes nearer to it, or ends.
LEMMA FollowedEarly ==
  ASSUME NEW c \in Clients, StatusFits(c), Followed(c), UNCHANGED <<clientVars, currentClients>>,
         cpc[c] = "keyAnswer", ~DecidedFor(c)'
  PROVE  StatusFits(c)' /\ Followed(c)'
<1>1. UNCHANGED <<cpc, query, uid, status>>
  BY DEF clientVars
<1>2. Live(uid[c], KeyOf[c])' = Live(uid[c], KeyOf[c])
  BY <1>1 DEF Live, TrackedFor, Tracked
<1>3. Licensed(c)' = Licensed(c) /\ ~AnsweredTo(c)'
  BY <1>1 DEF Licensed, AnsweredTo
<1> QED
  BY <1>1, <1>2, <1>3 DEF StatusFits, Followed

\* The query is answered: what is confirmed is accepted for the session's client.
LEMMA FollowedByHandler ==
  ASSUME TypeOK, DialogueInv, NEW s \in Sessions, SessionStep(s),
         HandleRequest(s) \/ HandleCheck(s) \/ HandleRelease(s) \/ HandleUnknown(s),
         NEW c \in Clients, conn[c] = s, KnowsOffer(c), StatusFits(c), Followed(c)
  PROVE  KnowsOffer(c)' /\ StatusFits(c)' /\ Followed(c)'
<1> USE NoneIsNothing
<1>1. /\ At(s, "exchange") /\ outbox[s] # None /\ UNCHANGED clientVars
      /\ conn[c] # None /\ conn[c] \in Sessions
  BY DEF HandleRequest, HandleCheck, HandleRelease, HandleUnknown, Names, Received, SessionStep
<1>2. cpc[c] = "licenseAnswer" /\ inbox[c] = None /\ Received(s, query[c])
  BY <1>1, PeerPhase DEF InPhase, At, Followed
<1>3. UNCHANGED <<cpc, query, uid, status>>
  BY <1>1 DEF clientVars
<1>4. \E answer : \E client :
        /\ Answer(s, answer, client)
        /\ Confirming(answer) => client # None /\ query[c] # "RELEASE"
  <2>1. CASE HandleRequest(s)
    <3>1. query[c] = "REQUEST"
      BY <1>2, <2>1 DEF HandleRequest, Received
    <3>2. sess[s].key \in Keys /\ sess[s].user \in Users /\ outbox[s].arg = sess[s].user
      BY <1>1, <2>1 DEF HandleRequest, TypeOK, ServerTypeOK, Assigned, At
    <3>3. ASSUME NEW ret \in Licenses
          PROVE  [user |-> outbox[s].arg, license |-> ret, key |-> sess[s].key,
                  stale |-> FALSE, for_deleting |-> FALSE] \in ClientRecord
      BY <3>2 DEF ClientRecord
    <3>4. PICK ret \in Licenses \cup {None} :
            \/ /\ ret # None
               /\ Answer(s, "LICENSE_ANSWER_GOOD",
                         [user |-> outbox[s].arg, license |-> ret, key |-> sess[s].key,
                          stale |-> FALSE, for_deleting |-> FALSE])
            \/ ret = None /\ Answer(s, "LICENSE_ANSWER_BUSY", None)
      BY <2>1 DEF HandleRequest
    <3>5. \/ \E client \in ClientRecord : Answer(s, "LICENSE_ANSWER_GOOD", client)
          \/ Answer(s, "LICENSE_ANSWER_BUSY", None)
      BY <3>3, <3>4
    <3> QED
      BY <3>1, <3>5 DEF Confirming
  <2>2. CASE HandleCheck(s)
    <3>1. query[c] = "CHECK"
      BY <1>2, <2>2 DEF HandleCheck, Names, Received
    <3>2. currentClients[outbox[s].arg] # None
      BY <2>2 DEF HandleCheck, Names, Tracked
    <3> QED
      BY <2>2, <3>1, <3>2 DEF HandleCheck, Confirming
  <2>3. CASE HandleRelease(s) \/ HandleUnknown(s)
    BY <2>3 DEF HandleRelease, HandleUnknown, Confirming
  <2> QED
    BY <2>1, <2>2, <2>3
<1>5. PICK answer, client :
        /\ Answer(s, answer, client)
        /\ Confirming(answer) => client # None /\ query[c] # "RELEASE"
  BY <1>4
<1>6. /\ sess'[s].pc = "reply" /\ sess'[s].answer = answer /\ sess'[s].client = client
      /\ sess'[s].id = sess[s].id /\ conn' = conn /\ inbox' = inbox
  BY <1>5 DEF Answer, TypeOK, ServerTypeOK, SessionRecord
<1>7. KnowsOffer(c)' /\ StatusFits(c)'
  BY <1>1, <1>2, <1>3, <1>6 DEF KnowsOffer, StatusFits, Told
<1>8. ~At(s, "exchange")' /\ ~AnsweredTo(c)' /\ Accepted(s)' = (client # None)
  BY <1>2, <1>6 DEF At, AnsweredTo, Accepted
<1>9. Confirming(sess[conn[c]].answer)' => Confirming(answer)
  BY <1>6 DEF Confirming
<1>10. /\ conn'[c] = s /\ cpc'[c] = "licenseAnswer" /\ query'[c] = query[c]
  BY <1>2, <1>3, <1>6
<1> QED
  BY <1>5, <1>7, <1>8, <1>9, <1>10 DEF Followed, At, Accepted

\* The answer is written, and the client it accepts inserted under the id it has been
\* told (main.cpp:459-478).
LEMMA FollowedByReply ==
  ASSUME TypeOK, DialogueInv, NEW s \in Sessions, Reply(s), UNCHANGED clientVars,
         NEW c \in Clients, conn[c] = s, KnowsOffer(c), StatusFits(c), Followed(c)
  PROVE  KnowsOffer(c)' /\ StatusFits(c)' /\ Followed(c)'
<1> USE NoneIsNothing
<1>1. /\ At(s, "reply") /\ conn[c] # None /\ conn[c] \in Sessions
      /\ sess[s] \in SessionRecord /\ sess[s].answer \in LicenseAnswers /\ sess[s].id \in TempIds
  BY DEF Reply, At, TypeOK, ServerTypeOK, Assigned
<1>2. cpc[c] = "licenseAnswer" /\ uid[c] = sess[s].id /\ sess[s].key = KeyOf[c]
  BY <1>1, PeerPhase DEF InPhase, At, KnowsOffer
<1>3. UNCHANGED <<cpc, query, uid, status>>
  BY DEF clientVars
<1>4. conn'[c] = None /\ inbox'[c] = Msg(sess[s].answer, None)
  BY DEF Reply, End, Without, ToClient
<1>5. ~Told(c)' /\ ~DecidedFor(c)' /\ inbox'[c].type = sess[s].answer
  BY <1>1, <1>4 DEF Told, DecidedFor, Msg, LicenseAnswers
<1>6. KnowsOffer(c)' /\ StatusFits(c)'
  BY <1>3, <1>4, <1>5 DEF KnowsOffer, StatusFits
<1>7. ASSUME Confirming(sess[s].answer)
      PROVE  Live(uid[c], KeyOf[c])' /\ query'[c] # "RELEASE"
  <2> DEFINE entry == [sess[s].client EXCEPT !.stale = FALSE]
  <2>1. Accepted(s) /\ query[c] # "RELEASE"
    BY <1>1, <1>7 DEF Followed, DecidedFor
  <2>2. sess[s].client \in ClientRecord /\ sess[s].client.key = KeyOf[c]
    BY <1>1, <1>2, <2>1 DEF Accepted, SessionRecord, DialogueInv, LocalsInScope
  <2>3. entry.key = KeyOf[c] /\ ~entry.stale /\ entry # None
    BY <2>2 DEF ClientRecord
  <2>4. currentClients'[sess[s].id] = entry
    BY <1>1, <2>1 DEF Reply, Accepted, TypeOK, ServerTypeOK
  <2> HIDE DEF entry
  <2> QED
    BY <1>1, <1>2, <1>3, <2>1, <2>3, <2>4 DEF Live, TrackedFor, Tracked
<1>8. Confirming(inbox[c].type)' => Confirming(sess[s].answer)
  BY <1>5 DEF Confirming
<1>9. cpc'[c] = "licenseAnswer"
  BY <1>2, <1>3
<1> QED
  BY <1>4, <1>5, <1>6, <1>7, <1>8, <1>9 DEF Followed

\* A step of the client's own session (main.cpp:261-478).
LEMMA FollowedBySession ==
  ASSUME TypeOK, DialogueInv, NEW s \in Sessions, SessionStep(s) \/ OfferAnyId(s),
         NEW c \in Clients, conn[c] = s, KnowsOffer(c), StatusFits(c), Followed(c)
  PROVE  KnowsOffer(c)' /\ StatusFits(c)' /\ Followed(c)'
<1> USE NoneIsNothing
<1>1. /\ UNCHANGED clientVars /\ UNCHANGED <<cpc, query, uid, status>>
      /\ sess[s] \in SessionRecord /\ conn[c] \in Sessions /\ conn[c] # None
  BY DEF SessionStep, OfferAnyId, clientVars, TypeOK, ServerTypeOK
<1>2. CASE ReadKey(s) \/ FindUser(s) \/ Watch(s)
  <2>1. cpc[c] = "keyAnswer" /\ inbox[c] = None
    BY <1>1, <1>2, PeerPhase DEF ReadKey, FindUser, Watch, InPhase, At, Received
  <2>2. UNCHANGED <<currentClients, conn, inbox>> /\ sess'[s].pc # "reply"
    BY <1>1, <1>2 DEF ReadKey, FindUser, Watch, socketVars, TypeOK, ServerTypeOK, SessionRecord
  <2>3. KnowsOffer(c)' /\ ~DecidedFor(c)'
    BY <1>1, <2>1, <2>2 DEF KnowsOffer, Told, DecidedFor, At
  <2> QED
    BY <1>1, <2>1, <2>2, <2>3, FollowedEarly
<1>3. CASE OfferAnyId(s)
  <2>1. PICK id \in TempIds : OfferId(s, id)
    BY <1>3 DEF OfferAnyId
  <2>2. cpc[c] = "keyAnswer"
    BY <1>1, <2>1, PeerPhase DEF OfferId, InPhase, At
  <2>3. /\ UNCHANGED <<currentClients, conn>> /\ inbox'[c] = Msg("KEY_ANSWER_GOOD", id)
        /\ sess'[s].pc = "exchange" /\ sess'[s].id = id
    BY <1>1, <2>1 DEF OfferId, ToClient, TypeOK, ServerTypeOK, SessionRecord
  <2>4. KnowsOffer(c)' /\ ~DecidedFor(c)'
    BY <1>1, <2>2, <2>3 DEF KnowsOffer, Told, DecidedFor, At, Msg
  <2> QED
    BY <1>1, <2>2, <2>3, <2>4, FollowedEarly
<1>4. CASE RefuseKey(s)
  <2>1. cpc[c] = "keyAnswer"
    BY <1>1, <1>4, PeerPhase DEF RefuseKey, InPhase, At
  <2>2. /\ UNCHANGED currentClients /\ conn'[c] = None
        /\ inbox'[c] = Msg("KEY_ANSWER_UNKNOWN_KEY_REQUEST", None)
    BY <1>4 DEF RefuseKey, End, Without, ToClient
  <2>3. KnowsOffer(c)' /\ ~DecidedFor(c)'
    BY <1>1, <2>1, <2>2 DEF KnowsOffer, Told, DecidedFor, Msg
  <2> QED
    BY <1>1, <2>1, <2>2, <2>3, FollowedEarly
<1>5. CASE HandleRequest(s) \/ HandleCheck(s) \/ HandleRelease(s) \/ HandleUnknown(s)
  <2>1. SessionStep(s)
    BY <1>1, <1>5 DEF SessionStep
  <2> QED
    BY <1>5, <2>1, FollowedByHandler
<1>6. CASE Reply(s)
  BY <1>1, <1>6, FollowedByReply
<1>7. ~ReadKeyFails(s) /\ ~ExchangeFails(s) /\ ~ReplyFails(s)
  BY DEF ReadKeyFails, ExchangeFails, ReplyFails, PeerGone
<1> QED
  BY <1>2, <1>3, <1>4, <1>5, <1>6, <1>7 DEF SessionStep

\* run_license_ctrl has returned, or not begun (LicenseControl.cpp:148-193).
LEMMA FollowedByReturn ==
  ASSUME TypeOK, NEW c \in Clients, NEW newStatus, Return(c, newStatus)
  PROVE  KnowsOffer(c)' /\ StatusFits(c)' /\ Followed(c)'
<1>1. cpc'[c] = "off" /\ query'[c] = "REQUEST" /\ conn'[c] = None /\ inbox'[c] = None
  BY DEF Return, TypeOK, ClientTypeOK, SocketTypeOK
<1>2. ~Licensed(c)' /\ ~DecidedFor(c)' /\ ~AnsweredTo(c)' /\ ~Told(c)'
  BY <1>1 DEF Licensed, DecidedFor, AnsweredTo, Told
<1> QED
  BY <1>1, <1>2 DEF KnowsOffer, StatusFits, Followed

\* The query names the client's entry (LicenseControl.cpp:195-238).
LEMMA FollowedByKeyGood ==
  ASSUME TypeOK, DialogueInv, NEW c \in Clients, KeyGood(c), UNCHANGED serverVars,
         KnowsOffer(c), StatusFits(c), Followed(c)
  PROVE  KnowsOffer(c)' /\ StatusFits(c)' /\ Followed(c)'
<1> USE NoneIsNothing DEF TypeOK, SocketTypeOK, ClientTypeOK
<1>1. /\ cpc[c] = "keyAnswer" /\ Told(c) /\ UNCHANGED <<sess, currentClients, conn, query, status>>
      /\ uid'[c] = inbox[c].arg /\ inbox'[c] = None /\ cpc'[c] = "licenseAnswer"
  BY DEF KeyGood, Told, serverVars
<1>2. conn[c] # None /\ conn[c] \in Sessions /\ inbox[c].arg = sess[conn[c]].id
  BY <1>1 DEF KnowsOffer
<1>3. KnowsOffer(c)' /\ StatusFits(c)' /\ ~AnsweredTo(c)'
  BY <1>1, <1>2 DEF KnowsOffer, StatusFits, Told, AnsweredTo
<1>4. At(conn[c], "exchange") /\ ~DecidedFor(c)'
  BY <1>1, <1>2, PeerPhase DEF InPhase, DecidedFor, At, Told
<1>5. outbox'[conn[c]] = Msg(query[c], IF query[c] = "REQUEST" THEN UserIdOf[c] ELSE uid[c])
  BY <1>2 DEF KeyGood
<1>6. Msg(query[c], IF query[c] = "REQUEST" THEN UserIdOf[c] ELSE uid[c]) # None
  <2>1. query[c] \in Queries /\ UserIdOf[c] \in Users /\ uid[c] \in TempIds \cup {None}
    BY ClientAssumption
  <2>2. CASE query[c] = "REQUEST"
    BY <2>1, <2>2, Messages
  <2>3. CASE query[c] # "REQUEST"
    BY <2>1, <2>3, Messages DEF Queries
  <2> QED
    BY <2>2, <2>3
<1>7. Received(conn[c], query[c])'
  BY <1>1, <1>5, <1>6 DEF Received, Msg
<1>8. ASSUME query[c] = "CHECK"
      PROVE  outbox'[conn[c]].arg = uid[c] /\ Live(uid[c], KeyOf[c])
  <2>1. Licensed(c)
    BY <1>1, <1>8 DEF Licensed, StatusFits
  <2> QED
    BY <1>1, <1>5, <1>8, <2>1 DEF Followed, Msg
<1>9. query[c] = "CHECK" => Live(outbox[conn[c]].arg, KeyOf[c])'
  BY <1>1, <1>8 DEF Live, TrackedFor, Tracked
<1> QED
  BY <1>1, <1>3, <1>4, <1>7, <1>9 DEF Followed

\* A step of the client itself, of the network, and the accept.
LEMMA FollowedByClient ==
  ASSUME TypeOK, DialogueInv, NEW c \in Clients, ClientStep(c),
         KnowsOffer(c), StatusFits(c), Followed(c)
  PROVE  KnowsOffer(c)' /\ StatusFits(c)' /\ Followed(c)'
<1> USE NoneIsNothing DEF TypeOK, SocketTypeOK, ClientTypeOK
<1>1. ASSUME UNCHANGED currentClients
      PROVE  Live(uid[c], KeyOf[c]) => (uid'[c] = uid[c] => Live(uid[c], KeyOf[c])')
  BY <1>1 DEF Live, TrackedFor, Tracked
<1>2. UNCHANGED currentClients
  BY DEF ClientStep, DialogueStep, NotAccepted, Accept, serverVars
<1>3. CASE ExchangeError(c) \/ KeyRefused(c) \/ LicenseRefused(c) \/ Vanish(c) \/ NotAccepted(c)
  <2>1. \E newStatus : Return(c, newStatus)
    BY <1>3 DEF ExchangeError, KeyRefused, LicenseRefused, Vanish, NotAccepted, ConnectFails
  <2> QED
    BY <2>1, FollowedByReturn
<1>4. CASE KeyGood(c) /\ UNCHANGED serverVars
  BY <1>4, FollowedByKeyGood
<1>5. CASE LicenseGood(c)
  <2>1. /\ cpc'[c] = "connect" /\ conn'[c] = None /\ inbox'[c] = None /\ uid'[c] = uid[c]
        /\ query'[c] \in {"CHECK", "RELEASE"} /\ status'[c] \in {"confirmed", "continued"}
        /\ AnsweredTo(c) /\ Confirming(inbox[c].type)
    BY <1>5 DEF LicenseGood, LicenseAnswer, AnsweredTo, Confirming
  <2>2. Live(uid[c], KeyOf[c])'
    BY <1>1, <1>2, <2>1 DEF Followed
  <2>3. ~Told(c)' /\ ~DecidedFor(c)' /\ ~AnsweredTo(c)'
    BY <2>1 DEF Told, DecidedFor, AnsweredTo
  <2> QED
    BY <2>1, <2>2, <2>3 DEF KnowsOffer, StatusFits, Followed
<1>6. CASE Start(c)
  <2>1. /\ cpc[c] = "off" /\ cpc'[c] = "connect" /\ status'[c] = "undefined"
        /\ query' = query /\ conn' = conn /\ inbox' = inbox
    BY <1>6 DEF Start, socketVars
  <2>2. conn[c] = None /\ inbox[c] = None /\ query[c] = "REQUEST"
    BY <2>1 DEF DialogueInv, InStep, StatusFits
  <2>3. ~Licensed(c)' /\ ~Told(c)' /\ ~DecidedFor(c)' /\ ~AnsweredTo(c)'
    BY <2>1, <2>2 DEF Licensed, Told, DecidedFor, AnsweredTo
  <2> QED
    BY <2>1, <2>2, <2>3 DEF KnowsOffer, StatusFits, Followed
<1>7. CASE SendKey(c) /\ UNCHANGED serverVars
  <2>1. /\ cpc[c] = "key" /\ cpc'[c] = "keyAnswer" /\ conn[c] # None
        /\ UNCHANGED <<query, uid, status, conn, inbox, sess>>
    BY <1>7 DEF SendKey, serverVars
  <2>2. At(conn[c], "read") /\ inbox[c] = None
    BY <2>1, PeerPhase DEF InPhase
  <2>3. ~Told(c)' /\ ~DecidedFor(c)' /\ ~AnsweredTo(c)' /\ Licensed(c)' = Licensed(c)
    BY <2>1, <2>2 DEF Licensed, Told, DecidedFor, AnsweredTo, At
  <2> QED
    BY <1>1, <1>2, <2>1, <2>3 DEF KnowsOffer, StatusFits, Followed
<1>8. CASE NetworkReset(c)
  <2>1. conn'[c] = None /\ inbox'[c] = None /\ UNCHANGED <<cpc, query, uid, status>>
    BY <1>8 DEF NetworkReset, clientVars
  <2>2. ~Told(c)' /\ ~DecidedFor(c)' /\ ~AnsweredTo(c)' /\ Licensed(c)' = Licensed(c)
    BY <2>1 DEF Licensed, Told, DecidedFor, AnsweredTo
  <2> QED
    BY <1>1, <1>2, <2>1, <2>2 DEF KnowsOffer, StatusFits, Followed
<1>9. ASSUME NEW s \in Sessions, Accept(c, s)
      PROVE  KnowsOffer(c)' /\ StatusFits(c)' /\ Followed(c)'
  <2>1. /\ cpc[c] = "connect" /\ cpc'[c] = "key" /\ conn'[c] = s /\ inbox' = inbox
        /\ UNCHANGED <<query, uid, status>> /\ sess'[s].pc = "read"
    BY <1>9 DEF Accept, Connect, ServerTypeOK, SessionRecord
  <2>2. inbox[c] = None
    BY <2>1 DEF DialogueInv, InStep
  <2>3. ~Told(c)' /\ ~DecidedFor(c)' /\ ~AnsweredTo(c)' /\ Licensed(c)' = Licensed(c)
    BY <2>1, <2>2 DEF Licensed, Told, DecidedFor, AnsweredTo, At
  <2> QED
    BY <1>1, <1>2, <2>1, <2>3 DEF KnowsOffer, StatusFits, Followed
<1> QED
  BY <1>3, <1>4, <1>5, <1>6, <1>7, <1>8, <1>9 DEF ClientStep, DialogueStep

\* The step of the induction: a client is followed in its own steps, in those of its
\* session, and in all the others.
LEMMA RunningStep ==
  ASSUME Undisturbed, TypeOK, DialogueInv, IdOfOneKey, MarkedAreStale, RunningInv, [Next]_vars
  PROVE  RunningInv'
<1>1. IdInOnePlace'
  BY PlacesStep DEF RunningInv
<1>2. ASSUME NEW c \in Clients
      PROVE  KnowsOffer(c)' /\ StatusFits(c)' /\ Followed(c)'
  <2>1. IdInOnePlace /\ KnowsOffer(c) /\ StatusFits(c) /\ Followed(c)
    BY DEF RunningInv
  <2>2. Unseen(c) => KnowsOffer(c)' /\ StatusFits(c)' /\ Followed(c)'
    BY <2>1, FollowedUnseen
  <2>3. ASSUME NEW s \in Sessions, SessionStep(s) \/ OfferAnyId(s)
        PROVE  KnowsOffer(c)' /\ StatusFits(c)' /\ Followed(c)'
    <3>1. CASE conn[c] = s
      BY <2>1, <2>3, <3>1, FollowedBySession
    <3>2. CASE conn[c] # s
      BY <2>2, <2>3, <3>2, SessionUnseen
    <3> QED
      BY <3>1, <3>2
  <2>4. ASSUME NEW d \in Clients, ClientStep(d)
        PROVE  KnowsOffer(c)' /\ StatusFits(c)' /\ Followed(c)'
    <3>1. CASE c = d
      BY <2>1, <2>4, <3>1, FollowedByClient
    <3>2. CASE c # d
      BY <2>2, <2>4, <3>2, ClientUnseen
    <3> QED
      BY <3>1, <3>2
  <2>5. OtherStep => KnowsOffer(c)' /\ StatusFits(c)' /\ Followed(c)'
    BY <2>2, OtherUnseen
  <2> QED
    BY <2>3, <2>4, <2>5, StepOfOne DEF Undisturbed
<1> QED
  BY <1>1, <1>2 DEF RunningInv

\* Only what has timed out is marked for deletion (main.cpp:145-176, 398-420).
THEOREM MarkedTimedOut == Spec => []MarkedAreStale
<1>1. Init => MarkedAreStale
  BY DEF Init, ServerInit, MarkedAreStale, Tracked, Accepted, IdleSession
<1>2. TypeOK /\ DialogueInv /\ MarkedAreStale /\ [Next]_vars => MarkedAreStale'
  BY MarksStep
<1> QED
  BY <1>1, <1>2, TypeCorrect, DialogueInStep, PTL DEF Spec

\* From one check to the next the server keeps a client that is in time under the id it
\* is going to name, whatever the other clients, the reapers and the tables do
\* (main.cpp:145-207, 394-478, LicenseControl.cpp:195-333).
THEOREM RunningFollowed ==
  ASSUME Undisturbed
  PROVE  Spec => []RunningInv
<1>1. Init => RunningInv
  <2> SUFFICES ASSUME Init PROVE RunningInv
    OBVIOUS
  <2>1. IdInOnePlace
    BY DEF Init, ClientInit, SocketInit, IdInOnePlace, Told, Naming, Received
  <2>2. ASSUME NEW c \in Clients
        PROVE  KnowsOffer(c) /\ StatusFits(c) /\ Followed(c)
    <3>1. cpc[c] = "off" /\ query[c] = "REQUEST" /\ conn[c] = None /\ inbox[c] = None
      BY DEF Init, ClientInit, SocketInit
    <3>2. ~Licensed(c) /\ ~Told(c) /\ ~DecidedFor(c) /\ ~AnsweredTo(c)
      BY <3>1 DEF Licensed, Told, DecidedFor, AnsweredTo
    <3> QED
      BY <3>1, <3>2 DEF KnowsOffer, StatusFits, Followed
  <2> QED
    BY <2>1, <2>2 DEF RunningInv
<1>2. TypeOK /\ DialogueInv /\ IdOfOneKey /\ MarkedAreStale /\ RunningInv /\ [Next]_vars => RunningInv'
  BY RunningStep
<1>3. Spec => []IdOfOneKey
  BY IdsOfOneKey DEF Undisturbed
<1> QED
  BY <1>1, <1>2, <1>3, TypeCorrect, DialogueInStep, MarkedTimedOut, PTL DEF Spec

\* A confirmed client between two of its checks is tracked under the id it is going to
\* send, for its own key, and not marked for deletion (main.cpp:145-207, 394-478).
THEOREM ConfirmedTracked ==
  ASSUME Undisturbed
  PROVE  Spec => []ConfirmedIsTracked
<1>1. RunningInv /\ MarkedAreStale => ConfirmedIsTracked
  <2> SUFFICES ASSUME RunningInv, MarkedAreStale, NEW c \in Clients, Licensed(c), cpc[c] = "connect"
               PROVE  /\ uid[c] \in Tracked
                      /\ currentClients[uid[c]].key = KeyOf[c]
                      /\ ~currentClients[uid[c]].for_deleting
    BY DEF ConfirmedIsTracked
  <2>1. Live(uid[c], KeyOf[c])
    BY DEF RunningInv, Followed
  <2> QED
    BY <2>1 DEF Live, TrackedFor, MarkedAreStale
<1> QED
  BY <1>1, RunningFollowed, MarkedTimedOut, PTL

-----------------------------------------------------------------------------
(***************************************************************************)
(* Keys that are never granted again.                                      *)
(***************************************************************************)

\* An UPDATE of rows that exist brings back no key and no license (Alex_K_DB.sql:124-148).
LEMMA UpdateKeepsOver ==
  ASSUME DBTypeOK, NEW l \in Licenses, NEW S \in SUBSET Keys, NEW v \in {"free", "requested"},
         NEW ok \in BOOLEAN, UpdateKeys(l, S, v, ok), \A k \in S : HasRow(k),
         NEW j \in Keys, Over(j)
  PROVE  Over(j)'
<1> USE TypesAssumption DEF DBTypeOK, LicenseRow, KeyRow, Over
<1>1. key_s[j] = "deleted" => key_s'[j] = "deleted"
  BY DEF UpdateKeys, HasRow, Written, dbVars
<1>2. license[LicenseOf[j]].status \in {"expired", "absent"} =>
        license'[LicenseOf[j]].status \in {"expired", "absent"}
  BY DEF UpdateKeys, Activates, dbVars
<1> QED
  BY <1>1, <1>2

\* Nor does a stored function, whether its answer arrives or not.
LEMMA SelectKeepsOver ==
  ASSUME DBTypeOK, NEW function, NEW u, NEW k \in Keys, NEW ret, Select(function, u, k, ret),
         NEW j \in Keys, Over(j)
  PROVE  Over(j)'
<1> DEFINE l == LicenseOf[k]
<1>1. l \in Licenses
  BY TypesAssumption
<1>2. UNCHANGED dbVars => Over(j)'
  BY DEF dbVars, Over
<1>3. ASSUME RowOfUser(u, k), NEW v \in {"free", "requested"}, NEW ok \in BOOLEAN,
             UpdateKeys(l, {k}, v, ok)
      PROVE  Over(j)'
  <2>1. {k} \in SUBSET Keys /\ \A i \in {k} : HasRow(i)
    BY <1>3 DEF RowOfUser
  <2> QED
    BY <1>1, <1>3, <2>1, UpdateKeepsOver
<1>4. ASSUME NEW ok \in BOOLEAN, UpdateKeys(l, RowsOf(l), "free", ok)
      PROVE  Over(j)'
  <2>1. RowsOf(l) \in SUBSET Keys /\ \A i \in RowsOf(l) : HasRow(i)
    BY DEF RowsOf
  <2> QED
    BY <1>1, <1>4, <2>1, UpdateKeepsOver
<1>5. ASSUME NEW r, Call(function, u, k, r)
      PROVE  Over(j)'
  <2>1. CASE RequestKey(u, k, r)
    BY <1>2, <1>3, <2>1 DEF RequestKey
  <2>2. CASE ActiveKeyCheck(u, k, r)
    BY <1>2, <1>4, <2>2 DEF ActiveKeyCheck
  <2>3. CASE ReleaseKey(u, k, r)
    BY <1>2, <1>3, <2>3 DEF ReleaseKey
  <2> QED
    BY <1>5, <2>1, <2>2, <2>3 DEF Call
<1> QED
  BY <1>2, <1>5 DEF Select

\* The clock, the events and the administrator revive nothing but an expired license.
LEMMA TablesKeepOver ==
  ASSUME DBTypeOK, "revive" \notin Changes, Tables, NEW j \in Keys, Over(j)
  PROVE  Over(j)'
<1> USE TypesAssumption DEF DBTypeOK, LicenseRow, KeyRow, Over, HasRow
<1>1. ASSUME NEW l \in Licenses, Lapse(l) \/ ExtendLicense(l)
      PROVE  Over(j)'
  BY <1>1 DEF Lapse, ExtendLicense
<1>2. CASE CheckLicenseValidity
  BY <1>2 DEF CheckLicenseValidity
<1>3. ASSUME NEW S \in SUBSET Licenses, DeleteRows(S)
      PROVE  Over(j)'
  BY <1>3 DEF DeleteRows
<1>4. ASSUME NEW k \in Keys, NEW new \in Keys, KeyReplacement(k, new)
      PROVE  Over(j)'
  <2>1. /\ key_s[new] = "unissued"
        /\ license' \in {license, [license EXCEPT ![LicenseOf[k]].status = "expired"]}
        /\ \/ key_s' = [key_s EXCEPT ![k] = "deleted", ![new] = "free"]
           \/ key_s' = [key_s EXCEPT ![k] = "deleted", ![new] = key_s[k]]
    BY <1>4 DEF KeyReplacement
  <2>2. key_s[j] = "deleted" => key_s'[j] = "deleted"
    BY <2>1
  <2>3. license[LicenseOf[j]].status \in {"expired", "absent"} =>
          license'[LicenseOf[j]].status \in {"expired", "absent"}
    BY <2>1
  <2> QED
    BY <2>2, <2>3
<1>5. ~\E l \in Licenses : ReviveLicense(l)
  BY DEF ReviveLicense
<1> QED
  BY <1>1, <1>2, <1>3, <1>4, <1>5 DEF Tables, DeleteExpiredLicense, RemoveLicense

\* What is over stays over, unless an expired license is revived.
LEMMA OverStays ==
  ASSUME TypeOK, "revive" \notin Changes, [Next]_vars, NEW j \in Keys, Over(j)
  PROVE  Over(j)'
<1> USE DEF TypeOK
<1>1. UNCHANGED dbVars => Over(j)'
  BY DEF dbVars, Over
<1>2. ASSUME NEW i \in Tracked
      PROVE  currentClients[i].key \in Keys
  BY <1>2 DEF ServerTypeOK, Tracked, ClientRecord
<1>3. ASSUME NEW s \in Sessions, SessionStep(s) \/ OfferAnyId(s)
      PROVE  Over(j)'
  <2>1. At(s, "exchange") => sess[s].key \in Keys
    BY DEF ServerTypeOK, Assigned, At
  <2>2. CASE HandleRequest(s)
    BY <2>1, <2>2, SelectKeepsOver DEF HandleRequest
  <2>3. CASE HandleCheck(s)
    BY <1>1, <1>2, <2>3, SelectKeepsOver DEF HandleCheck, Names
  <2>4. CASE HandleRelease(s)
    BY <2>1, <2>4, SelectKeepsOver DEF HandleRelease, Names
  <2>5. CASE ~HandleRequest(s) /\ ~HandleCheck(s) /\ ~HandleRelease(s)
    BY <1>1, <1>3, <2>5
    DEF SessionStep, OfferAnyId, OfferId, ReadKey, ReadKeyFails, FindUser, Watch, RefuseKey,
        ExchangeFails, HandleUnknown, Reply, ReplyFails
  <2> QED
    BY <2>2, <2>3, <2>4, <2>5
<1>4. ASSUME NEW r \in Reapers, ReaperStep(r) \/ TakeTurn(r)
      PROVE  Over(j)'
  <2>1. CASE Drain(r)
    BY <1>1, <1>2, <2>1, SelectKeepsOver DEF Drain
  <2>2. CASE ~Drain(r)
    BY <1>1, <1>4, <2>2 DEF ReaperStep, TakeTurn, StartReaper, LoopTest, FinishSweep, Sweep
  <2> QED
    BY <2>1, <2>2
<1>5. NullStart => Over(j)'
  BY TypesAssumption DEF NullStart, Written, Over, DBTypeOK, LicenseRow, dbVars
<1>6. CASE Environment \/ Recover
  BY <1>1, <1>5, <1>6
  DEF Environment, Recover, Restart, Crash, StartAnother, FindUserFails, Start, Vanish,
      NetworkReset, NotAccepted, Accept
<1>7. CASE \/ \E id \in TempIds : Age(id)
           \/ \E c \in Clients : DialogueStep(c)
           \/ UNCHANGED vars
  BY <1>1, <1>7 DEF Age, DialogueStep, vars
<1>8. CASE Tables
  BY <1>8, TablesKeepOver
<1> QED
  BY <1>3, <1>4, <1>6, <1>7, <1>8 DEF Next

\* A check of a held key that is not answered with its license finds the key replaced or
\* its license over (Alex_K_DB.sql:966-997).
LEMMA CheckRefused ==
  ASSUME Faults \cap {"query", "lostreply"} = {}, NEW k \in Keys, NEW u, u = UserOf[k],
         NEW ret, Select("CHECK", u, k, ret), Reserved(k), ret # LicenseOf[k]
  PROVE  Over(k)
<1>1. ActiveKeyCheck(u, k, ret)
  BY DEF Select, Call
<1> QED
  BY <1>1 DEF ActiveKeyCheck, Reserved, Over, RowOfUser, HasRow

-----------------------------------------------------------------------------
(***************************************************************************)
(* One client confirmed for a key.  Assumed besides: no connection is      *)
(* broken, every call of MySQL answers, no expired license is revived and  *)
(* no second server is started while this one runs.                        *)
(***************************************************************************)
Steady ==
  /\ Undisturbed
  /\ Faults \cap {"net", "query", "lostreply"} = {}
  /\ Changes \cap {"another", "revive"} = {}

\* An entry, or an accepted client, of key k: RequestKey will not grant it.
LEMMA HeldNotVacant ==
  ASSUME HolderInv, NEW k \in Keys, Holds(k)
  PROVE  ~Vacant(k)
BY DEF HolderInv, Reserved, Vacant

\* The key of a client that has been granted it is not vacant, from the decision until
\* the client has read that it is over.
LEMMA GrantedNotVacant ==
  ASSUME TypeOK, DialogueInv, HolderInv, RunningInv,
         NEW c \in Clients, RefusedForGood(c), Granted(c)
  PROVE  ~Vacant(KeyOf[c])
<1> USE NoneIsNothing
<1>1. KeyOf[c] \in Keys /\ Followed(c) /\ StatusFits(c)
  BY ClientAssumption DEF RunningInv
<1>2. ASSUME NEW i, Live(i, KeyOf[c])
      PROVE  ~Vacant(KeyOf[c])
  BY <1>1, <1>2, HeldNotVacant DEF Live, TrackedFor, Holds
<1>3. Over(KeyOf[c]) => ~Vacant(KeyOf[c])
  BY DEF Over, Vacant
<1>4. ASSUME DecidedFor(c), Confirming(sess[conn[c]].answer)
      PROVE  ~Vacant(KeyOf[c])
  <2>1. conn[c] \in Sessions /\ Accepted(conn[c])
    BY <1>1, <1>4 DEF Followed, DecidedFor, TypeOK, SocketTypeOK
  <2>2. sess[conn[c]].client.key = KeyOf[c]
    BY <1>4, <2>1, PeerPhase DEF DialogueInv, LocalsInScope, DecidedFor, At
  <2> QED
    BY <1>1, <2>1, <2>2, HeldNotVacant DEF Holds
<1>5. ASSUME AnsweredTo(c), Confirming(inbox[c].type)
      PROVE  ~Vacant(KeyOf[c])
  BY <1>1, <1>2, <1>5 DEF Followed
<1>6. ASSUME Licensed(c), cpc[c] = "licenseAnswer"
      PROVE  ~Vacant(KeyOf[c])
  <2>1. query[c] = "CHECK"
    BY <1>1, <1>6 DEF Licensed, StatusFits, TypeOK, ClientTypeOK, Queries
  <2>2. CASE conn[c] # None
    <3>1. At(conn[c], "exchange") \/ DecidedFor(c)
      BY <1>6, <2>2, PeerPhase DEF InPhase, DecidedFor, TypeOK, SocketTypeOK
    <3>2. At(conn[c], "exchange") => ~Vacant(KeyOf[c])
      BY <1>1, <1>2, <1>6, <2>1, <2>2 DEF Followed
    <3>3. DecidedFor(c) => ~Vacant(KeyOf[c])
      BY <1>3, <1>4, <1>6, <2>1 DEF RefusedForGood
    <3> QED
      BY <3>1, <3>2, <3>3
  <2>3. CASE conn[c] = None
    <3>1. AnsweredTo(c)
      BY <1>6, <2>1, <2>3 DEF RefusedForGood, AnsweredTo
    <3> QED
      BY <1>3, <1>5, <1>6, <2>1, <3>1 DEF RefusedForGood
  <2> QED
    BY <2>2, <2>3
<1>7. ASSUME Licensed(c), cpc[c] # "licenseAnswer"
      PROVE  ~Vacant(KeyOf[c])
  BY <1>1, <1>2, <1>7 DEF Followed
<1> QED
  BY <1>4, <1>5, <1>6, <1>7 DEF Granted

\* A client whose view does not change.
LEMMA GrantedUnseen ==
  ASSUME NEW c \in Clients, RefusedForGood(c), Unseen(c), Over(KeyOf[c]) => Over(KeyOf[c])'
  PROVE  RefusedForGood(c)' /\ Granted(c)' = Granted(c)
<1>1. /\ Licensed(c)' = Licensed(c) /\ cpc'[c] = cpc[c] /\ query'[c] = query[c]
      /\ conn'[c] = conn[c] /\ inbox'[c] = inbox[c]
      /\ AnsweredTo(c)' = AnsweredTo(c) /\ DecidedFor(c)' = DecidedFor(c)
  BY DEF Unseen, Licensed, AnsweredTo, DecidedFor, At
<1>2. conn[c] # None => sess'[conn'[c]] = sess[conn[c]]
  BY DEF Unseen
<1>3. DecidedFor(c) => Confirming(sess[conn[c]].answer)' = Confirming(sess[conn[c]].answer)
  BY <1>2 DEF DecidedFor, Confirming
<1>4. Confirming(inbox[c].type)' = Confirming(inbox[c].type)
  BY <1>1 DEF Confirming
<1> QED
  BY <1>1, <1>3, <1>4 DEF RefusedForGood, Granted

\* The client's own steps: it comes to run only under what it had been granted.
LEMMA GrantedByClient ==
  ASSUME "net" \notin Faults, TypeOK, DialogueInv, RunningInv, NEW c \in Clients, ClientStep(c)
  PROVE  RefusedForGood(c)' /\ (Granted(c)' => Granted(c))
<1> USE NoneIsNothing DEF TypeOK, SocketTypeOK, ClientTypeOK
<1>1. KnowsOffer(c) /\ StatusFits(c)
  BY DEF RunningInv
<1>2. ASSUME NEW newStatus, Return(c, newStatus)
      PROVE  RefusedForGood(c)' /\ ~Granted(c)'
  BY <1>2 DEF Return, RefusedForGood, Granted, Licensed, DecidedFor, AnsweredTo
<1>3. CASE ExchangeError(c) \/ KeyRefused(c) \/ LicenseRefused(c) \/ Vanish(c) \/ NotAccepted(c)
  BY <1>2, <1>3 DEF ExchangeError, KeyRefused, LicenseRefused, Vanish, NotAccepted, ConnectFails
<1>4. CASE KeyGood(c) /\ UNCHANGED serverVars
  <2>1. /\ cpc[c] = "keyAnswer" /\ Told(c) /\ UNCHANGED <<sess, conn, query, status>>
        /\ inbox'[c] = None /\ cpc'[c] = "licenseAnswer"
    BY <1>4 DEF KeyGood, Told, serverVars
  <2>2. conn[c] # None /\ conn[c] \in Sessions
    BY <1>1, <2>1 DEF KnowsOffer
  <2>3. ~DecidedFor(c)' /\ ~AnsweredTo(c)'
    BY <2>1, <2>2, PeerPhase DEF InPhase, DecidedFor, At, Told, AnsweredTo
  <2>4. Licensed(c)' => Licensed(c)
    BY <2>1 DEF Licensed
  <2> QED
    BY <2>1, <2>2, <2>3, <2>4 DEF RefusedForGood, Granted
<1>5. CASE LicenseGood(c)
  <2>1. Granted(c)
    BY <1>5 DEF LicenseGood, LicenseAnswer, Granted, AnsweredTo, Confirming
  <2>2. cpc'[c] = "connect"
    BY <1>5 DEF LicenseGood
  <2> QED
    BY <2>1, <2>2 DEF RefusedForGood
<1>6. CASE Start(c)
  <2>1. /\ cpc[c] = "off" /\ cpc'[c] = "connect" /\ status'[c] = "undefined" /\ conn' = conn
    BY <1>6 DEF Start, socketVars
  <2>2. conn[c] = None
    BY <2>1 DEF DialogueInv, InStep
  <2> QED
    BY <2>1, <2>2 DEF RefusedForGood, Granted, Licensed, DecidedFor, AnsweredTo
<1>7. CASE SendKey(c) /\ UNCHANGED serverVars
  <2>1. /\ cpc[c] = "key" /\ cpc'[c] = "keyAnswer" /\ conn[c] # None
        /\ UNCHANGED <<query, status, conn, sess>>
    BY <1>7 DEF SendKey, serverVars
  <2>2. At(conn[c], "read")
    BY <2>1, PeerPhase DEF InPhase
  <2> QED
    BY <2>1, <2>2 DEF RefusedForGood, Granted, Licensed, DecidedFor, AnsweredTo, At
<1>8. ASSUME NEW s \in Sessions, Accept(c, s)
      PROVE  RefusedForGood(c)' /\ (Granted(c)' => Granted(c))
  <2>1. /\ cpc[c] = "connect" /\ cpc'[c] = "key" /\ conn'[c] = s
        /\ UNCHANGED <<query, status>> /\ sess'[s].pc = "read"
    BY <1>8 DEF Accept, Connect, ServerTypeOK, SessionRecord
  <2> QED
    BY <2>1 DEF RefusedForGood, Granted, Licensed, DecidedFor, AnsweredTo, At
<1>9. ~NetworkReset(c)
  BY DEF NetworkReset
<1> QED
  BY <1>3, <1>4, <1>5, <1>6, <1>7, <1>8, <1>9 DEF ClientStep, DialogueStep

\* The check of a client in time is refused only when its key is over
\* (main.cpp:394-420, Alex_K_DB.sql:966-997).
LEMMA RefusedByCheck ==
  ASSUME Steady, TypeOK, DialogueInv, HolderInv, MarkedAreStale, NEW s \in Sessions, HandleCheck(s),
         NEW k \in Keys, sess[s].key = k, Live(outbox[s].arg, k),
         ~Confirming(sess'[s].answer)
  PROVE  Over(k)
<1> DEFINE entry == currentClients[outbox[s].arg]
<1>1. outbox[s].arg \in Tracked /\ entry.key = k /\ ~entry.for_deleting
  BY DEF Live, TrackedFor, MarkedAreStale
<1>2. entry.user = UserOf[k] /\ entry.license = LicenseOf[k] /\ Reserved(k)
  BY <1>1 DEF HolderInv, RowsMatch, OwnRow, Holds
<1>3. ASSUME NEW client, Answer(s, "LICENSE_ANSWER_GOOD_WORK", client)
      PROVE  FALSE
  BY <1>3 DEF Answer, Confirming, TypeOK, ServerTypeOK, SessionRecord
<1>4. PICK ret : /\ Select("CHECK", entry.user, entry.key, ret)
                 /\ ret # entry.license \/ entry.for_deleting
  BY <1>1, <1>3 DEF HandleCheck
<1> HIDE DEF entry
<1>5. Select("CHECK", UserOf[k], k, ret) /\ ret # LicenseOf[k]
  BY <1>1, <1>2, <1>4
<1> QED
  BY <1>2, <1>5, CheckRefused DEF Steady

\* The query is answered: a new grant is for a key that was vacant.
LEMMA GrantedByHandler ==
  ASSUME Steady, TypeOK, MutexHeld, DialogueInv, HolderInv, MarkedAreStale, RunningInv,
         NEW s \in Sessions, SessionStep(s),
         HandleRequest(s) \/ HandleCheck(s) \/ HandleRelease(s) \/ HandleUnknown(s),
         NEW c \in Clients, conn[c] = s, Over(KeyOf[c]) => Over(KeyOf[c])'
  PROVE  /\ RefusedForGood(c)'
         /\ Granted(c)' /\ ~Granted(c) => m = s /\ Vacant(KeyOf[c])
<1> USE NoneIsNothing
<1>1. /\ At(s, "exchange") /\ outbox[s] # None /\ UNCHANGED clientVars
      /\ conn[c] # None /\ conn[c] \in Sessions
  BY DEF HandleRequest, HandleCheck, HandleRelease, HandleUnknown, Names, Received, SessionStep
<1>2. /\ cpc[c] = "licenseAnswer" /\ inbox[c] = None /\ sess[s].key = KeyOf[c]
      /\ KeyOf[c] \in Keys
  BY <1>1, PeerPhase, ClientAssumption DEF InPhase, At
<1>3. StatusFits(c) /\ Followed(c) /\ Received(s, query[c])
  BY <1>1, <1>2 DEF RunningInv, Followed
<1>4. UNCHANGED <<cpc, query, uid, status>>
  BY <1>1 DEF clientVars
<1>5. conn' = conn /\ inbox' = inbox
  BY DEF HandleRequest, HandleCheck, HandleRelease, HandleUnknown, Answer
<1>6. cpc'[c] = "licenseAnswer" /\ conn'[c] = s /\ ~AnsweredTo(c)' /\ Licensed(c)' = Licensed(c)
  BY <1>2, <1>4, <1>5 DEF AnsweredTo, Licensed
<1>7. Confirming(sess[conn[c]].answer)' = Confirming(sess'[s].answer)
  BY <1>6 DEF Confirming
<1>8. RefusedForGood(c)'
  <2>1. ASSUME query[c] = "CHECK", ~Confirming(sess'[s].answer)
        PROVE  Over(KeyOf[c])
    <3>1. Live(outbox[s].arg, KeyOf[c]) /\ Received(s, "CHECK")
      BY <1>1, <1>2, <1>3, <2>1 DEF Followed
    <3>2. HandleCheck(s)
      BY <3>1 DEF HandleRequest, HandleRelease, HandleUnknown, Names, Received, Live, TrackedFor
    <3> QED
      BY <1>2, <2>1, <3>1, <3>2, RefusedByCheck
  <2> QED
    BY <1>1, <1>4, <1>6, <1>7, <2>1 DEF RefusedForGood
<1>9. ASSUME Confirming(sess'[s].answer), ~Licensed(c)
      PROVE  m = s /\ Vacant(KeyOf[c])
  <2>1. m = s
    BY <1>1 DEF MutexHeld, At
  <2>2. ASSUME NEW answer, NEW client, Answer(s, answer, client)
        PROVE  sess'[s].answer = answer
    BY <2>2 DEF Answer, TypeOK, ServerTypeOK, SessionRecord
  <2>3. CASE HandleRequest(s)
    <3>1. ~Answer(s, "LICENSE_ANSWER_BUSY", None)
      BY <1>9, <2>2 DEF Confirming
    <3>2. PICK ret : ret # None /\ Select("REQUEST", sess[s].user, sess[s].key, ret)
      BY <2>3, <3>1 DEF HandleRequest
    <3>3. Select("REQUEST", sess[s].user, KeyOf[c], ret)
      BY <1>2, <3>2
    <3>4. "lostreply" \notin Faults /\ NoRowsOfAbsent
      BY DEF Steady, HolderInv
    <3> QED
      BY <1>2, <2>1, <3>2, <3>3, <3>4, GrantedWasVacant
  <2>4. CASE HandleCheck(s)
    <3>1. query[c] = "CHECK"
      BY <1>3, <2>4 DEF HandleCheck, Names, Received
    <3> QED
      BY <1>2, <1>3, <1>9, <3>1 DEF StatusFits, Licensed
  <2>5. CASE HandleRelease(s) \/ HandleUnknown(s)
    <3>1. PICK answer : Answer(s, answer, None) /\ ~Confirming(answer)
      BY <2>5 DEF HandleRelease, HandleUnknown, Confirming
    <3> QED
      BY <1>9, <2>2, <3>1
  <2> QED
    BY <2>3, <2>4, <2>5
<1>10. Granted(c)' => Licensed(c) \/ Confirming(sess'[s].answer)
  BY <1>6, <1>7 DEF Granted
<1> QED
  BY <1>8, <1>9, <1>10 DEF Granted

\* The steps of the client's own session.
LEMMA GrantedBySession ==
  ASSUME Steady, TypeOK, MutexHeld, DialogueInv, HolderInv, MarkedAreStale, RunningInv,
         NEW s \in Sessions, SessionStep(s) \/ OfferAnyId(s),
         NEW c \in Clients, conn[c] = s, RefusedForGood(c), Over(KeyOf[c]) => Over(KeyOf[c])'
  PROVE  /\ RefusedForGood(c)'
         /\ Granted(c)' /\ ~Granted(c) => m = s /\ Vacant(KeyOf[c])
<1> USE NoneIsNothing
<1>1. /\ UNCHANGED <<cpc, query, uid, status>>
      /\ sess[s] \in SessionRecord /\ conn[c] \in Sessions /\ conn[c] # None
  BY DEF SessionStep, OfferAnyId, clientVars, TypeOK, ServerTypeOK
<1>2. Licensed(c)' = Licensed(c)
  BY <1>1 DEF Licensed
<1>3. CASE ReadKey(s) \/ FindUser(s) \/ Watch(s) \/ OfferAnyId(s) \/ RefuseKey(s)
  <2>1. cpc[c] = "keyAnswer"
    BY <1>1, <1>3, PeerPhase
    DEF ReadKey, FindUser, Watch, OfferAnyId, OfferId, RefuseKey, InPhase, At, Received
  <2>2. conn'[c] = None \/ (conn'[c] = s /\ sess'[s].pc # "reply")
    <3>1. CASE RefuseKey(s)
      <4>1. conn'[c] = None
        BY <3>1 DEF RefuseKey, End, Without
      <4> QED
        BY <4>1
    <3>2. CASE ReadKey(s) \/ FindUser(s) \/ Watch(s) \/ OfferAnyId(s)
      <4>1. conn'[c] = s
        BY <3>2 DEF ReadKey, FindUser, Watch, OfferAnyId, OfferId, socketVars
      <4>2. sess'[s].pc # "reply"
        BY <1>1, <3>2
        DEF ReadKey, FindUser, Watch, OfferAnyId, OfferId, TypeOK, ServerTypeOK, SessionRecord
      <4> QED
        BY <4>1, <4>2
    <3> QED
      BY <1>3, <3>1, <3>2
  <2>3. ~DecidedFor(c)' /\ ~AnsweredTo(c)'
    BY <1>1, <2>1, <2>2 DEF DecidedFor, AnsweredTo, At
  <2> QED
    BY <1>1, <1>2, <2>1, <2>3 DEF RefusedForGood, Granted
<1>4. CASE HandleRequest(s) \/ HandleCheck(s) \/ HandleRelease(s) \/ HandleUnknown(s)
  <2>1. SessionStep(s)
    BY <1>4 DEF SessionStep, OfferAnyId, HandleRequest, HandleCheck, HandleRelease, HandleUnknown,
                OfferId, At, Names
  <2> QED
    BY <1>4, <2>1, GrantedByHandler
<1>5. CASE Reply(s)
  <2>1. /\ DecidedFor(c) /\ conn'[c] = None /\ inbox'[c] = Msg(sess[s].answer, None)
        /\ sess[s].answer \in LicenseAnswers
    BY <1>1, <1>5
    DEF Reply, DecidedFor, At, End, Without, ToClient, TypeOK, ServerTypeOK, Assigned
  <2>2. Msg(sess[s].answer, None) # None /\ Msg(sess[s].answer, None).type = sess[s].answer
    BY <2>1, Messages DEF Msg
  <2>3. ~DecidedFor(c)' /\ Confirming(inbox[c].type)' = Confirming(sess[s].answer)
    BY <2>1, <2>2 DEF DecidedFor, Confirming
  <2>4. RefusedForGood(c)'
    BY <1>1, <2>1, <2>2, <2>3 DEF RefusedForGood
  <2>5. Granted(c)' => Granted(c)
    BY <1>2, <2>1, <2>3 DEF Granted
  <2> QED
    BY <2>4, <2>5
<1>6. ~ReadKeyFails(s) /\ ~ExchangeFails(s) /\ ~ReplyFails(s)
  BY DEF ReadKeyFails, ExchangeFails, ReplyFails, PeerGone
<1> QED
  BY <1>3, <1>4, <1>5, <1>6 DEF SessionStep

\* The step of the induction: who is granted a key took it when it was vacant, so nobody
\* else was granted it.
LEMMA GrantedStep ==
  ASSUME Steady, TypeOK, MutexHeld, DialogueInv, HolderInv, MarkedAreStale, RunningInv,
         GrantedOnce, [Next]_vars
  PROVE  GrantedOnce'
<1>1. ASSUME NEW c \in Clients
      PROVE  /\ RefusedForGood(c)'
             /\ Granted(c)' /\ ~Granted(c) =>
                  \E s \in Sessions : m = s /\ conn[c] = s /\ Vacant(KeyOf[c])
  <2>1. RefusedForGood(c) /\ "net" \notin Faults
    BY DEF GrantedOnce, Steady
  <2>2. Over(KeyOf[c]) => Over(KeyOf[c])'
    <3>1. PICK k \in Keys : k = KeyOf[c]
      BY ClientAssumption
    <3>2. "revive" \notin Changes
      BY DEF Steady
    <3>3. Over(k) => Over(k)'
      BY <3>2, OverStays
    <3> QED
      BY <3>1, <3>3 DEF Over
  <2>3. Unseen(c) => RefusedForGood(c)' /\ Granted(c)' = Granted(c)
    BY <2>1, <2>2, GrantedUnseen
  <2>4. ASSUME NEW s \in Sessions, SessionStep(s) \/ OfferAnyId(s)
        PROVE  /\ RefusedForGood(c)'
               /\ Granted(c)' /\ ~Granted(c) => m = s /\ conn[c] = s /\ Vacant(KeyOf[c])
    <3>1. CASE conn[c] = s
      BY <2>1, <2>2, <2>4, <3>1, GrantedBySession
    <3>2. CASE conn[c] # s
      BY <2>3, <2>4, <3>2, SessionUnseen
    <3> QED
      BY <3>1, <3>2
  <2>5. ASSUME NEW d \in Clients, ClientStep(d)
        PROVE  RefusedForGood(c)' /\ (Granted(c)' => Granted(c))
    <3>1. CASE c = d
      BY <2>1, <2>5, <3>1, GrantedByClient
    <3>2. CASE c # d
      BY <2>3, <2>5, <3>2, ClientUnseen
    <3> QED
      BY <3>1, <3>2
  <2>6. OtherStep => RefusedForGood(c)' /\ (Granted(c)' => Granted(c))
    BY <2>3, OtherUnseen
  <2> QED
    BY <2>4, <2>5, <2>6, StepOfOne DEF Steady, Undisturbed
<1>2. ASSUME NEW c \in Clients, NEW d \in Clients, Granted(c)', Granted(d)', KeyOf[c] = KeyOf[d]
      PROVE  c = d
  <2>1. RefusedForGood(c) /\ RefusedForGood(d)
    BY DEF GrantedOnce
  <2>2. CASE Granted(c) /\ Granted(d)
    BY <1>2, <2>2 DEF GrantedOnce
  <2>3. CASE ~Granted(c) /\ ~Granted(d)
    <3>1. conn[c] = m /\ conn[d] = m /\ m \in Sessions
      BY <1>1, <1>2, <2>3
    <3> QED
      BY <3>1, NoneIsNothing DEF DialogueInv, OneConnection
  <2>4. CASE Granted(c) /\ ~Granted(d)
    <3>1. ~Vacant(KeyOf[c]) /\ Vacant(KeyOf[d])
      BY <1>1, <1>2, <2>1, <2>4, GrantedNotVacant
    <3> QED
      BY <1>2, <3>1
  <2>5. CASE ~Granted(c) /\ Granted(d)
    <3>1. Vacant(KeyOf[c]) /\ ~Vacant(KeyOf[d])
      BY <1>1, <1>2, <2>1, <2>5, GrantedNotVacant
    <3> QED
      BY <1>2, <3>1
  <2> QED
    BY <2>2, <2>3, <2>4, <2>5
<1> QED
  BY <1>1, <1>2 DEF GrantedOnce

\* A key is granted to one client at a time, from the decision of its session until the
\* client has read that it is over (main.cpp:373-420, LicenseControl.cpp:267-333).
THEOREM KeysGrantedOnce ==
  ASSUME Steady
  PROVE  Spec => []GrantedOnce
<1>1. Init => GrantedOnce
  <2> SUFFICES ASSUME Init PROVE GrantedOnce
    OBVIOUS
  <2>1. \A c \in Clients : cpc[c] = "off" /\ conn[c] = None
    BY DEF Init, ClientInit, SocketInit
  <2>2. \A c \in Clients : ~Granted(c)
    BY <2>1 DEF Granted, Licensed, DecidedFor, AnsweredTo
  <2> QED
    BY <2>1, <2>2 DEF GrantedOnce, RefusedForGood
<1>2. TypeOK /\ MutexHeld /\ DialogueInv /\ HolderInv /\ MarkedAreStale /\ RunningInv
        /\ GrantedOnce /\ [Next]_vars => GrantedOnce'
  BY GrantedStep
<1>3. Undisturbed /\ FreshIds /\ "lostreply" \notin Faults
        /\ "another" \notin Changes /\ "revive" \notin Changes
  BY DEF Steady, Undisturbed
<1>4. (Spec => []HolderInv) /\ (Spec => []RunningInv)
  BY <1>3, HeldIsReserved, RunningFollowed
<1> QED
  BY <1>1, <1>2, <1>4, TypeCorrect, MutualExclusion, DialogueInStep, MarkedTimedOut, PTL DEF Spec

\* Two running clients are never both confirmed for the same key
\* (LicenseControl.cpp:157).
THEOREM OneRuns ==
  ASSUME Steady
  PROVE  Spec => []OneRunning
<1>1. GrantedOnce => OneRunning
  BY DEF GrantedOnce, Granted, OneRunning
<1> QED
  BY <1>1, KeysGrantedOnce, PTL
=============================================================================
