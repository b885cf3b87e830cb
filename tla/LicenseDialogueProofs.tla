------------------------ MODULE LicenseDialogueProofs ------------------------
(***************************************************************************)
(* A client and its session stay in step, and an id is used for one key,   *)
(* for every number of clients, sessions, reapers, keys and ids and        *)
(* whatever fails.                                                         *)
(***************************************************************************)
EXTENDS LicenseInvariants, LicenseSystemProofs

\* No value is a session, a client or a message.
LEMMA NoneIsNothing ==
  /\ None \notin Clients /\ None \notin Sessions /\ None \notin Message
  /\ None \notin TempIds /\ None \notin Keys /\ None \notin ClientRecord
BY TypesAssumption, SocketAssumption, ServerAssumption

-----------------------------------------------------------------------------
(***************************************************************************)
(* The dialogue.                                                           *)
(***************************************************************************)

\* Steps of the reapers, the clock, the tables and the process's start touch
\* neither a session nor a socket.
LEMMA DialogueUntouched ==
  ASSUME DialogueInv, UNCHANGED <<sess, socketVars, cpc>>
  PROVE  DialogueInv'
BY DEF DialogueInv, OneConnection, KeyOfPeer, InStep, InPhase, LocalsInScope, Received, At,
       Accepted, socketVars

\* The process has ended: every connection is closed.
LEMMA DialogueDies ==
  ASSUME DialogueInv, Die, UNCHANGED clientVars
  PROVE  DialogueInv'
<1>1. OneConnection' /\ KeyOfPeer'
  BY DEF Die, OneConnection, KeyOfPeer
<1>2. InStep'
  BY DEF DialogueInv, InStep, Die, At, clientVars
<1>3. LocalsInScope'
  BY DEF LocalsInScope, Die, Accepted, IdleSession
<1> QED
  BY <1>1, <1>2, <1>3 DEF DialogueInv

\* A session closes its socket, and whatever it has written last is for a client
\* that is no longer connected.
LEMMA DialogueEnds ==
  ASSUME TypeOK, DialogueInv, NEW s \in Sessions, End(s), UNCHANGED clientVars,
         \A c \in Clients : conn[c] # s => inbox'[c] = inbox[c]
  PROVE  DialogueInv'
<1> USE NoneIsNothing DEF TypeOK, SocketTypeOK, ServerTypeOK
<1>1. \A c \in Clients : conn'[c] # None => conn'[c] = conn[c] /\ conn[c] # s /\ conn[c] \in Sessions
  BY DEF End, Without
<1>2. \A t \in Sessions : t # s => sess'[t] = sess[t] /\ outbox'[t] = outbox[t]
  BY DEF End
<1>3. sess'[s] = IdleSession /\ outbox'[s] = None
  BY DEF End
<1>4. OneConnection'
  BY <1>1 DEF DialogueInv, OneConnection
<1>5. KeyOfPeer'
  BY <1>1, <1>2 DEF DialogueInv, KeyOfPeer, Received
<1>6. InStep'
  <2>1. \A c \in Clients : cpc'[c] \in {"off", "connect"} => conn'[c] = None /\ inbox'[c] = None
    BY <1>1 DEF DialogueInv, InStep, clientVars
  <2>2. \A c \in Clients : conn'[c] # None => InPhase(c, conn[c])'
    BY <1>1, <1>2 DEF DialogueInv, InStep, InPhase, At, clientVars
  <2>3. \A t \in Sessions : At(t, "idle")' => outbox'[t] = None
    BY <1>2, <1>3 DEF DialogueInv, InStep, At
  <2> QED
    BY <2>1, <2>2, <2>3 DEF InStep
<1>7. LocalsInScope'
  BY <1>2, <1>3 DEF DialogueInv, LocalsInScope, Accepted, At, IdleSession
<1> QED
  BY <1>4, <1>5, <1>6, <1>7 DEF DialogueInv

\* The query is read and the answer decided, for nobody or for the session's key.
LEMMA DialogueAnswers ==
  ASSUME TypeOK, DialogueInv, NEW s \in Sessions, At(s, "exchange"), outbox[s] # None,
         NEW answer, NEW client, Answer(s, answer, client),
         client # None => client.key = sess[s].key, UNCHANGED clientVars
  PROVE  DialogueInv'
<1> USE NoneIsNothing DEF TypeOK, SocketTypeOK, ServerTypeOK
<1>1. conn' = conn /\ inbox' = inbox
  BY DEF Answer
<1>2. \A t \in Sessions : t # s => sess'[t] = sess[t] /\ outbox'[t] = outbox[t]
  BY DEF Answer
<1>3. /\ outbox'[s] = None
      /\ sess'[s].pc = "reply" /\ sess'[s].key = sess[s].key /\ sess'[s].id = sess[s].id
      /\ sess'[s].client = client
  BY DEF Answer, SessionRecord
<1>4. OneConnection'
  BY <1>1 DEF DialogueInv, OneConnection
<1>5. KeyOfPeer'
  BY <1>1, <1>2, <1>3 DEF DialogueInv, KeyOfPeer, Received, At
<1>6. InStep'
  <2>1. \A c \in Clients : cpc'[c] \in {"off", "connect"} => conn'[c] = None /\ inbox'[c] = None
    BY <1>1 DEF DialogueInv, InStep, clientVars
  <2>2. ASSUME NEW c \in Clients, conn'[c] # None
        PROVE  InPhase(c, conn[c])'
    <3>1. InPhase(c, conn[c])
      BY <1>1, <2>2 DEF DialogueInv, InStep
    <3>2. CASE conn[c] = s
      BY <1>1, <1>3, <3>1, <3>2 DEF InPhase, At, clientVars
    <3>3. CASE conn[c] # s
      BY <1>1, <1>2, <2>2, <3>1, <3>3 DEF InPhase, At, clientVars
    <3> QED
      BY <3>2, <3>3
  <2>3. \A t \in Sessions : At(t, "idle")' => outbox'[t] = None
    BY <1>2, <1>3 DEF DialogueInv, InStep, At
  <2> QED
    BY <2>1, <2>2, <2>3 DEF InStep
<1>7. LocalsInScope'
  BY <1>2, <1>3 DEF DialogueInv, LocalsInScope, Accepted, At
<1> QED
  BY <1>4, <1>5, <1>6, <1>7 DEF DialogueInv

\* A session moves alone, its socket as it was or read: it is enough to look at it
\* and at the client it serves.
LEMMA DialogueMoves ==
  ASSUME TypeOK, DialogueInv, NEW s \in Sessions, NEW t \in SessionRecord,
         sess' = [sess EXCEPT ![s] = t], UNCHANGED <<conn, clientVars>>,
         outbox' \in {outbox, [outbox EXCEPT ![s] = None]},
         \A c \in Clients : conn[c] # s => inbox'[c] = inbox[c],
         \A c \in Clients : conn[c] = s =>
           /\ InPhase(c, s)'
           /\ sess'[s].pc \notin {"idle", "read"} => sess'[s].key = KeyOf[c],
         t.pc # "idle", t.id # None => t.pc = "exchange", t.client = None
  PROVE  DialogueInv'
<1> USE NoneIsNothing DEF TypeOK, SocketTypeOK, ServerTypeOK
<1>1. \A x \in Sessions : x # s => sess'[x] = sess[x] /\ outbox'[x] = outbox[x]
  OBVIOUS
<1>2. sess'[s] = t /\ outbox'[s] \in {outbox[s], None}
  OBVIOUS
<1>3. OneConnection'
  BY DEF DialogueInv, OneConnection
<1>4. KeyOfPeer'
  BY <1>1, <1>2 DEF DialogueInv, KeyOfPeer, Received
<1>5. InStep'
  <2>1. \A c \in Clients : cpc'[c] \in {"off", "connect"} => conn'[c] = None /\ inbox'[c] = None
    BY DEF DialogueInv, InStep, clientVars
  <2>2. ASSUME NEW c \in Clients, conn'[c] # None, conn[c] # s
        PROVE  InPhase(c, conn[c])'
    BY <1>1, <2>2 DEF DialogueInv, InStep, InPhase, At, clientVars
  <2>3. \A x \in Sessions : At(x, "idle")' => outbox'[x] = None
    BY <1>1, <1>2 DEF DialogueInv, InStep, At
  <2> QED
    BY <2>1, <2>2, <2>3 DEF InStep
<1>6. LocalsInScope'
  BY <1>1, <1>2 DEF DialogueInv, LocalsInScope, Accepted, At
<1> QED
  BY <1>3, <1>4, <1>5, <1>6 DEF DialogueInv

\* The client of a session, seen from the session.
LEMMA PeerPhase ==
  ASSUME DialogueInv, NEW c \in Clients, conn[c] \in Sessions
  PROVE  /\ InPhase(c, conn[c])
         /\ Received(conn[c], "KEY") => outbox[conn[c]].arg = KeyOf[c]
         /\ sess[conn[c]].pc \notin {"idle", "read"} => sess[conn[c]].key = KeyOf[c]
BY NoneIsNothing DEF DialogueInv, InStep, KeyOfPeer

\* Every step of a session, and the offer of an id.
LEMMA DialogueOfSession ==
  ASSUME TypeOK, DialogueInv, NEW s \in Sessions, SessionStep(s) \/ OfferAnyId(s)
  PROVE  DialogueInv'
<1> USE NoneIsNothing
<1>1. UNCHANGED clientVars /\ sess[s] \in SessionRecord
  BY DEF SessionStep, OfferAnyId, TypeOK, ServerTypeOK
<1>2. \A c \in Clients : conn[c] = s => conn[c] \in Sessions
  OBVIOUS
<1>3. ASSUME ~Accepted(s), ReadKey(s) \/ FindUser(s) \/ Watch(s) \/ OfferAnyId(s)
      PROVE  DialogueInv'
  <2>1. sess[s].client = None /\ (sess[s].id # None => sess[s].pc \in {"exchange", "reply"})
    BY <1>3 DEF Accepted, DialogueInv, LocalsInScope
  <2>2. CASE ReadKey(s)
    <3> DEFINE t == [sess[s] EXCEPT !.pc = "find", !.key = outbox[s].arg]
    <3>1. outbox[s].arg \in Keys
      BY <2>2, Arguments DEF ReadKey, Received, TypeOK, SocketTypeOK
    <3>2. t \in SessionRecord /\ t.pc = "find" /\ t.key = outbox[s].arg /\ t.id = None /\ t.client = None
      BY <1>1, <2>1, <2>2, <3>1 DEF ReadKey, At, SessionRecord, SessionPC
    <3>3. sess' = [sess EXCEPT ![s] = t]
      BY <2>2 DEF ReadKey, TypeOK, ServerTypeOK
    <3>4. sess'[s] = t /\ outbox'[s] = None /\ inbox' = inbox
      BY <2>2, <3>3 DEF ReadKey, TypeOK, ServerTypeOK, SocketTypeOK
    <3>5. ASSUME NEW c \in Clients, conn[c] = s
          PROVE  InPhase(c, s)' /\ sess'[s].key = KeyOf[c]
      BY <1>1, <2>2, <3>2, <3>4, <3>5, PeerPhase DEF InPhase, ReadKey, At, Received, clientVars
    <3> HIDE DEF t
    <3>6. /\ UNCHANGED <<conn, inbox, clientVars>>
          /\ outbox' = [outbox EXCEPT ![s] = None]
      BY <1>1, <2>2 DEF ReadKey
    <3> QED
      BY <3>2, <3>3, <3>5, <3>6, DialogueMoves
  <2>3. CASE FindUser(s) \/ Watch(s)
    <3>1. PICK t \in SessionRecord :
            /\ sess' = [sess EXCEPT ![s] = t]
            /\ t.pc \in {"watch", "lock"} /\ t.key = sess[s].key /\ t.id = None /\ t.client = None
      <4>1. ASSUME FindUser(s), NEW user \in Users \cup {None},
                   sess' = [sess EXCEPT ![s].pc = "watch", ![s].user = user]
            PROVE  /\ [sess[s] EXCEPT !.pc = "watch", !.user = user] \in SessionRecord
                   /\ sess' = [sess EXCEPT ![s] = [sess[s] EXCEPT !.pc = "watch", !.user = user]]
        BY <1>1, <4>1 DEF SessionRecord, SessionPC, TypeOK, ServerTypeOK
      <4>2. ASSUME Watch(s)
            PROVE  /\ [sess[s] EXCEPT !.pc = "lock"] \in SessionRecord
                   /\ sess' = [sess EXCEPT ![s] = [sess[s] EXCEPT !.pc = "lock"]]
        BY <1>1, <4>2 DEF Watch, SessionRecord, SessionPC, TypeOK, ServerTypeOK
      <4> QED
        BY <1>1, <2>1, <2>3, <4>1, <4>2 DEF FindUser, Watch, At, SessionRecord
    <3>2. sess'[s] = t /\ UNCHANGED socketVars /\ sess[s].pc \in {"find", "watch"}
      BY <2>3, <3>1 DEF FindUser, Watch, At, TypeOK, ServerTypeOK
    <3>3. ASSUME NEW c \in Clients, conn[c] = s
          PROVE  InPhase(c, s)' /\ sess'[s].key = KeyOf[c]
      BY <1>1, <3>1, <3>2, <3>3, PeerPhase DEF InPhase, At, clientVars, socketVars
    <3> QED
      BY <1>1, <3>1, <3>2, <3>3, DialogueMoves DEF socketVars
  <2>4. ASSUME NEW id \in TempIds, OfferId(s, id)
        PROVE  DialogueInv'
    <3> DEFINE t == [sess[s] EXCEPT !.pc = "exchange", !.id = id]
    <3>1. t \in SessionRecord /\ t.pc = "exchange" /\ t.key = sess[s].key /\ t.client = None
      BY <1>1, <2>1 DEF SessionRecord, SessionPC
    <3>2. sess' = [sess EXCEPT ![s] = t]
      BY <2>4 DEF OfferId, TypeOK, ServerTypeOK
    <3>3. sess'[s] = t /\ outbox' = outbox /\ sess[s].pc = "lock"
      BY <2>4, <3>2 DEF OfferId, At, TypeOK, ServerTypeOK
    <3>4. ASSUME NEW c \in Clients, conn[c] = s
          PROVE  InPhase(c, s)' /\ sess'[s].key = KeyOf[c]
      BY <1>1, <3>1, <3>3, <3>4, PeerPhase DEF InPhase, At, clientVars
    <3>5. \A c \in Clients : conn[c] # s => inbox'[c] = inbox[c]
      BY <2>4 DEF OfferId, ToClient
    <3> HIDE DEF t
    <3> QED
      BY <1>1, <2>4, <3>1, <3>2, <3>3, <3>4, <3>5, DialogueMoves DEF OfferId
  <2> QED
    BY <1>3, <2>2, <2>3, <2>4 DEF OfferAnyId
<1>4. CASE ReadKeyFails(s) \/ RefuseKey(s) \/ ExchangeFails(s) \/ Reply(s) \/ ReplyFails(s)
  BY <1>1, <1>4, DialogueEnds
  DEF ReadKeyFails, RefuseKey, ExchangeFails, Reply, ReplyFails, ToClient
<1>5. CASE HandleRequest(s) \/ HandleCheck(s) \/ HandleRelease(s) \/ HandleUnknown(s)
  <2>1. At(s, "exchange") /\ outbox[s] # None
    BY <1>5 DEF HandleRequest, HandleCheck, HandleRelease, HandleUnknown, Names, Received
  <2>2. \E answer, client : Answer(s, answer, client) /\ (client # None => client.key = sess[s].key)
    <3>1. CASE HandleRequest(s)
      BY <3>1 DEF HandleRequest
    <3>2. CASE HandleCheck(s)
      BY <3>2 DEF HandleCheck
    <3>3. CASE HandleRelease(s) \/ HandleUnknown(s)
      BY <3>3 DEF HandleRelease, HandleUnknown
    <3> QED
      BY <1>5, <3>1, <3>2, <3>3
  <2> QED
    BY <1>1, <2>1, <2>2, DialogueAnswers
<1>6. ReadKey(s) \/ FindUser(s) \/ Watch(s) \/ OfferAnyId(s) => ~Accepted(s)
  BY DEF ReadKey, FindUser, Watch, OfferAnyId, OfferId, At, DialogueInv, LocalsInScope
<1> QED
  BY <1>3, <1>4, <1>5, <1>6 DEF SessionStep

\* A client closes its socket, and what it has written may be lost.
LEMMA DialogueLeft ==
  ASSUME TypeOK, DialogueInv, NEW c \in Clients, UNCHANGED sess,
         conn' = [conn EXCEPT ![c] = None], inbox' = [inbox EXCEPT ![c] = None],
         \A x \in Clients : x # c => cpc'[x] = cpc[x],
         \/ outbox' = outbox
         \/ conn[c] # None /\ outbox' = [outbox EXCEPT ![conn[c]] = None]
  PROVE  DialogueInv'
<1> USE NoneIsNothing DEF TypeOK, SocketTypeOK, ServerTypeOK
<1>1. \A x \in Clients : conn'[x] # None => x # c /\ conn'[x] = conn[x] /\ inbox'[x] = inbox[x]
  OBVIOUS
<1>2. \A x \in Clients : conn'[x] # None => outbox'[conn[x]] = outbox[conn[x]]
  BY DEF DialogueInv, OneConnection
<1>3. OneConnection'
  BY <1>1 DEF DialogueInv, OneConnection
<1>4. KeyOfPeer'
  BY <1>1, <1>2 DEF DialogueInv, KeyOfPeer, Received
<1>5. InStep'
  BY <1>1, <1>2 DEF DialogueInv, InStep, InPhase, At
<1>6. LocalsInScope'
  BY DEF DialogueInv, LocalsInScope, Accepted, At
<1> QED
  BY <1>3, <1>4, <1>5, <1>6 DEF DialogueInv

\* Every step of a client, of the network between them, and the accept.
LEMMA DialogueOfClient ==
  ASSUME TypeOK, DialogueInv, NEW c \in Clients,
         \/ DialogueStep(c)
         \/ Start(c) /\ UNCHANGED <<serverVars, dbVars>>
         \/ Vanish(c) /\ UNCHANGED <<serverVars, dbVars>>
         \/ NetworkReset(c) /\ UNCHANGED <<serverVars, dbVars>>
         \/ NotAccepted(c)
         \/ \E s \in Sessions : Accept(c, s)
  PROVE  DialogueInv'
<1>1. CASE /\ UNCHANGED serverVars
           /\ \/ ExchangeError(c) \/ KeyRefused(c) \/ LicenseGood(c) \/ LicenseRefused(c)
              \/ Vanish(c) \/ ConnectFails(c) \/ NetworkReset(c)
  <2>1. UNCHANGED sess
    BY <1>1 DEF serverVars
  <2>2. ASSUME NEW newStatus, Return(c, newStatus), UNCHANGED outbox
        PROVE  DialogueInv'
    <3>1. /\ conn' = [conn EXCEPT ![c] = None] /\ inbox' = [inbox EXCEPT ![c] = None]
          /\ \A x \in Clients : x # c => cpc'[x] = cpc[x]
      BY <2>2 DEF Return
    <3> QED
      BY <2>1, <2>2, <3>1, DialogueLeft
  <2>3. CASE LicenseGood(c)
    <3>1. /\ conn' = [conn EXCEPT ![c] = None] /\ inbox' = [inbox EXCEPT ![c] = None]
          /\ outbox' = outbox /\ \A x \in Clients : x # c => cpc'[x] = cpc[x]
      BY <2>3 DEF LicenseGood
    <3> QED
      BY <2>1, <3>1, DialogueLeft
  <2>4. CASE NetworkReset(c)
    <3>1. /\ conn' = [conn EXCEPT ![c] = None] /\ inbox' = [inbox EXCEPT ![c] = None]
          /\ conn[c] # None /\ outbox' = [outbox EXCEPT ![conn[c]] = None] /\ cpc' = cpc
      BY <2>4 DEF NetworkReset, clientVars
    <3> QED
      BY <2>1, <3>1, DialogueLeft
  <2> QED
    BY <1>1, <2>2, <2>3, <2>4
    DEF ExchangeError, KeyRefused, LicenseRefused, Vanish, ConnectFails
<1> USE NoneIsNothing DEF TypeOK, SocketTypeOK, ServerTypeOK, ClientTypeOK
<1>2. CASE Start(c) /\ UNCHANGED serverVars
  <2>1. OneConnection' /\ KeyOfPeer' /\ LocalsInScope'
    BY <1>2
    DEF Start, DialogueInv, OneConnection, KeyOfPeer, LocalsInScope, Accepted, Received, At,
        serverVars, socketVars
  <2>2. InStep'
    BY <1>2 DEF Start, DialogueInv, InStep, InPhase, At, serverVars, socketVars
  <2> QED
    BY <2>1, <2>2 DEF DialogueInv
<1>3. CASE SendKey(c) /\ UNCHANGED serverVars
  <2>1. InPhase(c, conn[c]) /\ conn[c] \in Sessions
    BY <1>3, PeerPhase DEF SendKey
  <2>2. /\ At(conn[c], "read") /\ inbox[c] = None
        /\ cpc'[c] = "keyAnswer" /\ outbox'[conn[c]] = Msg("KEY", KeyOf[c])
        /\ UNCHANGED <<sess, conn, inbox>>
    BY <1>3, <2>1 DEF SendKey, InPhase, serverVars
  <2>3. /\ \A x \in Clients : x # c => cpc'[x] = cpc[x]
        /\ \A x \in Sessions : x # conn[c] => outbox'[x] = outbox[x]
    BY <1>3 DEF SendKey
  <2>4. OneConnection' /\ LocalsInScope'
    BY <2>2 DEF DialogueInv, OneConnection, LocalsInScope, Accepted, At
  <2>5. KeyOfPeer'
    BY <2>1, <2>2, <2>3 DEF DialogueInv, OneConnection, KeyOfPeer, Received, Msg, At
  <2>6. InStep'
    <3>1. \A x \in Clients : cpc'[x] \in {"off", "connect"} => conn'[x] = None /\ inbox'[x] = None
      BY <2>2, <2>3 DEF DialogueInv, InStep
    <3>2. InPhase(c, conn[c])'
      BY <2>2 DEF InPhase, At
    <3>3. ASSUME NEW x \in Clients, conn[x] # None, x # c
          PROVE  InPhase(x, conn[x])'
      <4>1. conn[x] # conn[c] /\ conn[x] \in Sessions /\ InPhase(x, conn[x])
        BY <3>3 DEF DialogueInv, OneConnection, InStep
      <4> QED
        BY <2>2, <2>3, <3>3, <4>1 DEF InPhase, At
    <3>4. \A s \in Sessions : At(s, "idle")' => outbox'[s] = None
      BY <2>2, <2>3 DEF DialogueInv, InStep, At
    <3> QED
      BY <2>2, <3>1, <3>2, <3>3, <3>4 DEF InStep
  <2> QED
    BY <2>4, <2>5, <2>6 DEF DialogueInv
<1>4. CASE KeyGood(c) /\ UNCHANGED serverVars
  <2>1. /\ UNCHANGED <<sess, conn>> /\ cpc[c] = "keyAnswer" /\ inbox[c] # None
        /\ cpc'[c] = "licenseAnswer" /\ inbox'[c] = None
        /\ \A x \in Clients : x # c => cpc'[x] = cpc[x] /\ inbox'[x] = inbox[x]
    BY <1>4 DEF KeyGood, serverVars
  <2>2. \A x \in Sessions : x # conn[c] => outbox'[x] = outbox[x]
    BY <1>4 DEF KeyGood
  <2>3. conn[c] # None => InPhase(c, conn[c]) /\ At(conn[c], "exchange")
    BY <2>1, PeerPhase DEF InPhase
  <2>4. conn[c] # None => ~Received(conn[c], "KEY")'
    BY <1>4 DEF KeyGood, Received, Msg, Queries
  <2>5. OneConnection' /\ LocalsInScope'
    BY <2>1 DEF DialogueInv, OneConnection, LocalsInScope, Accepted, At
  <2>6. KeyOfPeer'
    BY <2>1, <2>2, <2>4 DEF DialogueInv, OneConnection, KeyOfPeer, Received
  <2>7. InStep'
    <3>1. \A x \in Clients : cpc'[x] \in {"off", "connect"} => conn'[x] = None /\ inbox'[x] = None
      BY <2>1 DEF DialogueInv, InStep
    <3>2. conn[c] # None => InPhase(c, conn[c])'
      BY <2>1, <2>3 DEF InPhase, At
    <3>3. ASSUME NEW x \in Clients, conn[x] # None, x # c
          PROVE  InPhase(x, conn[x])'
      <4>1. conn[x] # conn[c] /\ conn[x] \in Sessions /\ InPhase(x, conn[x])
        BY <3>3 DEF DialogueInv, OneConnection, InStep
      <4> QED
        BY <2>1, <2>2, <3>3, <4>1 DEF InPhase, At
    <3>4. \A s \in Sessions : At(s, "idle")' => outbox'[s] = None
      BY <2>1, <2>2, <2>3 DEF DialogueInv, InStep, At
    <3> QED
      BY <2>1, <3>1, <3>2, <3>3, <3>4 DEF InStep
  <2> QED
    BY <2>5, <2>6, <2>7 DEF DialogueInv
<1>5. ASSUME NEW s \in Sessions, Accept(c, s)
      PROVE  DialogueInv'
  <2>1. /\ conn[c] = None /\ inbox[c] = None /\ outbox[s] = None /\ sess[s].pc = "idle"
        /\ sess[s].client = None /\ sess[s].id = None
        /\ \A x \in Clients : conn[x] # s
    BY <1>5 DEF Accept, Connect, DialogueInv, InStep, InPhase, LocalsInScope, At, Accepted
  <2>2. /\ UNCHANGED <<inbox, outbox>>
        /\ conn'[c] = s /\ cpc'[c] = "key"
        /\ \A x \in Clients : x # c => cpc'[x] = cpc[x] /\ conn'[x] = conn[x]
        /\ \A x \in Sessions : x # s => sess'[x] = sess[x]
    BY <1>5 DEF Accept, Connect
  <2>3. sess'[s].pc = "read" /\ sess'[s].client = None /\ sess'[s].id = None
    BY <1>5, <2>1 DEF Accept, SessionRecord
  <2>4. OneConnection'
    BY <2>1, <2>2 DEF DialogueInv, OneConnection
  <2>5. KeyOfPeer'
    BY <2>1, <2>2, <2>3 DEF DialogueInv, KeyOfPeer, Received
  <2>6. InStep'
    <3>1. \A x \in Clients : cpc'[x] \in {"off", "connect"} => conn'[x] = None /\ inbox'[x] = None
      BY <2>2 DEF DialogueInv, InStep
    <3>2. InPhase(c, s)'
      BY <2>1, <2>2, <2>3 DEF InPhase, At
    <3>3. ASSUME NEW x \in Clients, conn[x] # None, x # c
          PROVE  InPhase(x, conn[x])'
      BY <2>1, <2>2, <3>3 DEF DialogueInv, InStep, InPhase, At
    <3>4. \A x \in Sessions : At(x, "idle")' => outbox'[x] = None
      BY <2>2, <2>3 DEF DialogueInv, InStep, At
    <3>5. InPhase(c, conn[c])'
      BY <2>2, <3>2 DEF InPhase, At
    <3>6. ASSUME NEW x \in Clients, conn'[x] # None, x # c
          PROVE  InPhase(x, conn[x])'
      BY <2>2, <3>3, <3>6 DEF InPhase, At
    <3> QED
      BY <3>1, <3>4, <3>5, <3>6 DEF InStep
  <2>7. LocalsInScope'
    BY <2>2, <2>3 DEF DialogueInv, LocalsInScope, Accepted, At
  <2> QED
    BY <2>4, <2>5, <2>6, <2>7 DEF DialogueInv
<1> QED
  BY <1>1, <1>2, <1>3, <1>4, <1>5 DEF DialogueStep, NotAccepted

\* A client and its session stay in step, and a session works for the key of its
\* client, whatever fails (main.cpp:261-355, LicenseControl.cpp:195-333).
THEOREM DialogueInStep == Spec => []DialogueInv
<1>1. Init => DialogueInv
  BY NoneIsNothing
  DEF Init, ServerInit, SocketInit, ClientInit, DialogueInv, OneConnection, KeyOfPeer, InStep,
      LocalsInScope, Accepted, At, IdleSession
<1>2. TypeOK /\ DialogueInv /\ [Next]_vars => DialogueInv'
  <2> SUFFICES ASSUME TypeOK, DialogueInv, [Next]_vars PROVE DialogueInv'
    OBVIOUS
  <2>1. ASSUME NEW s \in Sessions, SessionStep(s) \/ OfferAnyId(s)
        PROVE  DialogueInv'
    BY <2>1, DialogueOfSession
  <2>2. ASSUME NEW r \in Reapers, ReaperStep(r) \/ TakeTurn(r)
        PROVE  DialogueInv'
    BY <2>2, DialogueUntouched
    DEF ReaperStep, TakeTurn, StartReaper, LoopTest, Sweep, Drain, FinishSweep, clientVars
  <2>3. CASE Recover \/ \E id \in TempIds : Age(id)
    BY <2>3, DialogueUntouched DEF Recover, Restart, Age, clientVars
  <2>4. CASE Tables \/ UNCHANGED vars
    BY <2>4, DialogueUntouched DEF Tables, vars, serverVars, clientVars
  <2>5. CASE \E c \in Clients : DialogueStep(c)
    BY <2>5, DialogueOfClient
  <2>6. CASE Environment
    <3>1. CASE Die /\ UNCHANGED clientVars
      BY <3>1, DialogueDies
    <3>2. CASE StartAnother /\ UNCHANGED clientVars
      BY <3>2, DialogueUntouched DEF StartAnother, serverVars, clientVars
    <3> QED
      BY <2>6, <3>1, <3>2, DialogueOfClient DEF Environment, Crash, FindUserFails
  <2> QED
    BY <2>1, <2>2, <2>3, <2>4, <2>5, <2>6 DEF Next
<1> QED
  BY <1>1, <1>2, TypeCorrect, PTL DEF Spec
=============================================================================
