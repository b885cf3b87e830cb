------------------------- MODULE LicenseSystemProofs -------------------------
(***************************************************************************)
(* Invariants of LicenseSystem for every number of clients, sessions,      *)
(* reapers, keys and ids, and for every choice of faults and changes.      *)
(***************************************************************************)
EXTENDS LicenseSystem, TLAPS

-----------------------------------------------------------------------------
(***************************************************************************)
(* What the stored functions return and what they do to the tables.        *)
(***************************************************************************)
\* The rows keep their shape through an update of key_s and its trigger
\* (Alex_K_DB.sql:124-148).
LEMMA UpdateKeysType ==
  ASSUME DBTypeOK, NEW l \in Licenses, NEW S, NEW v \in {"free", "requested"},
         NEW ok \in BOOLEAN, UpdateKeys(l, S, v, ok)
  PROVE  DBTypeOK'
<1>1. license' \in [Licenses -> LicenseRow]
  <2>1. [status |-> "active", overdue |-> FALSE] \in LicenseRow
    BY DEF LicenseRow
  <2>2. [license[l] EXCEPT !.status = "expired"] \in LicenseRow
    BY DEF DBTypeOK, LicenseRow
  <2>3. \A row \in LicenseRow : [license EXCEPT ![l] = row] \in [Licenses -> LicenseRow]
    BY DEF DBTypeOK
  <2>4. \/ UNCHANGED license
        \/ license' = [license EXCEPT ![l] = [status |-> "active", overdue |-> FALSE]]
        \/ license' = [license EXCEPT ![l].status = "expired"]
    BY DEF UpdateKeys, dbVars
  <2> QED
    BY <2>1, <2>2, <2>3, <2>4 DEF DBTypeOK
<1>2. Written(S, v) \in [Keys -> KeyRow] /\ Written(S, "free") \in [Keys -> KeyRow]
  BY DEF DBTypeOK, Written, KeyRow
<1>3. key_s' \in {key_s, Written(S, v), Written(S, "free")}
  BY DEF UpdateKeys, dbVars
<1> QED
  BY <1>1, <1>2, <1>3 DEF DBTypeOK

\* Each stored function the server calls keeps the shape of the rows
\* (Alex_K_DB.sql:966-997, 1689-1725, 1782-1826).
LEMMA CallType ==
  ASSUME DBTypeOK, NEW function, NEW u, NEW k \in Keys, NEW ret, Call(function, u, k, ret)
  PROVE  DBTypeOK'
<1> DEFINE l == LicenseOf[k]
<1>1. l \in Licenses
  BY TypesAssumption
<1>2. UNCHANGED dbVars => DBTypeOK'
  BY DEF DBTypeOK, dbVars
<1>3. ASSUME NEW S, NEW v \in {"free", "requested"}, NEW ok \in BOOLEAN, UpdateKeys(l, S, v, ok)
      PROVE  DBTypeOK'
  BY <1>1, <1>3, UpdateKeysType
<1> HIDE DEF l
<1>4. CASE RequestKey(u, k, ret)
  BY <1>2, <1>3, <1>4 DEF RequestKey, l
<1>5. CASE ActiveKeyCheck(u, k, ret)
  BY <1>2, <1>3, <1>5 DEF ActiveKeyCheck, l
<1>6. CASE ReleaseKey(u, k, ret)
  BY <1>2, <1>3, <1>6 DEF ReleaseKey, l
<1> QED
  BY <1>4, <1>5, <1>6 DEF Call

\* So does MySQLconnection::Select, also when it fails (MySQLinit.cpp:296-336).
LEMMA SelectType ==
  ASSUME DBTypeOK, NEW function, NEW u, NEW k \in Keys, NEW ret, Select(function, u, k, ret)
  PROVE  DBTypeOK'
BY CallType DEF Select, DBTypeOK, dbVars

\* NullStart keeps the shape of the rows (MySQLinit.cpp:339-354).
LEMMA NullStartType ==
  ASSUME DBTypeOK, NullStart
  PROVE  DBTypeOK'
BY DEF DBTypeOK, NullStart, Written, LicenseRow, KeyRow, dbVars

-----------------------------------------------------------------------------
(***************************************************************************)
(* The shape of the sockets, of the locals and of the threads.             *)
(***************************************************************************)
\* ToClient and Without, the two ways a session changes a socket, keep its shape.
LEMMA SocketUpdates ==
  ASSUME SocketTypeOK, NEW s \in Sessions
  PROVE  /\ \A msg \in Message : ToClient(s, msg) \in [Clients -> Message \cup {None}]
         /\ Without(s) \in [Clients -> Sessions \cup {None}]
BY DEF SocketTypeOK, ToClient, Without

\* The records of a new session and of a thread that has ended.
LEMMA IdleRecords ==
  IdleSession \in SessionRecord /\ Assigned(IdleSession) /\ IdleReaper \in ReaperRecord
BY DEF IdleSession, SessionRecord, SessionPC, Assigned, IdleReaper, ReaperRecord, ReaperPC

\* A session moves to a record whose locals are assigned, the others stay.
LEMMA SessionMoves ==
  ASSUME TypeOK, NEW s \in Sessions, NEW t \in SessionRecord, Assigned(t),
         sess' = [sess EXCEPT ![s] = t]
  PROVE  sess' \in [Sessions -> SessionRecord] /\ \A x \in Sessions : Assigned(sess'[x])
BY DEF TypeOK, ServerTypeOK

\* What the two programs send each other are messages.
LEMMA Messages ==
  /\ \A answer \in LicenseAnswers : Msg(answer, None) \in Message
  /\ \A id \in TempIds : Msg("KEY_ANSWER_GOOD", id) \in Message
  /\ Msg("KEY_ANSWER_UNKNOWN_KEY_REQUEST", None) \in Message
  /\ \A k \in Keys : Msg("KEY", k) \in Message
  /\ \A u \in Users : Msg("REQUEST", u) \in Message
  /\ \A q \in {"CHECK", "RELEASE"}, id \in TempIds \cup {None} : Msg(q, id) \in Message
BY DEF Msg, Message

\* What a message of each type carries.
LEMMA Arguments ==
  ASSUME NEW msg \in Message
  PROVE  /\ msg.type = "KEY" => msg.arg \in Keys
         /\ msg.type = "KEY_ANSWER_GOOD" => msg.arg \in TempIds
BY DEF Message, LicenseAnswers

\* The end of a session: its locals, its socket and m (main.cpp:480-488).
LEMMA EndType ==
  ASSUME TypeOK, NEW s \in Sessions, End(s)
  PROVE  /\ sess' \in [Sessions -> SessionRecord] /\ \A x \in Sessions : Assigned(sess'[x])
         /\ conn' \in [Clients -> Sessions \cup {None}]
         /\ outbox' \in [Sessions -> Message \cup {None}]
         /\ m' \in Sessions \cup Reapers \cup {None}
<1>1. sess' \in [Sessions -> SessionRecord] /\ \A x \in Sessions : Assigned(sess'[x])
  BY IdleRecords, SessionMoves DEF End
<1>2. conn' \in [Clients -> Sessions \cup {None}]
  BY SocketUpdates DEF TypeOK, End
<1>3. outbox' \in [Sessions -> Message \cup {None}]
  BY DEF TypeOK, SocketTypeOK, End
<1>4. m' \in Sessions \cup Reapers \cup {None}
  BY DEF TypeOK, ServerTypeOK, End
<1> QED
  BY <1>1, <1>2, <1>3, <1>4

\* The answer a session has decided (main.cpp:371-457).
LEMMA AnswerType ==
  ASSUME TypeOK, NEW s \in Sessions, sess[s].pc = "exchange", NEW answer \in LicenseAnswers,
         NEW client \in ClientRecord \cup {None}, Answer(s, answer, client)
  PROVE  /\ sess' \in [Sessions -> SessionRecord] /\ \A x \in Sessions : Assigned(sess'[x])
         /\ SocketTypeOK'
         /\ UNCHANGED <<up, isNotUse, m, reap>>
<1> DEFINE t == [sess[s] EXCEPT !.pc = "reply", !.answer = answer, !.client = client]
<1>1. sess[s] \in SessionRecord /\ Assigned(sess[s])
  BY DEF TypeOK, ServerTypeOK
<1>2. t \in SessionRecord
  BY <1>1 DEF SessionRecord, SessionPC
<1>3. Assigned(t)
  BY <1>1 DEF SessionRecord, Assigned
<1>4. sess' = [sess EXCEPT ![s] = t]
  BY DEF TypeOK, ServerTypeOK, Answer
<1>5. sess' \in [Sessions -> SessionRecord] /\ \A x \in Sessions : Assigned(sess'[x])
  BY <1>2, <1>3, <1>4, SessionMoves
<1>6. SocketTypeOK'
  BY DEF TypeOK, SocketTypeOK, Answer
<1> QED
  BY <1>5, <1>6 DEF Answer

\* The process has ended and nothing of it is left (main.cpp:291, 560-632).
LEMMA DieType ==
  ASSUME TypeOK, Die
  PROVE  ServerTypeOK' /\ SocketTypeOK'
BY IdleRecords DEF TypeOK, ServerTypeOK, SocketTypeOK, Die

\* run_license_ctrl has returned with a status (LicenseControl.cpp:148-193, 207-219, 267-333).
LEMMA ReturnType ==
  ASSUME TypeOK, NEW c \in Clients, NEW newStatus \in Statuses, Return(c, newStatus),
         UNCHANGED outbox
  PROVE  ClientTypeOK' /\ SocketTypeOK'
BY DEF TypeOK, ClientTypeOK, SocketTypeOK, Return, ClientPC, Queries

-----------------------------------------------------------------------------
\* The steps of a session keep the types.
LEMMA SessionStepType ==
  ASSUME TypeOK, NEW s \in Sessions, SessionStep(s)
  PROVE  TypeOK'
<1> USE DEF TypeOK
<1>1. ClientTypeOK'
  BY DEF SessionStep, clientVars, ClientTypeOK
<1>2. /\ sess[s] \in SessionRecord /\ Assigned(sess[s])
      /\ outbox[s] \in Message \cup {None}
  BY DEF ServerTypeOK, SocketTypeOK
<1>3. UNCHANGED dbVars => DBTypeOK'
  BY DEF DBTypeOK, dbVars
<1>4. CASE ReadKey(s)
  <2> DEFINE t == [sess[s] EXCEPT !.pc = "find", !.key = outbox[s].arg]
  <2>1. outbox[s].arg \in Keys
    BY <1>2, <1>4, Arguments DEF ReadKey, Received
  <2>2. t \in SessionRecord /\ Assigned(t)
    BY <1>2, <2>1 DEF SessionRecord, SessionPC, Assigned
  <2>3. sess' = [sess EXCEPT ![s] = t]
    BY <1>4 DEF ReadKey, ServerTypeOK
  <2>4. ServerTypeOK'
    BY <1>4, <2>2, <2>3, SessionMoves DEF ReadKey, ServerTypeOK
  <2>5. SocketTypeOK'
    BY <1>4 DEF ReadKey, SocketTypeOK
  <2> QED
    BY <1>1, <1>3, <1>4, <2>4, <2>5 DEF ReadKey
<1>5. CASE ReadKeyFails(s)
  BY <1>1, <1>3, <1>5, EndType DEF ReadKeyFails, ServerTypeOK, SocketTypeOK
<1>6. CASE FindUser(s)
  <2>1. PICK user \in Users \cup {None} :
           sess' = [sess EXCEPT ![s].pc = "watch", ![s].user = user]
    BY <1>6 DEF FindUser
  <2> DEFINE t == [sess[s] EXCEPT !.pc = "watch", !.user = user]
  <2>2. t \in SessionRecord /\ Assigned(t)
    BY <1>2, <1>6 DEF FindUser, At, SessionRecord, SessionPC, Assigned
  <2>3. sess' = [sess EXCEPT ![s] = t]
    BY <2>1 DEF ServerTypeOK
  <2>4. ServerTypeOK'
    BY <1>6, <2>2, <2>3, SessionMoves DEF FindUser, ServerTypeOK
  <2>5. SocketTypeOK'
    BY <1>6 DEF FindUser, SocketTypeOK, socketVars
  <2> QED
    BY <1>1, <1>3, <1>6, <2>4, <2>5 DEF FindUser
<1>7. CASE Watch(s)
  <2> DEFINE t == [sess[s] EXCEPT !.pc = "lock"]
  <2>1. t \in SessionRecord /\ Assigned(t)
    BY <1>2, <1>7 DEF Watch, At, SessionRecord, SessionPC, Assigned
  <2>2. sess' = [sess EXCEPT ![s] = t]
    BY <1>7 DEF Watch, ServerTypeOK
  <2>3. \A r \in Reapers : [reap[r] EXCEPT !.pc = "start"] \in ReaperRecord
    BY DEF ServerTypeOK, ReaperRecord, ReaperPC
  <2>4. reap' \in [Reapers -> ReaperRecord]
    BY <1>7, <2>3 DEF Watch, ServerTypeOK
  <2>5. ServerTypeOK' /\ SocketTypeOK'
    BY <1>7, <2>1, <2>2, <2>4, SessionMoves
    DEF Watch, ServerTypeOK, SocketTypeOK, socketVars
  <2> QED
    BY <1>1, <1>3, <1>7, <2>5 DEF Watch
<1>8. CASE RefuseKey(s)
  <2>1. inbox' \in [Clients -> Message \cup {None}]
    BY <1>8, SocketUpdates, Messages DEF RefuseKey
  <2> QED
    BY <1>1, <1>3, <1>8, <2>1, EndType DEF RefuseKey, ServerTypeOK, SocketTypeOK
<1>9. CASE ExchangeFails(s)
  BY <1>1, <1>3, <1>9, EndType DEF ExchangeFails, ServerTypeOK, SocketTypeOK
<1>10. CASE HandleRequest(s)
  <2>1. sess[s].pc = "exchange" /\ sess[s].key \in Keys /\ outbox[s].arg \in Users
    BY <1>2, <1>10 DEF HandleRequest, At, Assigned
  <2>2. PICK ret \in Licenses \cup {None} :
          /\ Select("REQUEST", sess[s].user, sess[s].key, ret)
          /\ \/ /\ ret # None
                /\ Answer(s, "LICENSE_ANSWER_GOOD",
                          [user |-> outbox[s].arg, license |-> ret, key |-> sess[s].key,
                           stale |-> FALSE, for_deleting |-> FALSE])
             \/ ret = None /\ Answer(s, "LICENSE_ANSWER_BUSY", None)
    BY <1>10 DEF HandleRequest
  <2>3. ret # None => [user |-> outbox[s].arg, license |-> ret, key |-> sess[s].key,
                       stale |-> FALSE, for_deleting |-> FALSE] \in ClientRecord
    BY <2>1 DEF ClientRecord
  <2>4. \E answer \in LicenseAnswers, client \in ClientRecord \cup {None} :
          Answer(s, answer, client)
    BY <2>2, <2>3 DEF LicenseAnswers
  <2>5. DBTypeOK'
    BY <2>1, <2>2, SelectType
  <2> QED
    BY <1>1, <1>10, <2>1, <2>4, <2>5, AnswerType DEF HandleRequest, ServerTypeOK
<1>11. CASE HandleCheck(s)
  <2> DEFINE entry == currentClients[outbox[s].arg]
  <2>1. sess[s].pc = "exchange" /\ outbox[s].arg \in TempIds /\ entry \in ClientRecord
    BY <1>11 DEF HandleCheck, Names, At, Tracked, ServerTypeOK
  <2>2. entry.key \in Keys
    BY <2>1 DEF ClientRecord
  <2>3. currentClients' \in [TempIds -> ClientRecord \cup {None}]
    BY <1>11 DEF HandleCheck, ServerTypeOK
  <2>4. \E answer \in LicenseAnswers, client \in ClientRecord \cup {None} :
          Answer(s, answer, client)
    BY <1>11, <2>1 DEF HandleCheck, LicenseAnswers
  <2>5. DBTypeOK'
    BY <1>3, <1>11, <2>2, SelectType DEF HandleCheck
  <2> QED
    BY <1>1, <2>1, <2>3, <2>4, <2>5, AnswerType DEF ServerTypeOK
<1>12. CASE HandleRelease(s)
  <2>1. sess[s].pc = "exchange" /\ sess[s].key \in Keys
    BY <1>2, <1>12 DEF HandleRelease, Names, At, Assigned
  <2>2. currentClients' \in [TempIds -> ClientRecord \cup {None}]
    BY <1>12 DEF HandleRelease, ServerTypeOK
  <2>3. \E answer \in LicenseAnswers : Answer(s, answer, None)
    BY <1>12 DEF HandleRelease, LicenseAnswers
  <2>4. DBTypeOK'
    BY <1>12, <2>1, SelectType DEF HandleRelease
  <2> QED
    BY <1>1, <2>1, <2>2, <2>3, <2>4, AnswerType DEF ServerTypeOK
<1>13. CASE HandleUnknown(s)
  <2>1. sess[s].pc = "exchange" /\ Answer(s, "LICENSE_ANSWER_UNKNOWN_KLIENT_REQUEST", None)
    BY <1>13 DEF HandleUnknown, At
  <2>2. "LICENSE_ANSWER_UNKNOWN_KLIENT_REQUEST" \in LicenseAnswers
    BY DEF LicenseAnswers
  <2> QED
    BY <1>1, <1>3, <1>13, <2>1, <2>2, AnswerType DEF HandleUnknown, ServerTypeOK
<1>14. CASE Reply(s)
  <2>1. sess[s].answer \in LicenseAnswers
    BY <1>2, <1>14 DEF Reply, At, Assigned
  <2>2. inbox' \in [Clients -> Message \cup {None}]
    BY <1>14, <2>1, SocketUpdates, Messages DEF Reply
  <2>3. sess[s].client # None => [sess[s].client EXCEPT !.stale = FALSE] \in ClientRecord
    BY <1>2 DEF SessionRecord, ClientRecord
  <2>4. currentClients' \in [TempIds -> ClientRecord \cup {None}]
    BY <1>14, <2>3 DEF Reply, ServerTypeOK
  <2> QED
    BY <1>1, <1>3, <1>14, <2>2, <2>4, EndType DEF Reply, ServerTypeOK, SocketTypeOK
<1>15. CASE ReplyFails(s)
  BY <1>1, <1>3, <1>15, EndType DEF ReplyFails, ServerTypeOK, SocketTypeOK
<1> QED
  BY <1>4, <1>5, <1>6, <1>7, <1>8, <1>9, <1>10, <1>11, <1>12, <1>13, <1>14, <1>15
  DEF SessionStep
\* The steps of a reaper keep the types.
LEMMA ReaperStepType ==
  ASSUME TypeOK, NEW r \in Reapers, ReaperStep(r) \/ TakeTurn(r)
  PROVE  TypeOK'
<1> USE DEF TypeOK
<1>1. ClientTypeOK'
  BY DEF ReaperStep, TakeTurn, clientVars, ClientTypeOK
<1>2. SocketTypeOK'
  BY DEF ReaperStep, TakeTurn, StartReaper, LoopTest, Drain, FinishSweep, Sweep,
         socketVars, SocketTypeOK
<1>3. UNCHANGED dbVars => DBTypeOK'
  BY DEF DBTypeOK, dbVars
<1>4. reap[r] \in ReaperRecord
  BY DEF ServerTypeOK
<1>5. UNCHANGED sess => sess' \in [Sessions -> SessionRecord]
                        /\ \A x \in Sessions : Assigned(sess'[x])
  BY DEF ServerTypeOK
<1>6. ASSUME NEW t \in ReaperRecord, reap' = [reap EXCEPT ![r] = t]
      PROVE  reap' \in [Reapers -> ReaperRecord]
  BY <1>6 DEF ServerTypeOK
<1>7. CASE StartReaper(r)
  <2>1. [reap[r] EXCEPT !.pc = "loop"] \in ReaperRecord
    BY <1>4 DEF ReaperRecord, ReaperPC
  <2>2. reap' = [reap EXCEPT ![r] = [reap[r] EXCEPT !.pc = "loop"]]
    BY <1>7 DEF StartReaper, ServerTypeOK
  <2> QED
    BY <1>1, <1>2, <1>3, <1>5, <1>6, <1>7, <2>1, <2>2 DEF StartReaper, ServerTypeOK
<1>8. CASE LoopTest(r)
  <2>1. [reap[r] EXCEPT !.pc = "sleep"] \in ReaperRecord
    BY <1>4 DEF ReaperRecord, ReaperPC
  <2>2. \E t \in ReaperRecord : reap' = [reap EXCEPT ![r] = t]
    BY <1>8, <2>1, IdleRecords DEF LoopTest, ServerTypeOK
  <2> QED
    BY <1>1, <1>2, <1>3, <1>5, <1>6, <1>8, <2>2 DEF LoopTest, ServerTypeOK
<1>9. ASSUME NEW q \in SUBSET TempIds, EndSweep(r, q)
      PROVE  /\ reap' \in [Reapers -> ReaperRecord]
             /\ isNotUse' \in BOOLEAN
             /\ m' = None
  <2>1. [pc |-> "loop", q1 |-> q] \in ReaperRecord
    BY DEF ReaperRecord, ReaperPC
  <2> QED
    BY <1>6, <1>9, <2>1 DEF EndSweep
<1>10. CASE Drain(r)
  <2>1. PICK i \in reap[r].q1 : reap' = [reap EXCEPT ![r].q1 = @ \ {i}]
    BY <1>10 DEF Drain
  <2>2. [reap[r] EXCEPT !.q1 = @ \ {i}] \in ReaperRecord
    BY <1>4 DEF ReaperRecord
  <2>3. reap' \in [Reapers -> ReaperRecord]
    BY <1>6, <2>1, <2>2 DEF ServerTypeOK
  <2>4. currentClients' \in [TempIds -> ClientRecord \cup {None}]
    BY <1>10 DEF Drain, ServerTypeOK
  <2>5. \A j \in Tracked : currentClients[j].key \in Keys
    BY DEF Tracked, ServerTypeOK, ClientRecord
  <2>6. DBTypeOK'
    BY <1>3, <1>10, <2>5, SelectType DEF Drain
  <2> QED
    BY <1>1, <1>2, <1>5, <1>10, <2>3, <2>4, <2>6 DEF Drain, ServerTypeOK
<1>11. CASE FinishSweep(r)
  <2>1. EndSweep(r, {})
    BY <1>11 DEF FinishSweep
  <2> QED
    BY <1>1, <1>2, <1>3, <1>5, <1>9, <1>11, <2>1 DEF FinishSweep, ServerTypeOK
<1>12. CASE Sweep(r)
  <2> DEFINE q == reap[r].q1 \cup Stale
  <2>1. q \in SUBSET TempIds
    BY <1>4 DEF ReaperRecord, Stale, Tracked
  <2>2. \A i \in Stale : [currentClients[i] EXCEPT !.for_deleting = TRUE] \in ClientRecord
    BY DEF Stale, Tracked, ServerTypeOK, ClientRecord
  <2>3. currentClients' \in [TempIds -> ClientRecord \cup {None}]
    BY <1>12, <2>2 DEF Sweep, ServerTypeOK
  <2>4. [pc |-> "drain", q1 |-> q] \in ReaperRecord
    BY <2>1 DEF ReaperRecord, ReaperPC
  <2>5. /\ reap' \in [Reapers -> ReaperRecord]
        /\ isNotUse' \in BOOLEAN
        /\ m' \in Reapers \cup {None}
    BY <1>6, <1>9, <1>12, <2>1, <2>4 DEF Sweep, ServerTypeOK
  <2> QED
    BY <1>1, <1>2, <1>3, <1>5, <1>12, <2>3, <2>5 DEF Sweep, ServerTypeOK
<1> QED
  BY <1>7, <1>8, <1>10, <1>11, <1>12 DEF ReaperStep, TakeTurn

\* The steps of a client keep the types.
LEMMA DialogueStepType ==
  ASSUME TypeOK, NEW c \in Clients, DialogueStep(c)
  PROVE  TypeOK'
<1> USE DEF TypeOK
<1>1. UNCHANGED <<serverVars, dbVars>> => DBTypeOK' /\ ServerTypeOK'
  BY DEF serverVars, dbVars, DBTypeOK, ServerTypeOK, Assigned
<1>2. UNCHANGED <<serverVars, dbVars>>
  BY DEF DialogueStep
<1>3. AfterError(c) \in Statuses
  BY DEF AfterError, Statuses, ClientTypeOK
<1>4. CASE SendKey(c)
  <2>1. Msg("KEY", KeyOf[c]) \in Message
    BY Messages, ClientAssumption
  <2> QED
    BY <1>1, <1>2, <1>4, <2>1 DEF SendKey, ClientTypeOK, SocketTypeOK, ClientPC
<1>5. CASE ExchangeError(c)
  BY <1>1, <1>2, <1>3, <1>5, ReturnType DEF ExchangeError
<1>6. CASE KeyGood(c)
  <2>1. inbox[c].arg \in TempIds
    BY <1>6, Arguments DEF KeyGood, SocketTypeOK
  <2>2. Msg(query[c], IF query[c] = "REQUEST" THEN UserIdOf[c] ELSE uid[c]) \in Message
    BY Messages, ClientAssumption DEF ClientTypeOK, Queries
  <2> QED
    BY <1>1, <1>2, <1>6, <2>1, <2>2 DEF KeyGood, ClientTypeOK, SocketTypeOK, ClientPC
<1>7. CASE KeyRefused(c)
  BY <1>1, <1>2, <1>7, ReturnType DEF KeyRefused, Statuses
<1>8. CASE LicenseGood(c)
  <2>1. query' \in [Clients -> Queries]
    BY <1>8 DEF LicenseGood, ClientTypeOK, Queries
  <2>2. status' \in [Clients -> Statuses]
    BY <1>8 DEF LicenseGood, ClientTypeOK, Statuses
  <2>3. cpc' \in [Clients -> ClientPC] /\ UNCHANGED uid
    BY <1>8 DEF LicenseGood, ClientTypeOK, ClientPC
  <2>4. SocketTypeOK'
    BY <1>8 DEF LicenseGood, SocketTypeOK
  <2> QED
    BY <1>1, <1>2, <2>1, <2>2, <2>3, <2>4 DEF ClientTypeOK
<1>9. CASE LicenseRefused(c)
  <2>1. FinalStatus(inbox[c].type) \in Statuses
    BY DEF FinalStatus, Statuses
  <2> QED
    BY <1>1, <1>2, <1>9, <2>1, ReturnType DEF LicenseRefused
<1> QED
  BY <1>4, <1>5, <1>6, <1>7, <1>8, <1>9 DEF DialogueStep
\* So do the steps of the clock, and of a session that takes m.
LEMMA OfferAndAgeType ==
  ASSUME TypeOK, \/ \E s \in Sessions : OfferAnyId(s)
                 \/ \E id \in TempIds : Age(id)
  PROVE  TypeOK'
<1> USE DEF TypeOK
<1>1. ASSUME NEW s \in Sessions, OfferAnyId(s)
      PROVE  TypeOK'
  <2>1. PICK id \in TempIds : OfferId(s, id)
    BY <1>1 DEF OfferAnyId
  <2> DEFINE t == [sess[s] EXCEPT !.pc = "exchange", !.id = id]
  <2>2. sess[s] \in SessionRecord /\ Assigned(sess[s]) /\ sess[s].user \in Users
    BY <2>1 DEF OfferId, ServerTypeOK, SessionRecord
  <2>3. t \in SessionRecord /\ Assigned(t)
    BY <2>1, <2>2 DEF OfferId, At, SessionRecord, SessionPC, Assigned
  <2>4. sess' = [sess EXCEPT ![s] = t]
    BY <2>1 DEF OfferId, ServerTypeOK
  <2>5. ServerTypeOK'
    BY <2>1, <2>3, <2>4, SessionMoves DEF OfferId, ServerTypeOK
  <2>6. SocketTypeOK'
    BY <2>1, SocketUpdates, Messages DEF OfferId, SocketTypeOK
  <2>7. ClientTypeOK' /\ DBTypeOK'
    BY <1>1, <2>1 DEF OfferAnyId, OfferId, clientVars, dbVars, ClientTypeOK, DBTypeOK
  <2> QED
    BY <2>5, <2>6, <2>7
<1>2. ASSUME NEW id \in TempIds, Age(id)
      PROVE  TypeOK'
  <2>1. [currentClients[id] EXCEPT !.stale = TRUE] \in ClientRecord
    BY <1>2 DEF Age, Tracked, ServerTypeOK, ClientRecord
  <2>2. ServerTypeOK'
    BY <1>2, <2>1 DEF Age, ServerTypeOK
  <2> QED
    BY <1>2, <2>2 DEF Age, socketVars, dbVars, clientVars, SocketTypeOK, DBTypeOK, ClientTypeOK
<1> QED
  BY <1>1, <1>2

\* What no fairness is assumed of, the restart, and the tables on their own.
LEMMA EnvironmentType ==
  ASSUME TypeOK, Environment \/ Recover \/ Tables
  PROVE  TypeOK'
<1> USE DEF TypeOK
<1>1. UNCHANGED serverVars => ServerTypeOK'
  BY DEF serverVars, ServerTypeOK
<1>2. UNCHANGED socketVars => SocketTypeOK'
  BY DEF socketVars, SocketTypeOK
<1>3. UNCHANGED clientVars => ClientTypeOK'
  BY DEF clientVars, ClientTypeOK
<1>4. UNCHANGED dbVars => DBTypeOK'
  BY DEF dbVars, DBTypeOK
<1>5. CASE \/ Crash /\ UNCHANGED clientVars
           \/ \E s \in Sessions : FindUserFails(s) /\ UNCHANGED clientVars
  BY <1>3, <1>4, <1>5, DieType DEF Crash, FindUserFails
<1>6. CASE StartAnother /\ UNCHANGED clientVars
  BY <1>1, <1>2, <1>3, <1>6, NullStartType DEF StartAnother
<1>7. CASE Recover
  <2>1. ServerTypeOK'
    BY <1>7 DEF Recover, Restart, ServerTypeOK
  <2> QED
    BY <1>2, <1>3, <1>7, <2>1, NullStartType DEF Recover, Restart
<1>8. ASSUME NEW c \in Clients, Start(c) /\ UNCHANGED <<serverVars, dbVars>>
      PROVE  TypeOK'
  <2>1. ClientTypeOK'
    BY <1>8 DEF Start, ClientTypeOK, ClientPC, Statuses
  <2> QED
    BY <1>1, <1>2, <1>4, <1>8, <2>1 DEF Start
<1>9. ASSUME NEW c \in Clients, Vanish(c) /\ UNCHANGED <<serverVars, dbVars>>
      PROVE  TypeOK'
  BY <1>1, <1>4, <1>9, ReturnType DEF Vanish, Statuses
<1>10. ASSUME NEW c \in Clients, NetworkReset(c) /\ UNCHANGED <<serverVars, dbVars>>
       PROVE  TypeOK'
  <2>1. SocketTypeOK'
    BY <1>10 DEF NetworkReset, SocketTypeOK
  <2> QED
    BY <1>1, <1>3, <1>4, <1>10, <2>1 DEF NetworkReset
<1>11. ASSUME NEW c \in Clients, NotAccepted(c)
       PROVE  TypeOK'
  <2>1. AfterError(c) \in Statuses
    BY DEF AfterError, Statuses, ClientTypeOK
  <2> QED
    BY <1>1, <1>4, <1>11, <2>1, ReturnType DEF NotAccepted, ConnectFails
<1>12. ASSUME NEW c \in Clients, NEW s \in Sessions, Accept(c, s)
       PROVE  TypeOK'
  <2> DEFINE t == [sess[s] EXCEPT !.pc = "read"]
  <2>1. t \in SessionRecord /\ Assigned(t)
    BY DEF ServerTypeOK, SessionRecord, SessionPC, Assigned
  <2>2. sess' = [sess EXCEPT ![s] = t]
    BY <1>12 DEF Accept, ServerTypeOK
  <2>3. ServerTypeOK'
    BY <1>12, <2>1, <2>2, SessionMoves DEF Accept, ServerTypeOK
  <2>4. SocketTypeOK' /\ ClientTypeOK'
    BY <1>12 DEF Accept, Connect, SocketTypeOK, ClientTypeOK, ClientPC
  <2> QED
    BY <1>4, <1>12, <2>3, <2>4 DEF Accept
<1>13. CASE Tables
  <2>1. ASSUME NEW l \in Licenses, Lapse(l) \/ ExtendLicense(l) \/ ReviveLicense(l)
        PROVE  DBTypeOK'
    <3>1. /\ \A b \in BOOLEAN : [license[l] EXCEPT !.overdue = b] \in LicenseRow
          /\ [status |-> "extended", overdue |-> FALSE] \in LicenseRow
      BY DEF DBTypeOK, LicenseRow
    <3>2. \E row \in LicenseRow : license' = [license EXCEPT ![l] = row]
      BY <2>1, <3>1 DEF Lapse, ExtendLicense, ReviveLicense, DBTypeOK
    <3> QED
      BY <2>1, <3>2 DEF Lapse, ExtendLicense, ReviveLicense, DBTypeOK
  <2>2. ASSUME CheckLicenseValidity
        PROVE  DBTypeOK'
    BY <2>2 DEF CheckLicenseValidity, DBTypeOK, LicenseRow
  <2>3. ASSUME NEW S \in SUBSET Licenses, DeleteRows(S)
        PROVE  DBTypeOK'
    BY <2>3 DEF DeleteRows, HasRow, DBTypeOK, LicenseRow, KeyRow
  <2>4. ASSUME NEW k \in Keys, NEW new \in Keys, KeyReplacement(k, new)
        PROVE  DBTypeOK'
    <3>1. license' \in [Licenses -> LicenseRow]
      BY <2>4, TypesAssumption DEF KeyReplacement, DBTypeOK, LicenseRow
    <3>2. key_s' \in [Keys -> KeyRow]
      BY <2>4 DEF KeyReplacement, DBTypeOK, KeyRow
    <3> QED
      BY <3>1, <3>2 DEF DBTypeOK
  <2>5. DBTypeOK'
    BY <1>13, <2>1, <2>2, <2>3, <2>4 DEF Tables, DeleteExpiredLicense, RemoveLicense
  <2> QED
    BY <1>1, <1>2, <1>3, <1>13, <2>5 DEF Tables
<1> QED
  BY <1>5, <1>6, <1>7, <1>8, <1>9, <1>10, <1>11, <1>12, <1>13 DEF Environment

\* Every variable keeps its type, whatever fails and whatever is changed beside
\* the server, and no local of a session is used before it is assigned
\* (main.cpp:227-489).
THEOREM TypeCorrect == Spec => []TypeOK
<1>1. Init => TypeOK
  <2> SUFFICES ASSUME Init PROVE TypeOK
    OBVIOUS
  <2>1. DBTypeOK
    BY DEF Init, DBInit, DBTypeOK, LicenseRow, KeyRow
  <2>2. ServerTypeOK
    BY IdleRecords DEF Init, ServerInit, ServerTypeOK
  <2>3. SocketTypeOK /\ ClientTypeOK
    BY DEF Init, SocketInit, SocketTypeOK, ClientInit, ClientTypeOK, ClientPC, Queries, Statuses
  <2> QED
    BY <2>1, <2>2, <2>3 DEF TypeOK
<1>2. TypeOK /\ [Next]_vars => TypeOK'
  <2> SUFFICES ASSUME TypeOK, [Next]_vars PROVE TypeOK'
    OBVIOUS
  <2>1. CASE UNCHANGED vars
    BY <2>1 DEF vars, serverVars, socketVars, dbVars, clientVars, TypeOK, DBTypeOK,
                SocketTypeOK, ServerTypeOK, Assigned, ClientTypeOK
  <2>2. CASE Next
    BY <2>2, SessionStepType, ReaperStepType, DialogueStepType, OfferAndAgeType,
       EnvironmentType DEF Next
  <2> QED
    BY <2>1, <2>2
<1> QED
  BY <1>1, <1>2, PTL DEF Spec
-----------------------------------------------------------------------------
(***************************************************************************)
(* m and isNotUse.  MutexHeld and ReaperAlive are inductive relative to    *)
(* the types.                                                              *)
(***************************************************************************)

\* A session that ends gives m back if it held it, and nobody else's.
LEMMA EndMutex ==
  ASSUME TypeOK, MutexHeld, NEW s \in Sessions, End(s), UNCHANGED reap
  PROVE  MutexHeld'
BY ServerAssumption, SocketAssumption
DEF TypeOK, ServerTypeOK, MutexHeld, End, IdleSession

\* A session that moves within, or outside, the section it holds m for.
LEMMA MoveMutex ==
  ASSUME TypeOK, MutexHeld, NEW s \in Sessions, UNCHANGED <<m, reap>>,
         \A x \in Sessions : (sess'[x].pc \in {"exchange", "reply"})
                              = (sess[x].pc \in {"exchange", "reply"})
  PROVE  MutexHeld'
BY DEF MutexHeld

\* m has one holder, and it is the session or the reaper whose code is inside
\* the scope of the lock_guard (main.cpp:143, 342).
THEOREM MutualExclusion == Spec => []MutexHeld
<1>1. Init => MutexHeld
  BY ServerAssumption, SocketAssumption
  DEF Init, ServerInit, MutexHeld, IdleSession, IdleReaper
<1>2. TypeOK /\ MutexHeld /\ [Next]_vars => MutexHeld'
  <2> SUFFICES ASSUME TypeOK, MutexHeld, [Next]_vars PROVE MutexHeld'
    OBVIOUS
  <2> USE DEF TypeOK, ServerTypeOK
  <2>1. UNCHANGED serverVars => MutexHeld'
    BY DEF serverVars, MutexHeld
  <2>2. ASSUME NEW s \in Sessions, SessionStep(s)
        PROVE  MutexHeld'
    <3>1. CASE ReadKey(s) \/ FindUser(s)
      BY <3>1, MoveMutex DEF ReadKey, FindUser, At, SessionRecord
    <3>2. CASE Watch(s)
      <4>1. \A r \in Reapers : (reap'[r].pc = "drain") = (reap[r].pc = "drain")
        BY <3>2 DEF Watch, ReaperRecord
      <4>2. \A x \in Sessions : (sess'[x].pc \in {"exchange", "reply"})
                              = (sess[x].pc \in {"exchange", "reply"})
        BY <3>2 DEF Watch, At, SessionRecord
      <4> QED
        BY <3>2, <4>1, <4>2 DEF Watch, MutexHeld
    <3>3. CASE ReadKeyFails(s) \/ RefuseKey(s) \/ ExchangeFails(s) \/ Reply(s) \/ ReplyFails(s)
      BY <3>3, EndMutex DEF ReadKeyFails, RefuseKey, ExchangeFails, Reply, ReplyFails
    <3>4. CASE HandleRequest(s) \/ HandleCheck(s) \/ HandleRelease(s) \/ HandleUnknown(s)
      <4>1. \E answer, client : At(s, "exchange") /\ Answer(s, answer, client)
        BY <3>4 DEF HandleRequest, HandleCheck, HandleRelease, HandleUnknown, Names
      <4> QED
        BY <4>1, MoveMutex DEF Answer, At
    <3> QED
      BY <2>2, <3>1, <3>2, <3>3, <3>4 DEF SessionStep
  <2>3. ASSUME NEW s \in Sessions, OfferAnyId(s)
        PROVE  MutexHeld'
    BY <2>3, ServerAssumption, SocketAssumption DEF OfferAnyId, OfferId, MutexHeld
  <2>4. ASSUME NEW r \in Reapers, ReaperStep(r) \/ TakeTurn(r)
        PROVE  MutexHeld'
    <3>1. CASE StartReaper(r) \/ LoopTest(r) \/ Drain(r)
      <4>1. \A x \in Reapers : (reap'[x].pc = "drain") = (reap[x].pc = "drain")
        BY <3>1 DEF StartReaper, LoopTest, Drain, IdleReaper, ReaperRecord
      <4> QED
        BY <3>1, <4>1 DEF StartReaper, LoopTest, Drain, MutexHeld
    <3>2. CASE FinishSweep(r) \/ Sweep(r)
      BY <3>2, ServerAssumption, SocketAssumption DEF FinishSweep, Sweep, EndSweep, MutexHeld
    <3> QED
      BY <2>4, <3>1, <3>2 DEF ReaperStep, TakeTurn
  <2>5. ASSUME NEW id \in TempIds, Age(id)
        PROVE  MutexHeld'
    BY <2>5 DEF Age, MutexHeld
  <2>6. ASSUME NEW c \in Clients, DialogueStep(c)
        PROVE  MutexHeld'
    BY <2>1, <2>6 DEF DialogueStep
  <2>7. CASE Recover
    BY <2>7 DEF Recover, Restart, MutexHeld
  <2>8. CASE Environment
    <3>1. Die => MutexHeld'
      BY ServerAssumption, SocketAssumption DEF Die, MutexHeld, IdleSession, IdleReaper
    <3>2. ASSUME NEW c \in Clients, NEW s \in Sessions, Accept(c, s)
          PROVE  MutexHeld'
      BY <3>2, MoveMutex DEF Accept
    <3> QED
      BY <2>1, <2>8, <3>1, <3>2 DEF Environment, Crash, FindUserFails, StartAnother, NotAccepted
  <2>9. CASE Tables
    BY <2>1, <2>9 DEF Tables
  <2>10. CASE UNCHANGED vars
    BY <2>1, <2>10 DEF vars
  <2> QED
    BY <2>2, <2>3, <2>4, <2>5, <2>6, <2>7, <2>8, <2>9, <2>10 DEF Next
<1> QED
  BY <1>1, <1>2, TypeCorrect, PTL DEF Spec

\* While isNotUse is false there is a reaper between setting it and finding it
\* true, so the session that reads false can rely on it (main.cpp:135-142, 296).
THEOREM ReaperRuns == Spec => []ReaperAlive
<1>1. Init => ReaperAlive
  BY DEF Init, ServerInit, ReaperAlive
<1>2. TypeOK /\ ReaperAlive /\ [Next]_vars => ReaperAlive'
  <2> SUFFICES ASSUME TypeOK, ReaperAlive, [Next]_vars PROVE ReaperAlive'
    OBVIOUS
  <2> USE DEF TypeOK, ServerTypeOK, ReaperAlive
  <2>1. UNCHANGED <<isNotUse, reap>> => ReaperAlive'
    OBVIOUS
  <2>2. ASSUME NEW s \in Sessions, SessionStep(s) \/ OfferAnyId(s)
        PROVE  ReaperAlive'
    <3>1. CASE Watch(s)
      BY <3>1 DEF Watch
    <3>2. CASE ~Watch(s)
      BY <2>1, <2>2, <3>2
      DEF SessionStep, OfferAnyId, OfferId, ReadKey, ReadKeyFails, FindUser, RefuseKey,
          ExchangeFails, HandleRequest, HandleCheck, HandleRelease, HandleUnknown, Answer,
          Reply, ReplyFails
    <3> QED
      BY <3>1, <3>2
  <2>3. ASSUME NEW r \in Reapers, ReaperStep(r) \/ TakeTurn(r)
        PROVE  ReaperAlive'
    <3>1. CASE StartReaper(r) \/ LoopTest(r)
      BY <3>1 DEF StartReaper, LoopTest, IdleReaper, ReaperRecord
    <3>2. CASE Drain(r) \/ FinishSweep(r) \/ Sweep(r)
      BY <3>2 DEF Drain, FinishSweep, Sweep, EndSweep, ReaperRecord
    <3> QED
      BY <2>3, <3>1, <3>2 DEF ReaperStep, TakeTurn
  <2>4. CASE Recover \/ \E id \in TempIds : Age(id)
    BY <2>1, <2>4 DEF Recover, Restart, Age
  <2>5. CASE \E c \in Clients : DialogueStep(c)
    BY <2>1, <2>5 DEF DialogueStep, serverVars
  <2>6. CASE Environment
    <3>1. Die => ReaperAlive'
      BY DEF Die
    <3> QED
      BY <2>1, <2>6, <3>1
      DEF Environment, Crash, FindUserFails, StartAnother, NotAccepted, Accept, serverVars
  <2>7. CASE Tables \/ UNCHANGED vars
    BY <2>1, <2>7 DEF Tables, vars, serverVars
  <2> QED
    BY <2>2, <2>3, <2>4, <2>5, <2>6, <2>7 DEF Next
<1> QED
  BY <1>1, <1>2, TypeCorrect, PTL DEF Spec
=============================================================================
