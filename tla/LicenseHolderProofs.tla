------------------------- MODULE LicenseHolderProofs -------------------------
(***************************************************************************)
(* A key has at most one holder, for every number of clients, sessions,    *)
(* reapers, licenses, keys and ids: a key that is held is reserved in the  *)
(* tables, and RequestKey grants no key that is.  Assumed: no answer of    *)
(* MySQL is lost after the function ran, no expired license is revived and *)
(* no second server is started while this one runs; and FreshIds.          *)
(* The reverse, that a reserved key is held, and the refinement of         *)
(* KeyLease follow.                                                        *)
(***************************************************************************)
EXTENDS LicenseIdProofs

-----------------------------------------------------------------------------
(***************************************************************************)
(* The stored functions.                                                   *)
(***************************************************************************)

\* What an UPDATE of key_s does to the reservations: only a key written "free" while
\* its license is active and goes on loses one (Alex_K_DB.sql:124-148).
LEMMA UpdateKeepsReserved ==
  ASSUME DBTypeOK, NEW l \in Licenses, NEW S \in SUBSET Keys, NEW v \in {"free", "requested"},
         NEW ok \in BOOLEAN, UpdateKeys(l, S, v, ok),
         \A k \in S : LicenseOf[k] = l /\ HasRow(k),
         NEW j \in Keys, Reserved(j),
         j \notin S \/ v = "requested" \/ license[l].status # "active"
  PROVE  Reserved(j)'
<1> USE TypesAssumption DEF DBTypeOK, LicenseRow, KeyRow, Reserved, HasRow, Written
<1>1. CASE license' = license /\ key_s' = Written(S, v)
  BY <1>1
<1>2. CASE license' = [license EXCEPT ![l].status = "expired"]
           /\ key_s' \in {Written(S, v), Written(S, "free")}
  BY <1>2
<1>3. CASE Activates(l, S, v) /\ license' = [license EXCEPT ![l] = [status |-> "active", overdue |-> FALSE]]
           /\ key_s' = Written(S, v)
  BY <1>3 DEF Activates
<1>4. CASE UNCHANGED dbVars
  BY <1>4 DEF dbVars
<1> QED
  BY <1>1, <1>2, <1>3, <1>4 DEF UpdateKeys

\* An UPDATE of rows that exist gives no row to a license that is gone.
LEMMA UpdateKeepsRows ==
  ASSUME DBTypeOK, NoRowsOfAbsent, NEW l \in Licenses, NEW S \in SUBSET Keys,
         NEW v \in {"free", "requested"}, NEW ok \in BOOLEAN, UpdateKeys(l, S, v, ok),
         \A k \in S : HasRow(k), license[l].status # "absent"
  PROVE  NoRowsOfAbsent'
<1>1. \A k \in Keys : license'[LicenseOf[k]].status = "absent" => license[LicenseOf[k]].status = "absent"
  BY TypesAssumption DEF DBTypeOK, LicenseRow, UpdateKeys, dbVars
<1>2. key_s' \in {key_s, Written(S, v), Written(S, "free")}
  BY DEF UpdateKeys, dbVars
<1>3. \A k \in Keys : HasRow(k)' => HasRow(k)
  BY <1>2 DEF Written, HasRow
<1> QED
  BY <1>1, <1>3 DEF NoRowsOfAbsent

\* RequestKey takes nobody's reservation, and a key it grants was not reserved and is
\* (Alex_K_DB.sql:1782-1826).
LEMMA RequestReserves ==
  ASSUME DBTypeOK, NoRowsOfAbsent, "lostreply" \notin Faults, NEW u, NEW k \in Keys,
         NEW ret, Select("REQUEST", u, k, ret)
  PROVE  /\ NoRowsOfAbsent'
         /\ \A j \in Keys : Reserved(j) => Reserved(j)'
         /\ ret # None => /\ ret = LicenseOf[k] /\ u = UserOf[k]
                          /\ ~Reserved(k) /\ Reserved(k)'
<1> DEFINE l == LicenseOf[k]
<1>1. l \in Licenses /\ l # None
  BY TypesAssumption
<1>2. CASE UNCHANGED dbVars /\ ret = None
  BY <1>2 DEF dbVars, NoRowsOfAbsent, Reserved, HasRow
<1>3. ASSUME RowOfUser(u, k), license[l].status # "expired", key_s[k] = "free",
             NEW ok \in BOOLEAN, UpdateKeys(l, {k}, "requested", ok), ret = Returned(l, ok)
      PROVE  /\ NoRowsOfAbsent'
             /\ \A j \in Keys : Reserved(j) => Reserved(j)'
             /\ ret # None => /\ ret = LicenseOf[k] /\ u = UserOf[k]
                              /\ ~Reserved(k) /\ Reserved(k)'
  <2>1. HasRow(k) /\ license[l].status # "absent"
    BY <1>3 DEF RowOfUser, NoRowsOfAbsent
  <2>2. NoRowsOfAbsent'
    BY <1>1, <1>3, <2>1, UpdateKeepsRows
  <2>3. ASSUME NEW j \in Keys, Reserved(j)
        PROVE  Reserved(j)'
    BY <1>1, <1>3, <2>1, <2>3, UpdateKeepsReserved
  <2>4. ~Reserved(k)
    BY <1>3, <2>1 DEF Reserved
  <2>5. ok => Reserved(k)'
    BY <1>1, <1>3, <2>1
    DEF UpdateKeys, Activates, Reserved, Written, DBTypeOK, LicenseRow
  <2> QED
    BY <1>3, <2>2, <2>3, <2>4, <2>5 DEF Returned, RowOfUser
<1> QED
  BY <1>2, <1>3 DEF Select, Call, RequestKey

\* ActiveKeyCheck takes reservations only of a license nobody holds a key of, or that
\* is over (Alex_K_DB.sql:966-997).
LEMMA CheckReserves ==
  ASSUME DBTypeOK, NoRowsOfAbsent, "lostreply" \notin Faults, NEW u, NEW k \in Keys,
         NEW ret, Select("CHECK", u, k, ret)
  PROVE  NoRowsOfAbsent' /\ \A j \in Keys : Reserved(j) => Reserved(j)'
<1> DEFINE l == LicenseOf[k]
<1>1. l \in Licenses
  BY TypesAssumption
<1>2. CASE UNCHANGED dbVars
  BY <1>2 DEF dbVars, NoRowsOfAbsent, Reserved, HasRow
<1>3. ASSUME RowOfUser(u, k), license[l].status # "active",
             NEW ok \in BOOLEAN, UpdateKeys(l, RowsOf(l), "free", ok)
      PROVE  NoRowsOfAbsent' /\ \A j \in Keys : Reserved(j) => Reserved(j)'
  <2>1. license[l].status # "absent"
    BY <1>3 DEF RowOfUser, NoRowsOfAbsent
  <2>2. RowsOf(l) \in SUBSET Keys /\ \A j \in RowsOf(l) : LicenseOf[j] = l /\ HasRow(j)
    BY DEF RowsOf
  <2>3. NoRowsOfAbsent'
    BY <1>1, <1>3, <2>1, <2>2, UpdateKeepsRows
  <2>4. ASSUME NEW j \in Keys, Reserved(j)
        PROVE  Reserved(j)'
    BY <1>1, <1>3, <2>2, <2>4, UpdateKeepsReserved
  <2> QED
    BY <2>3, <2>4
<1> QED
  BY <1>2, <1>3 DEF Select, Call, ActiveKeyCheck

\* ReleaseKey takes the reservation of its own key only, and none when it returns 0
\* (Alex_K_DB.sql:1689-1725).
LEMMA ReleaseReserves ==
  ASSUME DBTypeOK, NoRowsOfAbsent, "lostreply" \notin Faults, NEW u, NEW k \in Keys,
         NEW ret, Select("RELEASE", u, k, ret)
  PROVE  /\ NoRowsOfAbsent'
         /\ \A j \in Keys \ {k} : Reserved(j) => Reserved(j)'
         /\ ret \in {None, LicenseOf[k]}
         /\ ret = None => UNCHANGED dbVars
<1> DEFINE l == LicenseOf[k]
<1>1. l \in Licenses /\ l # None
  BY TypesAssumption
<1>2. CASE UNCHANGED dbVars /\ ret = None
  BY <1>2 DEF dbVars, NoRowsOfAbsent, Reserved, HasRow
<1>3. ASSUME RowOfUser(u, k), NEW ok \in BOOLEAN, UpdateKeys(l, {k}, "free", ok),
             ret = Returned(l, ok)
      PROVE  /\ NoRowsOfAbsent'
             /\ \A j \in Keys \ {k} : Reserved(j) => Reserved(j)'
             /\ ret \in {None, LicenseOf[k]}
             /\ ret = None => UNCHANGED dbVars
  <2>1. HasRow(k) /\ license[l].status # "absent"
    BY <1>3 DEF RowOfUser, NoRowsOfAbsent
  <2>2. NoRowsOfAbsent'
    BY <1>1, <1>3, <2>1, UpdateKeepsRows
  <2>3. ASSUME NEW j \in Keys \ {k}, Reserved(j)
        PROVE  Reserved(j)'
    BY <1>1, <1>3, <2>1, <2>3, UpdateKeepsReserved
  <2>4. ~ok => UNCHANGED dbVars
    BY <1>3 DEF UpdateKeys
  <2> QED
    BY <1>1, <1>3, <2>2, <2>3, <2>4 DEF Returned
<1> QED
  BY <1>2, <1>3 DEF Select, Call, ReleaseKey

\* The clock, the events and the administrator take no reservation of a license that
\* goes on, unless an expired license is revived (Alex_K_DB.sql:888-922, 1418-1500).
LEMMA TablesReserve ==
  ASSUME DBTypeOK, NoRowsOfAbsent, "revive" \notin Changes, Tables
  PROVE  NoRowsOfAbsent' /\ \A j \in Keys : Reserved(j) => Reserved(j)'
<1> USE TypesAssumption DEF DBTypeOK, LicenseRow, KeyRow, Reserved, NoRowsOfAbsent, HasRow
<1>1. ASSUME NEW l \in Licenses, Lapse(l) \/ ExtendLicense(l)
      PROVE  NoRowsOfAbsent' /\ \A j \in Keys : Reserved(j) => Reserved(j)'
  <2>1. key_s' = key_s
    BY <1>1 DEF Lapse, ExtendLicense
  <2>2. \A i \in Licenses : license'[i].status = license[i].status
    BY <1>1 DEF Lapse, ExtendLicense
  <2> QED
    BY <2>1, <2>2
<1>2. CASE CheckLicenseValidity
  BY <1>2 DEF CheckLicenseValidity
<1>3. ASSUME NEW S \in SUBSET Licenses, DeleteRows(S)
      PROVE  NoRowsOfAbsent' /\ \A j \in Keys : Reserved(j) => Reserved(j)'
  BY <1>3 DEF DeleteRows
<1>4. ASSUME NEW k \in Keys, NEW new \in Keys, KeyReplacement(k, new)
      PROVE  NoRowsOfAbsent' /\ \A j \in Keys : Reserved(j) => Reserved(j)'
  <2>1. /\ HasRow(k) /\ key_s[new] = "unissued" /\ LicenseOf[new] = LicenseOf[k]
        /\ \/ license' = license
           \/ license' = [license EXCEPT ![LicenseOf[k]].status = "expired"]
        /\ \/ key_s' = [key_s EXCEPT ![k] = "deleted", ![new] = "free"]
           \/ key_s' = [key_s EXCEPT ![k] = "deleted", ![new] = key_s[k]]
    BY <1>4 DEF KeyReplacement
  <2>2. \A j \in Keys : license'[LicenseOf[j]].status \in {license[LicenseOf[j]].status, "expired"}
    BY <2>1
  <2>3. NoRowsOfAbsent'
    BY <2>1, <2>2
  <2>4. \A j \in Keys : Reserved(j) => Reserved(j)'
    BY <2>1, <2>2
  <2> QED
    BY <2>3, <2>4
<1>5. ~\E l \in Licenses : ReviveLicense(l)
  BY DEF ReviveLicense
<1> QED
  BY <1>1, <1>2, <1>3, <1>4, <1>5 DEF Tables, DeleteExpiredLicense, RemoveLicense

\* NullStart gives no row to a license that is gone (MySQLinit.cpp:339-354).
LEMMA NullStartRows ==
  ASSUME DBTypeOK, NoRowsOfAbsent, NullStart
  PROVE  NoRowsOfAbsent'
<1>1. \A k \in Keys : license'[LicenseOf[k]].status = "absent" => license[LicenseOf[k]].status = "absent"
  BY TypesAssumption DEF DBTypeOK, LicenseRow, NullStart, dbVars
<1>2. \A k \in Keys : HasRow(k)' => HasRow(k)
  BY DEF NullStart, Written, HasRow, dbVars
<1> QED
  BY <1>1, <1>2 DEF NoRowsOfAbsent

-----------------------------------------------------------------------------
(***************************************************************************)
(* Holders that only leave.                                                *)
(***************************************************************************)

SameHolder(e, f) == e.key = f.key /\ e.license = f.license /\ e.user = f.user

HoldersShrink ==
  /\ \A i \in TempIds : i \in Tracked' =>
       i \in Tracked /\ SameHolder(currentClients'[i], currentClients[i])
  /\ \A s \in Sessions : Accepted(s)' => Accepted(s) /\ sess'[s].client = sess[s].client

LEMMA HoldersLeave ==
  ASSUME HolderInv, HoldersShrink, NoRowsOfAbsent', NothingWhileDown',
         \A k \in Keys : Holds(k)' /\ Reserved(k) => Reserved(k)'
  PROVE  HolderInv'
<1> USE DEF HoldersShrink, SameHolder
<1>1. RowsMatch'
  BY DEF HolderInv, RowsMatch, OwnRow, Tracked
<1>2. OneHolder'
  BY DEF HolderInv, OneHolder, Tracked
<1>3. \A k \in Keys : Holds(k)' => Holds(k)
  BY DEF Holds, Tracked
<1> QED
  BY <1>1, <1>2, <1>3 DEF HolderInv

\* A step of the dialogue only, or of a thread that adds and removes nobody.
LEMMA HoldersStay ==
  ASSUME HolderInv, HoldersShrink, UNCHANGED <<up, dbVars>>,
         ~up => \A s \in Sessions : At(s, "idle") => At(s, "idle")'
  PROVE  HolderInv'
<1>1. NoRowsOfAbsent' /\ \A k \in Keys : Reserved(k) => Reserved(k)'
  BY DEF HolderInv, NoRowsOfAbsent, Reserved, HasRow, dbVars
<1>2. Tracked = {} => Tracked' = {}
  BY DEF HoldersShrink, Tracked
<1>3. NothingWhileDown'
  BY <1>2 DEF HolderInv, NothingWhileDown
<1> QED
  BY <1>1, <1>3, HoldersLeave

\* The server is not left running by the steps of its own threads.
LEMMA RunningSession ==
  ASSUME HolderInv, NEW s \in Sessions, ~At(s, "idle"), up' = up
  PROVE  up /\ NothingWhileDown'
BY DEF HolderInv, NothingWhileDown

-----------------------------------------------------------------------------
(***************************************************************************)
(* The steps of a session.                                                 *)
(***************************************************************************)

\* An answer changes the locals of its session only (main.cpp:371-457).
LEMMA AnswerLocals ==
  ASSUME TypeOK, NEW s \in Sessions, NEW answer, NEW client, Answer(s, answer, client)
  PROVE  /\ \A t \in Sessions : t # s => sess'[t] = sess[t]
         /\ sess'[s].client = client /\ up' = up
BY DEF TypeOK, ServerTypeOK, SessionRecord, Answer

\* RequestKey has granted the key: nobody held it, and it is reserved now.
LEMMA HolderOfRequest ==
  ASSUME TypeOK, DialogueInv, HolderInv, "lostreply" \notin Faults,
         NEW s \in Sessions, HandleRequest(s)
  PROVE  HolderInv'
<1> USE NoneIsNothing DEF TypeOK, ServerTypeOK
<1>1. /\ sess[s] \in SessionRecord /\ sess[s].key \in Keys /\ sess[s].client = None
      /\ outbox[s].arg = sess[s].user /\ UNCHANGED <<up, currentClients>>
  BY DEF HandleRequest, Answer, At, Assigned, DialogueInv, LocalsInScope, Accepted
<1>0. PICK k \in Keys : k = sess[s].key
  BY <1>1
<1>2. PICK ret \in Licenses \cup {None} :
        /\ Select("REQUEST", sess[s].user, sess[s].key, ret)
        /\ \/ /\ ret # None
              /\ Answer(s, "LICENSE_ANSWER_GOOD",
                        [user |-> outbox[s].arg, license |-> ret, key |-> sess[s].key,
                         stale |-> FALSE, for_deleting |-> FALSE])
           \/ ret = None /\ Answer(s, "LICENSE_ANSWER_BUSY", None)
  BY DEF HandleRequest
<1>3. /\ NoRowsOfAbsent'
      /\ \A j \in Keys : Reserved(j) => Reserved(j)'
      /\ ret # None => /\ ret = LicenseOf[k] /\ sess[s].user = UserOf[k]
                       /\ ~Reserved(k) /\ Reserved(k)'
  <2>1. Select("REQUEST", sess[s].user, k, ret) /\ DBTypeOK /\ NoRowsOfAbsent
    BY <1>0, <1>2 DEF HolderInv
  <2> QED
    BY <2>1, RequestReserves
<1>4. NothingWhileDown'
  BY <1>1, RunningSession DEF HandleRequest, At
<1>5. CASE ret = None
  <2>1. HoldersShrink
    BY <1>1, <1>2, <1>5 DEF HoldersShrink, SameHolder, Answer, Accepted, Tracked, SessionRecord
  <2> QED
    BY <1>3, <1>4, <2>1, HoldersLeave
<1>6. CASE ret # None
  <2> DEFINE new == [user |-> outbox[s].arg, license |-> ret, key |-> sess[s].key,
                     stale |-> FALSE, for_deleting |-> FALSE]
  <2>1. /\ \A t \in Sessions : t # s => sess'[t] = sess[t]
        /\ sess'[s].client = new /\ Tracked' = Tracked
    <3>1. Answer(s, "LICENSE_ANSWER_GOOD", new)
      BY <1>2, <1>6
    <3> HIDE DEF new
    <3> QED
      BY <1>1, <3>1, AnswerLocals DEF Tracked
  <2>2. new.key = k /\ OwnRow(new)
    BY <1>1, <1>0, <1>3, <1>6 DEF OwnRow
  <2> HIDE DEF new
  <2>3. ~Holds(k)
    BY <1>3, <1>6 DEF HolderInv
  <2>4. RowsMatch'
    BY <1>1, <2>1, <2>2 DEF HolderInv, RowsMatch, OwnRow, Accepted
  <2>5. \A j \in Keys : Holds(j)' => Holds(j) \/ j = k
    BY <1>1, <2>1, <2>2 DEF Holds, Accepted
  <2>6. \A j \in Keys : Holds(j)' => Reserved(j)'
    BY <1>3, <1>6, <2>5 DEF HolderInv
  <2>7. OneHolder'
    BY <1>1, <2>1, <2>2, <2>3 DEF HolderInv, OneHolder, Holds, Accepted
  <2> QED
    BY <1>3, <1>4, <2>4, <2>6, <2>7 DEF HolderInv
<1> QED
  BY <1>5, <1>6

\* The entry is taken out of currentClients into the session, or stays.
LEMMA HolderOfCheck ==
  ASSUME TypeOK, DialogueInv, HolderInv, "lostreply" \notin Faults,
         NEW s \in Sessions, HandleCheck(s)
  PROVE  HolderInv'
<1> USE NoneIsNothing DEF TypeOK, ServerTypeOK
<1> DEFINE id == outbox[s].arg
           entry == currentClients[id]
<1>1. /\ sess[s] \in SessionRecord /\ sess[s].client = None
      /\ id \in Tracked /\ id \in TempIds /\ entry \in ClientRecord /\ up' = up /\ ~At(s, "idle")
  BY DEF HandleCheck, Names, Answer, At, DialogueInv, LocalsInScope, Accepted, Tracked
<1>2. NothingWhileDown'
  BY <1>1, RunningSession
<1>3. NoRowsOfAbsent' /\ \A j \in Keys : Reserved(j) => Reserved(j)'
  <2>1. CASE UNCHANGED dbVars
    BY <2>1 DEF HolderInv, NoRowsOfAbsent, Reserved, HasRow, dbVars
  <2>2. CASE \E ret : Select("CHECK", entry.user, entry.key, ret)
    BY <1>1, <2>2, CheckReserves DEF ClientRecord, HolderInv
  <2> QED
    BY <2>1, <2>2 DEF HandleCheck
<1>4. CASE UNCHANGED currentClients /\ \E answer : Answer(s, answer, None)
  <2>1. HoldersShrink
    BY <1>1, <1>4 DEF HoldersShrink, SameHolder, Answer, Accepted, Tracked, SessionRecord
  <2> QED
    BY <1>2, <1>3, <2>1, HoldersLeave
<1>5. CASE currentClients' = [currentClients EXCEPT ![id] = None]
           /\ Answer(s, "LICENSE_ANSWER_GOOD_WORK", entry)
  <2>1. /\ \A t \in Sessions : t # s => sess'[t] = sess[t]
        /\ sess'[s].client = entry
        /\ Tracked' = Tracked \ {id}
        /\ \A i \in Tracked' : currentClients'[i] = currentClients[i]
    BY <1>1, <1>5 DEF Answer, SessionRecord, Tracked
  <2>2. OwnRow(entry)
    BY <1>1 DEF HolderInv, RowsMatch
  <2> HIDE DEF entry, id
  <2>3. entry = currentClients[id]
    BY DEF entry
  <2>4. RowsMatch'
    BY <2>1, <2>2 DEF HolderInv, RowsMatch, OwnRow, Accepted
  <2>5. \A k \in Keys : Holds(k)' => Holds(k)
    BY <1>1, <2>1, <2>3 DEF Holds, Accepted
  <2>6. OneHolder'
    <3>1. \A i \in Tracked' : currentClients'[i].key # entry.key
      BY <1>1, <2>1, <2>3 DEF HolderInv, OneHolder
    <3>2. \A t \in Sessions \ {s} : Accepted(t) => sess[t].client.key # entry.key
      BY <1>1, <2>3 DEF HolderInv, OneHolder
    <3>3. \A i, j \in Tracked' : currentClients'[i].key = currentClients'[j].key => i = j
      BY <2>1 DEF HolderInv, OneHolder
    <3>4. ASSUME NEW t \in Sessions, Accepted(t)'
          PROVE  /\ \A i \in Tracked' : currentClients'[i].key # sess'[t].client.key
                 /\ \A x \in Sessions \ {t} :
                      Accepted(x)' => sess'[x].client.key # sess'[t].client.key
      BY <2>1, <3>1, <3>2, <3>4 DEF HolderInv, OneHolder, Accepted
    <3> QED
      BY <3>3, <3>4 DEF OneHolder
  <2> QED
    BY <1>2, <1>3, <2>4, <2>5, <2>6 DEF HolderInv
<1> QED
  BY <1>4, <1>5 DEF HandleCheck

\* The key that is given back is the entry's, and the entry goes with it.
LEMMA HolderOfRelease ==
  ASSUME TypeOK, DialogueInv, IdOfOneKey, HolderInv, "lostreply" \notin Faults,
         NEW s \in Sessions, HandleRelease(s)
  PROVE  HolderInv'
<1> USE NoneIsNothing DEF TypeOK, ServerTypeOK
<1> DEFINE id == outbox[s].arg
           entry == currentClients[id]
<1>1. /\ sess[s] \in SessionRecord /\ sess[s].client = None /\ sess[s].key \in Keys
      /\ id \in Tracked /\ id \in TempIds /\ entry \in ClientRecord /\ up' = up /\ ~At(s, "idle")
  BY DEF HandleRelease, Names, Answer, At, Assigned, DialogueInv, LocalsInScope, Accepted, Tracked
<1>2. PICK k \in Keys : k = sess[s].key
  BY <1>1
<1>3. entry.key = k /\ entry.license = LicenseOf[k]
  <2>1. Claims(id, entry.key) /\ Claims(id, k)
    BY <1>1, <1>2 DEF Claims, TrackedFor, NamedFor, HandleRelease, Names
  <2>2. entry.key \in Keys
    BY <1>1 DEF ClientRecord
  <2>3. entry.key = k
    BY <1>1, <2>1, <2>2 DEF IdOfOneKey
  <2> QED
    BY <1>1, <2>3 DEF HolderInv, RowsMatch, OwnRow
<1>4. PICK ret :
        /\ Select("RELEASE", entry.user, k, ret)
        /\ \/ /\ ret = entry.license
              /\ Answer(s, "LICENSE_ANSWER_GOOD_RELEASE", None)
              /\ currentClients' = [currentClients EXCEPT ![id] = None]
           \/ /\ ret # entry.license
              /\ Answer(s, "LICENSE_ANSWER_NOT_RELEASE", None)
              /\ UNCHANGED currentClients
  BY <1>2 DEF HandleRelease
<1>5. /\ NoRowsOfAbsent'
      /\ \A j \in Keys \ {k} : Reserved(j) => Reserved(j)'
      /\ ret \in {None, LicenseOf[k]}
      /\ ret = None => UNCHANGED dbVars
  BY <1>4, ReleaseReserves DEF HolderInv
<1>6. HoldersShrink /\ NothingWhileDown'
  <2>1. \E answer : Answer(s, answer, None)
    BY <1>4
  <2>2. UNCHANGED currentClients \/ currentClients' = [currentClients EXCEPT ![id] = None]
    BY <1>4
  <2>3. HoldersShrink
    BY <1>1, <2>1, <2>2, AnswerLocals DEF HoldersShrink, SameHolder, Accepted, Tracked
  <2> QED
    BY <1>1, <2>3, RunningSession
<1>7. CASE ret # LicenseOf[k]
  <2>1. \A j \in Keys : Reserved(j) => Reserved(j)'
    BY <1>5, <1>7 DEF Reserved, dbVars
  <2> QED
    BY <1>5, <1>6, <2>1, HoldersLeave
<1>8. CASE ret = LicenseOf[k]
  <2>1. Tracked' = Tracked \ {id} /\ \A i \in Tracked' : currentClients'[i] = currentClients[i]
    BY <1>3, <1>4, <1>8 DEF Tracked
  <2>2. ~Holds(k)'
    BY <1>1, <1>3, <1>6, <2>1 DEF HoldersShrink, HolderInv, OneHolder, Holds
  <2> QED
    BY <1>5, <1>6, <2>2, HoldersLeave
<1> QED
  BY <1>7, <1>8

\* The client the session has accepted becomes an entry.
LEMMA HolderOfReply ==
  ASSUME TypeOK, DialogueInv, HolderInv, NEW s \in Sessions, Reply(s)
  PROVE  HolderInv'
<1> USE NoneIsNothing DEF TypeOK, ServerTypeOK
<1>1. /\ sess[s] \in SessionRecord /\ sess[s].id \in TempIds /\ ~At(s, "idle")
      /\ UNCHANGED <<up, dbVars>>
  BY DEF Reply, At, Assigned
<1>2. /\ \A t \in Sessions : t # s => sess'[t] = sess[t]
      /\ sess'[s] = IdleSession /\ ~Accepted(s)'
  BY DEF Reply, End, IdleSession, Accepted
<1>3. NothingWhileDown' /\ NoRowsOfAbsent' /\ \A k \in Keys : Reserved(k) => Reserved(k)'
  BY <1>1, RunningSession DEF HolderInv, NoRowsOfAbsent, Reserved, HasRow, dbVars
<1>4. CASE sess[s].client = None
  <2>1. HoldersShrink
    BY <1>2, <1>4 DEF HoldersShrink, SameHolder, Reply, Accepted, Tracked
  <2> QED
    BY <1>3, <2>1, HoldersLeave
<1>5. CASE sess[s].client # None
  <2> DEFINE id == sess[s].id
             entry == [sess[s].client EXCEPT !.stale = FALSE]
  <2>1. /\ SameHolder(entry, sess[s].client) /\ entry # None /\ Accepted(s)
        /\ currentClients' = [currentClients EXCEPT ![id] = entry]
    BY <1>1, <1>5 DEF SessionRecord, ClientRecord, SameHolder, Reply, Accepted
  <2> HIDE DEF entry
  <2>2. /\ \A i \in TempIds : i # id => currentClients'[i] = currentClients[i]
        /\ currentClients'[id] = entry
        /\ \A i \in Tracked' : i = id \/ i \in Tracked
    BY <1>1, <2>1 DEF Tracked
  <2> HIDE DEF id
  <2>3. Tracked \subseteq TempIds /\ Tracked' \subseteq TempIds
    BY DEF Tracked
  <2>4. RowsMatch'
    BY <1>2, <2>1, <2>2, <2>3 DEF HolderInv, RowsMatch, OwnRow, SameHolder, Accepted
  <2>5. \A k \in Keys : Holds(k)' => Holds(k)
    BY <1>2, <2>1, <2>2, <2>3 DEF Holds, SameHolder, Accepted
  <2>6. OneHolder'
    <3>1. \A i, j \in Tracked' : currentClients'[i].key = currentClients'[j].key => i = j
      BY <2>1, <2>2, <2>3 DEF HolderInv, OneHolder, SameHolder
    <3>2. ASSUME NEW t \in Sessions, Accepted(t)'
          PROVE  /\ \A i \in Tracked' : currentClients'[i].key # sess'[t].client.key
                 /\ \A x \in Sessions \ {t} :
                      Accepted(x)' => sess'[x].client.key # sess'[t].client.key
      BY <1>2, <2>1, <2>2, <2>3, <3>2 DEF HolderInv, OneHolder, Accepted, SameHolder
    <3> QED
      BY <3>1, <3>2 DEF OneHolder
  <2> QED
    BY <1>3, <2>4, <2>5, <2>6 DEF HolderInv
<1> QED
  BY <1>4, <1>5

\* Every step of a session, and the offer of an id.
LEMMA HolderOfSession ==
  ASSUME TypeOK, DialogueInv, IdOfOneKey, HolderInv, "lostreply" \notin Faults,
         NEW s \in Sessions, SessionStep(s) \/ OfferAnyId(s)
  PROVE  HolderInv'
<1>1. CASE HandleRequest(s)
  BY <1>1, HolderOfRequest
<1>2. CASE HandleCheck(s)
  BY <1>2, HolderOfCheck
<1>3. CASE HandleRelease(s)
  BY <1>3, HolderOfRelease
<1>4. CASE Reply(s)
  BY <1>4, HolderOfReply
<1>5. CASE \/ ReadKey(s) \/ FindUser(s) \/ Watch(s) \/ OfferAnyId(s) \/ HandleUnknown(s)
           \/ ReadKeyFails(s) \/ RefuseKey(s) \/ ExchangeFails(s) \/ ReplyFails(s)
  <2> USE DEF TypeOK, ServerTypeOK
  <2>1. /\ UNCHANGED <<up, currentClients, dbVars>> /\ ~At(s, "idle")
        /\ \A t \in Sessions : t # s => sess'[t] = sess[t]
    BY <1>5
    DEF ReadKey, FindUser, Watch, OfferAnyId, OfferId, HandleUnknown, ReadKeyFails, RefuseKey,
        ExchangeFails, ReplyFails, Answer, End, At
  <2>2. sess'[s].client \in {sess[s].client, None}
    BY <1>5
    DEF ReadKey, FindUser, Watch, OfferAnyId, OfferId, HandleUnknown, ReadKeyFails, RefuseKey,
        ExchangeFails, ReplyFails, Answer, End, IdleSession, SessionRecord
  <2>3. HoldersShrink
    BY <2>1, <2>2 DEF HoldersShrink, SameHolder, Accepted, Tracked
  <2>4. up
    BY <2>1 DEF HolderInv, NothingWhileDown
  <2> QED
    BY <2>1, <2>3, <2>4, HoldersStay
<1> QED
  BY <1>1, <1>2, <1>3, <1>4, <1>5 DEF SessionStep

-----------------------------------------------------------------------------
(***************************************************************************)
(* The other steps.                                                        *)
(***************************************************************************)

\* A reaper gives back the key of an entry that timed out, and erases the entry.
LEMMA HolderOfReaper ==
  ASSUME TypeOK, HolderInv, "lostreply" \notin Faults,
         NEW r \in Reapers, ReaperStep(r) \/ TakeTurn(r)
  PROVE  HolderInv'
<1> USE NoneIsNothing DEF TypeOK, ServerTypeOK
<1>1. UNCHANGED <<up, sess>>
  BY DEF ReaperStep, TakeTurn, StartReaper, LoopTest, Drain, FinishSweep, Sweep
<1>2. ASSUME HoldersShrink, UNCHANGED dbVars
      PROVE  HolderInv'
  BY <1>1, <1>2, HoldersStay DEF At
<1>3. CASE StartReaper(r) \/ LoopTest(r) \/ FinishSweep(r)
  BY <1>2, <1>3 DEF StartReaper, LoopTest, FinishSweep, HoldersShrink, SameHolder, Tracked, Accepted
<1>4. CASE Sweep(r)
  <2>1. \A i \in Tracked : SameHolder([currentClients[i] EXCEPT !.for_deleting = TRUE], currentClients[i])
    BY DEF Tracked, ClientRecord, SameHolder
  <2>2. HoldersShrink
    BY <1>4, <2>1 DEF Sweep, HoldersShrink, SameHolder, Tracked, Stale, Accepted
  <2> QED
    BY <1>2, <1>4, <2>2 DEF Sweep
<1>5. CASE Drain(r)
  <2>1. CASE UNCHANGED <<currentClients, dbVars>>
    BY <1>1, <1>2, <2>1 DEF HoldersShrink, SameHolder, Tracked, Accepted
  <2>2. ASSUME NEW i \in Tracked, NEW ret,
               Select("RELEASE", currentClients[i].user, currentClients[i].key, ret),
               currentClients' = [currentClients EXCEPT ![i] = None]
        PROVE  HolderInv'
    <3>1. PICK k \in Keys : k = currentClients[i].key
      BY DEF Tracked, ClientRecord
    <3>2. /\ Tracked' = Tracked \ {i}
          /\ \A j \in Tracked' : currentClients'[j] = currentClients[j]
      BY <2>2 DEF Tracked
    <3>3. NoRowsOfAbsent' /\ \A j \in Keys \ {k} : Reserved(j) => Reserved(j)'
      BY <2>2, <3>1, ReleaseReserves DEF HolderInv
    <3>4. HoldersShrink
      BY <1>1, <3>2 DEF HoldersShrink, SameHolder, Accepted
    <3>5. NothingWhileDown'
      BY <1>1, <3>2 DEF HolderInv, NothingWhileDown, At
    <3>6. ~Holds(k)'
      BY <1>1, <3>1, <3>2 DEF HolderInv, OneHolder, Holds, Accepted
    <3> QED
      BY <3>3, <3>4, <3>5, <3>6, HoldersLeave
  <2> QED
    BY <1>5, <2>1, <2>2 DEF Drain
<1> QED
  BY <1>3, <1>4, <1>5 DEF ReaperStep, TakeTurn

\* The clock, the clients, the start and the end of the process, the tables.
LEMMA HolderElsewhere ==
  ASSUME TypeOK, DialogueInv, HolderInv, "another" \notin Changes, "revive" \notin Changes,
         \/ \E id \in TempIds : Age(id)
         \/ \E c \in Clients : DialogueStep(c)
         \/ Recover \/ Environment \/ Tables \/ UNCHANGED vars
  PROVE  HolderInv'
<1> USE NoneIsNothing DEF TypeOK, ServerTypeOK
<1>1. CASE UNCHANGED serverVars /\ UNCHANGED dbVars
  <2>1. HoldersShrink
    BY <1>1 DEF serverVars, HoldersShrink, SameHolder, Tracked, Accepted
  <2> QED
    BY <1>1, <2>1, HoldersStay DEF serverVars, At
<1>2. ASSUME NEW id \in TempIds, Age(id)
      PROVE  HolderInv'
  <2>1. SameHolder([currentClients[id] EXCEPT !.stale = TRUE], currentClients[id])
    BY <1>2 DEF Age, Tracked, ClientRecord, SameHolder
  <2>2. currentClients' = [currentClients EXCEPT ![id] = [currentClients[id] EXCEPT !.stale = TRUE]]
    BY <1>2 DEF Age
  <2>3. HoldersShrink
    BY <1>2, <2>1, <2>2 DEF Age, HoldersShrink, SameHolder, Tracked, Accepted
  <2> QED
    BY <1>2, <2>3, HoldersStay DEF Age, At
<1>3. CASE Recover
  <2>1. /\ UNCHANGED <<currentClients, sess>> /\ up' = TRUE
        /\ Tracked = {} /\ \A s \in Sessions : At(s, "idle")
    BY <1>3 DEF Recover, Restart, HolderInv, NothingWhileDown
  <2>2. NoRowsOfAbsent' /\ NothingWhileDown'
    BY <1>3, <2>1, NullStartRows DEF Recover, Restart, HolderInv, NothingWhileDown
  <2>3. HoldersShrink
    BY <2>1 DEF HoldersShrink, SameHolder, Tracked, Accepted
  <2>4. \A k \in Keys : ~Holds(k)'
    BY <2>1 DEF Holds, Tracked, Accepted, At, DialogueInv, LocalsInScope
  <2> QED
    BY <2>2, <2>3, <2>4, HoldersLeave
<1>4. CASE Die /\ UNCHANGED dbVars
  <2>1. Tracked' = {} /\ \A s \in Sessions : ~Accepted(s)' /\ At(s, "idle")'
    BY <1>4 DEF Die, Tracked, Accepted, IdleSession, At
  <2>2. NoRowsOfAbsent' /\ NothingWhileDown'
    BY <1>4, <2>1 DEF HolderInv, NoRowsOfAbsent, HasRow, dbVars, NothingWhileDown
  <2>3. HoldersShrink /\ \A k \in Keys : ~Holds(k)'
    BY <2>1 DEF HoldersShrink, Holds
  <2> QED
    BY <2>2, <2>3, HoldersLeave
<1>5. ASSUME NEW c \in Clients, NEW s \in Sessions, Accept(c, s)
      PROVE  HolderInv'
  <2>1. /\ up /\ UNCHANGED <<up, currentClients, dbVars>>
        /\ \A t \in Sessions : sess'[t].client = sess[t].client
    BY <1>5 DEF Accept, SessionRecord
  <2>2. HoldersShrink
    BY <2>1 DEF HoldersShrink, SameHolder, Tracked, Accepted
  <2> QED
    BY <2>1, <2>2, HoldersStay
<1>6. CASE Tables
  <2>1. UNCHANGED serverVars
    BY <1>6 DEF Tables
  <2>2. HoldersShrink /\ NothingWhileDown'
    BY <2>1 DEF serverVars, HoldersShrink, SameHolder, Tracked, Accepted, HolderInv, NothingWhileDown, At
  <2>3. NoRowsOfAbsent' /\ \A j \in Keys : Reserved(j) => Reserved(j)'
    BY <1>6, TablesReserve DEF HolderInv
  <2> QED
    BY <2>2, <2>3, HoldersLeave
<1>7. CASE \/ \E c \in Clients : DialogueStep(c)
           \/ \E c \in Clients : (Start(c) \/ Vanish(c) \/ NetworkReset(c)) /\ UNCHANGED <<serverVars, dbVars>>
           \/ \E c \in Clients : NotAccepted(c)
           \/ UNCHANGED vars
  BY <1>1, <1>7 DEF DialogueStep, NotAccepted, vars
<1>8. ~StartAnother
  BY DEF StartAnother
<1> QED
  BY <1>2, <1>3, <1>4, <1>5, <1>6, <1>7, <1>8 DEF Environment, Crash, FindUserFails

\* What the tables say of a held key, and that it is held once, at any time
\* (main.cpp:373-389, Alex_K_DB.sql:1782-1826).
THEOREM HeldIsReserved ==
  ASSUME FreshIds, "lostreply" \notin Faults, "another" \notin Changes, "revive" \notin Changes
  PROVE  Spec => []HolderInv
<1>1. Init => HolderInv
  BY TypesAssumption
  DEF Init, DBInit, ServerInit, HolderInv, RowsMatch, NothingWhileDown, NoRowsOfAbsent, Holds,
      OneHolder, Tracked, Accepted, At, IdleSession
<1>2. TypeOK /\ DialogueInv /\ IdOfOneKey /\ HolderInv /\ [Next]_vars => HolderInv'
  BY HolderOfSession, HolderOfReaper, HolderElsewhere DEF Next
<1> QED
  BY <1>1, <1>2, TypeCorrect, DialogueInStep, IdsOfOneKey, PTL DEF Spec

\* A key is held by at most one client (main.cpp:373-389).
THEOREM KeyHeldOnce ==
  ASSUME FreshIds, "lostreply" \notin Faults, "another" \notin Changes, "revive" \notin Changes
  PROVE  Spec => []OneHolder
<1>1. HolderInv => OneHolder
  BY DEF HolderInv
<1> QED
  BY <1>1, HeldIsReserved, PTL

\* No step takes the reservation of an active license's key from its holder
\* (Alex_K_DB.sql:966-997, 1689-1725).
THEOREM ReservationsKept ==
  ASSUME FreshIds, "lostreply" \notin Faults, "another" \notin Changes, "revive" \notin Changes
  PROVE  Spec => ReservationKept
<1>1. HolderInv' =>
        [\A k \in Keys :
           key_s[k] = "requested" /\ key_s'[k] = "free" /\ up
             /\ license'[LicenseOf[k]].status = "active" => ~Holds(k)']_vars
  BY DEF HolderInv, Reserved
<1> QED
  BY <1>1, HeldIsReserved, PTL DEF ReservationKept

-----------------------------------------------------------------------------
(***************************************************************************)
(* The reverse: what is reserved is held.  Assumed: every call of MySQL    *)
(* runs and answers, the trigger does not fail, every answer is written,   *)
(* no key is replaced; and FreshIds.                                       *)
(***************************************************************************)
Dependable ==
  /\ Faults \cap {"query", "lostreply", "write"} = {}
  /\ "failed" \notin LapsedWrites
  /\ "replace" \notin Changes

\* Then every call runs, and an UPDATE of key_s writes what it says or clears.
LEMMA DependableCall ==
  ASSUME Dependable, NEW function, NEW u, NEW k, NEW ret, Select(function, u, k, ret)
  PROVE  Call(function, u, k, ret)
BY DEF Select, Dependable

LEMMA DependableUpdate ==
  ASSUME Dependable, NEW l, NEW S, NEW v, NEW ok, UpdateKeys(l, S, v, ok)
  PROVE  ok /\ key_s' \in {Written(S, v), Written(S, "free")}
BY DEF UpdateKeys, Dependable

\* RequestKey requests the key it returns a license for (Alex_K_DB.sql:1782-1826).
LEMMA DependableRequest ==
  ASSUME Dependable, DBTypeOK, NEW u, NEW k \in Keys, NEW ret, Select("REQUEST", u, k, ret)
  PROVE  /\ \A j \in Keys : key_s'[j] = "requested" =>
              key_s[j] = "requested" \/ (j = k /\ ret # None)
         /\ ret # None => ret = LicenseOf[k] /\ u = UserOf[k]
<1> DEFINE l == LicenseOf[k]
<1>1. l \in Licenses /\ l # None /\ RequestKey(u, k, ret)
  BY TypesAssumption, DependableCall DEF Call
<1>2. CASE ret = None /\ UNCHANGED dbVars
  BY <1>2 DEF dbVars
<1>3. ASSUME RowOfUser(u, k), NEW ok \in BOOLEAN,
             UpdateKeys(l, {k}, "requested", ok), ret = Returned(l, ok)
      PROVE  /\ ret = l /\ u = UserOf[k]
             /\ key_s' \in {Written({k}, "requested"), Written({k}, "free")}
  BY <1>3, DependableUpdate DEF Returned, RowOfUser
<1>4. key_s' \in {Written({k}, "requested"), Written({k}, "free")} =>
        \A j \in Keys : key_s'[j] = "requested" => key_s[j] = "requested" \/ j = k
  BY DEF Written
<1> QED
  BY <1>1, <1>2, <1>3, <1>4 DEF RequestKey

\* ActiveKeyCheck requests nothing (Alex_K_DB.sql:966-997).
LEMMA DependableCheck ==
  ASSUME Dependable, DBTypeOK, NEW u, NEW k \in Keys, NEW ret, Select("CHECK", u, k, ret)
  PROVE  \A j \in Keys : key_s'[j] = "requested" => key_s[j] = "requested"
<1> DEFINE l == LicenseOf[k]
<1>1. UNCHANGED dbVars \/ \E ok \in BOOLEAN : UpdateKeys(l, RowsOf(l), "free", ok)
  BY DependableCall DEF Call, ActiveKeyCheck
<1> QED
  BY <1>1, DependableUpdate DEF Written, dbVars

\* ReleaseKey leaves its key free, when it is the user's (Alex_K_DB.sql:1689-1725).
LEMMA DependableRelease ==
  ASSUME Dependable, DBTypeOK, NEW u, NEW k \in Keys, u = UserOf[k],
         NEW ret, Select("RELEASE", u, k, ret)
  PROVE  /\ \A j \in Keys : key_s'[j] = "requested" => key_s[j] = "requested"
         /\ key_s'[k] # "requested"
<1> DEFINE l == LicenseOf[k]
<1>1. \/ UNCHANGED dbVars /\ ~(RowOfUser(u, k) /\ key_s[k] = "requested")
      \/ \E ok \in BOOLEAN : UpdateKeys(l, {k}, "free", ok)
  BY DependableCall DEF Call, ReleaseKey
<1>2. CASE UNCHANGED dbVars /\ ~(RowOfUser(u, k) /\ key_s[k] = "requested")
  BY <1>2 DEF dbVars, RowOfUser, HasRow
<1>3. CASE \E ok \in BOOLEAN : UpdateKeys(l, {k}, "free", ok)
  BY <1>3, DependableUpdate DEF Written
<1> QED
  BY <1>1, <1>2, <1>3

\* A step that neither adds nor removes a holder, and requests no key.
LEMMA ReservedStays ==
  ASSUME ReservedInv, HoldersShrink, up' = up,
         \A i \in Tracked : i \in Tracked', \A s \in Sessions : Accepted(s) => Accepted(s)',
         \A s \in Sessions : sess'[s].id \in {sess[s].id, None},
         ~up => \A s \in Sessions : At(s, "idle") => At(s, "idle")',
         \A k \in Keys : key_s'[k] = "requested" => key_s[k] = "requested"
  PROVE  ReservedInv'
<1> USE DEF HoldersShrink, SameHolder
<1>1. RowsMatch'
  BY DEF ReservedInv, RowsMatch, OwnRow, Tracked
<1>2. Tracked' = Tracked
  BY DEF Tracked
<1>3. NothingWhileDown' /\ OfferUntracked'
  BY <1>2 DEF ReservedInv, NothingWhileDown, OfferUntracked
<1>4. \A k \in Keys : Holds(k) => Holds(k)'
  BY DEF Holds, Tracked
<1> QED
  BY <1>1, <1>3, <1>4 DEF ReservedInv, NoHangingKey

\* The key that is requested gets its holder in the same step.
LEMMA ReservedByRequest ==
  ASSUME Dependable, TypeOK, DialogueInv, ReservedInv, NEW s \in Sessions, HandleRequest(s)
  PROVE  ReservedInv'
<1> USE NoneIsNothing DEF TypeOK, ServerTypeOK
<1>1. /\ sess[s] \in SessionRecord /\ sess[s].key \in Keys /\ sess[s].client = None
      /\ outbox[s].arg = sess[s].user /\ UNCHANGED <<up, currentClients>> /\ up
  BY DEF HandleRequest, Answer, At, Assigned, DialogueInv, LocalsInScope, Accepted,
         ReservedInv, NothingWhileDown
<1>2. PICK k \in Keys : k = sess[s].key
  BY <1>1
<1>3. PICK ret \in Licenses \cup {None} :
        /\ Select("REQUEST", sess[s].user, k, ret)
        /\ \/ /\ ret # None
              /\ Answer(s, "LICENSE_ANSWER_GOOD",
                        [user |-> outbox[s].arg, license |-> ret, key |-> sess[s].key,
                         stale |-> FALSE, for_deleting |-> FALSE])
           \/ ret = None /\ Answer(s, "LICENSE_ANSWER_BUSY", None)
  BY <1>2 DEF HandleRequest
<1>4. /\ \A j \in Keys : key_s'[j] = "requested" => key_s[j] = "requested" \/ (j = k /\ ret # None)
      /\ ret # None => ret = LicenseOf[k] /\ sess[s].user = UserOf[k]
  <2>1. Select("REQUEST", sess[s].user, k, ret) /\ DBTypeOK
    BY <1>3
  <2> HIDE <1>1, <1>2, <1>3 DEF TypeOK, ServerTypeOK
  <2> QED
    BY <2>1, DependableRequest
<1>5. Tracked' = Tracked /\ \A t \in Sessions : sess'[t].id = sess[t].id
  BY <1>1, <1>3 DEF Tracked, Answer, SessionRecord
<1>6. CASE ret = None
  <2>1. Answer(s, "LICENSE_ANSWER_BUSY", None)
    BY <1>3, <1>6
  <2>2. HoldersShrink /\ \A t \in Sessions : Accepted(t) => Accepted(t)'
    BY <1>1, <1>5, <2>1, AnswerLocals DEF HoldersShrink, SameHolder, Accepted, Tracked
  <2> QED
    BY <1>1, <1>4, <1>5, <1>6, <2>2, ReservedStays
<1>7. CASE ret # None
  <2> DEFINE new == [user |-> outbox[s].arg, license |-> ret, key |-> sess[s].key,
                     stale |-> FALSE, for_deleting |-> FALSE]
  <2>1. Answer(s, "LICENSE_ANSWER_GOOD", new)
    BY <1>3, <1>7
  <2>2. new.key = k /\ OwnRow(new) /\ new # None
    <3>1. new \in ClientRecord
      BY <1>1, <1>4, <1>7, TypesAssumption DEF ClientRecord
    <3> QED
      BY <1>1, <1>2, <1>4, <1>7, <3>1 DEF OwnRow
  <2> HIDE DEF new
  <2>3. /\ \A t \in Sessions : t # s => sess'[t] = sess[t]
        /\ sess'[s].client = new
    BY <2>1, AnswerLocals
  <2>4. RowsMatch'
    BY <1>1, <1>5, <2>2, <2>3 DEF ReservedInv, RowsMatch, OwnRow, Accepted
  <2>5. NothingWhileDown' /\ OfferUntracked'
    BY <1>1, <1>5 DEF ReservedInv, NothingWhileDown, OfferUntracked
  <2>6. ASSUME NEW j \in Keys, Holds(j) \/ j = k
        PROVE  Holds(j)'
    BY <1>1, <1>5, <2>2, <2>3, <2>6 DEF Holds, Accepted
  <2> QED
    BY <1>1, <1>4, <2>4, <2>5, <2>6 DEF ReservedInv, NoHangingKey
<1> QED
  BY <1>6, <1>7

\* The holder moves from currentClients into the session.
LEMMA ReservedByCheck ==
  ASSUME Dependable, TypeOK, DialogueInv, ReservedInv, NEW s \in Sessions, HandleCheck(s)
  PROVE  ReservedInv'
<1> USE NoneIsNothing DEF TypeOK, ServerTypeOK
<1> DEFINE id == outbox[s].arg
           entry == currentClients[id]
<1>1. /\ sess[s] \in SessionRecord /\ sess[s].client = None
      /\ id \in Tracked /\ id \in TempIds /\ entry \in ClientRecord /\ up' = up /\ up
  BY DEF HandleCheck, Names, Answer, At, DialogueInv, LocalsInScope, Accepted, Tracked,
         ReservedInv, NothingWhileDown
<1>2. \A j \in Keys : key_s'[j] = "requested" => key_s[j] = "requested"
  <2>1. CASE UNCHANGED dbVars
    BY <2>1 DEF dbVars
  <2>2. ASSUME NEW ret, Select("CHECK", entry.user, entry.key, ret)
        PROVE  \A j \in Keys : key_s'[j] = "requested" => key_s[j] = "requested"
    <3>1. entry.key \in Keys /\ DBTypeOK
      BY <1>1 DEF ClientRecord
    <3> HIDE DEF entry
    <3> QED
      BY <2>2, <3>1, DependableCheck
  <2> QED
    BY <2>1, <2>2 DEF HandleCheck
<1>3. CASE UNCHANGED currentClients /\ \E answer : Answer(s, answer, None)
  <2>1. Tracked' = Tracked /\ \A t \in Sessions : sess'[t].id = sess[t].id
    BY <1>1, <1>3 DEF Tracked, Answer, SessionRecord
  <2>2. HoldersShrink /\ \A t \in Sessions : Accepted(t) => Accepted(t)'
    BY <1>1, <1>3, <2>1, AnswerLocals DEF HoldersShrink, SameHolder, Accepted, Tracked
  <2> QED
    BY <1>1, <1>2, <2>1, <2>2, ReservedStays
<1>4. CASE currentClients' = [currentClients EXCEPT ![id] = None]
           /\ Answer(s, "LICENSE_ANSWER_GOOD_WORK", entry)
  <2>1. /\ \A t \in Sessions : t # s => sess'[t] = sess[t]
        /\ sess'[s].client = entry /\ sess'[s].id = sess[s].id
        /\ Tracked' = Tracked \ {id}
        /\ \A i \in Tracked' : currentClients'[i] = currentClients[i]
    BY <1>1, <1>4 DEF Answer, SessionRecord, Tracked
  <2>2. OwnRow(entry)
    BY <1>1 DEF ReservedInv, RowsMatch
  <2> HIDE DEF entry, id
  <2>3. entry = currentClients[id]
    BY DEF entry
  <2>4. RowsMatch'
    BY <2>1, <2>2 DEF ReservedInv, RowsMatch, OwnRow, Accepted
  <2>5. NothingWhileDown' /\ OfferUntracked'
    BY <1>1, <2>1 DEF ReservedInv, NothingWhileDown, OfferUntracked
  <2>6. \A k \in Keys : Holds(k) => Holds(k)'
    BY <1>1, <2>1, <2>3 DEF Holds, Accepted
  <2> QED
    BY <1>1, <1>2, <2>4, <2>5, <2>6 DEF ReservedInv, NoHangingKey
<1> QED
  BY <1>3, <1>4 DEF HandleCheck

\* The entry goes, and its key's reservation with it.
LEMMA ReservedByRelease ==
  ASSUME Dependable, TypeOK, DialogueInv, IdOfOneKey, ReservedInv,
         NEW s \in Sessions, HandleRelease(s)
  PROVE  ReservedInv'
<1> USE NoneIsNothing DEF TypeOK, ServerTypeOK
<1> DEFINE id == outbox[s].arg
           entry == currentClients[id]
<1>1. /\ sess[s] \in SessionRecord /\ sess[s].client = None /\ sess[s].key \in Keys
      /\ id \in Tracked /\ id \in TempIds /\ entry \in ClientRecord /\ up' = up /\ up
  BY DEF HandleRelease, Names, Answer, At, Assigned, DialogueInv, LocalsInScope, Accepted, Tracked,
         ReservedInv, NothingWhileDown
<1>2. PICK k \in Keys : k = sess[s].key
  BY <1>1
<1>3. entry.key = k
  <2>1. Claims(id, entry.key) /\ Claims(id, k)
    BY <1>1, <1>2 DEF Claims, TrackedFor, NamedFor, HandleRelease, Names
  <2>2. entry.key \in Keys
    BY <1>1 DEF ClientRecord
  <2> QED
    BY <1>1, <2>1, <2>2 DEF IdOfOneKey
<1>4. entry.user = UserOf[k] /\ entry.license # None
  BY <1>1, <1>3, TypesAssumption DEF ReservedInv, RowsMatch, OwnRow, ClientRecord
<1>5. PICK ret :
        /\ Select("RELEASE", entry.user, k, ret)
        /\ \/ /\ ret = entry.license
              /\ Answer(s, "LICENSE_ANSWER_GOOD_RELEASE", None)
              /\ currentClients' = [currentClients EXCEPT ![id] = None]
           \/ /\ ret # entry.license
              /\ Answer(s, "LICENSE_ANSWER_NOT_RELEASE", None)
              /\ UNCHANGED currentClients
  BY <1>2 DEF HandleRelease
<1>6. /\ \A j \in Keys : key_s'[j] = "requested" => key_s[j] = "requested"
      /\ key_s'[k] # "requested"
  BY <1>4, <1>5, DependableRelease
<1>7. /\ \A i \in TempIds : i # id => currentClients'[i] = currentClients[i]
      /\ Tracked' \subseteq Tracked /\ Tracked \subseteq TempIds
      /\ \A i \in Tracked' : currentClients'[i] = currentClients[i]
  BY <1>5 DEF Tracked
<1>8. \A t \in Sessions : sess'[t].client = sess[t].client /\ sess'[t].id = sess[t].id
  BY <1>1, <1>5 DEF Answer, SessionRecord
<1>9. RowsMatch'
  BY <1>7, <1>8 DEF ReservedInv, RowsMatch, OwnRow, Accepted
<1>10. NothingWhileDown' /\ OfferUntracked'
  BY <1>1, <1>7, <1>8 DEF ReservedInv, NothingWhileDown, OfferUntracked
<1>11. \A j \in Keys : Holds(j) /\ j # k => Holds(j)'
  BY <1>3, <1>7, <1>8 DEF Holds, Accepted, Tracked
<1> QED
  BY <1>1, <1>6, <1>9, <1>10, <1>11 DEF ReservedInv, NoHangingKey

\* The holder moves from the session into currentClients, where it replaces nobody.
LEMMA ReservedByReply ==
  ASSUME TypeOK, MutexHeld, DialogueInv, ReservedInv, NEW s \in Sessions, Reply(s)
  PROVE  ReservedInv'
<1> USE NoneIsNothing DEF TypeOK, ServerTypeOK
<1>1. /\ sess[s] \in SessionRecord /\ sess[s].id \in TempIds /\ m = s /\ up
      /\ UNCHANGED <<up, dbVars>>
  BY DEF Reply, At, Assigned, MutexHeld, ReservedInv, NothingWhileDown
<1>2. /\ \A t \in Sessions : t # s => sess'[t] = sess[t]
      /\ sess'[s].client = None /\ sess'[s].id = None
  BY DEF Reply, End, IdleSession
<1>3. \A t \in Sessions : sess'[t].id # None => t = s
  BY <1>1, <1>2 DEF DialogueInv, LocalsInScope, MutexHeld
<1>4. NothingWhileDown' /\ OfferUntracked'
  BY <1>1, <1>2, <1>3 DEF NothingWhileDown, OfferUntracked
<1>5. CASE sess[s].client = None
  <2>1. Tracked' = Tracked /\ currentClients' = currentClients
    BY <1>5 DEF Reply, Tracked
  <2>2. HoldersShrink /\ \A t \in Sessions : Accepted(t) => Accepted(t)'
    BY <1>2, <1>5, <2>1 DEF HoldersShrink, SameHolder, Accepted, Tracked
  <2> QED
    BY <1>1, <1>2, <2>1, <2>2, ReservedStays DEF dbVars
<1>6. CASE sess[s].client # None
  <2> DEFINE id == sess[s].id
             entry == [sess[s].client EXCEPT !.stale = FALSE]
  <2>1. /\ SameHolder(entry, sess[s].client) /\ entry # None /\ Accepted(s)
        /\ currentClients' = [currentClients EXCEPT ![id] = entry]
    BY <1>1, <1>6 DEF SessionRecord, ClientRecord, SameHolder, Reply, Accepted
  <2>2. id \notin Tracked
    BY <1>1 DEF ReservedInv, OfferUntracked
  <2> HIDE DEF entry
  <2>3. /\ \A i \in TempIds : i # id => currentClients'[i] = currentClients[i]
        /\ currentClients'[id] = entry
        /\ Tracked' = Tracked \cup {id}
    BY <1>1, <2>1 DEF Tracked
  <2>4. id \in TempIds
    BY <1>1
  <2> HIDE DEF id
  <2>5. Tracked \subseteq TempIds
    BY DEF Tracked
  <2>6. RowsMatch'
    BY <1>2, <2>1, <2>3, <2>5 DEF ReservedInv, RowsMatch, OwnRow, SameHolder, Accepted
  <2>7. \A k \in Keys : Holds(k) => Holds(k)'
    BY <1>2, <2>1, <2>2, <2>3, <2>5 DEF Holds, SameHolder, Accepted
  <2> QED
    BY <1>1, <1>4, <2>6, <2>7 DEF ReservedInv, NoHangingKey, dbVars
<1> QED
  BY <1>5, <1>6

\* Every step of a session, and the offer of an id.
LEMMA ReservedOfSession ==
  ASSUME Dependable, TypeOK, MutexHeld, DialogueInv, IdOfOneKey, ReservedInv,
         NEW s \in Sessions, SessionStep(s) \/ OfferAnyId(s)
  PROVE  ReservedInv'
<1>1. CASE HandleRequest(s)
  BY <1>1, ReservedByRequest
<1>2. CASE HandleCheck(s)
  BY <1>2, ReservedByCheck
<1>3. CASE HandleRelease(s)
  BY <1>3, ReservedByRelease
<1>4. CASE Reply(s)
  BY <1>4, ReservedByReply
<1>5. CASE \/ ReadKey(s) \/ FindUser(s) \/ Watch(s) \/ HandleUnknown(s)
           \/ ReadKeyFails(s) \/ RefuseKey(s) \/ ExchangeFails(s)
  <2> USE DEF TypeOK, ServerTypeOK
  <2>1. /\ UNCHANGED <<up, currentClients, dbVars>> /\ ~At(s, "idle") /\ ~At(s, "reply")
        /\ \A t \in Sessions : t # s => sess'[t] = sess[t]
    BY <1>5
    DEF ReadKey, FindUser, Watch, HandleUnknown, ReadKeyFails, RefuseKey, ExchangeFails,
        Answer, End, At
  <2>2. sess'[s].client = None /\ sess'[s].id \in {sess[s].id, None} /\ ~Accepted(s)
    BY <1>5, <2>1
    DEF ReadKey, FindUser, Watch, HandleUnknown, ReadKeyFails, RefuseKey, ExchangeFails,
        Answer, End, IdleSession, SessionRecord, DialogueInv, LocalsInScope, Accepted
  <2>3. HoldersShrink /\ \A t \in Sessions : Accepted(t) => Accepted(t)'
    BY <2>1, <2>2 DEF HoldersShrink, SameHolder, Accepted, Tracked
  <2>4. up /\ \A i \in Tracked : i \in Tracked'
    BY <2>1 DEF ReservedInv, NothingWhileDown, Tracked
  <2> QED
    BY <2>1, <2>2, <2>3, <2>4, ReservedStays DEF dbVars
<1>6. ASSUME NEW id \in TempIds, OfferId(s, id)
      PROVE  ReservedInv'
  <2> USE DEF TypeOK, ServerTypeOK
  <2>1. /\ UNCHANGED <<up, currentClients, dbVars>> /\ up /\ id \notin Tracked
        /\ \A t \in Sessions : t # s => sess'[t] = sess[t]
        /\ sess'[s].id = id /\ sess'[s].client = sess[s].client
    BY <1>6 DEF OfferId, At, ReservedInv, NothingWhileDown, SessionRecord
  <2>2. Tracked' = Tracked /\ \A t \in Sessions : sess'[t].client = sess[t].client
    BY <2>1 DEF Tracked
  <2>3. RowsMatch' /\ NothingWhileDown' /\ OfferUntracked'
    BY <2>1, <2>2
    DEF ReservedInv, RowsMatch, OwnRow, Accepted, NothingWhileDown, OfferUntracked
  <2>4. \A k \in Keys : Holds(k) => Holds(k)'
    BY <2>1, <2>2 DEF Holds, Accepted
  <2> QED
    BY <2>1, <2>3, <2>4 DEF ReservedInv, NoHangingKey, dbVars
<1>7. ~ReplyFails(s)
  BY DEF ReplyFails, Dependable
<1> QED
  BY <1>1, <1>2, <1>3, <1>4, <1>5, <1>6, <1>7 DEF SessionStep, OfferAnyId

\* The reaper's release finds the row of the entry it erases.
LEMMA ReservedOfReaper ==
  ASSUME Dependable, TypeOK, ReservedInv, NEW r \in Reapers, ReaperStep(r) \/ TakeTurn(r)
  PROVE  ReservedInv'
<1> USE NoneIsNothing DEF TypeOK, ServerTypeOK
<1>1. UNCHANGED <<up, sess>>
  BY DEF ReaperStep, TakeTurn, StartReaper, LoopTest, Drain, FinishSweep, Sweep
<1>2. ASSUME HoldersShrink, \A i \in Tracked : i \in Tracked', UNCHANGED dbVars
      PROVE  ReservedInv'
  BY <1>1, <1>2, ReservedStays DEF At, Accepted, dbVars
<1>3. CASE \/ StartReaper(r) \/ LoopTest(r) \/ FinishSweep(r)
           \/ UNCHANGED <<currentClients, dbVars>>
  BY <1>1, <1>2, <1>3
  DEF StartReaper, LoopTest, FinishSweep, HoldersShrink, SameHolder, Tracked, Accepted
<1>4. CASE Sweep(r)
  <2>1. \A i \in Tracked : /\ [currentClients[i] EXCEPT !.for_deleting = TRUE] \in ClientRecord
                           /\ SameHolder([currentClients[i] EXCEPT !.for_deleting = TRUE], currentClients[i])
    BY DEF Tracked, ClientRecord, SameHolder
  <2>2. HoldersShrink /\ \A i \in Tracked : i \in Tracked'
    BY <1>4, <2>1 DEF Sweep, HoldersShrink, SameHolder, Tracked, Stale, Accepted
  <2> QED
    BY <1>2, <1>4, <2>2 DEF Sweep
<1>5. ASSUME NEW i \in Tracked, NEW ret,
             Select("RELEASE", currentClients[i].user, currentClients[i].key, ret),
             currentClients' = [currentClients EXCEPT ![i] = None]
      PROVE  ReservedInv'
  <2>1. PICK k \in Keys : k = currentClients[i].key
    BY DEF Tracked, ClientRecord
  <2>2. /\ Tracked' = Tracked \ {i}
        /\ \A j \in Tracked' : currentClients'[j] = currentClients[j]
    BY <1>5 DEF Tracked
  <2>3. currentClients[i].user = UserOf[k]
    BY <2>1 DEF ReservedInv, RowsMatch, OwnRow
  <2>4. /\ \A j \in Keys : key_s'[j] = "requested" => key_s[j] = "requested"
        /\ key_s'[k] # "requested"
    <3>1. Select("RELEASE", currentClients[i].user, k, ret) /\ DBTypeOK
      BY <1>5, <2>1
    <3> HIDE <1>1, <1>2, <1>5, <2>1, <2>2 DEF TypeOK, ServerTypeOK
    <3> QED
      BY <2>3, <3>1, DependableRelease
  <2>5. RowsMatch' /\ NothingWhileDown' /\ OfferUntracked'
    BY <1>1, <2>2
    DEF ReservedInv, RowsMatch, OwnRow, Accepted, NothingWhileDown, At, OfferUntracked
  <2>6. \A j \in Keys : Holds(j) /\ j # k => Holds(j)'
    BY <1>1, <2>1, <2>2 DEF Holds, Accepted
  <2> QED
    BY <1>1, <2>4, <2>5, <2>6 DEF ReservedInv, NoHangingKey
<1>6. CASE Drain(r)
  BY <1>3, <1>5, <1>6 DEF Drain
<1> QED
  BY <1>3, <1>4, <1>6 DEF ReaperStep, TakeTurn

\* No change beside the server requests a key, unless keys are replaced.
LEMMA TablesRequestNothing ==
  ASSUME Dependable, DBTypeOK, Tables
  PROVE  UNCHANGED serverVars /\ \A k \in Keys : key_s'[k] = "requested" => key_s[k] = "requested"
<1>1. ~\E k, new \in Keys : KeyReplacement(k, new)
  BY DEF KeyReplacement, Dependable
<1> QED
  BY <1>1
  DEF Tables, Lapse, CheckLicenseValidity, DeleteExpiredLicense, RemoveLicense, DeleteRows,
      ExtendLicense, ReviveLicense

\* NullStart leaves nothing requested (MySQLinit.cpp:339-354).
LEMMA NullStartRequestsNothing ==
  ASSUME Dependable, DBTypeOK, NullStart
  PROVE  \A k \in Keys : key_s'[k] # "requested"
BY DEF Dependable, NullStart, Written

\* The clock, the clients, the start and the end of the process, the tables.
LEMMA ReservedElsewhere ==
  ASSUME Dependable, TypeOK, DialogueInv, ReservedInv,
         \/ \E id \in TempIds : Age(id)
         \/ \E c \in Clients : DialogueStep(c)
         \/ Recover \/ Environment \/ Tables \/ UNCHANGED vars
  PROVE  ReservedInv'
<1> USE NoneIsNothing DEF TypeOK, ServerTypeOK
<1>1. ASSUME UNCHANGED serverVars,
             \A k \in Keys : key_s'[k] = "requested" => key_s[k] = "requested"
      PROVE  ReservedInv'
  <2>1. HoldersShrink
    BY <1>1 DEF serverVars, HoldersShrink, SameHolder, Tracked, Accepted
  <2> QED
    BY <1>1, <2>1, ReservedStays DEF serverVars, Tracked, Accepted, At
<1>2. ASSUME NEW id \in TempIds, Age(id)
      PROVE  ReservedInv'
  <2>1. /\ SameHolder([currentClients[id] EXCEPT !.stale = TRUE], currentClients[id])
        /\ [currentClients[id] EXCEPT !.stale = TRUE] # None
    BY <1>2 DEF Age, Tracked, ClientRecord, SameHolder
  <2>2. currentClients' = [currentClients EXCEPT ![id] = [currentClients[id] EXCEPT !.stale = TRUE]]
    BY <1>2 DEF Age
  <2>3. HoldersShrink /\ \A i \in Tracked : i \in Tracked'
    BY <1>2, <2>1, <2>2 DEF Age, HoldersShrink, SameHolder, Tracked, Accepted
  <2>4. UNCHANGED <<up, sess, dbVars>>
    BY <1>2 DEF Age
  <2> QED
    BY <2>3, <2>4, ReservedStays DEF Accepted, At, dbVars
<1>3. CASE Recover
  <2>1. /\ UNCHANGED <<currentClients, sess>> /\ up' = TRUE /\ NullStart
        /\ Tracked = {} /\ \A s \in Sessions : At(s, "idle")
    BY <1>3 DEF Recover, Restart, ReservedInv, NothingWhileDown
  <2>2. RowsMatch' /\ OfferUntracked' /\ NothingWhileDown'
    BY <2>1 DEF ReservedInv, RowsMatch, OwnRow, OfferUntracked, NothingWhileDown, Tracked, Accepted
  <2> QED
    BY <2>1, <2>2, NullStartRequestsNothing DEF ReservedInv, NoHangingKey
<1>4. CASE Die /\ UNCHANGED dbVars
  <2>1. /\ Tracked' = {} /\ ~up'
        /\ \A s \in Sessions : ~Accepted(s)' /\ At(s, "idle")' /\ sess'[s].id = None
    BY <1>4 DEF Die, Tracked, Accepted, IdleSession, At
  <2> QED
    BY <2>1 DEF ReservedInv, RowsMatch, OfferUntracked, NothingWhileDown, NoHangingKey
<1>5. ASSUME NEW c \in Clients, NEW s \in Sessions, Accept(c, s)
      PROVE  ReservedInv'
  <2>1. /\ up /\ UNCHANGED <<up, currentClients, dbVars>>
        /\ \A t \in Sessions : sess'[t].client = sess[t].client /\ sess'[t].id = sess[t].id
    BY <1>5 DEF Accept, SessionRecord
  <2>2. HoldersShrink
    BY <2>1 DEF HoldersShrink, SameHolder, Tracked, Accepted
  <2> QED
    BY <2>1, <2>2, ReservedStays DEF Tracked, Accepted, dbVars
<1>6. CASE Tables
  BY <1>1, <1>6, TablesRequestNothing
<1>7. CASE StartAnother
  BY <1>1, <1>7, NullStartRequestsNothing DEF StartAnother
<1>8. CASE \/ \E c \in Clients : DialogueStep(c)
           \/ \E c \in Clients : (Start(c) \/ Vanish(c) \/ NetworkReset(c)) /\ UNCHANGED <<serverVars, dbVars>>
           \/ \E c \in Clients : NotAccepted(c)
           \/ UNCHANGED vars
  <2>1. UNCHANGED serverVars /\ UNCHANGED key_s
    BY <1>8 DEF DialogueStep, NotAccepted, vars, dbVars
  <2> QED
    BY <1>1, <2>1
<1> QED
  BY <1>2, <1>3, <1>4, <1>5, <1>6, <1>7, <1>8 DEF Environment, Crash, FindUserFails

\* A key marked as requested has a client the server will release it for
\* (main.cpp:127-128).
THEOREM NoKeyHangs ==
  ASSUME FreshIds, Dependable
  PROVE  Spec => []NoHangingKey
<1>1. Init => ReservedInv
  BY TypesAssumption
  DEF Init, DBInit, ServerInit, ReservedInv, RowsMatch, NothingWhileDown, OfferUntracked,
      NoHangingKey, Tracked, Accepted, At, IdleSession
<1>2. /\ TypeOK /\ MutexHeld /\ DialogueInv /\ IdOfOneKey /\ ReservedInv /\ [Next]_vars
      => ReservedInv'
  BY ReservedOfSession, ReservedOfReaper, ReservedElsewhere DEF Next
<1>3. ReservedInv => NoHangingKey
  BY DEF ReservedInv
<1> QED
  BY <1>1, <1>2, <1>3, TypeCorrect, MutualExclusion, DialogueInStep, IdsOfOneKey, PTL DEF Spec

-----------------------------------------------------------------------------
(***************************************************************************)
(* LicenseSystem implements KeyLease.  What HolderInv says before and after *)
(* a step leaves one thing to show of each action: it makes nobody a       *)
(* holder, but for a RequestKey that finds the key vacant.                 *)
(***************************************************************************)
NobodyNew == \A k \in Keys : Holds(k)' => Holds(k)

-----------------------------------------------------------------------------
(***************************************************************************)
(* The mapping.                                                            *)
(***************************************************************************)

\* A key is leased exactly when it has a holder, to an id of the server's.
LEMMA LeasedIsHeld ==
  ASSUME TypeOK, DialogueInv, NEW k \in Keys
  PROVE  LeasedTo(k) \subseteq TempIds /\ (LeasedTo(k) # {} <=> Holds(k))
<1>1. \A s \in Sessions : Accepted(s) => sess[s].id \in TempIds
  BY DEF DialogueInv, LocalsInScope, At, TypeOK, ServerTypeOK, Assigned
<1> QED
  BY <1>1 DEF LeasedTo, Holds, Tracked

\* The lease of a held key has one handle, and the key is not vacant.
LEMMA LeasedOnce ==
  ASSUME TypeOK, DialogueInv, HolderInv, NEW k \in Keys, Holds(k)
  PROVE  (\E h \in TempIds : LeasedTo(k) = {h}) /\ ~Vacant(k)
<1>1. \A h, g \in LeasedTo(k) : h = g
  BY DEF LeasedTo, HolderInv, OneHolder
<1>2. \E h \in TempIds : h \in LeasedTo(k)
  BY LeasedIsHeld
<1>3. ~Vacant(k)
  BY DEF HolderInv, Reserved, Vacant
<1> QED
  BY <1>1, <1>2, <1>3

\* What the mapping looks like in one state.
MappedRight ==
  \A k \in Keys :
    /\ LeasedTo(k) \subseteq TempIds /\ (LeasedTo(k) # {} <=> Holds(k))
    /\ Holds(k) => (\E h \in TempIds : LeasedTo(k) = {h}) /\ ~Vacant(k)

LEMMA MappingIsRight == TypeOK /\ DialogueInv /\ HolderInv => MappedRight
BY LeasedIsHeld, LeasedOnce DEF MappedRight

-----------------------------------------------------------------------------
(***************************************************************************)
(* Who becomes a holder.                                                   *)
(***************************************************************************)
LEMMA ShrinkNobodyNew ==
  ASSUME HoldersShrink
  PROVE  NobodyNew
BY DEF HoldersShrink, SameHolder, NobodyNew, Holds, Tracked

\* RequestKey answers with a license only for a vacant key (Alex_K_DB.sql:1799-1809).
LEMMA GrantedWasVacant ==
  ASSUME NoRowsOfAbsent, "lostreply" \notin Faults, NEW u, NEW k \in Keys,
         NEW ret, ret # None, Select("REQUEST", u, k, ret)
  PROVE  Vacant(k)
<1>1. RequestKey(u, k, ret)
  BY DEF Select, Call
<1>2. key_s[k] = "free" /\ license[LicenseOf[k]].status # "expired"
  BY <1>1 DEF RequestKey
<1> QED
  BY <1>2 DEF NoRowsOfAbsent, HasRow, Vacant

\* REQUEST: the holder is the client of the session, for the key that was granted.
LEMMA NewByRequest ==
  ASSUME TypeOK, DialogueInv, HolderInv, "lostreply" \notin Faults,
         NEW s \in Sessions, HandleRequest(s), NEW k \in Keys, Holds(k)', ~Holds(k)
  PROVE  Vacant(k)
<1> USE NoneIsNothing DEF TypeOK, ServerTypeOK
<1>1. sess[s].key \in Keys /\ Tracked' = Tracked
      /\ \A i \in Tracked : currentClients'[i] = currentClients[i]
  BY DEF HandleRequest, At, Assigned, Tracked
<1>2. PICK ret \in Licenses \cup {None} :
        /\ Select("REQUEST", sess[s].user, sess[s].key, ret)
        /\ \/ /\ ret # None
              /\ Answer(s, "LICENSE_ANSWER_GOOD",
                        [user |-> outbox[s].arg, license |-> ret, key |-> sess[s].key,
                         stale |-> FALSE, for_deleting |-> FALSE])
           \/ ret = None /\ Answer(s, "LICENSE_ANSWER_BUSY", None)
  BY DEF HandleRequest
<1>3. \A t \in Sessions : t # s => sess'[t] = sess[t]
  BY <1>2, AnswerLocals
<1>4. CASE ret = None
  <2>1. ~Accepted(s)'
    BY <1>2, <1>4, AnswerLocals DEF Accepted
  <2> QED
    BY <1>1, <1>3, <2>1 DEF Holds, Accepted
<1>5. CASE ret # None
  <2>1. sess'[s].client.key = sess[s].key
    BY <1>2, <1>5, AnswerLocals
  <2>2. k = sess[s].key
    BY <1>1, <1>3, <2>1 DEF Holds, Accepted
  <2> QED
    BY <1>2, <1>5, <2>2, GrantedWasVacant DEF HolderInv
<1> QED
  BY <1>4, <1>5

\* CHECK: the entry that was taken out is the client of the session.
LEMMA NewByCheck ==
  ASSUME TypeOK, NEW s \in Sessions, HandleCheck(s)
  PROVE  NobodyNew
<1> USE NoneIsNothing DEF TypeOK, ServerTypeOK
<1> DEFINE id == outbox[s].arg
           entry == currentClients[id]
<1>1. id \in Tracked /\ \A i \in Tracked' : i \in Tracked /\ currentClients'[i] = currentClients[i]
  BY DEF HandleCheck, Names, Tracked
<1>2. \E answer, client : Answer(s, answer, client) /\ client \in {None, entry}
  BY DEF HandleCheck
<1>3. /\ \A t \in Sessions : t # s => sess'[t] = sess[t]
      /\ sess'[s].client \in {None, entry}
  BY <1>2, AnswerLocals
<1> QED
  BY <1>1, <1>3 DEF NobodyNew, Holds, Accepted

\* RELEASE: nothing is added.
LEMMA NewByRelease ==
  ASSUME TypeOK, NEW s \in Sessions, HandleRelease(s)
  PROVE  NobodyNew
<1> USE NoneIsNothing DEF TypeOK, ServerTypeOK
<1>1. \A i \in Tracked' : i \in Tracked /\ currentClients'[i] = currentClients[i]
  BY DEF HandleRelease, Names, Tracked
<1>2. \E answer : Answer(s, answer, None)
  BY DEF HandleRelease
<1>3. \A t \in Sessions : Accepted(t)' => t # s /\ sess'[t] = sess[t]
  BY <1>2, AnswerLocals DEF Accepted
<1> QED
  BY <1>1, <1>3 DEF NobodyNew, Holds, Accepted

\* The answer is written: the session's client becomes the entry.
LEMMA NewByReply ==
  ASSUME TypeOK, NEW s \in Sessions, Reply(s)
  PROVE  NobodyNew
<1> USE NoneIsNothing DEF TypeOK, ServerTypeOK
<1>1. /\ \A t \in Sessions : Accepted(t)' => t # s /\ sess'[t] = sess[t]
      /\ sess[s] \in SessionRecord
  BY DEF Reply, End, IdleSession, Accepted
<1>2. CASE sess[s].client = None
  BY <1>1, <1>2 DEF Reply, NobodyNew, Holds, Accepted, Tracked
<1>3. CASE sess[s].client # None
  <2>1. [sess[s].client EXCEPT !.stale = FALSE].key = sess[s].client.key
    BY <1>1, <1>3 DEF SessionRecord, ClientRecord
  <2>2. \A i \in Tracked' : \/ i \in Tracked /\ currentClients'[i] = currentClients[i]
                            \/ currentClients'[i] = [sess[s].client EXCEPT !.stale = FALSE]
    BY <1>3 DEF Reply, Tracked
  <2> QED
    BY <1>1, <1>3, <2>1, <2>2 DEF NobodyNew, Holds, Accepted
<1> QED
  BY <1>2, <1>3

\* Every step of a session, and the offer of an id.
LEMMA NewBySession ==
  ASSUME TypeOK, DialogueInv, HolderInv, "lostreply" \notin Faults,
         NEW s \in Sessions, SessionStep(s) \/ OfferAnyId(s),
         NEW k \in Keys, Holds(k)', ~Holds(k)
  PROVE  Vacant(k)
<1>1. CASE HandleRequest(s)
  BY <1>1, NewByRequest
<1>2. CASE HandleCheck(s) \/ HandleRelease(s) \/ Reply(s)
  BY <1>2, NewByCheck, NewByRelease, NewByReply DEF NobodyNew
<1>3. CASE \/ ReadKey(s) \/ FindUser(s) \/ Watch(s) \/ OfferAnyId(s) \/ HandleUnknown(s)
           \/ ReadKeyFails(s) \/ RefuseKey(s) \/ ExchangeFails(s) \/ ReplyFails(s)
  <2> USE DEF TypeOK, ServerTypeOK
  <2>1. /\ UNCHANGED currentClients
        /\ \A t \in Sessions : t # s => sess'[t] = sess[t]
    BY <1>3
    DEF ReadKey, FindUser, Watch, OfferAnyId, OfferId, HandleUnknown, ReadKeyFails, RefuseKey,
        ExchangeFails, ReplyFails, Answer, End
  <2>2. sess'[s].client \in {sess[s].client, None}
    BY <1>3
    DEF ReadKey, FindUser, Watch, OfferAnyId, OfferId, HandleUnknown, ReadKeyFails, RefuseKey,
        ExchangeFails, ReplyFails, Answer, End, IdleSession, SessionRecord
  <2> QED
    BY <2>1, <2>2 DEF Holds, Accepted, Tracked
<1> QED
  BY <1>1, <1>2, <1>3 DEF SessionStep

\* A reaper only erases entries.
LEMMA NewByReaper ==
  ASSUME TypeOK, NEW r \in Reapers, ReaperStep(r) \/ TakeTurn(r)
  PROVE  NobodyNew
<1> USE NoneIsNothing DEF TypeOK, ServerTypeOK
<1>1. UNCHANGED sess
  BY DEF ReaperStep, TakeTurn, StartReaper, LoopTest, Drain, FinishSweep, Sweep
<1>2. \A i \in Tracked' : i \in Tracked /\ currentClients'[i].key = currentClients[i].key
  <2>1. CASE Sweep(r)
    <3>1. \A i \in Tracked : [currentClients[i] EXCEPT !.for_deleting = TRUE].key = currentClients[i].key
      BY DEF Tracked, ClientRecord
    <3> QED
      BY <2>1, <3>1 DEF Sweep, Tracked, Stale
  <2>2. CASE Drain(r)
    BY <2>2 DEF Drain, Tracked
  <2>3. CASE StartReaper(r) \/ LoopTest(r) \/ FinishSweep(r)
    BY <2>3 DEF StartReaper, LoopTest, FinishSweep, Tracked
  <2> QED
    BY <2>1, <2>2, <2>3 DEF ReaperStep, TakeTurn
<1> QED
  BY <1>1, <1>2 DEF NobodyNew, Holds, Accepted

\* The clock, the clients, the start and the end of the process, the tables.
LEMMA NewElsewhere ==
  ASSUME TypeOK,
         \/ \E id \in TempIds : Age(id)
         \/ \E c \in Clients : DialogueStep(c)
         \/ Recover \/ Environment \/ Tables \/ UNCHANGED vars
  PROVE  NobodyNew
<1> USE NoneIsNothing DEF TypeOK, ServerTypeOK
<1>1. CASE UNCHANGED <<currentClients, sess>>
  BY <1>1 DEF NobodyNew, Holds, Accepted, Tracked
<1>2. ASSUME NEW id \in TempIds, Age(id)
      PROVE  NobodyNew
  <2>1. [currentClients[id] EXCEPT !.stale = TRUE].key = currentClients[id].key
    BY <1>2 DEF Age, Tracked, ClientRecord
  <2> QED
    BY <1>2, <2>1 DEF Age, NobodyNew, Holds, Accepted, Tracked
<1>3. CASE Die
  BY <1>3 DEF Die, IdleSession, NobodyNew, Holds, Accepted, Tracked
<1>4. ASSUME NEW c \in Clients, NEW s \in Sessions, Accept(c, s)
      PROVE  NobodyNew
  <2>1. UNCHANGED currentClients /\ \A t \in Sessions : sess'[t].client = sess[t].client
    BY <1>4 DEF Accept, SessionRecord
  <2> QED
    BY <2>1 DEF NobodyNew, Holds, Accepted, Tracked
<1>5. CASE \/ Recover \/ Tables \/ UNCHANGED vars \/ StartAnother
           \/ \E c \in Clients : DialogueStep(c)
           \/ \E c \in Clients : (Start(c) \/ Vanish(c) \/ NetworkReset(c)) /\ UNCHANGED <<serverVars, dbVars>>
           \/ \E c \in Clients : NotAccepted(c)
  BY <1>1, <1>5
  DEF Recover, Restart, Tables, vars, serverVars, DialogueStep, NotAccepted, StartAnother
<1> QED
  BY <1>2, <1>3, <1>4, <1>5 DEF Environment, Crash, FindUserFails

-----------------------------------------------------------------------------
\* Every step of the system is a step of KeyLease, or leaves what it sees unchanged.
LEMMA StepIsLeaseStep ==
  ASSUME TypeOK, DialogueInv, HolderInv, TypeOK', DialogueInv', HolderInv',
         "lostreply" \notin Faults, [Next]_vars
  PROVE  Lease!LeaseNext
<1>1. \A k \in Keys : Holds(k)' /\ ~Holds(k) => Vacant(k)
  BY NewBySession, NewByReaper, NewElsewhere DEF Next, NobodyNew
<1>2. MappedRight /\ MappedRight'
  BY MappingIsRight, PTL
<1>3. \A k \in Keys : Vacant(k)' \in BOOLEAN
  BY DEF Vacant
<1> QED
  BY <1>1, <1>2, <1>3
  DEF MappedRight, Lease!LeaseNext, Lease!LeaseTypeOK, Lease!Begin, Lease!Renew, Lease!Finish, Lease!Unleased

\* The service implements the lease of its keys (main.cpp:373-443, 178-207).
THEOREM SystemImplementsLease ==
  ASSUME FreshIds, "lostreply" \notin Faults, "another" \notin Changes, "revive" \notin Changes
  PROVE  Spec => KeyLeaseKept
<1>1. Init => Lease!LeaseInit
  BY DEF Init, DBInit, ServerInit, Lease!LeaseInit, LeasedTo, Vacant, Tracked, Accepted, IdleSession
<1>2. /\ TypeOK /\ DialogueInv /\ HolderInv
      /\ TypeOK' /\ DialogueInv' /\ HolderInv' /\ [Next]_vars
      => [Lease!LeaseNext]_Lease!leaseVars
  BY StepIsLeaseStep
<1> QED
  BY <1>1, <1>2, TypeCorrect, DialogueInStep, HeldIsReserved, PTL
  DEF Spec, KeyLeaseKept, Lease!LeaseSpec
=============================================================================
