------------------------- MODULE LicenseAdminProofs -------------------------
(***************************************************************************)
(* Theorems about issuing and deleting.                                    *)
(***************************************************************************)
EXTENDS LicenseAdmin, FiniteSetTheorems, TLAPS

USE AdminAssumption, RowsAssumption

-----------------------------------------------------------------------------
(***************************************************************************)
(* Types.                                                                  *)
(***************************************************************************)

\* Keys are added to a license that is being inserted (Alex_K_DB.sql:1085-1100).
LEMMA KeysTyped ==
  ASSUME AdminTypeOK, NEW l \in Licenses, AddToKeys(l)
  PROVE  keys' \in [Licenses -> Nat] /\ \A i \in Licenses : i # l => keys'[i] = keys[i]
BY DEF AdminTypeOK, AddToKeys

\* An inserted license is typed and there, and leaves the other rows alone.
LEMMA LicenseTyped ==
  ASSUME AdminTypeOK, NEW l \in Licenses, NEW u \in Users, NEW o \in Orders, AddToLicense(l, u, o)
  PROVE  /\ license' \in [Licenses -> LicenseRow \cup {None}]
         /\ license'[l] = [user |-> u, order |-> o, status |-> "new", gone |-> FALSE]
         /\ license'[l] # None
         /\ \A i \in Licenses : i # l => license'[i] = license[i]
<1>1. [user |-> u, order |-> o, status |-> "new", gone |-> FALSE] \in LicenseRow
  BY DEF LicenseRow
<1> QED
  BY <1>1 DEF AdminTypeOK, AddToLicense

\* A change of a row that is there.
LEMMA RowTyped ==
  ASSUME AdminTypeOK, NEW l \in Licenses, license[l] # None,
         Activate(l) \/ Expire(l) \/ MonthPasses(l)
  PROVE  /\ license' \in [Licenses -> LicenseRow \cup {None}]
         /\ license'[l] # None
         /\ license'[l].user = license[l].user /\ license'[l].order = license[l].order
         /\ \A i \in Licenses : i # l => license'[i] = license[i]
         /\ UNCHANGED <<user, order, keys, call, event, missed>>
<1> DEFINE Same(row) == row.user = license[l].user /\ row.order = license[l].order
<1>1. license[l] \in LicenseRow
  BY DEF AdminTypeOK
<1>2. \A st \in {"active", "expired"} :
        LET row == [license[l] EXCEPT !.status = st] IN row \in LicenseRow /\ Same(row)
  BY <1>1 DEF LicenseRow
<1>3. LET row == [license[l] EXCEPT !.gone = TRUE] IN row \in LicenseRow /\ Same(row)
  BY <1>1 DEF LicenseRow
<1> HIDE DEF Same
<1>4. PICK row \in LicenseRow : license' = [license EXCEPT ![l] = row] /\ Same(row)
  <2>1. CASE Activate(l)
    BY <1>2, <2>1 DEF Activate
  <2>2. CASE Expire(l)
    BY <1>2, <2>2 DEF Expire
  <2>3. CASE MonthPasses(l)
    BY <1>3, <2>3 DEF MonthPasses
  <2> QED
    BY <2>1, <2>2, <2>3
<1>5. UNCHANGED <<user, order, keys, call, event, missed>>
  BY DEF Activate, Expire, MonthPasses
<1> QED
  BY <1>4, <1>5 DEF AdminTypeOK, Same

\* A renewal keeps the user and the order of the license (Alex_K_DB.sql:1476-1487).
LEMMA RenewalTyped ==
  ASSUME AdminTypeOK, EndLicenseRenewal
  PROVE  /\ license' \in [Licenses -> LicenseRow \cup {None}]
         /\ \A l \in Licenses : (license'[l] = None) <=> (license[l] = None)
         /\ \A l \in Licenses : license[l] # None =>
              license'[l].user = license[l].user /\ license'[l].order = license[l].order
         /\ order' \in [Orders -> Users \cup {None}]
         /\ \A o \in Orders : order[o] # None => order'[o] = order[o]
         /\ event = "idle" \/ ~EventInOneGo
         /\ call' = None /\ UNCHANGED <<user, keys, event, missed>>
<1>1. PICK l \in Licenses, u \in Users : call.l = l /\ call.u = u
  BY DEF AdminTypeOK, EndLicenseRenewal, Running, Calls
<1> DEFINE row == [license[l] EXCEPT !.status = "extended", !.gone = FALSE]
<1>2. license[l] # None => /\ row \in LicenseRow
                           /\ row.user = license[l].user /\ row.order = license[l].order
  <2>1. license[l] # None => license[l] \in LicenseRow
    BY DEF AdminTypeOK
  <2> QED
    BY <2>1 DEF LicenseRow
<1>3. license' = license \/ (license[l] # None /\ license' = [license EXCEPT ![l] = row])
  BY <1>1 DEF EndLicenseRenewal, LicensesOf
<1> HIDE DEF row
<1>4. order' = order \/ \E o \in FreeOrders : order' = [order EXCEPT ![o] = u]
  BY <1>1 DEF EndLicenseRenewal, AddToOrder
<1>5. /\ call' = None /\ UNCHANGED <<user, keys, event, missed>>
      /\ event = "idle" \/ ~EventInOneGo
  BY DEF EndLicenseRenewal, Undisturbed
<1>6. /\ order' \in [Orders -> Users \cup {None}]
      /\ \A o \in Orders : order[o] # None => order'[o] = order[o]
  BY <1>4 DEF AdminTypeOK, FreeOrders
<1> QED
  BY <1>2, <1>3, <1>5, <1>6 DEF AdminTypeOK

LEMMA CountTyped ==
  ASSUME AdminTypeOK, NEW u \in Users, NEW n \in 0..MaxCount
  PROVE  /\ WithCount(u, n) \in [Users -> UserRow \cup {None}]
         /\ \A v \in Users : (WithCount(u, n)[v] = None) <=> (user[v] = None)
         /\ \A v \in Users : v # u => WithCount(u, n)[v] = user[v]
         /\ user[u] # None => WithCount(u, n)[u].count = n
<1>1. UserWith(n) \in UserRow /\ UserWith(n).count = n
  BY DEF UserRow, UserWith
<1> QED
  BY <1>1 DEF AdminTypeOK, WithCount

LEMMA CascadeTyped ==
  ASSUME AdminTypeOK, NEW D, Cascade(D)
  PROVE  /\ license' \in [Licenses -> LicenseRow \cup {None}]
         /\ keys' \in [Licenses -> Nat]
         /\ \A l \in Licenses : license'[l] = None => keys'[l] = 0
         /\ \A l \in Licenses : license'[l] = IF l \in D THEN None ELSE license[l]
BY DEF AdminTypeOK, Cascade

-----------------------------------------------------------------------------
(***************************************************************************)
(* What the foreign keys and the order of a license keep together.         *)
(***************************************************************************)
UsersThere == \A l \in Licenses : license[l] # None => user[license[l].user] # None

OrdersOwn ==
  ~ForeignOrders =>
    \A l \in Licenses : license[l] # None => order[license[l].order] = license[l].user

\* the user a call of DeleteUser is going to delete has no license that lives
DoomedUser ==
  Running("DeleteUser") => \A l \in LicensesOf(call.u) : license[l].status = "expired"

AdminInv == AdminTypeOK /\ UsersThere /\ OrdersOwn /\ DoomedUser

\* A license is inserted: its user is there, and its order is his.
LEMMA InvOfInsert ==
  ASSUME AdminInv, NEW u \in Users, NEW o \in Orders, NEW l \in FreeLicenses,
         AddToLicense(l, u, o), AddToKeys(l),
         user' \in [Users -> UserRow \cup {None}], user'[u] # None,
         \A v \in Users : user[v] # None => user'[v] # None,
         order' \in [Orders -> Users \cup {None}], ~ForeignOrders => order'[o] = u,
         \A i \in Orders : order[i] # None => order'[i] = order[i],
         missed' \in [Users -> 0..MaxMissed], call' = None, event' = event
  PROVE  AdminInv'
<1>1. l \in Licenses /\ license[l] = None
  BY DEF FreeLicenses
<1>2. /\ license' \in [Licenses -> LicenseRow \cup {None}]
      /\ license'[l].user = u /\ license'[l].order = o /\ license'[l] # None
      /\ \A i \in Licenses : i # l => license'[i] = license[i]
  <2>1. AdminTypeOK
    BY DEF AdminInv
  <2>2. /\ license' \in [Licenses -> LicenseRow \cup {None}] /\ license'[l] # None
        /\ license'[l] = [user |-> u, order |-> o, status |-> "new", gone |-> FALSE]
        /\ \A i \in Licenses : i # l => license'[i] = license[i]
    BY <1>1, <2>1, LicenseTyped
  <2> QED
    BY <2>2
<1>3. keys' \in [Licenses -> Nat] /\ \A i \in Licenses : i # l => keys'[i] = keys[i]
  BY <1>1, KeysTyped DEF AdminInv
<1>4. AdminTypeOK'
  BY <1>2, <1>3 DEF AdminInv, AdminTypeOK
<1>5. UsersThere'
  BY <1>2 DEF AdminInv, AdminTypeOK, LicenseRow, UsersThere
<1>6. OrdersOwn'
  <2> SUFFICES ASSUME ~ForeignOrders, NEW i \in Licenses, license'[i] # None
               PROVE  order'[license'[i].order] = license'[i].user
    BY DEF OrdersOwn
  <2>1. CASE i # l
    BY <1>2, <2>1 DEF AdminInv, AdminTypeOK, LicenseRow, OrdersOwn
  <2> QED
    BY <1>2, <2>1
<1> QED
  BY <1>4, <1>5, <1>6 DEF AdminInv, DoomedUser, Running

\* Licenses stay as they are, or change their status; no user or order goes.
LEMMA InvOfChange ==
  ASSUME AdminInv,
         user' \in [Users -> UserRow \cup {None}],
         \A v \in Users : user[v] # None => user'[v] # None,
         order' \in [Orders -> Users \cup {None}],
         \A i \in Orders : order[i] # None => order'[i] = order[i],
         license' \in [Licenses -> LicenseRow \cup {None}],
         \A l \in Licenses : (license'[l] = None) <=> (license[l] = None),
         \A l \in Licenses : license[l] # None =>
           license'[l].user = license[l].user /\ license'[l].order = license[l].order,
         keys' = keys, missed' \in [Users -> 0..MaxMissed],
         event' \in {"idle", "counted"}, call' \in Calls \cup {None}, DoomedUser'
  PROVE  AdminInv'
<1>1. AdminTypeOK'
  BY DEF AdminInv, AdminTypeOK
<1>2. UsersThere'
  BY DEF AdminInv, AdminTypeOK, LicenseRow, UsersThere
<1>3. OrdersOwn'
  BY DEF AdminInv, AdminTypeOK, LicenseRow, OrdersOwn
<1> QED
  BY <1>1, <1>2, <1>3 DEF AdminInv

\* Licenses go, with the user and the orders they refer to or before them.
LEMMA InvOfDelete ==
  ASSUME AdminInv, NEW D, Cascade(D),
         user' \in [Users -> UserRow \cup {None}], order' \in [Orders -> Users \cup {None}],
         \A l \in Licenses \ D : license[l] # None =>
           /\ user'[license[l].user] # None
           /\ order'[license[l].order] = order[license[l].order],
         missed' = missed, event' \in {"idle", "counted"}, call' = None \/ call' = call
  PROVE  AdminInv'
<1>1. /\ license' \in [Licenses -> LicenseRow \cup {None}] /\ keys' \in [Licenses -> Nat]
      /\ \A l \in Licenses : license'[l] = None => keys'[l] = 0
      /\ \A l \in Licenses : license'[l] = IF l \in D THEN None ELSE license[l]
  BY CascadeTyped DEF AdminInv
<1>2. AdminTypeOK'
  BY <1>1 DEF AdminInv, AdminTypeOK
<1>3. UsersThere' /\ OrdersOwn'
  BY <1>1 DEF AdminInv, UsersThere, OrdersOwn
<1>4. DoomedUser'
  BY <1>1 DEF AdminInv, DoomedUser, Running, LicensesOf
<1> QED
  BY <1>2, <1>3, <1>4 DEF AdminInv

\* A call begins: it has read what it needs.
LEMMA InvOfBegin ==
  ASSUME AdminInv, NEW c \in Calls, Begin(c),
         c.fn = "DeleteUser" => \A l \in LicensesOf(c.u) : license[l].status = "expired"
  PROVE  AdminInv'
<1>1. DoomedUser'
  BY DEF Begin, DoomedUser, Running, LicensesOf
<1> QED
  BY <1>1, InvOfChange DEF AdminInv, AdminTypeOK, Begin

\* The functions that issue licenses (Alex_K_DB.sql:1013-1103, 1506-1673).
LEMMA InvOfIssue ==
  ASSUME AdminInv,
         \/ \E u \in Users : AddNew(u)
         \/ EndNewLicenseForUser
         \/ \E u \in Users, o \in Orders : NewLicenseToOrderFor(u, o)
  PROVE  AdminInv'
<1> USE DEF AdminInv, AdminTypeOK
<1>1. \A u \in Users, o \in Orders : AddToOrder(u, o) /\ o \in FreeOrders =>
        /\ order' \in [Orders -> Users \cup {None}] /\ order'[o] = u
        /\ \A i \in Orders : order[i] # None => order'[i] = order[i]
  BY DEF AddToOrder, FreeOrders
<1>2. call' = None /\ DoomedUser'
  BY DEF AddNew, EndNewLicenseForUser, NewLicenseToOrderFor, DoomedUser, Running
<1>3. ASSUME NEW u \in Users, AddNew(u)
      PROVE  AdminInv'
  <2>1. /\ UserWith(0) \in UserRow /\ UserWith(1) \in UserRow
        /\ missed' \in [Users -> 0..MaxMissed]
    <3>1. UserWith(0) \in UserRow /\ UserWith(1) \in UserRow
      BY DEF UserWith, UserRow
    <3>2. missed' = [missed EXCEPT ![u] = 0] /\ 0 \in 0..MaxMissed
      BY <1>3 DEF AddNew
    <3> QED
      BY <3>1, <3>2
  <2>2. /\ user' \in [Users -> UserRow \cup {None}] /\ user'[u] # None
        /\ \A v \in Users : user[v] # None => user'[v] # None
    BY <1>3, <2>1 DEF AddNew
  <2>3. CASE UNCHANGED <<license, keys>>
    BY <1>1, <1>2, <1>3, <2>1, <2>2, <2>3, InvOfChange DEF AddNew, FreeOrders
  <2> QED
    BY <1>1, <1>2, <1>3, <2>1, <2>2, <2>3, InvOfInsert DEF AddNew, FreeOrders
<1>4. CASE EndNewLicenseForUser
  <2>1. PICK u \in Users, n \in 0..MaxCount : EndNewLicense(u, n)
    BY <1>4 DEF EndNewLicenseForUser, Running, Calls
  <2>2. UNCHANGED <<event, missed>>
    BY <1>4 DEF EndNewLicenseForUser
  <2>3. CASE UNCHANGED <<license, keys>> /\ user' = user
    BY <1>1, <1>2, <2>1, <2>2, <2>3, InvOfChange DEF EndNewLicense, FreeOrders
  <2>4. ASSUME NEW o \in FreeOrders, NEW l \in FreeLicenses, user[u] # None, n < MaxCount,
               AddToOrder(u, o), AddToLicense(l, u, o), AddToKeys(l), user' = WithCount(u, n + 1)
        PROVE  AdminInv'
    <3>1. n + 1 \in 0..MaxCount
      BY <2>4
    <3>2. /\ user' \in [Users -> UserRow \cup {None}]
          /\ \A v \in Users : user'[v] = None <=> user[v] = None
      BY <2>4, <3>1, CountTyped
    <3> QED
      BY <1>1, <1>2, <2>2, <2>4, <3>2, InvOfInsert DEF FreeOrders
  <2> QED
    BY <2>1, <2>3, <2>4 DEF EndNewLicense
<1>5. ASSUME NEW u \in Users, NEW o \in Orders, NewLicenseToOrderFor(u, o)
      PROVE  AdminInv'
  <2>1. missed[u] + 1 \in 0..MaxMissed
    BY <1>5 DEF NewLicenseToOrderFor
  <2>2. PICK l \in FreeLicenses : AddToLicense(l, u, o) /\ AddToKeys(l)
    BY <1>5 DEF NewLicenseToOrderFor
  <2>3. /\ missed' \in [Users -> 0..MaxMissed]
        /\ UNCHANGED <<user, order, event>> /\ user[u] # None
        /\ ~ForeignOrders => order[o] = u
    BY <1>5, <2>1 DEF NewLicenseToOrderFor
  <2> QED
    BY <1>2, <2>2, <2>3, InvOfInsert
<1> QED
  BY <1>3, <1>4, <1>5

\* The functions and events that delete (Alex_K_DB.sql:909-944, 1349-1402, 1741-1766).
LEMMA InvOfDeletion ==
  ASSUME AdminInv,
         \/ EndRemoveLicense \/ EndDeleteUser \/ DeleteExpired
         \/ \E u \in Users : DeleteNotActiveUser(u)
  PROVE  AdminInv'
<1> USE DEF AdminInv, AdminTypeOK
<1>1. CASE EndRemoveLicense
  <2>1. call.u \in Users /\ call.l \in Licenses /\ call.count \in 0..MaxCount
    BY <1>1 DEF EndRemoveLicense, Running, Calls
  <2>2. /\ user' \in [Users -> UserRow \cup {None}]
        /\ \A v \in Users : user'[v] = None <=> user[v] = None
    <3>1. CASE call.count > 0
      <4>1. call.count - 1 \in 0..MaxCount
        BY <2>1, <3>1
      <4> QED
        BY <1>1, <2>1, <3>1, <4>1, CountTyped DEF EndRemoveLicense
    <3> QED
      BY <1>1, <2>1, <3>1 DEF EndRemoveLicense
  <2>3. \A l \in Licenses : license[l] # None =>
          user'[license[l].user] # None /\ order'[license[l].order] = order[license[l].order]
    BY <1>1, <2>2 DEF EndRemoveLicense, UsersThere, LicenseRow
  <2>4. /\ Cascade({call.l} \cap LicensesOf(call.u)) /\ call' = None
        /\ UNCHANGED <<order, event, missed>>
    BY <1>1 DEF EndRemoveLicense
  <2> QED
    BY <2>2, <2>3, <2>4, InvOfDelete
<1>2. ASSUME NEW u \in Users, DeleteRow(u), UNCHANGED <<event, missed>>,
             call' = None \/ call' = call
      PROVE  AdminInv'
  <2> DEFINE D == LicensesOf(u) \cup
                    {l \in Licenses : license[l] # None /\ order[license[l].order] = u}
  <2>1. /\ user' \in [Users -> UserRow \cup {None}] /\ order' \in [Orders -> Users \cup {None}]
        /\ Cascade(D)
        /\ \A v \in Users : v # u => user'[v] = user[v]
        /\ \A o \in Orders : order[o] # u => order'[o] = order[o]
    BY <1>2 DEF DeleteRow
  <2>2. \A l \in Licenses \ D : license[l] # None =>
          /\ user'[license[l].user] # None
          /\ order'[license[l].order] = order[license[l].order]
    BY <2>1 DEF UsersThere, LicensesOf, LicenseRow
  <2> HIDE DEF D
  <2> QED
    BY <1>2, <2>1, <2>2, InvOfDelete
<1>3. CASE EndDeleteUser
  <2>1. call.u \in Users
    BY <1>3 DEF EndDeleteUser, Running, Calls
  <2> QED
    BY <1>2, <1>3, <2>1 DEF EndDeleteUser
<1>4. CASE DeleteExpired
  BY <1>4, InvOfDelete DEF DeleteExpired, UsersThere
<1> QED
  BY <1>1, <1>2, <1>3, <1>4 DEF DeleteNotActiveUser

\* The calls that begin, and everything that changes one row in place.
LEMMA InvOfRest ==
  ASSUME AdminInv,
         \/ \E u \in Users : CallNewLicenseForUser(u) \/ CallDeleteUser(u) \/ UserIdles(u)
         \/ \E l \in Licenses : \/ CallLicenseRenewal(l) \/ CallRemoveLicense(l)
                                \/ CallDeleteLicense(l)
                                \/ Activate(l) \/ Expire(l) \/ MonthPasses(l)
         \/ EndLicenseRenewal
         \/ CountExpired
         \/ UNCHANGED adminVars
  PROVE  AdminInv'
<1> USE DEF AdminInv, AdminTypeOK
<1>1. ASSUME NEW u \in Users, CallNewLicenseForUser(u)
      PROVE  AdminInv'
  <2>1. [fn |-> "NewLicense", u |-> u, count |-> user[u].count] \in Calls
    BY <1>1 DEF CallNewLicenseForUser, UserRow, Calls
  <2> QED
    BY <1>1, <2>1, InvOfBegin DEF CallNewLicenseForUser
<1>2. ASSUME NEW u \in Users, CallDeleteUser(u)
      PROVE  AdminInv'
  <2>1. [fn |-> "DeleteUser", u |-> u] \in Calls
    BY DEF Calls
  <2>2. \A l \in LicensesOf(u) : license[l].status = "expired"
    BY <1>2 DEF CallDeleteUser, LicensesOf, LicenseRow
  <2> QED
    BY <1>2, <2>1, <2>2, InvOfBegin DEF CallDeleteUser
<1>3. ASSUME NEW l \in Licenses, CallRemoveLicense(l)
      PROVE  AdminInv'
  <2>1. license[l].user \in Users /\ user[license[l].user] \in UserRow
    BY <1>3 DEF CallRemoveLicense, UsersThere, LicenseRow
  <2>2. [fn |-> "RemoveLicense", l |-> l, u |-> license[l].user,
         count |-> user[license[l].user].count] \in Calls
    BY <2>1 DEF UserRow, Calls
  <2> QED
    BY <1>3, <2>2, InvOfBegin DEF CallRemoveLicense
<1>4. ASSUME NEW l \in Licenses,
             Activate(l) \/ Expire(l) \/ MonthPasses(l)
      PROVE  AdminInv'
  <2>1. license[l] # None
    BY <1>4 DEF Activate, Expire, MonthPasses
  <2>2. /\ license' \in [Licenses -> LicenseRow \cup {None}]
        /\ license'[l] # None
        /\ license'[l].user = license[l].user /\ license'[l].order = license[l].order
        /\ \A i \in Licenses : i # l => license'[i] = license[i]
        /\ UNCHANGED <<user, order, keys, call, event, missed>>
    BY <1>4, <2>1, RowTyped
  <2>3. DoomedUser'
    <3> SUFFICES ASSUME Running("DeleteUser"), NEW i \in Licenses,
                        license'[i] # None, license'[i].user = call.u
                 PROVE  license'[i].status = "expired"
      BY <2>2 DEF DoomedUser, LicensesOf, Running
    <3>1. license[i] # None /\ license[i].user = call.u /\ license[i].status = "expired"
      BY <2>1, <2>2 DEF DoomedUser, LicensesOf
    <3>2. i = l => MonthPasses(l)
      BY <1>4, <3>1 DEF Activate, Expire
    <3>3. CASE i = l
      <4>1. license[l] \in LicenseRow
        BY <2>1
      <4>2. license' = [license EXCEPT ![l] = [license[l] EXCEPT !.gone = TRUE]]
        BY <3>2, <3>3 DEF MonthPasses
      <4>3. [license[l] EXCEPT !.gone = TRUE].status = license[l].status
        BY <4>1 DEF LicenseRow
      <4> QED
        BY <3>1, <3>3, <4>2, <4>3
    <3> QED
      BY <2>2, <3>1, <3>3
  <2> QED
    BY <2>1, <2>2, <2>3, InvOfChange
<1>5. CASE (\E u \in Users : UserIdles(u)) \/ CountExpired \/ UNCHANGED adminVars
  <2>1. UNCHANGED <<order, license, keys, call, missed>> /\ event' \in {"idle", "counted"}
    BY <1>5 DEF UserIdles, CountExpired, adminVars
  <2>2. /\ user' \in [Users -> UserRow \cup {None}]
        /\ \A v \in Users : user[v] # None => user'[v] # None
    <3>1. ASSUME NEW u \in Users, UserIdles(u)
          PROVE  user' \in [Users -> UserRow \cup {None}] /\ user'[u] # None
      <4>1. [user[u] EXCEPT !.idle = TRUE] \in UserRow
        <5>1. user[u] \in UserRow
          BY <3>1 DEF UserIdles
        <5> QED
          BY <5>1 DEF UserRow
      <4>2. user' = [user EXCEPT ![u] = [user[u] EXCEPT !.idle = TRUE]]
        BY <3>1 DEF UserIdles
      <4> QED
        BY <4>1, <4>2
    <3>2. CASE \E u \in Users : UserIdles(u)
      BY <3>1, <3>2 DEF UserIdles
    <3>3. CASE CountExpired
      <4>1. \A u \in Users : user[u] # None /\ user[u].count > 0 => UserWith(user[u].count - 1) \in UserRow
        BY DEF UserWith, UserRow
      <4> QED
        BY <3>3, <4>1 DEF CountExpired
    <3>4. CASE UNCHANGED adminVars
      BY <3>4 DEF adminVars
    <3> QED
      BY <1>5, <3>2, <3>3, <3>4
  <2>3. DoomedUser'
    BY <2>1 DEF DoomedUser, Running, LicensesOf
  <2> QED
    BY <2>1, <2>2, <2>3, InvOfChange
<1>6. ASSUME NEW l \in Licenses, CallLicenseRenewal(l)
      PROVE  AdminInv'
  <2>1. license[l].user \in Users /\ (license[l].status = "expired") \in BOOLEAN
    BY <1>6 DEF CallLicenseRenewal, LicenseRow
  <2>2. [fn |-> "LicenseRenewal", l |-> l, u |-> license[l].user,
         expired |-> license[l].status = "expired"] \in Calls
    BY <2>1 DEF Calls
  <2> QED
    BY <1>6, <2>2, InvOfBegin DEF CallLicenseRenewal
<1>7. CASE EndLicenseRenewal
  <2>1. DoomedUser'
    BY <1>7, RenewalTyped DEF DoomedUser, Running
  <2> QED
    BY <1>7, <2>1, RenewalTyped, InvOfChange
<1> QED
  BY <1>1, <1>2, <1>3, <1>4, <1>5, <1>6, <1>7 DEF CallDeleteLicense

LEMMA InvOfStep == AdminInv /\ [AdminNext]_adminVars => AdminInv'
BY InvOfIssue, InvOfDeletion, InvOfRest DEF AdminNext

\* Every row has its type, keys belong to licenses that are there, and a license
\* to a user who is (Alex_K_DB.sql:49-60, 304-319).
THEOREM AdminInvariant == AdminSpec => []AdminInv
<1>1. AdminInit => AdminInv
  BY DEF AdminInit, AdminInv, AdminTypeOK, UsersThere, OrdersOwn, DoomedUser, Running
<1> QED
  BY <1>1, InvOfStep, PTL DEF AdminSpec

THEOREM AdminTypes == AdminSpec => []AdminTypeOK
<1>1. AdminInv => AdminTypeOK
  BY DEF AdminInv
<1> QED
  BY <1>1, AdminInvariant, PTL

\* A license that has not expired goes only by RemoveLicense naming it, when an order
\* is given licenses of its own user only (Alex_K_DB.sql:1387-1396, 941-942).
THEOREM LiveLicensesKept ==
  ASSUME ~ForeignOrders
  PROVE  AdminSpec => LiveLicenseKept
<1> DEFINE Keeps == \A l \in Licenses :
             license[l] # None /\ license[l].status # "expired" /\ license'[l] = None =>
               Running("RemoveLicense") /\ call.l = l
<1>1. ASSUME AdminInv, [AdminNext]_adminVars
      PROVE  [Keeps]_adminVars
  <2> USE DEF AdminInv, AdminTypeOK
  <2>1. CASE \E u \in Users : DeleteNotActiveUser(u)
    BY <1>1, <2>1 DEF DeleteNotActiveUser, DeleteRow, Cascade, OrdersOwn, LicensesOf
  <2>2. CASE EndDeleteUser
    BY <1>1, <2>2 DEF EndDeleteUser, DeleteRow, Cascade, OrdersOwn, LicensesOf, DoomedUser
  <2>3. CASE EndRemoveLicense
    BY <1>1, <2>3 DEF EndRemoveLicense, Cascade
  <2>4. CASE DeleteExpired
    BY <1>1, <2>4 DEF DeleteExpired, Cascade, Gone
  <2>5. ASSUME NEW l \in Licenses, NEW u \in Users, NEW o \in Orders,
               AddToLicense(l, u, o), NEW i \in Licenses, license[i] # None
        PROVE  license'[i] # None
    <3>1. AdminTypeOK
      BY <1>1
    <3> QED
      BY <2>5, <3>1, LicenseTyped
  <2>6. CASE \/ \E u \in Users : AddNew(u)
             \/ EndNewLicenseForUser
             \/ \E u \in Users, o \in Orders : NewLicenseToOrderFor(u, o)
    <3>1. CASE EndNewLicenseForUser
      <4>1. PICK u \in Users, n \in 0..MaxCount : EndNewLicense(u, n)
        BY <1>1, <3>1 DEF EndNewLicenseForUser, Running, Calls
      <4> QED
        BY <2>5, <4>1 DEF EndNewLicense, FreeOrders, FreeLicenses
    <3>2. CASE \E u \in Users : AddNew(u)
      BY <2>5, <3>2 DEF AddNew, FreeOrders, FreeLicenses
    <3>3. CASE \E u \in Users, o \in Orders : NewLicenseToOrderFor(u, o)
      BY <2>5, <3>3 DEF NewLicenseToOrderFor, FreeLicenses
    <3> QED
      BY <2>6, <3>1, <3>2, <3>3
  <2>7. ASSUME NEW l \in Licenses,
               Activate(l) \/ Expire(l) \/ MonthPasses(l)
        PROVE  \A i \in Licenses : license[i] # None => license'[i] # None
    <3>1. AdminTypeOK /\ license[l] # None
      BY <1>1, <2>7 DEF Activate, Expire, MonthPasses
    <3> QED
      BY <2>7, <3>1, RowTyped
  <2>8. CASE \/ \E u \in Users : CallNewLicenseForUser(u) \/ CallDeleteUser(u) \/ UserIdles(u)
             \/ \E l \in Licenses : \/ CallLicenseRenewal(l) \/ CallRemoveLicense(l)
                                    \/ CallDeleteLicense(l)
             \/ CountExpired
             \/ UNCHANGED adminVars
    BY <2>8
    DEF CallNewLicenseForUser, CallDeleteUser, UserIdles, CallLicenseRenewal, CallRemoveLicense,
        CallDeleteLicense, CountExpired, Begin, adminVars
  <2>9. CASE EndLicenseRenewal
    <3>1. AdminTypeOK
      BY <1>1
    <3>2. \A l \in Licenses : license'[l] = None <=> license[l] = None
      BY <2>9, <3>1, RenewalTyped
    <3> QED
      BY <3>2
  <2> QED
    BY <1>1, <2>1, <2>2, <2>3, <2>4, <2>6, <2>7, <2>8, <2>9 DEF AdminNext
<1> QED
  BY <1>1, AdminInvariant, PTL DEF AdminSpec, LiveLicenseKept
-----------------------------------------------------------------------------
(***************************************************************************)
(* user_licenses_caunte, when nothing comes between the two statements of  *)
(* the event.                                                              *)
(***************************************************************************)
LEMMA RowsFinite ==
  ASSUME NEW S \in SUBSET Licenses
  PROVE  /\ IsFiniteSet(S) /\ Cardinality(S) \in Nat
         /\ \A T \in SUBSET S : Cardinality(T) <= Cardinality(S)
         /\ \A l \in S : Cardinality(S \ {l}) = Cardinality(S) - 1
         /\ \A l : l \notin S => Cardinality(S \cup {l}) = Cardinality(S) + 1
<1>1. IsFiniteSet(S)
  BY FS_Subset
<1> QED
  BY <1>1, FS_Subset, FS_CardinalityType, FS_RemoveElement, FS_AddElement

LEMMA StayingSubset ==
  \A u : LicensesOf(u) \in SUBSET Licenses /\ Staying(u) \in SUBSET LicensesOf(u)
BY DEF LicensesOf, Staying

\* No user gets a license, no count and no call changes.
LEMMA CountOfLess ==
  ASSUME AdminInv, CountsCover,
         \A u \in Users : user'[u] # None =>
           /\ user[u] # None /\ user'[u].count = user[u].count
           /\ Staying(u)' \in SUBSET Staying(u),
         \A u \in Users : LicensesOf(u)' \in SUBSET LicensesOf(u),
         missed' = missed,
         call' = None \/ call' = call \/ call'.fn \in {"DeleteUser", "LicenseRenewal"}
  PROVE  CountsCover'
<1> USE DEF AdminInv, AdminTypeOK
<1>1. ASSUME NEW u \in Users, user'[u] # None
      PROVE  Cardinality(Staying(u)') <= user'[u].count + missed'[u]
  <2>1. /\ Cardinality(Staying(u)') \in Nat
        /\ Cardinality(Staying(u)') <= Cardinality(Staying(u))
        /\ Cardinality(Staying(u)) \in Nat
    BY <1>1, RowsFinite, StayingSubset
  <2>2. user'[u].count \in Nat /\ missed'[u] \in Nat
    BY <1>1 DEF UserRow
  <2>3. Cardinality(Staying(u)) <= user'[u].count + missed'[u]
    BY <1>1 DEF CountsCover
  <2> QED
    BY <2>1, <2>2, <2>3
<1>2. ASSUME Running("NewLicense")', (user[call.u])' # None
      PROVE  (user[call.u].count <= call.count)'
  <2>1. call' = call /\ Running("NewLicense") /\ call.u \in Users
    BY <1>2 DEF Running, Calls
  <2> QED
    BY <1>2, <2>1 DEF CountsCover
<1>3. ASSUME Running("RemoveLicense")'
      PROVE  (Cardinality(LicensesOf(call.u) \ {call.l}) < call.count + missed[call.u])'
  <2>1. /\ call' = call /\ Running("RemoveLicense")
        /\ call.u \in Users /\ call.count \in Nat /\ missed[call.u] \in Nat
    BY <1>3 DEF Running, Calls
  <2> DEFINE S == LicensesOf(call.u) \ {call.l}
             T == (LicensesOf(call.u) \ {call.l})'
  <2>2. T \in SUBSET S /\ S \in SUBSET Licenses
    BY <2>1 DEF LicensesOf
  <2>3. Cardinality(S) < call.count + missed[call.u]
    BY <2>1 DEF CountsCover
  <2> HIDE DEF S, T
  <2>4. Cardinality(T) <= Cardinality(S) /\ Cardinality(T) \in Nat /\ Cardinality(S) \in Nat
    BY <2>2, RowsFinite
  <2>5. Cardinality(T) < (call.count + missed[call.u])'
    BY <2>1, <2>3, <2>4
  <2> QED
    BY <2>5 DEF T
<1> QED
  BY <1>1, <1>2, <1>3 DEF CountsCover

\* One user gets one license, and his count or what it misses goes up.
LEMMA CountOfInsert ==
  ASSUME AdminInv, CountsCover, event = "idle", event' = "idle", call' = None,
         NEW u \in Users, NEW o \in Orders, NEW l \in FreeLicenses, AddToLicense(l, u, o),
         user'[u] # None, user'[u].count \in Nat, missed'[u] \in Nat,
         Cardinality(LicensesOf(u)) + 1 <= user'[u].count + missed'[u],
         \A v \in Users : v # u => user'[v] = user[v] /\ missed'[v] = missed[v]
  PROVE  CountsCover'
<1>1. AdminTypeOK /\ l \in Licenses /\ license[l] = None
  BY DEF AdminInv, FreeLicenses
<1>2. /\ license'[l] = [user |-> u, order |-> o, status |-> "new", gone |-> FALSE]
      /\ license'[l] # None
      /\ \A i \in Licenses : i # l => license'[i] = license[i]
  BY <1>1, LicenseTyped
<1>3. LicensesOf(u)' = LicensesOf(u) \cup {l} /\ l \notin LicensesOf(u)
  BY <1>1, <1>2 DEF LicensesOf
<1>4. Cardinality(LicensesOf(u)') <= user'[u].count + missed'[u]
  BY <1>3, RowsFinite, StayingSubset
<1>5. \A v \in Users : v # u => LicensesOf(v)' = LicensesOf(v)
  BY <1>1, <1>2 DEF LicensesOf
<1>6. \A v \in Users : user'[v] # None => Cardinality(Staying(v)') <= user'[v].count + missed'[v]
  BY <1>4, <1>5 DEF Staying, CountsCover
<1> QED
  BY <1>6 DEF CountsCover, Running

\* AddNew, the end of NewLicenseForUser, NewLicenseToOrderFor
\* (Alex_K_DB.sql:1013-1103, 1506-1673).
LEMMA CountOfIssue ==
  ASSUME AdminInv, CountsCover, EventInOneGo,
         \/ \E u \in Users : AddNew(u)
         \/ EndNewLicenseForUser
         \/ \E u \in Users, o \in Orders : NewLicenseToOrderFor(u, o)
  PROVE  CountsCover'
<1> USE DEF AdminInv, AdminTypeOK
<1>1. event = "idle" /\ event' = "idle" /\ call' = None
  BY DEF AddNew, EndNewLicenseForUser, NewLicenseToOrderFor, Undisturbed
<1>2. ASSUME NEW u \in Users, AddNew(u)
      PROVE  CountsCover'
  <2>1. LicensesOf(u) = {} /\ Cardinality({}) = 0
    BY <1>2, FS_EmptySet DEF AddNew, UsersThere, LicensesOf
  <2>2. /\ missed'[u] = 0 /\ \A v \in Users : v # u => missed'[v] = missed[v]
        /\ \A v \in Users : v # u => user'[v] = user[v]
        /\ user'[u] \in {UserWith(0), UserWith(1)} /\ user'[u] # None
    <3>1. UserWith(0) \in UserRow /\ UserWith(1) \in UserRow
      BY DEF UserWith, UserRow
    <3>2. user'[u] \in {UserWith(0), UserWith(1)} /\ \A v \in Users : v # u => user'[v] = user[v]
      BY <1>2 DEF AddNew
    <3>3. missed' = [missed EXCEPT ![u] = 0]
      BY <1>2 DEF AddNew
    <3> QED
      BY <3>1, <3>2, <3>3
  <2>3. CASE UNCHANGED license
    <3>1. \A v \in Users : Staying(v)' = LicensesOf(v) /\ Staying(v) = LicensesOf(v)
      BY <1>1, <2>3 DEF Staying, LicensesOf
    <3>2. UserWith(0).count = 0 /\ UserWith(1).count = 1
      BY DEF UserWith
    <3>3. Cardinality(Staying(u)') <= user'[u].count + missed'[u]
      <4>1. Staying(u)' = {}
        BY <2>1, <3>1
      <4>2. user'[u].count \in {0, 1} /\ missed'[u] = 0
        BY <2>2, <3>2
      <4> QED
        BY <2>1, <4>1, <4>2
    <3>4. \A v \in Users : v # u /\ user'[v] # None =>
            Cardinality(Staying(v)') <= user'[v].count + missed'[v]
      BY <2>2, <3>1 DEF CountsCover
    <3> QED
      BY <1>1, <3>3, <3>4 DEF CountsCover, Running
  <2>4. ASSUME NEW o \in FreeOrders, NEW l \in FreeLicenses, AddToLicense(l, u, o),
               user' = [user EXCEPT ![u] = UserWith(1)]
        PROVE  CountsCover'
    <3>1. user'[u].count = 1
      BY <2>4 DEF UserWith
    <3>2. Cardinality(LicensesOf(u)) + 1 <= user'[u].count + missed'[u]
      BY <2>1, <2>2, <3>1
    <3>3. /\ o \in Orders /\ user'[u].count \in Nat /\ missed'[u] \in Nat
          /\ \A v \in Users : v # u => user'[v] = user[v] /\ missed'[v] = missed[v]
      BY <2>2, <2>4, <3>1 DEF FreeOrders
    <3> QED
      BY <1>1, <2>2, <2>4, <3>2, <3>3, CountOfInsert
  <2> QED
    BY <1>2, <2>3, <2>4 DEF AddNew
<1>3. CASE EndNewLicenseForUser
  <2> DEFINE u == call.u
             n == call.count
  <2>1. /\ u \in Users /\ n \in 0..MaxCount /\ Running("NewLicense") /\ EndNewLicense(u, n)
        /\ missed' = missed
    BY <1>3 DEF EndNewLicenseForUser, Running, Calls
  <2>2. CASE UNCHANGED <<user, license>>
    BY <1>1, <2>1, <2>2, CountOfLess DEF Staying, LicensesOf, Gone
  <2>3. ASSUME NEW o \in FreeOrders, NEW l \in FreeLicenses, user[u] # None, n < MaxCount,
               AddToLicense(l, u, o), user' = WithCount(u, n + 1)
        PROVE  CountsCover'
    <3>1. n + 1 \in 0..MaxCount
      BY <2>1, <2>3
    <3>2. /\ user'[u] # None /\ user'[u].count = n + 1
          /\ \A v \in Users : v # u => user'[v] = user[v]
      BY <2>1, <2>3, <3>1, CountTyped
    <3>3. Cardinality(LicensesOf(u)) <= user[u].count + missed[u] /\ user[u].count <= n
      BY <1>1, <2>1, <2>3 DEF CountsCover, Staying
    <3>4. Cardinality(LicensesOf(u)) \in Nat /\ user[u].count \in Nat /\ missed[u] \in Nat
      BY <2>1, <2>3, RowsFinite, StayingSubset DEF UserRow
    <3>5. Cardinality(LicensesOf(u)) + 1 <= user'[u].count + missed'[u]
      BY <2>1, <3>2, <3>3, <3>4
    <3> HIDE DEF u, n
    <3> QED
      BY <1>1, <2>1, <2>3, <3>1, <3>2, <3>4, <3>5, CountOfInsert DEF FreeOrders
  <2> QED
    BY <2>1, <2>2, <2>3 DEF EndNewLicense
<1>4. ASSUME NEW u \in Users, NEW o \in Orders, NewLicenseToOrderFor(u, o)
      PROVE  CountsCover'
  <2>1. PICK l \in FreeLicenses : AddToLicense(l, u, o)
    BY <1>4 DEF NewLicenseToOrderFor
  <2>2. /\ missed' = [missed EXCEPT ![u] = @ + 1] /\ user' = user /\ user[u] # None
        /\ missed[u] \in Nat /\ user[u].count \in Nat /\ Cardinality(LicensesOf(u)) \in Nat
    BY <1>4, RowsFinite, StayingSubset DEF NewLicenseToOrderFor, UserRow
  <2>3. Cardinality(LicensesOf(u)) <= user[u].count + missed[u]
    BY <1>1, <2>2 DEF CountsCover, Staying
  <2>4. Cardinality(LicensesOf(u)) + 1 <= user'[u].count + missed'[u]
    BY <2>2, <2>3
  <2> QED
    BY <1>1, <2>1, <2>2, <2>4, CountOfInsert
<1> QED
  BY <1>2, <1>3, <1>4

\* What only takes licenses away, or changes them in place (Alex_K_DB.sql:918-944,
\* 1375-1402, 1461-1490).
LEMMA CountOfRest ==
  ASSUME AdminInv, CountsCover, EventInOneGo,
         \/ \E u \in Users : UserIdles(u) \/ DeleteNotActiveUser(u) \/ CallDeleteUser(u)
         \/ \E l \in Licenses : \/ CallLicenseRenewal(l)
                                \/ Activate(l) \/ Expire(l) \/ MonthPasses(l)
         \/ EndLicenseRenewal \/ EndDeleteUser \/ DeleteExpired \/ UNCHANGED adminVars
  PROVE  CountsCover'
<1> USE DEF AdminInv, AdminTypeOK
<1>1. ASSUME NEW u \in Users, DeleteRow(u), UNCHANGED <<event, missed>>,
             call' = None \/ call' = call
      PROVE  CountsCover'
  <2>1. \A l \in Licenses : license'[l] = None \/ license'[l] = license[l]
    BY <1>1 DEF DeleteRow, Cascade
  <2>2. \A v \in Users : user'[v] # None => user[v] # None /\ user'[v].count = user[v].count
    BY <1>1 DEF DeleteRow
  <2>3. \A v \in Users : /\ LicensesOf(v)' \in SUBSET LicensesOf(v)
                         /\ Staying(v)' \in SUBSET Staying(v)
    BY <1>1, <2>1 DEF LicensesOf, Staying, Gone
  <2> QED
    BY <1>1, <2>2, <2>3, CountOfLess
<1>2. CASE EndDeleteUser
  <2>1. call.u \in Users
    BY <1>2 DEF EndDeleteUser, Running, Calls
  <2> QED
    BY <1>1, <1>2, <2>1 DEF EndDeleteUser
<1>3. CASE DeleteExpired
  <2>1. \A v \in Users : /\ LicensesOf(v)' \in SUBSET LicensesOf(v)
                         /\ Staying(v)' \in SUBSET Staying(v)
    BY <1>3 DEF DeleteExpired, Cascade, LicensesOf, Staying, Gone
  <2> QED
    BY <1>3, <2>1, CountOfLess DEF DeleteExpired
<1>4. ASSUME NEW l \in Licenses, Activate(l) \/ Expire(l) \/ MonthPasses(l)
      PROVE  CountsCover'
  <2>1. license[l] # None
    BY <1>4 DEF Activate, Expire, MonthPasses
  <2>2. /\ license'[l] # None /\ license'[l].user = license[l].user
        /\ \A i \in Licenses : i # l => license'[i] = license[i]
        /\ UNCHANGED <<user, order, keys, call, event, missed>>
    BY <1>4, <2>1, RowTyped
  <2>3. \A v \in Users : LicensesOf(v)' = LicensesOf(v)
    BY <2>1, <2>2 DEF LicensesOf
  <2>4. event # "idle" /\ l \in Gone => l \in Gone'
    <3> SUFFICES ASSUME event # "idle", l \in Gone
                 PROVE  l \in Gone'
      OBVIOUS
    <3>1. MonthPasses(l)
      BY <1>4 DEF Activate, Expire, Gone
    <3> QED
      BY <3>1 DEF MonthPasses, Gone
  <2>5. \A v \in Users : Staying(v)' \in SUBSET Staying(v)
    BY <2>2, <2>3, <2>4 DEF Staying, Gone
  <2> QED
    BY <2>2, <2>3, <2>5, CountOfLess
<1>5. CASE \/ \E u \in Users : UserIdles(u) \/ CallDeleteUser(u)
           \/ \E l \in Licenses : CallLicenseRenewal(l)
           \/ UNCHANGED adminVars
  <2>1. UNCHANGED <<license, event, missed>>
    BY <1>5 DEF UserIdles, CallDeleteUser, CallLicenseRenewal, Begin, adminVars
  <2>2. call' = call \/ call'.fn \in {"DeleteUser", "LicenseRenewal"}
    BY <1>5 DEF UserIdles, CallDeleteUser, CallLicenseRenewal, Begin, adminVars
  <2>3. \A v \in Users : user'[v] # None => user[v] # None /\ user'[v].count = user[v].count
    <3>1. ASSUME NEW u \in Users, UserIdles(u)
          PROVE  user'[u].count = user[u].count /\ \A v \in Users : v # u => user'[v] = user[v]
      <4>1. user[u] \in UserRow
        BY <3>1 DEF UserIdles
      <4>2. [user[u] EXCEPT !.idle = TRUE].count = user[u].count
        BY <4>1 DEF UserRow
      <4>3. user' = [user EXCEPT ![u] = [user[u] EXCEPT !.idle = TRUE]]
        BY <3>1 DEF UserIdles
      <4> QED
        BY <4>2, <4>3
    <3>2. CASE \E u \in Users : UserIdles(u)
      BY <3>1, <3>2 DEF UserIdles
    <3>3. CASE user' = user
      BY <3>3
    <3> QED
      BY <1>5, <3>2, <3>3 DEF CallDeleteUser, CallLicenseRenewal, Begin, adminVars
  <2>4. \A v \in Users : LicensesOf(v)' = LicensesOf(v) /\ Staying(v)' = Staying(v)
    BY <2>1 DEF LicensesOf, Staying, Gone
  <2> QED
    BY <2>1, <2>2, <2>3, <2>4, CountOfLess
<1>6. CASE EndLicenseRenewal
  <2>1. \A v \in Users : LicensesOf(v)' = LicensesOf(v)
    BY <1>6, RenewalTyped DEF LicensesOf
  <2>2. event = "idle" /\ event' = "idle"
    BY <1>6, RenewalTyped
  <2>3. \A v \in Users : Staying(v)' \in SUBSET Staying(v)
    BY <2>1, <2>2 DEF Staying
  <2> QED
    BY <1>6, <2>1, <2>3, RenewalTyped, CountOfLess
<1> QED
  BY <1>1, <1>2, <1>3, <1>4, <1>5, <1>6 DEF DeleteNotActiveUser

\* NewLicenseForUser and RemoveLicense read the count (Alex_K_DB.sql:1243, 1759).
LEMMA CountOfBegin ==
  ASSUME AdminInv, CountsCover, EventInOneGo,
         \/ \E u \in Users : CallNewLicenseForUser(u)
         \/ \E l \in Licenses : CallRemoveLicense(l) \/ CallDeleteLicense(l)
  PROVE  CountsCover'
<1> USE DEF AdminInv, AdminTypeOK
<1>1. event = "idle" /\ UNCHANGED <<user, license, event, missed>>
  BY DEF CallNewLicenseForUser, CallRemoveLicense, CallDeleteLicense, Begin, Undisturbed
<1>2. \A v \in Users : /\ LicensesOf(v)' = LicensesOf(v) /\ Staying(v)' = Staying(v)
                       /\ Staying(v) = LicensesOf(v)
  BY <1>1 DEF LicensesOf, Staying
<1>3. \A v \in Users : user'[v] # None => Cardinality(Staying(v)') <= user'[v].count + missed'[v]
  BY <1>1, <1>2 DEF CountsCover
<1>4. ASSUME NEW u \in Users, CallNewLicenseForUser(u)
      PROVE  CountsCover'
  <2>1. call' = [fn |-> "NewLicense", u |-> u, count |-> user[u].count] /\ user[u] \in UserRow
    BY <1>4 DEF CallNewLicenseForUser, Begin
  <2>2. user'[call'.u].count <= call'.count
    BY <1>1, <2>1 DEF UserRow
  <2> QED
    BY <1>3, <2>1, <2>2 DEF CountsCover, Running
<1>5. ASSUME NEW l \in Licenses, CallRemoveLicense(l)
      PROVE  CountsCover'
  <2> DEFINE u == license[l].user
  <2>1. u \in Users /\ user[u] # None /\ user[u] \in UserRow /\ l \in LicensesOf(u)
    BY <1>5 DEF CallRemoveLicense, UsersThere, LicenseRow, LicensesOf
  <2>2. call' = [fn |-> "RemoveLicense", l |-> l, u |-> u, count |-> user[u].count]
    BY <1>5 DEF CallRemoveLicense, Begin
  <2>3. Cardinality(LicensesOf(u)) <= user[u].count + missed[u]
    BY <1>2, <2>1 DEF CountsCover
  <2> HIDE DEF u
  <2>4. Cardinality(LicensesOf(u) \ {l}) < user[u].count + missed[u]
    <3>1. /\ Cardinality(LicensesOf(u) \ {l}) = Cardinality(LicensesOf(u)) - 1
          /\ Cardinality(LicensesOf(u)) \in Nat /\ user[u].count \in Nat /\ missed[u] \in Nat
      BY <2>1, RowsFinite, StayingSubset DEF UserRow
    <3> QED
      BY <2>3, <3>1
  <2>5. LicensesOf(call.u)' = LicensesOf(u)
    BY <1>1, <2>2 DEF LicensesOf
  <2>6. (Cardinality(LicensesOf(call.u) \ {call.l}) < call.count + missed[call.u])'
    <3>1. (LicensesOf(call.u) \ {call.l})' = LicensesOf(u) \ {l}
      BY <2>2, <2>5
    <3>2. (call.count)' = user[u].count /\ (missed[call.u])' = missed[u]
      BY <1>1, <2>2
    <3> QED
      BY <2>4, <3>1, <3>2
  <2> QED
    BY <1>3, <2>2, <2>6 DEF CountsCover, Running
<1> QED
  BY <1>4, <1>5 DEF CallDeleteLicense

\* A license goes by RemoveLicense or DeleteLicense, and the count read before with
\* it (Alex_K_DB.sql:1759-1762).
LEMMA CountOfRemove ==
  ASSUME AdminInv, CountsCover, EventInOneGo, EndRemoveLicense
  PROVE  CountsCover'
<1> USE DEF AdminInv, AdminTypeOK
<1>1. PICK u \in Users, n \in 0..MaxCount, l \in Licenses :
        /\ call.u = u /\ call.count = n /\ call.l = l
        /\ event = "idle" /\ event' = "idle" /\ missed' = missed /\ call' = None
        /\ Running("RemoveLicense")
        /\ Cascade({l} \cap LicensesOf(u))
        /\ user' = IF n > 0 THEN WithCount(u, n - 1) ELSE user
  BY DEF EndRemoveLicense, Undisturbed, Running, Calls
<1>2. \A i \in Licenses :
        license'[i] = IF i \in {l} \cap LicensesOf(u) THEN None ELSE license[i]
  BY <1>1, CascadeTyped
<1>3. \A v \in Users : {i \in Licenses : license'[i] # None /\ license'[i].user = v} =
        IF v = u THEN LicensesOf(v) \ {l} ELSE LicensesOf(v)
  BY <1>2 DEF LicensesOf
<1>4. \A v \in Users : /\ Staying(v)' = IF v = u THEN LicensesOf(v) \ {l} ELSE LicensesOf(v)
                       /\ Staying(v) = LicensesOf(v)
  BY <1>1, <1>3 DEF Staying, LicensesOf
<1>5. Cardinality(LicensesOf(u) \ {l}) < n + missed[u]
  BY <1>1 DEF CountsCover
<1>6. ASSUME NEW v \in Users, v # u, user'[v] # None
      PROVE  Cardinality(Staying(v)') <= user'[v].count + missed'[v]
  <2>1. user'[v] = user[v]
    <3>1. CASE n > 0
      <4>1. n - 1 \in 0..MaxCount
        BY <1>1, <3>1
      <4> QED
        BY <1>1, <1>6, <3>1, <4>1, CountTyped
    <3> QED
      BY <1>1, <3>1
  <2> QED
    BY <1>1, <1>4, <1>6, <2>1 DEF CountsCover
<1>7. ASSUME user'[u] # None
      PROVE  Cardinality(Staying(u)') <= user'[u].count + missed'[u]
  <2>1. Staying(u)' = LicensesOf(u) \ {l} /\ missed'[u] = missed[u]
    BY <1>1, <1>4
  <2>2. /\ Cardinality(LicensesOf(u) \ {l}) \in Nat /\ Cardinality(LicensesOf(u)) \in Nat
        /\ Cardinality(LicensesOf(u) \ {l}) <= Cardinality(LicensesOf(u))
        /\ missed[u] \in Nat
    BY <1>1, RowsFinite, StayingSubset
  <2>3. CASE n > 0
    <3>1. n - 1 \in 0..MaxCount
      BY <1>1, <2>3
    <3>2. user'[u].count = n - 1
      BY <1>1, <1>7, <2>3, <3>1, CountTyped
    <3>3. n \in Nat
      BY <1>1
    <3> QED
      BY <1>5, <2>1, <2>2, <3>1, <3>2, <3>3
  <2>4. CASE ~(n > 0)
    <3>1. user'[u] = user[u] /\ user[u].count \in Nat
      BY <1>1, <1>7, <2>4 DEF UserRow
    <3>2. Cardinality(LicensesOf(u)) <= user[u].count + missed[u]
      BY <1>1, <1>4, <1>7, <3>1 DEF CountsCover
    <3> QED
      BY <2>1, <2>2, <3>1, <3>2
  <2> QED
    BY <2>3, <2>4
<1>8. \A v \in Users : user'[v] # None => Cardinality(Staying(v)') <= user'[v].count + missed'[v]
  BY <1>6, <1>7
<1> QED
  BY <1>1, <1>8 DEF CountsCover, Running

\* The first statement of the event (Alex_K_DB.sql:913-916).
LEMMA CountOfEvent ==
  ASSUME AdminInv, CountsCover, CountExpired
  PROVE  CountsCover'
<1> USE DEF AdminInv, AdminTypeOK
<1>1. /\ event = "idle" /\ event' = "counted" /\ UNCHANGED <<license, call, missed>>
  BY DEF CountExpired
<1>2. \A v \in Users : /\ Staying(v)' = LicensesOf(v) \ Gone /\ Staying(v) = LicensesOf(v)
                       /\ LicensesOf(v)' = LicensesOf(v)
  BY <1>1 DEF Staying, LicensesOf, Gone
<1>3. ASSUME NEW v \in Users, user'[v] # None
      PROVE  /\ user[v] # None /\ user[v].count \in Nat /\ user'[v].count \in Nat
             /\ user'[v].count <= user[v].count
             /\ user'[v].count = IF user[v].count > 0 /\ Gone \cap LicensesOf(v) # {}
                                 THEN user[v].count - 1 ELSE user[v].count
  <2>1. user'[v] = IF user[v] # None /\ user[v].count > 0 /\ Gone \cap LicensesOf(v) # {}
                   THEN UserWith(user[v].count - 1) ELSE user[v]
    BY DEF CountExpired
  <2>2. user[v] # None /\ user[v].count \in Nat
    BY <1>3, <2>1 DEF UserRow
  <2> QED
    BY <2>1, <2>2 DEF UserWith
<1>4. ASSUME NEW v \in Users, user'[v] # None
      PROVE  Cardinality(Staying(v)') <= user'[v].count + missed'[v]
  <2>1. Cardinality(LicensesOf(v)) <= user[v].count + missed[v]
    BY <1>2, <1>3, <1>4 DEF CountsCover
  <2>2. /\ Cardinality(LicensesOf(v)) \in Nat /\ Cardinality(LicensesOf(v) \ Gone) \in Nat
        /\ Cardinality(LicensesOf(v) \ Gone) <= Cardinality(LicensesOf(v))
        /\ missed[v] \in Nat
    BY RowsFinite, StayingSubset
  <2>3. Staying(v)' = LicensesOf(v) \ Gone /\ missed'[v] = missed[v]
    BY <1>1, <1>2
  <2>4. CASE ~(user[v].count > 0 /\ Gone \cap LicensesOf(v) # {})
    <3>1. user'[v].count = user[v].count /\ user[v].count \in Nat
      BY <1>3, <1>4, <2>4
    <3> QED
      BY <2>3, <2>1, <2>2, <3>1
  <2>5. CASE user[v].count > 0 /\ Gone \cap LicensesOf(v) # {}
    <3>1. PICK l \in LicensesOf(v) : l \in Gone
      BY <2>5
    <3>2. LicensesOf(v) \ Gone \in SUBSET (LicensesOf(v) \ {l})
          /\ LicensesOf(v) \ {l} \in SUBSET Licenses
      BY <3>1, StayingSubset
    <3>3. /\ Cardinality(LicensesOf(v) \ Gone) <= Cardinality(LicensesOf(v) \ {l})
          /\ Cardinality(LicensesOf(v) \ {l}) = Cardinality(LicensesOf(v)) - 1
      BY <3>1, <3>2, RowsFinite, StayingSubset
    <3>4. user'[v].count = user[v].count - 1 /\ user[v].count \in Nat
      BY <1>3, <1>4, <2>5
    <3> QED
      BY <2>3, <2>1, <2>2, <3>3, <3>4
  <2> QED
    BY <2>4, <2>5
<1>5. ASSUME Running("NewLicense"), user'[call.u] # None
      PROVE  user'[call.u].count <= call.count
  <2>1. call.u \in Users /\ call.count \in Nat
    BY <1>5 DEF Running, Calls
  <2>2. user[call.u] # None /\ user[call.u].count <= call.count
    BY <1>3, <1>5, <2>1 DEF CountsCover
  <2> QED
    BY <1>3, <1>5, <2>1, <2>2
<1>6. ASSUME Running("RemoveLicense")
      PROVE  (Cardinality(LicensesOf(call.u) \ {call.l}) < call.count + missed[call.u])'
  <2>1. (LicensesOf(call.u) \ {call.l})' = LicensesOf(call.u) \ {call.l}
    BY <1>1 DEF LicensesOf
  <2> QED
    BY <1>1, <1>6, <2>1 DEF CountsCover
<1> QED
  BY <1>1, <1>4, <1>5, <1>6 DEF CountsCover, Running

\* Between two runs of the event a user's count says no fewer licenses than he has,
\* but for those of NewLicenseToOrderFor, when nothing comes between the event's two
\* statements (Alex_K_DB.sql:913-916, 1241-1253, 1759-1762).
THEOREM CountsRight ==
  ASSUME EventInOneGo
  PROVE  AdminSpec => []CountCoversRows
<1>1. AdminInit => CountsCover
  BY DEF AdminInit, CountsCover, Running
<1>2. AdminInv /\ CountsCover /\ [AdminNext]_adminVars => CountsCover'
  BY CountOfIssue, CountOfRest, CountOfBegin, CountOfRemove, CountOfEvent DEF AdminNext
<1>3. CountsCover => CountCoversRows
  BY DEF CountsCover, CountCoversRows, Staying
<1> QED
  BY <1>1, <1>2, <1>3, AdminInvariant, PTL DEF AdminSpec
=============================================================================
