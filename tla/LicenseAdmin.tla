---------------------------- MODULE LicenseAdmin ----------------------------
(***************************************************************************)
(* Issuing and deleting: the functions of Alex_K_DB.sql that an            *)
(* administrator calls, one at a time, and the scheduled events, over the  *)
(* tables `user`, `order`, `license` and `key_s`.                          *)
(*                                                                         *)
(* A call is one transaction at the default isolation, REPEATABLE READ:    *)
(* CallX is its first read, which fixes what its later reads show; EndX is *)
(* its writes, whose row locks are kept to the end.  In between an event   *)
(* may change the tables.  AddNew writes first, and NewLicenseToOrderFor   *)
(* has its reads checked again by the foreign keys: each is one action.    *)
(***************************************************************************)
EXTENDS Naturals, FiniteSets

CONSTANTS
  Users, Orders, Licenses,
  UsersNumbers,     \* values of p_UsersNumber
  MaxCount,         \* 127, the largest tinyint
  MaxMissed,        \* calls of NewLicenseToOrderFor per user (a bound)
  AdminFaults,      \* "insert": inserts may fail again and again
  ForeignOrders,    \* NewLicenseToOrderFor is called with another user's order
  EventInOneGo,     \* nothing comes between the statements of an event
  None

ASSUME AdminAssumption ==
  /\ IsFiniteSet(Licenses)
  /\ UsersNumbers \subseteq Nat
  /\ MaxCount \in Nat \ {0} /\ MaxMissed \in Nat
  /\ AdminFaults \subseteq {"insert"}
  /\ ForeignOrders \in BOOLEAN /\ EventInOneGo \in BOOLEAN

VARIABLES
  user,      \* rows of `user`
  order,     \* rows of `order`: order_user_id
  license,   \* rows of `license`
  keys,      \* how many rows of `key_s` a license has
  call,      \* the call under way
  event,     \* how far DeleteExpiredLicense is
  missed     \* licenses given to the user by NewLicenseToOrderFor (history)

adminVars == <<user, order, license, keys, call, event, missed>>

UserRow == [count : 0..MaxCount,   \* user_licenses_caunte
            idle : BOOLEAN]        \* user_change_date is a month ago

LicenseRow == [user : Users, order : Orders,
               status : {"new", "active", "extended", "expired"},
               gone : BOOLEAN]     \* expired for a month

Calls == [fn : {"NewLicense"}, u : Users, count : 0..MaxCount]
           \cup [fn : {"RemoveLicense"}, l : Licenses, u : Users, count : 0..MaxCount]
           \cup [fn : {"LicenseRenewal"}, l : Licenses, u : Users, expired : BOOLEAN]
           \cup [fn : {"DeleteUser"}, u : Users]

ASSUME RowsAssumption == None \notin Users \cup UserRow \cup LicenseRow \cup Calls

AdminTypeOK ==
  /\ user \in [Users -> UserRow \cup {None}]
  /\ order \in [Orders -> Users \cup {None}]
  /\ license \in [Licenses -> LicenseRow \cup {None}]
  /\ keys \in [Licenses -> Nat] /\ \A l \in Licenses : license[l] = None => keys[l] = 0
  /\ call \in Calls \cup {None}
  /\ event \in {"idle", "counted"}
  /\ missed \in [Users -> 0..MaxMissed]

AdminInit ==
  /\ user = [u \in Users |-> None]
  /\ order = [o \in Orders |-> None]
  /\ license = [l \in Licenses |-> None]
  /\ keys = [l \in Licenses |-> 0]
  /\ call = None
  /\ event = "idle"
  /\ missed = [u \in Users |-> 0]

LicensesOf(u) == {l \in Licenses : license[l] # None /\ license[l].user = u}

-----------------------------------------------------------------------------
(***************************************************************************)
(* The inserts, each tried again up to ten times (a key thirty times) when *)
(* it fails, whatever the reason.                                          *)
(***************************************************************************)
UserWith(n) == [count |-> n, idle |-> FALSE]

\* an insert fails every time: by a fault, or because no id is left here
Exhausted(free) == free = {} \/ "insert" \in AdminFaults

AddToOrder(u, o) == order' = [order EXCEPT ![o] = u]

AddToLicense(l, u, o) ==
  license' = [license EXCEPT ![l] = [user |-> u, order |-> o, status |-> "new", gone |-> FALSE]]

\* loop M3: a round for each user of the license and at least one; a round whose
\* inserts all fail leaves a key out
AddToKeys(l) ==
  \E n \in UsersNumbers :
    LET rounds == IF n = 0 THEN 1 ELSE n IN
    \E rows \in (IF "insert" \in AdminFaults THEN 0 ELSE rounds)..rounds :
      keys' = [keys EXCEPT ![l] = rows]

FreeOrders == {o \in Orders : order[o] = None}
FreeLicenses == {l \in Licenses : license[l] = None}

\* UPDATE user SET user_licenses_caunte = n; user_change_date follows a change
WithCount(u, n) ==
  IF user[u] = None \/ user[u].count = n THEN user
  ELSE [user EXCEPT ![u] = UserWith(n)]

-----------------------------------------------------------------------------
(***************************************************************************)
(* The functions.                                                          *)
(***************************************************************************)
\* no statement of a call comes between the two of the event
Undisturbed == EventInOneGo => event = "idle"

Running(fn) == call # None /\ call.fn = fn

Begin(c) ==
  /\ call = None /\ Undisturbed
  /\ call' = c
  /\ UNCHANGED <<user, order, license, keys, event, missed>>

(* AddNew: the user is new, so that nobody else sees him before the call   *)
(* has ended.  A failing order or license leaves what there is already.    *)
AddNew(u) ==
  /\ call = None /\ Undisturbed
  /\ user[u] = None
  /\ \/ /\ Exhausted(FreeOrders)
        /\ user' = [user EXCEPT ![u] = UserWith(0)]
        /\ UNCHANGED <<order, license, keys>>
     \/ \E o \in FreeOrders :
          /\ AddToOrder(u, o)
          /\ \/ /\ Exhausted(FreeLicenses)
                /\ user' = [user EXCEPT ![u] = UserWith(0)]
                /\ UNCHANGED <<license, keys>>
             \/ \E l \in FreeLicenses :
                  /\ AddToLicense(l, u, o)
                  /\ user' = [user EXCEPT ![u] = UserWith(1)]
                  /\ AddToKeys(l)
  /\ missed' = [missed EXCEPT ![u] = 0]
  /\ UNCHANGED <<call, event>>

CallNewLicenseForUser(u) ==
  user[u] # None /\ Begin([fn |-> "NewLicense", u |-> u, count |-> user[u].count])

\* Mutation: when counting fails the loop gives up and the license stays.
EndNewLicenseUncounted(u, snapshot) ==
  \/ Exhausted(FreeOrders) /\ UNCHANGED <<user, order, license, keys>>
  \/ \E o \in FreeOrders, l \in FreeLicenses :
       /\ user[u] # None
       /\ AddToOrder(u, o)
       /\ AddToLicense(l, u, o)
       /\ AddToKeys(l)
       /\ user' = IF snapshot < MaxCount THEN WithCount(u, snapshot + 1) ELSE user

(* The order, the license, its keys, the count.  When the count cannot be  *)
(* written (it is a tinyint) the retry uses t_iter_, which is not          *)
(* declared: the function fails and all of it is rolled back.  When the    *)
(* user is gone the order cannot be inserted.                              *)
EndNewLicense(u, snapshot) ==
  \/ /\ user[u] = None \/ Exhausted(FreeOrders) \/ snapshot = MaxCount
     /\ UNCHANGED <<user, order, license, keys>>
  \/ /\ user[u] # None
     /\ \E o \in FreeOrders :
          /\ AddToOrder(u, o)
          /\ \/ Exhausted(FreeLicenses) /\ UNCHANGED <<user, license, keys>>
             \/ \E l \in FreeLicenses :
                  /\ snapshot < MaxCount
                  /\ AddToLicense(l, u, o)
                  /\ AddToKeys(l)
                  /\ user' = WithCount(u, snapshot + 1)

EndNewLicenseForUser ==
  /\ Running("NewLicense") /\ Undisturbed
  /\ EndNewLicense(call.u, call.count)
  /\ call' = None
  /\ UNCHANGED <<event, missed>>

(* NewLicenseToOrderFor asks that the user and the order are there, not    *)
(* that the order is the user's, and does not count the license.           *)
NewLicenseToOrderFor(u, o) ==
  /\ call = None /\ Undisturbed
  /\ user[u] # None /\ order[o] # None
  /\ order[o] = u \/ ForeignOrders
  /\ missed[u] < MaxMissed
  /\ \E l \in FreeLicenses : AddToLicense(l, u, o) /\ AddToKeys(l)
  /\ missed' = [missed EXCEPT ![u] = @ + 1]
  /\ UNCHANGED <<user, order, call, event>>

CallLicenseRenewal(l) ==
  /\ license[l] # None
  /\ Begin([fn |-> "LicenseRenewal", l |-> l, u |-> license[l].user,
            expired |-> license[l].status = "expired"])

(* An expired license becomes extended, if it is still there; one that was *)
(* not gets more months.  The order has no retry and no handler: when it   *)
(* cannot be inserted the function fails and all of it is rolled back.     *)
EndLicenseRenewal ==
  /\ Running("LicenseRenewal") /\ Undisturbed
  /\ \/ /\ user[call.u] = None \/ Exhausted(FreeOrders)
        /\ UNCHANGED <<order, license>>
     \/ /\ user[call.u] # None
        /\ \E o \in FreeOrders : AddToOrder(call.u, o)
        /\ license' = IF call.expired /\ call.l \in LicensesOf(call.u)
                      THEN [license EXCEPT ![call.l] = [@ EXCEPT !.status = "extended", !.gone = FALSE]]
                      ELSE license
  /\ call' = None
  /\ UNCHANGED <<user, keys, event, missed>>

-----------------------------------------------------------------------------
\* Mutation: `key_s` has no ON DELETE CASCADE.
CascadeKeepsKeys(D) ==
  /\ license' = [l \in Licenses |-> IF l \in D THEN None ELSE license[l]]
  /\ UNCHANGED keys

\* the rows D of `license` go, and their keys with them
Cascade(D) ==
  /\ license' = [l \in Licenses |-> IF l \in D THEN None ELSE license[l]]
  /\ keys' = [l \in Licenses |-> IF l \in D THEN 0 ELSE keys[l]]

CallRemoveLicense(l) ==
  /\ license[l] # None
  /\ Begin([fn |-> "RemoveLicense", l |-> l, u |-> license[l].user,
            count |-> user[license[l].user].count])

\* the license goes, if it is still there, and the count read before it goes down
EndRemoveLicense ==
  /\ Running("RemoveLicense") /\ Undisturbed
  /\ Cascade({call.l} \cap LicensesOf(call.u))
  /\ user' = IF call.count > 0 THEN WithCount(call.u, call.count - 1) ELSE user
  /\ call' = None
  /\ UNCHANGED <<order, event, missed>>

\* DeleteLicense: for an expired license only
CallDeleteLicense(l) ==
  license[l] # None /\ license[l].status = "expired" /\ CallRemoveLicense(l)

\* the row of a user goes with his orders, their licenses and his licenses
DeleteRow(u) ==
  /\ user' = [user EXCEPT ![u] = None]
  /\ order' = [o \in Orders |-> IF order[o] = u THEN None ELSE order[o]]
  /\ Cascade(LicensesOf(u) \cup
             {l \in Licenses : license[l] # None /\ order[license[l].order] = u})

\* Mutation: a renewed license does not keep its user.
CallDeleteUserOfExtended(u) ==
  /\ user[u] # None
  /\ \A l \in LicensesOf(u) : license[l].status \notin {"new", "active"}
  /\ Begin([fn |-> "DeleteUser", u |-> u])

\* a user with a license that has not expired is not deleted
CallDeleteUser(u) ==
  /\ user[u] # None
  /\ \A l \in LicensesOf(u) : license[l].status \notin {"new", "active", "extended"}
  /\ Begin([fn |-> "DeleteUser", u |-> u])

EndDeleteUser ==
  /\ Running("DeleteUser") /\ Undisturbed
  /\ DeleteRow(call.u)
  /\ call' = None
  /\ UNCHANGED <<event, missed>>

-----------------------------------------------------------------------------
(***************************************************************************)
(* The clock, the clients and the events.                                  *)
(***************************************************************************)

\* a request activates a license; its time passes, and the month after that
Activate(l) ==
  /\ license[l] # None /\ license[l].status \in {"new", "extended"}
  /\ license' = [license EXCEPT ![l].status = "active"]
  /\ UNCHANGED <<user, order, keys, call, event, missed>>

Expire(l) ==
  /\ license[l] # None /\ license[l].status = "active"
  /\ license' = [license EXCEPT ![l].status = "expired"]
  /\ UNCHANGED <<user, order, keys, call, event, missed>>

MonthPasses(l) ==
  /\ license[l] # None /\ license[l].status = "expired" /\ ~license[l].gone
  /\ license' = [license EXCEPT ![l].gone = TRUE]
  /\ UNCHANGED <<user, order, keys, call, event, missed>>

UserIdles(u) ==
  /\ user[u] # None /\ ~user[u].idle
  /\ user' = [user EXCEPT ![u].idle = TRUE]
  /\ UNCHANGED <<order, license, keys, call, event, missed>>

Gone == {l \in Licenses : license[l] # None /\ license[l].status = "expired" /\ license[l].gone}

(* EVENT DeleteExpiredLicense, two statements.  The UPDATE over the join    *)
(* changes a row of `user` once, however many licenses it is joined to.     *)
CountExpired ==
  /\ event = "idle" /\ Gone # {}
  /\ user' = [u \in Users |->
       IF user[u] # None /\ user[u].count > 0 /\ Gone \cap LicensesOf(u) # {}
       THEN UserWith(user[u].count - 1) ELSE user[u]]
  /\ event' = "counted"
  /\ UNCHANGED <<order, license, keys, call, missed>>

DeleteExpired ==
  /\ event = "counted"
  /\ Cascade(Gone)
  /\ event' = "idle"
  /\ UNCHANGED <<user, order, call, missed>>

\* EVENT DeleteNotActiveUser: one statement, a user without a license for a month
DeleteNotActiveUser(u) ==
  /\ user[u] # None /\ user[u].idle /\ LicensesOf(u) = {}
  /\ DeleteRow(u)
  /\ UNCHANGED <<call, event, missed>>

AdminNext ==
  \/ \E u \in Users :
       \/ AddNew(u) \/ CallNewLicenseForUser(u) \/ CallDeleteUser(u)
       \/ UserIdles(u) \/ DeleteNotActiveUser(u)
  \/ \E u \in Users, o \in Orders : NewLicenseToOrderFor(u, o)
  \/ \E l \in Licenses :
       \/ CallLicenseRenewal(l) \/ CallRemoveLicense(l) \/ CallDeleteLicense(l)
       \/ Activate(l) \/ Expire(l) \/ MonthPasses(l)
  \/ EndNewLicenseForUser
  \/ EndLicenseRenewal
  \/ EndRemoveLicense
  \/ EndDeleteUser
  \/ CountExpired
  \/ DeleteExpired

AdminSpec == AdminInit /\ [][AdminNext]_adminVars

-----------------------------------------------------------------------------
\* Between two runs of the event user_licenses_caunte says no fewer licenses than
\* the user has, but for those that NewLicenseToOrderFor gave him
\* (Alex_K_DB.sql:913-916, 1241-1253, 1759-1762).
CountCoversRows ==
  event = "idle" =>
    \A u \in Users : user[u] # None =>
      Cardinality(LicensesOf(u)) <= user[u].count + missed[u]

\* the licenses of a user that the event has not counted out
Staying(u) == IF event = "idle" THEN LicensesOf(u) ELSE LicensesOf(u) \ Gone

\* The same at any time: between the two statements of the event the licenses that
\* are about to go are counted out already, and what a call has read is no less
\* than what it is going to change (Alex_K_DB.sql:1243, 1759).
CountsCover ==
  /\ \A u \in Users : user[u] # None => Cardinality(Staying(u)) <= user[u].count + missed[u]
  /\ Running("NewLicense") /\ user[call.u] # None => user[call.u].count <= call.count
  /\ Running("RemoveLicense") =>
       Cardinality(LicensesOf(call.u) \ {call.l}) < call.count + missed[call.u]

\* A license that has not expired goes only by RemoveLicense naming it: not with
\* its user, nor with the order it belongs to (Alex_K_DB.sql:1387-1396, 941-942).
LiveLicenseKept ==
  [][\A l \in Licenses :
       license[l] # None /\ license[l].status # "expired" /\ license'[l] = None =>
         Running("RemoveLicense") /\ call.l = l]_adminVars
=============================================================================
