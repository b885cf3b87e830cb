----------------------------- MODULE LicenseDB -----------------------------
(***************************************************************************)
(* The MySQL schema Alex_K_DB as the license server uses it: the rows of   *)
(* `license` and `key_s`, the trigger on key_s, the three functions the    *)
(* server calls through MySQLconnection::Select, the scheduled events and  *)
(* the administrative functions that change a license or a key while       *)
(* the server runs.                                                        *)
(*                                                                         *)
(* A stored function is one action.  Its return value is the parameter     *)
(* `ret`: a license for the positive integer, None for 0.  The columns the *)
(* properties do not tell apart (order, names, counts) are left out, and   *)
(* the dates are folded into `overdue`: launch date + duration < now.      *)
(***************************************************************************)
EXTENDS LicenseTypes

CONSTANTS
  IssuedKeys,    \* keys that have a row from the start, the others are unissued
  LapsedWrites   \* what the trigger's last UPDATE may do to a lapsed license

ASSUME DBAssumption ==
  /\ IssuedKeys \subseteq Keys
  /\ LapsedWrites # {} /\ LapsedWrites \subseteq {"cleared", "kept", "failed"}

VARIABLES
  license,       \* rows of `license`
  key_s          \* rows of `key_s`: no row, or the value of key_requested

dbVars == <<license, key_s>>

LicenseRow == [status: {"new", "active", "extended", "expired", "absent"},
               overdue: BOOLEAN]

KeyRow == {"unissued", "free", "requested", "deleted"}

DBTypeOK ==
  /\ license \in [Licenses -> LicenseRow]
  /\ key_s \in [Keys -> KeyRow]

DBInit ==
  /\ license = [l \in Licenses |-> [status |-> "new", overdue |-> FALSE]]
  /\ key_s = [k \in Keys |-> IF k \in IssuedKeys THEN "free" ELSE "unissued"]

HasRow(k) == key_s[k] \in {"free", "requested"}

\* count(*) of the rows with this key and this user is not 0
RowOfUser(u, k) == HasRow(k) /\ UserOf[k] = u

RowsOf(l) == {k \in Keys : HasRow(k) /\ LicenseOf[k] = l}

-----------------------------------------------------------------------------
(***************************************************************************)
(* UPDATE key_s SET key_requested = v on the rows S of license l, with the *)
(* trigger tr_up_key_b.  The first request of a new or extended license    *)
(* activates it; a license that has lapsed is expired by the trigger.  The *)
(* statement that expires it also assigns NEW.key_requested inside an      *)
(* UPDATE of another table: the row is cleared, or keeps v, or the         *)
(* statement fails and so does the update that fired the trigger.          *)
(***************************************************************************)
Written(S, v) == [k \in Keys |-> IF k \in S THEN v ELSE key_s[k]]

Activates(l, S, v) ==
  /\ v = "requested"
  /\ \E k \in S : key_s[k] = "free"
  /\ license[l].status \in {"new", "extended"}

UpdateKeys(l, S, v, ok) ==
  \/ /\ Activates(l, S, v)
     /\ license' = [license EXCEPT ![l] = [status |-> "active", overdue |-> FALSE]]
     /\ key_s' = Written(S, v)
     /\ ok
  \/ /\ ~Activates(l, S, v) /\ ~license[l].overdue
     /\ key_s' = Written(S, v)
     /\ ok
     /\ UNCHANGED license
  \/ /\ ~Activates(l, S, v) /\ license[l].overdue
     /\ \/ "cleared" \in LapsedWrites /\ key_s' = Written(S, "free")
        \/ "kept" \in LapsedWrites /\ key_s' = Written(S, v)
     /\ license' = [license EXCEPT ![l].status = "expired"]
     /\ ok
  \/ /\ ~Activates(l, S, v) /\ license[l].overdue
     /\ "failed" \in LapsedWrites
     /\ ~ok
     /\ UNCHANGED dbVars

\* the license when the update went through, 0 from the exception handler
Returned(l, ok) == IF ok THEN l ELSE None

\* Mutation: the test of key_requested is forgotten.
RequestKeyUnchecked(u, k, ret) ==
  \/ ~RowOfUser(u, k) /\ ret = None /\ UNCHANGED dbVars
  \/ /\ RowOfUser(u, k)
     /\ \E ok \in BOOLEAN :
          UpdateKeys(LicenseOf[k], {k}, "requested", ok) /\ ret = Returned(LicenseOf[k], ok)

RequestKey(u, k, ret) ==
  LET l == LicenseOf[k] IN
  \/ /\ \/ ~RowOfUser(u, k)
        \/ license[l].status = "expired"
        \/ key_s[k] = "requested"
     /\ ret = None
     /\ UNCHANGED dbVars
  \/ /\ RowOfUser(u, k)
     /\ license[l].status # "expired"
     /\ key_s[k] = "free"
     /\ \E ok \in BOOLEAN : UpdateKeys(l, {k}, "requested", ok) /\ ret = Returned(l, ok)

(* A key whose license is not active is answered with 0 and loses, with    *)
(* every other key of that license, its reservation.                       *)
ActiveKeyCheck(u, k, ret) ==
  LET l == LicenseOf[k]
      inUse == RowOfUser(u, k) /\ key_s[k] = "requested" IN
  \/ ~inUse /\ ret = None /\ UNCHANGED dbVars
  \/ inUse /\ license[l].status = "active" /\ ret = l /\ UNCHANGED dbVars
  \/ /\ inUse /\ license[l].status # "active"
     /\ \E ok \in BOOLEAN : UpdateKeys(l, RowsOf(l), "free", ok)
     /\ ret = None

ReleaseKey(u, k, ret) ==
  LET l == LicenseOf[k]
      inUse == RowOfUser(u, k) /\ key_s[k] = "requested" IN
  \/ ~inUse /\ ret = None /\ UNCHANGED dbVars
  \/ inUse /\ \E ok \in BOOLEAN : UpdateKeys(l, {k}, "free", ok) /\ ret = Returned(l, ok)

-----------------------------------------------------------------------------
(***************************************************************************)
(* MySQLconnection: the calls the server makes.                            *)
(***************************************************************************)
Call(function, u, k, ret) ==
  \/ function = "REQUEST" /\ RequestKey(u, k, ret)
  \/ function = "CHECK"   /\ ActiveKeyCheck(u, k, ret)
  \/ function = "RELEASE" /\ ReleaseKey(u, k, ret)

(* Select returns 0 on every error of mysql_query, whether the server      *)
(* never ran the function or ran it and its answer was lost.               *)
Select(function, u, k, ret) ==
  \/ Call(function, u, k, ret)
  \/ "query" \in Faults /\ ret = None /\ UNCHANGED dbVars
  \/ "lostreply" \in Faults /\ ret = None /\ \E r \in Licenses : Call(function, u, k, r)

FindUserByKey(k, ret) ==
  \/ HasRow(k) /\ ret = UserOf[k]
  \/ ~HasRow(k) /\ ret = None
  \/ "query" \in Faults /\ ret = None

(* UPDATE key_s SET key_requested = 0 WHERE key_requested = 1, one         *)
(* statement for every license: when the trigger fails nothing is cleared, *)
(* and the server goes on.                                                 *)
NullStart ==
  LET S == {k \in Keys : key_s[k] = "requested"}
      lapsed == {l \in Licenses : license[l].overdue /\ \E k \in S : LicenseOf[k] = l} IN
  \/ /\ lapsed = {} \/ LapsedWrites # {"failed"}
     /\ key_s' = Written(S, "free")
     /\ license' = [l \in Licenses |->
                      IF l \in lapsed THEN [license[l] EXCEPT !.status = "expired"]
                                      ELSE license[l]]
  \/ /\ lapsed # {} /\ "failed" \in LapsedWrites
     /\ UNCHANGED dbVars

-----------------------------------------------------------------------------
(***************************************************************************)
(* What happens to the tables beside the server: the clock, the scheduled  *)
(* events, and the functions an administrator calls.                       *)
(***************************************************************************)

\* launch date + duration passes (the launch date is null until activation)
Lapse(l) ==
  /\ "lapse" \in Changes
  /\ license[l].status = "active" /\ ~license[l].overdue
  /\ license' = [license EXCEPT ![l].overdue = TRUE]
  /\ UNCHANGED key_s

\* EVENT CheckLicenseValidity
CheckLicenseValidity ==
  /\ \E l \in Licenses : license[l].status = "active" /\ license[l].overdue
  /\ license' = [l \in Licenses |->
                   IF license[l].status = "active" /\ license[l].overdue
                   THEN [license[l] EXCEPT !.status = "expired"] ELSE license[l]]
  /\ UNCHANGED key_s

\* the rows S of `license` are deleted and their keys go with them (ON DELETE CASCADE)
DeleteRows(S) ==
  /\ license' = [l \in Licenses |->
                   IF l \in S THEN [status |-> "absent", overdue |-> FALSE] ELSE license[l]]
  /\ key_s' = [k \in Keys |-> IF HasRow(k) /\ LicenseOf[k] \in S THEN "deleted" ELSE key_s[k]]

\* EVENT DeleteExpiredLicense: S is what has been overdue for a month more
DeleteExpiredLicense(S) ==
  /\ S # {}
  /\ \A l \in S : license[l].status = "expired" /\ license[l].overdue
  /\ DeleteRows(S)

\* RemoveLicense asks for no status, DeleteLicense calls it for an expired one
RemoveLicense(l) ==
  /\ "remove" \in Changes
  /\ license[l].status # "absent"
  /\ DeleteRows({l})

\* LicenseRenewal of a license that has not expired adds months to it; it
\* shows here when the license was overdue and the months are enough
ExtendLicense(l) ==
  /\ "extend" \in Changes
  /\ license[l].status \in {"new", "active", "extended"} /\ license[l].overdue
  /\ license' = [license EXCEPT ![l].overdue = FALSE]
  /\ UNCHANGED key_s

\* LicenseRenewal of an expired license starts it over at its next request
ReviveLicense(l) ==
  /\ "revive" \in Changes
  /\ license[l].status = "expired"
  /\ license' = [license EXCEPT ![l] = [status |-> "extended", overdue |-> FALSE]]
  /\ UNCHANGED key_s

\* KeyReplacement gives the row of key k a key never issued before
KeyReplacement(k, new) ==
  LET l == LicenseOf[k] IN
  /\ "replace" \in Changes
  /\ HasRow(k)
  /\ key_s[new] = "unissued" /\ LicenseOf[new] = l /\ UserOf[new] = UserOf[k]
  /\ \/ /\ ~license[l].overdue
        /\ key_s' = [key_s EXCEPT ![k] = "deleted", ![new] = key_s[k]]
        /\ UNCHANGED license
     \/ /\ license[l].overdue
        /\ \/ /\ "cleared" \in LapsedWrites
              /\ key_s' = [key_s EXCEPT ![k] = "deleted", ![new] = "free"]
           \/ /\ "kept" \in LapsedWrites
              /\ key_s' = [key_s EXCEPT ![k] = "deleted", ![new] = key_s[k]]
        /\ license' = [license EXCEPT ![l].status = "expired"]
=============================================================================
