---------------------------- MODULE LicenseTypes ----------------------------
(***************************************************************************)
(* The parameters shared by the server, its database and the clients.      *)
(***************************************************************************)
EXTENDS Naturals

CONSTANTS
  Users, Licenses, Keys,
  LicenseOf,     \* key_license_id of every key
  UserOf,        \* key_user_id of every key
  TempIds,       \* the temporary ids the server hands out
  Faults,        \* failures that may happen
  Changes,       \* what may happen to the tables beside the server's calls
  None           \* no value: a null, a 0 returned for "not found"

ASSUME TypesAssumption ==
  /\ LicenseOf \in [Keys -> Licenses]
  /\ UserOf \in [Keys -> Users]
  /\ Faults \subseteq {"crash", "connect", "query", "lostreply", "write", "net"}
  /\ Changes \subseteq {"lapse", "extend", "revive", "replace", "remove", "another"}
  /\ None \notin Users \cup Licenses \cup Keys \cup TempIds
=============================================================================
