--------------------------- MODULE MCLicenseSystem ---------------------------
(* Small instances of LicenseSystem for TLC. *)
EXTENDS LicenseInvariants, TLC

CONSTANTS u1, l1, k1, k2, c1, c2

\* one license with the key both clients were given
OneUser == [k \in Keys |-> u1]
OneLicense == [k \in Keys |-> l1]
SameKey == [c \in Clients |-> k1]
SameUser == [c \in Clients |-> u1]

\* a second key of the same license
OwnKeys == (c1 :> k1) @@ (c2 :> k2)

Interchangeable ==
  Permutations(TempIds) \cup Permutations(Sessions) \cup Permutations(Reapers)

\* clients with the same key are interchangeable too
InterchangeableClients == Interchangeable \cup Permutations(Clients)

\* Start resets the status, so its value after run_license_ctrl has returned
\* decides nothing that follows
RunningStatus ==
  <<serverVars, socketVars, dbVars, cpc, query, uid,
    [c \in Clients |-> IF cpc[c] = "off" THEN "undefined" ELSE status[c]]>>
=============================================================================
