------------------------------ MODULE KeyLease ------------------------------
(***************************************************************************)
(* What the license service promises of its keys, without sessions,        *)
(* messages or tables: a key is leased to at most one handle.  A lease     *)
(* begins only on a vacant key, may be renewed under another handle, and   *)
(* ends; as long as it lasts the key is not vacant.  One step of the       *)
(* service may be a step of several keys (a crash, a NullStart, a license  *)
(* that expires).                                                          *)
(***************************************************************************)
CONSTANTS
  Keys,
  Handles      \* what a lease is known by

VARIABLES
  lease,       \* the handles a key is leased to
  vacant       \* a request for the key would be granted

leaseVars == <<lease, vacant>>

LeaseTypeOK ==
  /\ lease \in [Keys -> SUBSET Handles]
  /\ vacant \in [Keys -> BOOLEAN]

LeaseInit ==
  /\ lease = [k \in Keys |-> {}]
  /\ vacant \in [Keys -> BOOLEAN]

Begin(k) ==
  /\ lease[k] = {} /\ vacant[k]
  /\ \E h \in Handles : lease'[k] = {h}
  /\ ~vacant'[k]

\* under the same handle, which is no change, or under a new one
Renew(k) ==
  /\ lease[k] # {}
  /\ \E h \in Handles : lease'[k] = {h}
  /\ ~vacant'[k]

\* released, timed out, or lost with the process
Finish(k) ==
  /\ lease[k] # {}
  /\ lease'[k] = {}

\* the tables may open or close a key that is not leased
Unleased(k) ==
  /\ lease[k] = {}
  /\ lease'[k] = {}

LeaseNext ==
  /\ LeaseTypeOK'
  /\ \A k \in Keys : Begin(k) \/ Renew(k) \/ Finish(k) \/ Unleased(k)

LeaseSpec == LeaseInit /\ [][LeaseNext]_leaseVars
=============================================================================
