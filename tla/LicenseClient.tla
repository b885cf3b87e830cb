---------------------------- MODULE LicenseClient ----------------------------
(***************************************************************************)
(* run_license_ctrl of the client library: the loop that asks the server   *)
(* for the license, confirms it every second, and gives it back when the   *)
(* application sets `handling`.  It runs until it returns; the application *)
(* may then call it again.                                                 *)
(***************************************************************************)
EXTENDS LicenseSockets

CONSTANTS
  KeyOf,       \* user_key the client is called with
  UserIdOf     \* user_id the client is called with

ASSUME ClientAssumption ==
  /\ KeyOf \in [Clients -> Keys]
  /\ UserIdOf \in [Clients -> Users]

VARIABLES
  cpc,         \* where run_license_ctrl is, "off" when it is not running
  query,       \* query_type
  uid,         \* old_temp_uid
  status       \* the out parameter the application reads

clientVars == <<cpc, query, uid, status>>

ClientPC == {"off", "connect", "key", "keyAnswer", "licenseAnswer"}

Statuses == {"undefined", "error", "confirmed", "continued", "unknown key",
             "unknown client", "in use", "released", "not work", "key not work"}

ClientTypeOK ==
  /\ cpc \in [Clients -> ClientPC]
  /\ query \in [Clients -> Queries]
  /\ uid \in [Clients -> TempIds \cup {None}]
  /\ status \in [Clients -> Statuses]

ClientInit ==
  /\ cpc = [c \in Clients |-> "off"]
  /\ query = [c \in Clients |-> "REQUEST"]
  /\ uid = [c \in Clients |-> None]
  /\ status = [c \in Clients |-> "undefined"]

\* the application runs under its last confirmation and has not asked to give
\* the key back
Licensed(c) ==
  /\ cpc[c] # "off" /\ status[c] \in {"confirmed", "continued"}
  /\ ~(query[c] = "RELEASE" /\ cpc[c] = "licenseAnswer")

Start(c) ==
  /\ cpc[c] = "off"
  /\ cpc' = [cpc EXCEPT ![c] = "connect"]
  /\ status' = [status EXCEPT ![c] = "undefined"]
  /\ UNCHANGED <<query, uid, socketVars>>

Connect(c, s) ==
  /\ cpc[c] = "connect"
  /\ conn' = [conn EXCEPT ![c] = s]
  /\ cpc' = [cpc EXCEPT ![c] = "key"]
  /\ UNCHANGED <<query, uid, status, inbox, outbox>>

\* run_license_ctrl returns: its locals are gone, the socket is closed
Return(c, newStatus) ==
  /\ cpc' = [cpc EXCEPT ![c] = "off"]
  /\ query' = [query EXCEPT ![c] = "REQUEST"]
  /\ uid' = [uid EXCEPT ![c] = None]
  /\ status' = [status EXCEPT ![c] = newStatus]
  /\ conn' = [conn EXCEPT ![c] = None]
  /\ inbox' = [inbox EXCEPT ![c] = None]

\* only a status that was never set becomes an error: 16009 and 26009 stay
AfterError(c) == IF status[c] = "undefined" THEN "error" ELSE status[c]

ConnectFails(c) ==
  /\ cpc[c] = "connect"
  /\ Return(c, AfterError(c))
  /\ UNCHANGED outbox

\* DataExchange with the key: the write
SendKey(c) ==
  /\ cpc[c] = "key" /\ conn[c] # None
  /\ outbox' = [outbox EXCEPT ![conn[c]] = Msg("KEY", KeyOf[c])]
  /\ cpc' = [cpc EXCEPT ![c] = "keyAnswer"]
  /\ UNCHANGED <<query, uid, status, conn, inbox>>

\* DataExchange returns "ERROR": the connection is gone and nothing is left to read
ExchangeError(c) ==
  /\ cpc[c] \in {"key", "keyAnswer", "licenseAnswer"}
  /\ conn[c] = None /\ inbox[c] = None
  /\ Return(c, AfterError(c))
  /\ UNCHANGED outbox

\* Mutation: old_temp_uid = temp_uid is forgotten.
KeyGoodForgetsId(c) ==
  /\ cpc[c] = "keyAnswer" /\ inbox[c] # None /\ inbox[c].type = "KEY_ANSWER_GOOD"
  /\ inbox' = [inbox EXCEPT ![c] = None]
  /\ outbox' =
       IF conn[c] = None THEN outbox
       ELSE [outbox EXCEPT ![conn[c]] =
               Msg(query[c], IF query[c] = "REQUEST" THEN UserIdOf[c] ELSE uid[c])]
  /\ cpc' = [cpc EXCEPT ![c] = "licenseAnswer"]
  /\ UNCHANGED <<query, status, conn, uid>>

(* The id of the answer replaces old_temp_uid after the query was built    *)
(* with the old one; the query is then written.  A write to a connection   *)
(* the server has closed is lost.                                          *)
KeyGood(c) ==
  /\ cpc[c] = "keyAnswer" /\ inbox[c] # None /\ inbox[c].type = "KEY_ANSWER_GOOD"
  /\ uid' = [uid EXCEPT ![c] = inbox[c].arg]
  /\ inbox' = [inbox EXCEPT ![c] = None]
  /\ outbox' =
       IF conn[c] = None THEN outbox
       ELSE [outbox EXCEPT ![conn[c]] =
               Msg(query[c], IF query[c] = "REQUEST" THEN UserIdOf[c] ELSE uid[c])]
  /\ cpc' = [cpc EXCEPT ![c] = "licenseAnswer"]
  /\ UNCHANGED <<query, status, conn>>

KeyRefused(c) ==
  /\ cpc[c] = "keyAnswer" /\ inbox[c] # None
  /\ inbox[c].type = "KEY_ANSWER_UNKNOWN_KEY_REQUEST"
  /\ Return(c, "unknown key")
  /\ UNCHANGED outbox

LicenseAnswer(c) == cpc[c] = "licenseAnswer" /\ inbox[c] # None

\* another turn: the application may have set handling in the meantime
LicenseGood(c) ==
  /\ LicenseAnswer(c)
  /\ \/ /\ inbox[c].type = "LICENSE_ANSWER_GOOD"
        /\ status' = [status EXCEPT ![c] = "confirmed"]
     \/ /\ inbox[c].type = "LICENSE_ANSWER_GOOD_WORK"
        /\ status' = [status EXCEPT ![c] = "continued"]
  /\ \E next \in {"CHECK", "RELEASE"} : query' = [query EXCEPT ![c] = next]
  /\ conn' = [conn EXCEPT ![c] = None]
  /\ inbox' = [inbox EXCEPT ![c] = None]
  /\ cpc' = [cpc EXCEPT ![c] = "connect"]
  /\ UNCHANGED <<uid, outbox>>

\* every other answer ends the loop
FinalStatus(answer) ==
  CASE answer = "LICENSE_ANSWER_GOOD_RELEASE" -> "released"
    [] answer = "LICENSE_ANSWER_BUSY" -> "in use"
    [] answer = "LICENSE_ANSWER_UNKNOWN_KLIENT_REQUEST" -> "unknown client"
    [] answer = "LICENSE_ANSWER_NOT_WORK" -> "not work"
    [] answer = "LICENSE_ANSWER_KEY_NOT_WORK" -> "key not work"
    [] OTHER -> "error"

LicenseRefused(c) ==
  /\ LicenseAnswer(c)
  /\ inbox[c].type \notin {"LICENSE_ANSWER_GOOD", "LICENSE_ANSWER_GOOD_WORK"}
  /\ Return(c, FinalStatus(inbox[c].type))
  /\ UNCHANGED outbox

\* the application exits or crashes; what it had written can still be read
Vanish(c) ==
  /\ cpc[c] # "off"
  /\ Return(c, "undefined")
  /\ UNCHANGED outbox

\* the connection breaks: what was under way is lost on both sides
NetworkReset(c) ==
  /\ "net" \in Faults
  /\ conn[c] # None
  /\ conn' = [conn EXCEPT ![c] = None]
  /\ inbox' = [inbox EXCEPT ![c] = None]
  /\ outbox' = [outbox EXCEPT ![conn[c]] = None]
  /\ UNCHANGED clientVars
=============================================================================
