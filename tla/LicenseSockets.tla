--------------------------- MODULE LicenseSockets ---------------------------
(***************************************************************************)
(* The TCP connections between clients and server sessions, as boost::asio *)
(* gives them to the two programs: a client has at most one connection, a  *)
(* session exactly one, and the dialogue keeps at most one message under   *)
(* way in each direction.                                                  *)
(***************************************************************************)
EXTENDS LicenseTypes

CONSTANTS
  Clients,     \* the client programs
  Sessions     \* the sessions that may be open at once (a bound)

LicenseAnswers ==
  {"LICENSE_ANSWER_GOOD", "LICENSE_ANSWER_BUSY", "LICENSE_ANSWER_GOOD_WORK",
   "LICENSE_ANSWER_NOT_WORK", "LICENSE_ANSWER_KEY_NOT_WORK",
   "LICENSE_ANSWER_GOOD_RELEASE", "LICENSE_ANSWER_NOT_RELEASE",
   "LICENSE_ANSWER_UNKNOWN_KLIENT_REQUEST"}

Queries == {"REQUEST", "CHECK", "RELEASE"}

(* A message is its word and the argument after '&'.  The id repeated in   *)
(* the license answers is left out: the client overwrites it before use.   *)
Message ==
  [type : {"KEY"}, arg : Keys]
    \cup [type : {"REQUEST"}, arg : Users]
    \cup [type : {"CHECK", "RELEASE"}, arg : TempIds \cup {None}]
    \cup [type : {"KEY_ANSWER_GOOD"}, arg : TempIds]
    \cup [type : {"KEY_ANSWER_UNKNOWN_KEY_REQUEST"} \cup LicenseAnswers, arg : {None}]

Msg(type, arg) == [type |-> type, arg |-> arg]

ASSUME SocketAssumption ==
  None \notin Clients \cup Sessions \cup Message

VARIABLES
  conn,     \* the session at the other end of a client's socket
  inbox,    \* what the client has not read yet
  outbox    \* what the session has not read yet

socketVars == <<conn, inbox, outbox>>

SocketTypeOK ==
  /\ conn \in [Clients -> Sessions \cup {None}]
  /\ inbox \in [Clients -> Message \cup {None}]
  /\ outbox \in [Sessions -> Message \cup {None}]

SocketInit ==
  /\ conn = [c \in Clients |-> None]
  /\ inbox = [c \in Clients |-> None]
  /\ outbox = [s \in Sessions |-> None]

\* the client of the session has closed its socket or lost it
PeerGone(s) == \A c \in Clients : conn[c] # s

Received(s, type) == outbox[s] # None /\ outbox[s].type = type

ToClient(s, msg) == [c \in Clients |-> IF conn[c] = s THEN msg ELSE inbox[c]]

\* Mutation: the session ends without sock->close().
WithoutClosing(s) == conn

\* the connections after session s has closed its socket
Without(s) == [c \in Clients |-> IF conn[c] = s THEN None ELSE conn[c]]
=============================================================================
