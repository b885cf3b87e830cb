---------------------------- MODULE ServerProcess ----------------------------
(***************************************************************************)
(* One server process from its start to server_off: the address file and   *)
(* the port (run_server), the accept loop and the global mess_control it    *)
(* tests, and the MySQL library every connection object counts itself in    *)
(* (MySQLinit).  What a session says to its client after its connection to *)
(* MySQL is open is LicenseServer's; here a key only opens and closes one. *)
(***************************************************************************)
EXTENDS TargetPoint, Integers, FiniteSets

CONSTANTS
  Sessions,    \* the sessions that may be open at once (a bound)
  Port,        \* the port main asks for
  LastPort,    \* a port that is free (a bound on those in use)
  MaxPending,  \* connections of clients waiting to be accepted (a bound)
  MaxCommands, \* connections of clients in all (a bound)
  Serial       \* instance() and Clear() of two threads never overlap

ASSUME ProcessAssumption ==
  /\ Port \in Nat /\ LastPort \in Nat /\ Port <= LastPort /\ LastPort <= MaxNumber
  /\ MaxPending \in Nat /\ MaxCommands \in Nat
  /\ Serial \in BOOLEAN
  /\ IsFiniteSet(Sessions)
  /\ {"main", "reaper"} \cap Sessions = {}

Threads == Sessions \cup {"main", "reaper"}

Messages == {"key", "server_off"}

VARIABLES
  main,          \* where run_server is
  targetPoint,
  file,          \* the lines of target_point.txt that are written
  line,          \* how many this process has written
  other,         \* how many another server in the same directory has; none yet: -1
  taken,         \* ports other processes listen on
  bound,         \* the port of the acceptor, 0 before
  mess_control,
  backlog,       \* what the connections to bound not yet accepted will send
  commands,      \* how many connections clients have made
  sess,          \* pc and message of each session
  m_counter,
  library,       \* the MySQL library is initialised
  con            \* each thread's connection object, and the m_counter it has read

fileVars == <<file, line, other>>
startVars == <<fileVars, targetPoint, taken, bound>>
netVars == <<backlog, commands>>
mysqlVars == <<m_counter, library, con>>
vars == <<main, startVars, mess_control, netVars, sess, mysqlVars>>

Lines == 1..6

ProcessInit ==
  /\ main = "save"
  /\ targetPoint = SetPort(NoTarget, Port)
  /\ file \in {{}, Lines}
  /\ line = 0 /\ other = -1
  /\ taken \in SUBSET (Port..(LastPort - 1))
  /\ bound = 0
  /\ mess_control = ""
  /\ backlog = <<>> /\ commands = 0
  /\ sess = [s \in Sessions |-> [pc |-> "idle", mess |-> ""]]
  /\ m_counter = 0
  /\ library = FALSE
  /\ con = [t \in Threads |-> [pc |-> "none", seen |-> 0]]

Alive == main \notin {"off", "dead"}

-----------------------------------------------------------------------------
(***************************************************************************)
(* target_point.txt.  Every line is flushed, each process writes at its    *)
(* own offset, and opening the file empties it; all servers write the same *)
(* lines.  A line with nothing before it is read together with the hole.   *)
(***************************************************************************)
Save ==
  /\ main = "save"
  /\ main' = "write"
  /\ file' = {}
  /\ UNCHANGED <<line, other, targetPoint, taken, bound, mess_control, netVars, sess, mysqlVars>>

WriteLine ==
  /\ main = "write" /\ line < 6
  /\ line' = line + 1
  /\ file' = file \cup {line + 1}
  /\ UNCHANGED <<main, other, targetPoint, taken, bound, mess_control, netVars, sess, mysqlVars>>

OtherSaves ==
  /\ main \in {"save", "write"} /\ other < 6
  /\ other' = other + 1
  /\ file' = IF other = -1 THEN {} ELSE file \cup {other + 1}
  /\ UNCHANGED <<main, line, targetPoint, taken, bound, mess_control, netVars, sess, mysqlVars>>

Readable(i) == i = 1 \/ i - 1 \in file

Content ==
  [i \in Lines |-> IF i \notin file THEN Missing
                    ELSE IF Readable(i) THEN Printed(SetPort(NoTarget, Port))[i] ELSE Hole]

Load ==
  /\ main = "write" /\ line = 6
  /\ main' = "bind"
  /\ targetPoint' = fileParser(targetPoint, Content)
  /\ UNCHANGED <<fileVars, taken, bound, mess_control, netVars, sess, mysqlVars>>

\* Mutation: the loop tries a port of its own and leaves targetPoint alone.
BindLocalPort ==
  /\ main = "bind"
  /\ \E p \in targetPoint.port_..LastPort :
       /\ p \notin taken /\ targetPoint.port_..(p - 1) \subseteq taken
       /\ bound' = p
  /\ main' = "start"
  /\ UNCHANGED <<fileVars, targetPoint, taken, mess_control, netVars, sess, mysqlVars>>

\* make_unique<acceptor>, and ++targetPoint.port_ on "Address already in use"
Bind ==
  /\ main = "bind"
  /\ IF targetPoint.port_ \in taken
     THEN /\ targetPoint' = SetPort(targetPoint, targetPoint.port_ + 1)
          /\ UNCHANGED <<main, bound>>
     ELSE /\ bound' = targetPoint.port_
          /\ main' = "start"
          /\ UNCHANGED targetPoint
  /\ UNCHANGED <<fileVars, taken, mess_control, netVars, sess, mysqlVars>>

-----------------------------------------------------------------------------
(***************************************************************************)
(* A MySQLconnection of thread t and the counter it shares.  ++m_counter   *)
(* and --m_counter load and store; a thread that has loaded works on what  *)
(* it has seen.                                                            *)
(***************************************************************************)
At(t, pc) == con[t].pc = pc

Moved(t, pc) == con' = [con EXCEPT ![t].pc = pc]

Counting == {"instance", "clear", "test", "end"}

MayCount(t) == Serial => \A u \in Threads \ {t} : con[u].pc \notin Counting

\* a thread's connection object comes into scope
Declares(t) ==
  CASE t = "main" -> main = "start"
    [] t = "reaper" -> main = "test" \/ main = "accept"
    [] OTHER -> sess[t].pc = "connection"

NoOtherChange == UNCHANGED <<main, startVars, mess_control, netVars, sess>>

Instance(t) ==
  /\ Alive /\ At(t, "none") /\ Declares(t) /\ MayCount(t)
  /\ con' = [con EXCEPT ![t] = [pc |-> "instance", seen |-> m_counter]]
  /\ UNCHANGED <<m_counter, library>> /\ NoOtherChange

Counted(t) ==
  /\ Alive /\ At(t, "instance")
  /\ m_counter' = con[t].seen + 1
  /\ Moved(t, "counted")
  /\ UNCHANGED library /\ NoOtherChange

\* mysql_init, which initialises a library that has been ended, and
\* mysql_real_connect
Open(t) ==
  /\ Alive /\ At(t, "counted")
  /\ library' = TRUE
  /\ Moved(t, "open")
  /\ UNCHANGED m_counter /\ NoOtherChange

\* MySQLconnection(): a reaper with nothing to release does not connect
StayClosed ==
  /\ Alive /\ At("reaper", "counted")
  /\ Moved("reaper", "closed")
  /\ UNCHANGED <<m_counter, library>> /\ NoOtherChange

BreakConnection(t) ==
  /\ Alive /\ At(t, "open")
  /\ Moved(t, "closed")
  /\ UNCHANGED <<m_counter, library>> /\ NoOtherChange

Clear(t) ==
  /\ Alive /\ At(t, "closed") /\ MayCount(t)
  /\ con' = [con EXCEPT ![t] = [pc |-> "clear", seen |-> m_counter]]
  /\ UNCHANGED <<m_counter, library>> /\ NoOtherChange

Uncounted(t) ==
  /\ Alive /\ At(t, "clear")
  /\ m_counter' = con[t].seen - 1
  /\ Moved(t, "test")
  /\ UNCHANGED library /\ NoOtherChange

\* where thread t goes on after its connection object
Leaves(t) ==
  CASE t = "main" -> /\ main' = IF main = "leave" THEN "off" ELSE "test"
                     /\ UNCHANGED sess
    [] t = "reaper" -> UNCHANGED <<main, sess>>
    [] OTHER -> sess' = [sess EXCEPT ![t] = [pc |-> "idle", mess |-> ""]] /\ UNCHANGED main

\* Mutation: the library is ended one connection too early.
TestCounterAtOne(t) ==
  /\ Alive /\ At(t, "test")
  /\ IF m_counter <= 1
     THEN Moved(t, "end") /\ UNCHANGED <<main, sess>>
     ELSE Moved(t, "none") /\ Leaves(t)
  /\ UNCHANGED <<m_counter, library, startVars, mess_control, netVars>>

TestCounter(t) ==
  /\ Alive /\ At(t, "test")
  /\ IF m_counter <= 0
     THEN Moved(t, "end") /\ UNCHANGED <<main, sess>>
     ELSE Moved(t, "none") /\ Leaves(t)
  /\ UNCHANGED <<m_counter, library, startVars, mess_control, netVars>>

\* this->~MySQLinit()
EndLibrary(t) ==
  /\ Alive /\ At(t, "end")
  /\ library' = FALSE
  /\ Moved(t, "none") /\ Leaves(t)
  /\ UNCHANGED <<m_counter, startVars, mess_control, netVars>>

ConnectionStep(t) ==
  \/ Instance(t) \/ Counted(t) \/ Open(t) \/ BreakConnection(t)
  \/ Clear(t) \/ Uncounted(t) \/ TestCounter(t) \/ EndLibrary(t)

-----------------------------------------------------------------------------
(***************************************************************************)
(* mess_control is written and read without a lock.  Somebody who reads it *)
(* while sessions assign it sees the old value, a new one or a mixture.    *)
(***************************************************************************)
Assigning == {s \in Sessions : sess[s].pc = "assigning"}

Seen ==
  LET values == {mess_control} \cup {sess[s].mess : s \in Assigning}
  IN IF Cardinality(values) > 1 THEN values \cup {"garbled"} ELSE values

\* while ("server_off" != mess_control); run_server returns and destroys its
\* connection a second time
TestControl ==
  /\ main = "test"
  /\ \E seen \in Seen :
       IF seen = "server_off"
       THEN main' = "leave" /\ Moved("main", "closed")
       ELSE main' = "accept" /\ UNCHANGED con
  /\ UNCHANGED <<startVars, mess_control, netVars, sess, m_counter, library>>

Accept(s) ==
  /\ main = "accept" /\ backlog # <<>>
  /\ sess[s].pc = "idle"
  /\ main' = "test"
  /\ backlog' = Tail(backlog)
  /\ sess' = [sess EXCEPT ![s] = [pc |-> "read", mess |-> Head(backlog)]]
  /\ UNCHANGED <<startVars, mess_control, commands, mysqlVars>>

SessionAt(s, pc) == Alive /\ sess[s].pc = pc

Goes(s, pc) == sess' = [sess EXCEPT ![s].pc = pc]

NotMine == UNCHANGED <<main, startVars, mysqlVars>>

\* sock->read_some; the connection of another session's wake-up is closed
\* without a word, and the exception ends the session
ReadMessage(s) ==
  /\ SessionAt(s, "read")
  /\ Goes(s, IF sess[s].mess = "wake" THEN "idle" ELSE "assign")
  /\ UNCHANGED <<mess_control, netVars>> /\ NotMine

BeginAssign(s) ==
  /\ SessionAt(s, "assign")
  /\ Goes(s, "assigning")
  /\ UNCHANGED <<mess_control, netVars>> /\ NotMine

\* mess_control = new_mess; what another assignment leaves of it when they
\* overlap is this message or a mixture, if the process survives
EndAssign(s) ==
  /\ SessionAt(s, "assigning")
  /\ mess_control' \in {sess[s].mess} \cup
       (IF Assigning # {s} \/ mess_control = "garbled" THEN {"garbled"} ELSE {})
  /\ Goes(s, "compare")
  /\ UNCHANGED netVars /\ NotMine

AssignDies(s) ==
  /\ SessionAt(s, "assigning") /\ Assigning # {s}
  /\ main' = "dead"
  /\ UNCHANGED <<startVars, mysqlVars, mess_control, netVars, sess>>

\* if (mess_control == "server_off"): the global, not the session's message
Compare(s) ==
  /\ SessionAt(s, "compare")
  /\ \E seen \in Seen : Goes(s, IF seen = "server_off" THEN "exit" ELSE "connection")
  /\ UNCHANGED <<mess_control, netVars>> /\ NotMine

WriteExit(s) ==
  /\ SessionAt(s, "exit")
  /\ Goes(s, "wake")
  /\ UNCHANGED <<mess_control, netVars>> /\ NotMine

\* the peer is gone, write throws, and nothing wakes the accept loop
WriteExitFails(s) ==
  /\ SessionAt(s, "exit")
  /\ Goes(s, "idle")
  /\ UNCHANGED <<mess_control, netVars>> /\ NotMine

\* Mutation: the session returns and leaves the accept loop waiting.
WakeNobody(s) ==
  /\ SessionAt(s, "wake")
  /\ Goes(s, "idle")
  /\ UNCHANGED <<mess_control, netVars>> /\ NotMine

\* sock_1.connect(127.0.0.1 : targetPoint.port_), to this server or another
Wake(s) ==
  /\ SessionAt(s, "wake")
  /\ backlog' = IF targetPoint.port_ = bound THEN Append(backlog, "wake") ELSE backlog
  /\ Goes(s, "idle")
  /\ UNCHANGED <<mess_control, commands>> /\ NotMine

SessionStep(s) ==
  \/ ReadMessage(s) \/ BeginAssign(s) \/ EndAssign(s) \/ AssignDies(s)
  \/ Compare(s) \/ WriteExit(s) \/ WriteExitFails(s) \/ Wake(s)

Connect(msg) ==
  /\ Alive /\ bound # 0
  /\ Len(backlog) < MaxPending /\ commands < MaxCommands
  /\ commands' = commands + 1
  /\ backlog' = Append(backlog, msg)
  /\ UNCHANGED <<main, startVars, mess_control, sess, mysqlVars>>

MainStep ==
  Save \/ WriteLine \/ Load \/ Bind \/ TestControl \/ \E s \in Sessions : Accept(s)

Next ==
  \/ MainStep
  \/ OtherSaves
  \/ StayClosed
  \/ \E t \in Threads : ConnectionStep(t)
  \/ \E s \in Sessions : SessionStep(s)
  \/ \E msg \in Messages : Connect(msg)

Spec == ProcessInit /\ [][Next]_vars

(***************************************************************************)
(* Fairness: a thread that can run does; one that waits for its turn at    *)
(* the counter gets it (SF, under Serial).                                 *)
(***************************************************************************)
Fairness ==
  /\ WF_vars(MainStep)
  /\ \A t \in Threads : SF_vars(ConnectionStep(t))
  /\ \A s \in Sessions : WF_vars(SessionStep(s))

FairSpec == Spec /\ Fairness

-----------------------------------------------------------------------------
ConPC == {"none", "counted", "open", "closed"} \cup Counting

SessPC == {"idle", "read", "assign", "assigning", "compare", "exit", "wake", "connection"}

\* what a session has been sent, once it is on its way
SessionsTalk ==
  \A s \in Sessions :
    /\ sess[s].pc = "read" => sess[s].mess # ""
    /\ sess[s].pc \notin {"idle", "read"} => sess[s].mess \in Messages

ProcessTypeOK ==
  /\ main \in {"save", "write", "bind", "start", "test", "accept", "leave", "off", "dead"}
  /\ targetPoint \in Target /\ targetPoint.port_ \in Port..LastPort
  /\ file \subseteq Lines /\ line \in 0..6 /\ other \in -1..6
  /\ taken \subseteq Port..(LastPort - 1) /\ bound \in {0} \cup (Port..LastPort)
  /\ mess_control \in Messages \cup {"", "garbled"}
  /\ backlog \in Seq(Messages \cup {"wake"}) /\ commands \in 0..MaxCommands
  /\ sess \in [Sessions -> [pc : SessPC, mess : Messages \cup {"", "wake"}]]
  /\ SessionsTalk
  /\ m_counter \in Int /\ library \in BOOLEAN
  /\ con \in [Threads -> [pc : ConPC, seen : Int]]

\* Whatever another server does to target_point.txt between the writing and the
\* reading of it, and however many ports are in use, the address a session
\* connects to in order to wake the accept loop is the one the server listens on
\* (main.cpp:271-277, 576-625).
OwnAddress ==
  /\ main = "bind" => Port..(targetPoint.port_ - 1) \subseteq taken
  /\ bound # 0 => targetPoint.port_ = bound

\* While the server runs, the library is not ended under an open connection
\* (MySQLinit.cpp:43-51), also after the explicit destructor call of run_server,
\* if no two threads are in instance() or Clear() at a time.
LibraryLives ==
  main \notin {"leave", "off", "dead"} =>
    \A t \in Threads : At(t, "open") => library

\* The server leaves its loop if a session has said goodbye to the client that
\* sent server_off, or another session has overwritten mess_control meanwhile
\* (main.cpp:259-279): the wake-up comes after the assignment and reaches the
\* loop.
StopsOrOverwritten ==
  \A s \in Sessions :
    sess[s].pc = "wake" ~> main \in {"leave", "off", "dead"} \/ mess_control # "server_off"
=============================================================================
