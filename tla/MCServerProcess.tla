--------------------------- MODULE MCServerProcess ---------------------------
(* A small instance of ServerProcess for TLC, and the address file by itself. *)
EXTENDS ServerProcess, TLC

Decimals == [n \in 0..MaxNumber |-> ToString(n)]

Texts == Flags \cup {Hole, Missing, "", "1.2.3.4"} \cup {ToString(n) : n \in 0..MaxNumber}

Addresses == {"", "7", "1.2.3.4", "TIME_DUR_FLAG", "PORT_FLAG"}

Targets ==
  [is_parsed_ : {FALSE}, port_ : 0..MaxNumber, ip_addres_ : Addresses, time_dur_ : {0, 1}]

\* what is saved is read back, whatever the target was before
ASSUME SavedIsRead ==
  \A t, u \in Targets : fileParser(u, Printed(t)) = [t EXCEPT !.is_parsed_ = TRUE]

\* an empty or foreign file leaves the target as it was
ASSUME NothingRead ==
  \A t \in Targets : fileParser(t, <<>>) = t /\ fileParser(t, <<"1.2.3.4", Hole>>) = t

\* how the address was found decides nothing once the port is bound
Relevant ==
  <<main, mess_control, netVars, sess, mysqlVars, bound # 0,
    IF bound = 0 THEN <<startVars>> ELSE <<targetPoint.port_ = bound>>>>
=============================================================================
