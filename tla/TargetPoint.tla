----------------------------- MODULE TargetPoint -----------------------------
(***************************************************************************)
(* file_parser.cpp, the same in the server and in the client: what is      *)
(* written to target_point.txt and what is read back.  A file is a         *)
(* sequence of lines; a line that another process has left half written is *)
(* a Hole, one that is not written yet Missing.  A number and the line it  *)
(* is printed as are told apart.                                           *)
(***************************************************************************)
EXTENDS Naturals, Sequences

CONSTANTS
  Text,          \* what a line can say
  MaxNumber,     \* a bound on the numbers a line is compared with
  Decimal        \* the line a number is printed as

Hole == "?"

Missing == "-"

Flags == {"PORT_FLAG", "IP_ADDRESS_FLAG", "TIME_DUR_FLAG"}

ASSUME TargetAssumption ==
  /\ Flags \cup {Hole, Missing, ""} \subseteq Text
  /\ MaxNumber \in Nat
  /\ Decimal \in [0..MaxNumber -> Text \ (Flags \cup {Hole, Missing, ""})]
  /\ \A n, k \in 0..MaxNumber : Decimal[n] = Decimal[k] => n = k

\* the class TargetPoint
Target == [is_parsed_ : BOOLEAN, port_ : 0..MaxNumber, ip_addres_ : Text \ {Missing},
           time_dur_ : 0..MaxNumber]

\* the global TargetPoint before anything is set
NoTarget == [is_parsed_ |-> FALSE, port_ |-> 0, ip_addres_ |-> "", time_dur_ |-> 0]

SetPort(target, port) == [target EXCEPT !.port_ = port]

\* operator<<
Printed(target) ==
  <<"PORT_FLAG", Decimal[target.port_],
    "IP_ADDRESS_FLAG", target.ip_addres_,
    "TIME_DUR_FLAG", Decimal[target.time_dur_]>>

\* Mutation: a line that is no number sets 0.
NumbersInOrZero(line) ==
  IF \E n \in 0..MaxNumber : Decimal[n] = line
  THEN {n \in 0..MaxNumber : Decimal[n] = line} ELSE {0}

\* what ss >> n reads from a line: one number, or none
NumbersIn(line) == {n \in 0..MaxNumber : Decimal[n] = line}

Assign(target, flag, line) ==
  CASE flag = "IP_ADDRESS_FLAG" -> [target EXCEPT !.ip_addres_ = line]
    [] flag = "PORT_FLAG" ->
         IF NumbersIn(line) = {} THEN target
         ELSE SetPort(target, CHOOSE n \in NumbersIn(line) : TRUE)
    [] flag = "TIME_DUR_FLAG" ->
         IF NumbersIn(line) = {} THEN target
         ELSE [target EXCEPT !.time_dur_ = CHOOSE n \in NumbersIn(line) : TRUE]

(* one getline: the value of the flag before it, or a flag, or skipped     *)
ReadLine(reading, line) ==
  IF line = Missing THEN reading
  ELSE IF reading.flag # "" THEN
    [flag |-> "", target |-> Assign(reading.target, reading.flag, line)]
  ELSE IF line \in Flags THEN
    [flag |-> line, target |-> [reading.target EXCEPT !.is_parsed_ = TRUE]]
  ELSE reading

\* operator>>; a flag with no line after it changes nothing but is_parsed_
Read(target, lines) ==
  LET reading[n \in 0..Len(lines)] ==
        IF n = 0 THEN [flag |-> "", target |-> target]
        ELSE ReadLine(reading[n - 1], lines[n])
  IN reading[Len(lines)].target

\* narrow characters, then wide ones if no flag was found
fileParser(target, lines) ==
  LET narrow == Read(target, lines) IN
  IF narrow.is_parsed_ THEN narrow ELSE Read(narrow, lines)
=============================================================================
