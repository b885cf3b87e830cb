------------------------- MODULE ServerProcessProofs -------------------------
(***************************************************************************)
(* What the address file gives back, for every address and number; and, for *)
(* any number of sessions and any ports, that the process knows the port it *)
(* listens on and that the MySQL library outlives every open connection.    *)
(***************************************************************************)
EXTENDS ServerProcess, FiniteSetTheorems, TLAPS

-----------------------------------------------------------------------------
(***************************************************************************)
(* Reading a file of six lines.                                            *)
(***************************************************************************)
Reading(flag, target) == [flag |-> flag, target |-> target]

\* what the loop has read after each of the six lines
ReadInOrder(r, target, lines) ==
  /\ r[0] = Reading("", target)
  /\ r[1] = ReadLine(r[0], lines[1]) /\ r[2] = ReadLine(r[1], lines[2])
  /\ r[3] = ReadLine(r[2], lines[3]) /\ r[4] = ReadLine(r[3], lines[4])
  /\ r[5] = ReadLine(r[4], lines[5]) /\ r[6] = ReadLine(r[5], lines[6])
  /\ Read(target, lines) = r[6].target

\* The loop over getline reads the lines one after the other: the function that Read
\* defines by recursion exists, and its last value is six readings deep
\* (file_parser.cpp:104-156).
LEMMA ReadsInOrder ==
  ASSUME NEW target, NEW lines, Len(lines) = 6
  PROVE  \E r : ReadInOrder(r, target, lines)
<1> DEFINE start == [flag |-> "", target |-> target]
           Step(f) == [n \in 0..Len(lines) |-> IF n = 0 THEN start ELSE ReadLine(f[n - 1], lines[n])]
           chosen == CHOOSE f : f = Step(f)
           r1 == ReadLine(start, lines[1])
           r2 == ReadLine(r1, lines[2])
           r3 == ReadLine(r2, lines[3])
           r4 == ReadLine(r3, lines[4])
           r5 == ReadLine(r4, lines[5])
           r6 == ReadLine(r5, lines[6])
           w == [n \in 0..6 |-> IF n = 0 THEN start ELSE IF n = 1 THEN r1 ELSE IF n = 2 THEN r2
                                 ELSE IF n = 3 THEN r3 ELSE IF n = 4 THEN r4
                                 ELSE IF n = 5 THEN r5 ELSE r6]
<1>1. Read(target, lines) = chosen[Len(lines)].target
  BY DEF Read
<1>2. start = Reading("", target)
  BY DEF Reading
<1>3. /\ r1 = ReadLine(start, lines[1]) /\ r2 = ReadLine(r1, lines[2])
      /\ r3 = ReadLine(r2, lines[3]) /\ r4 = ReadLine(r3, lines[4])
      /\ r5 = ReadLine(r4, lines[5]) /\ r6 = ReadLine(r5, lines[6])
  OBVIOUS
<1> HIDE DEF start, r1, r2, r3, r4, r5, r6
<1>4. w = Step(w)
  <2>1. /\ w[0] = start /\ w[1] = r1 /\ w[2] = r2 /\ w[3] = r3
        /\ w[4] = r4 /\ w[5] = r5 /\ w[6] = r6
    OBVIOUS
  <2>2. /\ w = [n \in 0..6 |-> w[n]] /\ Step(w) = [n \in 0..6 |-> Step(w)[n]]
    OBVIOUS
  <2> HIDE DEF w
  <2>3. /\ Step(w)[1] = ReadLine(w[0], lines[1]) /\ Step(w)[2] = ReadLine(w[1], lines[2])
        /\ Step(w)[3] = ReadLine(w[2], lines[3]) /\ Step(w)[4] = ReadLine(w[3], lines[4])
        /\ Step(w)[5] = ReadLine(w[4], lines[5]) /\ Step(w)[6] = ReadLine(w[5], lines[6])
        /\ Step(w)[0] = start
    OBVIOUS
  <2> HIDE DEF Step
  <2>4. \A n \in 0..6 : w[n] = Step(w)[n]
    <3> TAKE n \in 0..6
    <3>1. n \in {0, 1, 2, 3, 4, 5, 6}
      OBVIOUS
    <3> QED
      BY <1>3, <2>1, <2>3, <3>1
  <2> QED
    BY <2>2, <2>4
<1>5. chosen = Step(chosen)
  BY <1>4
<1> HIDE DEF chosen
<1>6. /\ chosen[0] = start
      /\ chosen[1] = ReadLine(chosen[0], lines[1]) /\ chosen[2] = ReadLine(chosen[1], lines[2])
      /\ chosen[3] = ReadLine(chosen[2], lines[3]) /\ chosen[4] = ReadLine(chosen[3], lines[4])
      /\ chosen[5] = ReadLine(chosen[4], lines[5]) /\ chosen[6] = ReadLine(chosen[5], lines[6])
  BY <1>5
<1> QED
  BY <1>1, <1>2, <1>6 DEF ReadInOrder

\* What is printed of a number reads as that number, and nothing else that is
\* written reads as one.
LEMMA NumbersRead ==
  /\ \A n \in 0..MaxNumber : NumbersIn(Decimal[n]) = {n}
  /\ \A line_ \in Flags \cup {Hole, Missing, ""} : NumbersIn(line_) = {}
BY TargetAssumption DEF NumbersIn

\* One line of each kind.
LEMMA LinesRead ==
  ASSUME NEW t \in Target
  PROVE  /\ \A r : ReadLine(r, Missing) = r
         /\ \A f \in Flags : ReadLine(Reading("", t), f) = Reading(f, [t EXCEPT !.is_parsed_ = TRUE])
         /\ \A n \in 0..MaxNumber :
              /\ ReadLine(Reading("PORT_FLAG", t), Decimal[n]) = Reading("", SetPort(t, n))
              /\ ReadLine(Reading("TIME_DUR_FLAG", t), Decimal[n])
                   = Reading("", [t EXCEPT !.time_dur_ = n])
         /\ \A a \in Text \ {Missing} :
              ReadLine(Reading("IP_ADDRESS_FLAG", t), a) = Reading("", [t EXCEPT !.ip_addres_ = a])
<1>1. \A n \in 0..MaxNumber : (CHOOSE k \in {n} : TRUE) = n
  OBVIOUS
<1>2. \A n \in 0..MaxNumber : Decimal[n] # Missing
  BY TargetAssumption
<1>3. \A r : ReadLine(r, Missing) = r
  BY DEF ReadLine
<1>4. \A f \in Flags : ReadLine(Reading("", t), f) = Reading(f, [t EXCEPT !.is_parsed_ = TRUE])
  BY DEF ReadLine, Reading, Flags, Missing
<1>5. ASSUME NEW n \in 0..MaxNumber
      PROVE  ReadLine(Reading("PORT_FLAG", t), Decimal[n]) = Reading("", SetPort(t, n))
  <2>1. NumbersIn(Decimal[n]) = {n} /\ (CHOOSE k \in {n} : TRUE) = n
    BY <1>1, NumbersRead
  <2>2. Assign(t, "PORT_FLAG", Decimal[n]) = SetPort(t, n)
    BY <2>1 DEF Assign
  <2> QED
    BY <1>2, <2>2 DEF ReadLine, Reading
<1>6. ASSUME NEW n \in 0..MaxNumber
      PROVE  ReadLine(Reading("TIME_DUR_FLAG", t), Decimal[n]) = Reading("", [t EXCEPT !.time_dur_ = n])
  <2>1. NumbersIn(Decimal[n]) = {n} /\ (CHOOSE k \in {n} : TRUE) = n
    BY <1>1, NumbersRead
  <2>2. Assign(t, "TIME_DUR_FLAG", Decimal[n]) = [t EXCEPT !.time_dur_ = n]
    BY <2>1 DEF Assign
  <2> QED
    BY <1>2, <2>2 DEF ReadLine, Reading
<1>7. ASSUME NEW a \in Text \ {Missing}
      PROVE  ReadLine(Reading("IP_ADDRESS_FLAG", t), a) = Reading("", [t EXCEPT !.ip_addres_ = a])
  <2>1. Assign(t, "IP_ADDRESS_FLAG", a) = [t EXCEPT !.ip_addres_ = a]
    BY DEF Assign
  <2> QED
    BY <2>1 DEF ReadLine, Reading
<1> QED
  BY <1>3, <1>4, <1>5, <1>6, <1>7

\* Reading a whole file that was written from t leaves what t says, whatever was there
\* before.
LEMMA WholeFileRead ==
  ASSUME NEW t \in Target, NEW u \in Target
  PROVE  Read(u, Printed(t)) = [t EXCEPT !.is_parsed_ = TRUE]
<1> DEFINE lines == Printed(t)
           u1 == [u EXCEPT !.is_parsed_ = TRUE]
           u2 == SetPort(u1, t.port_)
           u3 == [u2 EXCEPT !.is_parsed_ = TRUE]
           u4 == [u3 EXCEPT !.ip_addres_ = t.ip_addres_]
           u5 == [u4 EXCEPT !.is_parsed_ = TRUE]
           u6 == [u5 EXCEPT !.time_dur_ = t.time_dur_]
<1>1. /\ Len(lines) = 6
      /\ lines[1] = "PORT_FLAG" /\ lines[2] = Decimal[t.port_]
      /\ lines[3] = "IP_ADDRESS_FLAG" /\ lines[4] = t.ip_addres_
      /\ lines[5] = "TIME_DUR_FLAG" /\ lines[6] = Decimal[t.time_dur_]
  BY DEF Printed
<1> HIDE DEF lines
<1>2. PICK r : ReadInOrder(r, u, lines)
  BY <1>1, ReadsInOrder
<1>3. u1 \in Target /\ u2 \in Target /\ u3 \in Target /\ u4 \in Target /\ u5 \in Target
  BY DEF Target, SetPort
<1>4. /\ t.port_ \in 0..MaxNumber /\ t.time_dur_ \in 0..MaxNumber
      /\ t.ip_addres_ \in Text \ {Missing}
  BY DEF Target
<1>5. u6 = [t EXCEPT !.is_parsed_ = TRUE]
  BY DEF Target, SetPort
<1>6. {"PORT_FLAG", "IP_ADDRESS_FLAG", "TIME_DUR_FLAG"} \subseteq Flags
  BY DEF Flags
<1>7. r[1] = Reading("PORT_FLAG", u1)
  BY <1>1, <1>2, <1>6, LinesRead DEF ReadInOrder
<1> HIDE DEF u1
<1>8. r[2] = Reading("", u2)
  BY <1>1, <1>2, <1>3, <1>4, <1>7, LinesRead DEF ReadInOrder
<1> HIDE DEF u2
<1>9. r[3] = Reading("IP_ADDRESS_FLAG", u3)
  BY <1>1, <1>2, <1>3, <1>6, <1>8, LinesRead DEF ReadInOrder
<1> HIDE DEF u3
<1>10. r[4] = Reading("", u4)
  BY <1>1, <1>2, <1>3, <1>4, <1>9, LinesRead DEF ReadInOrder
<1> HIDE DEF u4
<1>11. r[5] = Reading("TIME_DUR_FLAG", u5)
  BY <1>1, <1>2, <1>3, <1>6, <1>10, LinesRead DEF ReadInOrder
<1> HIDE DEF u5
<1>12. r[6] = Reading("", u6)
  BY <1>1, <1>2, <1>3, <1>4, <1>11, LinesRead DEF ReadInOrder
<1> HIDE DEF u6
<1>13. Reading("", u6).target = u6
  BY DEF Reading
<1> QED
  BY <1>2, <1>5, <1>12, <1>13 DEF lines, ReadInOrder

\* What is saved is read back: after any target has been written, a process that reads
\* the file has that target, whatever its own was (file_parser.cpp:62-156).
THEOREM SavedIsReadBack ==
  ASSUME NEW t \in Target, NEW u \in Target
  PROVE  fileParser(u, Printed(t)) = [t EXCEPT !.is_parsed_ = TRUE]
<1>1. Read(u, Printed(t)).is_parsed_
  BY WholeFileRead DEF Target
<1> QED
  BY <1>1, WholeFileRead DEF fileParser

(***************************************************************************)
(* Reading the file while another process writes it.  The line after        *)
(* PORT_FLAG is the printed port, half written or missing, and in the last *)
(* two cases nothing is read as the port.                                  *)
(***************************************************************************)
ReadingPort(r, n) ==
  /\ r.flag \in Flags \cup {""}
  /\ r.target \in Target /\ r.target.port_ = Port
  /\ r.flag = "PORT_FLAG" => n = 1 \/ n \notin file
  /\ n = 0 => r.flag = ""

LEMMA PortNumbers ==
  /\ Port \in 0..MaxNumber /\ 0 \in 0..MaxNumber /\ MaxNumber \in Nat
  /\ Port \in Nat /\ LastPort \in Nat /\ Port <= LastPort /\ LastPort <= MaxNumber
  /\ MaxPending \in Nat /\ MaxCommands \in Nat
<1>1. MaxNumber \in Nat
  BY TargetAssumption
<1> QED
  BY <1>1, ProcessAssumption

\* what the lines of the file are
LEMMA ContentLines ==
  ASSUME NEW i \in Lines
  PROVE  /\ Content[i] = Missing <=> i \notin file
         /\ i > 1 /\ i - 1 \notin file => Content[i] \in {Missing, Hole}
         /\ i = 2 => Content[i] \in {Missing, Hole, Decimal[Port]}
         /\ Content[i] = "PORT_FLAG" => i = 1
         /\ Content[i] \in Text
<1> DEFINE t == SetPort(NoTarget, Port)
<1>1. t.port_ = Port /\ t.ip_addres_ = "" /\ t.time_dur_ = 0
  BY DEF SetPort, NoTarget
<1>2. /\ Printed(t)[1] = "PORT_FLAG" /\ Printed(t)[2] = Decimal[Port]
      /\ Printed(t)[3] = "IP_ADDRESS_FLAG" /\ Printed(t)[4] = ""
      /\ Printed(t)[5] = "TIME_DUR_FLAG" /\ Printed(t)[6] = Decimal[0]
  BY <1>1 DEF Printed
<1>3. /\ Decimal[Port] # "PORT_FLAG" /\ Decimal[0] # "PORT_FLAG"
      /\ Decimal[Port] \in Text /\ Decimal[0] \in Text /\ Flags \cup {""} \subseteq Text
  BY PortNumbers, TargetAssumption DEF Flags
<1>4. i \in {1, 2, 3, 4, 5, 6}
  BY DEF Lines
<1>5. /\ i \notin file => Content[i] = Missing
      /\ i \in file /\ Readable(i) => Content[i] = Printed(t)[i]
      /\ i \in file /\ ~Readable(i) => Content[i] = Hole
  BY DEF Content
<1>6. i > 1 /\ i - 1 \notin file => ~Readable(i)
  BY <1>4 DEF Readable
<1> HIDE DEF t
<1>7. Content[i] \in {Missing, Hole, Printed(t)[i]}
  BY <1>5
<1>8. /\ i # 1 => Printed(t)[i] # "PORT_FLAG"
      /\ Printed(t)[i] \in Text
  <2>1. CASE i \in {1, 2, 3}
    BY <1>2, <1>3, <2>1 DEF Flags
  <2>2. CASE i \in {4, 5, 6}
    BY <1>2, <1>3, <2>2 DEF Flags
  <2> QED
    BY <1>4, <2>1, <2>2
<1>9. Missing # "PORT_FLAG" /\ Hole # "PORT_FLAG" /\ Missing \in Text /\ Hole \in Text
  BY TargetAssumption DEF Missing, Hole
<1>10. i = 2 => Content[i] \in {Missing, Hole, Decimal[Port]}
  BY <1>2, <1>7
<1>11. Content[i] = "PORT_FLAG" => i = 1
  BY <1>7, <1>8, <1>9
<1>12. Content[i] \in Text
  BY <1>7, <1>8, <1>9
<1>13. Content[i] = Missing <=> i \notin file
  <2>1. /\ Decimal[Port] # Missing /\ Decimal[0] # Missing
    BY PortNumbers, TargetAssumption
  <2>2. Printed(t)[i] # Missing
    <3>1. CASE i \in {1, 2, 3}
      BY <1>2, <2>1, <3>1 DEF Missing
    <3>2. CASE i \in {4, 5, 6}
      BY <1>2, <2>1, <3>2 DEF Missing
    <3> QED
      BY <1>4, <3>1, <3>2
  <2> QED
    BY <1>5, <2>2 DEF Missing, Hole
<1> QED
  BY <1>5, <1>6, <1>10, <1>11, <1>12, <1>13

\* One line of the file keeps the port.
LEMMA LineKeepsPort ==
  ASSUME NEW i \in Lines, NEW r, ReadingPort(r, i - 1)
  PROVE  ReadingPort(ReadLine(r, Content[i]), i)
<1> DEFINE here == Content[i]
<1>0. /\ i # 0 /\ (i - 1 = 0 <=> i = 1) /\ (i - 1 = 1 <=> i = 2) /\ (i > 1 <=> i # 1)
  BY DEF Lines
<1>1. /\ i \notin file <=> here = Missing
      /\ i > 1 /\ i - 1 \notin file => here \in {Missing, Hole}
      /\ i = 2 => here \in {Missing, Hole, Decimal[Port]}
      /\ here = "PORT_FLAG" => i = 1
      /\ here \in Text
  BY ContentLines
<1> HIDE DEF here
<1>2. CASE here = Missing
  <2>1. ReadLine(r, here) = r
    BY <1>2 DEF ReadLine
  <2>2. r.flag = "PORT_FLAG" => i \notin file
    BY <1>1, <1>2
  <2> QED
    BY <1>0, <2>1, <2>2 DEF ReadingPort, here
<1>3. CASE here # Missing /\ r.flag # ""
  <2> DEFINE set == Assign(r.target, r.flag, here)
  <2>1. ReadLine(r, here) = Reading("", set)
    BY <1>3 DEF ReadLine, Reading
  <2>2. set \in Target /\ set.port_ = Port
    <3>1. CASE r.flag = "PORT_FLAG"
      <4>1. here \in {Hole, Decimal[Port]}
        BY <1>0, <1>1, <1>3, <3>1 DEF ReadingPort
      <4>2. CASE here = Hole
        <5>1. NumbersIn(here) = {}
          BY <4>2, NumbersRead
        <5>2. set = r.target
          BY <3>1, <5>1 DEF Assign
        <5> QED
          BY <5>2 DEF ReadingPort
      <4>3. CASE here = Decimal[Port]
        <5>1. NumbersIn(here) = {Port} /\ (CHOOSE k \in {Port} : TRUE) = Port
          BY <4>3, NumbersRead, PortNumbers
        <5>2. set = SetPort(r.target, Port)
          BY <3>1, <5>1 DEF Assign
        <5> QED
          BY <5>2, PortNumbers DEF ReadingPort, SetPort, Target
      <4> QED
        BY <4>1, <4>2, <4>3
    <3>2. CASE r.flag = "IP_ADDRESS_FLAG"
      <4>1. set = [r.target EXCEPT !.ip_addres_ = here]
        BY <3>2 DEF Assign
      <4> QED
        BY <1>1, <1>3, <4>1 DEF ReadingPort, Target
    <3>3. CASE r.flag = "TIME_DUR_FLAG"
      <4>1. CASE NumbersIn(here) = {}
        BY <3>3, <4>1 DEF Assign, ReadingPort
      <4>2. CASE NumbersIn(here) # {}
        <5> DEFINE k == CHOOSE k \in NumbersIn(here) : TRUE
        <5>1. k \in 0..MaxNumber
          BY <4>2 DEF NumbersIn
        <5>2. set = [r.target EXCEPT !.time_dur_ = k]
          BY <3>3, <4>2 DEF Assign
        <5> HIDE DEF k
        <5> QED
          BY <5>1, <5>2 DEF ReadingPort, Target
      <4> QED
        BY <4>1, <4>2
    <3> QED
      BY <1>3, <3>1, <3>2, <3>3 DEF ReadingPort, Flags
  <2> HIDE DEF set
  <2>3. Reading("", set).flag = "" /\ Reading("", set).target = set
    BY DEF Reading
  <2> QED
    BY <1>0, <2>1, <2>2, <2>3 DEF ReadingPort, here
<1>4. CASE here # Missing /\ r.flag = ""
  <2>1. CASE here \in Flags
    <3> DEFINE t == [r.target EXCEPT !.is_parsed_ = TRUE]
    <3>1. ReadLine(r, here) = Reading(here, t)
      BY <1>4, <2>1 DEF ReadLine, Reading
    <3>2. t \in Target /\ t.port_ = Port
      BY DEF ReadingPort, Target
    <3> HIDE DEF t
    <3>3. Reading(here, t).flag = here /\ Reading(here, t).target = t
      BY DEF Reading
    <3> QED
      BY <1>0, <1>1, <2>1, <3>1, <3>2, <3>3 DEF ReadingPort, here
  <2>2. CASE here \notin Flags
    <3>1. ReadLine(r, here) = r
      BY <1>4, <2>2 DEF ReadLine
    <3> QED
      BY <1>0, <1>4, <3>1 DEF ReadingPort, here
  <2> QED
    BY <2>1, <2>2
<1> QED
  BY <1>2, <1>3, <1>4

\* However much of the file is there, a process that reads it keeps its port.
LEMMA ReadKeepsPort ==
  ASSUME NEW t \in Target, t.port_ = Port
  PROVE  Read(t, Content) \in Target /\ Read(t, Content).port_ = Port
<1>1. Len(Content) = 6
  BY DEF Content, Lines
<1>2. PICK r : ReadInOrder(r, t, Content)
  BY <1>1, ReadsInOrder
<1>3. r[0].flag = "" /\ r[0].target = t
  <2>1. Reading("", t).flag = "" /\ Reading("", t).target = t
    BY DEF Reading
  <2> QED
    BY <1>2, <2>1 DEF ReadInOrder
<1>4. ReadingPort(r[0], 0)
  BY <1>3 DEF ReadingPort
<1>5. ReadingPort(r[1], 1)
  <2>1. 1 \in Lines /\ 1 - 1 = 0
    BY DEF Lines
  <2>2. r[1] = ReadLine(r[0], Content[1])
    BY <1>2 DEF ReadInOrder
  <2> QED
    BY <1>4, <2>1, <2>2, LineKeepsPort
<1>6. ReadingPort(r[2], 2)
  <2>1. 2 \in Lines /\ 2 - 1 = 1
    BY DEF Lines
  <2>2. r[2] = ReadLine(r[1], Content[2])
    BY <1>2 DEF ReadInOrder
  <2> QED
    BY <1>5, <2>1, <2>2, LineKeepsPort
<1>7. ReadingPort(r[3], 3)
  <2>1. 3 \in Lines /\ 3 - 1 = 2
    BY DEF Lines
  <2>2. r[3] = ReadLine(r[2], Content[3])
    BY <1>2 DEF ReadInOrder
  <2> QED
    BY <1>6, <2>1, <2>2, LineKeepsPort
<1>8. ReadingPort(r[4], 4)
  <2>1. 4 \in Lines /\ 4 - 1 = 3
    BY DEF Lines
  <2>2. r[4] = ReadLine(r[3], Content[4])
    BY <1>2 DEF ReadInOrder
  <2> QED
    BY <1>7, <2>1, <2>2, LineKeepsPort
<1>9. ReadingPort(r[5], 5)
  <2>1. 5 \in Lines /\ 5 - 1 = 4
    BY DEF Lines
  <2>2. r[5] = ReadLine(r[4], Content[5])
    BY <1>2 DEF ReadInOrder
  <2> QED
    BY <1>8, <2>1, <2>2, LineKeepsPort
<1>10. ReadingPort(r[6], 6)
  <2>1. 6 \in Lines /\ 6 - 1 = 5
    BY DEF Lines
  <2>2. r[6] = ReadLine(r[5], Content[6])
    BY <1>2 DEF ReadInOrder
  <2> QED
    BY <1>9, <2>1, <2>2, LineKeepsPort
<1> QED
  BY <1>2, <1>10 DEF ReadInOrder, ReadingPort

LEMMA LoadKeepsPort ==
  ASSUME NEW t \in Target, t.port_ = Port
  PROVE  fileParser(t, Content) \in Target /\ fileParser(t, Content).port_ = Port
BY ReadKeepsPort DEF fileParser

-----------------------------------------------------------------------------
(***************************************************************************)
(* Types and the address.                                                  *)
(***************************************************************************)
\* the port before, while and after it is bound
AddressInv ==
  /\ main \in {"save", "write", "bind"} => bound = 0
  /\ main \in {"save", "write"} => targetPoint.port_ = Port
  /\ OwnAddress

StartInv == ProcessTypeOK /\ AddressInv

LEMMA StartInit == ProcessInit => StartInv
<1> SUFFICES ASSUME ProcessInit PROVE StartInv
  OBVIOUS
<1>1. /\ main = "save" /\ bound = 0 /\ mess_control = "" /\ m_counter = 0 /\ library = FALSE
  BY DEF ProcessInit
<1>2. targetPoint \in Target /\ targetPoint.port_ = Port
  <2>1. targetPoint = SetPort(NoTarget, Port)
    BY DEF ProcessInit
  <2> QED
    BY <2>1, PortNumbers, TargetAssumption DEF SetPort, NoTarget, Target, Missing
<1>3. backlog \in Seq(Messages \cup {"wake"}) /\ commands \in 0..MaxCommands
  <2>1. backlog = <<>> /\ commands = 0
    BY DEF ProcessInit
  <2>2. <<>> \in Seq(Messages \cup {"wake"}) /\ 0 \in 0..MaxCommands
    BY PortNumbers
  <2> QED
    BY <2>1, <2>2
<1>4. /\ sess \in [Sessions -> [pc : SessPC, mess : Messages \cup {"", "wake"}]]
      /\ SessionsTalk
  BY DEF ProcessInit, SessPC, SessionsTalk
<1>5. con \in [Threads -> [pc : ConPC, seen : Int]]
  <2>1. "none" \in ConPC /\ 0 \in Int
    BY DEF ConPC
  <2> QED
    BY <2>1 DEF ProcessInit
<1>6. file \subseteq Lines /\ taken \subseteq Port..(LastPort - 1)
  BY DEF ProcessInit
<1>7. line \in 0..6 /\ other \in -1..6
  <2>1. line = 0 /\ other = -1
    BY DEF ProcessInit
  <2> QED
    BY <2>1
<1>8. Port \in Port..LastPort
  BY PortNumbers
<1>9. ProcessTypeOK
  <2>1. targetPoint.port_ \in Port..LastPort /\ bound \in {0} \cup (Port..LastPort)
    BY <1>1, <1>2, <1>8
  <2>2. mess_control \in Messages \cup {"", "garbled"} /\ m_counter \in Int
    <3>1. "" \in Messages \cup {"", "garbled"} /\ 0 \in Int
      OBVIOUS
    <3> QED
      BY <1>1, <3>1
  <2>3. library \in BOOLEAN
    BY <1>1
  <2> QED
    BY <1>1, <1>2, <1>3, <1>4, <1>5, <1>6, <1>7, <2>1, <2>2, <2>3 DEF ProcessTypeOK
<1> QED
  BY <1>1, <1>2, <1>9 DEF StartInv, AddressInv, OwnAddress

\* The steps of run_server before it listens.
LEMMA StartSteps ==
  ASSUME StartInv, Save \/ WriteLine \/ OtherSaves \/ Load \/ Bind
  PROVE  StartInv'
<1>1. ProcessTypeOK /\ AddressInv
  BY DEF StartInv
<1>2. CASE Save
  BY <1>1, <1>2 DEF Save, StartInv, ProcessTypeOK, SessionsTalk, AddressInv, OwnAddress, netVars, mysqlVars, Lines
<1>3. CASE WriteLine
  <2>1. line \in 0..6 /\ line < 6 /\ line' = line + 1 /\ other' = other /\ other \in -1..6
        /\ file \subseteq 1..6 /\ file' = file \cup {line + 1}
    BY <1>1, <1>3 DEF WriteLine, ProcessTypeOK, Lines
  <2>2. file' \subseteq Lines /\ line' \in 0..6 /\ other' \in -1..6
    BY <2>1 DEF Lines
  <2> QED
    BY <1>1, <1>3, <2>2 DEF WriteLine, StartInv, ProcessTypeOK, SessionsTalk, AddressInv, OwnAddress, netVars, mysqlVars, Lines
<1>4. CASE OtherSaves
  <2>1. /\ other \in -1..6 /\ other < 6 /\ other' = other + 1
        /\ line' = line /\ line \in 0..6
    BY <1>1, <1>4 DEF OtherSaves, ProcessTypeOK
  <2>2. file \subseteq Lines /\ file' = IF other = -1 THEN {} ELSE file \cup {other + 1}
    BY <1>1, <1>4 DEF OtherSaves, ProcessTypeOK
  <2>3. other # -1 => other + 1 \in Lines
    BY <2>1 DEF Lines
  <2>4. file' \subseteq Lines
    BY <2>2, <2>3
  <2>5. line' \in 0..6 /\ other' \in -1..6
    BY <2>1
  <2> QED
    BY <1>1, <1>4, <2>4, <2>5 DEF OtherSaves, StartInv, ProcessTypeOK, SessionsTalk, AddressInv, OwnAddress, netVars, mysqlVars, Lines
<1>5. CASE Load
  <2>1. targetPoint \in Target /\ targetPoint.port_ = Port
    BY <1>1, <1>5 DEF Load, ProcessTypeOK, AddressInv
  <2>2. targetPoint' \in Target /\ targetPoint'.port_ = Port
    BY <1>5, <2>1, LoadKeepsPort DEF Load
  <2>3. Port \in Port..LastPort /\ Port..(Port - 1) = {}
    BY PortNumbers
  <2> QED
    BY <1>1, <1>5, <2>2, <2>3 DEF Load, StartInv, ProcessTypeOK, SessionsTalk, AddressInv, OwnAddress, fileVars,
                                  netVars, mysqlVars
<1>6. CASE Bind
  <2>1. /\ targetPoint \in Target /\ targetPoint.port_ \in Port..LastPort
        /\ bound = 0 /\ Port..(targetPoint.port_ - 1) \subseteq taken
        /\ taken \subseteq Port..(LastPort - 1)
    BY <1>1, <1>6 DEF Bind, ProcessTypeOK, AddressInv, OwnAddress
  <2>2. CASE targetPoint.port_ \in taken
    <3> DEFINE p == targetPoint.port_
    <3>1. targetPoint' = SetPort(targetPoint, p + 1) /\ UNCHANGED <<main, bound>>
      BY <1>6, <2>2 DEF Bind
    <3>2. p \in Int /\ p + 1 \in Port..LastPort /\ p + 1 \in 0..MaxNumber
      BY <2>1, <2>2, PortNumbers
    <3>3. targetPoint' \in Target /\ targetPoint'.port_ = p + 1
      BY <2>1, <3>1, <3>2 DEF SetPort, Target
    <3>4. Port..((p + 1) - 1) \subseteq taken
      BY <2>1, <2>2, PortNumbers
    <3> QED
      BY <1>1, <1>6, <2>1, <3>1, <3>2, <3>3, <3>4
      DEF Bind, StartInv, ProcessTypeOK, SessionsTalk, AddressInv, OwnAddress, fileVars, netVars, mysqlVars
  <2>3. CASE targetPoint.port_ \notin taken
    BY <1>1, <1>6, <2>1, <2>3
    DEF Bind, StartInv, ProcessTypeOK, SessionsTalk, AddressInv, OwnAddress, fileVars, netVars, mysqlVars
  <2> QED
    BY <2>2, <2>3
<1> QED
  BY <1>2, <1>3, <1>4, <1>5, <1>6

\* The steps of a thread's connection object change nothing of the address.
LEMMA ConnectionSteps ==
  ASSUME StartInv, NEW t \in Threads, ConnectionStep(t) \/ StayClosed
  PROVE  StartInv'
<1> DEFINE ConType == [Threads -> [pc : ConPC, seen : Int]]
           SessType == [Sessions -> [pc : SessPC, mess : Messages \cup {"", "wake"}]]
<1>1. /\ con \in ConType /\ m_counter \in Int /\ library \in BOOLEAN /\ sess \in SessType
      /\ SessionsTalk
  BY DEF StartInv, ProcessTypeOK
<1>2. \A u \in Threads, pc \in ConPC :
        /\ con[u].seen \in Int
        /\ [con EXCEPT ![u].pc = pc] \in ConType
        /\ [con EXCEPT ![u] = [pc |-> pc, seen |-> m_counter]] \in ConType
  BY <1>1
<1>3. {"none", "counted", "open", "closed", "instance", "clear", "test", "end"} \subseteq ConPC
  BY DEF ConPC, Counting
<1>4. "reaper" \in Threads
  BY DEF Threads
<1> HIDE DEF ConType
<1>5. con' \in ConType
  BY <1>2, <1>3, <1>4 DEF ConnectionStep, StayClosed, Instance, Counted, Open, BreakConnection, Clear,
                          Uncounted, TestCounter, EndLibrary, Moved
<1>6. m_counter' \in Int
  <2>0. m_counter \in Int
    BY <1>1
  <2>1. \/ m_counter' = m_counter \/ m_counter' = con[t].seen + 1 \/ m_counter' = con[t].seen - 1
    BY DEF ConnectionStep, StayClosed, Instance, Counted, Open, BreakConnection, Clear, Uncounted,
           TestCounter, EndLibrary
  <2>2. con[t].seen \in Int
    BY <1>2, <1>3
  <2> QED
    BY <2>0, <2>1, <2>2
<1>7. library' \in BOOLEAN
  BY <1>1 DEF ConnectionStep, StayClosed, Instance, Counted, Open, BreakConnection, Clear, Uncounted,
              TestCounter, EndLibrary
<1>8. /\ UNCHANGED <<startVars, mess_control, netVars>>
      /\ UNCHANGED <<main, sess>> \/ Leaves(t)
  BY DEF ConnectionStep, StayClosed, Instance, Counted, Open, BreakConnection, Clear, Uncounted,
         TestCounter, EndLibrary, NoOtherChange
<1>9. main' = main \/ main' \in {"off", "test"}
  BY <1>8 DEF Leaves
<1>10. /\ sess' \in SessType
       /\ SessionsTalk'
  <2>1. [pc |-> "idle", mess |-> ""] \in [pc : SessPC, mess : Messages \cup {"", "wake"}]
    BY DEF SessPC
  <2>2. CASE sess' = sess
    BY <1>1, <2>2 DEF SessionsTalk
  <2>3. CASE sess' = [sess EXCEPT ![t] = [pc |-> "idle", mess |-> ""]]
    <3>1. \A s \in Sessions : sess'[s] = sess[s] \/ sess'[s].pc = "idle"
      BY <1>1, <2>3
    <3>2. sess' \in SessType
      BY <1>1, <2>1, <2>3
    <3>3. SessionsTalk'
      BY <1>1, <3>1 DEF SessionsTalk
    <3> QED
      BY <3>2, <3>3
  <2> QED
    BY <1>8, <2>2, <2>3 DEF Leaves
<1> QED
  BY <1>5, <1>6, <1>7, <1>8, <1>9, <1>10 DEF StartInv, ProcessTypeOK, AddressInv, OwnAddress, startVars,
     fileVars, netVars, ConType

\* The steps of the accept loop, of the sessions and of the clients.
LEMMA LoopSteps ==
  ASSUME StartInv,
         \/ TestControl
         \/ \E s \in Sessions : Accept(s) \/ SessionStep(s)
         \/ \E msg \in Messages : Connect(msg)
  PROVE  StartInv'
<1> DEFINE ConType == [Threads -> [pc : ConPC, seen : Int]]
           SessType == [Sessions -> [pc : SessPC, mess : Messages \cup {"", "wake"}]]
           Queue == Seq(Messages \cup {"wake"})
<1>1. /\ con \in ConType /\ sess \in SessType /\ SessionsTalk
      /\ mess_control \in Messages \cup {"", "garbled"}
      /\ backlog \in Queue /\ commands \in 0..MaxCommands
  BY DEF StartInv, ProcessTypeOK
<1>2. UNCHANGED <<startVars, m_counter, library>>
  BY DEF TestControl, Accept, SessionStep, ReadMessage, BeginAssign, EndAssign, AssignDies, Compare,
         WriteExit, WriteExitFails, Wake, Connect, NotMine, mysqlVars
<1>3. main' = main \/ main' \in {"leave", "accept", "test", "dead"}
  BY DEF TestControl, Accept, SessionStep, ReadMessage, BeginAssign, EndAssign, AssignDies, Compare,
         WriteExit, WriteExitFails, Wake, Connect, NotMine
<1>4. con' \in ConType
  <2>1. con' = con \/ con' = [con EXCEPT !["main"].pc = "closed"]
    BY DEF TestControl, Accept, SessionStep, ReadMessage, BeginAssign, EndAssign, AssignDies, Compare,
           WriteExit, WriteExitFails, Wake, Connect, NotMine, Moved, mysqlVars
  <2>2. "main" \in Threads /\ "closed" \in ConPC
    BY DEF Threads, ConPC
  <2> QED
    BY <1>1, <2>1, <2>2
<1>5. backlog' \in Queue /\ commands' \in 0..MaxCommands
  <2>1. \/ UNCHANGED <<backlog, commands>>
        \/ backlog # <<>> /\ backlog' = Tail(backlog) /\ commands' = commands
        \/ backlog' = Append(backlog, "wake") /\ commands' = commands
        \/ /\ \E msg \in Messages : backlog' = Append(backlog, msg)
           /\ commands < MaxCommands /\ commands' = commands + 1
    BY DEF TestControl, Accept, SessionStep, ReadMessage, BeginAssign, EndAssign, AssignDies, Compare,
           WriteExit, WriteExitFails, Wake, Connect, NotMine, netVars
  <2>2. backlog \in Queue /\ commands \in 0..MaxCommands
    BY <1>1
  <2>3. commands' \in 0..MaxCommands
    BY <2>1, <2>2, PortNumbers
  <2>4. backlog' \in Queue
    BY <2>1, <2>2
  <2> QED
    BY <2>3, <2>4
<1>6. sess' \in SessType /\ SessionsTalk'
  <2>1. CASE UNCHANGED sess
    BY <1>1, <2>1 DEF SessionsTalk
  <2>2. ASSUME NEW s \in Sessions, Accept(s)
        PROVE  sess' \in SessType /\ SessionsTalk'
    <3> DEFINE given == [pc |-> "read", mess |-> Head(backlog)]
    <3>1. backlog # <<>> /\ sess' = [sess EXCEPT ![s] = given]
      BY <2>2 DEF Accept
    <3>2. Head(backlog) \in Messages \cup {"wake"}
      <4>1. backlog \in Queue
        BY <1>1
      <4> QED
        BY <3>1, <4>1
    <3>3. /\ given \in [pc : SessPC, mess : Messages \cup {"", "wake"}]
          /\ given.pc = "read" /\ given.mess # ""
      BY <3>2 DEF SessPC, Messages
    <3> HIDE DEF given
    <3>4. sess' \in SessType
      BY <1>1, <3>1, <3>3
    <3>5. \A u \in Sessions : sess'[u] = sess[u] \/ sess'[u] = given
      BY <1>1, <3>1
    <3>6. SessionsTalk'
      BY <1>1, <3>3, <3>5 DEF SessionsTalk
    <3> QED
      BY <3>4, <3>6
  <2>3. ASSUME NEW s \in Sessions, NEW pc \in SessPC, Goes(s, pc),
               (sess[s].mess \in Messages /\ pc # "read") \/ pc = "idle"
        PROVE  sess' \in SessType /\ SessionsTalk'
    <3>1. sess' \in SessType
      BY <1>1, <2>3 DEF Goes
    <3>2. \A u \in Sessions : IF u = s THEN sess'[u].pc = pc /\ sess'[u].mess = sess[s].mess
                                        ELSE sess'[u] = sess[u]
      BY <1>1, <2>3 DEF Goes
    <3>3. SessionsTalk'
      BY <1>1, <2>3, <3>2 DEF SessionsTalk
    <3> QED
      BY <3>1, <3>3
  <2>4. {"idle", "assign", "assigning", "compare", "exit", "connection", "wake"} \subseteq SessPC
    BY DEF SessPC
  <2>5. ASSUME NEW s \in Sessions, SessionStep(s)
        PROVE  sess' \in SessType /\ SessionsTalk'
    <3>1. sess[s].mess \in Messages \cup {"", "wake"}
      BY <1>1
    <3>2. CASE ReadMessage(s)
      <4>1. CASE sess[s].mess = "wake"
        BY <2>3, <2>4, <3>2, <4>1 DEF ReadMessage
      <4>2. CASE sess[s].mess # "wake"
        <5>1. sess[s].mess \in Messages
          BY <1>1, <3>1, <3>2, <4>2 DEF ReadMessage, SessionAt, SessionsTalk
        <5> QED
          BY <2>3, <2>4, <3>2, <4>2, <5>1 DEF ReadMessage
      <4> QED
        BY <4>1, <4>2
    <3>3. CASE BeginAssign(s) \/ EndAssign(s) \/ Compare(s) \/ WriteExit(s)
      <4>1. sess[s].mess \in Messages
        BY <1>1, <3>3 DEF BeginAssign, EndAssign, Compare, WriteExit, SessionAt, SessionsTalk
      <4>2. \E pc \in {"assigning", "compare", "exit", "connection", "wake"} : Goes(s, pc)
        BY <3>3 DEF BeginAssign, EndAssign, Compare, WriteExit
      <4> QED
        BY <2>3, <2>4, <4>1, <4>2
    <3>4. CASE WriteExitFails(s) \/ Wake(s)
      BY <2>3, <2>4, <3>4 DEF WriteExitFails, Wake
    <3>5. CASE AssignDies(s)
      BY <2>1, <3>5 DEF AssignDies
    <3> QED
      BY <2>5, <3>2, <3>3, <3>4, <3>5 DEF SessionStep
  <2> QED
    BY <2>1, <2>2, <2>5 DEF TestControl, Connect
<1>7. mess_control' \in Messages \cup {"", "garbled"}
  <2>0. \A s \in Sessions : sess[s].pc = "assigning" => sess[s].mess \in Messages
    BY <1>1 DEF SessionsTalk
  <2>1. \/ mess_control' \in {mess_control, "garbled"}
        \/ \E s \in Sessions : sess[s].pc = "assigning" /\ mess_control' = sess[s].mess
    BY DEF TestControl, Accept, SessionStep, ReadMessage, BeginAssign, EndAssign, AssignDies, Compare,
           WriteExit, WriteExitFails, Wake, Connect, NotMine, SessionAt
  <2> QED
    BY <1>1, <2>0, <2>1
<1> QED
  BY <1>1, <1>2, <1>3, <1>4, <1>5, <1>6, <1>7
  DEF StartInv, ProcessTypeOK, AddressInv, OwnAddress, startVars, fileVars

LEMMA StartStep ==
  ASSUME StartInv, [Next]_vars
  PROVE  StartInv'
<1>1. CASE UNCHANGED vars
  BY <1>1 DEF StartInv, ProcessTypeOK, SessionsTalk, AddressInv, OwnAddress, vars, startVars, fileVars,
              netVars, mysqlVars
<1>2. CASE Save \/ WriteLine \/ OtherSaves \/ Load \/ Bind
  BY <1>2, StartSteps
<1>3. CASE StayClosed \/ \E t \in Threads : ConnectionStep(t)
  <2>1. "reaper" \in Threads
    BY DEF Threads
  <2> QED
    BY <1>3, <2>1, ConnectionSteps
<1>4. CASE \/ TestControl
           \/ \E s \in Sessions : Accept(s) \/ SessionStep(s)
           \/ \E msg \in Messages : Connect(msg)
  BY <1>4, LoopSteps
<1> QED
  BY <1>1, <1>2, <1>3, <1>4 DEF Next, MainStep

LEMMA StartAlways == Spec => []StartInv
<1>1. ProcessInit => StartInv
  BY StartInit
<1>2. StartInv /\ [Next]_vars => StartInv'
  BY StartStep
<1> QED
  BY <1>1, <1>2, PTL DEF Spec

\* The variables keep their types for any number of sessions and ports, and a session
\* past its read holds a message of a client: so a file that is half written gives no
\* other port, and the ports tried never pass the first free one.
THEOREM ProcessTypes == Spec => []ProcessTypeOK
<1>1. StartInv => ProcessTypeOK
  BY DEF StartInv
<1> QED
  BY <1>1, StartAlways, PTL

\* The address a session connects to in order to wake the accept loop is the one the
\* server listens on, whatever other servers write to target_point.txt meanwhile and
\* however many ports are in use (main.cpp:271-277, 576-625).
THEOREM AddressIsOwn == Spec => []OwnAddress
<1>1. StartInv => OwnAddress
  BY DEF StartInv, AddressInv
<1> QED
  BY <1>1, StartAlways, PTL

-----------------------------------------------------------------------------
(***************************************************************************)
(* The reference count of the MySQL library, for threads that take their   *)
(* turns at it.                                                            *)
(***************************************************************************)
Holding == {"counted", "open", "closed", "clear"}

Holders == {t \in Threads : con[t].pc \in Holding}

Running == main \notin {"leave", "off", "dead"}

CountIsRight == m_counter = Cardinality(Holders)

OneCounts == \A t, u \in Threads : con[t].pc \in Counting /\ con[u].pc \in Counting => t = u

SeenIsCurrent == \A t \in Threads : con[t].pc \in {"instance", "clear"} => con[t].seen = m_counter

EndsUnheld == \A t \in Threads : con[t].pc = "end" => Holders = {}

CountInv == Running => CountIsRight /\ OneCounts /\ SeenIsCurrent /\ EndsUnheld /\ LibraryLives

LEMMA ThreadsFinite ==
  /\ IsFiniteSet(Threads) /\ IsFiniteSet(Holders) /\ Cardinality(Holders) \in Nat
  /\ "main" \in Threads /\ "reaper" \in Threads
<1>1. IsFiniteSet(Sessions \cup {"main"})
  BY ProcessAssumption, FS_AddElement
<1>2. Threads = (Sessions \cup {"main"}) \cup {"reaper"}
  BY DEF Threads
<1>3. IsFiniteSet(Threads)
  BY <1>1, <1>2, FS_AddElement
<1>4. IsFiniteSet(Holders)
  BY <1>3, FS_Subset DEF Holders
<1> QED
  BY <1>3, <1>4, FS_CardinalityType DEF Threads

\* A server that is about to return never runs again.
LEMMA RunsNoMore ==
  ASSUME Next, Running'
  PROVE  Running
<1> SUFFICES ASSUME ~Running PROVE FALSE
  OBVIOUS
<1>1. main \in {"leave", "off", "dead"} /\ main' \notin {"leave", "off", "dead"}
  BY DEF Running
<1>2. ASSUME NEW t \in Threads, ConnectionStep(t)
      PROVE  FALSE
  <2>1. UNCHANGED main \/ (Leaves(t) /\ Alive)
    BY <1>2 DEF ConnectionStep, Instance, Counted, Open, BreakConnection, Clear, Uncounted, TestCounter,
                EndLibrary, NoOtherChange
  <2> QED
    BY <1>1, <2>1 DEF Leaves, Alive
<1>3. ASSUME NEW s \in Sessions, SessionStep(s)
      PROVE  FALSE
  BY <1>1, <1>3 DEF SessionStep, ReadMessage, BeginAssign, EndAssign, AssignDies, Compare, WriteExit,
                    WriteExitFails, Wake, NotMine
<1>4. MainStep \/ OtherSaves \/ StayClosed \/ \E msg \in Messages : Connect(msg)
  BY <1>2, <1>3 DEF Next
<1> QED
  BY <1>1, <1>4 DEF MainStep, Save, WriteLine, Load, Bind, TestControl, Accept, OtherSaves, StayClosed,
                    NoOtherChange, Connect

\* What a step of thread t alone does to the set of those who hold the library.
LEMMA HoldersOf ==
  ASSUME NEW t \in Threads, \A u \in Threads \ {t} : con'[u].pc = con[u].pc
  PROVE  Holders' = IF con'[t].pc \in Holding THEN Holders \cup {t} ELSE Holders \ {t}
BY DEF Holders

LEMMA CountHolders ==
  ASSUME NEW t \in Threads
  PROVE  /\ t \notin Holders => Cardinality(Holders \cup {t}) = Cardinality(Holders) + 1
         /\ t \in Holders => Cardinality(Holders \ {t}) = Cardinality(Holders) - 1
         /\ Cardinality(Holders) <= 0 => Holders = {}
<1>1. IsFiniteSet(Holders) /\ Cardinality(Holders) \in Nat
  BY ThreadsFinite
<1>2. t \notin Holders => Cardinality(Holders \cup {t}) = Cardinality(Holders) + 1
  BY <1>1, FS_AddElement
<1>3. t \in Holders => Cardinality(Holders \ {t}) = Cardinality(Holders) - 1
  BY <1>1, FS_RemoveElement
<1>4. Cardinality(Holders) <= 0 => Holders = {}
  BY <1>1, FS_EmptySet
<1> QED
  BY <1>2, <1>3, <1>4

\* The thread that counts itself in or out.
LEMMA CountStep ==
  ASSUME Serial, ProcessTypeOK, CountInv, Running, NEW t \in Threads,
         ConnectionStep(t) \/ (t = "reaper" /\ StayClosed)
  PROVE  CountIsRight' /\ OneCounts' /\ SeenIsCurrent' /\ EndsUnheld' /\ LibraryLives'
<1>1. CountIsRight /\ OneCounts /\ SeenIsCurrent /\ EndsUnheld /\ LibraryLives
  BY DEF CountInv
<1>2. con \in [Threads -> [pc : ConPC, seen : Int]] /\ m_counter \in Int
  BY DEF ProcessTypeOK
<1>3. \A u \in Threads \ {t} : con'[u] = con[u]
  BY <1>2 DEF ConnectionStep, Instance, Counted, Open, StayClosed, BreakConnection, Clear, Uncounted,
              TestCounter, EndLibrary, Moved
<1>4. Holders' = IF con'[t].pc \in Holding THEN Holders \cup {t} ELSE Holders \ {t}
  BY <1>3, HoldersOf
<1>5. t \in Holders <=> con[t].pc \in Holding
  BY DEF Holders
<1>6. /\ {"instance", "clear", "test", "end"} \cap Holding = {"clear"}
      /\ {"none", "counted", "open", "closed"} \cap Counting = {}
      /\ {"counted", "open", "closed"} \subseteq Holding /\ "none" \notin Holding
      /\ {"instance", "clear", "test", "end"} \subseteq Counting
  BY DEF Counting, Holding
<1>7. ASSUME con[t].pc \in Counting
      PROVE  \A u \in Threads \ {t} : con[u].pc \notin Counting
  BY <1>1, <1>7 DEF OneCounts
<1>8. ASSUME \A u \in Threads \ {t} : con[u].pc \notin Counting
      PROVE  OneCounts'
  BY <1>3, <1>8 DEF OneCounts
<1>9. ASSUME \A u \in Threads \ {t} : con[u].pc \notin Counting,
             con'[t].pc \in {"instance", "clear"} => con'[t].seen = m_counter',
             con'[t].pc = "end" => Holders' = {}
      PROVE  SeenIsCurrent' /\ EndsUnheld'
  BY <1>3, <1>6, <1>9 DEF SeenIsCurrent, EndsUnheld
<1>10. ASSUME library' = library, con'[t].pc # "open"
       PROVE  LibraryLives'
  BY <1>1, <1>3, <1>10 DEF LibraryLives, Running, At
<1>11. CASE Instance(t) \/ Clear(t)
  <2>1. /\ con'[t].pc \in {"instance", "clear"} /\ con'[t].seen = m_counter
        /\ UNCHANGED <<m_counter, library>>
        /\ \A u \in Threads \ {t} : con[u].pc \notin Counting
        /\ con[t].pc \in Holding <=> con'[t].pc \in Holding
    BY <1>2, <1>6, <1>11 DEF Instance, Clear, At, MayCount
  <2>2. Holders' = Holders
    BY <1>4, <1>5, <2>1
  <2>3. CountIsRight'
    BY <1>1, <2>1, <2>2 DEF CountIsRight
  <2> QED
    BY <1>8, <1>9, <1>10, <2>1, <2>3
<1>12. CASE Open(t) \/ BreakConnection(t) \/ (t = "reaper" /\ StayClosed)
  <2>1. /\ con[t].pc \in {"counted", "open"} /\ con'[t].pc \in {"open", "closed"}
        /\ m_counter' = m_counter
        /\ con'[t].pc = "open" => library'
        /\ library => library'
    <3>1. CASE Open(t)
      BY <1>2, <3>1 DEF Open, At, Moved
    <3>2. CASE BreakConnection(t) \/ (t = "reaper" /\ StayClosed)
      BY <1>2, <3>2 DEF BreakConnection, StayClosed, At, Moved
    <3> QED
      BY <1>12, <3>1, <3>2
  <2>2. Holders' = Holders /\ Holders # {}
    BY <1>4, <1>5, <1>6, <2>1
  <2>3. CountIsRight'
    BY <1>1, <2>1, <2>2 DEF CountIsRight
  <2>4. OneCounts'
    BY <1>1, <1>3, <1>6, <2>1 DEF OneCounts
  <2>5. SeenIsCurrent' /\ EndsUnheld'
    BY <1>1, <1>3, <2>1, <2>2 DEF SeenIsCurrent, EndsUnheld
  <2>6. LibraryLives'
    BY <1>1, <1>3, <2>1 DEF LibraryLives, Running, At
  <2> QED
    BY <2>3, <2>4, <2>5, <2>6
<1>13. CASE Counted(t)
  <2>1. /\ con[t].pc = "instance" /\ con'[t].pc = "counted"
        /\ m_counter' = con[t].seen + 1 /\ library' = library
    BY <1>2, <1>13 DEF Counted, At, Moved
  <2>2. m_counter' = m_counter + 1
    BY <1>1, <2>1 DEF SeenIsCurrent
  <2>3. Holders' = Holders \cup {t} /\ t \notin Holders
    BY <1>4, <1>5, <1>6, <2>1
  <2>4. CountIsRight'
    BY <1>1, <2>2, <2>3, CountHolders DEF CountIsRight
  <2> QED
    BY <1>6, <1>7, <1>8, <1>9, <1>10, <2>1, <2>4
<1>14. CASE Uncounted(t)
  <2>1. /\ con[t].pc = "clear" /\ con'[t].pc = "test"
        /\ m_counter' = con[t].seen - 1 /\ library' = library
    BY <1>2, <1>14 DEF Uncounted, At, Moved
  <2>2. m_counter' = m_counter - 1
    BY <1>1, <2>1 DEF SeenIsCurrent
  <2>3. Holders' = Holders \ {t} /\ t \in Holders
    BY <1>4, <1>5, <1>6, <2>1
  <2>4. CountIsRight'
    BY <1>1, <2>2, <2>3, CountHolders DEF CountIsRight
  <2> QED
    BY <1>6, <1>7, <1>8, <1>9, <1>10, <2>1, <2>4
<1>15. CASE TestCounter(t)
  <2>1. /\ con[t].pc = "test" /\ con'[t].pc \in {"none", "end"}
        /\ con'[t].pc = "end" => m_counter <= 0
        /\ UNCHANGED <<m_counter, library>>
    BY <1>2, <1>15 DEF TestCounter, At, Moved
  <2>2. Holders' = Holders
    BY <1>4, <1>5, <1>6, <2>1
  <2>3. CountIsRight'
    BY <1>1, <2>1, <2>2 DEF CountIsRight
  <2>4. con'[t].pc = "end" => Holders' = {}
    BY <1>1, <2>1, <2>2, CountHolders DEF CountIsRight
  <2> QED
    BY <1>6, <1>7, <1>8, <1>9, <1>10, <2>1, <2>3, <2>4
<1>16. CASE EndLibrary(t)
  <2>1. con[t].pc = "end" /\ con'[t].pc = "none" /\ m_counter' = m_counter
    BY <1>2, <1>16 DEF EndLibrary, At, Moved
  <2>2. Holders' = Holders /\ Holders = {}
    BY <1>1, <1>4, <1>5, <1>6, <2>1 DEF EndsUnheld
  <2>3. CountIsRight'
    BY <1>1, <2>1, <2>2 DEF CountIsRight
  <2>4. \A u \in Threads : con'[u].pc \notin Holding
    BY <2>2 DEF Holders
  <2>5. LibraryLives'
    BY <1>6, <2>4 DEF LibraryLives, At
  <2> QED
    BY <1>6, <1>7, <1>8, <1>9, <2>1, <2>3, <2>5
<1> QED
  BY <1>11, <1>12, <1>13, <1>14, <1>15, <1>16 DEF ConnectionStep

\* No other step touches the counter while the server runs.
LEMMA CountUntouched ==
  ASSUME CountInv, Running, UNCHANGED mysqlVars
  PROVE  CountInv'
BY DEF CountInv, Running, CountIsRight, OneCounts, SeenIsCurrent, EndsUnheld, Holders, LibraryLives, At,
       mysqlVars

LEMMA CountInvStep ==
  ASSUME Serial, ProcessTypeOK, CountInv, [Next]_vars
  PROVE  CountInv'
<1> SUFFICES ASSUME Running' PROVE CountInv'
  BY DEF CountInv
<1>1. CASE UNCHANGED vars
  <2>1. Running
    BY <1>1 DEF Running, vars
  <2> QED
    BY <1>1, <2>1, CountUntouched DEF vars
<1>2. CASE Next
  <2>1. Running
    BY <1>2, RunsNoMore
  <2>2. CASE StayClosed \/ \E t \in Threads : ConnectionStep(t)
    <3>1. PICK t \in Threads : ConnectionStep(t) \/ (t = "reaper" /\ StayClosed)
      BY <2>2, ThreadsFinite
    <3> QED
      BY <2>1, <3>1, CountStep DEF CountInv
  <2>3. CASE Save \/ WriteLine \/ OtherSaves \/ Load \/ Bind
    <3>1. UNCHANGED mysqlVars
      BY <2>3 DEF Save, WriteLine, OtherSaves, Load, Bind
    <3> QED
      BY <2>1, <3>1, CountUntouched
  <2>4. CASE TestControl
    <3>1. UNCHANGED con
      BY <2>4 DEF TestControl, Running
    <3>2. UNCHANGED mysqlVars
      BY <2>4, <3>1 DEF TestControl, mysqlVars
    <3> QED
      BY <2>1, <3>2, CountUntouched
  <2>5. CASE \/ \E s \in Sessions : Accept(s) \/ SessionStep(s)
             \/ \E msg \in Messages : Connect(msg)
    <3>1. UNCHANGED mysqlVars
      BY <2>5 DEF Accept, SessionStep, ReadMessage, BeginAssign, EndAssign, AssignDies, Compare, WriteExit,
                  WriteExitFails, Wake, NotMine, Connect
    <3> QED
      BY <2>1, <3>1, CountUntouched
  <2> QED
    BY <1>2, <2>2, <2>3, <2>4, <2>5 DEF Next, MainStep
<1> QED
  BY <1>1, <1>2

LEMMA CountInvInit == ProcessInit => CountInv
<1> SUFFICES ASSUME ProcessInit PROVE CountInv
  OBVIOUS
<1>1. m_counter = 0 /\ \A t \in Threads : con[t].pc = "none"
  BY DEF ProcessInit
<1>2. Holders = {}
  BY <1>1 DEF Holders, Holding
<1>3. CountIsRight
  BY <1>1, <1>2, FS_EmptySet DEF CountIsRight
<1> QED
  BY <1>1, <1>3 DEF CountInv, OneCounts, SeenIsCurrent, EndsUnheld, LibraryLives, Counting, At

\* While the server runs, m_counter is the number of connection objects that exist, and
\* the library is never ended under an open connection, with any number of sessions, if
\* no two threads are in instance() or Clear() at a time (MySQLinit.cpp:10-51).
THEOREM LibraryOutlivesConnections ==
  ASSUME Serial
  PROVE  Spec => []LibraryLives
<1>1. ProcessInit => CountInv
  BY CountInvInit
<1>2. ProcessTypeOK /\ CountInv /\ [Next]_vars => CountInv'
  BY CountInvStep
<1>3. CountInv => LibraryLives
  BY DEF CountInv, Running, LibraryLives
<1>4. Spec => []ProcessTypeOK
  BY ProcessTypes
<1> QED
  BY <1>1, <1>2, <1>3, <1>4, PTL DEF Spec
=============================================================================
