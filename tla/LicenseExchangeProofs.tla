------------------------ MODULE LicenseExchangeProofs ------------------------
(***************************************************************************)
(* reziro undoes deziro for every size, every width of a char and every    *)
(* cipher, and nothing but the whole message is undone to the cipher; from *)
(* that, the invariants of LicenseExchange.                                *)
(***************************************************************************)
EXTENDS LicenseExchange, FiniteSetTheorems, WellFoundedInduction, TLAPS

-----------------------------------------------------------------------------
(***************************************************************************)
(* One position.                                                           *)
(***************************************************************************)

\* A position of the cipher is sent as one character that is not zero, and read
\* back (cryptpp_aes.cpp:39-42, 61-64).
LEMMA CodeInverts ==
  ASSUME NEW i \in 0..(Size - 1)
  PROVE  Code(i) \in Char \ {0} /\ Decode(Code(i)) = i
BY CodecAssumption DEF Code, Decode, Char

-----------------------------------------------------------------------------
(***************************************************************************)
(* The queue of positions: ranks number the zeros from 1 without a gap.    *)
(***************************************************************************)
LEMMA ZerosFinite ==
  ASSUME NEW c \in Block
  PROVE  /\ Zeros(c) \subseteq 1..Size
         /\ IsFiniteSet(Zeros(c)) /\ Cardinality(Zeros(c)) \in Nat
<1>1. Zeros(c) \in SUBSET (1..Size)
  BY DEF Zeros
<1>2. IsFiniteSet(1..Size)
  BY FS_Interval, CodecAssumption
<1>3. IsFiniteSet(Zeros(c))
  BY <1>1, <1>2, FS_Subset
<1> QED
  BY <1>1, <1>3, FS_CardinalityType

LEMMA RankType ==
  ASSUME NEW c \in Block, NEW i \in Zeros(c)
  PROVE  Rank(c, i) \in 1..Cardinality(Zeros(c))
<1> DEFINE before == {j \in Zeros(c) : j < i}
<1>1. /\ IsFiniteSet(before)
      /\ Cardinality(before) <= Cardinality(Zeros(c))
      /\ Cardinality(Zeros(c)) = Cardinality(before) => Zeros(c) = before
  BY ZerosFinite, FS_Subset
<1>2. Cardinality(before) \in Nat
  BY <1>1, FS_CardinalityType
<1>3. i \in Int /\ i \notin before
  BY ZerosFinite
<1>4. Cardinality(before) # Cardinality(Zeros(c))
  BY <1>1, <1>3
<1>5. Rank(c, i) = Cardinality(before) + 1
  BY DEF Rank
<1> QED
  BY <1>1, <1>2, <1>4, <1>5, ZerosFinite

LEMMA RankRises ==
  ASSUME NEW c \in Block, NEW i \in Zeros(c), NEW j \in Zeros(c), i < j
  PROVE  Rank(c, i) # Rank(c, j)
<1> DEFINE before(k) == {h \in Zeros(c) : h < k}
<1>1. i \in Int /\ j \in Int /\ Zeros(c) \subseteq Int
  BY ZerosFinite
<1>2. IsFiniteSet(before(i)) /\ IsFiniteSet(before(j))
  BY ZerosFinite, FS_Subset
<1>3. before(i) \subseteq before(j) /\ i \in before(j) /\ i \notin before(i)
  BY <1>1
<1>4. Cardinality(before(i)) # Cardinality(before(j))
  BY <1>2, <1>3, FS_Subset
<1>5. Cardinality(before(i)) \in Nat /\ Cardinality(before(j)) \in Nat
  BY <1>2, FS_CardinalityType
<1>6. Rank(c, i) = Cardinality(before(i)) + 1 /\ Rank(c, j) = Cardinality(before(j)) + 1
  BY DEF Rank
<1> HIDE DEF before
<1> QED
  BY <1>4, <1>5, <1>6

LEMMA RankInjective ==
  ASSUME NEW c \in Block, NEW i \in Zeros(c), NEW j \in Zeros(c), Rank(c, i) = Rank(c, j)
  PROVE  i = j
<1>1. i \in Int /\ j \in Int
  BY ZerosFinite
<1> QED
  BY <1>1, RankRises

LEMMA NthOfRank ==
  ASSUME NEW c \in Block, NEW i \in Zeros(c)
  PROVE  NthZero(c, Rank(c, i)) = i
BY RankInjective DEF NthZero

LEMMA NthIsZero ==
  ASSUME NEW c \in Block, NEW n \in 1..Cardinality(Zeros(c))
  PROVE  NthZero(c, n) \in Zeros(c) /\ Rank(c, NthZero(c, n)) = n
<1> DEFINE S == Zeros(c)
           T == 1..Cardinality(Zeros(c))
           f == [i \in S |-> Rank(c, i)]
<1>1. f \in Injection(S, T)
  BY RankType, RankInjective DEF Injection, IsInjective
<1>2. IsFiniteSet(T) /\ Cardinality(T) = Cardinality(S)
  <2>1. Cardinality(S) \in Nat
    BY ZerosFinite
  <2> QED
    BY <2>1, FS_Interval
<1>3. f \in Surjection(S, T)
  <2> HIDE DEF f, S, T
  <2> QED
    BY <1>1, <1>2, FS_Injection
<1>4. \E i \in S : f[i] = n
  BY <1>3 DEF Surjection
<1> QED
  BY <1>4 DEF NthZero

-----------------------------------------------------------------------------
(***************************************************************************)
(* The message.                                                            *)
(***************************************************************************)
LEMMA DeziroType ==
  ASSUME NEW c \in Block
  PROVE  /\ deziro(c) \in Seq(Char \ {0})
         /\ Len(deziro(c)) = Size + Cardinality(Zeros(c))
         /\ Len(deziro(c)) \in Nat /\ Size <= Len(deziro(c))
<1> DEFINE len == Size + Cardinality(Zeros(c))
<1>1. len \in Nat /\ Size <= len
  BY ZerosFinite, CodecAssumption
<1>2. ASSUME NEW k \in 1..len
      PROVE  deziro(c)[k] \in Char \ {0}
  <2>1. CASE k > Size
    <3>1. k - Size \in 1..Cardinality(Zeros(c))
      BY <2>1, ZerosFinite, CodecAssumption
    <3>2. NthZero(c, k - Size) - 1 \in 0..(Size - 1)
      BY <3>1, NthIsZero, ZerosFinite, CodecAssumption
    <3> QED
      BY <2>1, <3>2, CodeInverts DEF deziro
  <2>2. CASE ~(k > Size)
    <3>1. k \in 1..Size
      BY <2>2, CodecAssumption, <1>1
    <3>2. c[k] \in Char
      BY <3>1 DEF Block
    <3> QED
      BY <2>2, <3>2, CodecAssumption DEF deziro, Char
  <2> QED
    BY <2>1, <2>2
<1>3. deziro(c) = [k \in 1..len |-> deziro(c)[k]]
  BY DEF deziro
<1>4. deziro(c) \in [1..len -> Char \ {0}]
  BY <1>2, <1>3
<1>5. deziro(c) \in Seq(Char \ {0}) /\ Len(deziro(c)) = len
  <2> HIDE DEF len
  <2> QED
    BY <1>1, <1>4
<1> QED
  BY <1>1, <1>5

\* A part of the message names the zeros whose codes it holds.
LEMMA NamedPart ==
  ASSUME NEW c \in Block, NEW n \in 1..Len(deziro(c))
  PROVE  /\ Len(Prefix(deziro(c), n)) = n
         /\ \A k \in 1..n : Prefix(deziro(c), n)[k] = deziro(c)[k]
         /\ \A p : p \in Named(Prefix(deziro(c), n)) <=>
                     \E i \in Zeros(c) : p = i - 1 /\ Size + Rank(c, i) <= n
<1> DEFINE d == deziro(c)
           part == Prefix(d, n)
<1>1. d \in Seq(Char \ {0}) /\ Len(d) = Size + Cardinality(Zeros(c)) /\ Len(d) \in Nat
  BY DeziroType
<1>2. Len(part) = n /\ \A k \in 1..n : part[k] = d[k]
  <2> HIDE DEF d
  <2> QED
    BY <1>1 DEF Prefix
<1>3. Size \in Nat /\ Cardinality(Zeros(c)) \in Nat
  BY ZerosFinite, CodecAssumption
<1>4. ASSUME NEW m \in 1..Cardinality(Zeros(c))
      PROVE  Decode(d[Size + m]) = NthZero(c, m) - 1
  <2>1. NthZero(c, m) - 1 \in 0..(Size - 1)
    BY NthIsZero, ZerosFinite, CodecAssumption
  <2>2. Size + m \in 1..(Size + Cardinality(Zeros(c))) /\ Size + m > Size /\ (Size + m) - Size = m
    BY <1>3
  <2>3. d[Size + m] = Code(NthZero(c, m) - 1)
    BY <2>2 DEF deziro
  <2> QED
    BY <2>1, <2>3, CodeInverts
<1>5. ASSUME NEW p, p \in Named(part)
      PROVE  \E i \in Zeros(c) : p = i - 1 /\ Size + Rank(c, i) <= n
  <2>1. PICK k \in (Size + 1)..n : p = Decode(d[k])
    BY <1>2, <1>5, <1>3 DEF Named
  <2>2. k - Size \in 1..Cardinality(Zeros(c)) /\ k = Size + (k - Size)
    BY <1>1, <1>3
  <2>3. p = NthZero(c, k - Size) - 1
    BY <2>1, <2>2, <1>4
  <2>4. NthZero(c, k - Size) \in Zeros(c) /\ Rank(c, NthZero(c, k - Size)) = k - Size
    BY <2>2, NthIsZero
  <2> QED
    BY <2>2, <2>3, <2>4
<1>6. ASSUME NEW i \in Zeros(c), Size + Rank(c, i) <= n
      PROVE  i - 1 \in Named(part)
  <2>1. Rank(c, i) \in 1..Cardinality(Zeros(c))
    BY RankType
  <2>2. Decode(d[Size + Rank(c, i)]) = i - 1
    BY <2>1, <1>4, NthOfRank
  <2>3. Size + Rank(c, i) \in (Size + 1)..n /\ Size + Rank(c, i) \in 1..n
    BY <2>1, <1>3, <1>6, <1>1
  <2>4. Decode(part[Size + Rank(c, i)]) \in Named(part)
    BY <2>3, <1>2 DEF Named
  <2> QED
    BY <2>2, <2>3, <2>4, <1>2
<1> QED
  BY <1>2, <1>5, <1>6

LEMMA ReziroAt ==
  ASSUME NEW c \in Block, NEW n \in 1..Len(deziro(c)), n >= Size, NEW k \in 1..Size
  PROVE  /\ reziro(Prefix(deziro(c), n)) \in [1..Size -> Char]
         /\ c[k] # 0 => reziro(Prefix(deziro(c), n))[k] = c[k]
         /\ c[k] = 0 => reziro(Prefix(deziro(c), n))[k]
                          = IF Size + Rank(c, k) <= n THEN 0 ELSE A
<1> DEFINE part == Prefix(deziro(c), n)
           result == reziro(part)
<1>1. Size \in Nat /\ Len(deziro(c)) \in Nat /\ n \in Nat
  BY DeziroType, CodecAssumption
<1>2. Len(part) = n
  BY NamedPart
<1>3. ASSUME NEW j \in 1..Size
      PROVE  part[j] = IF c[j] = 0 THEN A ELSE c[j]
  <2>1. part[j] = deziro(c)[j]
    BY NamedPart, <1>1
  <2>2. j \in 1..(Size + Cardinality(Zeros(c))) /\ ~(j > Size)
    BY <1>1, ZerosFinite
  <2> QED
    BY <2>1, <2>2 DEF deziro
<1>4. result = [j \in 1..Size |-> IF j - 1 \in Named(part) /\ part[j] = A THEN 0 ELSE part[j]]
  <2>1. (IF Len(part) > Size THEN Size ELSE Len(part)) = Size
    BY <1>1, <1>2
  <2> HIDE DEF part
  <2> QED
    BY <2>1 DEF reziro
<1>5. ASSUME NEW j \in 1..Size, c[j] # 0
      PROVE  j - 1 \notin Named(part)
  <2>1. SUFFICES ASSUME NEW i \in Zeros(c), j - 1 = i - 1
                 PROVE  FALSE
    BY NamedPart
  <2>2. i = j
    BY <2>1, ZerosFinite
  <2> QED
    BY <2>2, <1>5 DEF Zeros
<1>6. ASSUME NEW j \in 1..Size, c[j] = 0
      PROVE  j - 1 \in Named(part) <=> Size + Rank(c, j) <= n
  <2>1. j \in Zeros(c)
    BY <1>6 DEF Zeros
  <2>2. \A i \in Zeros(c) : j - 1 = i - 1 => i = j
    BY ZerosFinite
  <2> QED
    BY <2>1, <2>2, NamedPart
<1>7. \A j \in 1..Size : c[j] \in Char
  BY DEF Block
<1>8. A \in Char /\ 0 \in Char
  BY CodecAssumption DEF Char
<1> HIDE DEF part, result
<1>9. result \in [1..Size -> Char]
  BY <1>3, <1>4, <1>7, <1>8
<1>10. c[k] # 0 => result[k] = c[k]
  BY <1>3, <1>4, <1>5
<1>11. c[k] = 0 => result[k] = IF Size + Rank(c, k) <= n THEN 0 ELSE A
  BY <1>3, <1>4, <1>6
<1> QED
  BY <1>9, <1>10, <1>11 DEF result, part

LEMMA SameBlock ==
  ASSUME NEW f \in [1..Size -> Char], NEW g \in [1..Size -> Char],
         \A k \in 1..Size : f[k] = g[k]
  PROVE  f = g
<1>1. f = [k \in 1..Size |-> f[k]] /\ g = [k \in 1..Size |-> g[k]]
  OBVIOUS
<1> QED
  BY <1>1, Zenon

\* deziro followed by reziro gives the cipher back, for every cipher.
THEOREM CodecInverts ==
  ASSUME NEW c \in Block
  PROVE  reziro(Prefix(deziro(c), Len(deziro(c)))) = c
<1> DEFINE n == Len(deziro(c))
           result == reziro(Prefix(deziro(c), n))
<1>1. n \in 1..n /\ n >= Size /\ 1 \in 1..Size /\ n = Size + Cardinality(Zeros(c))
  BY DeziroType, CodecAssumption
<1>2. result \in [1..Size -> Char]
  BY <1>1, ReziroAt
<1>3. ASSUME NEW k \in 1..Size
      PROVE  result[k] = c[k]
  <2>1. CASE c[k] # 0
    BY <1>1, <2>1, ReziroAt
  <2>2. CASE c[k] = 0
    <3>1. Rank(c, k) \in 1..Cardinality(Zeros(c))
      BY <2>2, RankType DEF Zeros
    <3>2. Size + Rank(c, k) <= n
      BY <3>1, <1>1, CodecAssumption, ZerosFinite
    <3> QED
      BY <1>1, <2>2, <3>2, ReziroAt
  <2> QED
    BY <2>1, <2>2
<1>4. c \in [1..Size -> Char]
  BY DEF Block
<1> QED
  BY <1>2, <1>3, <1>4, SameBlock

\* A part of a message is never restored to the cipher: it is too short, or the
\* last zero is still an A.
THEOREM PartDiffers ==
  ASSUME NEW c \in Block, NEW n \in 1..Len(deziro(c)), n # Len(deziro(c))
  PROVE  reziro(Prefix(deziro(c), n)) # c
<1> DEFINE part == Prefix(deziro(c), n)
           result == reziro(part)
<1>0. Size \in Nat \ {0} /\ n \in Nat /\ Len(part) = n
  BY DeziroType, NamedPart, CodecAssumption
<1>1. CASE n < Size
  <2>1. (IF Len(part) > Size THEN Size ELSE Len(part)) = n
    BY <1>0, <1>1
  <2>2. DOMAIN result = 1..n
    <3> HIDE DEF part
    <3> QED
      BY <2>1 DEF reziro
  <2>3. DOMAIN c = 1..Size
    BY DEF Block
  <2>4. Size \in 1..Size /\ Size \notin 1..n
    BY <1>0, <1>1
  <2> QED
    BY <2>2, <2>3, <2>4
<1>2. CASE n >= Size
  <2> DEFINE last == Cardinality(Zeros(c))
             k == NthZero(c, last)
  <2>1. last \in 1..last /\ n < Size + last
    BY <1>0, <1>2, DeziroType, ZerosFinite
  <2>2. k \in Zeros(c) /\ Rank(c, k) = last
    BY <2>1, NthIsZero
  <2>3. k \in 1..Size /\ c[k] = 0
    BY <2>2 DEF Zeros
  <2>4. ~(Size + Rank(c, k) <= n)
    BY <2>1, <2>2, <1>0, ZerosFinite
  <2>5. result[k] = A
    BY <2>3, <2>4, <1>2, ReziroAt
  <2>6. A # 0
    BY CodecAssumption
  <2> QED
    BY <2>3, <2>5, <2>6
<1> QED
  BY <1>0, <1>1, <1>2

-----------------------------------------------------------------------------
(***************************************************************************)
(* The exchange.                                                           *)
(***************************************************************************)

\* What a reader has made of the part it has read.
ReadInv ==
  /\ turn \in Sides /\ step \in {"send", "sent", "answer", "closed"}
  /\ text \in Texts /\ cipher \in Ciphers
  /\ wire = <<>> \/ wire = deziro(cipher)
  /\ step = "send" => length = 0
  /\ step = "sent" => wire = deziro(cipher) /\ length = 0
  /\ length = 0 \/ (length \in 1..Len(wire) /\ wire = deziro(cipher))
  /\ length = 0 => got.text = <<>> /\ got.kind \in {"text", "ERROR"}
  /\ length # 0 => got = Decrypt_aes(Secret[Other(turn)], reziro(Prefix(wire, length)))

LEMMA WireType ==
  ASSUME cipher \in Ciphers, wire = <<>> \/ wire = deziro(cipher)
  PROVE  wire \in Seq(Char \ {0}) /\ Len(wire) \in Nat /\ cipher \in Block
<1>1. cipher \in Block
  BY ExchangeAssumption
<1>2. CASE wire = <<>>
  BY <1>1, <1>2
<1>3. CASE wire = deziro(cipher)
  BY <1>1, <1>3, DeziroType
<1> QED
  BY <1>2, <1>3

LEMMA ReadInvInit == ExchangeInit => ReadInv
BY DEF ExchangeInit, ReadInv, Sides, Nothing, Outcome

LEMMA ReadInvStep == ReadInv /\ [Next]_vars => ReadInv'
<1> SUFFICES ASSUME ReadInv, [Next]_vars
             PROVE  ReadInv'
  OBVIOUS
<1> USE DEF ReadInv
<1>1. CASE Send
  BY <1>1 DEF Send
<1>2. ASSUME NEW n \in 1..Len(wire), Receive(n)
      PROVE  ReadInv'
  <2>1. Len(wire) \in Nat
    BY WireType
  <2>2. n # 0 /\ wire = deziro(cipher)
    BY <1>2, <2>1 DEF Receive
  <2>3. got' = Decrypt_aes(Secret[Other(turn)], reziro(Prefix(wire, n)))'
    BY <1>2 DEF Receive, Decrypt_aes, Nothing, Outcome, CStr, Fitted, Terminators, Other
  <2>4. step' \in {"closed", "answer"}
    BY <1>2 DEF Receive
  <2> QED
    BY <1>2, <2>2, <2>3, <2>4 DEF Receive
<1>3. CASE Break
  BY <1>3 DEF Break, Outcome
<1>4. ASSUME NEW str \in Texts, NEW block \in Ciphers, Answer(str, block)
      PROVE  ReadInv'
  BY <1>4 DEF Answer, Nothing, Outcome, Other, Sides
<1>5. CASE UNCHANGED vars
  BY <1>5 DEF vars, Decrypt_aes, Nothing, Outcome, CStr, Fitted, Terminators, Other
<1> QED
  BY <1>1, <1>2, <1>3, <1>4, <1>5 DEF Next

LEMMA ReadInvHolds == Spec => []ReadInv
<1> QED
  BY ReadInvInit, ReadInvStep, PTL DEF Spec

\* A text that fits survives pdata and c_str().
LEMMA SendableSurvives ==
  ASSUME NEW str \in Seq(Char), Sendable(str)
  PROVE  CStr(Fitted(str)) = str
<1>0. Len(str) \in Nat /\ TextSize \in Nat /\ Len(str) <= TextSize
  BY ExchangeAssumption, CodecAssumption DEF TextSize, Sendable
<1>1. \A k \in 1..Len(str) : str[k] # 0 /\ str[k] \in Char
  BY DEF Sendable, Terminators
<1>2. Fitted(str) \in Seq(Char) /\ Len(Fitted(str)) = TextSize
  <2>1. Fitted(str) \in [1..TextSize -> Char]
    BY <1>0, <1>1, CodecAssumption DEF Fitted, Char
  <2> QED
    BY <1>0, <2>1
<1>3. \A k \in 1..TextSize : Fitted(str)[k] = IF k <= Len(str) THEN str[k] ELSE 0
  BY DEF Fitted
<1>4. CASE Len(str) = TextSize
  <2>1. Terminators(Fitted(str)) = {}
    BY <1>0, <1>1, <1>2, <1>3, <1>4 DEF Terminators
  <2>2. Fitted(str) = str
    BY <1>0, <1>2, <1>3, <1>4
  <2> QED
    BY <2>1, <2>2 DEF CStr
<1>5. CASE Len(str) # TextSize
  <2> DEFINE ends == Terminators(Fitted(str))
  <2>1. ends = (Len(str) + 1)..TextSize
    BY <1>0, <1>1, <1>2, <1>3 DEF Terminators
  <2>2. Len(str) + 1 \in ends /\ \A j \in ends : Len(str) + 1 <= j
    BY <1>0, <1>5, <2>1
  <2> DEFINE end == CHOOSE k \in ends : \A j \in ends : k <= j
  <2>3. end \in ends /\ \A j \in ends : end <= j
    BY <2>2
  <2>4. end = Len(str) + 1
    <3> HIDE DEF end
    <3> QED
      BY <1>0, <2>1, <2>2, <2>3
  <2>5. CStr(Fitted(str)) = SubSeq(Fitted(str), 1, end - 1)
    BY <2>2 DEF CStr
  <2>6. end - 1 = Len(str)
    <3> HIDE DEF end
    <3> QED
      BY <1>0, <2>4
  <2>7. SubSeq(Fitted(str), 1, Len(str)) = str
    BY <1>0, <1>1, <1>2, <1>3
  <2> QED
    BY <2>5, <2>6, <2>7
<1> QED
  BY <1>4, <1>5

LEMMA DecryptRight ==
  ASSUME ReadInv, length # 0
  PROVE  IF length = Len(wire) /\ Secret["client"] = Secret["server"]
         THEN got = Outcome("text", CStr(Fitted(text)))
         ELSE got.text = <<>>
<1>1. cipher \in Block /\ wire = deziro(cipher) /\ length \in 1..Len(wire)
  BY WireType DEF ReadInv
<1>2. got = Decrypt_aes(Secret[Other(turn)], reziro(Prefix(wire, length)))
  BY DEF ReadInv
<1>3. Secret[Other(turn)] = Secret[turn] <=> Secret["client"] = Secret["server"]
  BY DEF ReadInv, Other, Sides
<1>4. CASE length = Len(wire)
  <2>1. reziro(Prefix(wire, length)) = cipher
    BY <1>1, <1>4, CodecInverts
  <2>2. ~(Len(cipher) < TagSize)
    <3>1. Size \in Nat /\ Len(cipher) = Size
      BY <1>1, CodecAssumption DEF Block
    <3> QED
      BY <3>1, ExchangeAssumption
  <2> QED
    BY <1>2, <1>3, <1>4, <2>1, <2>2 DEF Decrypt_aes, Nothing, Outcome
<1>5. CASE length # Len(wire)
  <2>1. reziro(Prefix(wire, length)) # cipher
    BY <1>1, <1>5, PartDiffers
  <2> QED
    BY <1>2, <1>5, <2>1 DEF Decrypt_aes, Nothing, Outcome
<1> QED
  BY <1>4, <1>5

LEMMA LeastExists ==
  ASSUME NEW S \in SUBSET Nat, S # {}
  PROVE  \E k \in S : \A j \in S : k <= j
<1> DEFINE below == OpToRel(<, Nat)
<1>1. IsWellFoundedOn(below, Nat)
  BY NatLessThanWellFounded
<1>2. PICK k \in S : \A j \in S : ~(<<j, k>> \in below)
  <2> HIDE DEF below
  <2> QED
    BY <1>1, WFMin
<1>3. \A j \in S : j < k => <<j, k>> \in below
  BY DEF OpToRel
<1> HIDE DEF below
<1>4. \A j \in S : ~(j < k)
  BY <1>2, <1>3
<1>5. \A j \in S : j \in Int /\ k \in Int
  OBVIOUS
<1> QED
  BY <1>4, <1>5

\* Whatever the text, what c_str() leaves of it is a text.
LEMMA CStrType ==
  ASSUME NEW str \in Seq(Char)
  PROVE  CStr(Fitted(str)) \in Seq(Char)
<1> DEFINE block == Fitted(str)
           ends == Terminators(block)
           end == CHOOSE k \in ends : \A j \in ends : k <= j
<1>1. TextSize \in Nat /\ Len(str) \in Nat /\ 0 \in Char
  BY ExchangeAssumption, CodecAssumption DEF TextSize, Char
<1>2. \A k \in 1..Len(str) : str[k] \in Char
  OBVIOUS
<1>3. block \in [1..TextSize -> Char]
  BY <1>1, <1>2 DEF Fitted
<1> HIDE DEF block
<1>4. block \in Seq(Char) /\ Len(block) = TextSize
  BY <1>1, <1>3
<1>5. CASE ends = {}
  BY <1>4, <1>5 DEF CStr, block
<1>6. CASE ends # {}
  <2>1. CStr(block) = SubSeq(block, 1, end - 1)
    BY <1>6 DEF CStr
  <2>2. ends \subseteq 1..TextSize
    BY <1>4 DEF Terminators
  <2>3. \E k \in ends : \A j \in ends : k <= j
    <3>1. ends \subseteq Nat /\ ends # {}
      BY <1>1, <1>6, <2>2
    <3> HIDE DEF ends
    <3> QED
      BY <3>1, LeastExists
  <2>4. end \in 1..TextSize
    BY <2>2, <2>3
  <2> HIDE DEF end
  <2>5. SubSeq(block, 1, end - 1) \in Seq(Char)
    BY <1>1, <1>4, <2>4
  <2> QED
    BY <2>1, <2>5 DEF block
<1> QED
  BY <1>5, <1>6

\* The variables keep their types for any size, cipher and text: a code is a character,
\* what is written is no longer than what is read of it, and what a reader makes of it
\* is a text or one of the two failures.
THEOREM ExchangeTypes == Spec => []ExchangeTypeOK
<1>1. ReadInv => ExchangeTypeOK
  <2> SUFFICES ASSUME ReadInv PROVE ExchangeTypeOK
    OBVIOUS
  <2>1. /\ turn \in Sides /\ step \in {"send", "sent", "answer", "closed"}
        /\ text \in Texts /\ cipher \in Ciphers /\ text \in Seq(Char)
    BY ExchangeAssumption DEF ReadInv
  <2>2. wire \in Seq(Char \ {0}) /\ Len(wire) \in Nat
    BY WireType DEF ReadInv
  <2>3. wire \in Seq(Char) /\ length \in 0..Len(wire)
    BY <2>2 DEF ReadInv
  <2>4. <<>> \in Seq(Char) /\ CStr(Fitted(text)) \in Seq(Char)
    BY <2>1, CStrType
  <2>5. got.kind \in {"text", "out_of_range", "ERROR"} /\ got.text \in Seq(Char)
    <3>1. CASE length = 0
      BY <2>4, <3>1 DEF ReadInv
    <3>2. CASE length # 0
      <4>1. got = Decrypt_aes(Secret[Other(turn)], reziro(Prefix(wire, length)))
        BY <3>2 DEF ReadInv
      <4>2. \/ got = Outcome("out_of_range", <<>>) \/ got = Outcome("text", <<>>)
            \/ got = Outcome("text", CStr(Fitted(text)))
        BY <4>1 DEF Decrypt_aes, Nothing
      <4>3. \A k, t : Outcome(k, t).kind = k /\ Outcome(k, t).text = t
        BY DEF Outcome
      <4>4. got.kind \in {"text", "out_of_range"} /\ got.text \in {<<>>, CStr(Fitted(text))}
        BY <4>2, <4>3
      <4> QED
        BY <2>4, <4>4
    <3> QED
      BY <3>1, <3>2
  <2> QED
    BY <2>1, <2>3, <2>5 DEF ExchangeTypeOK
<1> QED
  BY <1>1, ReadInvHolds, PTL

\* No zero byte is ever written, for any size, cipher and text.
THEOREM ZerosRemoved == Spec => []NoZeroSent
<1>1. ReadInv => NoZeroSent
  BY WireType DEF ReadInv, NoZeroSent
<1> QED
  BY <1>1, ReadInvHolds, PTL

\* Whatever part of a message arrives, reziro stays inside the cipher.
THEOREM ReziroStaysInside == Spec => []IndexInside
<1>1. ReadInv => IndexInside
  <2> SUFFICES ASSUME ReadInv, NEW n \in 1..Len(wire), NEW p \in Named(Prefix(wire, n))
               PROVE  p \in 0..(Size - 1)
    BY DEF IndexInside
  <2>1. cipher \in Block /\ (wire = <<>> \/ wire = deziro(cipher))
    BY WireType DEF ReadInv
  <2>2. wire = deziro(cipher)
    BY <2>1
  <2>3. PICK i \in Zeros(cipher) : p = i - 1
    BY <2>1, <2>2, NamedPart
  <2> QED
    BY <2>1, <2>3, ZerosFinite, CodecAssumption
<1> QED
  BY <1>1, ReadInvHolds, PTL

\* A read delivers the text that was sent or none, for any size, cipher and text.
THEOREM AllOrNothing == Spec => []ReadIsAllOrNothing
<1>1. ReadInv => ReadIsAllOrNothing
  <2> SUFFICES ASSUME ReadInv, length # 0
               PROVE  IF length = Len(wire) /\ Secret["client"] = Secret["server"]
                      THEN Sendable(text) => got = Outcome("text", text)
                      ELSE got.text = <<>>
    BY DEF ReadIsAllOrNothing
  <2>1. text \in Seq(Char)
    BY ExchangeAssumption DEF ReadInv
  <2> QED
    BY <2>1, DecryptRight, SendableSurvives
<1> QED
  BY <1>1, ReadInvHolds, PTL
=============================================================================
