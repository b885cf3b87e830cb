------------------------------ MODULE ZeroCodec ------------------------------
(***************************************************************************)
(* deziro and reziro of cryptpp_aes.cpp: how the zero bytes of a cipher are *)
(* taken out before it is written to a socket and put back afterwards.  A   *)
(* char is signed, and a position is sent in one char.                      *)
(***************************************************************************)
EXTENDS Integers, Sequences, FiniteSets

CONSTANTS
  CharMax,    \* SCHAR_MAX, 127
  Size,       \* the length of a cipher, 144
  A           \* what stands for a zero byte, 'A'

ASSUME CodecAssumption ==
  /\ CharMax \in Nat \ {0} /\ Size \in Nat \ {0}
  /\ Size <= 2 * CharMax
  /\ A \in (-(CharMax + 1))..CharMax /\ A # 0

Char == (-(CharMax + 1))..CharMax

Block == [1..Size -> Char]

\* Mutation: every position is sent relative to SCHAR_MAX.
CodePlain(i) == i - CharMax

\* Mutation: a position is sent as it is.
CodeUnshifted(i) == i

\* index.push(i) or index.push(i - SCHAR_MAX), i counted from 0
Code(i) == IF i = CharMax THEN i ELSE i - CharMax

\* Mutation: the position SCHAR_MAX is not told apart.
DecodePlain(code) == code + CharMax

Decode(code) == IF code # CharMax THEN code + CharMax ELSE code

\* the queue: the positions of the zeros, counted from 1, in ascending order
Zeros(cipher) == {i \in 1..Size : cipher[i] = 0}

Rank(cipher, i) == Cardinality({j \in Zeros(cipher) : j < i}) + 1

NthZero(cipher, n) == CHOOSE i \in Zeros(cipher) : Rank(cipher, i) = n

deziro(cipher) ==
  [k \in 1..(Size + Cardinality(Zeros(cipher))) |->
     IF k > Size THEN Code(NthZero(cipher, k - Size) - 1)
     ELSE IF cipher[k] = 0 THEN A ELSE cipher[k]]

\* the positions, counted from 0, that the characters after the cipher name
Named(str) == {Decode(str[k]) : k \in (Size + 1)..Len(str)}

reziro(str) ==
  [k \in 1..(IF Len(str) > Size THEN Size ELSE Len(str)) |->
     IF k - 1 \in Named(str) /\ str[k] = A THEN 0 ELSE str[k]]

\* what read_some has delivered of a message
Prefix(str, n) == SubSeq(str, 1, n)
=============================================================================
