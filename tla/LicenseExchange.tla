--------------------------- MODULE LicenseExchange ---------------------------
(***************************************************************************)
(* One connection seen from the bytes: both sides fit a text to the size of *)
(* a block, encrypt it, take the zeros out, write, and read once what has   *)
(* arrived of the other side's message.  It shows why LicenseSockets may    *)
(* take a message as whole or not there at all.  Crypto++ is external: the  *)
(* cipher of a text is some block, and only that block, with the phrase it  *)
(* was made with, decrypts to the text.                                     *)
(***************************************************************************)
EXTENDS ZeroCodec

CONSTANTS
  Ciphers,     \* the blocks that encryption may give (a bound)
  Texts,       \* the texts the two programs send (a bound)
  TagSize,     \* 16; the rest of a cipher, 128, is the text
  Secret       \* the phrase each side was built with

Sides == {"client", "server"}

ASSUME ExchangeAssumption ==
  /\ Ciphers \subseteq Block
  /\ TagSize \in 0..Size
  /\ Texts \subseteq Seq(Char)
  /\ DOMAIN Secret = Sides

TextSize == Size - TagSize

VARIABLES
  turn,      \* the side that sends
  step,      \* "send", "sent" or "closed"
  text,      \* what the sender was given to send
  cipher,    \* what it encrypted that to
  wire,      \* what it wrote
  length,    \* how much of it the other side has read, 0 before
  got        \* what the other side has made of it

vars == <<turn, step, text, cipher, wire, length, got>>

Other(side) == IF side = "client" THEN "server" ELSE "client"

Outcome(kind, str) == [kind |-> kind, text |-> str]

Nothing == Outcome("text", <<>>)

ExchangeInit ==
  /\ turn = "client" /\ step = "send"
  /\ text \in Texts /\ cipher \in Ciphers
  /\ wire = <<>> /\ length = 0 /\ got = Nothing

\* pdata, 128 zero bytes overwritten with the text from the front
Fitted(str) == [k \in 1..TextSize |-> IF k <= Len(str) THEN str[k] ELSE 0]

Terminators(str) == {k \in 1..Len(str) : str[k] = 0}

\* rpdata.c_str()
CStr(str) ==
  IF Terminators(str) = {} THEN str
  ELSE LET end == CHOOSE k \in Terminators(str) : \A j \in Terminators(str) : k <= j
       IN SubSeq(str, 1, end - 1)

(* HashVerificationFailed gives an empty string.  cipher.substr(length-16) *)
(* of fewer than 16 characters throws out_of_range, which is not caught    *)
(* here.                                                                   *)
Decrypt_aes(secret, str) ==
  IF Len(str) < TagSize THEN Outcome("out_of_range", <<>>)
  ELSE IF str = cipher /\ secret = Secret[turn] THEN Outcome("text", CStr(Fitted(text)))
  ELSE Nothing

\* Encrypt_aes, deziro, and write_some or write
Send ==
  /\ step = "send"
  /\ step' = "sent"
  /\ wire' = deziro(cipher)
  /\ UNCHANGED <<turn, text, cipher, length, got>>

\* read_some of n characters; who reads less than a text goes no further
Receive(n) ==
  /\ step = "sent"
  /\ length' = n
  /\ got' = Decrypt_aes(Secret[Other(turn)], reziro(Prefix(wire, n)))
  /\ step' = IF got'.text = <<>> THEN "closed" ELSE "answer"
  /\ UNCHANGED <<turn, text, cipher, wire>>

\* the connection breaks: error::eof, or no error and no bytes
Break ==
  /\ step = "sent"
  /\ got' = Outcome("ERROR", <<>>)
  /\ step' = "closed"
  /\ UNCHANGED <<turn, text, cipher, wire, length>>

\* the reader answers with a text of its own
Answer(str, block) ==
  /\ step = "answer"
  /\ turn' = Other(turn) /\ step' = "send"
  /\ text' = str /\ cipher' = block
  /\ wire' = <<>> /\ length' = 0 /\ got' = Nothing

Next ==
  \/ Send
  \/ \E n \in 1..Len(wire) : Receive(n)
  \/ Break
  \/ \E str \in Texts, block \in Ciphers : Answer(str, block)

Spec == ExchangeInit /\ [][Next]_vars

-----------------------------------------------------------------------------
ExchangeTypeOK ==
  /\ turn \in Sides /\ step \in {"send", "sent", "answer", "closed"}
  /\ text \in Texts /\ cipher \in Ciphers
  /\ wire \in Seq(Char) /\ length \in 0..Len(wire)
  /\ got.kind \in {"text", "out_of_range", "ERROR"} /\ got.text \in Seq(Char)

\* No zero byte is written: a position is never sent as the character it is
\* there to avoid (cryptpp_aes.cpp:37-42, the case of SCHAR_MAX).
NoZeroSent == \A k \in 1..Len(wire) : wire[k] # 0

\* Whatever part of a message has been read, reziro looks only at characters of
\* the cipher (cryptpp_aes.cpp:70-76, result[index.front()]).
IndexInside == \A n \in 1..Len(wire) : Named(Prefix(wire, n)) \subseteq 0..(Size - 1)

Sendable(str) == Len(str) <= TextSize /\ Terminators(str) = {}

\* A side that has read the whole message has the text that was sent, if that
\* fits and both were built with the same phrase; one that has read a part of it,
\* or cannot decrypt it, has nothing, never another text (main.cpp:56-102,
\* LicenseControl.cpp:364-412).
ReadIsAllOrNothing ==
  length # 0 =>
    IF length = Len(wire) /\ Secret["client"] = Secret["server"]
    THEN Sendable(text) => got = Outcome("text", text)
    ELSE got.text = <<>>
=============================================================================
