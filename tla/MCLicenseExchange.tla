-------------------------- MODULE MCLicenseExchange --------------------------
(* A small instance of LicenseExchange for TLC: the positions 0..5 take every  *)
(* case of deziro, and one of them is SCHAR_MAX.                               *)
EXTENDS LicenseExchange, TLC

\* a char that is neither 0 nor A
X == -(CharMax + 1)

SmallCiphers == [1..Size -> {0, A, X}]

SmallTexts == {<<X>>, <<A, X>>, <<X, 0>>, <<X, X, A>>}

SamePhrase == [side \in Sides |-> "Any pre-agreed phrase"]
=============================================================================
