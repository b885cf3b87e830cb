--------------------------- MODULE MCLicenseAdmin ---------------------------
(* Small instances of LicenseAdmin for TLC. *)
EXTENDS LicenseAdmin, TLC

Interchangeable == Permutations(Users) \cup Permutations(Orders) \cup Permutations(Licenses)
=============================================================================
