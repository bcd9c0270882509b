--------------------------- MODULE MCRegistration ---------------------------
(* Small instances of Registration for TLC.  Requests and e-mails are        *)
(* interchangeable, each within its own set; liveness is checked without the *)
(* symmetry.                                                                 *)
EXTENDS RegistrationCodes, TLC

Symmetry ==
  Permutations(Emails) \cup Permutations(Registers) \cup Permutations(Confirms)
=============================================================================
