------------------------------ MODULE MCLogin ------------------------------
(* Small instances of Login for TLC.  Requests, e-mails and accounts are     *)
(* interchangeable, each within its own set; liveness is checked without the *)
(* symmetry.                                                                 *)
EXTENDS LoginCodes, TLC

Symmetry ==
  Permutations(Emails) \cup Permutations(Accounts)
    \cup Permutations(Logins) \cup Permutations(Confirms)
=============================================================================
