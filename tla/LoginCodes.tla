----------------------------- MODULE LoginCodes -----------------------------
(***************************************************************************)
(* Login implements OneTimeCodes.  A row that holds the hash of a code      *)
(* offers that code, a request that has been answered has drawn its code, a *)
(* confirmation between its SELECT and its answer has a claim, and a commit *)
(* is a purchase.  Any number of claims may buy.                            *)
(***************************************************************************)
EXTENDS Login

ASSUME NoCodeIsDrawn == NoCode \notin Logins

OfferedBy(row) ==
  IF row = NoRow \/ row.code = NoCode THEN NoCode ELSE row.code.bcrypt

Offered == [e \in Emails |-> OfferedBy(login_session[e])]

Drawn == {p \in Logins : login[p].pc = "done"}

InTransaction(q) == confirm[q].pc \in {"verify", "delete", "issue", "commit"}

ClaimOf(q) == [by |-> q, email |-> confirm[q].email, code |-> confirm[q].code]

Claimed == {ClaimOf(q) : q \in {c \in Confirms : InTransaction(c)}}

Paid == {ClaimOf(q) : q \in {c \in Confirms : confirm[c].paid}}

Codes == INSTANCE OneTimeCodes
           WITH Codes <- Logins, Buyers <- Confirms, OneBuyer <- FALSE,
                offered <- Offered, drawn <- Drawn,
                claims <- Claimed, bought <- Paid

(* Whatever races, failures, rollbacks and account switches do to a login,  *)
(* each step of it is one that OneTimeCodes allows, or none: a code is on   *)
(* offer once, only the code on offer gives a claim, only a claim buys, and *)
(* the purchase ends the offer (login.go:74-122, 183-234;                   *)
(* authenticate_user.go:29-50).                                             *)
CodesAreOffered == Codes!Spec

=============================================================================
