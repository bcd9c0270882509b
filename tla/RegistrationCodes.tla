------------------------- MODULE RegistrationCodes --------------------------
(***************************************************************************)
(* Registration implements OneTimeCodes with one buyer for each e-mail.     *)
(* A confirmation has a claim from its SELECT until it gives up or userMicro*)
(* answers its call, whichever is later, unless the e-mail has an account;  *)
(* and the purchase is userMicro's INSERT, wherever the caller is by then.  *)
(***************************************************************************)
EXTENDS Registration

ASSUME NoCodeIsDrawn == NoCode \notin Registers

OfferedBy(row) ==
  IF row = NoRow \/ row.code = NoCode THEN NoCode ELSE row.code.bcrypt

Offered == [e \in Emails |-> OfferedBy(registration_session[e])]

Drawn == {p \in Registers : register[p].pc = "done"}

Pending(q) ==
  /\ confirm[q].pc \in {"create", "await"} \/ confirm[q].call = "sent"
  /\ account_of[confirm[q].email] = NoAccount

ClaimOf(q) == [by |-> q, email |-> confirm[q].email, code |-> confirm[q].code]

Claimed == {ClaimOf(q) : q \in {c \in Confirms : Pending(c)}}

Created == {ClaimOf(q) : q \in {c \in Confirms : confirm[c].call = "created"}}

Codes == INSTANCE OneTimeCodes
           WITH Codes <- Registers, Buyers <- Confirms, OneBuyer <- TRUE,
                offered <- Offered, drawn <- Drawn,
                claims <- Claimed, bought <- Created

(* Whatever races, lost calls and late calls do to a registration, each step *)
(* of it is one that OneTimeCodes allows, or none: only the code on offer    *)
(* gives a claim, only a claim creates an account, and the account ends all  *)
(* other claims on its e-mail, those of calls under way included             *)
(* (registration.go:88-141; account_grpc_adapter.go:67-88).                  *)
CodesAreOffered == Codes!Spec

=============================================================================
