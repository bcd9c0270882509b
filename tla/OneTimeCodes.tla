--------------------------- MODULE OneTimeCodes ----------------------------
(***************************************************************************)
(* What the two flows with a confirmation code promise, without tables,     *)
(* clocks, calls or transactions.                                          *)
(*                                                                         *)
(* An e-mail offers at most one code at a time.  A code is put on offer at  *)
(* most once, by the request that drew it, and may be taken back at any     *)
(* time.  Whoever presents the code while it is on offer has a claim, and a *)
(* claim is turned into one purchase or dropped.                            *)
(*                                                                         *)
(* What a purchase does to the others depends on the goods.  An account is  *)
(* for one buyer (OneBuyer): the other claims on its e-mail are void, and   *)
(* so are later ones.  A pair of tokens is for anybody who has a claim: the *)
(* purchase takes its code off the offer, for good, and nobody can claim    *)
(* with it any more; claims made before stand.                              *)
(***************************************************************************)
CONSTANTS
  Emails,    \* e-mail addresses
  Codes,     \* codes that may be drawn
  Buyers,    \* requests that present a code
  NoCode,    \* an e-mail that offers nothing
  OneBuyer   \* an e-mail has one buyer, ever

VARIABLES
  offered,  \* e-mail -> the code it offers, or NoCode
  drawn,    \* the codes that were drawn
  claims,   \* what was presented and is neither turned into a purchase nor dropped
  bought    \* the purchases

vars == <<offered, drawn, claims, bought>>

Claims == [by : Buyers, email : Emails, code : Codes]

TypeOK ==
  /\ offered \in [Emails -> Codes \cup {NoCode}]
  /\ drawn \subseteq Codes
  /\ claims \subseteq Claims
  /\ bought \subseteq Claims

Init ==
  /\ offered = [e \in Emails |-> NoCode]
  /\ drawn = {}
  /\ claims = {}
  /\ bought = {}

Taken(e) == OneBuyer /\ \E b \in bought : b.email = e

(* A code is drawn, and offered or not; an offer may be replaced by none.   *)
Draw(e, c) ==
  /\ c \notin drawn
  /\ drawn' = drawn \cup {c}
  /\ \E code \in {c, NoCode, offered[e]} : offered' = [offered EXCEPT ![e] = code]
  /\ UNCHANGED <<claims, bought>>

Withdraw(emails) ==
  /\ offered' = [e \in Emails |-> IF e \in emails THEN NoCode ELSE offered[e]]
  /\ UNCHANGED <<drawn, claims, bought>>

Claim(b, e) ==
  /\ offered[e] # NoCode
  /\ ~Taken(e)
  /\ claims' = claims \cup {[by |-> b, email |-> e, code |-> offered[e]]}
  /\ UNCHANGED <<offered, drawn, bought>>

Drop(claim) ==
  /\ claims' = claims \ {claim}
  /\ UNCHANGED <<offered, drawn, bought>>

(* What a purchase leaves of the other claims, and of the offer. *)
Voided(claim) ==
  IF OneBuyer THEN {c \in claims : c.email = claim.email} ELSE {claim}

OfferAfter(claim) ==
  {NoCode} \cup (IF OneBuyer \/ offered[claim.email] # claim.code
                 THEN {offered[claim.email]} ELSE {})

Buy(claim) ==
  /\ bought' = bought \cup {claim}
  /\ claims' = claims \ Voided(claim)
  /\ \E code \in OfferAfter(claim) :
       offered' = [offered EXCEPT ![claim.email] = code]
  /\ UNCHANGED drawn

Next ==
  \/ \E e \in Emails, c \in Codes : Draw(e, c)
  \/ \E emails \in SUBSET Emails : Withdraw(emails)
  \/ \E b \in Buyers, e \in Emails : Claim(b, e)
  \/ \E claim \in claims : Drop(claim) \/ Buy(claim)

Spec == Init /\ [][Next]_vars

=============================================================================
