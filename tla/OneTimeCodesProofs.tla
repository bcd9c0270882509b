------------------------- MODULE OneTimeCodesProofs -------------------------
(***************************************************************************)
(* What follows from OneTimeCodes, and so for whatever implements it.       *)
(***************************************************************************)
EXTENDS OneTimeCodes, TLAPS

(* A code on offer has bought nothing, unless its e-mail is taken anyway. *)
SpentIsNotOffered ==
  \A b \in bought : ~OneBuyer => \A e \in Emails : offered[e] # b.code

(* An e-mail with one buyer has one. *)
BuyersAreAlone ==
  OneBuyer => \A b, d \in bought : b.email = d.email => b = d

(* Why: a code on offer, claimed or spent was drawn, and belongs to one     *)
(* e-mail; and a taken e-mail has no claims.                                *)
DrawnFirst ==
  /\ \A e \in Emails : offered[e] \in drawn \cup {NoCode}
  /\ \A c \in claims \cup bought : c.code \in drawn

OneEmail ==
  /\ \A e, f \in Emails : offered[e] = offered[f] /\ offered[e] # NoCode => e = f
  /\ \A c \in claims \cup bought, e \in Emails : offered[e] = c.code => e = c.email

TakenHasNoClaims == \A c \in claims : ~Taken(c.email)

IInv ==
  /\ TypeOK /\ DrawnFirst /\ OneEmail
  /\ SpentIsNotOffered /\ BuyersAreAlone /\ TakenHasNoClaims

(* Nothing is drawn at the start. *)
LEMMA InvInit == ASSUME NoCode \notin Codes PROVE Init => IInv
  BY DEF Init, IInv, TypeOK, DrawnFirst, OneEmail, SpentIsNotOffered,
     BuyersAreAlone, TakenHasNoClaims, Taken, Claims

(* A code is drawn once, for one e-mail, before it is offered. *)
LEMMA InvDraw ==
  ASSUME NoCode \notin Codes, IInv, NEW e \in Emails, NEW c \in Codes, Draw(e, c)
  PROVE  IInv'
<1> PICK code \in {c, NoCode, offered[e]} : offered' = [offered EXCEPT ![e] = code]
    BY DEF Draw
<1>1. TypeOK' /\ BuyersAreAlone' /\ TakenHasNoClaims'
  BY DEF IInv, TypeOK, Draw, BuyersAreAlone, TakenHasNoClaims, Taken
<1>2. DrawnFirst'
  BY DEF IInv, TypeOK, DrawnFirst, Draw
<1>3. OneEmail'
  BY DEF IInv, TypeOK, DrawnFirst, OneEmail, Draw, Claims
<1>4. SpentIsNotOffered'
  BY DEF IInv, TypeOK, DrawnFirst, SpentIsNotOffered, Draw, Claims
<1> QED BY <1>1, <1>2, <1>3, <1>4 DEF IInv

(* A withdrawn code is offered nowhere. *)
LEMMA InvWithdraw ==
  ASSUME NoCode \notin Codes, IInv, NEW emails \in SUBSET Emails, Withdraw(emails)
  PROVE  IInv'
  BY DEF IInv, TypeOK, DrawnFirst, OneEmail, SpentIsNotOffered, BuyersAreAlone,
     TakenHasNoClaims, Taken, Withdraw, Claims

(* A claim is for what is on offer, under an e-mail that is free. *)
LEMMA InvClaim ==
  ASSUME NoCode \notin Codes, IInv, NEW b \in Buyers, NEW e \in Emails, Claim(b, e)
  PROVE  IInv'
<1> DEFINE new == [by |-> b, email |-> e, code |-> offered[e]]
<1>1. new \in Claims /\ new.code = offered[e] /\ new.email = e
  BY DEF IInv, TypeOK, Claim, Claims
<1>2. claims' = claims \cup {new} /\ UNCHANGED <<offered, drawn, bought>>
  BY DEF Claim
<1> HIDE DEF new
<1>3. TypeOK' /\ SpentIsNotOffered' /\ BuyersAreAlone'
  BY <1>1, <1>2 DEF IInv, TypeOK, SpentIsNotOffered, BuyersAreAlone
<1>4. DrawnFirst' /\ OneEmail'
  BY <1>1, <1>2 DEF IInv, TypeOK, DrawnFirst, OneEmail, Claim
<1>5. TakenHasNoClaims'
  BY <1>1, <1>2 DEF IInv, TakenHasNoClaims, Taken, Claim
<1> QED BY <1>3, <1>4, <1>5 DEF IInv

(* A dropped claim leaves the rest as it was. *)
LEMMA InvDrop ==
  ASSUME NoCode \notin Codes, IInv, NEW claim \in claims, Drop(claim)
  PROVE  IInv'
  BY DEF IInv, TypeOK, DrawnFirst, OneEmail, SpentIsNotOffered, BuyersAreAlone,
     TakenHasNoClaims, Taken, Drop

(* A purchase ends the offer of its code, and with one buyer all claims. *)
LEMMA InvBuy ==
  ASSUME NoCode \notin Codes, IInv, NEW claim \in claims, Buy(claim)
  PROVE  IInv'
<1> PICK code \in OfferAfter(claim) :
           offered' = [offered EXCEPT ![claim.email] = code]
    BY DEF Buy
<1>1. claim \in Claims /\ claim.email \in Emails /\ claim.code \in Codes
  BY DEF IInv, TypeOK, Claims
<1>2. /\ claims' \subseteq claims /\ bought' = bought \cup {claim}
      /\ drawn' = drawn
      /\ code \in {NoCode, offered[claim.email]}
  BY DEF Buy, OfferAfter
<1>3. ~OneBuyer => code # claim.code
  BY <1>1 DEF OfferAfter
<1>4. TypeOK'
  BY <1>1, <1>2 DEF IInv, TypeOK
<1>5. DrawnFirst' /\ OneEmail'
  BY <1>1, <1>2 DEF IInv, TypeOK, DrawnFirst, OneEmail, Claims
<1>6. SpentIsNotOffered'
  BY <1>1, <1>2, <1>3 DEF IInv, TypeOK, OneEmail, SpentIsNotOffered, Claims
<1>7. BuyersAreAlone'
  BY <1>1, <1>2 DEF IInv, BuyersAreAlone, TakenHasNoClaims, Taken
<1>8. TakenHasNoClaims'
  BY <1>1, <1>2 DEF IInv, TakenHasNoClaims, Taken, Buy, Voided
<1> QED BY <1>4, <1>5, <1>6, <1>7, <1>8 DEF IInv

(* Each step preserves the invariant. *)
LEMMA InvStep ==
  ASSUME NoCode \notin Codes, IInv, [Next]_vars
  PROVE  IInv'
<1>1. CASE UNCHANGED vars
  BY <1>1 DEF vars, IInv, TypeOK, DrawnFirst, OneEmail, SpentIsNotOffered,
     BuyersAreAlone, TakenHasNoClaims, Taken
<1>2. CASE Next
  BY <1>2, InvDraw, InvWithdraw, InvClaim, InvDrop, InvBuy DEF Next
<1> QED BY <1>1, <1>2

(* Of a system that implements OneTimeCodes: no e-mail offers a code that   *)
(* has bought a pair of tokens (login.go:222), and no two requests create   *)
(* an account for one e-mail (registration.go:103).                         *)
THEOREM CodesAreSpentOnce ==
  ASSUME NoCode \notin Codes
  PROVE  Spec => [](SpentIsNotOffered /\ BuyersAreAlone)
<1>1. Init => IInv
  BY InvInit
<1>2. IInv /\ [Next]_vars => IInv'
  BY InvStep
<1>3. IInv => SpentIsNotOffered /\ BuyersAreAlone
  BY DEF IInv
<1> QED BY <1>1, <1>2, <1>3, PTL DEF Spec

=============================================================================
