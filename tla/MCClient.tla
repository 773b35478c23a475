------------------------------- MODULE MCClient -------------------------------
(***************************************************************************)
(* A small instance of the client's writes for TLC: two listings, so that  *)
(* two may be created in one block, and offers that do and do not suit.    *)
(* The clock stands: one kind of offer ends by a deadline that is past, so *)
(* that its seller too may finalize it, the other at the time of its       *)
(* acceptance.                                                             *)
(***************************************************************************)
EXTENDS MarketplaceClient

CONSTANTS alice, bob, ogn

Deal(v, finalizes) == [finalizes |-> finalizes, affiliate |-> NullAddr, commission |-> 0, value |-> v,
            currency |-> Eth, arbitrator |-> alice]

AskedTerms == Deal(10, 0)
TwoKinds   == {Deal(0, 2), Deal(10, 0)}

\* All that the calls of this instance look at.
ClientEvents ==
  {"ListingCreated", "OfferCreated", "OfferAccepted", "OfferWithdrawn",
   "OfferFinalized", "OfferRuling", "OfferData"}

Wealth == [c \in Currency |-> [a \in Account |-> IF c = Eth THEN 40 ELSE 1]]
=============================================================================
