------------------------------ MODULE MCAdapter ------------------------------
(***************************************************************************)
(* Small instances of the client for TLC.  Deposits and commissions are    *)
(* zero; the price is not, so that an offer can fall short of it.          *)
(***************************************************************************)
EXTENDS MarketplaceAdapter

CONSTANTS alice, bob, ogn

Deal(v) == [finalizes |-> 0, affiliate |-> NullAddr, commission |-> 0, value |-> v,
            currency |-> Eth, arbitrator |-> alice]

AskedTerms == Deal(10)
OneKind    == {Deal(10)}
TwoKinds   == {Deal(0), Deal(10)}

\* All that getOffer and getNotifications look at.
StatusEvents ==
  {"ListingCreated", "OfferCreated", "OfferAccepted", "OfferDisputed", "OfferWithdrawn",
   "OfferFinalized", "OfferRuling", "OfferData"}

Wealth == [c \in Currency |-> [a \in Account |-> IF c = Eth THEN 40 ELSE 0]]
=============================================================================
