---------------------------- MODULE MCMarketplace ----------------------------
(***************************************************************************)
(* Small instances of the marketplace for TLC.                             *)
(***************************************************************************)
EXTENDS MarketplaceEscrow

CONSTANTS alice, bob, ogn, ogn2, dai

Deal(f, a, c, v, cur, arb) ==
  [finalizes |-> f, affiliate |-> a, commission |-> c, value |-> v,
   currency |-> cur, arbitrator |-> arb]

\* In Eth: a window of one tick with a commission for bob.
EthDeal == Deal(1, bob, 1, 1, Eth, alice)

\* Next to it a price in Origin Token itself,
MoneyTerms == {EthDeal, Deal(1, NullAddr, 0, 1, ogn, alice)}

\* or one in a stablecoin, with a deadline that is already a point in time and
\* without arbitrator.
DealTerms == {EthDeal, Deal(3, NullAddr, 0, 2, dai, NullAddr)}

\* Both own Origin Token, and alice owns the token that may replace it.
BothTokens ==
  [c \in Currency |-> [a \in Account |->
     CASE c = Eth  -> IF a = bob THEN 1 ELSE 0
       [] c = ogn  -> 1
       [] OTHER    -> IF a = alice THEN 1 ELSE 0]]

\* alice sells and owns Origin Token, bob buys and owns the currencies.
SellerAndBuyer ==
  [c \in Currency |-> [a \in Account |->
     CASE a = alice -> IF c \in OriginToken THEN 2 ELSE 0
       [] a = bob   -> IF c \in OriginToken THEN 0 ELSE 2]]
=============================================================================
