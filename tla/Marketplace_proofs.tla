-------------------------- MODULE Marketplace_proofs --------------------------
(***************************************************************************)
(* For any accounts, currencies, terms and bounds.  First the contract:    *)
(* it keeps its types, its records stay sound, every escrow is exactly     *)
(* backed, the contract implements the escrow it promises, no money is     *)
(* lost, and Origin Token stays backed but for two calls.  Then its events *)
(* and the client: the log tells every status, what a client reads was     *)
(* true and misses nothing, and what it writes is about what it showed.    *)
(***************************************************************************)
EXTENDS MarketplaceEscrow, MarketplaceClient, NatSum_proofs, SequenceTheorems

(***************************************************************************)
(* The inductive invariant.  RecordsSound adds to AgreedOffersSound what   *)
(* created offers need for it to survive acceptOffer, and that a slot not  *)
(* yet handed out is empty, without which makeOffer could overwrite a      *)
(* stake.  ClockStarted makes an accepted deadline a point in time.        *)
(***************************************************************************)
RecordsSound ==
  \A x \in Slot :
    /\ offers[x].status # Undefined =>
         /\ x[2] < totalOffers[x[1]]
         /\ offers[x].refund <= offers[x].value
         /\ offers[x].affiliate = NullAddr => offers[x].commission = 0
    /\ offers[x].status \in {Accepted, Disputed} =>
         /\ ListingExists(x[1])
         /\ offers[x].finalizes >= RelativeWindow

ClockStarted == now >= StartTime

IInv == TypeOK /\ RecordsSound /\ ClockStarted /\ EscrowExact

Purses == [Currency -> [Holder -> Nat]]

USE DEF Undefined, Created, Accepted, Disputed

-----------------------------------------------------------------------------
(* Moving money.                                                             *)

\* A covered move keeps every balance a natural number.
LEMMA MovedType ==
  ASSUME NEW b \in Purses, NEW c \in Currency, NEW from \in Holder, NEW to,
         NEW v \in Nat, b[c][from] >= v
  PROVE  Moved(b, c, from, to, v) \in Purses
<1> DEFINE p == [b[c] EXCEPT ![from] = @ - v]
           q == [p EXCEPT ![to] = @ + v]
           w == [b EXCEPT ![c] = p]
<1>1. p \in [Holder -> Nat]
  BY DEF Purses
<1>2. w \in Purses /\ w[c] = p
  BY <1>1 DEF Purses
<1>3. q \in [Holder -> Nat]
  <2> HIDE DEF p
  <2>1. CASE to \in Holder
    <3>1. p[to] + v \in Nat
      BY <1>1, <2>1
    <3> QED  BY <1>1, <3>1
  <2>2. CASE to \notin Holder
    BY <1>1, <2>2
  <2> QED  BY <2>1, <2>2
<1>4. Moved(b, c, from, to, v) = [w EXCEPT ![c] = q]
  <2>1. w = [b EXCEPT ![c][from] = @ - v]
    OBVIOUS
  <2>2. [w EXCEPT ![c][to] = @ + v] = [w EXCEPT ![c] = q]
    BY <1>2
  <2> QED  BY <2>1, <2>2 DEF Moved
<1>5. [w EXCEPT ![c] = q] \in Purses
  <2> HIDE DEF w, q
  <2> QED  BY <1>2, <1>3 DEF Purses
<1> QED  BY <1>4, <1>5

\* What an account pays in is what the contract gains.
LEMMA MovedIn ==
  ASSUME NEW b \in Purses, NEW c \in Currency, NEW from \in Account, NEW v \in Nat
  PROVE  \A d \in Currency :
           Moved(b, c, from, Market, v)[d][Market] = IF d = c THEN b[d][Market] + v ELSE b[d][Market]
BY AddressAssumption DEF Moved, Purses, Holder

\* What the contract pays out is what it loses.
LEMMA MovedOut ==
  ASSUME NEW b \in Purses, NEW c \in Currency, NEW to \in Party, NEW v \in Nat
  PROVE  \A d \in Currency :
           Moved(b, c, Market, to, v)[d][Market] = IF d = c THEN b[d][Market] - v ELSE b[d][Market]
BY AddressAssumption DEF Moved, Purses, Holder, Party

-----------------------------------------------------------------------------
(* Sums over offers.                                                         *)

LEMMA SlotFinite == IsFiniteSet(Slot)
<1>1. IsFiniteSet(ListingId) /\ IsFiniteSet(OfferId)
  BY BoundsAssumption, FS_Interval DEF ListingId, OfferId
<1> HIDE DEF ListingId, OfferId
<1> QED  BY <1>1, FS_Product, Zenon DEF Slot

LEMMA StakeType ==
  ASSUME NEW o \in Offer, NEW c
  PROVE  Stake(o, c) \in Nat
BY DEF Stake, Offer

LEMMA OwedType ==
  ASSUME NEW f \in [Slot -> Offer], NEW c
  PROVE  OwedBy(f, c) \in Nat
<1> DEFINE F == [x \in Slot |-> Stake(f[x], c)]
<1>1. F \in [Slot -> Nat]
  BY StakeType
<1> HIDE DEF F
<1>2. Total(F) \in Nat
  BY <1>1, SlotFinite, TotalType
<1> QED  BY <1>2 DEF OwedBy, F

\* Rewriting one offer changes what is owed by the change of its stake.
LEMMA OwedUpdate ==
  ASSUME NEW f \in [Slot -> Offer], NEW g \in [Slot -> Offer], NEW c,
         NEW x \in Slot, \A y \in Slot \ {x} : g[y] = f[y]
  PROVE  OwedBy(g, c) + Stake(f[x], c) = OwedBy(f, c) + Stake(g[x], c)
<1> DEFINE F == [y \in Slot |-> Stake(f[y], c)]
           G == [y \in Slot |-> Stake(g[y], c)]
<1>1. F \in [Slot -> Nat] /\ G \in [Slot -> Nat]
  BY StakeType
<1>2. \A y \in Slot \ {x} : G[y] = F[y]
  OBVIOUS
<1>3. F[x] = Stake(f[x], c) /\ G[x] = Stake(g[x], c)
  OBVIOUS
<1> HIDE DEF F, G
<1>4. Total(G) + F[x] = Total(F) + G[x]
  BY <1>1, <1>2, SlotFinite, TotalUpdate
<1> QED  BY <1>3, <1>4 DEF OwedBy, F, G

-----------------------------------------------------------------------------
(* What it takes to keep the escrow exact.                                   *)

\* A step that leaves the offers alone and moves at most Origin Token.
LEMMA EscrowUntouched ==
  ASSUME EscrowExact, offers' = offers,
         \A c \in Currency \ OriginToken : Held(c)' = Held(c)
  PROVE  EscrowExact'
BY DEF EscrowExact, Owed

\* A step that rewrites one offer and moves the difference in its stake.
LEMMA EscrowMoved ==
  ASSUME TypeOK, TypeOK', EscrowExact, NEW x \in Slot,
         \A y \in Slot \ {x} : offers'[y] = offers[y],
         \A c \in Currency \ OriginToken :
           Held(c)' + Stake(offers[x], c) = Held(c) + Stake(offers'[x], c)
  PROVE  EscrowExact'
<1> SUFFICES ASSUME NEW c \in Currency \ OriginToken
             PROVE  Held(c)' = OwedBy(offers', c)
  BY DEF EscrowExact, Owed
<1>1. offers \in [Slot -> Offer] /\ offers' \in [Slot -> Offer]
  BY DEF TypeOK
<1>2. OwedBy(offers', c) + Stake(offers[x], c) = OwedBy(offers, c) + Stake(offers'[x], c)
  BY <1>1, OwedUpdate
<1>3. Held(c) = OwedBy(offers, c)
  BY DEF EscrowExact, Owed
<1>4. /\ OwedBy(offers', c) \in Nat
      /\ OwedBy(offers, c) \in Nat
      /\ Stake(offers[x], c) \in Nat
      /\ Stake(offers'[x], c) \in Nat
      /\ Held(c)' \in Nat
  <2>1. Held(c)' \in Nat
    BY AddressAssumption DEF TypeOK, Held, Holder
  <2> QED  BY <1>1, <2>1, OwedType, StakeType
<1>5. Held(c)' + Stake(offers[x], c) = OwedBy(offers, c) + Stake(offers'[x], c)
  BY <1>3
<1> QED  BY <1>2, <1>4, <1>5

-----------------------------------------------------------------------------
(* The initial state and the steps on listings.                              *)

LEMMA InitInv == Init => IInv
<1> SUFFICES ASSUME Init  PROVE IInv
  OBVIOUS
<1>1. TypeOK
  BY BoundsAssumption, AddressAssumption, InputAssumption
  DEF Init, TypeOK, NoListing, NoOffer, Listing, Offer, Currency, Party, Holder
<1>2. RecordsSound
  BY DEF Init, RecordsSound, NoOffer
<1>3. ClockStarted
  BY BoundsAssumption DEF Init, ClockStarted
<1>4. EscrowExact
  <2> SUFFICES ASSUME NEW c \in Currency \ OriginToken
               PROVE  Held(c) = Owed(c)
    BY DEF EscrowExact
  <2>1. Held(c) = 0
    BY DEF Init, Held, Holder
  <2> DEFINE F == [x \in Slot |-> Stake(offers[x], c)]
  <2>2. F \in [Slot -> Nat] /\ \A x \in Slot : F[x] = 0
    BY DEF Init, Stake, NoOffer
  <2> HIDE DEF F
  <2>3. Total(F) = 0
    BY <2>2, TotalZero
  <2> QED  BY <2>1, <2>3 DEF Owed, OwedBy, F
<1> QED  BY <1>1, <1>2, <1>3, <1>4 DEF IInv

LEMMA CreateListingInv ==
  ASSUME IInv, NEW seller \in Account, NEW d \in Amounts, NEW m \in Managers,
         CreateListingFor(seller, d, m)
  PROVE  IInv'
<1> USE DEF CreateListingFor
<1>1. /\ d \in Nat
      /\ m \in Party
      /\ tokenAddr \in Currency
      /\ balance \in Purses
      /\ totalListings \in ListingId
  BY BoundsAssumption, AddressAssumption, InputAssumption
  DEF IInv, TypeOK, Purses, Currency, ListingId
<1>2. TypeOK'
  <2>1. balance' \in Purses
    BY <1>1, MovedType DEF CanCollect, Holder
  <2>2. listings' \in [ListingId -> Listing]
    BY <1>1 DEF IInv, TypeOK, Listing, Party
  <2>3. totalListings' \in 0 .. MaxListings
    BY BoundsAssumption, <1>1 DEF ListingId
  <2> QED  BY <2>1, <2>2, <2>3 DEF IInv, TypeOK, Purses
<1>3. RecordsSound'
  BY <1>1 DEF IInv, RecordsSound, TypeOK, ListingExists, ListingId, Slot
<1>4. EscrowExact'
  BY <1>1, MovedIn, EscrowUntouched, AddressAssumption DEF IInv, TypeOK, Held
<1> QED  BY <1>2, <1>3, <1>4 DEF IInv, ClockStarted

LEMMA UpdateListingInv ==
  ASSUME IInv, NEW seller \in Account, NEW l \in ListingId, NEW d \in Amounts,
         UpdateListingFor(seller, l, d)
  PROVE  IInv'
<1> USE DEF UpdateListingFor
<1>1. /\ d \in Nat
      /\ tokenAddr \in Currency
      /\ balance \in Purses
  BY AddressAssumption, InputAssumption DEF IInv, TypeOK, Purses, Currency
<1>2. TypeOK'
  <2>1. balance' \in Purses
    BY <1>1, MovedType DEF CanCollect, Holder
  <2>2. listings' \in [ListingId -> Listing]
    BY <1>1 DEF IInv, TypeOK, Listing
  <2> QED  BY <2>1, <2>2 DEF IInv, TypeOK, Purses
<1>3. RecordsSound'
  BY DEF IInv, RecordsSound, ListingExists
<1>4. EscrowExact'
  BY <1>1, MovedIn, EscrowUntouched, AddressAssumption DEF IInv, TypeOK, Held
<1> QED  BY <1>2, <1>3, <1>4 DEF IInv, ClockStarted

LEMMA WithdrawListingInv ==
  ASSUME IInv, NEW sender \in Account, NEW l \in ListingId, NEW target \in Managers,
         withdrawListing(sender, l, target)
  PROVE  IInv'
<1> USE DEF withdrawListing
<1>1. /\ listings[l].deposit \in Nat
      /\ target \in Party
      /\ tokenAddr \in Currency
      /\ balance \in Purses
  BY AddressAssumption, InputAssumption DEF IInv, TypeOK, Purses, Currency, Listing
<1>2. TypeOK'
  <2>1. balance' \in Purses
    BY <1>1, MovedType DEF CanMove, Holder
  <2> QED  BY <2>1 DEF IInv, TypeOK, Purses
<1>3. RecordsSound'
  BY DEF IInv, RecordsSound, ListingExists
<1>4. EscrowExact'
  BY <1>1, MovedOut, EscrowUntouched, AddressAssumption DEF IInv, TypeOK, Held
<1> QED  BY <1>2, <1>3, <1>4 DEF IInv, ClockStarted

LEMMA SendDepositInv ==
  ASSUME IInv, NEW sender \in Account, NEW l \in ListingId, NEW target \in Managers,
         NEW v \in Amounts, sendDeposit(sender, l, target, v)
  PROVE  IInv'
<1> USE DEF sendDeposit
<1>1. /\ v \in Nat
      /\ target \in Party
      /\ tokenAddr \in Currency
      /\ balance \in Purses
  BY AddressAssumption, InputAssumption DEF IInv, TypeOK, Purses, Currency
<1>2. TypeOK'
  <2>1. balance' \in Purses
    BY <1>1, MovedType DEF CanMove, Holder
  <2>2. listings' \in [ListingId -> Listing]
    BY <1>1 DEF IInv, TypeOK, Listing
  <2> QED  BY <2>1, <2>2 DEF IInv, TypeOK, Purses
<1>3. RecordsSound'
  BY DEF IInv, RecordsSound, ListingExists
<1>4. EscrowExact'
  BY <1>1, MovedOut, EscrowUntouched, AddressAssumption DEF IInv, TypeOK, Held
<1> QED  BY <1>2, <1>3, <1>4 DEF IInv, ClockStarted

-----------------------------------------------------------------------------
(* The steps on offers.                                                      *)

\* What the offer steps use of a live offer's record.
LEMMA OfferFacts ==
  ASSUME TypeOK, NEW x \in Slot
  PROVE  /\ offers[x] \in Offer
         /\ x[1] \in ListingId
         /\ x[2] \in OfferId
         /\ offers[x].currency \in Currency
         /\ offers[x].value \in Nat
         /\ offers[x].refund \in Nat
         /\ offers[x].commission \in Nat
         /\ offers[x].buyer \in Party
         /\ offers[x].affiliate \in Party
         /\ Seller(x) \in Party
         /\ balance \in Purses
         /\ tokenAddr \in Currency
BY AddressAssumption DEF TypeOK, Slot, Offer, Seller, Listing, Purses, Currency

LEMMA MakeOfferInv ==
  ASSUME IInv, NEW sender \in Account, NEW l \in ListingId, NEW t \in Terms,
         makeOffer(sender, l, t)
  PROVE  IInv'
<1> DEFINE n == <<l, totalOffers[l]>>
<1> USE DEF makeOffer
<1>1. /\ t \in OfferTerms
      /\ n \in Slot
      /\ balance \in Purses
      /\ totalOffers[l] \in Nat
  BY BoundsAssumption, InputAssumption DEF IInv, TypeOK, Purses, Slot, OfferId
<1>2. NewOffer(sender, t) \in Offer
  BY <1>1 DEF NewOffer, Offer, OfferTerms, Party
<1>3. TypeOK'
  <2>1. balance' \in Purses
    BY <1>1, MovedType DEF CanCollect, Holder, OfferTerms
  <2>2. offers' \in [Slot -> Offer]
    BY <1>1, <1>2 DEF IInv, TypeOK
  <2>3. totalOffers' \in [ListingId -> 0 .. MaxOffers]
    BY BoundsAssumption DEF IInv, TypeOK
  <2> QED  BY <2>1, <2>2, <2>3 DEF IInv, TypeOK, Purses
<1>4. RecordsSound'
  <2> SUFFICES ASSUME NEW x \in Slot
               PROVE  /\ offers'[x].status # Undefined =>
                           /\ x[2] < totalOffers'[x[1]]
                           /\ offers'[x].refund <= offers'[x].value
                           /\ offers'[x].affiliate = NullAddr => offers'[x].commission = 0
                      /\ offers'[x].status \in {Accepted, Disputed} =>
                           /\ ListingExists(x[1])
                           /\ offers'[x].finalizes >= RelativeWindow
    BY DEF RecordsSound, ListingExists
  <2>1. CASE x = n
    BY <1>1, <2>1 DEF IInv, TypeOK, AffiliateAllowed, NewOffer, OfferTerms
  <2>2. CASE x # n
    <3>1. offers'[x] = offers[x]
      BY <1>1, <2>2 DEF IInv, TypeOK
    <3>2. totalOffers'[x[1]] >= totalOffers[x[1]] /\ x[2] \in Nat
      BY <1>1, BoundsAssumption DEF IInv, TypeOK, Slot, OfferId
    <3>3. totalOffers'[x[1]] \in Nat /\ totalOffers[x[1]] \in Nat
      BY <1>3, BoundsAssumption DEF IInv, TypeOK, Slot
    <3> QED  BY <3>1, <3>2, <3>3 DEF IInv, RecordsSound
  <2> QED  BY <2>1, <2>2
<1>5. EscrowExact'
  <2>1. \A y \in Slot \ {n} : offers'[y] = offers[y]
    BY <1>1 DEF IInv, TypeOK
  <2>2. offers'[n] = NewOffer(sender, t) /\ offers[n].status = Undefined
    BY <1>1 DEF IInv, TypeOK, RecordsSound
  <2>3. ASSUME NEW c \in Currency \ OriginToken
        PROVE  Held(c)' + Stake(offers[n], c) = Held(c) + Stake(offers'[n], c)
    <3>1. Held(c)' = IF c = t.currency THEN Held(c) + t.value ELSE Held(c)
      BY <1>1, MovedIn DEF Held, OfferTerms
    <3>2. Held(c) \in Nat /\ t.value \in Nat
      BY <1>1 DEF Held, Purses, Holder, OfferTerms
    <3> QED  BY <2>2, <3>1, <3>2 DEF Stake, NewOffer
  <2> QED  BY <1>1, <1>3, <2>1, <2>3, EscrowMoved DEF IInv
<1> QED  BY <1>3, <1>4, <1>5 DEF IInv, ClockStarted

\* Emptying a live offer's slot while its value leaves the contract.
LEMMA CloseOffer ==
  ASSUME IInv, TypeOK', NEW x \in Slot, offers[x].status # Undefined,
         offers' = [offers EXCEPT ![x] = NoOffer],
         totalListings' = totalListings, totalOffers' = totalOffers, now' = now,
         \A c \in Currency \ OriginToken :
           balance'[c][Market] = IF c = offers[x].currency
                                 THEN balance[c][Market] - offers[x].value
                                 ELSE balance[c][Market]
  PROVE  IInv'
<1>1. \A y \in Slot \ {x} : offers'[y] = offers[y]
  BY DEF IInv, TypeOK
<1>2. offers'[x] = NoOffer
  BY DEF IInv, TypeOK
<1>3. RecordsSound'
  BY <1>1, <1>2 DEF IInv, RecordsSound, NoOffer, ListingExists
<1>4. EscrowExact'
  <2>1. ASSUME NEW c \in Currency \ OriginToken
        PROVE  Held(c)' + Stake(offers[x], c) = Held(c) + Stake(offers'[x], c)
    <3>1. Held(c)' = IF c = offers[x].currency THEN Held(c) - offers[x].value ELSE Held(c)
      BY DEF Held
    <3>2. Held(c) \in Nat /\ offers[x].value \in Nat
      BY OfferFacts DEF IInv, Held, Purses, Holder
    <3> QED  BY <1>2, <3>1, <3>2 DEF Stake, NoOffer
  <2> QED  BY <1>1, <2>1, EscrowMoved DEF IInv
<1> QED  BY <1>3, <1>4 DEF IInv, ClockStarted

\* refundBuyer takes the offer's value out of the contract.
LEMMA RefundBuyerEffect ==
  ASSUME TypeOK, NEW x \in Slot, CanRefundBuyer(x)
  PROVE  /\ RefundBuyer(x) \in Purses
         /\ \A c \in Currency :
              RefundBuyer(x)[c][Market] = IF c = offers[x].currency
                                          THEN balance[c][Market] - offers[x].value
                                          ELSE balance[c][Market]
<1>1. balance[offers[x].currency][Market] >= offers[x].value
  BY DEF CanRefundBuyer, CanMove
<1>2. Market \in Holder
  BY DEF Holder
<1>3. RefundBuyer(x) \in Purses
  BY <1>1, <1>2, OfferFacts, MovedType DEF RefundBuyer
<1> QED  BY <1>3, OfferFacts, MovedOut DEF RefundBuyer

\* paySeller takes the offer's value out of the contract, in two parts.
LEMMA PaySellerEffect ==
  ASSUME TypeOK, NEW o \in Offer, NEW seller \in Party,
         o.refund <= o.value, CanPaySeller(o, seller)
  PROVE  /\ PaySeller(o, seller) \in Purses
         /\ \A c \in Currency :
              PaySeller(o, seller)[c][Market] = IF c = o.currency
                                                THEN balance[c][Market] - o.value
                                                ELSE balance[c][Market]
<1> DEFINE b == Moved(balance, o.currency, Market, o.buyer, o.refund)
<1>1. /\ balance \in Purses
      /\ o.currency \in Currency
      /\ o.buyer \in Party
      /\ o.value \in Nat
      /\ o.refund \in Nat
      /\ o.value - o.refund \in Nat
      /\ Market \in Holder
  <2>1. balance \in Purses /\ Market \in Holder
    BY DEF TypeOK, Purses, Holder
  <2>2. o.currency \in Currency /\ o.buyer \in Party /\ o.value \in Nat /\ o.refund \in Nat
    BY DEF Offer
  <2> QED  BY <2>1, <2>2
<1>2. balance[o.currency][Market] \in Nat /\ balance[o.currency][Market] >= o.value
  BY <1>1 DEF CanPaySeller, Purses
<1>3. b \in Purses
  BY <1>1, <1>2, MovedType
<1>4. \A c \in Currency : b[c][Market] = IF c = o.currency
                                          THEN balance[c][Market] - o.refund
                                          ELSE balance[c][Market]
  BY <1>1, MovedOut
<1>5. PaySeller(o, seller) = Moved(b, o.currency, Market, seller, o.value - o.refund)
  BY DEF PaySeller
<1> HIDE DEF b
<1>6. b[o.currency][Market] >= o.value - o.refund
  BY <1>1, <1>2, <1>4
<1>7. PaySeller(o, seller) \in Purses
  BY <1>1, <1>3, <1>5, <1>6, MovedType
<1>8. \A c \in Currency :
        PaySeller(o, seller)[c][Market] = IF c = o.currency
                                          THEN b[c][Market] - (o.value - o.refund)
                                          ELSE b[c][Market]
  BY <1>1, <1>3, <1>5, MovedOut
<1>9. \A c \in Currency : balance[c][Market] \in Nat
  BY <1>1 DEF Purses
<1> QED  BY <1>1, <1>4, <1>7, <1>8, <1>9

\* payCommission moves nothing but Origin Token.
LEMMA PayCommissionEffect ==
  ASSUME TypeOK, NEW b \in Purses, NEW o \in Offer, CanPayCommission(b, o)
  PROVE  /\ PayCommission(b, o) \in Purses
         /\ \A c \in Currency \ OriginToken : PayCommission(b, o)[c][Market] = b[c][Market]
<1>1. /\ tokenAddr \in OriginToken
      /\ tokenAddr \in Currency
      /\ o.commission \in Nat
      /\ o.affiliate \in Party
      /\ Market \in Holder
  BY AddressAssumption DEF TypeOK, Currency, Offer, Holder
<1>2. CASE o.affiliate = NullAddr
  BY <1>2 DEF PayCommission
<1>3. CASE o.affiliate # NullAddr
  <2>1. b[tokenAddr][Market] >= o.commission
    BY <1>3 DEF CanPayCommission
  <2>2. PayCommission(b, o) = Moved(b, tokenAddr, Market, o.affiliate, o.commission)
    BY <1>3 DEF PayCommission
  <2>3. PayCommission(b, o) \in Purses
    BY <1>1, <2>1, <2>2, MovedType
  <2> QED  BY <1>1, <2>2, <2>3, MovedOut
<1> QED  BY <1>2, <1>3

LEMMA WithdrawOfferInv ==
  ASSUME IInv, NEW sender \in Account, NEW x \in Slot, withdrawOffer(sender, x)
  PROVE  IInv'
<1> USE DEF withdrawOffer
<1>1. offers[x].status # Undefined /\ CanRefundBuyer(x)
  BY DEF MayWithdraw
<1>2. TypeOK'
  BY <1>1, RefundBuyerEffect, AddressAssumption
  DEF IInv, TypeOK, Purses, Offer, NoOffer, Party, Currency
<1> QED  BY <1>1, <1>2, RefundBuyerEffect, CloseOffer DEF IInv

LEMMA FinalizeInv ==
  ASSUME IInv, NEW sender \in Account, NEW x \in Slot, finalize(sender, x)
  PROVE  IInv'
<1> DEFINE o == offers[x]
           paid == PaySeller(o, Seller(x))
<1> USE DEF finalize, MayFinalize
<1>1. /\ o \in Offer
      /\ o.status # Undefined
      /\ o.refund <= o.value
      /\ Seller(x) \in Party
      /\ CanPaySeller(o, Seller(x))
  BY OfferFacts DEF IInv, RecordsSound
<1>2. /\ paid \in Purses
      /\ \A c \in Currency : paid[c][Market] = IF c = o.currency
                                                THEN balance[c][Market] - o.value
                                                ELSE balance[c][Market]
  <2> HIDE DEF o
  <2> QED  BY <1>1, PaySellerEffect DEF IInv
<1>3. /\ balance' \in Purses
      /\ \A c \in Currency \ OriginToken : balance'[c][Market] = paid[c][Market]
  <2>1. CASE sender = o.buyer
    <3>1. CanPayCommission(paid, o) /\ balance' = PayCommission(paid, o)
      BY <2>1
    <3> HIDE DEF paid, o
    <3> QED  BY <1>1, <1>2, <3>1, PayCommissionEffect DEF IInv
  <2>2. CASE sender # o.buyer
    BY <1>2, <2>2
  <2> QED  BY <2>1, <2>2
<1>4. TypeOK'
  BY <1>3, AddressAssumption DEF IInv, TypeOK, Purses, Offer, NoOffer, Party, Currency
<1>5. /\ offers' = [offers EXCEPT ![x] = NoOffer]
      /\ totalListings' = totalListings
      /\ totalOffers' = totalOffers
      /\ now' = now
  OBVIOUS
<1> HIDE DEF paid, finalize, MayFinalize
<1> QED  BY <1>1, <1>2, <1>3, <1>4, <1>5, CloseOffer

LEMMA ExecuteRulingInv ==
  ASSUME IInv, NEW sender \in Account, NEW x \in Slot, NEW v \in Amounts,
         NEW toBuyer \in BOOLEAN, NEW toAffiliate \in BOOLEAN,
         executeRuling(sender, x, toBuyer, toAffiliate, v)
  PROVE  IInv'
<1> DEFINE o == [offers[x] EXCEPT !.refund = v]
           paid == IF toBuyer THEN RefundBuyer(x) ELSE PaySeller(o, Seller(x))
<1> USE DEF executeRuling, MayRule, RulingPays, Ruled
<1>1. /\ v \in Nat
      /\ o \in Offer
      /\ o.currency = offers[x].currency
      /\ o.value = offers[x].value
      /\ o.commission = offers[x].commission
      /\ o.refund <= o.value
      /\ offers[x].status = Disputed
      /\ x[1] \in ListingId
      /\ Seller(x) \in Party
  BY OfferFacts, InputAssumption DEF IInv, Offer
<1>2. /\ paid \in Purses
      /\ \A c \in Currency : paid[c][Market] = IF c = offers[x].currency
                                                THEN balance[c][Market] - offers[x].value
                                                ELSE balance[c][Market]
  <2>1. CASE toBuyer
    <3>1. CanRefundBuyer(x) /\ paid = RefundBuyer(x)
      BY <2>1
    <3> HIDE DEF o, paid
    <3> QED  BY <3>1, RefundBuyerEffect DEF IInv
  <2>2. CASE ~toBuyer
    <3>1. CanPaySeller(o, Seller(x)) /\ paid = PaySeller(o, Seller(x))
      BY <2>2
    <3> HIDE DEF o, paid
    <3> QED  BY <1>1, <3>1, PaySellerEffect DEF IInv
  <2> QED  BY <2>1, <2>2
<1>3. /\ balance' \in Purses
      /\ \A c \in Currency \ OriginToken : balance'[c][Market] = paid[c][Market]
      /\ listings' \in [ListingId -> Listing]
  <2>1. CASE toAffiliate
    <3>1. CanPayCommission(paid, o) /\ balance' = PayCommission(paid, o) /\ listings' = listings
      BY <2>1
    <3> HIDE DEF paid, o
    <3> QED  BY <1>1, <1>2, <3>1, PayCommissionEffect DEF IInv, TypeOK
  <2>2. CASE ~toAffiliate
    <3>1. balance' = paid
      BY <2>2
    <3>2. listings[x[1]].deposit + offers[x].commission \in Nat
      BY <1>1, OfferFacts DEF IInv, TypeOK, Listing
    <3>3. listings' = [listings EXCEPT ![x[1]].deposit = @ + offers[x].commission]
      BY <1>1, <2>2
    <3>4. listings' \in [ListingId -> Listing]
      BY <1>1, <3>2, <3>3 DEF IInv, TypeOK, Listing
    <3> QED  BY <1>2, <3>1, <3>4
  <2> QED  BY <2>1, <2>2
<1>4. TypeOK'
  BY <1>3, AddressAssumption DEF IInv, TypeOK, Purses, Offer, NoOffer, Party, Currency
<1>5. /\ offers' = [offers EXCEPT ![x] = NoOffer]
      /\ totalListings' = totalListings
      /\ totalOffers' = totalOffers
      /\ now' = now
  OBVIOUS
<1>6. \A c \in Currency \ OriginToken :
        balance'[c][Market] = IF c = offers[x].currency
                              THEN balance[c][Market] - offers[x].value
                              ELSE balance[c][Market]
  <2> HIDE DEF paid, o, executeRuling
  <2> QED  BY <1>2, <1>3
<1>7. offers[x].status # Undefined
  BY <1>1
<1> HIDE DEF paid, o, executeRuling
<1> QED  BY <1>4, <1>5, <1>6, <1>7, CloseOffer

\* Rewriting a live offer's record while the contract's balance follows its
\* value.
LEMMA RewriteOffer ==
  ASSUME IInv, TypeOK', NEW x \in Slot, offers[x].status # Undefined,
         \A y \in Slot \ {x} : offers'[y] = offers[y],
         offers'[x].status # Undefined,
         offers'[x].currency = offers[x].currency,
         offers'[x].affiliate = offers[x].affiliate,
         offers'[x].commission = offers[x].commission,
         offers'[x].refund <= offers'[x].value,
         ListingExists(x[1]),
         offers'[x].finalizes >= RelativeWindow,
         totalListings' = totalListings, totalOffers' = totalOffers, now' = now,
         \A c \in Currency \ OriginToken :
           balance'[c][Market] = IF c = offers[x].currency
                                 THEN balance[c][Market] + offers'[x].value - offers[x].value
                                 ELSE balance[c][Market]
  PROVE  IInv'
<1>1. RecordsSound'
  <2> SUFFICES ASSUME NEW y \in Slot
               PROVE  /\ offers'[y].status # Undefined =>
                           /\ y[2] < totalOffers[y[1]]
                           /\ offers'[y].refund <= offers'[y].value
                           /\ offers'[y].affiliate = NullAddr => offers'[y].commission = 0
                      /\ offers'[y].status \in {Accepted, Disputed} =>
                           /\ ListingExists(y[1])
                           /\ offers'[y].finalizes >= RelativeWindow
    BY DEF RecordsSound, ListingExists
  <2>1. CASE y = x
    BY <2>1 DEF IInv, RecordsSound
  <2>2. CASE y # x
    BY <2>2 DEF IInv, RecordsSound
  <2> QED  BY <2>1, <2>2
<1>2. EscrowExact'
  <2>1. ASSUME NEW c \in Currency \ OriginToken
        PROVE  Held(c)' + Stake(offers[x], c) = Held(c) + Stake(offers'[x], c)
    <3>1. Held(c)' = IF c = offers[x].currency
                     THEN Held(c) + offers'[x].value - offers[x].value
                     ELSE Held(c)
      BY DEF Held
    <3>2. Held(c) \in Nat /\ offers[x].value \in Nat /\ offers'[x].value \in Nat
      BY OfferFacts DEF IInv, Held, Purses, Holder, TypeOK, Offer
    <3> QED  BY <3>1, <3>2 DEF Stake
  <2> QED  BY <2>1, EscrowMoved DEF IInv
<1> QED  BY <1>1, <1>2 DEF IInv, ClockStarted

\* The rewritten records are offers.
LEMMA RewrittenType ==
  ASSUME NEW o \in Offer, NEW n \in Nat
  PROVE  /\ [o EXCEPT !.finalizes = n, !.status = Accepted] \in Offer
         /\ [o EXCEPT !.value = n] \in Offer
<1>1. [o EXCEPT !.finalizes = n] \in Offer
  BY DEF Offer
<1>2. \A p \in Offer : [p EXCEPT !.status = Accepted] \in Offer
  BY DEF Offer
<1>3. [o EXCEPT !.value = n] \in Offer
  BY DEF Offer
<1>4. [o EXCEPT !.finalizes = n, !.status = Accepted]
        = [[o EXCEPT !.finalizes = n] EXCEPT !.status = Accepted]
  BY DEF Offer
<1> QED  BY <1>1, <1>2, <1>3, <1>4

LEMMA AcceptOfferInv ==
  ASSUME IInv, NEW sender \in Account, NEW x \in Slot, acceptOffer(sender, x)
  PROVE  IInv'
<1> DEFINE deadline == IF offers[x].finalizes < RelativeWindow
                       THEN now + offers[x].finalizes
                       ELSE offers[x].finalizes
<1>1. deadline \in Nat /\ deadline >= RelativeWindow
  BY BoundsAssumption DEF IInv, TypeOK, Offer, ClockStarted
<1>2. offers' = [offers EXCEPT ![x] = [offers[x] EXCEPT !.finalizes = deadline,
                                                       !.status = Accepted]]
  BY DEF acceptOffer, IInv, TypeOK, Offer
<1>3. /\ ListingExists(x[1])
      /\ offers[x].status = Created
      /\ listings[x[1]].deposit >= offers[x].commission
      /\ listings' = [listings EXCEPT ![x[1]].deposit = @ - offers[x].commission]
      /\ UNCHANGED <<totalListings, totalOffers, allowedAffiliates, tokenAddr, balance, now>>
  BY DEF acceptOffer
<1> HIDE DEF deadline
<1>4. TypeOK'
  <2>1. [offers[x] EXCEPT !.finalizes = deadline, !.status = Accepted] \in Offer
    BY <1>1, OfferFacts, RewrittenType DEF IInv
  <2>2. offers' \in [Slot -> Offer]
    BY <1>2, <2>1 DEF IInv, TypeOK
  <2>3. listings' \in [ListingId -> Listing]
    BY <1>3, OfferFacts DEF IInv, TypeOK, Listing
  <2> QED  BY <1>3, <2>2, <2>3 DEF IInv, TypeOK
<1>5. /\ \A y \in Slot \ {x} : offers'[y] = offers[y]
      /\ offers'[x].status = Accepted
      /\ offers'[x].currency = offers[x].currency
      /\ offers'[x].affiliate = offers[x].affiliate
      /\ offers'[x].commission = offers[x].commission
      /\ offers'[x].refund = offers[x].refund
      /\ offers'[x].value = offers[x].value
      /\ offers'[x].finalizes = deadline
  BY <1>2 DEF IInv, TypeOK, Offer
<1>6. \A c \in Currency : balance[c][Market] \in Nat
  BY DEF IInv, TypeOK, Holder
<1>7. offers[x].refund <= offers[x].value /\ offers[x].value \in Nat
  BY <1>3, OfferFacts DEF IInv, RecordsSound
<1> QED  BY <1>1, <1>3, <1>4, <1>5, <1>6, <1>7, RewriteOffer

LEMMA AddFundsInv ==
  ASSUME IInv, NEW sender \in Account, NEW x \in Slot, NEW v \in Amounts,
         addFunds(sender, x, v)
  PROVE  IInv'
<1>1. /\ v \in Nat
      /\ balance \in Purses
      /\ offers[x].currency \in Currency
      /\ offers[x].value \in Nat
      /\ offers[x].refund \in Nat
  BY OfferFacts, InputAssumption DEF IInv
<1>2. offers' = [offers EXCEPT ![x] = [offers[x] EXCEPT !.value = offers[x].value + v]]
  BY DEF addFunds, IInv, TypeOK, Offer
<1>3. /\ offers[x].status = Accepted
      /\ CanCollect(offers[x].currency, sender, v)
      /\ balance' = Moved(balance, offers[x].currency, sender, Market, v)
      /\ UNCHANGED <<totalListings, listings, totalOffers, allowedAffiliates, tokenAddr, now>>
  BY DEF addFunds
<1>4. TypeOK'
  <2>1. balance' \in Purses
    BY <1>1, <1>3, MovedType DEF CanCollect, Holder
  <2>2. [offers[x] EXCEPT !.value = offers[x].value + v] \in Offer
    <3>1. offers[x].value + v \in Nat /\ offers[x] \in Offer
      BY <1>1, OfferFacts DEF IInv
    <3> QED  BY <3>1, RewrittenType
  <2>3. offers' \in [Slot -> Offer]
    BY <1>2, <2>2 DEF IInv, TypeOK
  <2> QED  BY <1>3, <2>1, <2>3 DEF IInv, TypeOK, Purses
<1>5. /\ \A y \in Slot \ {x} : offers'[y] = offers[y]
      /\ offers'[x].status = offers[x].status
      /\ offers'[x].currency = offers[x].currency
      /\ offers'[x].affiliate = offers[x].affiliate
      /\ offers'[x].commission = offers[x].commission
      /\ offers'[x].refund = offers[x].refund
      /\ offers'[x].value = offers[x].value + v
      /\ offers'[x].finalizes = offers[x].finalizes
  BY <1>2 DEF IInv, TypeOK, Offer
<1>6. /\ offers[x].refund <= offers[x].value
      /\ ListingExists(x[1])
      /\ offers[x].finalizes >= RelativeWindow
  BY <1>3 DEF IInv, RecordsSound
<1>7. \A c \in Currency :
        /\ balance'[c][Market] = IF c = offers[x].currency
                                 THEN balance[c][Market] + v
                                 ELSE balance[c][Market]
        /\ balance[c][Market] \in Nat
  <2>1. \A c \in Currency : balance[c][Market] \in Nat
    BY <1>1 DEF Purses, Holder
  <2> QED  BY <1>1, <1>3, <2>1, MovedIn
<1>8. \A c \in Currency :
        balance'[c][Market] = IF c = offers[x].currency
                              THEN balance[c][Market] + offers'[x].value - offers[x].value
                              ELSE balance[c][Market]
  <2> TAKE c \in Currency
  <2>1. CASE c = offers[x].currency
    BY <1>1, <1>5, <1>7, <2>1
  <2>2. CASE c # offers[x].currency
    BY <1>7, <2>2
  <2> QED  BY <2>1, <2>2
<1> QED  BY <1>1, <1>3, <1>4, <1>5, <1>6, <1>8, RewriteOffer

LEMMA UpdateRefundInv ==
  ASSUME IInv, NEW sender \in Account, NEW x \in Slot, NEW v \in Amounts,
         updateRefund(sender, x, v)
  PROVE  IInv'
<1>1. v \in Nat /\ v <= offers[x].value
  BY InputAssumption DEF updateRefund
<1>2. offers' = [offers EXCEPT ![x] = [offers[x] EXCEPT !.refund = v]]
  BY DEF updateRefund
<1>3. /\ offers[x].status = Accepted
      /\ UNCHANGED <<totalListings, listings, totalOffers, allowedAffiliates, tokenAddr, balance, now>>
  BY DEF updateRefund
<1>4. TypeOK'
  BY <1>1, <1>2, <1>3 DEF IInv, TypeOK, Offer
<1>5. /\ \A y \in Slot \ {x} : offers'[y] = offers[y]
      /\ offers'[x].status = offers[x].status
      /\ offers'[x].currency = offers[x].currency
      /\ offers'[x].affiliate = offers[x].affiliate
      /\ offers'[x].commission = offers[x].commission
      /\ offers'[x].refund = v
      /\ offers'[x].value = offers[x].value
      /\ offers'[x].finalizes = offers[x].finalizes
      /\ offers[x].value \in Nat
  BY <1>2 DEF IInv, TypeOK, Offer
<1>6. ListingExists(x[1]) /\ offers[x].finalizes >= RelativeWindow
  BY <1>3 DEF IInv, RecordsSound
<1>7. \A c \in Currency : balance[c][Market] \in Nat
  BY DEF IInv, TypeOK, Holder
<1> QED  BY <1>1, <1>3, <1>4, <1>5, <1>6, <1>7, RewriteOffer

LEMMA DisputeInv ==
  ASSUME IInv, NEW sender \in Account, NEW x \in Slot, dispute(sender, x)
  PROVE  IInv'
<1>1. offers' = [offers EXCEPT ![x] = [offers[x] EXCEPT !.status = Disputed]]
  BY DEF dispute
<1>2. /\ offers[x].status = Accepted
      /\ UNCHANGED <<totalListings, listings, totalOffers, allowedAffiliates, tokenAddr, balance, now>>
  BY DEF dispute
<1>3. TypeOK'
  BY <1>1, <1>2 DEF IInv, TypeOK, Offer
<1>4. /\ \A y \in Slot \ {x} : offers'[y] = offers[y]
      /\ offers'[x].status = Disputed
      /\ offers'[x].currency = offers[x].currency
      /\ offers'[x].affiliate = offers[x].affiliate
      /\ offers'[x].commission = offers[x].commission
      /\ offers'[x].refund = offers[x].refund
      /\ offers'[x].value = offers[x].value
      /\ offers'[x].finalizes = offers[x].finalizes
      /\ offers[x].value \in Nat
  BY <1>1 DEF IInv, TypeOK, Offer
<1>5. /\ offers[x].refund <= offers[x].value
      /\ ListingExists(x[1])
      /\ offers[x].finalizes >= RelativeWindow
  BY <1>2 DEF IInv, RecordsSound
<1>6. \A c \in Currency : balance[c][Market] \in Nat
  BY DEF IInv, TypeOK, Holder
<1> QED  BY <1>2, <1>3, <1>4, <1>5, <1>6, RewriteOffer

\* Two slots change: the withdrawn offer's is emptied, then the new offer's is
\* filled; EscrowExact is followed through the records in between.
\* After the refund the caller of a replacement can pay for the new offer.
LEMMA ReplacementCovered ==
  ASSUME IInv, NEW sender \in Account, NEW x \in Slot, NEW t \in Terms,
         makeOfferAfterWithdrawal(sender, x, t)
  PROVE  RefundBuyer(x)[t.currency][sender] >= t.value
<1> DEFINE refunded == RefundBuyer(x)
<1>1. t.currency \in Currency /\ t.value \in Nat
  BY InputAssumption DEF OfferTerms
<1>2. CanRefundBuyer(x)
  BY DEF makeOfferAfterWithdrawal, MayWithdraw
<1>3. refunded \in Purses
  BY <1>2, RefundBuyerEffect DEF IInv
<1>4. CASE t.currency # Eth
  BY <1>4 DEF makeOfferAfterWithdrawal
<1>5. CASE t.currency = Eth
  <2>1. balance[t.currency][sender] >= t.value
    BY <1>5 DEF makeOfferAfterWithdrawal, CanCollect
  <2>2. /\ balance \in Purses
        /\ offers[x].currency \in Currency
        /\ offers[x].buyer \in Party
        /\ offers[x].value \in Nat
        /\ sender \in Holder
        /\ sender # Market
    BY OfferFacts, AddressAssumption DEF IInv, Holder
  <2>3. refunded = Moved(balance, offers[x].currency, Market, offers[x].buyer, offers[x].value)
    BY DEF RefundBuyer
  <2> HIDE DEF refunded
  <2>4. refunded[t.currency][sender] \in Nat /\ balance[t.currency][sender] \in Nat
    BY <1>1, <1>3, <2>2 DEF Purses
  <2>5. refunded[t.currency][sender] = balance[t.currency][sender]
        \/ refunded[t.currency][sender] = balance[t.currency][sender] + offers[x].value
    BY <1>1, <2>2, <2>3 DEF Moved, Purses
  <2>6. refunded[t.currency][sender] >= t.value
    BY <1>1, <2>1, <2>2, <2>4, <2>5
  <2> QED  BY <2>6 DEF refunded
<1> QED  BY <1>4, <1>5

LEMMA MakeOfferAfterWithdrawalInv ==
  ASSUME IInv, NEW sender \in Account, NEW x \in Slot, NEW t \in Terms,
         makeOfferAfterWithdrawal(sender, x, t)
  PROVE  IInv'
<1> DEFINE l == x[1]
           n == <<l, totalOffers[l]>>
           mid == [offers EXCEPT ![x] = NoOffer]
           new == NewOffer(sender, t)
           refunded == RefundBuyer(x)
<1>1. /\ t \in OfferTerms
      /\ t.currency \in Currency
      /\ t.value \in Nat
      /\ l \in ListingId
      /\ n \in Slot
      /\ totalOffers[l] \in Nat
      /\ totalOffers[l] < MaxOffers
  BY BoundsAssumption, InputAssumption
  DEF makeOfferAfterWithdrawal, IInv, TypeOK, Slot, OfferId, OfferTerms
<1>2. /\ offers[x].status = Created
      /\ CanRefundBuyer(x)
      /\ AffiliateAllowed(t)
      /\ offers' = [mid EXCEPT ![n] = new]
      /\ totalOffers' = [totalOffers EXCEPT ![l] = @ + 1]
      /\ balance' = Moved(refunded, t.currency, sender, Market, t.value)
      /\ UNCHANGED <<totalListings, listings, allowedAffiliates, tokenAddr, now>>
  BY DEF makeOfferAfterWithdrawal, MayWithdraw
<1>3. new \in Offer /\ NoOffer \in Offer
  BY <1>1 DEF NewOffer, NoOffer, Offer, OfferTerms, Party, Currency
<1>4. mid \in [Slot -> Offer] /\ offers' \in [Slot -> Offer] /\ offers \in [Slot -> Offer]
  BY <1>1, <1>2, <1>3 DEF IInv, TypeOK
<1>5. /\ refunded \in Purses
      /\ \A c \in Currency : refunded[c][Market] = IF c = offers[x].currency
                                                    THEN balance[c][Market] - offers[x].value
                                                    ELSE balance[c][Market]
  BY <1>2, RefundBuyerEffect DEF IInv
<1>6. /\ \A y \in Slot \ {x} : mid[y] = offers[y]
      /\ mid[x] = NoOffer
      /\ \A y \in Slot \ {n} : offers'[y] = mid[y]
      /\ offers'[n] = new
      /\ mid[n].status = Undefined
  <2>1. mid[x] = NoOffer /\ \A y \in Slot \ {x} : mid[y] = offers[y]
    BY DEF IInv, TypeOK
  <2>2. offers[n].status = Undefined
    BY <1>1 DEF IInv, RecordsSound
  <2> HIDE DEF mid
  <2>3. mid[n].status = Undefined
    BY <1>1, <2>1, <2>2 DEF NoOffer
  <2> QED  BY <1>1, <1>2, <1>4, <2>1, <2>3
<1> HIDE DEF mid, new, refunded
<1>7. refunded[t.currency][sender] >= t.value
  BY ReplacementCovered DEF refunded
<1>8. TypeOK'
  <2>1. balance' \in Purses
    BY <1>1, <1>2, <1>5, <1>7, MovedType DEF Holder
  <2>2. totalOffers' \in [ListingId -> 0 .. MaxOffers]
    BY <1>1, <1>2, BoundsAssumption DEF IInv, TypeOK
  <2> QED  BY <1>2, <1>4, <2>1, <2>2 DEF IInv, TypeOK, Purses
<1>9. RecordsSound'
  <2> SUFFICES ASSUME NEW y \in Slot
               PROVE  /\ offers'[y].status # Undefined =>
                           /\ y[2] < totalOffers'[y[1]]
                           /\ offers'[y].refund <= offers'[y].value
                           /\ offers'[y].affiliate = NullAddr => offers'[y].commission = 0
                      /\ offers'[y].status \in {Accepted, Disputed} =>
                           /\ ListingExists(y[1])
                           /\ offers'[y].finalizes >= RelativeWindow
    BY <1>2 DEF RecordsSound, ListingExists
  <2>1. CASE y = n
    BY <1>1, <1>2, <1>6, <2>1 DEF IInv, TypeOK, AffiliateAllowed, NewOffer, OfferTerms, new
  <2>2. CASE y # n /\ y = x
    BY <1>6, <2>2 DEF NoOffer
  <2>3. CASE y # n /\ y # x
    <3>1. offers'[y] = offers[y]
      BY <1>6, <2>3
    <3>2. totalOffers'[y[1]] >= totalOffers[y[1]] /\ y[2] \in Nat
      BY <1>1, <1>2, BoundsAssumption DEF IInv, TypeOK, Slot, OfferId
    <3>3. totalOffers'[y[1]] \in Nat /\ totalOffers[y[1]] \in Nat
      BY <1>8, BoundsAssumption DEF IInv, TypeOK, Slot
    <3> QED  BY <3>1, <3>2, <3>3 DEF IInv, RecordsSound
  <2> QED  BY <2>1, <2>2, <2>3
<1>10. EscrowExact'
  <2> SUFFICES ASSUME NEW c \in Currency \ OriginToken
               PROVE  Held(c)' = OwedBy(offers', c)
    BY DEF EscrowExact, Owed
  <2>1. OwedBy(mid, c) + Stake(offers[x], c) = OwedBy(offers, c) + Stake(mid[x], c)
    BY <1>4, <1>6, OwedUpdate
  <2>2. OwedBy(offers', c) + Stake(mid[n], c) = OwedBy(mid, c) + Stake(offers'[n], c)
    BY <1>1, <1>4, <1>6, OwedUpdate
  <2>3. /\ Stake(mid[x], c) = 0
        /\ Stake(mid[n], c) = 0
        /\ Stake(offers'[n], c) = IF t.currency = c THEN t.value ELSE 0
        /\ Stake(offers[x], c) = IF offers[x].currency = c THEN offers[x].value ELSE 0
    BY <1>2, <1>6 DEF Stake, NoOffer, NewOffer, new
  <2>4. Held(c)' = IF c = t.currency THEN refunded[c][Market] + t.value ELSE refunded[c][Market]
    BY <1>1, <1>2, <1>5, MovedIn DEF Held
  <2>5. refunded[c][Market] = IF c = offers[x].currency
                              THEN Held(c) - offers[x].value
                              ELSE Held(c)
    BY <1>5 DEF Held
  <2>6. Held(c) = OwedBy(offers, c)
    BY DEF IInv, EscrowExact, Owed
  <2>7. /\ OwedBy(offers', c) \in Nat
        /\ OwedBy(offers, c) \in Nat
        /\ OwedBy(mid, c) \in Nat
        /\ offers[x].value \in Nat
    BY <1>4, OwedType, OfferFacts DEF IInv
  <2>8. refunded[c][Market] = OwedBy(mid, c)
    BY <2>1, <2>3, <2>5, <2>6, <2>7
  <2> QED  BY <1>1, <2>2, <2>3, <2>4, <2>7, <2>8
<1> QED  BY <1>2, <1>8, <1>9, <1>10 DEF IInv, ClockStarted

-----------------------------------------------------------------------------
(* The steps that touch neither records nor money.                           *)

LEMMA OwnerInv ==
  ASSUME IInv, NEW sender \in Account, OwnerStep(sender)
  PROVE  IInv'
<1>1. UNCHANGED <<totalListings, listings, totalOffers, offers, balance, now>>
  BY DEF OwnerStep, setTokenAddr, addAffiliate, removeAffiliate
<1>2. TypeOK'
  <2>1. tokenAddr' \in OriginToken
    BY DEF IInv, TypeOK, OwnerStep, setTokenAddr, addAffiliate, removeAffiliate
  <2>2. allowedAffiliates' \subseteq Party \cup {Market}
    BY InputAssumption DEF IInv, TypeOK, OwnerStep, setTokenAddr, addAffiliate, removeAffiliate
  <2> QED  BY <1>1, <2>1, <2>2 DEF IInv, TypeOK
<1>3. RecordsSound'
  BY <1>1 DEF IInv, RecordsSound, ListingExists
<1>4. EscrowExact'
  BY <1>1, EscrowUntouched DEF IInv, Held
<1> QED  BY <1>1, <1>2, <1>3, <1>4 DEF IInv, ClockStarted

LEMMA TickInv ==
  ASSUME IInv, Tick
  PROVE  IInv'
<1> USE DEF Tick
<1>1. TypeOK'
  BY DEF IInv, TypeOK
<1>2. RecordsSound'
  BY DEF IInv, RecordsSound, ListingExists
<1>3. EscrowExact'
  BY EscrowUntouched DEF IInv, Held
<1>4. ClockStarted'
  BY BoundsAssumption DEF IInv, ClockStarted, TypeOK
<1> QED  BY <1>1, <1>2, <1>3, <1>4 DEF IInv

-----------------------------------------------------------------------------
(* The theorems.                                                             *)

LEMMA StepInv == IInv /\ [Next]_vars => IInv'
<1> SUFFICES ASSUME IInv, [Next]_vars  PROVE IInv'
  OBVIOUS
<1>1. ASSUME NEW sender \in Account, ListingStep(sender)  PROVE IInv'
  BY <1>1, CreateListingInv, UpdateListingInv, SendDepositInv, WithdrawListingInv
  DEF ListingStep, createListing, createListingWithSender, updateListing,
      updateListingWithSender
<1>2. ASSUME NEW sender \in Account, OfferStep(sender)  PROVE IInv'
  BY <1>2, MakeOfferInv, MakeOfferAfterWithdrawalInv, WithdrawOfferInv, AcceptOfferInv,
     FinalizeInv, DisputeInv, AddFundsInv, UpdateRefundInv, ExecuteRulingInv
  DEF OfferStep
<1>3. ASSUME UNCHANGED vars  PROVE IInv'
  <2>1. TypeOK' /\ RecordsSound' /\ ClockStarted'
    BY <1>3 DEF vars, IInv, TypeOK, RecordsSound, ClockStarted, ListingExists
  <2>2. EscrowExact'
    BY <1>3, EscrowUntouched DEF vars, IInv, Held
  <2> QED  BY <2>1, <2>2 DEF IInv
<1> QED  BY <1>1, <1>2, <1>3, OwnerInv, TickInv DEF Next

\* Every state the contract reaches satisfies the inductive invariant.
THEOREM Inductive == Spec => []IInv
BY InitInv, StepInv, PTL DEF Spec

\* Every record, balance and counter keeps its type; in particular no balance
\* and no deposit ever goes below zero.
THEOREM TypeCorrect == Spec => []TypeOK
<1>1. IInv => TypeOK
  BY DEF IInv
<1> QED  BY <1>1, Inductive, PTL

\* In every currency other than Origin Token the contract holds exactly what
\* its live offers add up to, whatever the callers do.
THEOREM EscrowIsExact == Spec => []EscrowExact
<1>1. IInv => EscrowExact
  BY DEF IInv
<1> QED  BY <1>1, Inductive, PTL

\* finalize and executeRuling always find the record they rely on: an existing
\* listing, a deadline in time, a refund within the value.
THEOREM AgreedOffersAreSound == Spec => []AgreedOffersSound
<1>1. IInv => AgreedOffersSound
  BY DEF IInv, RecordsSound, AgreedOffersSound
<1> QED  BY <1>1, Inductive, PTL

LEMMA NoOfferTyped == NoOffer \in Offer
BY DEF NoOffer, Offer, Currency, Party

\* The contract holds at least what any one offer is owed.
LEMMA StakeIsHeld ==
  ASSUME IInv, NEW x \in Slot, offers[x].status # Undefined,
         offers[x].currency \notin OriginToken
  PROVE  balance[offers[x].currency][Market] >= offers[x].value
<1> DEFINE c == offers[x].currency
           g == [offers EXCEPT ![x] = NoOffer]
<1>1. offers[x] \in Offer /\ c \in Currency /\ offers[x].value \in Nat
  BY OfferFacts DEF IInv
<1>2. offers \in [Slot -> Offer]
  BY DEF IInv, TypeOK
<1>3. g \in [Slot -> Offer] /\ g[x] = NoOffer /\ \A y \in Slot \ {x} : g[y] = offers[y]
  BY <1>2, NoOfferTyped
<1> HIDE DEF g
<1>4. OwedBy(g, c) + Stake(offers[x], c) = OwedBy(offers, c) + Stake(g[x], c)
  BY <1>2, <1>3, OwedUpdate
<1>5. Stake(offers[x], c) = offers[x].value
  BY DEF Stake
<1>6. OwedBy(g, c) \in Nat /\ OwedBy(offers, c) \in Nat /\ Stake(g[x], c) \in Nat
  BY <1>2, <1>3, NoOfferTyped, OwedType, StakeType
<1>7. balance[c][Market] = OwedBy(offers, c)
  BY <1>1 DEF IInv, EscrowExact, Held, Owed
<1>8. Stake(g[x], c) = 0
  BY <1>3 DEF Stake, NoOffer
<1> HIDE DEF c
<1> QED  BY <1>1, <1>4, <1>5, <1>6, <1>7, <1>8 DEF c

\* Every offer in a currency of its own, whose parties accept the money, can be
\* settled by one party alone: withdrawOffer, finalize past the deadline and
\* executeRuling, whatever the ruling, are never short of the money, whatever
\* happened to other offers, deposits, the whitelist and the token.
THEOREM OffersAreSettleable == Spec => []Settleable
<1> DEFINE Reachable(x) == /\ ListingExists(x[1])
                           /\ offers[x].currency \notin OriginToken
                           /\ CanReceive(offers[x].currency, offers[x].buyer)
                           /\ CanReceive(offers[x].currency, Seller(x))
<1>1. ASSUME IInv, NEW x \in Slot, Reachable(x)
      PROVE  /\ offers[x].status = Created => MayWithdraw(offers[x].buyer, x)
             /\ offers[x].status = Accepted /\ now > offers[x].finalizes
                  /\ offers[x].buyer # Seller(x) => MayFinalize(Seller(x), x)
             /\ offers[x].status = Disputed =>
                  \A toBuyer \in BOOLEAN, refund \in 0 .. offers[x].value :
                    MayRule(offers[x].arbitrator, x, toBuyer, FALSE, refund)
  <2>1. offers[x] \in Offer /\ offers[x].value \in Nat
    BY <1>1, OfferFacts DEF IInv
  <2>2. offers[x].status \in {Created, Accepted, Disputed} =>
          balance[offers[x].currency][Market] >= offers[x].value
    BY <1>1, StakeIsHeld DEF Undefined, Created, Accepted, Disputed
  <2>3. ASSUME offers[x].status = Created  PROVE MayWithdraw(offers[x].buyer, x)
    BY <1>1, <2>2, <2>3 DEF MayWithdraw, CanRefundBuyer, CanMove
  <2>4. ASSUME offers[x].status = Accepted, now > offers[x].finalizes,
               offers[x].buyer # Seller(x)
        PROVE  MayFinalize(Seller(x), x)
    <3>1. CanPaySeller(offers[x], Seller(x))
      BY <1>1, <2>2, <2>4 DEF CanPaySeller
    <3> QED  BY <1>1, <2>4, <3>1 DEF MayFinalize
  <2>5. ASSUME offers[x].status = Disputed, NEW toBuyer \in BOOLEAN,
               NEW refund \in 0 .. offers[x].value
        PROVE  MayRule(offers[x].arbitrator, x, toBuyer, FALSE, refund)
    <3>1. /\ Ruled(x, refund).currency = offers[x].currency
          /\ Ruled(x, refund).buyer = offers[x].buyer
          /\ Ruled(x, refund).value = offers[x].value
      BY <2>1 DEF Ruled, Offer
    <3>2. CanRefundBuyer(x)
      BY <1>1, <2>2, <2>5 DEF CanRefundBuyer, CanMove
    <3>3. CanPaySeller(Ruled(x, refund), Seller(x))
      BY <1>1, <2>2, <2>5, <3>1 DEF CanPaySeller
    <3>4. refund <= offers[x].value
      BY <2>1
    <3> QED  BY <2>5, <3>2, <3>3, <3>4 DEF MayRule
  <2> QED  BY <2>3, <2>4, <2>5
<1>2. IInv => Settleable
  <2> HIDE DEF Reachable
  <2>1. SUFFICES ASSUME IInv, NEW x \in Slot, Reachable(x)
        PROVE  /\ offers[x].status = Created => MayWithdraw(offers[x].buyer, x)
               /\ offers[x].status = Accepted /\ now > offers[x].finalizes
                    /\ offers[x].buyer # Seller(x) => MayFinalize(Seller(x), x)
               /\ offers[x].status = Disputed =>
                    \A toBuyer \in BOOLEAN, refund \in 0 .. offers[x].value :
                      MayRule(offers[x].arbitrator, x, toBuyer, FALSE, refund)
    BY DEF Settleable, Reachable
  <2> QED  BY <1>1, <2>1
<1> QED  BY <1>2, Inductive, PTL

-----------------------------------------------------------------------------
(* The contract implements the escrow.                                       *)

\* Whoever has an offer or a listing on record is an account that can be paid:
\* no refund and no price ever goes to the null address.
PartiesKnown ==
  /\ \A l \in ListingId : ListingExists(l) => listings[l].seller \in Account
  /\ \A x \in Slot : offers[x].status # Undefined => offers[x].buyer \in Account

LEMMA PartiesStep == IInv /\ IInv' /\ PartiesKnown /\ [Next]_vars => PartiesKnown'
<1> SUFFICES ASSUME IInv, IInv', PartiesKnown, [Next]_vars  PROVE PartiesKnown'
  OBVIOUS
<1>1. /\ listings \in [ListingId -> Listing]
      /\ offers \in [Slot -> Offer]
      /\ totalListings \in Nat
  BY BoundsAssumption DEF IInv, TypeOK
<1>2. ASSUME NEW seller \in Account, NEW d, NEW m, CreateListingFor(seller, d, m)
      PROVE  PartiesKnown'
  BY <1>1, <1>2 DEF CreateListingFor, PartiesKnown, ListingExists, ListingId
<1>3. ASSUME NEW seller \in Account, NEW l \in ListingId, NEW d, UpdateListingFor(seller, l, d)
      PROVE  PartiesKnown'
  BY <1>1, <1>3 DEF UpdateListingFor, PartiesKnown, ListingExists, Listing
<1>4. ASSUME NEW sender \in Account, ListingStep(sender)
      PROVE  PartiesKnown'
  <2>1. ASSUME NEW l \in ListingId, NEW v, NEW target, sendDeposit(sender, l, target, v)
        PROVE  PartiesKnown'
    BY <1>1, <2>1 DEF sendDeposit, PartiesKnown, ListingExists, Listing
  <2>2. ASSUME NEW l \in ListingId, NEW target, withdrawListing(sender, l, target)
        PROVE  PartiesKnown'
    BY <2>2 DEF withdrawListing, PartiesKnown, ListingExists
  <2> QED  BY <1>2, <1>3, <1>4, <2>1, <2>2
      DEF ListingStep, createListing, createListingWithSender, updateListing,
          updateListingWithSender
\* An offer step rewrites records whose buyer stays, empties them, or writes the
\* caller's; and of listings it changes the deposit at most.
<1>5. ASSUME NEW sender \in Account, OfferStep(sender)
      PROVE  PartiesKnown'
  <2> DEFINE SellersKept == totalListings' = totalListings /\
                \A l \in ListingId : listings'[l].seller = listings[l].seller
             BuyersKept == \A y \in Slot : offers'[y].status # Undefined =>
                \/ offers[y].status # Undefined /\ offers'[y].buyer = offers[y].buyer
                \/ offers'[y].buyer \in Account
  <2>1. SUFFICES SellersKept /\ BuyersKept
    BY <2>1 DEF PartiesKnown, ListingExists
  <2>2. ASSUME NEW l \in ListingId, NEW t \in Terms, makeOffer(sender, l, t)
        PROVE  SellersKept /\ BuyersKept
    BY <1>1, <2>2 DEF makeOffer, NewOffer
  <2>3. ASSUME NEW x \in Slot, NEW t \in Terms, makeOfferAfterWithdrawal(sender, x, t)
        PROVE  SellersKept /\ BuyersKept
    <3>1. SellersKept
      BY <2>3 DEF makeOfferAfterWithdrawal
    <3>2. offers' = [[offers EXCEPT ![x] = NoOffer] EXCEPT ![<<x[1], totalOffers[x[1]]>>] = NewOffer(sender, t)]
      BY <2>3 DEF makeOfferAfterWithdrawal
    <3>3. NewOffer(sender, t).buyer = sender /\ NoOffer.status = Undefined
      BY DEF NewOffer, NoOffer
    <3> QED  BY <1>1, <3>1, <3>2, <3>3
  <2>4. ASSUME NEW x \in Slot, withdrawOffer(sender, x) \/ finalize(sender, x)
        PROVE  SellersKept /\ BuyersKept
    BY <1>1, <2>4 DEF withdrawOffer, finalize, MayFinalize, NoOffer
  <2>5. ASSUME NEW x \in Slot, acceptOffer(sender, x)
        PROVE  SellersKept /\ BuyersKept
    BY <1>1, <2>5 DEF acceptOffer, Listing, Offer
  <2>6. ASSUME NEW x \in Slot, dispute(sender, x)
        PROVE  SellersKept /\ BuyersKept
    <3>1. offers' = [offers EXCEPT ![x].status = Disputed] /\ listings' = listings
          /\ totalListings' = totalListings /\ offers[x].status = Accepted
      BY <2>6 DEF dispute
    <3> QED  BY <1>1, <3>1 DEF Offer
  <2>7. ASSUME NEW x \in Slot, NEW v \in Amounts, addFunds(sender, x, v) \/ updateRefund(sender, x, v)
        PROVE  SellersKept /\ BuyersKept
    BY <1>1, <2>7 DEF addFunds, updateRefund, Offer
  <2>8. ASSUME NEW x \in Slot, NEW v \in Amounts, NEW toBuyer, NEW toAffiliate,
               executeRuling(sender, x, toBuyer, toAffiliate, v)
        PROVE  SellersKept /\ BuyersKept
    <3>1. totalListings' = totalListings /\ offers' = [offers EXCEPT ![x] = NoOffer]
      BY <2>8 DEF executeRuling, MayRule, RulingPays, Ruled
    <3>2. listings' = listings \/ \E d : listings' = [listings EXCEPT ![x[1]].deposit = d]
      BY <2>8 DEF executeRuling, MayRule, RulingPays, Ruled
    <3>3. SellersKept
      <4>1. \A l \in ListingId : listings[l] \in Listing
        BY <1>1
      <4>2. ASSUME NEW d, listings' = [listings EXCEPT ![x[1]].deposit = d], NEW l \in ListingId
            PROVE  listings'[l].seller = listings[l].seller
        <5>1. listings'[l] = listings[l] \/ listings'[l] = [listings[l] EXCEPT !.deposit = d]
          BY <1>1, <4>2
        <5> QED  BY <4>1, <5>1 DEF Listing
      <4> QED  BY <3>1, <3>2, <4>2
    <3>4. BuyersKept
      BY <1>1, <3>1 DEF NoOffer
    <3> QED  BY <3>3, <3>4
  <2> QED  BY <1>5, <2>2, <2>3, <2>4, <2>5, <2>6, <2>7, <2>8 DEF OfferStep
<1>6. ASSUME NEW sender \in Account, OwnerStep(sender)
      PROVE  PartiesKnown'
  BY <1>6 DEF OwnerStep, setTokenAddr, addAffiliate, removeAffiliate, PartiesKnown, ListingExists
<1>7. CASE Tick
  BY <1>7 DEF Tick, PartiesKnown, ListingExists
<1>8. CASE UNCHANGED vars
  BY <1>8 DEF vars, PartiesKnown, ListingExists
<1> QED  BY <1>4, <1>5, <1>6, <1>7, <1>8 DEF Next

-----------------------------------------------------------------------------
(* What rewriting one offer does to the escrow it stands for.                *)

\* The wallets of the accounts, in the watched currency.
Wallets(b) == [a \in Account |-> b[Watched][a]]

LEMMA BarsMoved ==
  ASSUME NEW x \in Slot, totalOffers' = totalOffers,
         \A y \in Slot \ {x} : offers'[y] = offers[y],
         \A y \in Slot \ {x} : Agreed(y) => listings'[y[1]].seller = listings[y[1]].seller
  PROVE  /\ phaseBar' = [phaseBar EXCEPT ![x] = PhaseOf(x)']
         /\ buyerBar' = [buyerBar EXCEPT ![x] = offers'[x].buyer]
         /\ sellerBar' = [sellerBar EXCEPT ![x] = IF Agreed(x)' THEN Seller(x)' ELSE NullAddr]
         /\ potBar' = [potBar EXCEPT ![x] = IF InWatched(x)' THEN offers'[x].value ELSE 0]
<1>1. \A y \in Slot \ {x} : PhaseOf(y)' = PhaseOf(y)
  BY DEF PhaseOf
<1>2. \A y \in Slot \ {x} : Agreed(y)' = Agreed(y) /\ InWatched(y)' = InWatched(y)
  BY DEF Agreed, InWatched
<1>3. phaseBar' = [phaseBar EXCEPT ![x] = PhaseOf(x)']
  BY <1>1 DEF phaseBar
<1>4. buyerBar' = [buyerBar EXCEPT ![x] = offers'[x].buyer]
  BY DEF buyerBar
<1>5. sellerBar' = [sellerBar EXCEPT ![x] = IF Agreed(x)' THEN Seller(x)' ELSE NullAddr]
  BY <1>2 DEF sellerBar, Seller
<1>6. potBar' = [potBar EXCEPT ![x] = IF InWatched(x)' THEN offers'[x].value ELSE 0]
  BY <1>2 DEF potBar
<1> QED  BY <1>3, <1>4, <1>5, <1>6

\* The whole escrow stays as it is when no offer on record, no seller of an
\* agreed offer and nobody's wallet changes.
LEMMA BarsKept ==
  ASSUME offers' = offers, totalOffers' = totalOffers, Wallets(balance') = Wallets(balance),
         \A y \in Slot : Agreed(y) => listings'[y[1]].seller = listings[y[1]].seller
  PROVE  UNCHANGED E!vars
<1>1. phaseBar' = phaseBar
  BY DEF phaseBar, PhaseOf
<1>2. buyerBar' = buyerBar
  BY DEF buyerBar
<1>3. sellerBar' = sellerBar
  BY DEF sellerBar, Agreed, Seller
<1>4. potBar' = potBar
  BY DEF potBar, InWatched
<1>5. purseBar' = purseBar
  BY DEF purseBar, Wallets
<1> QED  BY <1>1, <1>2, <1>3, <1>4, <1>5 DEF E!vars

LEMMA WatchedFacts == Watched \in Currency /\ Watched \notin OriginToken
BY WatchedAssumption

\* A move between the contract and an account, seen in the wallets.
LEMMA MovedWallets ==
  ASSUME NEW b \in Purses, NEW c \in Currency, NEW v \in Nat, NEW a \in Account
  PROVE  /\ Wallets(Moved(b, c, Market, a, v)) =
              IF c = Watched THEN [Wallets(b) EXCEPT ![a] = @ + v] ELSE Wallets(b)
         /\ Wallets(Moved(b, c, a, Market, v)) =
              IF c = Watched THEN [Wallets(b) EXCEPT ![a] = @ - v] ELSE Wallets(b)
<1>1. \A h \in Account : h # Market /\ h \in Holder
  BY AddressAssumption DEF Holder
<1>2. Market \in Holder
  BY DEF Holder
<1>3. \A h \in Account :
        Moved(b, c, Market, a, v)[Watched][h] =
          IF c = Watched /\ h = a THEN b[Watched][h] + v ELSE b[Watched][h]
  BY <1>1, <1>2, WatchedFacts DEF Moved, Purses
<1>4. \A h \in Account :
        Moved(b, c, a, Market, v)[Watched][h] =
          IF c = Watched /\ h = a THEN b[Watched][h] - v ELSE b[Watched][h]
  BY <1>1, <1>2, WatchedFacts DEF Moved, Purses
<1>5. Wallets(Moved(b, c, Market, a, v)) =
              IF c = Watched THEN [Wallets(b) EXCEPT ![a] = @ + v] ELSE Wallets(b)
  BY <1>3 DEF Wallets
<1>6. Wallets(Moved(b, c, a, Market, v)) =
              IF c = Watched THEN [Wallets(b) EXCEPT ![a] = @ - v] ELSE Wallets(b)
  BY <1>4 DEF Wallets
<1> QED  BY <1>5, <1>6

\* Payments in Origin Token are not seen in the wallets.
LEMMA OtherWallets ==
  ASSUME NEW b \in Purses, NEW from, NEW to, NEW v
  PROVE  TypeOK => Wallets(Moved(b, tokenAddr, from, to, v)) = Wallets(b)
<1> SUFFICES ASSUME TypeOK PROVE Wallets(Moved(b, tokenAddr, from, to, v)) = Wallets(b)
  OBVIOUS
<1>1. tokenAddr # Watched /\ Watched \in Currency
  BY WatchedFacts DEF TypeOK
<1>2. Moved(b, tokenAddr, from, to, v)[Watched] = b[Watched]
  BY <1>1 DEF Moved, Purses
<1> QED  BY <1>2 DEF Wallets

LEMMA WalletsType ==
  ASSUME NEW b \in Purses
  PROVE  Wallets(b) \in [Account -> Nat]
BY WatchedFacts DEF Wallets, Purses, Holder

-----------------------------------------------------------------------------
(* One step of the escrow for each call that touches an offer.               *)

\* What the steps use of a live offer.
LEMMA LiveOffer ==
  ASSUME IInv, PartiesKnown, NEW x \in Slot, offers[x].status # Undefined
  PROVE  /\ balance \in Purses
         /\ offers[x].currency \in Currency
         /\ offers[x].value \in Nat
         /\ offers[x].refund \in Nat
         /\ offers[x].refund <= offers[x].value
         /\ offers[x].buyer \in Account
         /\ buyerBar[x] = offers[x].buyer
         /\ potBar[x] = IF offers[x].currency = Watched THEN offers[x].value ELSE 0
         /\ phaseBar[x] = PhaseOf(x)
         /\ sellerBar[x] = IF Agreed(x) THEN Seller(x) ELSE NullAddr
         /\ ListingExists(x[1]) => Seller(x) \in Account
         /\ x[2] < totalOffers[x[1]]
<1>1. balance \in Purses /\ offers[x].currency \in Currency
      /\ offers[x].value \in Nat /\ offers[x].refund \in Nat /\ x[1] \in ListingId
  BY OfferFacts DEF IInv
<1>2. offers[x].refund <= offers[x].value /\ x[2] < totalOffers[x[1]]
  BY DEF IInv, RecordsSound
<1>3. offers[x].buyer \in Account /\ (ListingExists(x[1]) => Seller(x) \in Account)
  BY <1>1 DEF PartiesKnown, Seller
<1> QED  BY <1>1, <1>2, <1>3 DEF buyerBar, potBar, InWatched, phaseBar, sellerBar

LEMMA PurseIs == purseBar = Wallets(balance) /\ purseBar' = Wallets(balance')
BY DEF purseBar, Wallets

LEMMA PaidFacts ==
  ASSUME NEW p \in [Account -> Nat], NEW a \in Account, NEW v \in Nat
  PROVE  /\ E!Paid(p, a, 0) = p
         /\ E!Paid(p, a, v) \in [Account -> Nat]
BY DEF E!Paid

LEMMA WithdrawCancels ==
  ASSUME IInv, PartiesKnown, NEW sender \in Account, NEW x \in Slot, withdrawOffer(sender, x)
  PROVE  E!Cancel(x)
<1>1. /\ offers[x].status = Created
      /\ offers' = [offers EXCEPT ![x] = NoOffer]
      /\ balance' = Moved(balance, offers[x].currency, Market, offers[x].buyer, offers[x].value)
      /\ UNCHANGED <<totalListings, listings, totalOffers>>
  BY DEF withdrawOffer, MayWithdraw, RefundBuyer
<1>2. offers'[x] = NoOffer /\ \A y \in Slot \ {x} : offers'[y] = offers[y]
  BY <1>1 DEF IInv, TypeOK
<1>3. x[2] < totalOffers[x[1]] /\ phaseBar[x] = "open"
  BY <1>1, LiveOffer DEF PhaseOf
<1>4. /\ PhaseOf(x)' = "closed" /\ offers'[x].buyer = NullAddr /\ ~Agreed(x)'
      /\ (IF InWatched(x)' THEN offers'[x].value ELSE 0) = 0
  BY <1>1, <1>2, <1>3 DEF PhaseOf, NoOffer, Agreed
<1>5. sellerBar[x] = NullAddr
  BY <1>1 DEF sellerBar, Agreed
<1>6. /\ phaseBar' = [phaseBar EXCEPT ![x] = "closed"]
      /\ buyerBar' = [buyerBar EXCEPT ![x] = NullAddr]
      /\ sellerBar' = [sellerBar EXCEPT ![x] = NullAddr]
      /\ potBar' = [potBar EXCEPT ![x] = 0]
  BY <1>1, <1>2, <1>4, BarsMoved
<1>7. sellerBar' = sellerBar
  BY <1>5, <1>6 DEF sellerBar
<1>8. purseBar' = E!Paid(purseBar, buyerBar[x], potBar[x])
  <2>1. Wallets(balance') = IF offers[x].currency = Watched
                            THEN E!Paid(Wallets(balance), offers[x].buyer, offers[x].value)
                            ELSE Wallets(balance)
    BY <1>1, LiveOffer, MovedWallets DEF E!Paid
  <2> QED  BY <1>1, <2>1, PurseIs, LiveOffer, WalletsType, PaidFacts
<1> QED  BY <1>3, <1>6, <1>7, <1>8 DEF E!Cancel

LEMMA MakeOfferFunds ==
  ASSUME IInv, PartiesKnown, NEW sender \in Account, NEW l \in ListingId, NEW t \in Terms,
         makeOffer(sender, l, t)
  PROVE  \E x \in Slot : \E v \in 0 .. purseBar[sender] : E!Fund(x, sender, v)
<1> DEFINE v == IF t.currency = Watched THEN t.value ELSE 0
<1>1. PICK n \in Slot : n = <<l, totalOffers[l]>>
  BY BoundsAssumption DEF IInv, TypeOK, Slot, OfferId, makeOffer
<1>2. /\ t.currency \in Currency
      /\ t.value \in Nat
      /\ balance \in Purses
      /\ totalOffers[l] \in Nat
      /\ totalOffers \in [ListingId -> Nat]
      /\ sender \in Holder
  <2>1. t.currency \in Currency /\ t.value \in Nat
    BY InputAssumption DEF OfferTerms
  <2>2. totalOffers \in [ListingId -> Nat]
    BY BoundsAssumption DEF IInv, TypeOK
  <2> QED  BY <2>1, <2>2 DEF IInv, TypeOK, Purses, Holder
<1>3. /\ offers' = [offers EXCEPT ![n] = NewOffer(sender, t)]
      /\ totalOffers' = [totalOffers EXCEPT ![l] = @ + 1]
      /\ balance' = Moved(balance, t.currency, sender, Market, t.value)
      /\ balance[t.currency][sender] >= t.value
      /\ listings' = listings
  BY <1>1 DEF makeOffer, CanCollect
<1>4. offers[n].status = Undefined
  BY <1>1, <1>2 DEF IInv, RecordsSound
<1>5. offers'[n] = NewOffer(sender, t) /\ \A y \in Slot \ {n} : offers'[y] = offers[y]
  BY <1>2, <1>3 DEF IInv, TypeOK
<1>6. \A y \in Slot \ {n} : y[2] < totalOffers'[y[1]] <=> y[2] < totalOffers[y[1]]
  <2> TAKE y \in Slot \ {n}
  <2>1. y[1] \in ListingId /\ y[2] \in Nat /\ y = <<y[1], y[2]>>
    BY BoundsAssumption DEF Slot, OfferId
  <2>2. CASE y[1] = l
    <3>1. y[2] # totalOffers[l] /\ totalOffers'[y[1]] = totalOffers[l] + 1
      BY <1>1, <1>2, <1>3, <2>1, <2>2
    <3> QED  BY <1>2, <2>1, <2>2, <3>1
  <2>3. CASE y[1] # l
    BY <1>2, <1>3, <2>1, <2>3
  <2> QED  BY <2>2, <2>3
<1>7. phaseBar[n] = "new"
  BY <1>1, <1>2, <1>4 DEF phaseBar, PhaseOf
<1>8. phaseBar' = [phaseBar EXCEPT ![n] = "open"]
  <2>1. \A y \in Slot \ {n} : PhaseOf(y)' = PhaseOf(y)
    BY <1>5, <1>6 DEF PhaseOf
  <2>2. PhaseOf(n)' = "open"
    BY <1>5 DEF PhaseOf, NewOffer
  <2> QED  BY <1>2, <2>1, <2>2 DEF phaseBar
<1>9. /\ offers'[n].buyer = sender
      /\ (IF InWatched(n)' THEN offers'[n].value ELSE 0) = v
  BY <1>5 DEF InWatched, NewOffer
<1>10. buyerBar' = [buyerBar EXCEPT ![n] = sender]
  BY <1>5, <1>9 DEF buyerBar
<1>11. potBar' = [potBar EXCEPT ![n] = v]
  <2> HIDE DEF v
  <2>1. \A y \in Slot \ {n} : InWatched(y)' = InWatched(y)
    BY <1>5 DEF InWatched
  <2> QED  BY <1>5, <1>9, <2>1 DEF potBar
<1>12. sellerBar' = sellerBar
  BY <1>2, <1>3, <1>4, <1>5 DEF sellerBar, Agreed, Seller, NewOffer
<1>13. v \in 0 .. purseBar[sender] /\ v <= purseBar[sender]
  <2>1. balance[Watched][sender] \in Nat
    BY <1>2, WatchedFacts DEF Purses
  <2> QED  BY <1>2, <1>3, <2>1 DEF purseBar
<1>14. purseBar' = [purseBar EXCEPT ![sender] = @ - v]
  <2>1. Wallets(balance') = IF t.currency = Watched
                            THEN [Wallets(balance) EXCEPT ![sender] = @ - t.value]
                            ELSE Wallets(balance)
    BY <1>2, <1>3, MovedWallets
  <2>2. [Wallets(balance) EXCEPT ![sender] = @ - 0] = Wallets(balance)
    BY <1>2, WalletsType
  <2> QED  BY <2>1, <2>2, PurseIs
<1> HIDE DEF v
<1>15. E!Fund(n, sender, v)
  BY <1>7, <1>8, <1>10, <1>12, <1>13, <1>14, <1>11 DEF E!Fund
<1> QED  BY <1>2, <1>13, <1>15

LEMMA AcceptAgrees ==
  ASSUME IInv, PartiesKnown, NEW sender \in Account, NEW x \in Slot, acceptOffer(sender, x)
  PROVE  E!Agree(x, sender)
<1>1. /\ offers[x].status = Created
      /\ offers' = [offers EXCEPT ![x] = [offers[x] EXCEPT
           !.finalizes = IF @ < RelativeWindow THEN now + @ ELSE @, !.status = Accepted]]
      /\ listings' = [listings EXCEPT ![x[1]].deposit = @ - offers[x].commission]
      /\ UNCHANGED <<totalListings, totalOffers, balance>>
      /\ sender = Seller(x)
      /\ listings \in [ListingId -> Listing]
  BY DEF acceptOffer, IInv, TypeOK
<1>2. /\ \A y \in Slot \ {x} : offers'[y] = offers[y]
      /\ offers'[x].status = Accepted
      /\ offers'[x].buyer = offers[x].buyer
      /\ offers'[x].currency = offers[x].currency
      /\ offers'[x].value = offers[x].value
  BY <1>1 DEF IInv, TypeOK, Offer
<1>3. \A l \in ListingId : listings'[l].seller = listings[l].seller
  BY <1>1 DEF Listing
<1>4. /\ phaseBar' = [phaseBar EXCEPT ![x] = PhaseOf(x)']
      /\ buyerBar' = [buyerBar EXCEPT ![x] = offers'[x].buyer]
      /\ sellerBar' = [sellerBar EXCEPT ![x] = IF Agreed(x)' THEN Seller(x)' ELSE NullAddr]
      /\ potBar' = [potBar EXCEPT ![x] = IF InWatched(x)' THEN offers'[x].value ELSE 0]
  BY <1>1, <1>2, <1>3, BarsMoved DEF Slot
<1>5. phaseBar[x] = "open" /\ PhaseOf(x)' = "agreed" /\ Agreed(x)'
  BY <1>1, <1>2 DEF phaseBar, PhaseOf, Agreed
<1>6. Seller(x)' = sender
  BY <1>1, <1>3 DEF Seller, Slot
<1>7. buyerBar' = buyerBar
  BY <1>2, <1>4 DEF buyerBar
<1>8. potBar' = potBar
  BY <1>2, <1>4 DEF potBar, InWatched
<1>9. purseBar' = purseBar
  BY <1>1 DEF purseBar
<1> QED  BY <1>4, <1>5, <1>6, <1>7, <1>8, <1>9 DEF E!Agree

LEMMA AddFundsTopsUp ==
  ASSUME IInv, PartiesKnown, NEW sender \in Account, NEW x \in Slot, NEW d \in Amounts,
         addFunds(sender, x, d)
  PROVE  /\ phaseBar[x] = "agreed"
         /\ \E v \in 0 .. purseBar[buyerBar[x]] : E!TopUp(x, v)
<1> DEFINE v == IF offers[x].currency = Watched THEN d ELSE 0
<1>1. /\ offers[x].status = Accepted
      /\ sender = offers[x].buyer
      /\ offers' = [offers EXCEPT ![x] = [offers[x] EXCEPT !.value = @ + d]]
      /\ balance' = Moved(balance, offers[x].currency, sender, Market, d)
      /\ balance[offers[x].currency][sender] >= d
      /\ UNCHANGED <<totalListings, listings, totalOffers>>
      /\ d \in Nat
  BY InputAssumption DEF addFunds, CanCollect
<1>2. /\ \A y \in Slot \ {x} : offers'[y] = offers[y]
      /\ offers'[x].status = Accepted
      /\ offers'[x].buyer = offers[x].buyer
      /\ offers'[x].currency = offers[x].currency
      /\ offers'[x].value = offers[x].value + d
  BY <1>1 DEF IInv, TypeOK, Offer
<1>3. /\ phaseBar' = [phaseBar EXCEPT ![x] = PhaseOf(x)']
      /\ buyerBar' = [buyerBar EXCEPT ![x] = offers'[x].buyer]
      /\ sellerBar' = [sellerBar EXCEPT ![x] = IF Agreed(x)' THEN Seller(x)' ELSE NullAddr]
      /\ potBar' = [potBar EXCEPT ![x] = IF InWatched(x)' THEN offers'[x].value ELSE 0]
  BY <1>1, <1>2, BarsMoved
<1>4. phaseBar[x] = "agreed" /\ PhaseOf(x)' = "agreed" /\ Agreed(x) /\ Agreed(x)'
  BY <1>1, <1>2 DEF phaseBar, PhaseOf, Agreed
<1>5. phaseBar' = phaseBar
  BY <1>3, <1>4 DEF phaseBar
<1>6. buyerBar' = buyerBar
  BY <1>2, <1>3 DEF buyerBar
<1>7. sellerBar' = sellerBar
  BY <1>1, <1>3, <1>4 DEF sellerBar, Seller
<1>8. potBar' = [potBar EXCEPT ![x] = @ + v]
  <2>1. (IF InWatched(x)' THEN offers'[x].value ELSE 0) = potBar[x] + v
    BY <1>1, <1>2, LiveOffer DEF InWatched
  <2> HIDE DEF v
  <2> QED  BY <1>3, <2>1
<1>9. v \in 0 .. purseBar[buyerBar[x]] /\ v <= purseBar[buyerBar[x]]
  <2>1. balance[Watched][sender] \in Nat
    BY <1>1, LiveOffer, WatchedFacts DEF Purses, Holder
  <2>2. purseBar[buyerBar[x]] = balance[Watched][sender]
    BY <1>1, LiveOffer DEF purseBar
  <2> QED  BY <1>1, <2>1, <2>2
<1>10. purseBar' = [purseBar EXCEPT ![buyerBar[x]] = @ - v]
  <2>1. Wallets(balance') = IF offers[x].currency = Watched
                            THEN [Wallets(balance) EXCEPT ![sender] = @ - d]
                            ELSE Wallets(balance)
    BY <1>1, LiveOffer, MovedWallets
  <2>2. [Wallets(balance) EXCEPT ![sender] = @ - 0] = Wallets(balance)
    BY <1>1, LiveOffer, WalletsType
  <2>3. buyerBar[x] = sender
    BY <1>1, LiveOffer
  <2>4. Wallets(balance') = [Wallets(balance) EXCEPT ![sender] = @ - v]
    BY <2>1, <2>2
  <2> QED  BY <2>3, <2>4, PurseIs
<1> HIDE DEF v
<1>11. E!TopUp(x, v)
  BY <1>4, <1>5, <1>6, <1>7, <1>8, <1>9, <1>10 DEF E!TopUp
<1> QED  BY <1>4, <1>9, <1>11

LEMMA DisputeContests ==
  ASSUME IInv, PartiesKnown, NEW sender \in Account, NEW x \in Slot, dispute(sender, x)
  PROVE  E!Contest(x)
<1>1. /\ offers[x].status = Accepted
      /\ offers' = [offers EXCEPT ![x] = [offers[x] EXCEPT !.status = Disputed]]
      /\ UNCHANGED <<totalListings, listings, totalOffers, balance>>
  BY DEF dispute
<1>2. /\ \A y \in Slot \ {x} : offers'[y] = offers[y]
      /\ offers'[x].status = Disputed
      /\ offers'[x].buyer = offers[x].buyer
      /\ offers'[x].currency = offers[x].currency
      /\ offers'[x].value = offers[x].value
  BY <1>1 DEF IInv, TypeOK, Offer
<1>3. /\ phaseBar' = [phaseBar EXCEPT ![x] = PhaseOf(x)']
      /\ buyerBar' = [buyerBar EXCEPT ![x] = offers'[x].buyer]
      /\ sellerBar' = [sellerBar EXCEPT ![x] = IF Agreed(x)' THEN Seller(x)' ELSE NullAddr]
      /\ potBar' = [potBar EXCEPT ![x] = IF InWatched(x)' THEN offers'[x].value ELSE 0]
  BY <1>1, <1>2, BarsMoved
<1>4. phaseBar[x] = "agreed" /\ PhaseOf(x)' = "contested" /\ Agreed(x) /\ Agreed(x)'
  BY <1>1, <1>2 DEF phaseBar, PhaseOf, Agreed
<1>5. buyerBar' = buyerBar
  BY <1>2, <1>3 DEF buyerBar
<1>6. sellerBar' = sellerBar
  BY <1>1, <1>3, <1>4 DEF sellerBar, Seller
<1>7. potBar' = potBar
  BY <1>2, <1>3 DEF potBar, InWatched
<1>8. purseBar' = purseBar
  BY <1>1 DEF purseBar
<1> QED  BY <1>3, <1>4, <1>5, <1>6, <1>7, <1>8 DEF E!Contest

\* Closing an agreed offer while its pot is divided between the two parties.
LEMMA CloseSettles ==
  ASSUME IInv, PartiesKnown, NEW x \in Slot, offers[x].status \in {Accepted, Disputed},
         offers' = [offers EXCEPT ![x] = NoOffer], totalOffers' = totalOffers,
         \A l \in ListingId : listings'[l].seller = listings[l].seller,
         NEW back \in 0 .. potBar[x],
         Wallets(balance') = E!Paid(E!Paid(Wallets(balance), offers[x].buyer, back),
                                    Seller(x), potBar[x] - back)
  PROVE  \E v \in 0 .. potBar[x] : E!Settle(x, v)
<1>1. offers'[x] = NoOffer /\ \A y \in Slot \ {x} : offers'[y] = offers[y]
  BY DEF IInv, TypeOK
<1>2. /\ x[2] < totalOffers[x[1]]
      /\ phaseBar[x] \in {"agreed", "contested"}
      /\ buyerBar[x] = offers[x].buyer
      /\ sellerBar[x] = Seller(x)
      /\ potBar[x] \in Nat
  BY LiveOffer DEF PhaseOf, Agreed
<1>3. /\ PhaseOf(x)' = "closed" /\ offers'[x].buyer = NullAddr /\ ~Agreed(x)'
      /\ (IF InWatched(x)' THEN offers'[x].value ELSE 0) = 0
  BY <1>1, <1>2 DEF PhaseOf, NoOffer, Agreed
<1>4. /\ phaseBar' = [phaseBar EXCEPT ![x] = "closed"]
      /\ buyerBar' = [buyerBar EXCEPT ![x] = NullAddr]
      /\ sellerBar' = [sellerBar EXCEPT ![x] = NullAddr]
      /\ potBar' = [potBar EXCEPT ![x] = 0]
  BY <1>1, <1>3, BarsMoved DEF Slot
<1>5. purseBar' = E!Paid(E!Paid(purseBar, buyerBar[x], back), sellerBar[x], potBar[x] - back)
  BY <1>2, PurseIs
<1>6. back <= potBar[x]
  BY <1>2
<1>7. E!Settle(x, back)
  BY <1>2, <1>4, <1>5, <1>6 DEF E!Settle
<1> QED  BY <1>7

\* paySeller divides the price between buyer and seller.
LEMMA PaySellerWallets ==
  ASSUME TypeOK, NEW o \in Offer, NEW seller \in Account, o.buyer \in Account,
         o.refund <= o.value, CanPaySeller(o, seller)
  PROVE  Wallets(PaySeller(o, seller)) =
           IF o.currency = Watched
           THEN E!Paid(E!Paid(Wallets(balance), o.buyer, o.refund), seller, o.value - o.refund)
           ELSE Wallets(balance)
<1> DEFINE b == Moved(balance, o.currency, Market, o.buyer, o.refund)
<1>1. /\ o.currency \in Currency
      /\ o.value \in Nat
      /\ o.refund \in Nat
      /\ o.value - o.refund \in Nat
      /\ balance \in Purses
      /\ Market \in Holder
  <2>1. o.currency \in Currency /\ o.value \in Nat /\ o.refund \in Nat
    BY DEF Offer
  <2>2. balance \in Purses /\ Market \in Holder
    BY DEF TypeOK, Purses, Holder
  <2> QED  BY <2>1, <2>2
<1>2. b \in Purses
  <2>1. balance[o.currency][Market] \in Nat /\ balance[o.currency][Market] >= o.value
    BY <1>1 DEF CanPaySeller, Purses
  <2>2. balance[o.currency][Market] >= o.refund
    BY <1>1, <2>1
  <2> QED  BY <1>1, <2>2, MovedType
<1>3. Wallets(b) = IF o.currency = Watched
                   THEN E!Paid(Wallets(balance), o.buyer, o.refund)
                   ELSE Wallets(balance)
  BY <1>1, MovedWallets DEF E!Paid
<1>4. PaySeller(o, seller) = Moved(b, o.currency, Market, seller, o.value - o.refund)
  BY DEF PaySeller
<1> HIDE DEF b
<1>5. Wallets(PaySeller(o, seller)) = IF o.currency = Watched
                                      THEN E!Paid(Wallets(b), seller, o.value - o.refund)
                                      ELSE Wallets(b)
  BY <1>1, <1>2, <1>4, MovedWallets DEF E!Paid
<1> QED  BY <1>3, <1>5

LEMMA PayCommissionWallets ==
  ASSUME TypeOK, NEW b \in Purses, NEW o
  PROVE  Wallets(PayCommission(b, o)) = Wallets(b)
BY OtherWallets DEF PayCommission

LEMMA FinalizeSettles ==
  ASSUME IInv, PartiesKnown, NEW sender \in Account, NEW x \in Slot, finalize(sender, x)
  PROVE  \E v \in 0 .. potBar[x] : E!Settle(x, v)
<1> DEFINE back == IF offers[x].currency = Watched THEN offers[x].refund ELSE 0
           paid == PaySeller(offers[x], Seller(x))
<1>1. /\ ListingExists(x[1])
      /\ offers[x].status = Accepted
      /\ offers' = [offers EXCEPT ![x] = NoOffer]
      /\ CanPaySeller(offers[x], Seller(x))
      /\ balance' = paid \/ balance' = PayCommission(paid, offers[x])
      /\ UNCHANGED <<totalListings, listings, totalOffers>>
  BY DEF finalize, MayFinalize
<1>2. /\ offers[x] \in Offer
      /\ offers[x].refund <= offers[x].value
      /\ offers[x].value \in Nat
      /\ offers[x].refund \in Nat
      /\ offers[x].buyer \in Account
      /\ Seller(x) \in Account
      /\ potBar[x] = IF offers[x].currency = Watched THEN offers[x].value ELSE 0
      /\ Wallets(balance) \in [Account -> Nat]
  BY <1>1, OfferFacts, LiveOffer, WalletsType DEF IInv
<1>3. Wallets(paid) = IF offers[x].currency = Watched
                      THEN E!Paid(E!Paid(Wallets(balance), offers[x].buyer, offers[x].refund),
                                  Seller(x), offers[x].value - offers[x].refund)
                      ELSE Wallets(balance)
  BY <1>1, <1>2, PaySellerWallets DEF IInv
<1>4. Wallets(balance') = Wallets(paid)
  <2>1. paid \in Purses
    BY <1>1, <1>2, PaySellerEffect DEF IInv, Party
  <2> QED  BY <1>1, <2>1, PayCommissionWallets DEF IInv
<1> HIDE DEF paid
<1>5. back \in 0 .. potBar[x]
  BY <1>2
<1>6. Wallets(balance') = E!Paid(E!Paid(Wallets(balance), offers[x].buyer, back),
                                 Seller(x), potBar[x] - back)
  <2>1. CASE offers[x].currency = Watched
    BY <1>2, <1>3, <1>4, <2>1
  <2>2. CASE offers[x].currency # Watched
    <3>1. back = 0 /\ potBar[x] - back = 0
      BY <1>2, <2>2
    <3> QED  BY <1>2, <1>3, <1>4, <2>2, <3>1, PaidFacts
  <2> QED  BY <2>1, <2>2
<1> HIDE DEF back
<1> QED  BY <1>1, <1>5, <1>6, CloseSettles

LEMMA RulingSettles ==
  ASSUME IInv, PartiesKnown, NEW sender \in Account, NEW x \in Slot, NEW d \in Amounts,
         NEW toBuyer \in BOOLEAN, NEW toAffiliate \in BOOLEAN,
         executeRuling(sender, x, toBuyer, toAffiliate, d)
  PROVE  \E v \in 0 .. potBar[x] : E!Settle(x, v)
<1> DEFINE o == [offers[x] EXCEPT !.refund = d]
           paid == IF toBuyer THEN RefundBuyer(x) ELSE PaySeller(o, Seller(x))
           back == IF offers[x].currency # Watched THEN 0
                   ELSE IF toBuyer THEN offers[x].value ELSE d
<1>1. /\ offers[x].status = Disputed
      /\ offers' = [offers EXCEPT ![x] = NoOffer]
      /\ IF toBuyer THEN CanRefundBuyer(x) ELSE CanPaySeller(o, Seller(x))
      /\ o.refund <= o.value
      /\ balance' = paid \/ balance' = PayCommission(paid, o)
      /\ UNCHANGED <<totalListings, totalOffers>>
      /\ listings' = listings \/ \E n : listings' = [listings EXCEPT ![x[1]].deposit = n]
  BY DEF executeRuling, MayRule, RulingPays, Ruled
<1>2. /\ offers[x] \in Offer
      /\ offers[x].currency \in Currency
      /\ offers[x].value \in Nat
      /\ offers[x].buyer \in Account
      /\ Seller(x) \in Account
      /\ potBar[x] = IF offers[x].currency = Watched THEN offers[x].value ELSE 0
      /\ balance \in Purses
      /\ Wallets(balance) \in [Account -> Nat]
  <2>1. ListingExists(x[1])
    BY <1>1 DEF IInv, RecordsSound
  <2> QED  BY <1>1, <2>1, OfferFacts, LiveOffer, WalletsType DEF IInv
<1>3. /\ o \in Offer
      /\ o.value = offers[x].value
      /\ o.buyer = offers[x].buyer
      /\ o.currency = offers[x].currency
      /\ o.refund = d
      /\ d \in Nat
  BY <1>2, InputAssumption DEF Offer
<1>4. d <= offers[x].value
  BY <1>1, <1>3
<1>5. paid \in Purses /\ Wallets(balance') = Wallets(paid)
  <2>1. ASSUME toBuyer PROVE paid \in Purses
    <3>1. CanRefundBuyer(x) /\ paid = RefundBuyer(x)
      BY <1>1, <2>1
    <3> HIDE DEF o, paid
    <3> QED  BY <1>1, <3>1, RefundBuyerEffect DEF IInv
  <2>2. ASSUME ~toBuyer PROVE paid \in Purses
    <3>1. CanPaySeller(o, Seller(x)) /\ paid = PaySeller(o, Seller(x))
      BY <1>1, <2>2
    <3> HIDE DEF o, paid
    <3> QED  BY <1>1, <1>2, <1>3, <3>1, PaySellerEffect DEF IInv, Party
  <2>3. paid \in Purses
    BY <2>1, <2>2
  <2> HIDE DEF paid, o
  <2> QED  BY <1>1, <2>3, PayCommissionWallets DEF IInv
<1>6. back \in 0 .. potBar[x]
  BY <1>2, <1>3, <1>4
<1>7. Wallets(paid) = E!Paid(E!Paid(Wallets(balance), offers[x].buyer, back),
                             Seller(x), potBar[x] - back)
  <2>1. CASE toBuyer
    <3>1. Wallets(paid) = IF offers[x].currency = Watched
                          THEN E!Paid(Wallets(balance), offers[x].buyer, offers[x].value)
                          ELSE Wallets(balance)
      <4>1. paid = Moved(balance, offers[x].currency, Market, offers[x].buyer, offers[x].value)
        BY <2>1 DEF RefundBuyer
      <4> HIDE DEF paid
      <4>2. Wallets(Moved(balance, offers[x].currency, Market, offers[x].buyer, offers[x].value)) =
              IF offers[x].currency = Watched
              THEN [Wallets(balance) EXCEPT ![offers[x].buyer] = @ + offers[x].value]
              ELSE Wallets(balance)
        <5>1. /\ offers[x].currency \in Currency
              /\ offers[x].value \in Nat
              /\ offers[x].buyer \in Account
              /\ balance \in Purses
          BY <1>2
        <5> QED  BY <5>1, MovedWallets
      <4> QED  BY <4>1, <4>2 DEF E!Paid
    <3>2. Wallets(paid) = E!Paid(Wallets(balance), offers[x].buyer, back)
      BY <1>2, <2>1, <3>1, PaidFacts
    <3>3. potBar[x] - back = 0 /\ back \in Nat
      BY <1>2, <2>1
    <3> HIDE DEF back, paid
    <3>4. E!Paid(Wallets(balance), offers[x].buyer, back) \in [Account -> Nat]
      BY <1>2, <3>3, PaidFacts
    <3> QED  BY <1>2, <3>2, <3>3, <3>4, PaidFacts
  <2>2. CASE ~toBuyer
    <3>1. Wallets(paid) = IF offers[x].currency = Watched
                          THEN E!Paid(E!Paid(Wallets(balance), offers[x].buyer, d),
                                      Seller(x), offers[x].value - d)
                          ELSE Wallets(balance)
      <4>1. CanPaySeller(o, Seller(x)) /\ paid = PaySeller(o, Seller(x))
        BY <1>1, <2>2
      <4> HIDE DEF o, paid
      <4> QED  BY <1>1, <1>2, <1>3, <4>1, PaySellerWallets DEF IInv
    <3> HIDE DEF paid
    <3>2. CASE offers[x].currency = Watched
      BY <1>2, <2>2, <3>1, <3>2
    <3>3. CASE offers[x].currency # Watched
      <4>1. back = 0 /\ potBar[x] - back = 0
        BY <1>2, <3>3
      <4> QED  BY <1>2, <3>1, <3>3, <4>1, PaidFacts
    <3> QED  BY <3>2, <3>3
  <2> QED  BY <2>1, <2>2
<1>8. \A l \in ListingId : listings'[l].seller = listings[l].seller
  <2>1. listings \in [ListingId -> Listing]
    BY DEF IInv, TypeOK
  <2>2. CASE listings' = listings
    BY <2>2
  <2>3. ASSUME NEW n, listings' = [listings EXCEPT ![x[1]].deposit = n]
        PROVE  \A l \in ListingId : listings'[l].seller = listings[l].seller
    BY <2>1, <2>3 DEF Listing
  <2> QED  BY <1>1, <2>2, <2>3
<1> HIDE DEF back, paid, o
<1> QED  BY <1>1, <1>5, <1>6, <1>7, <1>8, CloseSettles

LEMMA ReplacementReplaces ==
  ASSUME IInv, PartiesKnown, NEW sender \in Account, NEW x \in Slot, NEW t \in Terms,
         makeOfferAfterWithdrawal(sender, x, t)
  PROVE  \E y \in Slot : \E v \in 0 .. (purseBar[sender] + potBar[x]) : E!Replace(x, y, sender, v)
<1> DEFINE v == IF t.currency = Watched THEN t.value ELSE 0
           refunded == RefundBuyer(x)
<1>1. PICK n \in Slot : n = <<x[1], totalOffers[x[1]]>>
  BY BoundsAssumption DEF IInv, TypeOK, Slot, OfferId, makeOfferAfterWithdrawal
<1>2. /\ t.currency \in Currency
      /\ t.value \in Nat
      /\ balance \in Purses
      /\ x[1] \in ListingId
      /\ totalOffers[x[1]] \in Nat
      /\ totalOffers \in [ListingId -> Nat]
      /\ sender \in Holder
  <2>1. t.currency \in Currency /\ t.value \in Nat
    BY InputAssumption DEF OfferTerms
  <2>2. totalOffers \in [ListingId -> Nat]
    BY BoundsAssumption DEF IInv, TypeOK
  <2>3. x[1] \in ListingId
    BY DEF Slot
  <2> QED  BY <2>1, <2>2, <2>3 DEF IInv, TypeOK, Purses, Holder
<1>3. /\ offers[x].status = Created
      /\ offers' = [[offers EXCEPT ![x] = NoOffer] EXCEPT ![n] = NewOffer(sender, t)]
      /\ totalOffers' = [totalOffers EXCEPT ![x[1]] = @ + 1]
      /\ balance' = Moved(refunded, t.currency, sender, Market, t.value)
      /\ refunded = Moved(balance, offers[x].currency, Market, offers[x].buyer, offers[x].value)
      /\ CanRefundBuyer(x)
      /\ listings' = listings
  BY <1>1 DEF makeOfferAfterWithdrawal, MayWithdraw, RefundBuyer
<1>4. refunded \in Purses /\ refunded[t.currency][sender] >= t.value
  BY <1>3, RefundBuyerEffect, ReplacementCovered DEF IInv
<1>5. offers[n].status = Undefined /\ n # x
  BY <1>1, <1>2, <1>3 DEF IInv, RecordsSound
<1>6. /\ offers'[n] = NewOffer(sender, t)
      /\ offers'[x] = NoOffer
      /\ \A y \in Slot \ {n, x} : offers'[y] = offers[y]
  BY <1>3, <1>5 DEF IInv, TypeOK
<1>7. \A y \in Slot \ {n} : y[2] < totalOffers'[y[1]] <=> y[2] < totalOffers[y[1]]
  <2> TAKE y \in Slot \ {n}
  <2>1. y[1] \in ListingId /\ y[2] \in Nat /\ y = <<y[1], y[2]>>
    BY BoundsAssumption DEF Slot, OfferId
  <2>2. CASE y[1] = x[1]
    <3>1. y[2] # totalOffers[x[1]] /\ totalOffers'[y[1]] = totalOffers[x[1]] + 1
      BY <1>1, <1>2, <1>3, <2>1, <2>2
    <3> QED  BY <1>2, <2>1, <2>2, <3>1
  <2>3. CASE y[1] # x[1]
    BY <1>2, <1>3, <2>1, <2>3
  <2> QED  BY <2>2, <2>3
<1> HIDE DEF refunded
<1>8. phaseBar[n] = "new" /\ phaseBar[x] = "open"
  BY <1>1, <1>2, <1>3, <1>5 DEF phaseBar, PhaseOf
<1>9. /\ offers'[n].buyer = sender
      /\ (IF InWatched(n)' THEN offers'[n].value ELSE 0) = v
      /\ offers'[n].status = Created
      /\ offers'[x].buyer = NullAddr
      /\ (IF InWatched(x)' THEN offers'[x].value ELSE 0) = 0
      /\ offers'[x].status = Undefined
  BY <1>6 DEF InWatched, NewOffer, NoOffer
<1>10. phaseBar' = [phaseBar EXCEPT ![x] = "closed", ![n] = "open"]
  <2>1. \A y \in Slot \ {n, x} : PhaseOf(y)' = PhaseOf(y)
    BY <1>6, <1>7 DEF PhaseOf
  <2>2. PhaseOf(n)' = "open"
    BY <1>9 DEF PhaseOf
  <2>3. PhaseOf(x)' = "closed"
    <3>1. x[2] < totalOffers[x[1]]
      BY <1>3, LiveOffer
    <3> QED  BY <1>5, <1>7, <1>9, <3>1 DEF PhaseOf
  <2> QED  BY <1>5, <2>1, <2>2, <2>3 DEF phaseBar
<1>11. buyerBar' = [buyerBar EXCEPT ![x] = NullAddr, ![n] = sender]
  BY <1>5, <1>6, <1>9 DEF buyerBar
<1>12. potBar' = [potBar EXCEPT ![x] = 0, ![n] = v]
  <2> HIDE DEF v
  <2>1. \A y \in Slot \ {n, x} : InWatched(y)' = InWatched(y)
    BY <1>6 DEF InWatched
  <2> QED  BY <1>5, <1>6, <1>9, <2>1 DEF potBar
<1>13. sellerBar' = sellerBar
  <2>1. ~Agreed(n) /\ ~Agreed(n)' /\ ~Agreed(x) /\ ~Agreed(x)'
    BY <1>3, <1>5, <1>9 DEF Agreed
  <2>2. \A y \in Slot \ {n, x} : Agreed(y)' = Agreed(y)
    BY <1>6 DEF Agreed
  <2> QED  BY <1>3, <2>1, <2>2 DEF sellerBar, Seller
<1>14. Wallets(refunded) = E!Paid(purseBar, buyerBar[x], potBar[x])
  <2>1. Wallets(refunded) = IF offers[x].currency = Watched
                            THEN E!Paid(Wallets(balance), offers[x].buyer, offers[x].value)
                            ELSE Wallets(balance)
    <3>1. /\ balance \in Purses
          /\ offers[x].currency \in Currency
          /\ offers[x].value \in Nat
          /\ offers[x].buyer \in Account
      BY <1>3, LiveOffer
    <3>2. refunded = Moved(balance, offers[x].currency, Market, offers[x].buyer, offers[x].value)
      BY <1>3
    <3>3. Wallets(refunded) = IF offers[x].currency = Watched
                              THEN [Wallets(balance) EXCEPT ![offers[x].buyer] = @ + offers[x].value]
                              ELSE Wallets(balance)
      BY <3>1, <3>2, MovedWallets
    <3> QED  BY <3>1, <3>3 DEF E!Paid
  <2> QED  BY <1>3, <2>1, PurseIs, LiveOffer, WalletsType, PaidFacts
<1>15. purseBar' = [E!Paid(purseBar, buyerBar[x], potBar[x]) EXCEPT ![sender] = @ - v]
  <2>1. Wallets(balance') = IF t.currency = Watched
                            THEN [Wallets(refunded) EXCEPT ![sender] = @ - t.value]
                            ELSE Wallets(refunded)
    BY <1>2, <1>3, <1>4, MovedWallets
  <2>2. [Wallets(refunded) EXCEPT ![sender] = @ - 0] = Wallets(refunded)
    BY <1>4, WalletsType
  <2>3. Wallets(balance') = [Wallets(refunded) EXCEPT ![sender] = @ - v]
    BY <2>1, <2>2
  <2> QED  BY <1>14, <2>3, PurseIs
<1>16. v \in Nat /\ v <= E!Paid(purseBar, buyerBar[x], potBar[x])[sender]
  <2>1. refunded[Watched][sender] \in Nat
    BY <1>2, <1>4, WatchedFacts DEF Purses
  <2>2. Wallets(refunded)[sender] = refunded[Watched][sender]
    BY DEF Wallets
  <2> QED  BY <1>2, <1>4, <1>14, <2>1, <2>2
<1>17. v \in 0 .. (purseBar[sender] + potBar[x])
  <2>1. purseBar \in [Account -> Nat] /\ potBar[x] \in Nat
    BY <1>2, <1>3, PurseIs, WalletsType, LiveOffer
  <2>2. E!Paid(purseBar, buyerBar[x], potBar[x])[sender] <= purseBar[sender] + potBar[x]
    <3>1. E!Paid(purseBar, buyerBar[x], potBar[x])[sender]
            \in {purseBar[sender], purseBar[sender] + potBar[x]}
      BY <2>1 DEF E!Paid
    <3> QED  BY <2>1, <3>1
  <2>3. E!Paid(purseBar, buyerBar[x], potBar[x])[sender] \in Nat
    BY <2>1, PaidFacts, <1>3, LiveOffer
  <2> HIDE DEF v
  <2> QED  BY <1>16, <2>1, <2>2, <2>3
<1> HIDE DEF v
<1>18. E!Replace(x, n, sender, v)
  BY <1>8, <1>10, <1>11, <1>12, <1>13, <1>15, <1>16 DEF E!Replace
<1> QED  BY <1>17, <1>18

-----------------------------------------------------------------------------
(* Every step of the contract is a step of the escrow, or none.              *)

LEMMA ListingStepStutters ==
  ASSUME IInv, NEW sender \in Account, ListingStep(sender)
  PROVE  UNCHANGED E!vars
<1>1. /\ listings \in [ListingId -> Listing]
      /\ balance \in Purses
      /\ TypeOK
  BY DEF IInv, TypeOK, Purses
<1>2. \A y \in Slot : Agreed(y) => ListingExists(y[1]) /\ y[1] \in ListingId
  BY DEF IInv, RecordsSound, Agreed, Slot
<1>3. ASSUME NEW seller \in Account, NEW d, NEW m, CreateListingFor(seller, d, m)
      PROVE  UNCHANGED E!vars
  <2>1. Wallets(balance') = Wallets(balance)
    BY <1>1, <1>3, OtherWallets DEF CreateListingFor
  <2>2. \A y \in Slot : Agreed(y) => listings'[y[1]].seller = listings[y[1]].seller
    <3>1. \A y \in Slot : Agreed(y) => y[1] # totalListings
      BY <1>2, BoundsAssumption DEF ListingExists, ListingId, IInv, TypeOK
    <3> QED  BY <1>1, <1>2, <1>3, <3>1 DEF CreateListingFor
  <2> QED  BY <1>3, <2>1, <2>2, BarsKept DEF CreateListingFor
<1>4. ASSUME NEW seller \in Account, NEW l \in ListingId, NEW d, UpdateListingFor(seller, l, d)
      PROVE  UNCHANGED E!vars
  <2>1. Wallets(balance') = Wallets(balance)
    BY <1>1, <1>4, OtherWallets DEF UpdateListingFor
  <2>2. \A y \in Slot : listings'[y[1]].seller = listings[y[1]].seller
    BY <1>1, <1>4 DEF UpdateListingFor, Slot, Listing
  <2> QED  BY <1>4, <2>1, <2>2, BarsKept DEF UpdateListingFor
<1>5. ASSUME NEW l \in ListingId, NEW v, NEW target, sendDeposit(sender, l, target, v)
      PROVE  UNCHANGED E!vars
  <2>1. Wallets(balance') = Wallets(balance)
    BY <1>1, <1>5, OtherWallets DEF sendDeposit
  <2>2. \A y \in Slot : listings'[y[1]].seller = listings[y[1]].seller
    BY <1>1, <1>5 DEF sendDeposit, Slot, Listing
  <2> QED  BY <1>5, <2>1, <2>2, BarsKept DEF sendDeposit
<1>6. ASSUME NEW l \in ListingId, NEW target, withdrawListing(sender, l, target)
      PROVE  UNCHANGED E!vars
  <2>1. Wallets(balance') = Wallets(balance)
    BY <1>1, <1>6, OtherWallets DEF withdrawListing
  <2> QED  BY <1>6, <2>1, BarsKept DEF withdrawListing
<1> QED  BY <1>3, <1>4, <1>5, <1>6
    DEF ListingStep, createListing, createListingWithSender, updateListing,
        updateListingWithSender

LEMMA UpdateRefundStutters ==
  ASSUME IInv, NEW sender \in Account, NEW x \in Slot, NEW v \in Amounts,
         updateRefund(sender, x, v)
  PROVE  UNCHANGED E!vars
<1>1. /\ offers' = [offers EXCEPT ![x] = [offers[x] EXCEPT !.refund = v]]
      /\ UNCHANGED <<listings, totalOffers, balance>>
  BY DEF updateRefund
<1>2. \A y \in Slot : /\ offers'[y].status = offers[y].status
                      /\ offers'[y].buyer = offers[y].buyer
                      /\ offers'[y].currency = offers[y].currency
                      /\ offers'[y].value = offers[y].value
  BY <1>1 DEF IInv, TypeOK, Offer
<1>3. phaseBar' = phaseBar
  <2>1. \A y \in Slot : PhaseOf(y)' = PhaseOf(y)
    BY <1>1, <1>2 DEF PhaseOf
  <2> QED  BY <2>1 DEF phaseBar
<1>4. buyerBar' = buyerBar
  BY <1>2 DEF buyerBar
<1>5. sellerBar' = sellerBar
  BY <1>1, <1>2 DEF sellerBar, Agreed, Seller
<1>6. potBar' = potBar
  BY <1>2 DEF potBar, InWatched
<1>7. purseBar' = purseBar
  BY <1>1 DEF purseBar
<1> QED  BY <1>3, <1>4, <1>5, <1>6, <1>7 DEF E!vars

LEMMA EscrowStep == IInv /\ PartiesKnown /\ [Next]_vars => [E!Next]_(E!vars)
<1> SUFFICES ASSUME IInv, PartiesKnown, [Next]_vars  PROVE E!Next \/ UNCHANGED E!vars
  OBVIOUS
<1>1. ASSUME NEW sender \in Account, OfferStep(sender)
      PROVE  E!Next \/ UNCHANGED E!vars
  <2>1. ASSUME NEW l \in ListingId, NEW t \in Terms, makeOffer(sender, l, t)
        PROVE  E!Next
    BY <2>1, MakeOfferFunds, Zenon DEF E!Next
  <2>2. ASSUME NEW x \in Slot, NEW t \in Terms, makeOfferAfterWithdrawal(sender, x, t)
        PROVE  E!Next
    BY <2>2, ReplacementReplaces, Zenon DEF E!Next
  <2>3. ASSUME NEW x \in Slot, withdrawOffer(sender, x)
        PROVE  E!Next
    BY <2>3, WithdrawCancels, Zenon DEF E!Next
  <2>4. ASSUME NEW x \in Slot, acceptOffer(sender, x)
        PROVE  E!Next
    BY <2>4, AcceptAgrees, Zenon DEF E!Next
  <2>5. ASSUME NEW x \in Slot, finalize(sender, x)
        PROVE  E!Next
    BY <2>5, FinalizeSettles, Zenon DEF E!Next
  <2>6. ASSUME NEW x \in Slot, dispute(sender, x)
        PROVE  E!Next
    BY <2>6, DisputeContests, Zenon DEF E!Next
  <2>7. ASSUME NEW x \in Slot, NEW v \in Amounts, addFunds(sender, x, v)
        PROVE  E!Next
    BY <2>7, AddFundsTopsUp, Zenon DEF E!Next
  <2>8. ASSUME NEW x \in Slot, NEW v \in Amounts, updateRefund(sender, x, v)
        PROVE  UNCHANGED E!vars
    BY <2>8, UpdateRefundStutters
  <2>9. ASSUME NEW x \in Slot, NEW v \in Amounts, NEW toBuyer \in BOOLEAN,
               NEW toAffiliate \in BOOLEAN, executeRuling(sender, x, toBuyer, toAffiliate, v)
        PROVE  E!Next
    BY <2>9, RulingSettles, Zenon DEF E!Next
  <2> QED  BY <1>1, <2>1, <2>2, <2>3, <2>4, <2>5, <2>6, <2>7, <2>8, <2>9 DEF OfferStep
<1>2. ASSUME NEW sender \in Account, OwnerStep(sender)
      PROVE  UNCHANGED E!vars
  BY <1>2, BarsKept DEF OwnerStep, setTokenAddr, addAffiliate, removeAffiliate
<1>3. CASE Tick
  BY <1>3, BarsKept DEF Tick
<1>4. CASE UNCHANGED vars
  BY <1>4, BarsKept DEF vars
<1> QED  BY <1>1, <1>2, <1>3, <1>4, ListingStepStutters DEF Next

LEMMA EscrowInit == Init => E!Init
<1> SUFFICES ASSUME Init PROVE E!Init
  OBVIOUS
<1>1. phaseBar = [x \in Slot |-> "new"]
  <2>1. \A x \in Slot : offers[x].status = Undefined /\ totalOffers[x[1]] = 0 /\ x[2] \in Nat
    BY BoundsAssumption DEF Init, NoOffer, Slot, OfferId
  <2> QED  BY <2>1 DEF phaseBar, PhaseOf
<1>2. buyerBar = [x \in Slot |-> NullAddr]
  BY DEF Init, NoOffer, buyerBar
<1>3. sellerBar = [x \in Slot |-> NullAddr]
  BY DEF Init, NoOffer, sellerBar, Agreed
<1>4. potBar = [x \in Slot |-> 0]
  BY DEF Init, NoOffer, potBar
<1>5. purseBar \in [Account -> Nat]
  BY InitInv, WalletsType, PurseIs DEF IInv, TypeOK, Purses
<1> QED  BY <1>1, <1>2, <1>3, <1>4, <1>5 DEF E!Init

LEMMA AlwaysKnown == Spec => [](IInv /\ PartiesKnown)
<1>1. Init => PartiesKnown
  BY DEF Init, PartiesKnown, ListingExists, NoOffer, ListingId
<1> QED  BY <1>1, InitInv, StepInv, PartiesStep, PTL DEF Spec

\* The contract implements the escrow.
THEOREM EscrowRefined == Spec => ImplementsEscrow
BY AlwaysKnown, EscrowInit, EscrowStep, PTL DEF Spec, ImplementsEscrow, E!Spec

-----------------------------------------------------------------------------
(* No money is lost.                                                         *)

\* What all holders own together, in each currency.
Sums(b) == [c \in Currency |-> Total(b[c])]

\* A covered move between two holders leaves every sum as it is.
LEMMA MovedSums ==
  ASSUME IsFiniteSet(Account), NEW b \in Purses, NEW c \in Currency,
         NEW from \in Holder, NEW to \in Holder, NEW v \in Nat, b[c][from] >= v
  PROVE  Sums(Moved(b, c, from, to, v)) = Sums(b)
<1> DEFINE r == b[c]
           p == [r EXCEPT ![from] = r[from] - v]
           q == [p EXCEPT ![to] = p[to] + v]
<1>1. IsFiniteSet(Holder)
  BY FS_AddElement DEF Holder
<1>2. r \in [Holder -> Nat] /\ p \in [Holder -> Nat] /\ p[from] = r[from] - v
      /\ \A h \in Holder \ {from} : p[h] = r[h]
  BY DEF Purses
<1>3. q \in [Holder -> Nat] /\ q[to] = p[to] + v /\ \A h \in Holder \ {to} : q[h] = p[h]
  <2> HIDE DEF p
  <2> QED  BY <1>2
<1>4. Moved(b, c, from, to, v) = [b EXCEPT ![c] = q]
  <2> DEFINE w == [b EXCEPT ![c] = p]
  <2>1. w = [b EXCEPT ![c][from] = @ - v] /\ w[c] = p /\ w \in [Currency -> [Holder -> Nat]]
    BY <1>2 DEF Purses
  <2>2. Moved(b, c, from, to, v) = [w EXCEPT ![c][to] = @ + v]
    BY <2>1 DEF Moved
  <2> HIDE DEF p
  <2>3. [w EXCEPT ![c][to] = @ + v] = [w EXCEPT ![c] = q]
    BY <2>1
  <2>4. [w EXCEPT ![c] = q] = [b EXCEPT ![c] = q]
    <3> HIDE DEF q
    <3> QED  BY DEF Purses
  <2> QED  BY <2>2, <2>3, <2>4
<1> HIDE DEF r, p, q
<1>5. Total(p) + r[from] = Total(r) + p[from]
  BY <1>1, <1>2, TotalUpdate
<1>6. Total(q) + p[to] = Total(p) + q[to]
  BY <1>1, <1>2, <1>3, TotalUpdate
<1>7. Total(r) \in Nat /\ Total(p) \in Nat /\ Total(q) \in Nat
  BY <1>1, <1>2, <1>3, TotalType
<1>8. r[from] \in Nat /\ p[to] \in Nat
  BY <1>2
<1>9. Total(q) = Total(r)
  BY <1>2, <1>3, <1>5, <1>6, <1>7, <1>8
<1> QED  BY <1>4, <1>9 DEF Sums, Purses, r

\* A step that moves nothing but one covered amount between two holders.
Keeps == Sums(balance') = Sums(balance)

LEMMA HoldersAre ==
  /\ Market \in Holder
  /\ \A a \in Account : a \in Holder
  /\ \A a \in Party : a # NullAddr => a \in Account
BY DEF Holder, Party

LEMMA ListingStepKeeps ==
  ASSUME IsFiniteSet(Account), IInv, NEW sender \in Account, ListingStep(sender)
  PROVE  Keeps
<1>1. balance \in Purses /\ tokenAddr \in Currency /\ listings \in [ListingId -> Listing]
  BY AddressAssumption DEF IInv, TypeOK, Purses, Currency
<1>2. Amounts \subseteq Nat /\ Managers \subseteq Party
  BY InputAssumption
<1>3. ASSUME NEW from \in Holder, NEW to \in Holder, NEW v \in Nat, balance[tokenAddr][from] >= v,
             balance' = Moved(balance, tokenAddr, from, to, v)
      PROVE  Keeps
  BY <1>1, <1>3, MovedSums DEF Keeps
<1>4. ASSUME NEW d \in Amounts, NEW m \in Managers, CreateListingFor(sender, d, m)
      PROVE  Keeps
  BY <1>2, <1>3, <1>4, HoldersAre DEF CreateListingFor, CanCollect
<1>5. ASSUME NEW l \in ListingId, NEW d \in Amounts, UpdateListingFor(sender, l, d)
      PROVE  Keeps
  BY <1>2, <1>3, <1>5, HoldersAre DEF UpdateListingFor, CanCollect
<1>6. ASSUME NEW l \in ListingId, NEW d \in Amounts, NEW target \in Managers,
             sendDeposit(sender, l, target, d)
      PROVE  Keeps
  BY <1>2, <1>3, <1>6, HoldersAre DEF sendDeposit, CanMove
<1>7. ASSUME NEW l \in ListingId, NEW target \in Managers, withdrawListing(sender, l, target)
      PROVE  Keeps
  <2>1. listings[l].deposit \in Nat
    BY <1>1 DEF Listing
  <2> QED  BY <1>2, <1>3, <1>7, <2>1, HoldersAre DEF withdrawListing, CanMove
<1> QED  BY <1>4, <1>5, <1>6, <1>7
    DEF ListingStep, createListing, createListingWithSender, updateListing, updateListingWithSender

\* Paying out a live offer: whoever it pays is an account.
LEMMA RefundKeeps ==
  ASSUME IsFiniteSet(Account), IInv, PartiesKnown, NEW x \in Slot,
         offers[x].status # Undefined, CanRefundBuyer(x)
  PROVE  RefundBuyer(x) \in Purses /\ Sums(RefundBuyer(x)) = Sums(balance)
<1>1. RefundBuyer(x) \in Purses
  BY RefundBuyerEffect DEF IInv
<1>2. /\ balance \in Purses
      /\ offers[x].currency \in Currency
      /\ offers[x].value \in Nat
      /\ offers[x].buyer \in Account
  BY OfferFacts DEF IInv, PartiesKnown
<1>3. balance[offers[x].currency][Market] >= offers[x].value
  BY DEF CanRefundBuyer, CanMove
<1> QED  BY <1>1, <1>2, <1>3, HoldersAre, MovedSums DEF RefundBuyer

LEMMA PaySellerKeeps ==
  ASSUME IsFiniteSet(Account), IInv, NEW o \in Offer, NEW seller \in Account, o.buyer \in Account,
         o.refund <= o.value, CanPaySeller(o, seller)
  PROVE  PaySeller(o, seller) \in Purses /\ Sums(PaySeller(o, seller)) = Sums(balance)
<1> DEFINE b == Moved(balance, o.currency, Market, o.buyer, o.refund)
<1>1. /\ balance \in Purses
      /\ o.currency \in Currency
      /\ o.value \in Nat
      /\ o.refund \in Nat
      /\ o.value - o.refund \in Nat
  <2>1. balance \in Purses
    BY DEF IInv, TypeOK, Purses
  <2>2. o.currency \in Currency /\ o.value \in Nat /\ o.refund \in Nat
    BY DEF Offer
  <2> QED  BY <2>1, <2>2
<1>2. balance[o.currency][Market] \in Nat /\ balance[o.currency][Market] >= o.value
  BY <1>1, HoldersAre DEF CanPaySeller, Purses
<1>3. b \in Purses /\ Sums(b) = Sums(balance)
  BY <1>1, <1>2, HoldersAre, MovedType, MovedSums
<1>4. b[o.currency][Market] = balance[o.currency][Market] - o.refund
  BY <1>1, HoldersAre, MovedOut DEF Party
<1>5. PaySeller(o, seller) = Moved(b, o.currency, Market, seller, o.value - o.refund)
  BY DEF PaySeller
<1> HIDE DEF b
<1>6. b[o.currency][Market] >= o.value - o.refund
  BY <1>1, <1>2, <1>4
<1> QED  BY <1>1, <1>3, <1>5, <1>6, HoldersAre, MovedType, MovedSums

LEMMA CommissionKeeps ==
  ASSUME IsFiniteSet(Account), IInv, NEW b \in Purses, NEW o \in Offer, CanPayCommission(b, o)
  PROVE  Sums(PayCommission(b, o)) = Sums(b)
<1>1. tokenAddr \in Currency /\ o.commission \in Nat /\ o.affiliate \in Party
  BY AddressAssumption DEF IInv, TypeOK, Currency, Offer
<1> QED  BY <1>1, HoldersAre, MovedSums DEF PayCommission, CanPayCommission

LEMMA OfferStepKeeps ==
  ASSUME IsFiniteSet(Account), IInv, PartiesKnown, NEW sender \in Account, OfferStep(sender)
  PROVE  Keeps
<1>1. balance \in Purses /\ offers \in [Slot -> Offer] /\ Amounts \subseteq Nat
  BY InputAssumption DEF IInv, TypeOK, Purses
<1>2. \A t \in Terms : t.currency \in Currency /\ t.value \in Nat
  BY InputAssumption DEF OfferTerms
<1>3. ASSUME NEW l \in ListingId, NEW t \in Terms, makeOffer(sender, l, t)
      PROVE  Keeps
  BY <1>1, <1>2, <1>3, HoldersAre, MovedSums DEF makeOffer, CanCollect, Keeps
<1>4. ASSUME NEW x \in Slot, NEW t \in Terms, makeOfferAfterWithdrawal(sender, x, t)
      PROVE  Keeps
  <2>1. offers[x].status # Undefined /\ CanRefundBuyer(x)
        /\ balance' = Moved(RefundBuyer(x), t.currency, sender, Market, t.value)
    BY <1>4 DEF makeOfferAfterWithdrawal, MayWithdraw
  <2>2. RefundBuyer(x)[t.currency][sender] >= t.value
    BY <1>4, ReplacementCovered
  <2>3. RefundBuyer(x) \in Purses /\ Sums(RefundBuyer(x)) = Sums(balance)
    BY <2>1, RefundKeeps
  <2> QED  BY <1>2, <2>1, <2>2, <2>3, HoldersAre, MovedSums DEF Keeps
<1>5. ASSUME NEW x \in Slot, withdrawOffer(sender, x)
      PROVE  Keeps
  BY <1>5, RefundKeeps DEF withdrawOffer, MayWithdraw, Keeps
<1>6. ASSUME NEW x \in Slot, acceptOffer(sender, x) \/ dispute(sender, x)
      PROVE  Keeps
  BY <1>6 DEF acceptOffer, dispute, Keeps
<1>7. ASSUME NEW x \in Slot, finalize(sender, x)
      PROVE  Keeps
  <2> DEFINE o == offers[x]
             paid == PaySeller(o, Seller(x))
  <2>1. /\ ListingExists(x[1])
        /\ o.status = Accepted
        /\ CanPaySeller(o, Seller(x))
        /\ sender = o.buyer => CanPayCommission(paid, o)
        /\ balance' = IF sender = o.buyer THEN PayCommission(paid, o) ELSE paid
    BY <1>7 DEF finalize, MayFinalize
  <2>2. o \in Offer /\ o.buyer \in Account /\ Seller(x) \in Account /\ o.refund <= o.value
    BY <2>1, OfferFacts DEF IInv, RecordsSound, PartiesKnown, Seller
  <2>3. paid \in Purses /\ Sums(paid) = Sums(balance)
    BY <2>1, <2>2, PaySellerKeeps
  <2> HIDE DEF paid, o
  <2>4. sender = o.buyer => Sums(PayCommission(paid, o)) = Sums(paid)
    BY <2>1, <2>2, <2>3, CommissionKeeps
  <2> QED  BY <2>1, <2>3, <2>4 DEF Keeps
<1>8. ASSUME NEW x \in Slot, NEW v \in Amounts, addFunds(sender, x, v) \/ updateRefund(sender, x, v)
      PROVE  Keeps
  <2>1. CASE addFunds(sender, x, v)
    <3>1. offers[x].currency \in Currency /\ v \in Nat
      BY <1>1 DEF Offer
    <3> QED  BY <1>1, <2>1, <3>1, HoldersAre, MovedSums DEF addFunds, CanCollect, Keeps
  <2>2. CASE updateRefund(sender, x, v)
    BY <2>2 DEF updateRefund, Keeps
  <2> QED  BY <1>8, <2>1, <2>2
<1>9. ASSUME NEW x \in Slot, NEW v \in Amounts, NEW toBuyer \in BOOLEAN, NEW toAffiliate \in BOOLEAN,
             executeRuling(sender, x, toBuyer, toAffiliate, v)
      PROVE  Keeps
  <2> DEFINE o == Ruled(x, v)
             paid == RulingPays(x, toBuyer, v)
  <2>1. MayRule(sender, x, toBuyer, toAffiliate, v)
    BY <1>9 DEF executeRuling
  <2>2. /\ offers[x].status = Disputed
        /\ v <= offers[x].value
        /\ IF toBuyer THEN CanRefundBuyer(x) ELSE CanPaySeller(o, Seller(x))
        /\ toAffiliate => CanPayCommission(paid, o)
    BY <2>1 DEF MayRule
  <2>3. balance' = IF toAffiliate THEN PayCommission(paid, o) ELSE paid
    BY <1>9 DEF executeRuling
  <2>4. offers[x].buyer \in Account /\ Seller(x) \in Account
    BY <2>2, OfferFacts DEF IInv, RecordsSound, PartiesKnown, Seller
  <2>5. o \in Offer /\ o.buyer = offers[x].buyer /\ o.refund = v /\ o.value = offers[x].value
    BY <1>1 DEF Ruled, Offer
  <2>6. paid \in Purses /\ Sums(paid) = Sums(balance)
    <3>1. CASE toBuyer
      BY <2>2, <3>1, RefundKeeps DEF RulingPays
    <3>2. CASE ~toBuyer
      <4>1. paid = PaySeller(o, Seller(x))
        BY <3>2 DEF RulingPays
      <4> HIDE DEF paid, o
      <4> QED  BY <2>2, <2>4, <2>5, <3>2, <4>1, PaySellerKeeps
    <3> QED  BY <3>1, <3>2
  <2> HIDE DEF paid, o
  <2>7. toAffiliate => Sums(PayCommission(paid, o)) = Sums(paid)
    BY <2>2, <2>5, <2>6, CommissionKeeps
  <2> QED  BY <2>3, <2>6, <2>7 DEF Keeps
<1> QED  BY <1>3, <1>4, <1>5, <1>6, <1>7, <1>8, <1>9 DEF OfferStep

\* What a step may never do to the money.
MoneyKept == [][\A c \in Currency : Total(balance'[c]) = Total(balance[c])]_vars

\* No call creates money, pays the null address, or loses what it moves: in
\* every currency the accounts and the contract together own after it what they
\* owned before.  In particular no seller of an offer is the null address that
\* a listing never created reads as.
THEOREM NoMoneyIsLost == IsFiniteSet(Account) => (Spec => MoneyKept)
<1> SUFFICES ASSUME IsFiniteSet(Account) PROVE Spec => MoneyKept
  OBVIOUS
<1>1. IInv /\ PartiesKnown /\ [Next]_vars =>
        [\A c \in Currency : Total(balance'[c]) = Total(balance[c])]_vars
  <2> SUFFICES ASSUME IInv, PartiesKnown, Next
               PROVE  \A c \in Currency : Total(balance'[c]) = Total(balance[c])
    OBVIOUS
  <2>1. Keeps
    <3>1. ASSUME NEW sender \in Account, OwnerStep(sender)
          PROVE  balance' = balance
      BY <3>1 DEF OwnerStep, setTokenAddr, addAffiliate, removeAffiliate
    <3>2. Tick => balance' = balance
      BY DEF Tick
    <3> QED  BY <3>1, <3>2, ListingStepKeeps, OfferStepKeeps DEF Next, Keeps
  <2> QED  BY <2>1 DEF Keeps, Sums
<1> QED  BY <1>1, AlwaysKnown, PTL DEF Spec, MoneyKept

-----------------------------------------------------------------------------
(* What it takes to keep the Origin Token backed.                            *)

\* What an offer's record keeps of the deposit for the commission.
Reserve(o) == IF o.status \in {Accepted, Disputed} THEN o.commission ELSE 0

ReservedBy(records) == Total([x \in Slot |-> Reserve(records[x])])

LEMMA ReserveType ==
  ASSUME NEW o \in Offer
  PROVE  Reserve(o) \in Nat
BY DEF Reserve, Offer

LEMMA ReservedType ==
  ASSUME NEW f \in [Slot -> Offer]
  PROVE  ReservedBy(f) \in Nat
<1> DEFINE F == [x \in Slot |-> Reserve(f[x])]
<1>1. F \in [Slot -> Nat]
  BY ReserveType
<1> HIDE DEF F
<1>2. Total(F) \in Nat
  BY <1>1, SlotFinite, TotalType
<1> QED  BY <1>2 DEF ReservedBy, F

\* Rewriting one offer changes the commissions by the change of its own.
LEMMA ReservedUpdate ==
  ASSUME NEW f \in [Slot -> Offer], NEW g \in [Slot -> Offer],
         NEW x \in Slot, \A y \in Slot \ {x} : g[y] = f[y]
  PROVE  ReservedBy(g) + Reserve(f[x]) = ReservedBy(f) + Reserve(g[x])
<1> DEFINE F == [y \in Slot |-> Reserve(f[y])]
           G == [y \in Slot |-> Reserve(g[y])]
<1>1. F \in [Slot -> Nat] /\ G \in [Slot -> Nat]
  BY ReserveType
<1>2. \A y \in Slot \ {x} : G[y] = F[y]
  OBVIOUS
<1>3. F[x] = Reserve(f[x]) /\ G[x] = Reserve(g[x])
  OBVIOUS
<1> HIDE DEF F, G
<1>4. Total(G) + F[x] = Total(F) + G[x]
  BY <1>1, <1>2, SlotFinite, TotalUpdate
<1> QED  BY <1>3, <1>4 DEF ReservedBy, F, G

DepositsOn(records) == Total([l \in ListingId |-> records[l].deposit])

\* Rewriting one listing changes the deposits by the change of its own.
LEMMA DepositsUpdate ==
  ASSUME NEW f \in [ListingId -> Listing], NEW g \in [ListingId -> Listing],
         NEW l \in ListingId, \A m \in ListingId \ {l} : g[m].deposit = f[m].deposit
  PROVE  /\ DepositsOn(g) + f[l].deposit = DepositsOn(f) + g[l].deposit
         /\ DepositsOn(f) \in Nat
         /\ DepositsOn(g) \in Nat
<1> DEFINE F == [m \in ListingId |-> f[m].deposit]
           G == [m \in ListingId |-> g[m].deposit]
<1>1. F \in [ListingId -> Nat] /\ G \in [ListingId -> Nat]
  BY DEF Listing
<1>2. \A m \in ListingId \ {l} : G[m] = F[m]
  OBVIOUS
<1>3. F[l] = f[l].deposit /\ G[l] = g[l].deposit
  OBVIOUS
<1>4. IsFiniteSet(ListingId)
  BY BoundsAssumption, FS_Interval DEF ListingId
<1> HIDE DEF F, G
<1>5. Total(G) + F[l] = Total(F) + G[l] /\ Total(F) \in Nat /\ Total(G) \in Nat
  BY <1>1, <1>2, <1>4, TotalUpdate, TotalType
<1> QED  BY <1>3, <1>5 DEF DepositsOn, F, G

\* The promise of Origin Token, as sums over the records.
LEMMA BackedBy ==
  /\ TokenBacked <=> balance[tokenAddr][Market] >=
       OwedBy(offers, tokenAddr) + DepositsOn(listings) + ReservedBy(offers)
  /\ TokenBacked' <=> balance'[tokenAddr'][Market] >=
       OwedBy(offers', tokenAddr') + DepositsOn(listings') + ReservedBy(offers')
BY DEF TokenBacked, Held, Owed, Deposits, DepositsOn, Commissions, ReservedBy, Reserve

\* A step on one listing that pays in at least what it adds to the deposit.
LEMMA ListingBacked ==
  ASSUME TypeOK, TypeOK', TokenBacked, offers' = offers, tokenAddr' = tokenAddr,
         NEW l \in ListingId,
         \A m \in ListingId \ {l} : listings'[m].deposit = listings[m].deposit,
         balance'[tokenAddr][Market] + listings[l].deposit
           >= balance[tokenAddr][Market] + listings'[l].deposit
  PROVE  TokenBacked'
<1>1. /\ listings \in [ListingId -> Listing] /\ listings' \in [ListingId -> Listing]
      /\ offers \in [Slot -> Offer]
      /\ listings[l].deposit \in Nat /\ listings'[l].deposit \in Nat
  BY DEF TypeOK, Listing
<1>2. /\ DepositsOn(listings') + listings[l].deposit = DepositsOn(listings) + listings'[l].deposit
      /\ DepositsOn(listings) \in Nat /\ DepositsOn(listings') \in Nat
  BY <1>1, DepositsUpdate
<1>3. OwedBy(offers, tokenAddr) \in Nat /\ ReservedBy(offers) \in Nat
  BY <1>1, OwedType, ReservedType
<1>4. balance[tokenAddr][Market] \in Nat /\ balance'[tokenAddr][Market] \in Nat
  BY AddressAssumption DEF TypeOK, Currency, Holder
<1> DEFINE h == balance[tokenAddr][Market]
           k == balance'[tokenAddr][Market]
           owed == OwedBy(offers, tokenAddr)
           reserved == ReservedBy(offers)
           sum == DepositsOn(listings)
           add == DepositsOn(listings')
           old == listings[l].deposit
           new == listings'[l].deposit
<1>5. h >= owed + sum + reserved
  BY BackedBy
<1>6. k >= owed + add + reserved
  <2>1. k + old >= h + new /\ add + old = sum + new
    BY <1>2
  <2>2. {h, k, owed, reserved, sum, add, old, new} \subseteq Nat
    BY <1>1, <1>2, <1>3, <1>4
  <2> HIDE DEF h, k, owed, reserved, sum, add, old, new
  <2> QED  BY <1>5, <2>1, <2>2
<1> QED  BY <1>6, BackedBy

\* A step on one offer and the deposit of its listing that pays out at most what it
\* takes off the records.
LEMMA OfferBacked ==
  ASSUME TypeOK, TypeOK', TokenBacked, tokenAddr' = tokenAddr, NEW x \in Slot,
         \A y \in Slot \ {x} : offers'[y] = offers[y],
         \A m \in ListingId \ {x[1]} : listings'[m].deposit = listings[m].deposit,
         balance'[tokenAddr][Market] + Stake(offers[x], tokenAddr) + Reserve(offers[x])
             + listings[x[1]].deposit
           >= balance[tokenAddr][Market] + Stake(offers'[x], tokenAddr) + Reserve(offers'[x])
                + listings'[x[1]].deposit
  PROVE  TokenBacked'
<1> DEFINE h == balance[tokenAddr][Market]
           k == balance'[tokenAddr][Market]
           owed == OwedBy(offers, tokenAddr)
           owing == OwedBy(offers', tokenAddr)
           reserved == ReservedBy(offers)
           reserving == ReservedBy(offers')
           sum == DepositsOn(listings)
           add == DepositsOn(listings')
           old == listings[x[1]].deposit
           new == listings'[x[1]].deposit
           s == Stake(offers[x], tokenAddr)
           t == Stake(offers'[x], tokenAddr)
           r == Reserve(offers[x])
           q == Reserve(offers'[x])
<1>1. /\ listings \in [ListingId -> Listing] /\ listings' \in [ListingId -> Listing]
      /\ offers \in [Slot -> Offer] /\ offers' \in [Slot -> Offer]
      /\ x[1] \in ListingId
      /\ old \in Nat /\ new \in Nat
  BY DEF TypeOK, Listing, Slot
<1>2. add + old = sum + new /\ sum \in Nat /\ add \in Nat
  BY <1>1, DepositsUpdate
<1>3. owing + s = owed + t /\ reserving + r = reserved + q
  BY <1>1, OwedUpdate, ReservedUpdate
<1>4. {owed, owing, reserved, reserving, s, t, r, q} \subseteq Nat
  BY <1>1, OwedType, ReservedType, StakeType, ReserveType
<1>5. h \in Nat /\ k \in Nat
  BY AddressAssumption DEF TypeOK, Currency, Holder
<1>6. h >= owed + sum + reserved
  BY BackedBy
<1>7. k + s + r + old >= h + t + q + new
  OBVIOUS
<1>8. k >= owing + add + reserving
  <2> HIDE DEF h, k, owed, owing, reserved, reserving, sum, add, old, new, s, t, r, q
  <2> QED  BY <1>1, <1>2, <1>3, <1>4, <1>5, <1>6, <1>7
<1> QED  BY <1>8, BackedBy

LEMMA CommissionPaid ==
  ASSUME TypeOK, NEW b \in Purses, NEW o \in Offer, o.affiliate = NullAddr => o.commission = 0
  PROVE  PayCommission(b, o)[tokenAddr][Market] = b[tokenAddr][Market] - o.commission
<1>1. /\ tokenAddr \in Currency
      /\ o.commission \in Nat
      /\ o.affiliate \in Party
      /\ b[tokenAddr][Market] \in Nat
  BY AddressAssumption DEF TypeOK, Currency, Offer, Purses, Holder
<1>2. CASE o.affiliate = NullAddr
  BY <1>1, <1>2 DEF PayCommission
<1>3. CASE o.affiliate # NullAddr
  BY <1>1, <1>3, MovedOut DEF PayCommission
<1> QED  BY <1>2, <1>3

\* What the steps below use of the records.
LEMMA BackingFacts ==
  ASSUME IInv, NEW x \in Slot
  PROVE  /\ offers[x].value \in Nat
         /\ offers[x].commission \in Nat
         /\ offers[x].currency \in Currency
         /\ x[1] \in ListingId
         /\ listings[x[1]].deposit \in Nat
         /\ balance \in Purses
         /\ tokenAddr \in Currency
         /\ balance[tokenAddr][Market] \in Nat
         /\ offers \in [Slot -> Offer]
         /\ listings \in [ListingId -> Listing]
<1>1. /\ balance \in Purses /\ tokenAddr \in Currency /\ x[1] \in ListingId
      /\ offers[x].value \in Nat /\ offers[x].commission \in Nat /\ offers[x].currency \in Currency
  BY OfferFacts DEF IInv
<1>2. offers \in [Slot -> Offer] /\ listings \in [ListingId -> Listing]
  BY DEF IInv, TypeOK
<1> QED  BY <1>1, <1>2 DEF Listing, Purses, Holder

LEMMA ListingStepBacked ==
  ASSUME IInv, IInv', TokenBacked, NEW sender \in Account, ListingStep(sender)
  PROVE  \/ TokenBacked'
         \/ \E l \in ListingId, t \in Account : withdrawListing(sender, l, t)
<1>1. /\ listings \in [ListingId -> Listing]
      /\ balance \in Purses
      /\ tokenAddr \in Currency
      /\ TypeOK /\ TypeOK'
      /\ balance[tokenAddr][Market] \in Nat
      /\ Amounts \subseteq Nat
  <2>1. TypeOK /\ TypeOK'
    BY DEF IInv
  <2>2. listings \in [ListingId -> Listing] /\ balance \in Purses /\ tokenAddr \in Currency
    BY <2>1, AddressAssumption DEF TypeOK, Purses, Currency
  <2>3. balance[tokenAddr][Market] \in Nat
    BY <2>2 DEF Purses, Holder
  <2>4. Amounts \subseteq Nat
    BY InputAssumption
  <2> QED  BY <2>1, <2>2, <2>3, <2>4
<1>2. ASSUME NEW seller \in Account, NEW d \in Amounts, NEW m, CreateListingFor(seller, d, m)
      PROVE  TokenBacked'
  <2>1. PICK l \in ListingId : l = totalListings
    BY <1>1, <1>2, BoundsAssumption DEF CreateListingFor, TypeOK, ListingId
  <2>2. /\ listings'[l].deposit = d
        /\ \A k \in ListingId \ {l} : listings'[k] = listings[k]
        /\ offers' = offers /\ tokenAddr' = tokenAddr
    BY <1>1, <1>2, <2>1 DEF CreateListingFor
  <2>3. balance'[tokenAddr][Market] = balance[tokenAddr][Market] + d
    BY <1>1, <1>2, MovedIn DEF CreateListingFor
  <2>4. listings[l].deposit \in Nat /\ d \in Nat
    BY <1>1 DEF Listing
  <2>5. balance'[tokenAddr][Market] + listings[l].deposit
          >= balance[tokenAddr][Market] + listings'[l].deposit
    BY <1>1, <2>2, <2>3, <2>4
  <2> QED  BY <1>1, <2>2, <2>5, ListingBacked
<1>3. ASSUME NEW seller \in Account, NEW l \in ListingId, NEW d \in Amounts,
             UpdateListingFor(seller, l, d)
      PROVE  TokenBacked'
  <2>1. /\ listings'[l].deposit = listings[l].deposit + d
        /\ \A k \in ListingId \ {l} : listings'[k] = listings[k]
        /\ offers' = offers /\ tokenAddr' = tokenAddr
    BY <1>1, <1>3 DEF UpdateListingFor, Listing
  <2>2. balance'[tokenAddr][Market] = balance[tokenAddr][Market] + d
    BY <1>1, <1>3, MovedIn DEF UpdateListingFor
  <2>3. listings[l].deposit \in Nat /\ d \in Nat
    BY <1>1 DEF Listing
  <2>4. balance'[tokenAddr][Market] + listings[l].deposit
          >= balance[tokenAddr][Market] + listings'[l].deposit
    BY <1>1, <2>1, <2>2, <2>3
  <2> QED  BY <1>1, <2>1, <2>4, ListingBacked
<1>4. ASSUME NEW l \in ListingId, NEW d \in Amounts, NEW target \in Managers,
             sendDeposit(sender, l, target, d)
      PROVE  TokenBacked'
  <2>1. /\ listings'[l].deposit = listings[l].deposit - d
        /\ \A k \in ListingId \ {l} : listings'[k] = listings[k]
        /\ offers' = offers /\ tokenAddr' = tokenAddr
    BY <1>1, <1>4 DEF sendDeposit, Listing
  <2>2. balance'[tokenAddr][Market] = balance[tokenAddr][Market] - d
    BY <1>1, <1>4, MovedOut, InputAssumption DEF sendDeposit
  <2>3. listings[l].deposit \in Nat /\ d \in Nat
    BY <1>1 DEF Listing
  <2>4. balance'[tokenAddr][Market] + listings[l].deposit
          >= balance[tokenAddr][Market] + listings'[l].deposit
    BY <1>1, <2>1, <2>2, <2>3
  <2> QED  BY <1>1, <2>1, <2>4, ListingBacked
<1>5. ASSUME NEW l \in ListingId, NEW target \in Managers, withdrawListing(sender, l, target)
      PROVE  \E t \in Account : withdrawListing(sender, l, t)
  BY <1>5, InputAssumption DEF withdrawListing, Party
<1> QED  BY <1>2, <1>3, <1>4, <1>5
    DEF ListingStep, createListing, createListingWithSender, updateListing,
        updateListingWithSender

\* The records that rewrite a slot and leave the listings alone.
LEMMA OfferStepBacked ==
  ASSUME IInv, IInv', TokenBacked, NEW sender \in Account, OfferStep(sender)
  PROVE  TokenBacked'
<1> USE DEF Stake, Reserve
<1>1. TypeOK /\ TypeOK' /\ tokenAddr' = tokenAddr
  <2>1. ASSUME NEW l \in ListingId, NEW t \in Terms, makeOffer(sender, l, t)
        PROVE  tokenAddr' = tokenAddr
    BY <2>1 DEF makeOffer
  <2>2. ASSUME NEW n \in Slot, NEW t \in Terms, makeOfferAfterWithdrawal(sender, n, t)
        PROVE  tokenAddr' = tokenAddr
    BY <2>2 DEF makeOfferAfterWithdrawal
  <2>3. ASSUME NEW n \in Slot, withdrawOffer(sender, n) \/ acceptOffer(sender, n)
        PROVE  tokenAddr' = tokenAddr
    BY <2>3 DEF withdrawOffer, acceptOffer
  <2>4. ASSUME NEW n \in Slot, finalize(sender, n) \/ dispute(sender, n)
        PROVE  tokenAddr' = tokenAddr
    BY <2>4 DEF finalize, MayFinalize, dispute
  <2>5. ASSUME NEW n \in Slot, NEW v \in Amounts,
               addFunds(sender, n, v) \/ updateRefund(sender, n, v)
        PROVE  tokenAddr' = tokenAddr
    BY <2>5 DEF addFunds, updateRefund
  <2>6. ASSUME NEW n \in Slot, NEW v \in Amounts, NEW b \in BOOLEAN, NEW c \in BOOLEAN,
               executeRuling(sender, n, b, c, v)
        PROVE  tokenAddr' = tokenAddr
    BY <2>6 DEF executeRuling, MayRule, RulingPays, Ruled
  <2>7. tokenAddr' = tokenAddr
    BY <2>1, <2>2, <2>3, <2>4, <2>5, <2>6 DEF OfferStep
  <2> QED  BY <2>7 DEF IInv
<1>2. ASSUME NEW l \in ListingId, NEW t \in Terms, makeOffer(sender, l, t)
      PROVE  TokenBacked'
  <2>1. PICK n \in Slot : n = <<l, totalOffers[l]>>
    BY <1>2, BoundsAssumption DEF makeOffer, IInv, TypeOK, Slot, OfferId
  <2>2. totalOffers[l] \in Nat /\ t.value \in Nat /\ t.currency \in Currency
    BY InputAssumption, BoundsAssumption DEF IInv, TypeOK, OfferTerms
  <2>3. offers[n].status = Undefined
    BY <2>1, <2>2 DEF IInv, RecordsSound
  <2>4. /\ offers'[n] = NewOffer(sender, t)
        /\ \A y \in Slot \ {n} : offers'[y] = offers[y]
        /\ listings' = listings
    BY <1>2, <2>1, BackingFacts DEF makeOffer
  <2>5. balance'[tokenAddr][Market] = IF tokenAddr = t.currency
                                      THEN balance[tokenAddr][Market] + t.value
                                      ELSE balance[tokenAddr][Market]
    BY <1>2, <2>1, <2>2, BackingFacts, MovedIn DEF makeOffer
  <2>6. /\ Stake(offers[n], tokenAddr) = 0 /\ Reserve(offers[n]) = 0
        /\ Stake(offers'[n], tokenAddr) = IF tokenAddr = t.currency THEN t.value ELSE 0
        /\ Reserve(offers'[n]) = 0
    BY <2>3, <2>4 DEF NewOffer
  <2>7. balance'[tokenAddr][Market] + Stake(offers[n], tokenAddr) + Reserve(offers[n])
            + listings[n[1]].deposit
          >= balance[tokenAddr][Market] + Stake(offers'[n], tokenAddr) + Reserve(offers'[n])
               + listings'[n[1]].deposit
    BY <2>2, <2>4, <2>5, <2>6, BackingFacts
  <2> QED  BY <1>1, <2>4, <2>7, OfferBacked
<1>3. ASSUME NEW x \in Slot, withdrawOffer(sender, x)
      PROVE  TokenBacked'
  <2>1. /\ offers[x].status = Created
        /\ CanRefundBuyer(x)
        /\ offers'[x] = NoOffer
        /\ \A y \in Slot \ {x} : offers'[y] = offers[y]
        /\ listings' = listings
        /\ balance' = RefundBuyer(x)
    BY <1>3, BackingFacts DEF withdrawOffer, MayWithdraw
  <2>2. balance'[tokenAddr][Market] = IF tokenAddr = offers[x].currency
                                      THEN balance[tokenAddr][Market] - offers[x].value
                                      ELSE balance[tokenAddr][Market]
    BY <1>1, <2>1, BackingFacts, RefundBuyerEffect
  <2>3. balance'[tokenAddr][Market] + Stake(offers[x], tokenAddr) + Reserve(offers[x])
            + listings[x[1]].deposit
          >= balance[tokenAddr][Market] + Stake(offers'[x], tokenAddr) + Reserve(offers'[x])
               + listings'[x[1]].deposit
    BY <2>1, <2>2, BackingFacts DEF NoOffer
  <2> QED  BY <1>1, <2>1, <2>3, OfferBacked
<1>4. ASSUME NEW x \in Slot, acceptOffer(sender, x)
      PROVE  TokenBacked'
  <2>1. /\ offers[x].status = Created
        /\ offers' = [offers EXCEPT ![x] = [offers[x] EXCEPT
             !.finalizes = IF @ < RelativeWindow THEN now + @ ELSE @, !.status = Accepted]]
        /\ listings' = [listings EXCEPT ![x[1]].deposit = @ - offers[x].commission]
        /\ balance' = balance
    BY <1>4 DEF acceptOffer
  <2>2. /\ \A y \in Slot \ {x} : offers'[y] = offers[y]
        /\ offers'[x].status = Accepted
        /\ offers'[x].currency = offers[x].currency
        /\ offers'[x].value = offers[x].value
        /\ offers'[x].commission = offers[x].commission
    BY <2>1, BackingFacts DEF Offer
  <2>3. /\ listings'[x[1]].deposit = listings[x[1]].deposit - offers[x].commission
        /\ \A m \in ListingId \ {x[1]} : listings'[m] = listings[m]
    BY <2>1, BackingFacts DEF Listing
  <2>4. balance'[tokenAddr][Market] + Stake(offers[x], tokenAddr) + Reserve(offers[x])
            + listings[x[1]].deposit
          >= balance[tokenAddr][Market] + Stake(offers'[x], tokenAddr) + Reserve(offers'[x])
               + listings'[x[1]].deposit
    BY <2>1, <2>2, <2>3, BackingFacts
  <2> QED  BY <1>1, <2>2, <2>3, <2>4, OfferBacked
<1>5. ASSUME NEW x \in Slot, dispute(sender, x)
      PROVE  TokenBacked'
  <2>1. /\ offers[x].status = Accepted
        /\ offers' = [offers EXCEPT ![x] = [offers[x] EXCEPT !.status = Disputed]]
        /\ listings' = listings
        /\ balance' = balance
    BY <1>5 DEF dispute
  <2>2. /\ \A y \in Slot \ {x} : offers'[y] = offers[y]
        /\ offers'[x].status = Disputed
        /\ offers'[x].currency = offers[x].currency
        /\ offers'[x].value = offers[x].value
        /\ offers'[x].commission = offers[x].commission
    BY <2>1, BackingFacts DEF Offer
  <2>3. balance'[tokenAddr][Market] + Stake(offers[x], tokenAddr) + Reserve(offers[x])
            + listings[x[1]].deposit
          >= balance[tokenAddr][Market] + Stake(offers'[x], tokenAddr) + Reserve(offers'[x])
               + listings'[x[1]].deposit
    BY <2>1, <2>2, BackingFacts
  <2> QED  BY <1>1, <2>1, <2>2, <2>3, OfferBacked
<1>6. ASSUME NEW x \in Slot, NEW v \in Amounts, updateRefund(sender, x, v)
      PROVE  TokenBacked'
  <2>1. /\ offers[x].status = Accepted
        /\ offers' = [offers EXCEPT ![x] = [offers[x] EXCEPT !.refund = v]]
        /\ listings' = listings
        /\ balance' = balance
    BY <1>6 DEF updateRefund
  <2>2. /\ \A y \in Slot \ {x} : offers'[y] = offers[y]
        /\ offers'[x].status = Accepted
        /\ offers'[x].currency = offers[x].currency
        /\ offers'[x].value = offers[x].value
        /\ offers'[x].commission = offers[x].commission
    BY <2>1, BackingFacts DEF Offer
  <2>3. balance'[tokenAddr][Market] + Stake(offers[x], tokenAddr) + Reserve(offers[x])
            + listings[x[1]].deposit
          >= balance[tokenAddr][Market] + Stake(offers'[x], tokenAddr) + Reserve(offers'[x])
               + listings'[x[1]].deposit
    BY <2>1, <2>2, BackingFacts
  <2> QED  BY <1>1, <2>1, <2>2, <2>3, OfferBacked
<1>7. ASSUME NEW x \in Slot, NEW v \in Amounts, addFunds(sender, x, v)
      PROVE  TokenBacked'
  <2>1. /\ offers[x].status = Accepted
        /\ offers' = [offers EXCEPT ![x] = [offers[x] EXCEPT !.value = offers[x].value + v]]
        /\ listings' = listings
        /\ balance' = Moved(balance, offers[x].currency, sender, Market, v)
        /\ v \in Nat
    BY <1>7, BackingFacts, InputAssumption DEF addFunds, Offer
  <2>2. /\ \A y \in Slot \ {x} : offers'[y] = offers[y]
        /\ offers'[x].status = Accepted
        /\ offers'[x].currency = offers[x].currency
        /\ offers'[x].value = offers[x].value + v
        /\ offers'[x].commission = offers[x].commission
    BY <2>1, BackingFacts DEF Offer
  <2>3. balance'[tokenAddr][Market] = IF tokenAddr = offers[x].currency
                                      THEN balance[tokenAddr][Market] + v
                                      ELSE balance[tokenAddr][Market]
    BY <2>1, BackingFacts, MovedIn
  <2>4. balance'[tokenAddr][Market] + Stake(offers[x], tokenAddr) + Reserve(offers[x])
            + listings[x[1]].deposit
          >= balance[tokenAddr][Market] + Stake(offers'[x], tokenAddr) + Reserve(offers'[x])
               + listings'[x[1]].deposit
    BY <2>1, <2>2, <2>3, BackingFacts
  <2> QED  BY <1>1, <2>1, <2>2, <2>4, OfferBacked
<1>8. ASSUME NEW x \in Slot, finalize(sender, x)
      PROVE  TokenBacked'
  <2> DEFINE o == offers[x]
             paid == PaySeller(o, Seller(x))
  <2>1. /\ o.status = Accepted
        /\ CanPaySeller(o, Seller(x))
        /\ balance' = paid \/ balance' = PayCommission(paid, o)
        /\ offers'[x] = NoOffer
        /\ \A y \in Slot \ {x} : offers'[y] = offers[y]
        /\ listings' = listings
    BY <1>8, BackingFacts DEF finalize, MayFinalize
  <2>2. /\ o \in Offer
        /\ o.refund <= o.value
        /\ o.affiliate = NullAddr => o.commission = 0
        /\ Seller(x) \in Party
    BY <2>1, OfferFacts DEF IInv, RecordsSound
  <2>3. /\ paid \in Purses
        /\ paid[tokenAddr][Market] = IF tokenAddr = o.currency
                                     THEN balance[tokenAddr][Market] - o.value
                                     ELSE balance[tokenAddr][Market]
    BY <1>1, <2>1, <2>2, BackingFacts, PaySellerEffect
  <2> HIDE DEF paid
  <2>4. /\ paid[tokenAddr][Market] \in Int
        /\ balance'[tokenAddr][Market] = paid[tokenAddr][Market]
           \/ balance'[tokenAddr][Market] = paid[tokenAddr][Market] - o.commission
    BY <1>1, <2>1, <2>2, <2>3, BackingFacts, CommissionPaid
  <2>5. balance'[tokenAddr][Market] + Stake(offers[x], tokenAddr) + Reserve(offers[x])
            + listings[x[1]].deposit
          >= balance[tokenAddr][Market] + Stake(offers'[x], tokenAddr) + Reserve(offers'[x])
               + listings'[x[1]].deposit
    BY <2>1, <2>3, <2>4, BackingFacts DEF NoOffer
  <2> QED  BY <1>1, <2>1, <2>5, OfferBacked
<1>9. ASSUME NEW x \in Slot, NEW v \in Amounts, NEW toBuyer \in BOOLEAN,
             NEW toAffiliate \in BOOLEAN, executeRuling(sender, x, toBuyer, toAffiliate, v)
      PROVE  TokenBacked'
  <2> DEFINE o == [offers[x] EXCEPT !.refund = v]
             paid == IF toBuyer THEN RefundBuyer(x) ELSE PaySeller(o, Seller(x))
  <2>1. /\ offers[x].status = Disputed
        /\ o.refund <= o.value
        /\ IF toBuyer THEN CanRefundBuyer(x) ELSE CanPaySeller(o, Seller(x))
        /\ IF toAffiliate
           THEN balance' = PayCommission(paid, o) /\ listings' = listings
           ELSE /\ balance' = paid
                /\ listings' = [listings EXCEPT ![x[1]].deposit = @ + o.commission]
        /\ offers' = [offers EXCEPT ![x] = NoOffer]
    BY <1>9 DEF executeRuling, MayRule, RulingPays, Ruled
  <2>2. /\ o \in Offer
        /\ o.value = offers[x].value
        /\ o.currency = offers[x].currency
        /\ o.commission = offers[x].commission
        /\ o.affiliate = NullAddr => o.commission = 0
        /\ Seller(x) \in Party
    <3>1. offers[x] \in Offer /\ Seller(x) \in Party /\ v \in Nat
      BY OfferFacts, InputAssumption DEF IInv
    <3>2. offers[x].affiliate = NullAddr => offers[x].commission = 0
      BY <2>1 DEF IInv, RecordsSound
    <3> QED  BY <3>1, <3>2 DEF Offer
  <2>3. paid \in Purses /\ paid[tokenAddr][Market] =
          IF tokenAddr = offers[x].currency
          THEN balance[tokenAddr][Market] - offers[x].value
          ELSE balance[tokenAddr][Market]
    <3>1. CASE toBuyer
      <4>1. CanRefundBuyer(x) /\ paid = RefundBuyer(x)
        BY <2>1, <3>1
      <4> HIDE DEF o, paid
      <4> QED  BY <1>1, <4>1, BackingFacts, RefundBuyerEffect
    <3>2. CASE ~toBuyer
      <4>1. CanPaySeller(o, Seller(x)) /\ paid = PaySeller(o, Seller(x))
        BY <2>1, <3>2
      <4> HIDE DEF o, paid
      <4> QED  BY <1>1, <2>1, <2>2, <4>1, BackingFacts, PaySellerEffect
    <3> QED  BY <3>1, <3>2
  <2> HIDE DEF paid, o
  <2>4. offers'[x] = NoOffer /\ \A y \in Slot \ {x} : offers'[y] = offers[y]
    BY <2>1, BackingFacts
  <2>5. \/ /\ balance'[tokenAddr][Market] = paid[tokenAddr][Market] - offers[x].commission
           /\ listings'[x[1]].deposit = listings[x[1]].deposit
        \/ /\ balance'[tokenAddr][Market] = paid[tokenAddr][Market]
           /\ listings'[x[1]].deposit = listings[x[1]].deposit + offers[x].commission
    <3>1. CASE toAffiliate
      BY <1>1, <2>1, <2>2, <2>3, <3>1, CommissionPaid
    <3>2. CASE ~toAffiliate
      BY <2>1, <2>2, <3>2, BackingFacts DEF Listing
    <3> QED  BY <3>1, <3>2
  <2>6. \A m \in ListingId \ {x[1]} : listings'[m] = listings[m]
    BY <2>1, BackingFacts
  <2>7. balance'[tokenAddr][Market] + Stake(offers[x], tokenAddr) + Reserve(offers[x])
            + listings[x[1]].deposit
          >= balance[tokenAddr][Market] + Stake(offers'[x], tokenAddr) + Reserve(offers'[x])
               + listings'[x[1]].deposit
    <3>1. offers[x].status = Disputed
      BY <2>1
    <3> QED  BY <2>3, <2>4, <2>5, <3>1, BackingFacts DEF NoOffer
  <2> QED  BY <1>1, <2>4, <2>6, <2>7, OfferBacked
<1>10. ASSUME NEW x \in Slot, NEW t \in Terms, makeOfferAfterWithdrawal(sender, x, t)
       PROVE  TokenBacked'
  <2> DEFINE mid == [offers EXCEPT ![x] = NoOffer]
             refunded == RefundBuyer(x)
  <2>1. PICK n \in Slot : n = <<x[1], totalOffers[x[1]]>>
    BY <1>10, BoundsAssumption DEF makeOfferAfterWithdrawal, IInv, TypeOK, Slot, OfferId
  <2>2. totalOffers[x[1]] \in Nat /\ t.value \in Nat /\ t.currency \in Currency
    BY InputAssumption, BoundsAssumption DEF IInv, TypeOK, OfferTerms, Slot
  <2>3. /\ offers[x].status = Created
        /\ CanRefundBuyer(x)
        /\ offers' = [mid EXCEPT ![n] = NewOffer(sender, t)]
        /\ listings' = listings
        /\ balance' = Moved(refunded, t.currency, sender, Market, t.value)
    BY <1>10, <2>1 DEF makeOfferAfterWithdrawal, MayWithdraw
  <2>4. offers[n].status = Undefined /\ n # x
    BY <2>1, <2>2, <2>3 DEF IInv, RecordsSound
  <2>5. /\ mid \in [Slot -> Offer] /\ offers \in [Slot -> Offer] /\ offers' \in [Slot -> Offer]
        /\ mid[x] = NoOffer
        /\ \A y \in Slot \ {x} : mid[y] = offers[y]
    <3>1. NoOffer \in Offer
      BY DEF NoOffer, Offer, Party, Currency
    <3> QED  BY <1>1, <3>1 DEF TypeOK
  <2> HIDE DEF mid
  <2>6. offers'[n] = NewOffer(sender, t) /\ \A y \in Slot \ {n} : offers'[y] = mid[y]
    BY <2>3, <2>5
  <2>7. /\ refunded \in Purses
        /\ refunded[tokenAddr][Market] = IF tokenAddr = offers[x].currency
                                         THEN balance[tokenAddr][Market] - offers[x].value
                                         ELSE balance[tokenAddr][Market]
    BY <1>1, <2>3, BackingFacts, RefundBuyerEffect
  <2> HIDE DEF refunded
  <2>8. balance'[tokenAddr][Market] = IF tokenAddr = t.currency
                                      THEN refunded[tokenAddr][Market] + t.value
                                      ELSE refunded[tokenAddr][Market]
    BY <2>2, <2>3, <2>7, BackingFacts, MovedIn
  <2>9. /\ OwedBy(mid, tokenAddr) + Stake(offers[x], tokenAddr)
             = OwedBy(offers, tokenAddr) + Stake(mid[x], tokenAddr)
        /\ OwedBy(offers', tokenAddr) + Stake(mid[n], tokenAddr)
             = OwedBy(mid, tokenAddr) + Stake(offers'[n], tokenAddr)
        /\ ReservedBy(mid) + Reserve(offers[x]) = ReservedBy(offers) + Reserve(mid[x])
        /\ ReservedBy(offers') + Reserve(mid[n]) = ReservedBy(mid) + Reserve(offers'[n])
    <3> HIDE DEF Stake, Reserve
    <3> QED  BY <2>5, <2>6, OwedUpdate, ReservedUpdate
  <2>10. /\ Stake(mid[x], tokenAddr) = 0 /\ Reserve(mid[x]) = 0
         /\ Stake(mid[n], tokenAddr) = 0 /\ Reserve(mid[n]) = 0
         /\ Stake(offers[x], tokenAddr) = IF tokenAddr = offers[x].currency THEN offers[x].value ELSE 0
         /\ Reserve(offers[x]) = 0
         /\ Stake(offers'[n], tokenAddr) = IF tokenAddr = t.currency THEN t.value ELSE 0
         /\ Reserve(offers'[n]) = 0
    BY <2>3, <2>4, <2>5, <2>6 DEF NoOffer, NewOffer
  <2>11. /\ OwedBy(mid, tokenAddr) \in Nat /\ OwedBy(offers, tokenAddr) \in Nat
         /\ OwedBy(offers', tokenAddr) \in Nat
         /\ ReservedBy(mid) \in Nat /\ ReservedBy(offers) \in Nat /\ ReservedBy(offers') \in Nat
    BY <2>5, OwedType, ReservedType
  <2>12. DepositsOn(listings) \in Nat
    BY BackingFacts, DepositsUpdate
  <2>13. balance[tokenAddr][Market] >=
           OwedBy(offers, tokenAddr) + DepositsOn(listings) + ReservedBy(offers)
    BY BackedBy
  <2> HIDE DEF Stake, Reserve
  <2>14. refunded[tokenAddr][Market] >=
           OwedBy(mid, tokenAddr) + DepositsOn(listings) + ReservedBy(mid)
    BY <2>7, <2>9, <2>10, <2>11, <2>12, <2>13, BackingFacts
  <2>15. refunded[tokenAddr][Market] \in Int
    BY <2>7, BackingFacts
  <2>16. balance'[tokenAddr'][Market] >=
           OwedBy(offers', tokenAddr') + DepositsOn(listings') + ReservedBy(offers')
    BY <1>1, <2>2, <2>3, <2>8, <2>9, <2>10, <2>11, <2>12, <2>14, <2>15
  <2> QED  BY <2>16, BackedBy
<1> QED  BY <1>2, <1>3, <1>4, <1>5, <1>6, <1>7, <1>8, <1>9, <1>10 DEF OfferStep

Unbacks ==
  \/ \E a \in Account, l \in ListingId, t \in Account : withdrawListing(a, l, t)
  \/ \E t \in OriginToken : setTokenAddr(Owner, t)

LEMMA BackingStep ==
  IInv /\ IInv' /\ [Next]_vars => [TokenBacked => TokenBacked' \/ Unbacks]_vars
<1> SUFFICES ASSUME IInv, IInv', [Next]_vars, TokenBacked
             PROVE  TokenBacked' \/ Unbacks \/ UNCHANGED vars
  OBVIOUS
<1>1. ASSUME NEW sender \in Account, ListingStep(sender)
      PROVE  TokenBacked' \/ Unbacks
  BY <1>1, ListingStepBacked DEF Unbacks
<1>2. ASSUME NEW sender \in Account, OfferStep(sender)
      PROVE  TokenBacked'
  BY <1>2, OfferStepBacked
<1>3. ASSUME NEW sender \in Account, OwnerStep(sender)
      PROVE  TokenBacked' \/ Unbacks
  <2>1. ASSUME NEW a, addAffiliate(sender, a) \/ removeAffiliate(sender, a)
        PROVE  TokenBacked'
    BY <2>1, BackedBy DEF addAffiliate, removeAffiliate
  <2>2. ASSUME NEW t \in OriginToken, setTokenAddr(sender, t)
        PROVE  Unbacks
    BY <2>2 DEF Unbacks, setTokenAddr
  <2> QED  BY <1>3, <2>1, <2>2 DEF OwnerStep
<1>4. CASE Tick
  BY <1>4, BackedBy DEF Tick
<1> QED  BY <1>1, <1>2, <1>3, <1>4 DEF Next

\* Nothing but withdrawListing and setTokenAddr makes the contract promise more
\* Origin Token than it holds.
THEOREM BackingIsKept == Spec => BackingKept
<1>1. [TokenBacked => TokenBacked' \/ Unbacks]_vars
        => [TokenBacked => \/ TokenBacked'
                           \/ \E a \in Account, l \in ListingId, t \in Account :
                                withdrawListing(a, l, t)
                           \/ \E t \in OriginToken : setTokenAddr(Owner, t)]_vars
  BY DEF Unbacks
<1> QED  BY <1>1, Inductive, BackingStep, PTL DEF Spec, BackingKept

-----------------------------------------------------------------------------
(***************************************************************************)
(* The client's calls look at the records and at the log; the money is no  *)
(* part of what follows.                                                   *)
(***************************************************************************)

\* An event about an offer is about a place that an offer can take.
Entry == {e \in Event : e.name \in OfferEvent => e.offer \in OfferId}

RecordsTyped ==
  /\ totalListings \in Nat
  /\ listings \in [ListingId -> Listing]
  /\ totalOffers \in [ListingId -> Nat]
  /\ offers \in [Slot -> Offer]
  /\ now \in Nat

\* A place of the array that was not handed out is empty.
PlacesEmpty == \A z \in Slot : offers[z].status # Undefined => z[2] < totalOffers[z[1]]

RecordsFit == RecordsTyped /\ PlacesEmpty /\ log \in Seq(Entry)

-----------------------------------------------------------------------------
(* The log grows.                                                            *)

Grows ==
  /\ Len(log) <= Len(log')
  /\ \A i \in 1 .. Len(log) : log'[i] = log[i]

\* The places in the log that a step fills.
Fresh == Len(log) + 1 .. Len(log')

LEMMA LoggedType ==
  ASSUME NEW e \in Entry
  PROVE  /\ Logged(e) \in Seq(Entry)
         /\ Len(Logged(e)) \in {0, 1}
         /\ \A i \in 1 .. Len(Logged(e)) : Logged(e)[i] = e
         /\ e.name \in Kept => Len(Logged(e)) = 1
<1>1. CASE e.name \in Kept
  BY <1>1 DEF Logged
<1>2. CASE e.name \notin Kept
  BY <1>2 DEF Logged
<1> QED  BY <1>1, <1>2

LEMMA GrowsBy ==
  ASSUME log \in Seq(Entry), NEW s \in Seq(Entry), log' = log \o s
  PROVE  /\ log' \in Seq(Entry)
         /\ Grows
         /\ Len(log') = Len(log) + Len(s)
         /\ \A k \in Fresh : k - Len(log) \in 1 .. Len(s) /\ log'[k] = s[k - Len(log)]
<1>1. Len(log) \in Nat /\ Len(s) \in Nat
  OBVIOUS
<1>2. log' \in Seq(Entry) /\ Len(log') = Len(log) + Len(s)
  OBVIOUS
<1>3. \A i \in 1 .. Len(log) + Len(s) :
        log'[i] = IF i <= Len(log) THEN log[i] ELSE s[i - Len(log)]
  BY <1>1, ConcatProperties
<1>4. Grows
  BY <1>1, <1>2, <1>3 DEF Grows
<1>5. ASSUME NEW k \in Fresh
      PROVE  k - Len(log) \in 1 .. Len(s) /\ log'[k] = s[k - Len(log)]
  <2>1. k \in 1 .. Len(log) + Len(s) /\ ~(k <= Len(log)) /\ k - Len(log) \in 1 .. Len(s)
    BY <1>1, <1>2 DEF Fresh
  <2> QED  BY <1>3, <2>1
<1> QED  BY <1>2, <1>4, <1>5

\* A call that emits the event e.
LEMMA OneLogged ==
  ASSUME log \in Seq(Entry), NEW e \in Entry, log' = log \o Logged(e)
  PROVE  /\ log' \in Seq(Entry)
         /\ Grows
         /\ \A k \in Fresh : k = Len(log) + 1 /\ log'[k] = e
         /\ e.name \in Kept => Len(log) + 1 \in Fresh
<1>1. Len(log) \in Nat
  OBVIOUS
<1> DEFINE s == Logged(e)
<1>2. /\ s \in Seq(Entry) /\ Len(s) \in {0, 1} /\ \A i \in 1 .. Len(s) : s[i] = e
      /\ e.name \in Kept => Len(s) = 1
  BY LoggedType
<1>3. log' = log \o s
  OBVIOUS
<1> HIDE DEF s
<1>4. /\ log' \in Seq(Entry) /\ Grows /\ Len(log') = Len(log) + Len(s)
      /\ \A k \in Fresh : k - Len(log) \in 1 .. Len(s) /\ log'[k] = s[k - Len(log)]
  BY <1>2, <1>3, GrowsBy
<1>5. ASSUME NEW k \in Fresh  PROVE k = Len(log) + 1 /\ log'[k] = e
  <2>1. k \in Int
    BY <1>1, <1>2, <1>4 DEF Fresh
  <2> QED  BY <1>1, <1>2, <1>4, <2>1
<1>6. ASSUME e.name \in Kept  PROVE Len(log) + 1 \in Fresh
  <2>1. Len(log') = Len(log) + 1
    BY <1>2, <1>4, <1>6
  <2> QED  BY <1>1, <2>1 DEF Fresh
<1> QED  BY <1>4, <1>5, <1>6

LEMMA InSecond ==
  ASSUME NEW m \in {0, 1}, NEW n \in {0, 1}, NEW j \in 1 .. m + n, ~(j <= m)
  PROVE  j - m \in 1 .. n /\ n = 1 /\ j = m + n
OBVIOUS

\* A call that emits d and then e.
LEMMA TwoLogged ==
  ASSUME log \in Seq(Entry), NEW d \in Entry, NEW e \in Entry,
         log' = log \o (Logged(d) \o Logged(e))
  PROVE  /\ log' \in Seq(Entry)
         /\ Grows
         /\ \A k \in Fresh : \/ k = Len(log) + 1 /\ log'[k] = d
                             \/ k = Len(log') /\ log'[k] = e
         /\ d.name \in Kept => Len(log) + 1 \in Fresh /\ log'[Len(log) + 1] = d
         /\ e.name \in Kept => Len(log') \in Fresh /\ log'[Len(log')] = e
<1>1. Len(log) \in Nat
  OBVIOUS
<1> DEFINE s == Logged(d)
           t == Logged(e)
           r == s \o t
<1>2. /\ s \in Seq(Entry) /\ Len(s) \in {0, 1} /\ \A i \in 1 .. Len(s) : s[i] = d
      /\ d.name \in Kept => Len(s) = 1
  BY LoggedType
<1>3. /\ t \in Seq(Entry) /\ Len(t) \in {0, 1} /\ \A i \in 1 .. Len(t) : t[i] = e
      /\ e.name \in Kept => Len(t) = 1
  BY LoggedType
<1>4. log' = log \o r
  OBVIOUS
<1> HIDE DEF s, t
<1>5. /\ r \in Seq(Entry) /\ Len(r) = Len(s) + Len(t)
      /\ \A i \in 1 .. Len(s) + Len(t) : r[i] = IF i <= Len(s) THEN s[i] ELSE t[i - Len(s)]
  BY <1>2, <1>3, ConcatProperties
<1> HIDE DEF r
<1>6. /\ log' \in Seq(Entry) /\ Grows /\ Len(log') = Len(log) + Len(r)
      /\ \A k \in Fresh : k - Len(log) \in 1 .. Len(r) /\ log'[k] = r[k - Len(log)]
  BY <1>4, <1>5, GrowsBy
<1>7. ASSUME NEW k \in Fresh
      PROVE  \/ k = Len(log) + 1 /\ log'[k] = d
             \/ k = Len(log') /\ log'[k] = e
  <2>1. k \in Int
    BY <1>1, <1>2, <1>3, <1>5, <1>6 DEF Fresh
  <2> DEFINE j == k - Len(log)
  <2>2. j \in 1 .. Len(s) + Len(t) /\ log'[k] = r[j] /\ k = Len(log) + j
    BY <1>1, <1>5, <1>6, <2>1
  <2> HIDE DEF j
  <2>3. CASE j <= Len(s)
    BY <1>1, <1>2, <1>5, <2>2, <2>3
  <2>4. CASE ~(j <= Len(s))
    <3>1. j - Len(s) \in 1 .. Len(t) /\ Len(t) = 1 /\ j = Len(s) + Len(t)
      BY <1>2, <1>3, <2>2, <2>4, InSecond
    <3>2. r[j] = t[j - Len(s)]
      BY <1>5, <2>2, <2>4
    <3>3. r[j] = e
      BY <1>3, <3>1, <3>2
    <3> QED  BY <1>5, <1>6, <2>2, <3>1, <3>3
  <2> QED  BY <2>3, <2>4
<1>8. ASSUME d.name \in Kept  PROVE Len(log) + 1 \in Fresh /\ log'[Len(log) + 1] = d
  <2>1. Len(s) = 1
    BY <1>2, <1>8
  <2>2. Len(log) + 1 \in Fresh
    BY <1>1, <1>3, <1>5, <1>6, <2>1 DEF Fresh
  <2>3. Len(log) + 1 - Len(log) = 1
    BY <1>1
  <2>4. log'[Len(log) + 1] = r[1]
    <3> DEFINE k == Len(log) + 1
    <3>1. k \in Fresh /\ k - Len(log) = 1
      BY <2>2, <2>3
    <3> HIDE DEF k
    <3>2. log'[k] = r[1]
      BY <1>6, <3>1
    <3> QED  BY <3>2 DEF k
  <2>5. 1 \in 1 .. Len(s) + Len(t) /\ 1 <= Len(s) /\ 1 \in 1 .. Len(s)
    BY <1>3, <2>1
  <2>6. r[1] = d
    BY <1>2, <1>5, <2>5
  <2> QED  BY <2>2, <2>4, <2>6
<1>9. ASSUME e.name \in Kept  PROVE Len(log') \in Fresh /\ log'[Len(log')] = e
  <2>1. Len(t) = 1
    BY <1>3, <1>9
  <2>2. Len(log') \in Fresh
    BY <1>1, <1>2, <1>5, <1>6, <2>1 DEF Fresh
  <2>3. Len(log') - Len(log) = Len(s) + 1
    BY <1>1, <1>2, <1>5, <1>6, <2>1
  <2>4. log'[Len(log')] = r[Len(s) + 1]
    BY <1>6, <2>2, <2>3
  <2>5. Len(s) + 1 \in 1 .. Len(s) + Len(t) /\ ~(Len(s) + 1 <= Len(s)) /\ Len(s) + 1 - Len(s) = 1
    BY <1>2, <2>1
  <2>6. r[Len(s) + 1] = t[1]
    BY <1>5, <2>5
  <2> QED  BY <1>3, <2>1, <2>2, <2>4, <2>6
<1> QED  BY <1>6, <1>7, <1>8, <1>9

-----------------------------------------------------------------------------
(* What a step of the contract does to the records, and what it logs.        *)

\* A listing once created keeps its seller and its manager.
ListingsStand ==
  /\ totalListings <= totalListings'
  /\ \A l \in ListingId : ListingExists(l) =>
       /\ listings'[l].seller = listings[l].seller
       /\ listings'[l].depositManager = listings[l].depositManager

MoveNames == {"OfferCreated", "OfferAccepted", "OfferDisputed",
              "OfferWithdrawn", "OfferFinalized", "OfferRuling"}

Quiet ==
  /\ UNCHANGED <<totalOffers, offers>>
  /\ \/ log' = log
     \/ \E e \in Entry : e.name \notin MoveNames /\ log' = log \o Logged(e)

\* What a call makes of an offer's record, and the event that says so.
TurnsTo(x, e) ==
  \/ /\ e.name = "OfferWithdrawn"
     /\ offers[x].status = Created
     /\ offers'[x] = NoOffer
  \/ /\ e.name = "OfferAccepted"
     /\ ListingExists(x[1])
     /\ e.party = listings[x[1]].seller
     /\ offers[x].status = Created
     /\ offers'[x].status = Accepted
     /\ offers'[x].buyer = offers[x].buyer
  \/ /\ e.name = "OfferDisputed"
     /\ offers[x].status = Accepted
     /\ offers'[x].status = Disputed
     /\ offers'[x].buyer = offers[x].buyer
  \/ /\ e.name = "OfferFinalized"
     /\ e.party \in {offers[x].buyer, listings[x[1]].seller}
     /\ offers[x].status = Accepted
     /\ offers'[x] = NoOffer
  \/ /\ e.name = "OfferRuling"
     /\ offers[x].status = Disputed
     /\ offers'[x] = NoOffer
  \/ /\ e.name \in {"OfferFundsAdded", "OfferData"}
     /\ offers[x].status = Accepted
     /\ offers'[x].status = Accepted
     /\ offers'[x].buyer = offers[x].buyer

Turn(x, e) ==
  /\ OnOffer(e, x)
  /\ log' = log \o Logged(e)
  /\ UNCHANGED totalOffers
  /\ \A z \in Slot \ {x} : offers'[z] = offers[z]
  /\ TurnsTo(x, e)

\* The next place on the listing l is taken by an offer of the event's party.
Takes(l, e) ==
  /\ e.name = "OfferCreated"
  /\ OnOffer(e, NextSlot(l))
  /\ NextSlot(l) \in Slot
  /\ totalOffers' = [totalOffers EXCEPT ![l] = @ + 1]
  /\ offers'[NextSlot(l)].status = Created
  /\ offers'[NextSlot(l)].buyer = e.party

Make(l, e) ==
  /\ log' = log \o Logged(e)
  /\ Takes(l, e)
  /\ \A z \in Slot \ {NextSlot(l)} : offers'[z] = offers[z]

Replace(x, d, e) ==
  /\ log' = log \o (Logged(d) \o Logged(e))
  /\ d.name = "OfferWithdrawn"
  /\ OnOffer(d, x)
  /\ offers[x].status = Created
  /\ offers'[x] = NoOffer
  /\ Takes(x[1], e)
  /\ \A z \in Slot \ {x, NextSlot(x[1])} : offers'[z] = offers[z]

Step ==
  /\ RecordsTyped'
  /\ ListingsStand
  /\ \/ Quiet
     \/ \E x \in Slot, e \in Entry : Turn(x, e)
     \/ \E l \in ListingId, e \in Entry : Make(l, e)
     \/ \E x \in Slot, d, e \in Entry : Replace(x, d, e)

LEMMA ListingEntry ==
  ASSUME NEW name \in ListingEvent, NEW party \in Party, NEW l \in ListingId
  PROVE  /\ About(name, party, l, NoOfferId) \in Entry
         /\ About(name, party, l, NoOfferId).name = name
         /\ name \notin MoveNames
<1>1. NoOfferId \in 0 .. MaxOffers
  BY BoundsAssumption DEF NoOfferId
<1>2. name \in ListingEvent \cup OfferEvent /\ name \notin OfferEvent /\ name \notin MoveNames
  BY DEF ListingEvent, OfferEvent, MoveNames
<1> QED  BY <1>1, <1>2 DEF About, Entry, Event

LEMMA OfferEntry ==
  ASSUME NEW name \in OfferEvent, NEW party \in Party, NEW x \in Slot
  PROVE  /\ About(name, party, x[1], x[2]) \in Entry
         /\ About(name, party, x[1], x[2]).name = name
         /\ About(name, party, x[1], x[2]).party = party
         /\ OnOffer(About(name, party, x[1], x[2]), x)
<1>1. x[1] \in ListingId /\ x[2] \in OfferId
  BY DEF Slot
<1>2. x[2] \in 0 .. MaxOffers
  BY <1>1, BoundsAssumption DEF OfferId
<1>3. name \in ListingEvent \cup OfferEvent
  OBVIOUS
<1> QED  BY <1>1, <1>2, <1>3 DEF About, Entry, Event, OnOffer

LEMMA NextIsSlot ==
  ASSUME RecordsTyped, NEW l \in ListingId, totalOffers[l] < MaxOffers
  PROVE  NextSlot(l) \in Slot /\ NextSlot(l)[1] = l /\ NextSlot(l)[2] = totalOffers[l]
<1>1. totalOffers[l] \in OfferId
  BY BoundsAssumption DEF RecordsTyped, OfferId
<1> QED  BY <1>1 DEF NextSlot, Slot

LEMMA ListingLogged ==
  ASSUME RecordsTyped', ListingsStand, UNCHANGED <<totalOffers, offers>>,
         NEW name \in ListingEvent, NEW party \in Party, NEW l \in ListingId,
         EmitListing(name, party, l)
  PROVE  Step
<1>1. Quiet
  BY ListingEntry DEF Quiet, EmitListing, Emit
<1> QED  BY <1>1 DEF Step

-----------------------------------------------------------------------------
(* The calls about listings.                                                 *)

LEMMA CreateListingStep ==
  ASSUME RecordsFit, NEW seller \in Account, NEW d \in Nat, NEW m \in Party,
         CreateListingFor(seller, d, m),
         EmitListing("ListingCreated", seller, totalListings)
  PROVE  Step
<1>1. totalListings \in ListingId /\ seller \in Party
  BY BoundsAssumption DEF RecordsFit, RecordsTyped, CreateListingFor, ListingId, Party
<1>2. RecordsTyped'
  BY <1>1 DEF RecordsFit, RecordsTyped, CreateListingFor, Listing
<1>3. ListingsStand
  BY <1>1 DEF RecordsFit, RecordsTyped, CreateListingFor, ListingsStand, ListingExists, ListingId
<1>4. UNCHANGED <<totalOffers, offers>>
  BY DEF CreateListingFor
<1>5. "ListingCreated" \in ListingEvent
  BY DEF ListingEvent
<1> QED  BY <1>1, <1>2, <1>3, <1>4, <1>5, ListingLogged

\* Whatever changes only the deposit of an existing listing.
LEMMA DepositStep ==
  ASSUME RecordsFit, NEW l \in ListingId, NEW deposit \in Nat,
         listings' = [listings EXCEPT ![l].deposit = deposit],
         UNCHANGED <<totalListings, totalOffers, now>>, offers' \in [Slot -> Offer]
  PROVE  RecordsTyped' /\ ListingsStand
<1>1. listings[l] \in Listing
  BY DEF RecordsFit, RecordsTyped
<1>2. [listings[l] EXCEPT !.deposit = deposit] \in Listing
  BY <1>1 DEF Listing
<1>3. listings' \in [ListingId -> Listing]
  BY <1>2 DEF RecordsFit, RecordsTyped
<1>4. \A k \in ListingId : /\ listings'[k].seller = listings[k].seller
                            /\ listings'[k].depositManager = listings[k].depositManager
  BY <1>1 DEF RecordsFit, RecordsTyped, Listing
<1> QED  BY <1>3, <1>4 DEF RecordsFit, RecordsTyped, ListingsStand

LEMMA UpdateListingStep ==
  ASSUME RecordsFit, NEW seller \in Account, NEW l \in ListingId, NEW d \in Nat,
         UpdateListingFor(seller, l, d), EmitListing("ListingUpdated", seller, l)
  PROVE  Step
<1>1. listings[l].deposit + d \in Nat /\ seller \in Party
  BY DEF RecordsFit, RecordsTyped, Listing, Party
<1>2. listings' = [listings EXCEPT ![l].deposit = listings[l].deposit + d]
  BY DEF UpdateListingFor
<1>3. RecordsTyped' /\ ListingsStand /\ UNCHANGED <<totalOffers, offers>>
  BY <1>1, <1>2, DepositStep DEF UpdateListingFor, RecordsFit, RecordsTyped
<1>4. "ListingUpdated" \in ListingEvent
  BY DEF ListingEvent
<1> QED  BY <1>1, <1>3, <1>4, ListingLogged

LEMMA SendDepositStep ==
  ASSUME RecordsFit, NEW sender \in Account, NEW l \in ListingId, NEW d \in Nat,
         NEW target \in Party,
         sendDeposit(sender, l, target, d), EmitListing("ListingArbitrated", target, l)
  PROVE  Step
<1>1. listings[l].deposit - d \in Nat
  BY DEF RecordsFit, RecordsTyped, Listing, sendDeposit
<1>2. listings' = [listings EXCEPT ![l].deposit = listings[l].deposit - d]
  BY DEF sendDeposit
<1>3. RecordsTyped' /\ ListingsStand /\ UNCHANGED <<totalOffers, offers>>
  BY <1>1, <1>2, DepositStep DEF sendDeposit, RecordsFit, RecordsTyped
<1>4. "ListingArbitrated" \in ListingEvent
  BY DEF ListingEvent
<1> QED  BY <1>3, <1>4, ListingLogged

\* The records stay as they are.
Same == UNCHANGED <<totalListings, listings, totalOffers, offers>> /\ now' \in Nat

LEMMA SameStands ==
  ASSUME RecordsFit, Same
  PROVE  RecordsTyped' /\ ListingsStand
BY DEF RecordsFit, RecordsTyped, Same, ListingsStand

LEMMA WithdrawListingStep ==
  ASSUME RecordsFit, NEW sender, NEW l \in ListingId, NEW target \in Party,
         withdrawListing(sender, l, target), EmitListing("ListingWithdrawn", target, l)
  PROVE  Step
<1>1. Same
  BY DEF withdrawListing, Same, RecordsFit, RecordsTyped
<1>2. "ListingWithdrawn" \in ListingEvent
  BY DEF ListingEvent
<1> QED  BY <1>1, <1>2, SameStands, ListingLogged DEF Same

LEMMA ListingDataStep ==
  ASSUME RecordsFit, NEW sender \in Account, NEW l \in ListingId, addListingData(sender, l)
  PROVE  Step
<1>1. Same /\ EmitListing("ListingData", sender, l) /\ sender \in Party
  BY DEF addListingData, vars, Same, RecordsFit, RecordsTyped, Party
<1>2. "ListingData" \in ListingEvent
  BY DEF ListingEvent
<1> QED  BY <1>1, <1>2, SameStands, ListingLogged DEF Same

LEMMA UnloggedStep ==
  ASSUME RecordsFit, Same, UNCHANGED log
  PROVE  Step
<1>1. Quiet
  BY DEF Same, Quiet
<1> QED  BY <1>1, SameStands DEF Step

LEMMA OfferDataStep ==
  ASSUME RecordsFit, NEW sender \in Account, NEW x \in Slot, addOfferData(sender, x)
  PROVE  Step
<1>1. Same /\ EmitOffer("OfferData", sender, x) /\ sender \in Party
  BY DEF addOfferData, vars, Same, RecordsFit, RecordsTyped, Party
<1>2. "OfferData" \in OfferEvent /\ "OfferData" \notin MoveNames
  BY DEF OfferEvent, MoveNames
<1>3. Quiet
  BY <1>1, <1>2, OfferEntry DEF Quiet, EmitOffer, Emit, Same
<1> QED  BY <1>1, <1>3, SameStands DEF Step

-----------------------------------------------------------------------------
(* The calls about offers.                                                   *)

LEMMA TurnLogged ==
  ASSUME RecordsTyped', ListingsStand, NEW x \in Slot,
         NEW name \in OfferEvent, NEW party \in Party,
         EmitOffer(name, party, x), UNCHANGED totalOffers,
         \A z \in Slot \ {x} : offers'[z] = offers[z],
         TurnsTo(x, About(name, party, x[1], x[2]))
  PROVE  Step
<1> DEFINE e == About(name, party, x[1], x[2])
<1>1. e \in Entry /\ OnOffer(e, x)
  BY OfferEntry
<1>2. log' = log \o Logged(e)
  BY DEF EmitOffer, Emit
<1>3. TurnsTo(x, e)
  OBVIOUS
<1> HIDE DEF e
<1>4. Turn(x, e)
  BY <1>1, <1>2, <1>3 DEF Turn
<1> QED  BY <1>1, <1>4 DEF Step

\* The record at x becomes o, and the deposit of its listing may change.
LEMMA RewrittenStep ==
  ASSUME RecordsFit, NEW x \in Slot, NEW o \in Offer,
         offers' = [offers EXCEPT ![x] = o],
         UNCHANGED <<totalListings, totalOffers, now>>,
         \/ UNCHANGED listings
         \/ \E deposit \in Nat : listings' = [listings EXCEPT ![x[1]].deposit = deposit]
  PROVE  /\ RecordsTyped' /\ ListingsStand
         /\ offers'[x] = o
         /\ \A z \in Slot \ {x} : offers'[z] = offers[z]
<1>1. offers' \in [Slot -> Offer] /\ offers'[x] = o /\ \A z \in Slot \ {x} : offers'[z] = offers[z]
  BY DEF RecordsFit, RecordsTyped
<1>2. CASE UNCHANGED listings
  BY <1>1, <1>2 DEF RecordsFit, RecordsTyped, ListingsStand
<1>3. CASE \E deposit \in Nat : listings' = [listings EXCEPT ![x[1]].deposit = deposit]
  <2>1. PICK deposit \in Nat : listings' = [listings EXCEPT ![x[1]].deposit = deposit]
    BY <1>3
  <2>2. x[1] \in ListingId
    BY DEF Slot
  <2> QED  BY <1>1, <2>1, <2>2, DepositStep
<1> QED  BY <1>1, <1>2, <1>3

LEMMA OfferNames ==
  /\ MoveNames \subseteq OfferEvent
  /\ {"OfferFundsAdded", "OfferData"} \subseteq OfferEvent
BY DEF MoveNames, OfferEvent

LEMMA WithdrawOfferStep ==
  ASSUME RecordsFit, NEW sender \in Account, NEW x \in Slot,
         withdrawOffer(sender, x), EmitOffer("OfferWithdrawn", sender, x)
  PROVE  Step
<1>1. /\ RecordsTyped' /\ ListingsStand /\ offers'[x] = NoOffer
      /\ \A z \in Slot \ {x} : offers'[z] = offers[z]
  BY NoOfferTyped, RewrittenStep DEF withdrawOffer
<1>2. "OfferWithdrawn" \in OfferEvent /\ sender \in Party
  BY DEF OfferEvent, Party
<1>3. TurnsTo(x, About("OfferWithdrawn", sender, x[1], x[2]))
  BY <1>1, <1>2, OfferEntry DEF TurnsTo, withdrawOffer, MayWithdraw
<1> QED  BY <1>1, <1>2, <1>3, TurnLogged DEF withdrawOffer

LEMMA AcceptedOffer ==
  ASSUME NEW r \in Offer, NEW finalizes \in Nat
  PROVE  /\ [r EXCEPT !.finalizes = finalizes, !.status = Accepted] \in Offer
         /\ [r EXCEPT !.finalizes = finalizes, !.status = Accepted].status = Accepted
         /\ [r EXCEPT !.finalizes = finalizes, !.status = Accepted].buyer = r.buyer
<1>1. [r EXCEPT !.finalizes = finalizes] \in Offer
  BY DEF Offer
<1>2. \A p \in Offer : [p EXCEPT !.status = Accepted] \in Offer
  BY DEF Offer
<1>3. [r EXCEPT !.finalizes = finalizes, !.status = Accepted]
        = [[r EXCEPT !.finalizes = finalizes] EXCEPT !.status = Accepted]
  BY DEF Offer
<1>4. /\ [r EXCEPT !.finalizes = finalizes, !.status = Accepted].status = Accepted
      /\ [r EXCEPT !.finalizes = finalizes, !.status = Accepted].buyer = r.buyer
  BY DEF Offer
<1> QED  BY <1>1, <1>2, <1>3, <1>4

LEMMA AcceptOfferStep ==
  ASSUME RecordsFit, NEW sender \in Account, NEW x \in Slot,
         acceptOffer(sender, x), EmitOffer("OfferAccepted", sender, x)
  PROVE  Step
<1> DEFINE finalizes == IF offers[x].finalizes < RelativeWindow THEN now + offers[x].finalizes
                                                              ELSE offers[x].finalizes
           o == [offers[x] EXCEPT !.finalizes = finalizes, !.status = Accepted]
<1>1. offers[x] \in Offer /\ now \in Nat /\ listings[x[1]].deposit - offers[x].commission \in Nat
  BY DEF RecordsFit, RecordsTyped, Slot, Offer, Listing, acceptOffer
<1>2. finalizes \in Nat
  BY <1>1 DEF Offer
<1>3. offers' = [offers EXCEPT ![x] = o]
  BY DEF acceptOffer
<1> HIDE DEF finalizes
<1>4. o \in Offer /\ o.status = Accepted /\ o.buyer = offers[x].buyer
  BY <1>1, <1>2, AcceptedOffer
<1> HIDE DEF o
<1>5. listings' = [listings EXCEPT ![x[1]].deposit = listings[x[1]].deposit - offers[x].commission]
  BY DEF acceptOffer
<1>6. UNCHANGED <<totalListings, totalOffers, now>>
  BY DEF acceptOffer
<1>7. /\ RecordsTyped' /\ ListingsStand /\ offers'[x] = o
      /\ \A z \in Slot \ {x} : offers'[z] = offers[z]
  BY <1>1, <1>3, <1>4, <1>5, <1>6, RewrittenStep
<1>8. "OfferAccepted" \in OfferEvent /\ sender \in Party
  BY DEF OfferEvent, Party
<1>9. TurnsTo(x, About("OfferAccepted", sender, x[1], x[2]))
  BY <1>4, <1>7, <1>8, OfferEntry DEF TurnsTo, acceptOffer, Seller
<1> QED  BY <1>6, <1>7, <1>8, <1>9, TurnLogged

LEMMA FinalizeStep ==
  ASSUME RecordsFit, NEW sender \in Account, NEW x \in Slot,
         finalize(sender, x), EmitOffer("OfferFinalized", sender, x)
  PROVE  Step
<1>0. /\ sender = offers[x].buyer \/ sender = Seller(x)
      /\ offers[x].status = Accepted
      /\ offers' = [offers EXCEPT ![x] = NoOffer]
      /\ UNCHANGED <<totalListings, listings, totalOffers, now>>
  BY DEF finalize, MayFinalize
<1>1. /\ RecordsTyped' /\ ListingsStand /\ offers'[x] = NoOffer
      /\ \A z \in Slot \ {x} : offers'[z] = offers[z]
  BY <1>0, NoOfferTyped, RewrittenStep
<1>2. "OfferFinalized" \in OfferEvent /\ sender \in Party
  BY DEF OfferEvent, Party
<1>3. TurnsTo(x, About("OfferFinalized", sender, x[1], x[2]))
  BY <1>0, <1>1, <1>2, OfferEntry DEF TurnsTo, Seller
<1> QED  BY <1>0, <1>1, <1>2, <1>3, TurnLogged

LEMMA DisputeStep ==
  ASSUME RecordsFit, NEW sender \in Account, NEW x \in Slot,
         dispute(sender, x), EmitOffer("OfferDisputed", sender, x)
  PROVE  Step
<1> DEFINE o == [offers[x] EXCEPT !.status = Disputed]
<1>1. offers[x] \in Offer
  BY DEF RecordsFit, RecordsTyped
<1>2. o \in Offer /\ o.status = Disputed /\ o.buyer = offers[x].buyer
  BY <1>1 DEF Offer
<1>3. offers' = [offers EXCEPT ![x] = o] /\ UNCHANGED <<totalListings, listings, totalOffers, now>>
  BY DEF dispute
<1> HIDE DEF o
<1>4. /\ RecordsTyped' /\ ListingsStand /\ offers'[x] = o
      /\ \A z \in Slot \ {x} : offers'[z] = offers[z]
  BY <1>2, <1>3, RewrittenStep
<1>5. "OfferDisputed" \in OfferEvent /\ sender \in Party
  BY DEF OfferEvent, Party
<1>6. TurnsTo(x, About("OfferDisputed", sender, x[1], x[2]))
  BY <1>2, <1>4, <1>5, OfferEntry DEF TurnsTo, dispute
<1> QED  BY <1>3, <1>4, <1>5, <1>6, TurnLogged

LEMMA AddFundsStep ==
  ASSUME RecordsFit, NEW sender \in Account, NEW x \in Slot, NEW v \in Nat,
         addFunds(sender, x, v), EmitOffer("OfferFundsAdded", sender, x)
  PROVE  Step
<1> DEFINE o == [offers[x] EXCEPT !.value = offers[x].value + v]
<1>1. offers[x] \in Offer /\ offers[x].status = Accepted
  BY DEF RecordsFit, RecordsTyped, addFunds
<1>2. o \in Offer /\ o.status = Accepted /\ o.buyer = offers[x].buyer
  BY <1>1 DEF Offer
<1>3. offers' = [offers EXCEPT ![x] = o] /\ UNCHANGED <<totalListings, listings, totalOffers, now>>
  BY DEF addFunds
<1> HIDE DEF o
<1>4. /\ RecordsTyped' /\ ListingsStand /\ offers'[x] = o
      /\ \A z \in Slot \ {x} : offers'[z] = offers[z]
  BY <1>2, <1>3, RewrittenStep
<1>5. "OfferFundsAdded" \in OfferEvent /\ sender \in Party
  BY DEF OfferEvent, Party
<1>6. TurnsTo(x, About("OfferFundsAdded", sender, x[1], x[2]))
  BY <1>1, <1>2, <1>4, <1>5, OfferEntry DEF TurnsTo
<1> QED  BY <1>3, <1>4, <1>5, <1>6, TurnLogged

LEMMA UpdateRefundStep ==
  ASSUME RecordsFit, NEW sender \in Account, NEW x \in Slot, NEW v \in Nat,
         updateRefund(sender, x, v), EmitOffer("OfferData", sender, x)
  PROVE  Step
<1> DEFINE o == [offers[x] EXCEPT !.refund = v]
<1>1. offers[x] \in Offer /\ offers[x].status = Accepted
  BY DEF RecordsFit, RecordsTyped, updateRefund
<1>2. o \in Offer /\ o.status = Accepted /\ o.buyer = offers[x].buyer
  BY <1>1 DEF Offer
<1>3. offers' = [offers EXCEPT ![x] = o] /\ UNCHANGED <<totalListings, listings, totalOffers, now>>
  BY DEF updateRefund
<1> HIDE DEF o
<1>4. /\ RecordsTyped' /\ ListingsStand /\ offers'[x] = o
      /\ \A z \in Slot \ {x} : offers'[z] = offers[z]
  BY <1>2, <1>3, RewrittenStep
<1>5. "OfferData" \in OfferEvent /\ sender \in Party
  BY DEF OfferEvent, Party
<1>6. TurnsTo(x, About("OfferData", sender, x[1], x[2]))
  BY <1>1, <1>2, <1>4, <1>5, OfferEntry DEF TurnsTo
<1> QED  BY <1>3, <1>4, <1>5, <1>6, TurnLogged

LEMMA ExecuteRulingStep ==
  ASSUME RecordsFit, NEW sender, NEW party \in Party, NEW x \in Slot, NEW v \in Nat,
         NEW toBuyer, NEW toAffiliate,
         executeRuling(sender, x, toBuyer, toAffiliate, v), EmitOffer("OfferRuling", party, x)
  PROVE  Step
<1>1. /\ offers[x].status = Disputed
      /\ offers' = [offers EXCEPT ![x] = NoOffer]
      /\ UNCHANGED <<totalListings, totalOffers, now>>
  BY DEF executeRuling, MayRule, RulingPays, Ruled
<1>2. /\ offers[x] \in Offer /\ offers[x].commission \in Nat
      /\ x[1] \in ListingId /\ listings[x[1]].deposit \in Nat
  BY DEF RecordsFit, RecordsTyped, Slot, Offer, Listing
<1>3. \/ UNCHANGED listings
      \/ \E deposit \in Nat : listings' = [listings EXCEPT ![x[1]].deposit = deposit]
  <2>1. [offers[x] EXCEPT !.refund = v].commission = offers[x].commission
    BY <1>2 DEF Offer
  <2>2. \/ UNCHANGED listings
        \/ listings' = [listings EXCEPT ![x[1]].deposit =
                          listings[x[1]].deposit + offers[x].commission]
    BY <2>1 DEF executeRuling, MayRule, RulingPays, Ruled
  <2>3. listings[x[1]].deposit + offers[x].commission \in Nat
    BY <1>2
  <2> QED  BY <2>2, <2>3
<1>4. /\ RecordsTyped' /\ ListingsStand /\ offers'[x] = NoOffer
      /\ \A z \in Slot \ {x} : offers'[z] = offers[z]
  BY <1>1, <1>3, NoOfferTyped, RewrittenStep
<1>5. "OfferRuling" \in OfferEvent
  BY DEF OfferEvent
<1>6. TurnsTo(x, About("OfferRuling", party, x[1], x[2]))
  BY <1>1, <1>4, <1>5, OfferEntry DEF TurnsTo
<1> QED  BY <1>1, <1>4, <1>5, <1>6, TurnLogged

LEMMA NewOfferIs ==
  ASSUME NEW buyer \in Account, NEW t \in Terms
  PROVE  NewOffer(buyer, t) \in Offer /\ NewOffer(buyer, t).status = Created
         /\ NewOffer(buyer, t).buyer = buyer
<1>1. t \in OfferTerms /\ buyer \in Party
  BY InputAssumption DEF Party
<1> QED  BY <1>1 DEF NewOffer, Offer, OfferTerms

LEMMA MakeOfferStep ==
  ASSUME RecordsFit, NEW sender \in Account, NEW l \in ListingId, NEW t \in Terms,
         makeOffer(sender, l, t), EmitOffer("OfferCreated", sender, NextSlot(l))
  PROVE  Step
<1> DEFINE x == NextSlot(l)
           o == NewOffer(sender, t)
           e == About("OfferCreated", sender, x[1], x[2])
<1>1. x \in Slot /\ x[1] = l /\ x[2] = totalOffers[l]
  BY NextIsSlot DEF makeOffer, RecordsFit
<1>2. o \in Offer /\ o.status = Created /\ o.buyer = sender
  BY NewOfferIs
<1>3. /\ offers' = [offers EXCEPT ![x] = o]
      /\ totalOffers' = [totalOffers EXCEPT ![l] = @ + 1]
      /\ UNCHANGED <<totalListings, listings, now>>
  BY DEF makeOffer, NextSlot
<1>4. "OfferCreated" \in OfferEvent /\ sender \in Party
  BY DEF OfferEvent, Party
<1>5. e \in Entry /\ e.name = "OfferCreated" /\ e.party = sender /\ OnOffer(e, x)
  BY <1>1, <1>4, OfferEntry
<1>6. log' = log \o Logged(e)
  BY DEF EmitOffer, Emit
<1> HIDE DEF o, e
<1>7. RecordsTyped' /\ ListingsStand
  BY <1>1, <1>2, <1>3 DEF RecordsFit, RecordsTyped, ListingsStand
<1>8. offers'[x] = o /\ \A z \in Slot \ {x} : offers'[z] = offers[z]
  BY <1>1, <1>3 DEF RecordsFit, RecordsTyped
<1>9. Make(l, e)
  BY <1>1, <1>2, <1>3, <1>5, <1>6, <1>8 DEF Make, Takes
<1> QED  BY <1>5, <1>7, <1>9 DEF Step

LEMMA LoggedReplacementStep ==
  ASSUME RecordsFit, NEW sender \in Account, NEW x \in Slot, NEW t \in Terms,
         LoggedReplacement(sender, x, t)
  PROVE  Step
<1> DEFINE l == x[1]
           y == NextSlot(l)
           o == NewOffer(sender, t)
           d == About("OfferWithdrawn", sender, x[1], x[2])
           e == About("OfferCreated", sender, y[1], y[2])
<1>1. l \in ListingId /\ makeOfferAfterWithdrawal(sender, x, t)
  BY DEF LoggedReplacement, Slot
<1>2. y \in Slot /\ y[1] = l /\ y[2] = totalOffers[l]
  BY <1>1, NextIsSlot DEF makeOfferAfterWithdrawal, RecordsFit
<1>3. o \in Offer /\ o.status = Created /\ o.buyer = sender
  BY NewOfferIs
<1>4. /\ offers' = [offers EXCEPT ![x] = NoOffer, ![y] = o]
      /\ totalOffers' = [totalOffers EXCEPT ![l] = @ + 1]
      /\ UNCHANGED <<totalListings, listings, now>>
      /\ offers[x].status = Created
  BY <1>1 DEF makeOfferAfterWithdrawal, MayWithdraw, NextSlot
<1>5. {"OfferWithdrawn", "OfferCreated"} \subseteq OfferEvent /\ sender \in Party
  BY DEF OfferEvent, Party
<1>6. d \in Entry /\ d.name = "OfferWithdrawn" /\ OnOffer(d, x)
  BY <1>5, OfferEntry
<1>7. e \in Entry /\ e.name = "OfferCreated" /\ e.party = sender /\ OnOffer(e, y)
  BY <1>2, <1>5, OfferEntry
<1>8. log' = log \o (Logged(d) \o Logged(e))
  BY <1>2 DEF LoggedReplacement, Emit
<1>9. x # y
  BY <1>1, <1>2, <1>4 DEF RecordsFit, RecordsTyped, PlacesEmpty
<1> HIDE DEF o, e, d, y, l
<1>10. /\ offers'[x] = NoOffer /\ offers'[y] = o /\ \A z \in Slot \ {x, y} : offers'[z] = offers[z]
       /\ offers' \in [Slot -> Offer]
  BY <1>2, <1>3, <1>4, <1>9, NoOfferTyped DEF RecordsFit, RecordsTyped
<1>11. RecordsTyped' /\ ListingsStand
  <2>1. totalOffers' \in [ListingId -> Nat]
    BY <1>1, <1>4 DEF RecordsFit, RecordsTyped
  <2> QED  BY <1>4, <1>10, <2>1 DEF RecordsFit, RecordsTyped, ListingsStand
<1>12. Replace(x, d, e)
  BY <1>2, <1>3, <1>4, <1>6, <1>7, <1>8, <1>10 DEF Replace, Takes, l, y
<1> QED  BY <1>6, <1>7, <1>11, <1>12 DEF Step

LEMMA LoggedListingsStep ==
  ASSUME RecordsFit, NEW sender \in Account, LoggedListingStep(sender)
  PROVE  Step
<1>1. ASSUME NEW d \in Amounts, NEW m \in Managers,
             \/ createListing(sender, d, m)
             \/ \E t \in OriginToken : createListingWithSender(t, sender, d, m),
             EmitListing("ListingCreated", sender, totalListings)
      PROVE  Step
  <2>1. CreateListingFor(sender, d, m) /\ d \in Nat /\ m \in Party
    BY <1>1, InputAssumption DEF createListing, createListingWithSender
  <2> QED  BY <1>1, <2>1, CreateListingStep
<1>2. ASSUME NEW l \in ListingId, NEW d \in Amounts,
             \/ updateListing(sender, l, d)
             \/ \E t \in OriginToken : updateListingWithSender(t, sender, l, d),
             EmitListing("ListingUpdated", sender, l)
      PROVE  Step
  <2>1. UpdateListingFor(sender, l, d) /\ d \in Nat
    BY <1>2, InputAssumption DEF updateListing, updateListingWithSender
  <2> QED  BY <1>2, <2>1, UpdateListingStep
<1>3. ASSUME NEW l \in ListingId, NEW d \in Amounts, NEW target \in Managers,
             sendDeposit(sender, l, target, d), EmitListing("ListingArbitrated", target, l)
      PROVE  Step
  BY <1>3, InputAssumption, SendDepositStep
<1>4. ASSUME NEW l \in ListingId, NEW target \in Managers,
             withdrawListing(sender, l, target), EmitListing("ListingWithdrawn", target, l)
      PROVE  Step
  BY <1>4, InputAssumption, WithdrawListingStep
<1>5. ASSUME NEW l \in ListingId, addListingData(sender, l)
      PROVE  Step
  BY <1>5, ListingDataStep
<1> QED  BY <1>1, <1>2, <1>3, <1>4, <1>5 DEF LoggedListingStep

LEMMA LoggedOffersStep ==
  ASSUME RecordsFit, NEW sender \in Account, LoggedOfferStep(sender)
  PROVE  Step
<1>1. ASSUME NEW l \in ListingId, NEW t \in Terms,
             makeOffer(sender, l, t), EmitOffer("OfferCreated", sender, NextSlot(l))
      PROVE  Step
  BY <1>1, MakeOfferStep
<1>2. ASSUME NEW x \in Slot, NEW t \in Terms, LoggedReplacement(sender, x, t)
      PROVE  Step
  BY <1>2, LoggedReplacementStep
<1>3. ASSUME NEW x \in Slot,
             \/ withdrawOffer(sender, x) /\ EmitOffer("OfferWithdrawn", sender, x)
             \/ acceptOffer(sender, x) /\ EmitOffer("OfferAccepted", sender, x)
             \/ finalize(sender, x) /\ EmitOffer("OfferFinalized", sender, x)
             \/ dispute(sender, x) /\ EmitOffer("OfferDisputed", sender, x)
             \/ addOfferData(sender, x)
      PROVE  Step
  BY <1>3, WithdrawOfferStep, AcceptOfferStep, FinalizeStep, DisputeStep, OfferDataStep
<1>4. ASSUME NEW x \in Slot, NEW v \in Amounts,
             \/ addFunds(sender, x, v) /\ EmitOffer("OfferFundsAdded", sender, x)
             \/ updateRefund(sender, x, v) /\ EmitOffer("OfferData", sender, x)
      PROVE  Step
  BY <1>4, InputAssumption, AddFundsStep, UpdateRefundStep
<1>5. ASSUME NEW x \in Slot, NEW v \in Amounts, NEW toBuyer \in BOOLEAN, NEW toAffiliate \in BOOLEAN,
             executeRuling(sender, x, toBuyer, toAffiliate, v),
             EmitOffer("OfferRuling", offers[x].arbitrator, x)
      PROVE  Step
  <2>1. offers[x].arbitrator \in Party /\ v \in Nat
    BY InputAssumption DEF RecordsFit, RecordsTyped, Offer
  <2> QED  BY <1>5, <2>1, ExecuteRulingStep
<1> QED  BY <1>1, <1>2, <1>3, <1>4, <1>5 DEF LoggedOfferStep

LEMMA LogStep ==
  ASSUME RecordsFit, LogNext
  PROVE  Step
<1>1. ASSUME NEW sender \in Account, OwnerStep(sender), UNCHANGED log
      PROVE  Step
  <2>1. Same
    BY <1>1 DEF OwnerStep, setTokenAddr, addAffiliate, removeAffiliate, Same, RecordsFit, RecordsTyped
  <2> QED  BY <1>1, <2>1, UnloggedStep
<1>2. ASSUME Tick, UNCHANGED log  PROVE Step
  <2>1. Same
    BY <1>2 DEF Tick, Same, RecordsFit, RecordsTyped
  <2> QED  BY <1>2, <2>1, UnloggedStep
<1> QED  BY <1>1, <1>2, LoggedListingsStep, LoggedOffersStep DEF LogNext

LEMMA StutterStep ==
  ASSUME RecordsFit, UNCHANGED logVars
  PROVE  Step
<1>1. Same /\ UNCHANGED log
  BY DEF logVars, vars, Same, RecordsFit, RecordsTyped
<1> QED  BY <1>1, UnloggedStep

LEMMA LogInitFits == LogInit => RecordsFit
<1> SUFFICES ASSUME LogInit PROVE RecordsFit
  OBVIOUS
<1>1. NoListing \in Listing /\ NoOffer \in Offer /\ NoOffer.status = Undefined
  BY NoOfferTyped DEF NoListing, Listing, Party, NoOffer
<1>2. RecordsTyped
  BY <1>1, BoundsAssumption DEF LogInit, Init, RecordsTyped
<1>3. PlacesEmpty
  BY <1>1 DEF LogInit, Init, PlacesEmpty
<1>4. log \in Seq(Entry)
  BY DEF LogInit
<1> QED  BY <1>2, <1>3, <1>4 DEF RecordsFit

\* A step extends the log and leaves the records fit.
LEMMA StepFits ==
  ASSUME RecordsFit, Step
  PROVE  RecordsFit' /\ Grows
<1>0. log \in Seq(Entry) /\ RecordsTyped /\ RecordsTyped' /\ PlacesEmpty
  BY DEF RecordsFit, Step
<1>1. CASE Quiet
  <2>1. log' \in Seq(Entry) /\ Grows
    <3>1. CASE log' = log
      BY <1>0, <3>1 DEF Grows
    <3>2. CASE \E e \in Entry : log' = log \o Logged(e)
      BY <1>0, <3>2, OneLogged
    <3> QED  BY <1>1, <3>1, <3>2 DEF Quiet
  <2>2. PlacesEmpty'
    BY <1>0, <1>1 DEF Quiet, PlacesEmpty
  <2> QED  BY <1>0, <2>1, <2>2 DEF RecordsFit
<1>2. CASE \E x \in Slot, e \in Entry : Turn(x, e)
  <2>1. PICK x \in Slot, e \in Entry : Turn(x, e)
    BY <1>2
  <2>2. log' \in Seq(Entry) /\ Grows
    BY <1>0, <2>1, OneLogged DEF Turn
  <2>3. offers[x].status # Undefined
    BY <2>1 DEF Turn, TurnsTo
  <2>4. PlacesEmpty'
    BY <1>0, <2>1, <2>3 DEF Turn, PlacesEmpty
  <2> QED  BY <1>0, <2>2, <2>4 DEF RecordsFit
<1>3. CASE \E l \in ListingId, e \in Entry : Make(l, e)
  <2>1. PICK l \in ListingId, e \in Entry : Make(l, e)
    BY <1>3
  <2>2. log' \in Seq(Entry) /\ Grows
    BY <1>0, <2>1, OneLogged DEF Make
  <2>3. ASSUME NEW z \in Slot, offers'[z].status # Undefined
        PROVE  z[2] < totalOffers'[z[1]]
    <3>1. z[1] \in ListingId /\ z[2] \in Nat /\ totalOffers[z[1]] \in Nat
      BY <1>0 DEF Slot, OfferId, RecordsTyped
    <3>2. CASE z = NextSlot(l)
      BY <1>0, <2>1, <3>1, <3>2 DEF Make, Takes, NextSlot, RecordsTyped
    <3>3. CASE z # NextSlot(l)
      <4>1. z[2] < totalOffers[z[1]]
        BY <1>0, <2>1, <2>3, <3>3 DEF Make, PlacesEmpty
      <4> QED  BY <1>0, <2>1, <3>1, <4>1 DEF Make, Takes, RecordsTyped
    <3> QED  BY <3>2, <3>3
  <2> QED  BY <1>0, <2>2, <2>3 DEF RecordsFit, PlacesEmpty
<1>4. CASE \E x \in Slot, d, e \in Entry : Replace(x, d, e)
  <2>1. PICK x \in Slot, d \in Entry, e \in Entry : Replace(x, d, e)
    BY <1>4
  <2>2. log' \in Seq(Entry) /\ Grows
    BY <1>0, <2>1, TwoLogged DEF Replace
  <2>3. ASSUME NEW z \in Slot, offers'[z].status # Undefined
        PROVE  z[2] < totalOffers'[z[1]]
    <3>1. z[1] \in ListingId /\ z[2] \in Nat /\ totalOffers[z[1]] \in Nat /\ x[1] \in ListingId
      BY <1>0 DEF Slot, OfferId, RecordsTyped
    <3>2. CASE z = NextSlot(x[1])
      BY <1>0, <2>1, <3>1, <3>2 DEF Replace, Takes, NextSlot, RecordsTyped
    <3>3. CASE z # NextSlot(x[1])
      <4>1. z # x
        BY <2>1, <2>3 DEF Replace, NoOffer
      <4>2. z[2] < totalOffers[z[1]]
        BY <1>0, <2>1, <2>3, <3>3, <4>1 DEF Replace, PlacesEmpty
      <4> QED  BY <1>0, <2>1, <3>1, <4>2 DEF Replace, Takes, RecordsTyped
    <3> QED  BY <3>2, <3>3
  <2> QED  BY <1>0, <2>2, <2>3 DEF RecordsFit, PlacesEmpty
<1> QED  BY <1>1, <1>2, <1>3, <1>4 DEF Step

-----------------------------------------------------------------------------
(* What the log says of one offer.                                           *)

LEMMA OnOne ==
  ASSUME NEW e, NEW x \in Slot, NEW z \in Slot, OnOffer(e, x), OnOffer(e, z)
  PROVE  x = z
<1>1. x = <<x[1], x[2]>> /\ z = <<z[1], z[2]>>
  BY DEF Slot
<1> QED  BY <1>1 DEF OnOffer

\* What the first n events say stays, and the fresh ones are added to the whole.
LEMMA MentionsGrow ==
  ASSUME log \in Seq(Entry), log' \in Seq(Entry), Grows, NEW names, NEW z
  PROVE  /\ \A n \in 0 .. Len(log) : Mentions(names, n, z)' = Mentions(names, n, z)
         /\ Mentions(names, Len(log), z)' =
              Mentions(names, Len(log), z) \cup
                {k \in Fresh : OnOffer(log'[k], z) /\ log'[k].name \in names}
<1>1. Len(log) \in Nat /\ Len(log') \in Nat /\ Len(log) <= Len(log')
  BY DEF Grows
<1>2. \A i \in 1 .. Len(log) : log'[i] = log[i]
  BY DEF Grows
<1>3. ASSUME NEW n \in 0 .. Len(log)  PROVE Mentions(names, n, z)' = Mentions(names, n, z)
  <2>1. \A i \in 1 .. n : i \in 1 .. Len(log)
    BY <1>1
  <2> QED  BY <1>2, <2>1 DEF Mentions, OnOffer
<1>4. 1 .. Len(log') = (1 .. Len(log)) \cup Fresh
  BY <1>1 DEF Fresh
<1>5. Mentions(names, Len(log), z)' =
        Mentions(names, Len(log), z) \cup
          {k \in Fresh : OnOffer(log'[k], z) /\ log'[k].name \in names}
  BY <1>2, <1>4 DEF Mentions, OnOffer
<1> QED  BY <1>3, <1>5

\* The step moves the offer at z, as its event at the place k says.
MovedAt(z, k) ==
  /\ k \in Fresh
  /\ OnOffer(log'[k], z) /\ log'[k].name \in MoveNames
  /\ \A j \in Fresh : OnOffer(log'[j], z) /\ log'[j].name \in MoveNames => j = k
  /\ offers'[z].status = MovesTo[log'[k].name]
  /\ z[2] < totalOffers'[z[1]]
  /\ IF log'[k].name = "OfferCreated"
     THEN ~(z[2] < totalOffers[z[1]])
     ELSE z[2] < totalOffers[z[1]] /\ offers[z].status # Undefined

Unmoved(z) ==
  /\ \A j \in Fresh : ~(OnOffer(log'[j], z) /\ log'[j].name \in MoveNames)
  /\ offers'[z].status = offers[z].status
  /\ z[2] < totalOffers'[z[1]] <=> z[2] < totalOffers[z[1]]

LEMMA MovesToIs ==
  /\ DOMAIN MovesTo = MoveNames
  /\ MovesTo["OfferCreated"] = Created
  /\ MovesTo["OfferAccepted"] = Accepted
  /\ MovesTo["OfferDisputed"] = Disputed
  /\ MovesTo["OfferWithdrawn"] = Undefined
  /\ MovesTo["OfferFinalized"] = Undefined
  /\ MovesTo["OfferRuling"] = Undefined
BY DEF MovesTo, MoveNames

\* Taking the next place on l leaves the places of the others as they were.
LEMMA TakenPlaces ==
  ASSUME RecordsTyped, NEW l \in ListingId, NEW e, Takes(l, e), NEW z \in Slot
  PROVE  /\ z = NextSlot(l) => z[2] < totalOffers'[z[1]] /\ ~(z[2] < totalOffers[z[1]])
         /\ z # NextSlot(l) => (z[2] < totalOffers'[z[1]] <=> z[2] < totalOffers[z[1]])
<1>1. /\ z[1] \in ListingId /\ z[2] \in Nat /\ totalOffers[z[1]] \in Nat
      /\ z = <<z[1], z[2]>>
  BY DEF Slot, OfferId, RecordsTyped
<1>2. totalOffers'[z[1]] = IF z[1] = l THEN totalOffers[l] + 1 ELSE totalOffers[z[1]]
  BY <1>1 DEF Takes, RecordsTyped
<1>3. CASE z = NextSlot(l)
  BY <1>1, <1>2, <1>3 DEF NextSlot
<1>4. CASE z # NextSlot(l)
  <2>1. z[1] = l => z[2] # totalOffers[l]
    BY <1>1, <1>4 DEF NextSlot
  <2> QED  BY <1>1, <1>2, <1>4, <2>1
<1> QED  BY <1>3, <1>4

LEMMA SlotMoves ==
  ASSUME RecordsFit, MoveNames \subseteq Kept, Step, NEW z \in Slot
  PROVE  Unmoved(z) \/ \E k : MovedAt(z, k)
<1>0. log \in Seq(Entry) /\ RecordsTyped /\ PlacesEmpty /\ NoOffer.status = Undefined
  BY DEF RecordsFit, NoOffer
<1>1. CASE Quiet
  <2>1. CASE log' = log
    <3>1. Fresh = {}
      BY <1>0, <2>1 DEF Fresh
    <3> QED  BY <1>1, <3>1 DEF Quiet, Unmoved
  <2>2. CASE \E e \in Entry : e.name \notin MoveNames /\ log' = log \o Logged(e)
    BY <1>0, <1>1, <2>2, OneLogged DEF Quiet, Unmoved
  <2> QED  BY <1>1, <2>1, <2>2 DEF Quiet
<1>2. CASE \E x \in Slot, e \in Entry : Turn(x, e)
  <2>1. PICK x \in Slot, e \in Entry : Turn(x, e)
    BY <1>2
  <2>2. /\ \A k \in Fresh : k = Len(log) + 1 /\ log'[k] = e
        /\ e.name \in Kept => Len(log) + 1 \in Fresh
    BY <1>0, <2>1, OneLogged DEF Turn
  <2>3. OnOffer(e, x) /\ UNCHANGED totalOffers
    BY <2>1 DEF Turn
  <2>4. CASE z # x
    <3>1. ~OnOffer(e, z)
      BY <2>3, <2>4, OnOne
    <3> QED  BY <2>1, <2>2, <2>3, <2>4, <3>1 DEF Turn, Unmoved
  <2>5. CASE z = x /\ e.name \notin MoveNames
    <3>1. offers'[x].status = offers[x].status
      BY <2>1, <2>5 DEF Turn, TurnsTo, MoveNames
    <3> QED  BY <2>2, <2>3, <2>5, <3>1 DEF Unmoved
  <2>6. CASE z = x /\ e.name \in MoveNames
    <3> DEFINE k == Len(log) + 1
    <3>1. k \in Fresh /\ log'[k] = e /\ \A j \in Fresh : j = k
      BY <2>2, <2>6
    <3> HIDE DEF k
    <3>2. /\ offers[x].status # Undefined /\ e.name # "OfferCreated"
          /\ offers'[x].status = MovesTo[e.name]
      BY <1>0, <2>1, <2>6, MovesToIs DEF Turn, TurnsTo, MoveNames
    <3>3. x[2] < totalOffers[x[1]]
      BY <1>0, <3>2 DEF PlacesEmpty
    <3>4. MovedAt(z, k)
      BY <2>3, <2>6, <3>1, <3>2, <3>3 DEF MovedAt
    <3> QED  BY <3>4
  <2> QED  BY <2>4, <2>5, <2>6
<1>3. CASE \E l \in ListingId, e \in Entry : Make(l, e)
  <2>1. PICK l \in ListingId, e \in Entry : Make(l, e)
    BY <1>3
  <2>2. /\ \A k \in Fresh : k = Len(log) + 1 /\ log'[k] = e
        /\ e.name \in Kept => Len(log) + 1 \in Fresh
    BY <1>0, <2>1, OneLogged DEF Make
  <2> DEFINE y == NextSlot(l)
  <2>3. /\ Takes(l, e) /\ y \in Slot /\ OnOffer(e, y) /\ e.name = "OfferCreated"
        /\ offers'[y].status = Created /\ \A x \in Slot \ {y} : offers'[x] = offers[x]
    BY <2>1 DEF Make, Takes
  <2>4. /\ z = y => z[2] < totalOffers'[z[1]] /\ ~(z[2] < totalOffers[z[1]])
        /\ z # y => (z[2] < totalOffers'[z[1]] <=> z[2] < totalOffers[z[1]])
    BY <1>0, <2>3, TakenPlaces
  <2> HIDE DEF y
  <2>5. CASE z # y
    <3>1. ~OnOffer(e, z)
      BY <2>3, <2>5, OnOne
    <3> QED  BY <2>2, <2>3, <2>4, <2>5, <3>1 DEF Unmoved
  <2>6. CASE z = y
    <3> DEFINE k == Len(log) + 1
    <3>1. e.name \in MoveNames
      BY <2>3 DEF MoveNames
    <3>2. k \in Fresh /\ log'[k] = e /\ \A j \in Fresh : j = k
      BY <2>2, <3>1
    <3> HIDE DEF k
    <3>3. MovedAt(z, k)
      BY <2>3, <2>4, <2>6, <3>1, <3>2, MovesToIs DEF MovedAt
    <3> QED  BY <3>3
  <2> QED  BY <2>5, <2>6
<1>4. CASE \E x \in Slot, d, e \in Entry : Replace(x, d, e)
  <2>1. PICK x \in Slot, d \in Entry, e \in Entry : Replace(x, d, e)
    BY <1>4
  <2>2. d.name = "OfferWithdrawn" /\ e.name = "OfferCreated"
    BY <2>1 DEF Replace, Takes
  <2>3. d.name \in MoveNames /\ e.name \in MoveNames
    BY <2>2 DEF MoveNames
  <2>4. /\ \A k \in Fresh : \/ k = Len(log) + 1 /\ log'[k] = d
                            \/ k = Len(log') /\ log'[k] = e
        /\ Len(log) + 1 \in Fresh /\ log'[Len(log) + 1] = d
        /\ Len(log') \in Fresh /\ log'[Len(log')] = e
    BY <1>0, <2>1, <2>3, TwoLogged DEF Replace
  <2> DEFINE y == NextSlot(x[1])
  <2>5. /\ Takes(x[1], e) /\ y \in Slot /\ OnOffer(e, y) /\ x[1] \in ListingId
        /\ offers'[y].status = Created /\ \A w \in Slot \ {x, y} : offers'[w] = offers[w]
        /\ OnOffer(d, x) /\ offers[x].status = Created /\ offers'[x].status = Undefined
    BY <1>0, <2>1 DEF Replace, Takes, Slot
  <2>6. /\ z = y => z[2] < totalOffers'[z[1]] /\ ~(z[2] < totalOffers[z[1]])
        /\ z # y => (z[2] < totalOffers'[z[1]] <=> z[2] < totalOffers[z[1]])
    BY <1>0, <2>5, TakenPlaces
  <2>7. x[2] < totalOffers[x[1]]
    BY <1>0, <2>5 DEF PlacesEmpty
  <2> HIDE DEF y
  <2>8. CASE z # x /\ z # y
    <3>1. ~OnOffer(e, z) /\ ~OnOffer(d, z)
      BY <2>5, <2>8, OnOne
    <3> QED  BY <2>4, <2>5, <2>6, <2>8, <3>1 DEF Unmoved
  <2>9. CASE z = x
    <3> DEFINE k == Len(log) + 1
    <3>1. z # y
      BY <2>6, <2>7, <2>9
    <3>2. ~OnOffer(e, z)
      BY <2>5, <3>1, OnOne
    <3>3. k \in Fresh /\ log'[k] = d /\ \A j \in Fresh : OnOffer(log'[j], z) => j = k
      BY <2>4, <3>2
    <3> HIDE DEF k
    <3>4. MovedAt(z, k)
      BY <2>2, <2>3, <2>5, <2>6, <2>7, <2>9, <3>1, <3>3, MovesToIs DEF MovedAt
    <3> QED  BY <3>4
  <2>10. CASE z = y
    <3> DEFINE k == Len(log')
    <3>1. z # x
      BY <2>6, <2>7, <2>10
    <3>2. ~OnOffer(d, z)
      BY <2>5, <3>1, OnOne
    <3>3. k \in Fresh /\ log'[k] = e /\ \A j \in Fresh : OnOffer(log'[j], z) => j = k
      BY <2>4, <3>2
    <3> HIDE DEF k
    <3>4. MovedAt(z, k)
      BY <2>2, <2>3, <2>5, <2>6, <2>10, <3>3, MovesToIs DEF MovedAt
    <3> QED  BY <3>4
  <2> QED  BY <2>8, <2>9, <2>10
<1> QED  BY <1>1, <1>2, <1>3, <1>4 DEF Step

Terminal == {"OfferWithdrawn", "OfferFinalized", "OfferRuling"}

\* An offer that was made is in the log, one that was not is not mentioned; the
\* last event that moved it tells its status; nothing moves it after its end.
History(z) ==
  /\ z[2] < totalOffers[z[1]] => Mentions({"OfferCreated"}, Len(log), z) # {}
  /\ ~(z[2] < totalOffers[z[1]]) => Mentions(MoveNames, Len(log), z) = {}
  /\ \A i \in Mentions(MoveNames, Len(log), z) :
       (\A j \in Mentions(MoveNames, Len(log), z) : j <= i) =>
         offers[z].status = MovesTo[log[i].name]
  /\ \A i \in Mentions(Terminal, Len(log), z) :
       \A j \in Mentions(MoveNames, Len(log), z) : j <= i

Histories == \A z \in Slot : History(z)

LEMMA TerminalIs ==
  /\ Terminal \subseteq MoveNames
  /\ \A name \in Terminal : MovesTo[name] = Undefined /\ name # "OfferCreated"
BY DEF Terminal, MoveNames, MovesTo

LEMMA InitHistories == LogInit => Histories
<1> SUFFICES ASSUME LogInit, NEW z \in Slot PROVE History(z)
  BY DEF Histories
<1>1. \A names : Mentions(names, Len(log), z) = {}
  BY DEF LogInit, Mentions
<1>2. ~(z[2] < totalOffers[z[1]])
  BY DEF LogInit, Init, Slot, OfferId
<1> QED  BY <1>1, <1>2 DEF History

LEMMA HistoryStep ==
  ASSUME RecordsFit, MoveNames \subseteq Kept, Step, NEW z \in Slot, History(z)
  PROVE  History(z)'
<1> DEFINE C == Mentions({"OfferCreated"}, Len(log), z)
           M == Mentions(MoveNames, Len(log), z)
           T == Mentions(Terminal, Len(log), z)
           fresh(names) == {k \in Fresh : OnOffer(log'[k], z) /\ log'[k].name \in names}
<1>0. log \in Seq(Entry) /\ log' \in Seq(Entry) /\ Grows /\ Len(log) \in Nat
  BY StepFits DEF RecordsFit
<1>1. /\ C' = C \cup fresh({"OfferCreated"})
      /\ M' = M \cup fresh(MoveNames)
      /\ T' = T \cup fresh(Terminal)
  BY <1>0, MentionsGrow
<1>2. \A i \in C \cup M \cup T : i \in 1 .. Len(log) /\ log'[i] = log[i]
  BY <1>0 DEF Mentions, Grows
<1>3. \A i \in T : i \in M
  BY TerminalIs DEF Mentions
<1>4. \A k \in Fresh : k \in Nat /\ k > Len(log)
  BY <1>0 DEF Fresh
<1>5. CASE Unmoved(z)
  <2>1. fresh({"OfferCreated"}) = {} /\ fresh(MoveNames) = {} /\ fresh(Terminal) = {}
    BY <1>5, TerminalIs DEF Unmoved, MoveNames
  <2>2. C' = C /\ M' = M /\ T' = T
    BY <1>1, <2>1
  <2> HIDE DEF C, M, T, fresh
  <2>3. /\ z[2] < totalOffers[z[1]] => C # {}
        /\ ~(z[2] < totalOffers[z[1]]) => M = {}
        /\ \A i \in M : (\A j \in M : j <= i) => offers[z].status = MovesTo[log[i].name]
        /\ \A i \in T : \A j \in M : j <= i
    BY DEF History, C, M, T
  <2>4. /\ z[2] < totalOffers'[z[1]] => C' # {}
        /\ ~(z[2] < totalOffers'[z[1]]) => M' = {}
        /\ \A i \in M' : (\A j \in M' : j <= i) => offers'[z].status = MovesTo[log'[i].name]
        /\ \A i \in T' : \A j \in M' : j <= i
    BY <1>2, <1>5, <2>2, <2>3 DEF Unmoved
  <2> QED  BY <2>4 DEF History, C, M, T, MovesTo
<1>6. ASSUME NEW k, MovedAt(z, k)  PROVE History(z)'
  <2>1. fresh(MoveNames) = {k}
    BY <1>6 DEF MovedAt
  <2>2. fresh(Terminal) \subseteq {k} /\ fresh({"OfferCreated"}) \subseteq {k}
    BY <2>1, TerminalIs DEF MoveNames
  <2>3. k \in fresh(Terminal) => log'[k].name # "OfferCreated"
    BY TerminalIs
  <2>4. log'[k].name = "OfferCreated" => k \in fresh({"OfferCreated"})
    BY <1>6 DEF MovedAt
  <2>5. k \in Fresh
    BY <1>6 DEF MovedAt
  <2> HIDE DEF C, M, T, fresh
  <2>6. /\ z[2] < totalOffers[z[1]] => C # {}
        /\ ~(z[2] < totalOffers[z[1]]) => M = {}
        /\ \A i \in M : (\A j \in M : j <= i) => offers[z].status = MovesTo[log[i].name]
        /\ \A i \in T : \A j \in M : j <= i
    BY DEF History, C, M, T
  <2>7. T = {}
    <3>1. CASE log'[k].name = "OfferCreated"
      BY <1>3, <1>6, <2>6, <3>1 DEF MovedAt
    <3>2. CASE log'[k].name # "OfferCreated"
      <4>1. offers[z].status # Undefined
        BY <1>6, <3>2 DEF MovedAt
      <4>2. ASSUME NEW i \in T PROVE FALSE
        <5>1. offers[z].status = MovesTo[log[i].name]
          BY <1>3, <2>6, <4>2
        <5>2. log[i].name \in Terminal
          BY <4>2 DEF T, Mentions
        <5> QED  BY <4>1, <5>1, <5>2, TerminalIs
      <4> QED  BY <4>2
    <3> QED  BY <3>1, <3>2
  <2>8. M' = M \cup {k} /\ T' \subseteq {k} /\ \A j \in M : j <= k
    BY <1>1, <1>2, <1>4, <2>1, <2>2, <2>5, <2>7
  <2>9. C' # {}
    <3>1. CASE log'[k].name = "OfferCreated"
      BY <1>1, <2>4, <3>1
    <3>2. CASE log'[k].name # "OfferCreated"
      BY <1>1, <1>6, <2>6, <3>2 DEF MovedAt
    <3> QED  BY <3>1, <3>2
  <2>10. ASSUME NEW i \in M', \A j \in M' : j <= i
         PROVE  offers'[z].status = MovesTo[log'[i].name]
    <3>1. i = k
      <4>1. k <= i
        BY <2>8, <2>10
      <4>2. k \in Nat /\ k > Len(log)
        BY <1>4, <2>5
      <4>3. CASE i \in M
        <5>1. i \in 1 .. Len(log)
          BY <1>2, <4>3
        <5> QED  BY <1>0, <4>1, <4>2, <5>1
      <4> QED  BY <2>8, <2>10, <4>3
    <3> QED  BY <1>6, <3>1 DEF MovedAt
  <2>11. \A i \in T' : \A j \in M' : j <= i
    BY <1>4, <2>5, <2>8
  <2>12. z[2] < totalOffers'[z[1]]
    BY <1>6 DEF MovedAt
  <2>13. /\ z[2] < totalOffers'[z[1]] => C' # {}
         /\ ~(z[2] < totalOffers'[z[1]]) => M' = {}
         /\ \A i \in M' : (\A j \in M' : j <= i) => offers'[z].status = MovesTo[log'[i].name]
         /\ \A i \in T' : \A j \in M' : j <= i
    BY <2>9, <2>10, <2>11, <2>12
  <2> QED  BY <2>13 DEF History, C, M, T, MovesTo
<1> QED  BY <1>5, <1>6, SlotMoves

\* Among some of the first n places there is a last one.
LEMMA LatestIs ==
  ASSUME NEW n \in Nat, NEW I, I \subseteq 1 .. n, I # {}
  PROVE  Latest(I) \in I /\ \A j \in I : j <= Latest(I)
<1> DEFINE T == {n - i : i \in I}
<1>1. T \subseteq Nat /\ T # {}
  OBVIOUS
<1>2. PICK m \in T : \A k \in T : m <= k
  BY <1>1, LeastNumber
<1>3. PICK i \in I : m = n - i
  BY <1>2
<1>4. ASSUME NEW j \in I  PROVE j <= i
  <2>1. n - j \in T
    OBVIOUS
  <2>2. m <= n - j
    BY <1>2, <2>1
  <2>3. i \in 1 .. n /\ j \in 1 .. n
    OBVIOUS
  <2> QED  BY <1>3, <2>2, <2>3
<1>5. \E l \in I : \A j \in I : j <= l
  BY <1>4
<1> QED  BY <1>5 DEF Latest

LEMMA MentionsIn ==
  ASSUME NEW names, NEW n \in Nat, NEW z
  PROVE  Mentions(names, n, z) \subseteq 1 .. n
BY DEF Mentions

\* The last event of a table that is about z decides what the table says of z.
LEMMA LastTold ==
  ASSUME NEW table, NEW n \in Nat, NEW z, NEW default,
         NEW i \in Mentions(DOMAIN table, n, z),
         \A j \in Mentions(DOMAIN table, n, z) : j <= i
  PROVE  LastIn(table, n, z, default) = table[log[i].name]
<1> DEFINE I == Mentions(DOMAIN table, n, z)
<1>1. I \subseteq 1 .. n /\ i \in I /\ I # {} /\ \A j \in I : j <= i
  BY MentionsIn
<1> HIDE DEF I
<1>2. Latest(I) \in I /\ \A j \in I : j <= Latest(I)
  BY <1>1, LatestIs
<1>3. i <= Latest(I) /\ Latest(I) <= i /\ i \in 1 .. n /\ Latest(I) \in 1 .. n
  BY <1>1, <1>2
<1>4. i = Latest(I)
  BY <1>3
<1> QED  BY <1>1, <1>4 DEF LastIn, I

LEMMA NothingTold ==
  ASSUME NEW table, NEW n, NEW z, NEW default, Mentions(DOMAIN table, n, z) = {}
  PROVE  LastIn(table, n, z, default) = default
BY DEF LastIn

LEMMA LastMention ==
  ASSUME NEW names, NEW n \in Nat, NEW z, Mentions(names, n, z) # {}
  PROVE  \E i \in Mentions(names, n, z) : \A j \in Mentions(names, n, z) : j <= i
BY MentionsIn, LatestIs

\* What the first n events said they go on saying.
LEMMA LastInStands ==
  ASSUME log \in Seq(Entry), log' \in Seq(Entry), Grows, NEW n \in 0 .. Len(log),
         NEW table, NEW z, NEW default
  PROVE  LastIn(table, n, z, default)' = LastIn(table, n, z, default)
<1> DEFINE I == Mentions(DOMAIN table, n, z)
<1>1. I' = I
  BY MentionsGrow
<1>2. Len(log) \in Nat /\ n \in Nat /\ n <= Len(log)
  OBVIOUS
<1>3. I \subseteq 1 .. n
  BY <1>2, MentionsIn
<1> HIDE DEF I
<1>4. CASE I = {}
  BY <1>1, <1>4 DEF LastIn, I
<1>5. CASE I # {}
  <2>0. Latest(I) \in 1 .. n
    BY <1>2, <1>3, <1>5, LatestIs
  <2>1. Latest(I) \in 1 .. Len(log)
    BY <1>2, <2>0
  <2>2. log'[Latest(I)] = log[Latest(I)]
    BY <2>1 DEF Grows
  <2>3. LastIn(table, n, z, default)' = table[log'[Latest(I)].name]
    BY <1>1, <1>5 DEF LastIn, I
  <2>4. LastIn(table, n, z, default) = table[log[Latest(I)].name]
    BY <1>5 DEF LastIn, I
  <2> QED  BY <2>2, <2>3, <2>4
<1> QED  BY <1>4, <1>5

LEMMA HistoriesTell ==
  ASSUME RecordsFit, Histories
  PROVE  LogTells
<1> SUFFICES ASSUME NEW z \in Slot
             PROVE  offers[z].status = LastIn(MovesTo, Len(log), z, Undefined)
  BY DEF LogTells
<1>1. History(z) /\ log \in Seq(Entry) /\ Len(log) \in Nat
  BY DEF Histories, RecordsFit
<1>2. CASE Mentions(MoveNames, Len(log), z) = {}
  <2>1. ~(z[2] < totalOffers[z[1]])
    BY <1>1, <1>2 DEF History, Mentions, MoveNames
  <2>2. offers[z].status = Undefined
    BY <2>1 DEF RecordsFit, PlacesEmpty
  <2> QED  BY <1>2, <2>2, NothingTold, MovesToIs
<1>3. CASE Mentions(MoveNames, Len(log), z) # {}
  <2>1. PICK i \in Mentions(MoveNames, Len(log), z) :
               \A j \in Mentions(MoveNames, Len(log), z) : j <= i
    BY <1>1, <1>3, LastMention
  <2>2. offers[z].status = MovesTo[log[i].name]
    BY <1>1, <2>1 DEF History
  <2>3. i \in Mentions(DOMAIN MovesTo, Len(log), z)
        /\ \A j \in Mentions(DOMAIN MovesTo, Len(log), z) : j <= i
    BY <2>1, MovesToIs
  <2>4. LastIn(MovesTo, Len(log), z, Undefined) = MovesTo[log[i].name]
    BY <1>1, <2>3, LastTold
  <2> QED  BY <2>2, <2>4
<1> QED  BY <1>2, <1>3

-----------------------------------------------------------------------------
(* Picking events out of the log.                                            *)

Picking(f, s, I, n) ==
  f = [i \in 0 .. n |-> IF i = 0 THEN <<>>
                        ELSE IF i \in I THEN Append(f[i - 1], s[i]) ELSE f[i - 1]]

LEMMA PickingAt ==
  ASSUME NEW f, NEW s, NEW I, NEW n, Picking(f, s, I, n), NEW i \in 0 .. n
  PROVE  f[i] = IF i = 0 THEN <<>> ELSE IF i \in I THEN Append(f[i - 1], s[i]) ELSE f[i - 1]
<1> DEFINE val(j) == IF j = 0 THEN <<>>
                     ELSE IF j \in I THEN Append(f[j - 1], s[j]) ELSE f[j - 1]
<1>1. f = [j \in 0 .. n |-> val(j)]
  BY DEF Picking
<1>2. \A g : g = [j \in 0 .. n |-> val(j)] => g[i] = val(i)
  <2> HIDE DEF val
  <2> QED  OBVIOUS
<1>3. f[i] = val(i)
  <2> HIDE DEF val
  <2> QED  BY <1>1, <1>2
<1> QED  BY <1>3

\* The recursive definition of Picked has a solution.
LEMMA PickingExists ==
  ASSUME NEW s, NEW I
  PROVE  \A n \in Nat : \E f : Picking(f, s, I, n)
<1> DEFINE T == {n \in Nat : \A f : ~Picking(f, s, I, n)}
<1>1. SUFFICES ASSUME T # {} PROVE FALSE
  OBVIOUS
<1>2. PICK m \in T : \A n \in T : m <= n
  BY <1>1, LeastNumber
<1>3. CASE m = 0
  <2>1. Picking([i \in 0 .. 0 |-> <<>>], s, I, 0)
    BY DEF Picking
  <2> QED  BY <1>2, <1>3, <2>1
<1>4. CASE m # 0
  <2>1. m - 1 \in Nat /\ m - 1 \notin T /\ m \in Nat
    BY <1>2, <1>4
  <2>2. PICK f : Picking(f, s, I, m - 1)
    BY <2>1
  <2> DEFINE last == IF m \in I THEN Append(f[m - 1], s[m]) ELSE f[m - 1]
             g == [i \in 0 .. m |-> IF i = m THEN last ELSE f[i]]
  <2>3. \A i \in 0 .. m - 1 : g[i] = f[i] /\ f[i] =
          IF i = 0 THEN <<>> ELSE IF i \in I THEN Append(f[i - 1], s[i]) ELSE f[i - 1]
    <3> TAKE i \in 0 .. m - 1
    <3>1. g[i] = f[i]
      BY <2>1
    <3>2. f[i] = IF i = 0 THEN <<>> ELSE IF i \in I THEN Append(f[i - 1], s[i]) ELSE f[i - 1]
      BY <2>2, PickingAt
    <3> HIDE DEF g
    <3> QED  BY <3>1, <3>2
  <2>4. \A i \in 0 .. m : g[i] =
          IF i = 0 THEN <<>> ELSE IF i \in I THEN Append(g[i - 1], s[i]) ELSE g[i - 1]
    <3> TAKE i \in 0 .. m
    <3>1. CASE i = m
      <4>1. g[i] = IF m \in I THEN Append(f[m - 1], s[m]) ELSE f[m - 1]
        BY <3>1
      <4>2. g[m - 1] = f[m - 1]
        BY <2>1, <2>3
      <4> HIDE DEF g
      <4> QED  BY <1>4, <3>1, <4>1, <4>2
    <3>2. CASE i # m /\ i # 0
      <4>1. i \in 0 .. m - 1 /\ i - 1 \in 0 .. m - 1
        BY <2>1, <3>2
      <4> HIDE DEF g
      <4> QED  BY <2>3, <3>2, <4>1
    <3>3. CASE i # m /\ i = 0
      <4>1. i \in 0 .. m - 1
        BY <2>1, <3>3
      <4> HIDE DEF g
      <4> QED  BY <2>3, <3>3, <4>1
    <3> QED  BY <3>1, <3>2, <3>3
  <2>5. Picking(g, s, I, m)
    <3>1. g = [i \in 0 .. m |-> g[i]]
      OBVIOUS
    <3> HIDE DEF g
    <3> QED  BY <2>4, <3>1 DEF Picking
  <2> QED  BY <1>2, <2>5
<1> QED  BY <1>3, <1>4

\* What is appended comes last, and the rest stays in its place.
LEMMA Appended ==
  ASSUME NEW S, NEW r \in Seq(S), NEW e \in S
  PROVE  /\ Append(r, e) \in Seq(S)
         /\ Len(Append(r, e)) = Len(r) + 1
         /\ \A j \in 1 .. Len(r) : Append(r, e)[j] = r[j]
         /\ Append(r, e)[Len(r) + 1] = e
BY AppendProperties

Has(r, e) == \E j \in 1 .. Len(r) : r[j] = e

LEMMA AppendHas ==
  ASSUME NEW S, NEW r \in Seq(S), NEW e \in S, NEW a
  PROVE  Has(Append(r, e), a) <=> Has(r, a) \/ a = e
<1>1. /\ Len(Append(r, e)) = Len(r) + 1 /\ Len(r) \in Nat
      /\ \A j \in 1 .. Len(r) : Append(r, e)[j] = r[j]
      /\ Append(r, e)[Len(r) + 1] = e
  BY Appended
<1>2. ASSUME NEW j \in 1 .. Len(r) + 1, j \notin 1 .. Len(r)  PROVE j = Len(r) + 1
  BY <1>1, <1>2
<1>3. 1 .. Len(r) \subseteq 1 .. Len(r) + 1 /\ Len(r) + 1 \in 1 .. Len(r) + 1
  BY <1>1
<1> HIDE DEF Has
<1>4. ASSUME Has(Append(r, e), a)  PROVE Has(r, a) \/ a = e
  BY <1>1, <1>2, <1>4 DEF Has
<1>5. ASSUME Has(r, a) \/ a = e  PROVE Has(Append(r, e), a)
  BY <1>1, <1>3, <1>5 DEF Has
<1> QED  BY <1>4, <1>5

\* Picked has the events at the places, and no others.
LEMMA PickedIs ==
  ASSUME NEW S, NEW s \in Seq(S), NEW I
  PROVE  /\ Picked(s, I) \in Seq(S)
         /\ \A a : Has(Picked(s, I), a) <=> \E i \in 1 .. Len(s) : i \in I /\ s[i] = a
<1> DEFINE f == CHOOSE g : Picking(g, s, I, Len(s))
<1>1. Len(s) \in Nat /\ \A i \in 1 .. Len(s) : s[i] \in S
  BY LenProperties, ElementOfSeq
<1>2. Picking(f, s, I, Len(s))
  BY <1>1, PickingExists
<1>3. Picked(s, I) = f[Len(s)]
  BY DEF Picked, Picking
<1> HIDE DEF f
<1>4. f[0] = <<>> /\ \A i \in 1 .. Len(s) :
        f[i] = IF i \in I THEN Append(f[i - 1], s[i]) ELSE f[i - 1]
  BY <1>1, <1>2, PickingAt
<1> DEFINE Good(n) == /\ f[n] \in Seq(S)
                      /\ \A a : Has(f[n], a) <=> \E i \in 1 .. n : i \in I /\ s[i] = a
           T == {n \in 0 .. Len(s) : ~Good(n)}
<1>5. SUFFICES ASSUME T # {} PROVE FALSE
  <2>1. Len(s) \in 0 .. Len(s) /\ Len(s) \notin T
    BY <1>1, <1>5
  <2>2. Good(Len(s))
    BY <2>1
  <2> QED  BY <1>3, <2>2
<1>6. PICK m \in T : \A n \in T : m <= n
  <2>1. T \subseteq Nat
    BY <1>1
  <2> QED  BY <1>5, <2>1, LeastNumber
<1>7. m # 0
  <2>1. Good(0)
    BY <1>4 DEF Has
  <2> QED  BY <1>6, <2>1
<1>8. m \in 1 .. Len(s) /\ m - 1 \in 0 .. Len(s) /\ ~(m <= m - 1)
  BY <1>1, <1>6, <1>7
<1>9. Good(m - 1)
  BY <1>6, <1>8
<1>10. 1 .. m = (1 .. m - 1) \cup {m}
  BY <1>8
<1> DEFINE r == f[m - 1]
<1>11. r \in Seq(S) /\ s[m] \in S /\ \A a : Has(r, a) <=> \E i \in 1 .. m - 1 : i \in I /\ s[i] = a
  BY <1>1, <1>8, <1>9
<1>12. f[m] = IF m \in I THEN Append(r, s[m]) ELSE r
  BY <1>4, <1>8
<1> HIDE DEF r
<1>13. f[m] \in Seq(S)
  BY <1>11, <1>12, Appended
<1>14. ASSUME NEW a  PROVE Has(f[m], a) <=> \E i \in 1 .. m : i \in I /\ s[i] = a
  <2>1. CASE m \in I
    <3>1. Has(f[m], a) <=> Has(r, a) \/ a = s[m]
      BY <1>11, <1>12, <2>1, AppendHas
    <3> QED  BY <1>10, <1>11, <2>1, <3>1
  <2>2. CASE m \notin I
    BY <1>10, <1>11, <1>12, <2>2
  <2> QED  BY <2>1, <2>2
<1>15. Good(m)
  BY <1>13, <1>14
<1> QED  BY <1>6, <1>15

-----------------------------------------------------------------------------
(* The forms that a call of several steps has.                               *)

Notices == [type : {"seller_listing_purchased", "seller_review_received",
                    "buyer_listing_shipped"},
            slot : Slot]

ListingsCall == [pc : {"listings"}, since : Nat, party : Account, found : SUBSET Notices,
                 listings : Seq(ListingId), purchases : Seq(Slot)]

ChecksCall == [pc : {"checks"}, since : Nat, until : Nat, party : Account,
               found : SUBSET Notices, pending : SUBSET Notices,
               invalid : SUBSET Notices, returned : SUBSET Notices]

LoadsCall == [pc : {"loads"}, since : Nat, listing : ListingId, buyer : Party,
              pending : SUBSET Slot, lost : SUBSET Slot, returned : SUBSET Slot]

CallFits ==
  /\ call.pc = "listings" => call \in ListingsCall /\ call.since <= Len(log)
  /\ call.pc = "checks" => /\ call \in ChecksCall
                           /\ call.since <= call.until /\ call.until <= Len(log)
  /\ call.pc = "loads" => call \in LoadsCall /\ call.since <= Len(log)

LEMMA HeadAndTail ==
  ASSUME NEW S, NEW r \in Seq(S), r # <<>>
  PROVE  /\ Head(r) \in S /\ Tail(r) \in Seq(S)
         /\ \A a : Has(r, a) <=> a = Head(r) \/ Has(Tail(r), a)
<1>1. /\ Head(r) \in S /\ Tail(r) \in Seq(S) /\ Head(r) = r[1] /\ Len(r) \in Nat /\ Len(r) >= 1
      /\ Len(Tail(r)) = Len(r) - 1
      /\ \A i \in 1 .. Len(Tail(r)) : Tail(r)[i] = r[i + 1]
  BY HeadTailProperties, EmptySeq, LenProperties
<1> DEFINE t == Tail(r)
<1> HIDE DEF t
<1>2. ASSUME NEW a, Has(r, a)  PROVE a = r[1] \/ Has(t, a)
  <2>1. PICK j \in 1 .. Len(r) : r[j] = a
    BY <1>2 DEF Has
  <2>2. CASE j = 1
    BY <2>1, <2>2
  <2>3. CASE j # 1
    <3>1. j - 1 \in 1 .. Len(r) - 1 /\ j - 1 + 1 = j
      BY <1>1, <2>3
    <3>2. j - 1 \in 1 .. Len(t) /\ t[j - 1] = r[j - 1 + 1]
      BY <1>1, <3>1 DEF t
    <3>3. t[j - 1] = a
      BY <2>1, <3>1, <3>2
    <3> QED  BY <3>2, <3>3 DEF Has
  <2> QED  BY <2>2, <2>3
<1>3. ASSUME NEW a, a = r[1] \/ Has(t, a)  PROVE Has(r, a)
  <2>1. CASE a = r[1]
    <3>1. 1 \in 1 .. Len(r)
      BY <1>1
    <3> QED  BY <2>1, <3>1 DEF Has
  <2>2. CASE Has(t, a)
    <3>1. PICK j \in 1 .. Len(t) : t[j] = a
      BY <2>2 DEF Has
    <3>2. j + 1 \in 1 .. Len(r) /\ t[j] = r[j + 1]
      BY <1>1 DEF t
    <3> QED  BY <3>1, <3>2 DEF Has
  <2> QED  BY <1>3, <2>1, <2>2
<1> QED  BY <1>1, <1>2, <1>3 DEF t

\* The events of a party under a name are picked out of the log.
LEMMA ByIs ==
  ASSUME log \in Seq(Entry), NEW party, NEW name
  PROVE  /\ By(party, name) \in Seq(Entry)
         /\ \A e : Has(By(party, name), e) <=>
              \E i \in 1 .. Len(log) : log[i] = e /\ e.party = party /\ e.name = name
<1> DEFINE I == {i \in DOMAIN log : log[i].party = party /\ log[i].name = name}
<1>1. By(party, name) = Picked(log, I) /\ DOMAIN log = 1 .. Len(log)
  BY LenProperties DEF By
<1>2. \A i \in 1 .. Len(log) : i \in I <=> log[i].party = party /\ log[i].name = name
  BY <1>1
<1> HIDE DEF I
<1>3. /\ Picked(log, I) \in Seq(Entry)
      /\ \A e : Has(Picked(log, I), e) <=> \E i \in 1 .. Len(log) : i \in I /\ log[i] = e
  BY PickedIs
<1> QED  BY <1>1, <1>2, <1>3

LEMMA FunctionIsSeq ==
  ASSUME NEW T, NEW n \in Nat, NEW r \in [1 .. n -> T]
  PROVE  r \in Seq(T) /\ Len(r) = n
<1>1. r = [i \in 1 .. n |-> r[i]] /\ \A i \in 1 .. n : r[i] \in T
  OBVIOUS
<1>2. r \in Seq(T)
  BY <1>1, IsASeq
<1>3. DOMAIN r = 1 .. Len(r) /\ Len(r) \in Nat /\ DOMAIN r = 1 .. n
  BY <1>2, LenProperties
<1> QED  BY <1>2, <1>3

\* What getNotifications finds out about the party at its first request.
LEMMA PartyEvents ==
  ASSUME log \in Seq(Entry), NEW party, NEW ls, NEW ps,
         ls = [i \in DOMAIN By(party, "ListingCreated") |->
                 By(party, "ListingCreated")[i].listing],
         ps = [i \in DOMAIN By(party, "OfferCreated") |->
                 <<By(party, "OfferCreated")[i].listing, By(party, "OfferCreated")[i].offer>>]
  PROVE  /\ ls \in Seq(ListingId) /\ ps \in Seq(Slot)
         /\ \A i \in 1 .. Len(log) : log[i].party = party =>
              /\ log[i].name = "ListingCreated" => Has(ls, log[i].listing)
              /\ log[i].name = "OfferCreated" => Has(ps, <<log[i].listing, log[i].offer>>)
<1> DEFINE s == By(party, "ListingCreated")
           t == By(party, "OfferCreated")
<1>1. /\ s \in Seq(Entry)
      /\ \A e : Has(s, e) <=>
           \E i \in 1 .. Len(log) : log[i] = e /\ e.party = party /\ e.name = "ListingCreated"
  BY ByIs
<1>2. /\ t \in Seq(Entry)
      /\ \A e : Has(t, e) <=>
           \E i \in 1 .. Len(log) : log[i] = e /\ e.party = party /\ e.name = "OfferCreated"
  BY ByIs
<1>3. ls = [i \in DOMAIN s |-> s[i].listing] /\ ps = [i \in DOMAIN t |-> <<t[i].listing, t[i].offer>>]
  OBVIOUS
<1> HIDE DEF s, t
<1>4. /\ DOMAIN s = 1 .. Len(s) /\ \A i \in DOMAIN s : s[i] \in Entry
      /\ DOMAIN t = 1 .. Len(t) /\ \A i \in DOMAIN t : t[i] \in Entry
  BY <1>1, <1>2, LenProperties, ElementOfSeq
<1>5. \A i \in DOMAIN s : ls[i] = s[i].listing /\ ls[i] \in ListingId
  BY <1>3, <1>4 DEF Entry, Event
<1>6. ASSUME NEW i \in DOMAIN t
      PROVE  ps[i] = <<t[i].listing, t[i].offer>> /\ ps[i] \in Slot
  <2>1. t[i].name = "OfferCreated"
    <3>1. Has(t, t[i])
      BY <1>4 DEF Has
    <3> QED  BY <1>2, <3>1
  <2>2. t[i].offer \in OfferId /\ t[i].listing \in ListingId
    BY <1>4, <2>1 DEF Entry, Event, OfferEvent
  <2> QED  BY <1>3, <2>2 DEF Slot
<1>7. ls \in Seq(ListingId) /\ Len(ls) = Len(s)
  <2>1. ls \in [1 .. Len(s) -> ListingId] /\ Len(s) \in Nat
    BY <1>1, <1>2, <1>3, <1>4, <1>5, LenProperties
  <2> QED  BY <2>1, FunctionIsSeq
<1>8. ps \in Seq(Slot) /\ Len(ps) = Len(t)
  <2>1. ps \in [1 .. Len(t) -> Slot] /\ Len(t) \in Nat
    BY <1>1, <1>2, <1>3, <1>4, <1>6, LenProperties
  <2> QED  BY <2>1, FunctionIsSeq
<1>9. ASSUME NEW i \in 1 .. Len(log), log[i].party = party, log[i].name = "ListingCreated"
      PROVE  Has(ls, log[i].listing)
  <2>1. Has(s, log[i])
    BY <1>1, <1>9
  <2>2. PICK j \in 1 .. Len(s) : s[j] = log[i]
    BY <2>1 DEF Has
  <2> QED  BY <1>4, <1>5, <1>7, <2>2 DEF Has
<1>10. ASSUME NEW i \in 1 .. Len(log), log[i].party = party, log[i].name = "OfferCreated"
       PROVE  Has(ps, <<log[i].listing, log[i].offer>>)
  <2>1. Has(t, log[i])
    BY <1>2, <1>10
  <2>2. PICK j \in 1 .. Len(t) : t[j] = log[i]
    BY <2>1 DEF Has
  <2> QED  BY <1>4, <1>6, <1>8, <2>2 DEF Has
<1> QED  BY <1>7, <1>8, <1>9, <1>10

-----------------------------------------------------------------------------
(* The calls that read: every step of them leaves the contract alone.        *)

AdapterNext == ChainStep \/ OfferRead \/ NotificationRead \/ OffersRead

LEMMA ReadsOnly ==
  ASSUME OfferRead \/ NotificationRead \/ OffersRead
  PROVE  UNCHANGED logVars
BY DEF OfferRead, NotificationRead, OffersRead, ReadRecord, ReadEvents, ReadPartyEvents,
   ReadOwnListing, ReadPurchase, StartChecks, EndCheck, ReadOfferIds, EndLoad

LEMMA AdapterStep ==
  ASSUME RecordsFit, [AdapterNext]_adapterVars
  PROVE  Step
<1>1. CASE LogNext
  BY <1>1, LogStep
<1>2. CASE UNCHANGED logVars
  BY <1>2, StutterStep
<1> QED  BY <1>1, <1>2, ReadsOnly DEF AdapterNext, adapterVars, ChainStep

LEMMA AdapterFits == AdapterSpec => []RecordsFit
<1>1. AdapterInit => RecordsFit
  BY LogInitFits DEF AdapterInit
<1>2. RecordsFit /\ [AdapterNext]_adapterVars => RecordsFit'
  BY AdapterStep, StepFits
<1> QED  BY <1>1, <1>2, PTL DEF AdapterSpec, AdapterNext

LEMMA HistoriesStep ==
  ASSUME RecordsFit, MoveNames \subseteq Kept, Step, Histories
  PROVE  Histories'
<1>1. ASSUME NEW z \in Slot PROVE History(z)'
  BY <1>1, HistoryStep DEF Histories
<1> QED  BY <1>1 DEF Histories

\* An instance that keeps the events that move an offer.
KeepsMoves == DOMAIN MovesTo \subseteq Kept

LEMMA AdapterHistories == KeepsMoves => (AdapterSpec => []Histories)
<1> SUFFICES ASSUME KeepsMoves PROVE AdapterSpec => []Histories
  OBVIOUS
<1>0. MoveNames \subseteq Kept
  BY MovesToIs DEF KeepsMoves
<1>1. AdapterInit => Histories
  BY InitHistories DEF AdapterInit
<1>2. RecordsFit /\ Histories /\ [AdapterNext]_adapterVars => Histories'
  BY <1>0, AdapterStep, HistoriesStep
<1> QED  BY <1>1, <1>2, AdapterFits, PTL DEF AdapterSpec, AdapterNext

\* In every run of the contract and its clients the log determines the status
\* of every offer.
THEOREM LogAlwaysTells == KeepsMoves => (AdapterSpec => []LogTells)
<1>1. RecordsFit /\ Histories => LogTells
  BY HistoriesTell
<1> QED  BY <1>1, AdapterFits, AdapterHistories, PTL

LEMMA OverridesAre ==
  /\ DOMAIN Overrides = Terminal \cup {"OfferData"}
  /\ DOMAIN MovedBy = MoveNames
  /\ \A name \in Terminal : Overrides[name] = MovedBy[name]
BY DEF Overrides, MovedBy, Terminal, MoveNames

-----------------------------------------------------------------------------
(* getNotifications.                                                         *)

\* What the first events say: the party created x's listing, or made the offer.
Sells(since, party, x) ==
  \E i \in 1 .. since : /\ log[i].name = "ListingCreated"
                        /\ log[i].party = party
                        /\ log[i].listing = x[1]

Buys(since, party, x) ==
  \E i \in Mentions({"OfferCreated"}, since, x) : log[i].party = party

Always(since, until, x, status) == \A n \in since .. until : TrueStatus(n, x) = status

\* What the call has to find is found, or on a listing or an offer that it has
\* yet to read.
Covered(since, until, party, found, ls, ps) ==
  \A x \in Slot : ~HasData(until, x) =>
    /\ Sells(since, party, x) /\ Always(since, until, x, "created") =>
         Notice("seller_listing_purchased", x) \in found \/ Has(ls, x[1])
    /\ Sells(since, party, x) /\ Always(since, until, x, "finalized") =>
         Notice("seller_review_received", x) \in found \/ Has(ls, x[1])
    /\ Buys(since, party, x) /\ Always(since, until, x, "accepted") =>
         Notice("buyer_listing_shipped", x) \in found \/ Has(ps, x)

NoticesSound ==
  /\ call.pc = "listings" =>
       Covered(call.since, Len(log), call.party, call.found, call.listings, call.purchases)
  /\ call.pc = "checks" =>
       Covered(call.since, call.until, call.party, call.found, <<>>, <<>>)

LEMMA CoveredMissesNothing ==
  ASSUME NoticesSound
  PROVE  NothingMissed
<1>1. \A a : ~Has(<<>>, a)
  BY DEF Has
<1> QED  BY <1>1 DEF NoticesSound, NothingMissed, Covered, Sells, Buys, Always

\* The later the call asks, the less there is that held all along.
LEMMA CoveredGrows ==
  ASSUME log \in Seq(Entry), log' \in Seq(Entry), Grows,
         NEW since \in Nat, NEW m \in Nat, NEW n \in Nat,
         since <= m, m <= Len(log), m <= n,
         NEW party, NEW found, NEW ls, NEW ps,
         Covered(since, m, party, found, ls, ps)
  PROVE  Covered(since, n, party, found, ls, ps)'
<1>0. Len(log) \in Nat /\ since \in 0 .. Len(log) /\ m \in 0 .. Len(log)
  OBVIOUS
<1> SUFFICES ASSUME NEW x \in Slot, ~HasData(n, x)'
             PROVE  /\ Sells(since, party, x)' /\ Always(since, n, x, "created")' =>
                         Notice("seller_listing_purchased", x) \in found \/ Has(ls, x[1])
                    /\ Sells(since, party, x)' /\ Always(since, n, x, "finalized")' =>
                         Notice("seller_review_received", x) \in found \/ Has(ls, x[1])
                    /\ Buys(since, party, x)' /\ Always(since, n, x, "accepted")' =>
                         Notice("buyer_listing_shipped", x) \in found \/ Has(ps, x)
  BY DEF Covered, Notice
<1>1. \A i \in 1 .. since : log'[i] = log[i]
  BY <1>0 DEF Grows
<1>2. Sells(since, party, x)' <=> Sells(since, party, x)
  BY <1>1 DEF Sells
<1>3. Buys(since, party, x)' <=> Buys(since, party, x)
  <2>1. Mentions({"OfferCreated"}, since, x)' = Mentions({"OfferCreated"}, since, x)
    BY <1>0, MentionsGrow
  <2>2. Mentions({"OfferCreated"}, since, x) \subseteq 1 .. since
    BY MentionsIn
  <2> QED  BY <1>1, <2>1, <2>2 DEF Buys
<1>4. ASSUME NEW status, Always(since, n, x, status)'
      PROVE  Always(since, m, x, status)
  <2>1. ASSUME NEW k \in since .. m  PROVE TrueStatus(k, x) = status
    <3>1. k \in since .. n /\ k \in 0 .. Len(log)
      BY <1>0
    <3>2. TrueStatus(k, x)' = status
      BY <1>4, <3>1 DEF Always
    <3>3. TrueStatus(k, x)' = TrueStatus(k, x)
      BY <3>1, LastInStands DEF TrueStatus, MovedBy
    <3> QED  BY <3>2, <3>3
  <2> QED  BY <2>1 DEF Always
<1>5. ~HasData(m, x)
  <2>1. Mentions({"OfferData"}, m, x)' = Mentions({"OfferData"}, m, x)
    BY <1>0, MentionsGrow
  <2>2. Mentions({"OfferData"}, m, x)' \subseteq Mentions({"OfferData"}, n, x)'
    <3>1. 1 .. m \subseteq 1 .. n
      OBVIOUS
    <3> QED  BY <3>1 DEF Mentions
  <2> QED  BY <2>1, <2>2 DEF HasData
<1> QED  BY <1>2, <1>3, <1>4, <1>5 DEF Covered

LEMMA FoldedIs ==
  /\ DOMAIN FoldedAs = (MoveNames \ {"OfferWithdrawn"}) \cup {"OfferData"}
  /\ \A name \in MoveNames : MovedBy[name] \in {"created", "accepted", "finalized"} =>
       name \in DOMAIN FoldedAs /\ FoldedAs[name] = MovedBy[name]
BY DEF FoldedAs, MovedBy, MoveNames

\* Without data attached, the status shown for an offer that waits, is accepted
\* or finalized is the true one.
LEMMA ListedIs ==
  ASSUME log \in Seq(Entry), NEW x, ~HasData(Len(log), x),
         TrueStatus(Len(log), x) \in {"created", "accepted", "finalized"}
  PROVE  ListedStatus(x) = TrueStatus(Len(log), x)
<1> DEFINE u == Len(log)
           M == Mentions(MoveNames, u, x)
           F == Mentions(DOMAIN FoldedAs, u, x)
<1>1. u \in Nat /\ Mentions(DOMAIN MovedBy, u, x) = M
  BY OverridesAre
<1>2. M # {}
  <2>1. M = {} => TrueStatus(u, x) = "none"
    BY <1>1, NothingTold DEF TrueStatus
  <2> QED  BY <2>1
<1>3. PICK i \in M : \A j \in M : j <= i
  BY <1>1, <1>2, LastMention
<1>4. TrueStatus(u, x) = MovedBy[log[i].name]
  <2>1. i \in Mentions(DOMAIN MovedBy, u, x) /\ \A j \in Mentions(DOMAIN MovedBy, u, x) : j <= i
    BY <1>1, <1>3
  <2>2. \A default : LastIn(MovedBy, u, x, default) = MovedBy[log[i].name]
    BY <1>1, <2>1, LastTold
  <2> QED  BY <2>2 DEF TrueStatus
<1>5. log[i].name \in MoveNames
  BY <1>3 DEF Mentions
<1>6. log[i].name \in DOMAIN FoldedAs /\ FoldedAs[log[i].name] = MovedBy[log[i].name]
  BY <1>4, <1>5, FoldedIs
<1>7. i \in F
  BY <1>3, <1>6 DEF Mentions
<1>8. F \subseteq M
  BY FoldedIs DEF Mentions, HasData
<1>9. i \in F /\ \A j \in F : j <= i
  BY <1>3, <1>7, <1>8
<1> HIDE DEF u
<1>10. LastIn(FoldedAs, u, x, "none") = FoldedAs[log[i].name]
  BY <1>1, <1>9, LastTold
<1> QED  BY <1>4, <1>6, <1>10 DEF ListedStatus, u

\* What always held, holds now.
LEMMA AlwaysNow ==
  ASSUME log \in Seq(Entry), NEW since \in 0 .. Len(log), NEW x, ~HasData(Len(log), x),
         NEW status \in {"created", "accepted", "finalized"}, Always(since, Len(log), x, status)
  PROVE  ListedStatus(x) = status
<1>1. Len(log) \in since .. Len(log)
  OBVIOUS
<1>2. TrueStatus(Len(log), x) = status
  BY <1>1 DEF Always
<1> QED  BY <1>2, ListedIs

LEMMA CoveredNow ==
  ASSUME UNCHANGED log, NEW since, NEW until, NEW party, NEW found, NEW ls, NEW ps,
         Covered(since, until, party, found, ls, ps),
         call'.since = since, call'.party = party, call'.found = found
  PROVE  /\ call'.listings = ls /\ call'.purchases = ps /\ until = Len(log) =>
              Covered(call.since, Len(log), call.party, call.found, call.listings, call.purchases)'
         /\ call'.until = until /\ ls = <<>> /\ ps = <<>> =>
              Covered(call.since, call.until, call.party, call.found, <<>>, <<>>)'
<1>1. \A n, x : TrueStatus(n, x)' = TrueStatus(n, x)
  BY DEF TrueStatus, LastIn, Mentions, OnOffer, MovedBy, Latest
<1>2. /\ \A x : Sells(call.since, call.party, x)' <=> Sells(since, party, x)
      /\ \A x : Buys(call.since, call.party, x)' <=> Buys(since, party, x)
  BY DEF Sells, Buys, Mentions, OnOffer
<1>3. /\ until = Len(log) => \A x : HasData(Len(log), x)' <=> HasData(until, x)
      /\ call'.until = until => \A x : HasData(call.until, x)' <=> HasData(until, x)
  BY DEF HasData, Mentions, OnOffer
<1>4. /\ until = Len(log) => \A x, status : Always(call.since, Len(log), x, status)'
                                             <=> Always(since, until, x, status)
      /\ call'.until = until => \A x, status : Always(call.since, call.until, x, status)'
                                             <=> Always(since, until, x, status)
  BY <1>1 DEF Always
<1>5. ASSUME call'.listings = ls, call'.purchases = ps, until = Len(log)
      PROVE  Covered(call.since, Len(log), call.party, call.found, call.listings, call.purchases)'
  BY <1>2, <1>3, <1>4, <1>5 DEF Covered, Notice, Has
<1>6. ASSUME call'.until = until, ls = <<>>, ps = <<>>
      PROVE  Covered(call.since, call.until, call.party, call.found, <<>>, <<>>)'
  BY <1>2, <1>3, <1>4, <1>6 DEF Covered, Notice, Has
<1> QED  BY <1>5, <1>6

LEMMA ReadPartyCovers ==
  ASSUME RecordsFit, NEW party \in Account, ReadPartyEvents(party)
  PROVE  CallFits' /\ NoticesSound'
<1> DEFINE ls == [i \in DOMAIN By(party, "ListingCreated") |->
                    By(party, "ListingCreated")[i].listing]
           ps == [i \in DOMAIN By(party, "OfferCreated") |->
                    <<By(party, "OfferCreated")[i].listing, By(party, "OfferCreated")[i].offer>>]
<1>1. /\ log' = log
      /\ call' = [pc |-> "listings", since |-> Len(log), party |-> party, found |-> {},
                  listings |-> ls, purchases |-> ps]
  BY DEF ReadPartyEvents, logVars
<1>2. log \in Seq(Entry) /\ Len(log) \in Nat
  BY DEF RecordsFit
<1>3. /\ ls \in Seq(ListingId) /\ ps \in Seq(Slot)
      /\ \A i \in 1 .. Len(log) : log[i].party = party =>
           /\ log[i].name = "ListingCreated" => Has(ls, log[i].listing)
           /\ log[i].name = "OfferCreated" => Has(ps, <<log[i].listing, log[i].offer>>)
  BY <1>2, PartyEvents
<1> HIDE DEF ls, ps
<1>4. call' \in ListingsCall /\ call'.pc = "listings" /\ call'.since = Len(log)
  BY <1>1, <1>2, <1>3 DEF ListingsCall
<1>5. Covered(Len(log), Len(log), party, {}, ls, ps)
  <2> SUFFICES ASSUME NEW x \in Slot
               PROVE  /\ Sells(Len(log), party, x) => Has(ls, x[1])
                      /\ Buys(Len(log), party, x) => Has(ps, x)
    BY DEF Covered
  <2>1. x = <<x[1], x[2]>>
    BY DEF Slot
  <2>2. Sells(Len(log), party, x) => Has(ls, x[1])
    BY <1>3 DEF Sells
  <2>3. Buys(Len(log), party, x) => Has(ps, x)
    BY <1>3, <2>1 DEF Buys, Mentions, OnOffer
  <2> QED  BY <2>2, <2>3
<1>6. Covered(call.since, Len(log), call.party, call.found, call.listings, call.purchases)'
  BY <1>1, <1>5, CoveredNow
<1> QED  BY <1>1, <1>2, <1>4, <1>6 DEF CallFits, NoticesSound

\* Between two requests the log grows and the call waits.
LEMMA CallWaits ==
  ASSUME log \in Seq(Entry), log' \in Seq(Entry), Grows, UNCHANGED call,
         CallFits, NoticesSound
  PROVE  CallFits' /\ NoticesSound'
<1>0. Len(log) \in Nat /\ Len(log') \in Nat /\ Len(log) <= Len(log')
  BY DEF Grows
<1>1. CASE call.pc = "listings"
  <2>1. call \in ListingsCall /\ call.since \in Nat /\ call.since <= Len(log)
    BY <1>1 DEF CallFits, ListingsCall
  <2>2. Covered(call.since, Len(log), call.party, call.found, call.listings, call.purchases)
    BY <1>1 DEF NoticesSound
  <2> DEFINE since == call.since
             n == Len(log')
  <2>3. PICK m \in Nat, k \in Nat : m = Len(log) /\ k = Len(log')
    BY <1>0
  <2>4. PICK c : c = call
    OBVIOUS
  <2>5. Covered(c.since, k, c.party, c.found, c.listings, c.purchases)'
    <3>1. Covered(c.since, m, c.party, c.found, c.listings, c.purchases)
      BY <2>2, <2>3, <2>4
    <3> QED  BY <1>0, <2>1, <2>3, <2>4, <3>1, CoveredGrows
  <2>6. Covered(call.since, Len(log), call.party, call.found, call.listings, call.purchases)'
    BY <2>3, <2>4, <2>5
  <2> QED  BY <1>0, <1>1, <2>1, <2>6 DEF CallFits, NoticesSound
<1>2. CASE call.pc = "checks"
  <2>1. /\ call \in ChecksCall /\ call.since \in Nat /\ call.until \in Nat
        /\ call.since <= call.until /\ call.until <= Len(log)
    BY <1>2 DEF CallFits, ChecksCall
  <2>2. Covered(call.since, call.until, call.party, call.found, <<>>, <<>>)
    BY <1>2 DEF NoticesSound
  <2>3. PICK c : c = call
    OBVIOUS
  <2>4. Covered(c.since, c.until, c.party, c.found, <<>>, <<>>)'
    <3>1. Covered(c.since, c.until, c.party, c.found, <<>>, <<>>) /\ c.until <= c.until
      BY <2>1, <2>2, <2>3
    <3> QED  BY <1>0, <2>1, <2>3, <3>1, CoveredGrows
  <2>5. Covered(call.since, call.until, call.party, call.found, <<>>, <<>>)'
    BY <2>3, <2>4
  <2> QED  BY <1>0, <1>2, <2>1, <2>5 DEF CallFits, NoticesSound
<1>3. CASE call.pc = "loads"
  <2>1. call \in LoadsCall /\ call.since \in Nat /\ call.since <= Len(log)
    BY <1>3 DEF CallFits, LoadsCall
  <2> QED  BY <1>0, <1>3, <2>1 DEF CallFits, NoticesSound
<1> QED  BY <1>1, <1>2, <1>3 DEF CallFits, NoticesSound

LEMMA NoticeIn ==
  ASSUME NEW x \in Slot
  PROVE  /\ Notice("seller_listing_purchased", x) \in Notices
         /\ Notice("seller_review_received", x) \in Notices
         /\ Notice("buyer_listing_shipped", x) \in Notices
BY DEF Notice, Notices

LEMMA SellerNoticesAre ==
  ASSUME NEW l \in ListingId
  PROVE  /\ SellerNotices(l) \subseteq Notices
         /\ \A x \in Slot : x[1] = l =>
              /\ ListedStatus(x) = "created" =>
                   Notice("seller_listing_purchased", x) \in SellerNotices(l)
              /\ ListedStatus(x) = "finalized" =>
                   Notice("seller_review_received", x) \in SellerNotices(l)
<1>1. {l} \X OfferId \subseteq Slot /\ \A x \in Slot : x[1] = l => x \in {l} \X OfferId
  BY DEF Slot
<1> QED  BY <1>1, NoticeIn DEF SellerNotices

LEMMA BuyerNoticesAre ==
  ASSUME NEW x \in Slot
  PROVE  /\ BuyerNotices(x) \subseteq Notices
         /\ ListedStatus(x) = "accepted" => Notice("buyer_listing_shipped", x) \in BuyerNotices(x)
BY NoticeIn DEF BuyerNotices

LEMMA ReadOwnListingCovers ==
  ASSUME RecordsFit, CallFits, NoticesSound, ReadOwnListing
  PROVE  CallFits' /\ NoticesSound'
<1>1. call.pc = "listings" /\ call.listings # <<>> /\ log' = log
  BY DEF ReadOwnListing, logVars
<1>2. /\ call \in ListingsCall /\ call.since \in Nat /\ call.since <= Len(log)
      /\ log \in Seq(Entry) /\ Len(log) \in Nat
      /\ call.listings \in Seq(ListingId) /\ call.found \in SUBSET Notices
  BY <1>1 DEF CallFits, ListingsCall, RecordsFit
<1> DEFINE l == Head(call.listings)
           ls == Tail(call.listings)
           found == call.found \cup SellerNotices(l)
<1>3. /\ l \in ListingId /\ ls \in Seq(ListingId)
      /\ \A a : Has(call.listings, a) <=> a = l \/ Has(ls, a)
  BY <1>1, <1>2, HeadAndTail
<1>4. call' = [call EXCEPT !.listings = ls, !.found = found]
  BY DEF ReadOwnListing
<1>5. found \in SUBSET Notices
  BY <1>2, <1>3, SellerNoticesAre
<1>6. /\ SellerNotices(l) \subseteq found /\ call.found \subseteq found
  OBVIOUS
<1> HIDE DEF l, ls, found
<1>7. /\ call' \in ListingsCall /\ call'.pc = "listings" /\ call'.since = call.since
      /\ call'.party = call.party /\ call'.found = found /\ call'.listings = ls
      /\ call'.purchases = call.purchases
  <2>1. call \in ListingsCall /\ ls \in Seq(ListingId) /\ found \in SUBSET Notices
    BY <1>2, <1>3, <1>5
  <2> QED  BY <1>4, <2>1 DEF ListingsCall
<1>8. Covered(call.since, Len(log), call.party, found, ls, call.purchases)
  <2>1. Covered(call.since, Len(log), call.party, call.found, call.listings, call.purchases)
    BY <1>1 DEF NoticesSound
  <2>2. ASSUME NEW x \in Slot, ~HasData(Len(log), x), x[1] = l, NEW status \in {"created", "finalized"},
               Always(call.since, Len(log), x, status)
        PROVE  ListedStatus(x) = status
    <3>1. call.since \in 0 .. Len(log)
      BY <1>2
    <3> QED  BY <1>2, <2>2, <3>1, AlwaysNow
  <2> SUFFICES ASSUME NEW x \in Slot, ~HasData(Len(log), x)
               PROVE  /\ Sells(call.since, call.party, x) /\ Always(call.since, Len(log), x, "created") =>
                           Notice("seller_listing_purchased", x) \in found \/ Has(ls, x[1])
                      /\ Sells(call.since, call.party, x) /\ Always(call.since, Len(log), x, "finalized") =>
                           Notice("seller_review_received", x) \in found \/ Has(ls, x[1])
                      /\ Buys(call.since, call.party, x) /\ Always(call.since, Len(log), x, "accepted") =>
                           Notice("buyer_listing_shipped", x) \in found \/ Has(call.purchases, x)
    BY DEF Covered
  <2>3. /\ Sells(call.since, call.party, x) /\ Always(call.since, Len(log), x, "created") =>
             Notice("seller_listing_purchased", x) \in call.found \/ Has(call.listings, x[1])
        /\ Sells(call.since, call.party, x) /\ Always(call.since, Len(log), x, "finalized") =>
             Notice("seller_review_received", x) \in call.found \/ Has(call.listings, x[1])
        /\ Buys(call.since, call.party, x) /\ Always(call.since, Len(log), x, "accepted") =>
             Notice("buyer_listing_shipped", x) \in call.found \/ Has(call.purchases, x)
    BY <2>1 DEF Covered
  <2>4. x[1] = l => /\ ListedStatus(x) = "created" => Notice("seller_listing_purchased", x) \in found
                    /\ ListedStatus(x) = "finalized" => Notice("seller_review_received", x) \in found
    BY <1>3, <1>6, SellerNoticesAre
  <2>5. x[1] = l =>
          /\ Always(call.since, Len(log), x, "created") => Notice("seller_listing_purchased", x) \in found
          /\ Always(call.since, Len(log), x, "finalized") => Notice("seller_review_received", x) \in found
    BY <2>2, <2>4
  <2>6. Has(call.listings, x[1]) <=> x[1] = l \/ Has(ls, x[1])
    BY <1>3
  <2> QED  BY <1>6, <2>3, <2>5, <2>6
<1>9. Covered(call.since, Len(log), call.party, call.found, call.listings, call.purchases)'
  BY <1>1, <1>7, <1>8, CoveredNow
<1> QED  BY <1>1, <1>2, <1>7, <1>9 DEF CallFits, NoticesSound

LEMMA ReadPurchaseCovers ==
  ASSUME RecordsFit, CallFits, NoticesSound, ReadPurchase
  PROVE  CallFits' /\ NoticesSound'
<1>1. call.pc = "listings" /\ call.purchases # <<>> /\ log' = log
  BY DEF ReadPurchase, logVars
<1>2. /\ call \in ListingsCall /\ call.since \in Nat /\ call.since <= Len(log)
      /\ log \in Seq(Entry) /\ Len(log) \in Nat
      /\ call.purchases \in Seq(Slot) /\ call.found \in SUBSET Notices
  BY <1>1 DEF CallFits, ListingsCall, RecordsFit
<1> DEFINE y == Head(call.purchases)
           ps == Tail(call.purchases)
           found == call.found \cup BuyerNotices(y)
<1>3. /\ y \in Slot /\ ps \in Seq(Slot)
      /\ \A a : Has(call.purchases, a) <=> a = y \/ Has(ps, a)
  BY <1>1, <1>2, HeadAndTail
<1>4. \/ call' = [call EXCEPT !.purchases = ps, !.found = found]
      \/ call'.pc = "failed"
  BY DEF ReadPurchase
<1>5. CASE call'.pc = "failed"
  BY <1>5 DEF CallFits, NoticesSound
<1>6. CASE call' = [call EXCEPT !.purchases = ps, !.found = found]
  <2>1. found \in SUBSET Notices
    BY <1>2, <1>3, BuyerNoticesAre
  <2>2. BuyerNotices(y) \subseteq found /\ call.found \subseteq found
    OBVIOUS
  <2> HIDE DEF y, ps, found
  <2>3. /\ call' \in ListingsCall /\ call'.pc = "listings" /\ call'.since = call.since
        /\ call'.party = call.party /\ call'.found = found /\ call'.listings = call.listings
        /\ call'.purchases = ps
    <3>1. call \in ListingsCall /\ ps \in Seq(Slot) /\ found \in SUBSET Notices
      BY <1>2, <1>3, <2>1
    <3> QED  BY <1>6, <3>1 DEF ListingsCall
  <2>4. Covered(call.since, Len(log), call.party, found, call.listings, ps)
    <3>1. Covered(call.since, Len(log), call.party, call.found, call.listings, call.purchases)
      BY <1>1 DEF NoticesSound
    <3> SUFFICES ASSUME NEW x \in Slot, ~HasData(Len(log), x)
                 PROVE  /\ Sells(call.since, call.party, x) /\ Always(call.since, Len(log), x, "created") =>
                             Notice("seller_listing_purchased", x) \in found \/ Has(call.listings, x[1])
                        /\ Sells(call.since, call.party, x) /\ Always(call.since, Len(log), x, "finalized") =>
                             Notice("seller_review_received", x) \in found \/ Has(call.listings, x[1])
                        /\ Buys(call.since, call.party, x) /\ Always(call.since, Len(log), x, "accepted") =>
                             Notice("buyer_listing_shipped", x) \in found \/ Has(ps, x)
      BY DEF Covered
    <3>2. /\ Sells(call.since, call.party, x) /\ Always(call.since, Len(log), x, "created") =>
               Notice("seller_listing_purchased", x) \in call.found \/ Has(call.listings, x[1])
          /\ Sells(call.since, call.party, x) /\ Always(call.since, Len(log), x, "finalized") =>
               Notice("seller_review_received", x) \in call.found \/ Has(call.listings, x[1])
          /\ Buys(call.since, call.party, x) /\ Always(call.since, Len(log), x, "accepted") =>
               Notice("buyer_listing_shipped", x) \in call.found \/ Has(call.purchases, x)
      BY <3>1 DEF Covered
    <3>3. ASSUME x = y, Always(call.since, Len(log), x, "accepted")
          PROVE  Notice("buyer_listing_shipped", x) \in found
      <4>1. call.since \in 0 .. Len(log)
        BY <1>2
      <4>2. ListedStatus(x) = "accepted"
        BY <1>2, <3>3, <4>1, AlwaysNow
      <4> QED  BY <2>2, <3>3, <4>2, BuyerNoticesAre
    <3>4. Has(call.purchases, x) <=> x = y \/ Has(ps, x)
      BY <1>3
    <3> QED  BY <2>2, <3>2, <3>3, <3>4
  <2>5. Covered(call.since, Len(log), call.party, call.found, call.listings, call.purchases)'
    BY <1>1, <2>3, <2>4, CoveredNow
  <2> QED  BY <1>1, <1>2, <2>3, <2>5 DEF CallFits, NoticesSound
<1> QED  BY <1>4, <1>5, <1>6

LEMMA StartChecksCovers ==
  ASSUME RecordsFit, CallFits, NoticesSound, StartChecks
  PROVE  CallFits' /\ NoticesSound'
<1>1. /\ call.pc = "listings" /\ call.listings = <<>> /\ call.purchases = <<>> /\ log' = log
      /\ call' = [pc |-> "checks", since |-> call.since, until |-> Len(log),
                  party |-> call.party, found |-> call.found, pending |-> call.found,
                  invalid |-> {}, returned |-> {}]
  BY DEF StartChecks, logVars
<1>2. /\ call.since \in Nat /\ call.since <= Len(log) /\ Len(log) \in Nat
      /\ call.found \in SUBSET Notices /\ call.party \in Account
  BY <1>1 DEF CallFits, ListingsCall, RecordsFit
<1>3. /\ call' \in ChecksCall /\ call'.pc = "checks" /\ call'.since = call.since
      /\ call'.until = Len(log) /\ call'.party = call.party /\ call'.found = call.found
  BY <1>1, <1>2 DEF ChecksCall
<1>4. Covered(call.since, Len(log), call.party, call.found, <<>>, <<>>)
  BY <1>1 DEF NoticesSound
<1>5. Covered(call.since, call.until, call.party, call.found, <<>>, <<>>)'
  BY <1>1, <1>3, <1>4, CoveredNow
<1> QED  BY <1>1, <1>2, <1>3, <1>5 DEF CallFits, NoticesSound

LEMMA EndCheckCovers ==
  ASSUME RecordsFit, CallFits, NoticesSound, call.pc = "checks",
         NEW notice \in call.pending, EndCheck(notice)
  PROVE  CallFits' /\ NoticesSound'
<1>1. /\ call \in ChecksCall /\ call.since <= call.until /\ call.until <= Len(log)
      /\ call.pending \in SUBSET Notices /\ call.invalid \in SUBSET Notices
      /\ call.returned \in SUBSET Notices /\ log' = log
  BY DEF CallFits, ChecksCall, EndCheck, logVars
<1>2. \E pending, invalid, returned \in SUBSET Notices :
        call' = [call EXCEPT !.pending = pending, !.invalid = invalid, !.returned = returned]
  <2> DEFINE invalid == IF /\ OfferStatus(offers[notice.slot], Len(log), notice.slot) = "created"
                           /\ ~Suits(Asked, offers[notice.slot])
                        THEN call.invalid \cup {notice}
                        ELSE call.invalid
             pending == call.pending \ {notice}
             returned == IF invalid = {} THEN call.returned \cup {notice} ELSE call.returned
  <2>1. call' = [call EXCEPT !.pending = pending, !.invalid = invalid, !.returned = returned]
    BY DEF EndCheck
  <2>2. invalid \in SUBSET Notices
    BY <1>1
  <2> HIDE DEF invalid
  <2>3. pending \in SUBSET Notices /\ returned \in SUBSET Notices
    BY <1>1
  <2> QED  BY <2>1, <2>2, <2>3
<1>3. /\ call' \in ChecksCall /\ call'.pc = "checks" /\ call'.since = call.since
      /\ call'.until = call.until /\ call'.party = call.party /\ call'.found = call.found
  <2>1. PICK pending, invalid, returned \in SUBSET Notices :
          call' = [call EXCEPT !.pending = pending, !.invalid = invalid, !.returned = returned]
    BY <1>2
  <2>2. call \in ChecksCall
    BY <1>1
  <2> QED  BY <2>1, <2>2 DEF ChecksCall
<1>4. Covered(call.since, call.until, call.party, call.found, <<>>, <<>>)
  BY DEF NoticesSound
<1>5. Covered(call.since, call.until, call.party, call.found, <<>>, <<>>)'
  BY <1>1, <1>3, <1>4, CoveredNow
<1> QED  BY <1>1, <1>3, <1>5 DEF CallFits, NoticesSound

-----------------------------------------------------------------------------
(* getOffers.                                                                *)

\* The i-th event says that the buyer made an offer on the listing.
Asks(l, buyer, i) ==
  log[i].name = "OfferCreated" /\ log[i].listing = l /\ buyer \in {NullAddr, log[i].party}

\* The offers made before the call are loaded, lost or still to come.
LoadsSound ==
  call.pc = "loads" =>
    \A i \in 1 .. call.since : Asks(call.listing, call.buyer, i) =>
      <<log[i].listing, log[i].offer>> \in call.pending \cup call.lost \cup call.returned

LEMMA LoadsComplete ==
  ASSUME LoadsSound
  PROVE  OffersComplete
BY DEF LoadsSound, OffersComplete, Asks

LEMMA LoadsGrow ==
  ASSUME log \in Seq(Entry), log' \in Seq(Entry), Grows, UNCHANGED call, CallFits, LoadsSound
  PROVE  LoadsSound'
<1> SUFFICES ASSUME call.pc = "loads"
             PROVE  \A i \in 1 .. call.since : Asks(call.listing, call.buyer, i)' =>
                      <<log'[i].listing, log'[i].offer>> \in
                        call.pending \cup call.lost \cup call.returned
  BY DEF LoadsSound, Asks
<1>1. call.since \in Nat /\ call.since <= Len(log) /\ Len(log) \in Nat
  BY DEF CallFits, LoadsCall
<1>2. \A i \in 1 .. call.since : log'[i] = log[i]
  BY <1>1 DEF Grows
<1> QED  BY <1>2 DEF LoadsSound, Asks

LEMMA ReadOfferIdsLoads ==
  ASSUME RecordsFit, NEW l \in ListingId, NEW buyer \in Party, ReadOfferIds(l, buyer)
  PROVE  /\ call'.pc = "loads"
         /\ CallFits' /\ LoadsSound'
<1> DEFINE made(e) == /\ e.name = "OfferCreated"
                      /\ e.listing = l
                      /\ buyer \in {NullAddr, e.party}
           found == {<<l, log[i].offer>> : i \in {i \in DOMAIN log : made(log[i])}}
<1>1. /\ log' = log
      /\ call' = [pc |-> "loads", since |-> Len(log), listing |-> l, buyer |-> buyer,
                  pending |-> found, lost |-> {}, returned |-> {}]
  BY DEF ReadOfferIds, logVars
<1>2. /\ log \in Seq(Entry) /\ Len(log) \in Nat /\ DOMAIN log = 1 .. Len(log)
      /\ \A i \in DOMAIN log : log[i] \in Entry
  BY LenProperties, ElementOfSeq DEF RecordsFit
<1>3. found \in SUBSET Slot
  BY <1>2 DEF Entry, OfferEvent, Slot
<1>4. \A i \in 1 .. Len(log) : Asks(l, buyer, i) => <<log[i].listing, log[i].offer>> \in found
  BY <1>2 DEF Asks
<1> HIDE DEF found
<1>5. call' \in LoadsCall /\ call'.pc = "loads" /\ call'.since = Len(log)
  BY <1>1, <1>2, <1>3 DEF LoadsCall
<1>6. LoadsSound'
  BY <1>1, <1>4 DEF LoadsSound, Asks
<1> QED  BY <1>1, <1>2, <1>5, <1>6 DEF CallFits

LEMMA EndLoadLoads ==
  ASSUME RecordsFit, CallFits, LoadsSound, NEW x \in Slot, NEW ok \in BOOLEAN, EndLoad(x, ok)
  PROVE  /\ call'.pc = "loads"
         /\ CallFits' /\ LoadsSound'
<1>1. call.pc = "loads" /\ log' = log
  BY DEF EndLoad, logVars
<1>2. /\ call \in LoadsCall /\ call.since \in Nat /\ call.since <= Len(log)
      /\ call.pending \in SUBSET Slot /\ call.lost \in SUBSET Slot /\ call.returned \in SUBSET Slot
  BY <1>1 DEF CallFits, LoadsCall
<1> DEFINE pending == call.pending \ {x}
           lost == IF ok THEN call.lost ELSE call.lost \cup {x}
           returned == IF ok THEN call.returned \cup {x} ELSE call.returned
<1>3. call' = [call EXCEPT !.pending = pending, !.lost = lost, !.returned = returned]
  BY DEF EndLoad
<1>4. /\ pending \in SUBSET Slot /\ lost \in SUBSET Slot /\ returned \in SUBSET Slot
      /\ call.pending \cup call.lost \cup call.returned = pending \cup lost \cup returned
  <2>1. call.pending \subseteq pending \cup lost \cup returned
    BY <1>2
  <2>2. x \in call.pending
    BY DEF EndLoad
  <2> QED  BY <1>2, <2>1, <2>2
<1> HIDE DEF pending, lost, returned
<1>5. /\ call' \in LoadsCall /\ call'.pc = "loads" /\ call'.since = call.since
      /\ call'.listing = call.listing /\ call'.buyer = call.buyer
      /\ call'.pending = pending /\ call'.lost = lost /\ call'.returned = returned
  BY <1>2, <1>3, <1>4 DEF LoadsCall
<1>6. LoadsSound'
  BY <1>1, <1>4, <1>5 DEF LoadsSound, Asks
<1> QED  BY <1>1, <1>2, <1>5, <1>6 DEF CallFits

-----------------------------------------------------------------------------
(* All three together.                                                       *)

CallSound == CallFits /\ NoticesSound /\ LoadsSound

LEMMA OtherPc ==
  /\ call'.pc \notin {"listings", "checks", "loads"} => CallSound'
  /\ call'.pc = "loads" => NoticesSound'
  /\ call'.pc # "loads" => LoadsSound'
BY DEF CallSound, CallFits, NoticesSound, LoadsSound

LEMMA OfferReadPc ==
  ASSUME OfferRead
  PROVE  call'.pc \in {"events", "got"}
BY DEF OfferRead, ReadRecord, ReadEvents

LEMMA NotificationReadPc ==
  ASSUME CallFits, NotificationRead
  PROVE  call'.pc \in {"listings", "checks", "failed"}
<1>1. CASE ReadOwnListing
  <2>1. call \in ListingsCall
    BY <1>1 DEF ReadOwnListing, CallFits
  <2>2. call'.pc = call.pc
    BY <1>1, <2>1 DEF ReadOwnListing, ListingsCall
  <2> QED  BY <1>1, <2>2 DEF ReadOwnListing
<1>2. CASE ReadPurchase
  <2>1. call \in ListingsCall
    BY <1>2 DEF ReadPurchase, CallFits
  <2>2. call'.pc \in {call.pc, "failed"}
    BY <1>2, <2>1 DEF ReadPurchase, ListingsCall
  <2> QED  BY <1>2, <2>2 DEF ReadPurchase
<1>3. CASE call.pc = "checks" /\ \E notice \in call.pending : EndCheck(notice)
  <2>1. call \in ChecksCall
    BY <1>3 DEF CallFits
  <2>2. call'.pc = call.pc
    BY <1>3, <2>1 DEF EndCheck, ChecksCall
  <2> QED  BY <1>3, <2>2
<1> QED  BY <1>1, <1>2, <1>3 DEF NotificationRead, ReadPartyEvents, StartChecks

LEMMA CallSoundStep ==
  ASSUME RecordsFit, CallSound, [AdapterNext]_adapterVars
  PROVE  CallSound'
<1>0. CallFits /\ NoticesSound /\ LoadsSound
  BY DEF CallSound
<1>1. log \in Seq(Entry) /\ log' \in Seq(Entry) /\ Grows
  BY AdapterStep, StepFits DEF RecordsFit
<1>2. CASE UNCHANGED call
  BY <1>0, <1>1, <1>2, CallWaits, LoadsGrow DEF CallSound
<1>3. CASE OfferRead
  BY <1>3, OfferReadPc, OtherPc
<1>4. CASE NotificationRead
  <2>1. LoadsSound'
    BY <1>0, <1>4, NotificationReadPc, OtherPc
  <2>2. CallFits' /\ NoticesSound'
    BY <1>0, <1>4, ReadPartyCovers, ReadOwnListingCovers, ReadPurchaseCovers,
       StartChecksCovers, EndCheckCovers DEF NotificationRead
  <2> QED  BY <2>1, <2>2 DEF CallSound
<1>5. CASE OffersRead
  <2>1. call'.pc = "loads" /\ CallFits' /\ LoadsSound'
    BY <1>0, <1>5, ReadOfferIdsLoads, EndLoadLoads DEF OffersRead
  <2> QED  BY <2>1, OtherPc DEF CallSound
<1> QED  BY <1>2, <1>3, <1>4, <1>5 DEF AdapterNext, ChainStep, adapterVars

LEMMA AdapterCallSound == AdapterSpec => []CallSound
<1>1. AdapterInit => CallSound
  BY DEF AdapterInit, Idle, CallSound, CallFits, NoticesSound, LoadsSound
<1>2. RecordsFit /\ CallSound /\ [AdapterNext]_adapterVars => CallSound'
  BY CallSoundStep
<1> QED  BY <1>1, <1>2, AdapterFits, PTL DEF AdapterSpec, AdapterNext

\* What stays true of an offer all through getNotifications is among the
\* notifications found, whatever happens on the chain between its requests.
THEOREM NothingIsMissed == AdapterSpec => []NothingMissed
<1>1. CallSound => NothingMissed
  BY CoveredMissesNothing DEF CallSound
<1> QED  BY <1>1, AdapterCallSound, PTL

\* getOffers answers with every offer the buyer had made on the listing before
\* the call, those excepted whose own load failed.
THEOREM OffersAreComplete == AdapterSpec => []OffersComplete
<1>1. CallSound => OffersComplete
  BY LoadsComplete DEF CallSound
<1> QED  BY <1>1, AdapterCallSound, PTL

-----------------------------------------------------------------------------
(* getOffer.                                                                 *)

\* The record shows what the first n events tell of the offer at x.
Shows(record, n, x) ==
  \E i \in Mentions(MoveNames, n, x) :
    /\ \A j \in Mentions(MoveNames, n, x) : j <= i
    /\ record.status = MovesTo[log[i].name]

\* While the call waits for the events, the record it has is the one that the
\* events up to the first request tell of.
ReadSound ==
  /\ call.pc = "events" =>
       /\ call.since \in 0 .. Len(log)
       /\ call.slot \in Slot
       /\ Shows(call.record, call.since, call.slot)
  /\ call.pc = "got" =>
       /\ call.since \in 0 .. Len(log)
       /\ call.until \in call.since .. Len(log)
  /\ StatusTimely

LEMMA ReadSoundGrows ==
  ASSUME log \in Seq(Entry), log' \in Seq(Entry), Grows, UNCHANGED call, ReadSound
  PROVE  ReadSound'
<1>0. Len(log) \in Nat /\ Len(log') \in Nat /\ Len(log) <= Len(log')
  BY DEF Grows
<1>1. ASSUME call.pc = "events"
      PROVE  /\ call.since \in 0 .. Len(log')
             /\ call.slot \in Slot
             /\ Shows(call.record, call.since, call.slot)'
  <2> DEFINE n == call.since
             M == Mentions(MoveNames, n, call.slot)
  <2>1. n \in 0 .. Len(log) /\ n \in Nat /\ call.slot \in Slot
    BY <1>0, <1>1 DEF ReadSound
  <2>2. PICK i \in M : (\A j \in M : j <= i) /\ call.record.status = MovesTo[log[i].name]
    BY <1>1 DEF ReadSound, Shows
  <2>3. \A m \in 0 .. Len(log) : Mentions(MoveNames, m, call.slot)' = Mentions(MoveNames, m, call.slot)
    BY MentionsGrow
  <2>4. i \in 1 .. n
    BY <2>1, <2>2, MentionsIn
  <2>5. log'[i] = log[i]
    BY <1>0, <2>1, <2>4 DEF Grows
  <2>6. M' = M
    BY <2>1, <2>3
  <2> HIDE DEF M
  <2>7. i \in M' /\ (\A j \in M' : j <= i) /\ call'.record.status = MovesTo[log'[i].name]
    BY <2>2, <2>5, <2>6
  <2>8. Shows(call.record, call.since, call.slot)'
    BY <2>7 DEF Shows, M, MovesTo
  <2> QED  BY <1>0, <2>1, <2>8
<1>2. ASSUME call.pc = "got"
      PROVE  /\ call.since \in 0 .. Len(log')
             /\ call.until \in call.since .. Len(log')
  <2>1. call.since \in 0 .. Len(log) /\ call.until \in call.since .. Len(log)
    BY <1>2 DEF ReadSound
  <2> QED  BY <1>0, <2>1
<1>3. ASSUME call.pc = "got", ~HasData(call.until, call.slot)'
      PROVE  \E n \in call.since .. call.until : TrueStatus(n, call.slot)' = call.status
  <2>1. call.since \in 0 .. Len(log) /\ call.until \in call.since .. Len(log)
    BY <1>3 DEF ReadSound
  <2>2. call.until \in 0 .. Len(log)
    BY <1>0, <2>1
  <2>3. ~HasData(call.until, call.slot)
    <3>1. PICK n, x : n = call.until /\ x = call.slot
      OBVIOUS
    <3>2. Mentions({"OfferData"}, n, x)' = Mentions({"OfferData"}, n, x)
      BY <2>2, <3>1, MentionsGrow
    <3> QED  BY <1>3, <3>1, <3>2 DEF HasData, Mentions
  <2>4. PICK n \in call.since .. call.until : TrueStatus(n, call.slot) = call.status
    BY <1>3, <2>3 DEF ReadSound, StatusTimely
  <2>5. n \in 0 .. Len(log)
    BY <1>0, <2>1
  <2>6. TrueStatus(n, call.slot)' = TrueStatus(n, call.slot)
    BY <2>5, LastInStands DEF TrueStatus, MovedBy
  <2> QED  BY <2>4, <2>6
<1> QED  BY <1>1, <1>2, <1>3 DEF ReadSound, StatusTimely

\* What the status of a record that waits for its end is called.
LEMMA StatusNames ==
  \A name \in MoveNames \ Terminal :
    OFFER_STATUS[MovesTo[name] + 1] = MovedBy[name]
BY DEF OFFER_STATUS, MovesTo, MovedBy, MoveNames, Terminal

\* What ReadEvents reports without data attached, was true at one of its ends.
LEMMA ReportTrue ==
  ASSUME log \in Seq(Entry), NEW x \in Slot, History(x), NEW record, NEW s \in 0 .. Len(log),
         Shows(record, s, x), ~HasData(Len(log), x)
  PROVE  \E n \in s .. Len(log) : TrueStatus(n, x) = OfferStatus(record, Len(log), x)
<1> DEFINE u == Len(log)
           ends == Mentions(Terminal, u, x)
           moves(n) == Mentions(MoveNames, n, x)
<1>0. u \in Nat /\ s \in Nat /\ s <= u
  OBVIOUS
<1>1. Mentions(DOMAIN Overrides, u, x) = ends
  BY OverridesAre DEF Mentions, HasData
<1>2. CASE ends # {}
  <2>1. PICK i \in ends : \A j \in ends : j <= i
    BY <1>0, <1>2, LastMention
  <2>2. i \in moves(u) /\ \A j \in moves(u) : j <= i
    BY TerminalIs DEF History, Mentions
  <2>3. log[i].name \in Terminal
    BY DEF Mentions
  <2>4. OfferStatus(record, u, x) = Overrides[log[i].name]
    <3>1. i \in Mentions(DOMAIN Overrides, u, x) /\ \A j \in Mentions(DOMAIN Overrides, u, x) : j <= i
      BY <1>1, <2>1
    <3>2. \A default : LastIn(Overrides, u, x, default) = Overrides[log[i].name]
      BY <1>0, <3>1, LastTold
    <3> QED  BY <3>2 DEF OfferStatus
  <2>5. TrueStatus(u, x) = MovedBy[log[i].name]
    <3>1. i \in Mentions(DOMAIN MovedBy, u, x) /\ \A j \in Mentions(DOMAIN MovedBy, u, x) : j <= i
      BY <2>2, OverridesAre
    <3> QED  BY <1>0, <3>1, LastTold DEF TrueStatus
  <2>6. TrueStatus(u, x) = OfferStatus(record, u, x)
    BY <2>3, <2>4, <2>5, OverridesAre
  <2> QED  BY <1>0, <2>6
<1>3. CASE ends = {}
  <2>1. PICK i \in moves(s) : (\A j \in moves(s) : j <= i) /\ record.status = MovesTo[log[i].name]
    BY DEF Shows
  <2>2. i \in 1 .. s /\ OnOffer(log[i], x) /\ log[i].name \in MoveNames
    BY DEF Mentions
  <2>3. i \in 1 .. u
    BY <1>0, <2>2
  <2>4. log[i].name \notin Terminal
    BY <1>3, <2>2, <2>3 DEF Mentions
  <2>5. OfferStatus(record, u, x) = OFFER_STATUS[record.status + 1]
    BY <1>1, <1>3, NothingTold DEF OfferStatus
  <2>6. TrueStatus(s, x) = MovedBy[log[i].name]
    <3>1. i \in Mentions(DOMAIN MovedBy, s, x) /\ \A j \in Mentions(DOMAIN MovedBy, s, x) : j <= i
      BY <2>1, OverridesAre
    <3> QED  BY <1>0, <3>1, LastTold DEF TrueStatus
  <2>7. TrueStatus(s, x) = OfferStatus(record, u, x)
    BY <2>1, <2>2, <2>4, <2>5, <2>6, StatusNames
  <2> QED  BY <1>0, <2>7
<1> QED  BY <1>2, <1>3

LEMMA ReadRecordSound ==
  ASSUME RecordsFit, Histories, NEW x \in Slot, ReadRecord(x)
  PROVE  ReadSound'
<1>1. /\ x[2] < totalOffers[x[1]] /\ log' = log
      /\ call' = [pc |-> "events", since |-> Len(log), slot |-> x, record |-> offers[x]]
  BY DEF ReadRecord, logVars
<1>2. log \in Seq(Entry) /\ Len(log) \in Nat /\ History(x)
  BY DEF RecordsFit, Histories
<1>3. Mentions(MoveNames, Len(log), x) # {}
  BY <1>1, <1>2 DEF History, Mentions, MoveNames
<1>4. PICK i \in Mentions(MoveNames, Len(log), x) :
             \A j \in Mentions(MoveNames, Len(log), x) : j <= i
  BY <1>2, <1>3, LastMention
<1>5. offers[x].status = MovesTo[log[i].name]
  BY <1>2, <1>4 DEF History
<1>6. Shows(offers[x], Len(log), x)
  BY <1>4, <1>5 DEF Shows
<1>7. /\ call'.pc = "events" /\ call'.since = Len(log) /\ call'.slot = x
      /\ call'.record = offers[x]
  BY <1>1
<1>8. Shows(call.record, call.since, call.slot)'
  BY <1>1, <1>6, <1>7 DEF Shows, Mentions, OnOffer, MovesTo
<1> QED  BY <1>1, <1>2, <1>7, <1>8 DEF ReadSound, StatusTimely

LEMMA ReadEventsSound ==
  ASSUME RecordsFit, Histories, ReadSound, ReadEvents
  PROVE  ReadSound'
<1> DEFINE x == call.slot
           s == call.since
           status == OfferStatus(call.record, Len(log), x)
<1>1. /\ call.pc = "events" /\ log' = log
      /\ call'.pc = "got" /\ call'.since = s /\ call'.until = Len(log) /\ call'.slot = x
      /\ call'.status = status
  BY DEF ReadEvents, logVars
<1>2. log \in Seq(Entry) /\ s \in 0 .. Len(log) /\ x \in Slot /\ Shows(call.record, s, x)
  BY <1>1 DEF ReadSound, RecordsFit
<1>3. History(x)
  BY <1>2 DEF Histories
<1> HIDE DEF x, s
<1>4. ~HasData(Len(log), x) => \E n \in s .. Len(log) : TrueStatus(n, x) = status
  BY <1>2, <1>3, ReportTrue
<1>5. HasData(call.until, call.slot)' <=> HasData(Len(log), x)
  BY <1>1 DEF HasData, Mentions, OnOffer
<1>6. \A n : TrueStatus(n, call.slot)' = TrueStatus(n, x)
  BY <1>1 DEF TrueStatus, LastIn, Mentions, OnOffer, MovedBy, Latest
<1>7. StatusTimely'
  BY <1>1, <1>4, <1>5, <1>6 DEF StatusTimely
<1>8. Len(log) \in s .. Len(log)
  BY <1>2
<1> QED  BY <1>1, <1>2, <1>7, <1>8 DEF ReadSound

\* Any other step begins or ends a call of another kind.
LEMMA NoRead ==
  ASSUME call'.pc \notin {"events", "got"}
  PROVE  ReadSound'
BY DEF ReadSound, StatusTimely

LEMMA PlainCalls ==
  ASSUME CallFits, NotificationRead \/ OffersRead
  PROVE  call'.pc \notin {"events", "got"}
<1>1. CASE NotificationRead
  BY <1>1, NotificationReadPc
<1>2. CASE OffersRead
  <2>1. CASE \E l \in ListingId, buyer \in Party : ReadOfferIds(l, buyer)
    BY <2>1 DEF ReadOfferIds
  <2>2. CASE \E x \in Slot, ok \in BOOLEAN : EndLoad(x, ok)
    <3>1. call \in LoadsCall /\ call.pc = "loads"
      BY <2>2 DEF EndLoad, CallFits
    <3> QED  BY <2>2, <3>1 DEF EndLoad, LoadsCall
  <2> QED  BY <1>2, <2>1, <2>2 DEF OffersRead
<1> QED  BY <1>1, <1>2

LEMMA ReadSoundStep ==
  ASSUME RecordsFit, Histories, CallFits, ReadSound, [AdapterNext]_adapterVars
  PROVE  ReadSound'
<1>1. log \in Seq(Entry) /\ log' \in Seq(Entry) /\ Grows
  BY AdapterStep, StepFits DEF RecordsFit
<1>2. CASE UNCHANGED call
  BY <1>1, <1>2, ReadSoundGrows
<1>3. CASE \E x \in Slot : ReadRecord(x)
  BY <1>3, ReadRecordSound
<1>4. CASE ReadEvents
  BY <1>4, ReadEventsSound
<1>5. CASE call'.pc \notin {"events", "got"}
  BY <1>5, NoRead
<1> QED  BY <1>2, <1>3, <1>4, <1>5, PlainCalls DEF AdapterNext, ChainStep, OfferRead, adapterVars

LEMMA AdapterReadSound == KeepsMoves => (AdapterSpec => []ReadSound)
<1> SUFFICES ASSUME KeepsMoves PROVE AdapterSpec => []ReadSound
  OBVIOUS
<1>1. AdapterInit => ReadSound
  BY DEF AdapterInit, Idle, ReadSound, StatusTimely
<1>2. RecordsFit /\ Histories /\ CallSound /\ ReadSound /\ [AdapterNext]_adapterVars => ReadSound'
  BY ReadSoundStep DEF CallSound
<1> QED  BY <1>1, <1>2, AdapterFits, AdapterHistories, AdapterCallSound, PTL
         DEF AdapterSpec, AdapterNext

\* Without data attached to the offer, getOffer reports a status that it had at
\* some moment of the call.
THEOREM StatusIsTimely == KeepsMoves => (AdapterSpec => []StatusTimely)
<1>1. ReadSound => StatusTimely
  BY DEF ReadSound
<1> QED  BY <1>1, AdapterReadSound, PTL

-----------------------------------------------------------------------------
(* The client's writes.  Every step of a call is a step of the contract too.  *)

ClientNext ==
  \/ OthersStep
  \/ OfferRead
  \/ ListingWrite
  \/ \E from \in Account : StartAccept(from)
  \/ SendAccept
  \/ OtherWrite
  \/ ReviewsRead
  \/ ListingsRead
  \/ Fail

StoringCall == [pc : {"storing"}, arbitrator : Arbitrators, commission : {0, Commission}]

ListingCall == [pc : {"listing"}, from : Account, commission : Nat, manager : Party]

AcceptingCall == [pc : {"accepting"}, from : Account, slot : Slot, shown : Offer]

ReviewsCall == [pc : {"reviews"}, listing : ListingId, returned : Seq(Entry), pending : Seq(Entry)]

LoadingCall == [pc : {"loading"}, ids : SUBSET ListingId, pending : SUBSET ListingId]

WriteFits ==
  /\ call.pc = "storing" => call \in StoringCall
  /\ call.pc = "listing" => call \in ListingCall
  /\ call.pc = "events" => call.slot \in Slot /\ call.record \in Offer
  /\ call.pc = "got" => call.slot \in Slot /\ call.terms \in Offer
  /\ call.pc = "accepting" => call \in AcceptingCall
  /\ call.pc = "reviews" => call \in ReviewsCall
  /\ call.pc = "loading" => call \in LoadingCall

LEMMA SendListingStep ==
  ASSUME RecordsFit, WriteFits, SendListing
  PROVE  Step
<1>1. call.from \in Account /\ call.commission \in Nat /\ call.manager \in Party
  BY DEF SendListing, WriteFits, ListingCall
<1>2. PICK d \in Nat : CreateListingFor(call.from, d, call.manager)
  BY <1>1 DEF SendListing, ViaToken, createListing, createListingWithSender
<1>3. EmitListing("ListingCreated", call.from, totalListings)
  BY DEF SendListing
<1> QED  BY <1>1, <1>2, <1>3, CreateListingStep

LEMMA SendAcceptStep ==
  ASSUME RecordsFit, WriteFits, SendAccept
  PROVE  Step
<1>1. call.from \in Account /\ call.slot \in Slot
  BY DEF SendAccept, WriteFits, AcceptingCall
<1>2. acceptOffer(call.from, call.slot) /\ EmitOffer("OfferAccepted", call.from, call.slot)
  BY DEF SendAccept
<1> QED  BY <1>1, <1>2, AcceptOfferStep

LEMMA OtherWriteStep ==
  ASSUME RecordsFit, OtherWrite
  PROVE  Step
<1>1. PICK from \in Account : OtherCall(from)
  BY DEF OtherWrite
<1>2. from \in Party
  BY DEF Party
<1>3. ASSUME NEW l \in ListingId, SendWithdrawal(from, l)
      PROVE  Step
  BY <1>2, <1>3, WithdrawListingStep DEF SendWithdrawal
<1>4. ASSUME NEW l \in ListingId, NEW t \in Terms, SendOffer(from, l, t)
      PROVE  Step
  BY <1>4, MakeOfferStep DEF SendOffer
<1>5. ASSUME NEW x \in Slot, SendOnOffer(from, x)
      PROVE  Step
  <2>1. ASSUME NEW ruling \in 0 .. 3, NEW refund \in Amounts,
               executeRuling(from, x, ruling % 2 = 1, ruling >= 2, refund),
               EmitOffer("OfferRuling", from, x)
        PROVE  Step
    <3>1. refund \in Nat
      BY InputAssumption
    <3> QED  BY <1>2, <2>1, <3>1, ExecuteRulingStep
  <2> QED  BY <1>5, <2>1, WithdrawOfferStep, FinalizeStep, DisputeStep, OfferDataStep
           DEF SendOnOffer, SendData
<1> QED  BY <1>1, <1>3, <1>4, <1>5 DEF OtherCall

LEMMA ClientReadsOnly ==
  ASSUME \/ OfferRead
         \/ \E arbitrator \in Arbitrators, commission \in {0, Commission} :
              StoreListing(arbitrator, commission)
         \/ \E from \in Account : StartListing(from)
         \/ ReadReceipt
         \/ \E first, last \in 1 .. MaxLog : ReadBlock(first, last)
         \/ \E from \in Account : StartAccept(from)
         \/ ReviewsRead
         \/ ListingsRead
         \/ Fail
  PROVE  UNCHANGED logVars
BY DEF OfferRead, ReadRecord, ReadEvents, StoreListing, StartListing, ReadReceipt, ReadBlock,
   StartAccept, ReviewsRead, ReadReviewEvents, LoadReview, NoReview, ListingsRead,
   ReadListingIds, LoadListing, Fail

LEMMA ClientStep ==
  ASSUME RecordsFit, WriteFits, [ClientNext]_adapterVars
  PROVE  Step
<1>1. CASE LogNext
  BY <1>1, LogStep
<1>2. CASE UNCHANGED logVars
  BY <1>2, StutterStep
<1> QED  BY <1>1, <1>2, SendListingStep, SendAcceptStep, OtherWriteStep, ClientReadsOnly
         DEF ClientNext, OthersStep, ListingWrite, adapterVars

\* The step of a call that nobody else's step comes with.
OwnStep ==
  \/ OfferRead
  \/ ListingWrite
  \/ \E from \in Account : StartAccept(from)
  \/ SendAccept
  \/ OtherWrite
  \/ ReviewsRead
  \/ ListingsRead
  \/ Fail

LEMMA ClientSteps ==
  ASSUME [ClientNext]_adapterVars
  PROVE  UNCHANGED call \/ OwnStep
BY DEF ClientNext, OwnStep, OthersStep, adapterVars

LEMMA IdsAre ==
  ASSUME RecordsFit, NEW query \in {"purchasesFor", "listingsFor", "all"}, NEW party
  PROVE  IdsOf(query, party) \in SUBSET ListingId
<1>1. ASSUME NEW s \in Seq(Entry)  PROVE ListingsIn(s) \in SUBSET ListingId
  <2>1. \A i \in DOMAIN s : s[i] \in Entry
    BY <1>1, LenProperties, ElementOfSeq
  <2> QED  BY <2>1 DEF ListingsIn, Entry, Event
<1>2. By(party, "OfferCreated") \in Seq(Entry) /\ By(party, "ListingCreated") \in Seq(Entry)
  BY ByIs DEF RecordsFit
<1>3. CASE query = "purchasesFor"
  BY <1>1, <1>2, <1>3 DEF IdsOf
<1>4. CASE query = "listingsFor"
  BY <1>1, <1>2, <1>4 DEF IdsOf
<1>5. CASE query = "all"
  BY <1>5 DEF IdsOf
<1> QED  BY <1>3, <1>4, <1>5

\* The events about a listing that its reviews are looked for in.
ReviewPlaces(l) ==
  {i \in DOMAIN log : log[i].listing = l /\ log[i].name \in ReviewEvent}

LEMMA ReviewPicked ==
  ASSUME RecordsFit, NEW l
  PROVE  /\ Picked(log, ReviewPlaces(l)) \in Seq(Entry)
         /\ \A e : Has(Picked(log, ReviewPlaces(l)), e) => Has(log, e)
<1>1. log \in Seq(Entry)
  BY DEF RecordsFit
<1> DEFINE I == ReviewPlaces(l)
<1> HIDE DEF I
<1>2. /\ Picked(log, I) \in Seq(Entry)
      /\ \A e : Has(Picked(log, I), e) <=> \E i \in 1 .. Len(log) : i \in I /\ log[i] = e
  BY <1>1, PickedIs
<1> QED  BY <1>2 DEF Has, I

LEMMA ListingWriteFits ==
  ASSUME WriteFits, ListingWrite
  PROVE  /\ WriteFits'
         /\ call'.pc \in {"storing", "listing", "mined", "done"}
<1>1. ASSUME NEW arbitrator \in Arbitrators, NEW commission \in {0, Commission},
             StoreListing(arbitrator, commission)
      PROVE  call' \in StoringCall
  BY <1>1 DEF StoreListing, StoringCall
<1>2. ASSUME NEW from \in Account, StartListing(from)
      PROVE  call' \in ListingCall
  <2>1. call.arbitrator \in Party /\ call.commission \in Nat /\ from \in Party
    BY <1>2, ClientAssumption DEF StartListing, WriteFits, StoringCall, Party
  <2> QED  BY <1>2, <2>1 DEF StartListing, ListingCall
<1>3. CASE SendListing
  BY <1>3 DEF SendListing, WriteFits
<1>4. CASE ReadReceipt \/ \E first, last \in 1 .. MaxLog : ReadBlock(first, last)
  <2>1. call'.pc = "done"
    BY <1>4 DEF ReadReceipt, ReadBlock, ListedAs
  <2> QED  BY <2>1 DEF WriteFits
<1>5. call' \in StoringCall \cup ListingCall => WriteFits' /\ call'.pc \in {"storing", "listing"}
  BY DEF WriteFits, StoringCall, ListingCall
<1> QED  BY <1>1, <1>2, <1>3, <1>4, <1>5 DEF ListingWrite, SendListing

LEMMA AcceptFits ==
  ASSUME WriteFits, \/ \E from \in Account : StartAccept(from)
                    \/ SendAccept
  PROVE  /\ WriteFits'
         /\ call'.pc \in {"accepting", "done"}
<1>1. ASSUME NEW from \in Account, StartAccept(from)
      PROVE  call' \in AcceptingCall
  BY <1>1 DEF StartAccept, Answerable, WriteFits, AcceptingCall
<1>2. CASE SendAccept
  <2>1. call \in AcceptingCall /\ call' = [call EXCEPT !.pc = "done"]
    BY <1>2 DEF SendAccept, WriteFits
  <2>2. call'.pc = "done"
    BY <2>1 DEF AcceptingCall
  <2> QED  BY <2>2 DEF WriteFits
<1>3. call' \in AcceptingCall => WriteFits' /\ call'.pc = "accepting"
  BY DEF WriteFits, AcceptingCall
<1> QED  BY <1>1, <1>2, <1>3

LEMMA ReviewsFit ==
  ASSUME RecordsFit, WriteFits, ReviewsRead
  PROVE  /\ WriteFits'
         /\ call'.pc \in {"reviews", "failed"}
<1>1. ASSUME NEW l \in ListingId, ReadReviewEvents(l)
      PROVE  call' \in ReviewsCall
  <2>1. call' = [pc |-> "reviews", listing |-> l, returned |-> <<>>,
                 pending |-> Picked(log, ReviewPlaces(l))]
    BY <1>1 DEF ReadReviewEvents, ReviewPlaces
  <2> DEFINE pending == Picked(log, ReviewPlaces(l))
  <2>2. pending \in Seq(Entry) /\ <<>> \in Seq(Entry)
    BY ReviewPicked
  <2> HIDE DEF pending
  <2> QED  BY <2>1, <2>2 DEF ReviewsCall, pending
<1>2. CASE LoadReview
  <2>1. call \in ReviewsCall /\ call.pending # <<>>
    BY <1>2 DEF LoadReview, WriteFits
  <2>2. /\ call.pending \in Seq(Entry) /\ call.returned \in Seq(Entry)
    BY <2>1 DEF ReviewsCall
  <2> DEFINE pending == Tail(call.pending)
             returned == Append(call.returned, Head(call.pending))
  <2>3. pending \in Seq(Entry) /\ returned \in Seq(Entry)
    BY <2>1, <2>2
  <2>4. call' = [call EXCEPT !.pending = pending, !.returned = returned]
    BY <1>2 DEF LoadReview
  <2> HIDE DEF pending, returned
  <2>5. call' \in ReviewsCall
    BY <2>1, <2>3, <2>4 DEF ReviewsCall
  <2> QED  BY <2>5 DEF WriteFits, ReviewsCall
<1>3. CASE NoReview
  BY <1>3 DEF NoReview, WriteFits
<1>4. call' \in ReviewsCall => WriteFits' /\ call'.pc = "reviews"
  BY DEF WriteFits, ReviewsCall
<1> QED  BY <1>1, <1>2, <1>3, <1>4 DEF ReviewsRead, NoReview

LEMMA ListingsFit ==
  ASSUME RecordsFit, WriteFits, ListingsRead
  PROVE  /\ WriteFits'
         /\ call'.pc \in {"loading", "failed"}
<1>1. ASSUME NEW query \in {"purchasesFor", "listingsFor", "all"}, NEW party \in Account,
             ReadListingIds(query, party)
      PROVE  call' \in LoadingCall
  <2> DEFINE ids == IdsOf(query, party)
  <2>1. ids \in SUBSET ListingId
    BY IdsAre
  <2>2. call' = [pc |-> "loading", ids |-> ids, pending |-> ids]
    BY <1>1 DEF ReadListingIds
  <2> HIDE DEF ids
  <2> QED  BY <2>1, <2>2 DEF LoadingCall
<1>2. ASSUME NEW l \in ListingId, LoadListing(l)
      PROVE  call' \in LoadingCall \/ call'.pc = "failed"
  <2>1. call \in LoadingCall
    BY <1>2 DEF LoadListing, WriteFits
  <2>2. CASE call' = [call EXCEPT !.pending = @ \ {l}]
    BY <2>1, <2>2 DEF LoadingCall
  <2> QED  BY <1>2, <2>2 DEF LoadListing
<1>3. call' \in LoadingCall => WriteFits' /\ call'.pc = "loading"
  BY DEF WriteFits, LoadingCall
<1>4. call'.pc = "failed" => WriteFits'
  BY DEF WriteFits
<1> QED  BY <1>1, <1>2, <1>3, <1>4 DEF ListingsRead

LEMMA WriteFitsStep ==
  ASSUME RecordsFit, WriteFits, [ClientNext]_adapterVars
  PROVE  WriteFits'
<1>1. CASE UNCHANGED call
  BY <1>1 DEF WriteFits
<1>2. CASE OfferRead
  <2>1. ASSUME NEW x \in Slot, ReadRecord(x)
        PROVE  WriteFits'
    <3>1. offers[x] \in Offer
      BY DEF RecordsFit, RecordsTyped
    <3> QED  BY <2>1, <3>1 DEF ReadRecord, WriteFits
  <2>2. CASE ReadEvents
    BY <2>2 DEF ReadEvents, WriteFits
  <2> QED  BY <1>2, <2>1, <2>2 DEF OfferRead
<1>3. CASE OtherWrite
  BY <1>3 DEF OtherWrite, WriteFits
<1>4. CASE Fail
  BY <1>4 DEF Fail, WriteFits
<1> QED  BY <1>1, <1>2, <1>3, <1>4, ClientSteps, ListingWriteFits, AcceptFits, ReviewsFit,
         ListingsFit DEF OwnStep

ClientFits == RecordsFit /\ WriteFits

LEMMA ClientAlwaysFits == ClientSpec => []ClientFits
<1>1. AdapterInit => ClientFits
  BY LogInitFits DEF AdapterInit, Idle, ClientFits, WriteFits
<1>2. ClientFits /\ [ClientNext]_adapterVars => ClientFits'
  BY ClientStep, StepFits, WriteFitsStep DEF ClientFits
<1> QED  BY <1>1, <1>2, PTL DEF ClientSpec, ClientNext

-----------------------------------------------------------------------------
(* createListing.                                                            *)

\* A call that is over takes no step, and nobody's step is looked at any more.
LEMMA NoneAfterDone ==
  ASSUME ClientNext
  PROVE  call.pc # "done"
<1> SUFFICES ASSUME call.pc = "done" PROVE FALSE
  OBVIOUS
<1>1. call # Idle
  BY DEF Idle
<1>2. ~OthersStep
  BY DEF OthersStep, Answerable
<1>3. ~OfferRead
  BY <1>1 DEF OfferRead, ReadRecord, ReadEvents
<1>4. ~ListingWrite
  BY <1>1 DEF ListingWrite, StoreListing, StartListing, SendListing, ReadReceipt, ReadBlock
<1>5. ~SendAccept /\ ~OtherWrite /\ ~Fail /\ ~\E from \in Account : StartAccept(from)
  BY <1>1 DEF SendAccept, OtherWrite, Fail, StartAccept, Answerable
<1>6. ~ReviewsRead
  BY <1>1 DEF ReviewsRead, ReadReviewEvents, LoadReview, NoReview
<1>7. ~ListingsRead
  BY <1>1 DEF ListingsRead, ReadListingIds, LoadListing
<1> QED  BY <1>2, <1>3, <1>4, <1>5, <1>6, <1>7 DEF ClientNext

\* The event at the place own says that the party from created the listing id,
\* and the listing is as it was created.
Owns(own, from, manager, id) ==
  /\ id \in ListingId
  /\ ListingExists(id)
  /\ own \in 1 .. Len(log)
  /\ log[own] = About("ListingCreated", from, id, NoOfferId)
  /\ listings[id].seller = from
  /\ listings[id].depositManager = manager

Owned ==
  /\ call.pc = "mined" =>
       \E id \in ListingId : Owns(call.own, call.from, call.manager, id)
  /\ (call.pc = "done" /\ "id" \in DOMAIN call) =>
       Owns(call.own, call.from, call.manager, call.id)

LEMMA OwnsStands ==
  ASSUME RecordsFit, Step, NEW own, NEW from, NEW manager, NEW id, Owns(own, from, manager, id)
  PROVE  Owns(own, from, manager, id)'
<1>1. Grows /\ log \in Seq(Entry) /\ log' \in Seq(Entry) /\ ListingsStand
      /\ RecordsTyped /\ RecordsTyped'
  BY StepFits DEF RecordsFit, Step
<1>2. id \in Nat /\ totalListings \in Nat /\ totalListings' \in Nat /\ totalListings <= totalListings'
  BY <1>1 DEF Owns, ListingId, RecordsTyped, ListingsStand
<1>3. ListingExists(id)'
  BY <1>2 DEF Owns, ListingExists
<1>4. own \in 1 .. Len(log') /\ log'[own] = log[own]
  BY <1>1 DEF Owns, Grows
<1>5. listings'[id].seller = listings[id].seller
      /\ listings'[id].depositManager = listings[id].depositManager
  BY <1>1 DEF Owns, ListingsStand
<1> QED  BY <1>3, <1>4, <1>5 DEF Owns, About, NoOfferId

LEMMA SendListingOwns ==
  ASSUME RecordsFit, WriteFits, "ListingCreated" \in Kept, SendListing
  PROVE  Owned'
<1>1. /\ call.from \in Account /\ call.from \in Party /\ call.manager \in Party
      /\ log \in Seq(Entry) /\ Len(log) \in Nat
      /\ totalListings \in Nat /\ listings \in [ListingId -> Listing]
  BY DEF SendListing, WriteFits, ListingCall, Party, RecordsFit, RecordsTyped
<1>2. PICK d : CreateListingFor(call.from, d, call.manager)
  BY DEF SendListing, ViaToken, createListing, createListingWithSender
<1>3. PICK id, own, e : /\ id = totalListings /\ own = Len(log) + 1
                        /\ e = About("ListingCreated", call.from, id, NoOfferId)
  OBVIOUS
<1>4. /\ id \in ListingId
      /\ listings'[id].seller = call.from /\ listings'[id].depositManager = call.manager
      /\ ListingExists(id)'
  BY <1>1, <1>2, <1>3, BoundsAssumption DEF CreateListingFor, ListingId, ListingExists
<1>5. e \in Entry /\ e.name = "ListingCreated"
  BY <1>1, <1>3, <1>4, ListingEntry DEF ListingEvent
<1>6. log' = log \o Logged(e)
  BY <1>3 DEF SendListing, EmitListing, Emit
<1>7. own \in Fresh /\ log'[own] = e /\ own \in 1 .. Len(log')
  <2>1. own \in Fresh /\ \A k \in Fresh : log'[k] = e
    BY <1>1, <1>3, <1>5, <1>6, OneLogged
  <2> QED  BY <1>1, <2>1 DEF Fresh
<1>8. /\ call'.pc = "mined" /\ call'.from = call.from /\ call'.manager = call.manager
      /\ call'.own = own
  BY <1>3 DEF SendListing
<1>9. Owns(call.own, call.from, call.manager, id)'
  BY <1>3, <1>4, <1>7, <1>8 DEF Owns, About, NoOfferId
<1> QED  BY <1>4, <1>8, <1>9 DEF Owned

\* The id is read from the own event.
LEMMA ListedAsOwns ==
  ASSUME WriteFits, Owned, UNCHANGED logVars, call.pc = "mined", ListedAs(log[call.own].listing)
  PROVE  Owned'
<1>1. PICK id \in ListingId : Owns(call.own, call.from, call.manager, id)
  BY DEF Owned
<1>2. log[call.own].listing = id
  BY <1>1 DEF Owns, About
<1>3. /\ call'.pc = "done" /\ call'.from = call.from /\ call'.manager = call.manager
      /\ call'.own = call.own /\ call'.id = id
  BY <1>2 DEF ListedAs
<1>4. Owns(call.own, call.from, call.manager, call.id)'
  BY <1>1, <1>3 DEF Owns, logVars, vars, ListingExists, About, NoOfferId
<1> QED  BY <1>3, <1>4 DEF Owned

LEMMA OwnedStep ==
  ASSUME RecordsFit, WriteFits, "ListingCreated" \in Kept, Owned, [ClientNext]_adapterVars
  PROVE  Owned'
<1>0. Step
  BY ClientStep
<1>1. CASE UNCHANGED call
  <2>1. PICK c : c = call
    OBVIOUS
  <2>2. ASSUME NEW id, Owns(c.own, c.from, c.manager, id)
        PROVE  Owns(call.own, call.from, call.manager, id)'
    <3>1. Owns(c.own, c.from, c.manager, id)'
      BY <1>0, <2>2, OwnsStands
    <3> QED  BY <1>1, <2>1, <3>1
  <2>3. call.pc = "mined" => \E id \in ListingId : Owns(call.own, call.from, call.manager, id)'
    BY <2>1, <2>2 DEF Owned
  <2>4. (call.pc = "done" /\ "id" \in DOMAIN call) =>
          Owns(call.own, call.from, call.manager, call.id)'
    <3> SUFFICES ASSUME call.pc = "done", "id" \in DOMAIN call
                 PROVE  Owns(call.own, call.from, call.manager, call.id)'
      OBVIOUS
    <3>1. Owns(c.own, c.from, c.manager, c.id)
      BY <2>1 DEF Owned
    <3>2. Owns(c.own, c.from, c.manager, c.id)'
      BY <1>0, <3>1, OwnsStands
    <3> QED  BY <1>1, <2>1, <3>2
  <2> QED  BY <1>1, <2>3, <2>4 DEF Owned, ListingId
<1>2. CASE SendListing
  BY <1>2, SendListingOwns
<1>3. CASE ReadReceipt \/ \E first, last \in 1 .. MaxLog : ReadBlock(first, last)
  BY <1>3, ListedAsOwns DEF ReadReceipt, ReadBlock
<1>4. CASE SendAccept
  <2>1. call \in AcceptingCall /\ call' = [call EXCEPT !.pc = "done"]
    BY <1>4 DEF SendAccept, WriteFits
  <2>2. call'.pc = "done" /\ "id" \notin DOMAIN call'
    BY <2>1 DEF AcceptingCall
  <2> QED  BY <2>2 DEF Owned
<1>5. CASE OtherWrite
  BY <1>5 DEF OtherWrite, Owned
<1>6. CASE call'.pc \notin {"mined", "done"}
  BY <1>6 DEF Owned
<1>7. (\E arbitrator \in Arbitrators, commission \in {0, Commission} :
         StoreListing(arbitrator, commission)) \/ (\E from \in Account : StartListing(from)) =>
        call'.pc \notin {"mined", "done"}
  BY DEF StoreListing, StartListing
<1>8. (\E from \in Account : StartAccept(from)) \/ Fail => call'.pc \notin {"mined", "done"}
  BY DEF StartAccept, Fail
<1> QED  BY <1>1, <1>2, <1>3, <1>4, <1>5, <1>6, <1>7, <1>8, ClientSteps, OfferReadPc, ReviewsFit,
         ListingsFit DEF OwnStep, ListingWrite

\* The id that createListing returns is the id of the listing its own
\* transaction created, whatever else is in the block and whatever account is
\* selected meanwhile.
THEOREM CreatedIsAlwaysOwn == "ListingCreated" \in Kept => (ClientSpec => []CreatedIsOwn)
<1> SUFFICES ASSUME "ListingCreated" \in Kept PROVE ClientSpec => []CreatedIsOwn
  OBVIOUS
<1>1. AdapterInit => Owned
  BY DEF AdapterInit, Idle, Owned
<1>2. ClientFits /\ Owned /\ [ClientNext]_adapterVars => Owned'
  BY OwnedStep DEF ClientFits
<1>3. Owned => CreatedIsOwn
  BY DEF Owned, Owns, CreatedIsOwn
<1> QED  BY <1>1, <1>2, <1>3, ClientAlwaysFits, PTL DEF ClientSpec, ClientNext

-----------------------------------------------------------------------------
(* acceptOffer.                                                              *)

\* The record of an offer that was made changes with its status only, as long
\* as it waits: none goes back to waiting.
LEMMA CreatedStays ==
  ASSUME RecordsFit, Step, NEW z \in Slot, z[2] < totalOffers[z[1]]
  PROVE  /\ z[2] < totalOffers'[z[1]]
         /\ offers'[z].status = Created => offers'[z] = offers[z]
<1>0. RecordsTyped /\ NoOffer.status # Created
  BY DEF RecordsFit, NoOffer
<1>1. CASE Quiet
  BY <1>1 DEF Quiet
<1>2. ASSUME NEW x \in Slot, NEW e \in Entry, Turn(x, e)
      PROVE  /\ z[2] < totalOffers'[z[1]]
             /\ offers'[z].status = Created => offers'[z] = offers[z]
  BY <1>0, <1>2 DEF Turn, TurnsTo
<1>3. ASSUME NEW l \in ListingId, NEW e \in Entry, Make(l, e)
      PROVE  /\ z[2] < totalOffers'[z[1]]
             /\ offers'[z].status = Created => offers'[z] = offers[z]
  <2>1. z # NextSlot(l) /\ z[2] < totalOffers'[z[1]]
    BY <1>0, <1>3, TakenPlaces DEF Make
  <2> QED  BY <1>3, <2>1 DEF Make
<1>4. ASSUME NEW x \in Slot, NEW d \in Entry, NEW e \in Entry, Replace(x, d, e)
      PROVE  /\ z[2] < totalOffers'[z[1]]
             /\ offers'[z].status = Created => offers'[z] = offers[z]
  <2>1. x[1] \in ListingId
    BY DEF Slot
  <2>2. z # NextSlot(x[1]) /\ z[2] < totalOffers'[z[1]]
    BY <1>0, <1>4, <2>1, TakenPlaces DEF Replace
  <2> QED  BY <1>0, <1>4, <2>2 DEF Replace
<1> QED  BY <1>1, <1>2, <1>3, <1>4 DEF Step

\* The record was read at x; if both it and the offer wait, they are the same.
Still(record, x) ==
  /\ x \in Slot
  /\ record \in Offer
  /\ x[2] < totalOffers[x[1]]
  /\ offers[x].status = Created /\ record.status = Created => offers[x] = record

Waited(record) == record.status = Created /\ Suits(Asked, record)

Shown ==
  /\ call.pc = "events" => Still(call.record, call.slot)
  /\ call.pc = "got" => /\ Still(call.terms, call.slot)
                        /\ Answerable => Waited(call.terms)
  /\ call.pc = "accepting" => Still(call.shown, call.slot) /\ Waited(call.shown)
  /\ AcceptedAsShown

LEMMA StillStands ==
  ASSUME RecordsFit, Step, NEW record, NEW x, Still(record, x)
  PROVE  Still(record, x)'
BY CreatedStays DEF Still

LEMMA CreatedReported ==
  ASSUME log \in Seq(Entry), NEW record \in Offer, NEW x,
         OfferStatus(record, Len(log), x) = "created"
  PROVE  record.status = Created
<1> DEFINE I == Mentions(DOMAIN Overrides, Len(log), x)
<1>1. I = {}
  <2> SUFFICES ASSUME I # {} PROVE FALSE
    OBVIOUS
  <2>1. Len(log) \in Nat /\ I \subseteq 1 .. Len(log)
    BY MentionsIn
  <2>2. Latest(I) \in I
    BY <2>1, LatestIs
  <2>3. log[Latest(I)].name \in DOMAIN Overrides
    BY <2>2 DEF Mentions
  <2>4. OfferStatus(record, Len(log), x) = Overrides[log[Latest(I)].name]
    BY DEF OfferStatus, LastIn
  <2> HIDE DEF I
  <2> QED  BY <2>3, <2>4 DEF Overrides
<1>2. OFFER_STATUS[record.status + 1] = "created"
  BY <1>1 DEF OfferStatus, LastIn
<1>3. record.status \in 0 .. 3
  BY DEF Offer
<1> QED  BY <1>2, <1>3 DEF OFFER_STATUS

LEMMA ReadEventsShows ==
  ASSUME RecordsFit, Shown, ReadEvents
  PROVE  Shown'
<1> DEFINE status == OfferStatus(call.record, Len(log), call.slot)
<1>1. /\ call.pc = "events" /\ UNCHANGED logVars
      /\ call' = [pc |-> "got", since |-> call.since, until |-> Len(log), slot |-> call.slot,
                  status |-> status, terms |-> call.record,
                  invalid |-> status = "created" /\ ~Suits(Asked, call.record)]
  BY DEF ReadEvents
<1>2. Still(call.record, call.slot) /\ call.record \in Offer /\ log \in Seq(Entry)
  BY <1>1 DEF Shown, Still, RecordsFit
<1>3. status = "created" => call.record.status = Created
  BY <1>2, CreatedReported
<1> HIDE DEF status
<1>4. /\ call'.pc = "got" /\ call'.slot = call.slot /\ call'.terms = call.record
      /\ call'.status = status
  BY <1>1
<1>5. call'.invalid = (status = "created" /\ ~Suits(Asked, call.record))
  BY <1>1, Zenon
<1>6. Still(call.terms, call.slot)'
  BY <1>1, <1>2, <1>4 DEF Still, logVars, vars
<1>7. Answerable' => Waited(call.terms)'
  BY <1>3, <1>4, <1>5 DEF Answerable, Waited, Suits
<1> QED  BY <1>4, <1>6, <1>7 DEF Shown, AcceptedAsShown

\* Acceptance changes the status and the deadline, and nothing that was asked.
LEMMA SendAcceptShows ==
  ASSUME RecordsFit, WriteFits, Shown, SendAccept
  PROVE  Shown'
<1> DEFINE x == call.slot
<1>1. /\ call.pc = "accepting" /\ call \in AcceptingCall /\ call' = [call EXCEPT !.pc = "done"]
      /\ acceptOffer(call.from, x)
  BY DEF SendAccept, WriteFits
<1>2. /\ call'.pc = "done" /\ call'.slot = x /\ call'.shown = call.shown /\ x \in Slot
  BY <1>1 DEF AcceptingCall
<1>3. Still(call.shown, x) /\ Waited(call.shown)
  BY <1>1 DEF Shown
<1> DEFINE f == IF offers[x].finalizes < RelativeWindow THEN now + offers[x].finalizes
                                                        ELSE offers[x].finalizes
<1>4. offers[x] = call.shown /\ call.shown \in Offer /\ Suits(Asked, call.shown)
  BY <1>1, <1>3 DEF Still, Waited, acceptOffer
<1>5. f \in Nat
  <2>1. offers[x].finalizes \in Nat /\ now \in Nat
    BY <1>4 DEF Offer, RecordsFit, RecordsTyped
  <2> QED  BY <2>1
<1>6. offers' = [offers EXCEPT ![x] = [offers[x] EXCEPT !.finalizes = f, !.status = Accepted]]
  BY <1>1 DEF acceptOffer
<1> HIDE DEF f
<1>7. offers'[x] = [call.shown EXCEPT !.finalizes = f, !.status = Accepted]
  BY <1>2, <1>4, <1>6 DEF RecordsFit, RecordsTyped
<1>8. PICK o, r : o = offers'[x] /\ r = call.shown
  OBVIOUS
<1>9. /\ o.status = Accepted
      /\ o = [r EXCEPT !.status = o.status, !.finalizes = o.finalizes]
      /\ Suits(Asked, o)
  <2>1. r \in Offer /\ o = [r EXCEPT !.finalizes = f, !.status = Accepted]
    BY <1>4, <1>7, <1>8
  <2>2. o.status = Accepted /\ o.finalizes = f
    BY <1>5, <2>1 DEF Offer
  <2>3. o = [r EXCEPT !.status = Accepted, !.finalizes = f]
    BY <1>5, <2>1 DEF Offer
  <2>4. /\ o.currency = r.currency /\ o.value = r.value /\ o.commission = r.commission
        /\ o.arbitrator = r.arbitrator /\ o.affiliate = r.affiliate
    BY <1>5, <2>1 DEF Offer
  <2> QED  BY <1>4, <1>8, <2>2, <2>3, <2>4 DEF Suits
<1>10. AcceptedAsShown'
  BY <1>2, <1>8, <1>9 DEF AcceptedAsShown, Suits
<1> QED  BY <1>2, <1>10 DEF Shown

LEMMA ShownStep ==
  ASSUME RecordsFit, WriteFits, Shown, [ClientNext]_adapterVars
  PROVE  Shown'
<1>0. Step
  BY ClientStep
<1>1. CASE UNCHANGED adapterVars
  BY <1>1 DEF adapterVars, logVars, vars, Shown, Still, Answerable, Waited, Suits, AcceptedAsShown
<1>2. CASE UNCHANGED call /\ ClientNext
  <2>1. PICK c : c = call
    OBVIOUS
  <2>2. c.pc # "done"
    BY <1>2, <2>1, NoneAfterDone
  <2>3. c.pc = "events" => Still(c.record, c.slot)'
    BY <1>0, <2>1, StillStands DEF Shown
  <2>4. c.pc = "got" => Still(c.terms, c.slot)'
    BY <1>0, <2>1, StillStands DEF Shown
  <2>5. c.pc = "accepting" => Still(c.shown, c.slot)'
    BY <1>0, <2>1, StillStands DEF Shown
  <2>6. Answerable' <=> Answerable
    BY <1>2 DEF Answerable
  <2>7. /\ Waited(call.terms)' <=> Waited(call.terms)
        /\ Waited(call.shown)' <=> Waited(call.shown)
    BY <1>2 DEF Waited, Suits
  <2> QED  BY <1>2, <2>1, <2>2, <2>3, <2>4, <2>5, <2>6, <2>7 DEF Shown, AcceptedAsShown
<1>3. ASSUME NEW x \in Slot, ReadRecord(x)
      PROVE  Shown'
  <2>1. /\ UNCHANGED logVars /\ x[2] < totalOffers[x[1]] /\ offers[x] \in Offer
        /\ call'.pc = "events" /\ call'.slot = x /\ call'.record = offers[x]
    BY <1>3 DEF ReadRecord, RecordsFit, RecordsTyped
  <2>2. Still(call.record, call.slot)'
    BY <2>1 DEF Still, logVars, vars
  <2> QED  BY <2>1, <2>2 DEF Shown, AcceptedAsShown
<1>4. CASE ReadEvents
  BY <1>4, ReadEventsShows
<1>5. ASSUME NEW from \in Account, StartAccept(from)
      PROVE  Shown'
  <2>1. /\ UNCHANGED logVars /\ call.pc = "got" /\ Answerable
        /\ call'.pc = "accepting" /\ call'.slot = call.slot /\ call'.shown = call.terms
    BY <1>5 DEF StartAccept, Answerable
  <2>2. Still(call.terms, call.slot) /\ Waited(call.terms)
    BY <2>1 DEF Shown
  <2>3. Still(call.shown, call.slot)' /\ Waited(call.shown)'
    BY <2>1, <2>2 DEF Still, Waited, Suits, logVars, vars
  <2> QED  BY <2>1, <2>3 DEF Shown, AcceptedAsShown
<1>6. CASE SendAccept
  BY <1>6, SendAcceptShows
<1>7. CASE OtherWrite
  BY <1>7 DEF OtherWrite, Shown, AcceptedAsShown
<1>8. CASE ReadReceipt \/ \E first, last \in 1 .. MaxLog : ReadBlock(first, last)
  <2>1. call'.pc = "done" /\ "shown" \notin DOMAIN call'
    BY <1>8 DEF ReadReceipt, ReadBlock, ListedAs
  <2> QED  BY <2>1 DEF Shown, AcceptedAsShown
<1>9. CASE call'.pc \notin {"events", "got", "accepting", "done"}
  BY <1>9 DEF Shown, AcceptedAsShown
<1>10. (\E arbitrator \in Arbitrators, commission \in {0, Commission} :
          StoreListing(arbitrator, commission)) \/ (\E from \in Account : StartListing(from))
       \/ SendListing \/ Fail =>
         call'.pc \notin {"events", "got", "accepting", "done"}
  BY DEF StoreListing, StartListing, SendListing, Fail
<1> QED  BY <1>1, <1>2, <1>3, <1>4, <1>5, <1>6, <1>7, <1>8, <1>9, <1>10, ClientSteps, ReviewsFit,
         ListingsFit DEF OwnStep, OfferRead, ListingWrite

\* What a seller accepts through the client is what was shown and validated,
\* though time passes between the two.
THEOREM AcceptedIsAsShown == ClientSpec => []AcceptedAsShown
<1>1. AdapterInit => Shown
  BY DEF AdapterInit, Idle, Shown, AcceptedAsShown
<1>2. ClientFits /\ Shown /\ [ClientNext]_adapterVars => Shown'
  BY ShownStep DEF ClientFits
<1>3. Shown => AcceptedAsShown
  BY DEF Shown
<1> QED  BY <1>1, <1>2, <1>3, ClientAlwaysFits, PTL DEF ClientSpec, ClientNext

-----------------------------------------------------------------------------
(* getListingReviews.                                                        *)

\* The instance keeps the events that begin an offer, agree on it and end it.
KeepsDeals == {"OfferCreated", "OfferAccepted", "OfferFinalized"} \subseteq Kept

\* The log says of the offer at z that the party did what the name says.
Said(name, party, z) == \E i \in Mentions({name}, Len(log), z) : log[i].party = party

\* An event of this step says so.
Says(name, party, z) ==
  \E k \in Fresh : OnOffer(log'[k], z) /\ log'[k].name = name /\ log'[k].party = party

LEMMA SaidGrows ==
  ASSUME log \in Seq(Entry), log' \in Seq(Entry), Grows, NEW name, NEW party, NEW z
  PROVE  Said(name, party, z)' <=> Said(name, party, z) \/ Says(name, party, z)
<1> DEFINE M == Mentions({name}, Len(log), z)
           N == {k \in Fresh : OnOffer(log'[k], z) /\ log'[k].name \in {name}}
<1>1. M' = M \cup N
  BY MentionsGrow
<1>2. \A i \in M : log'[i] = log[i]
  BY DEF Mentions, Grows
<1>3. Said(name, party, z)' <=> \E i \in M' : log'[i].party = party
  BY DEF Said
<1>4. Said(name, party, z) <=> \E i \in M : log[i].party = party
  BY DEF Said
<1>5. Says(name, party, z) <=> \E i \in N : log'[i].party = party
  BY DEF Says
<1> HIDE DEF M, N
<1> QED  BY <1>1, <1>2, <1>3, <1>4, <1>5

LEMMA TurnSays ==
  ASSUME RecordsFit, NEW x \in Slot, NEW e \in Entry, Turn(x, e)
  PROVE  /\ \A name, party : \A z \in Slot : Says(name, party, z) =>
              z = x /\ e.name = name /\ e.party = party
         /\ e.name \in Kept => Says(e.name, e.party, x)
<1>1. /\ \A k \in Fresh : log'[k] = e
      /\ e.name \in Kept => Len(log) + 1 \in Fresh
  BY OneLogged DEF Turn, RecordsFit
<1>2. OnOffer(e, x)
  BY DEF Turn
<1> QED  BY <1>1, <1>2, OnOne DEF Says

LEMMA MakeSays ==
  ASSUME RecordsFit, NEW l \in ListingId, NEW e \in Entry, Make(l, e)
  PROVE  /\ \A name, party : \A z \in Slot : Says(name, party, z) =>
              z = NextSlot(l) /\ name = "OfferCreated"
         /\ "OfferCreated" \in Kept => Says("OfferCreated", e.party, NextSlot(l))
<1>1. /\ \A k \in Fresh : log'[k] = e
      /\ e.name \in Kept => Len(log) + 1 \in Fresh
  BY OneLogged DEF Make, RecordsFit
<1>2. OnOffer(e, NextSlot(l)) /\ e.name = "OfferCreated" /\ NextSlot(l) \in Slot
  BY DEF Make, Takes
<1> QED  BY <1>1, <1>2, OnOne DEF Says

LEMMA ReplaceSays ==
  ASSUME RecordsFit, NEW x \in Slot, NEW d \in Entry, NEW e \in Entry, Replace(x, d, e)
  PROVE  /\ \A name, party : \A z \in Slot : Says(name, party, z) =>
              \/ name = "OfferWithdrawn"
              \/ name = "OfferCreated"
         /\ "OfferCreated" \in Kept => Says("OfferCreated", e.party, NextSlot(x[1]))
<1>1. log \in Seq(Entry) /\ log' = log \o (Logged(d) \o Logged(e))
  BY DEF Replace, RecordsFit
<1>2. /\ \A k \in Fresh : log'[k] = d \/ log'[k] = e
      /\ e.name \in Kept => Len(log') \in Fresh /\ log'[Len(log')] = e
  BY <1>1, TwoLogged
<1>3. /\ OnOffer(e, NextSlot(x[1])) /\ e.name = "OfferCreated" /\ d.name = "OfferWithdrawn"
  BY DEF Replace, Takes
<1> QED  BY <1>2, <1>3 DEF Says

LEMMA QuietSays ==
  ASSUME RecordsFit, Quiet, NEW name \in MoveNames, NEW party, NEW z
  PROVE  ~Says(name, party, z)
<1>1. log \in Seq(Entry) /\ Len(log) \in Nat
  BY DEF RecordsFit
<1>2. CASE log' = log
  <2>1. Fresh = {}
    BY <1>1, <1>2 DEF Fresh
  <2> QED  BY <2>1 DEF Says
<1>3. CASE \E e \in Entry : e.name \notin MoveNames /\ log' = log \o Logged(e)
  BY <1>1, <1>3, OneLogged DEF Says
<1> QED  BY <1>2, <1>3 DEF Quiet

\* Who made the offer and who accepted it is on record: an agreed one was
\* accepted by the seller of its listing, and one that was finalized had been
\* accepted, and was ended by its buyer or by the seller.
Deal(z) ==
  /\ offers[z].status \in {Accepted, Disputed} => Said("OfferAccepted", Seller(z), z)
  /\ offers[z].status # Undefined => Said("OfferCreated", offers[z].buyer, z)
  /\ \A party : Said("OfferAccepted", party, z) =>
       ListingExists(z[1]) /\ party = Seller(z)
  /\ \A party : Said("OfferFinalized", party, z) =>
       /\ Said("OfferAccepted", Seller(z), z)
       /\ party = Seller(z) \/ Said("OfferCreated", party, z)

Deals == \A z \in Slot : Deal(z)

\* What a step that extends the log leaves as it was.
LEMMA DealStands ==
  ASSUME RecordsFit, Step, NEW z \in Slot, Deal(z)
  PROVE  /\ \A name, party : Said(name, party, z) => Said(name, party, z)'
         /\ \A name, party : Said(name, party, z)' => Said(name, party, z) \/ Says(name, party, z)
         /\ \A party : Said("OfferAccepted", party, z) =>
              ListingExists(z[1])' /\ party = Seller(z) /\ Seller(z)' = Seller(z)
<1>1. /\ log \in Seq(Entry) /\ log' \in Seq(Entry) /\ Grows /\ ListingsStand
      /\ RecordsTyped /\ RecordsTyped'
  BY StepFits DEF RecordsFit, Step
<1>2. z[1] \in ListingId /\ z[1] \in Nat
  BY DEF Slot, ListingId
<1>3. ListingExists(z[1]) => ListingExists(z[1])' /\ Seller(z)' = Seller(z)
  BY <1>1, <1>2 DEF ListingsStand, ListingExists, RecordsTyped, Seller
<1>4. \A name, party : Said(name, party, z)' <=> Said(name, party, z) \/ Says(name, party, z)
  BY <1>1, SaidGrows, Zenon
<1> QED  BY <1>3, <1>4 DEF Deal

\* A step that neither accepts nor finalizes the offer at z, and does not make it.
LEMMA DealKept ==
  ASSUME RecordsFit, Step, NEW z \in Slot, Deal(z),
         \A party : ~Says("OfferAccepted", party, z) /\ ~Says("OfferFinalized", party, z),
         \/ offers'[z].status = Undefined
         \/ /\ offers[z].status # Undefined /\ offers'[z].buyer = offers[z].buyer
            /\ offers'[z].status \in {Accepted, Disputed} => offers[z].status \in {Accepted, Disputed}
  PROVE  Deal(z)'
<1>1. offers'[z].status \in {Accepted, Disputed} => Said("OfferAccepted", Seller(z), z)'
  BY DealStands DEF Deal
<1>2. offers'[z].status # Undefined => Said("OfferCreated", offers[z].buyer, z)'
  <2> SUFFICES ASSUME offers'[z].status # Undefined
               PROVE  Said("OfferCreated", offers[z].buyer, z)'
    OBVIOUS
  <2>1. PICK buyer : buyer = offers[z].buyer /\ buyer = offers'[z].buyer
    OBVIOUS
  <2>2. Said("OfferCreated", buyer, z)
    BY <2>1 DEF Deal
  <2>3. Said("OfferCreated", buyer, z)'
    BY <2>2, DealStands
  <2> QED  BY <2>1, <2>3 DEF Said
<1>3. ASSUME NEW party, Said("OfferAccepted", party, z)'
      PROVE  ListingExists(z[1])' /\ party = Seller(z)'
  BY <1>3, DealStands
<1>4. ASSUME NEW party, Said("OfferFinalized", party, z)'
      PROVE  /\ Said("OfferAccepted", Seller(z), z)'
             /\ party = Seller(z)' \/ Said("OfferCreated", party, z)'
  <2>1. Said("OfferFinalized", party, z)
    BY <1>4, DealStands
  <2>2. PICK seller : seller = Seller(z)
    OBVIOUS
  <2>3. /\ Said("OfferAccepted", seller, z)
        /\ party = seller \/ Said("OfferCreated", party, z)
    BY <2>1, <2>2 DEF Deal
  <2>4. /\ Said("OfferAccepted", seller, z)' /\ seller = Seller(z)'
        /\ party = seller \/ Said("OfferCreated", party, z)'
    BY <2>2, <2>3, DealStands
  <2> QED  BY <2>4 DEF Said, Seller
<1> QED  BY <1>1, <1>2, <1>3, <1>4 DEF Deal

LEMMA AcceptDeal ==
  ASSUME RecordsFit, KeepsDeals, Step, NEW z \in Slot, Deal(z), NEW e \in Entry,
         Turn(z, e), e.name = "OfferAccepted"
  PROVE  Deal(z)'
<1>1. /\ ListingExists(z[1]) /\ e.party = Seller(z) /\ offers[z].status # Undefined
      /\ offers'[z].status = Accepted /\ offers'[z].buyer = offers[z].buyer
  BY DEF Turn, TurnsTo, Seller
<1>2. PICK seller, buyer : seller = Seller(z) /\ buyer = offers[z].buyer
  OBVIOUS
<1>3. /\ \A name, party : Says(name, party, z) => name = "OfferAccepted" /\ party = seller
      /\ Says("OfferAccepted", seller, z)
  BY <1>1, <1>2, TurnSays DEF KeepsDeals
<1>4. Said("OfferAccepted", seller, z)'
  <2>1. log \in Seq(Entry) /\ log' \in Seq(Entry) /\ Grows
    BY StepFits DEF RecordsFit
  <2> QED  BY <1>3, <2>1, SaidGrows
<1>5. ListingExists(z[1])' /\ seller = Seller(z)'
  <2>1. z[1] \in ListingId /\ z[1] \in Nat
    BY DEF Slot, ListingId
  <2> QED  BY <1>1, <1>2, <2>1 DEF Step, ListingsStand, ListingExists, RecordsFit, RecordsTyped, Seller
<1>6. Said("OfferCreated", buyer, z)'
  <2>1. Said("OfferCreated", buyer, z)
    BY <1>1, <1>2 DEF Deal
  <2> QED  BY <2>1, DealStands
<1>7. ASSUME NEW party, Said("OfferAccepted", party, z)'
      PROVE  party = seller
  <2>1. Said("OfferAccepted", party, z) \/ Says("OfferAccepted", party, z)
    BY <1>7, DealStands
  <2> QED  BY <1>2, <1>3, <2>1 DEF Deal
<1>8. ASSUME NEW party, Said("OfferFinalized", party, z)'
      PROVE  party = seller \/ Said("OfferCreated", party, z)'
  <2>1. Said("OfferFinalized", party, z)
    BY <1>3, <1>8, DealStands
  <2>2. party = seller \/ Said("OfferCreated", party, z)
    BY <1>2, <2>1 DEF Deal
  <2> QED  BY <2>2, DealStands
<1>9. Said("OfferAccepted", Seller(z), z)'
  BY <1>4, <1>5 DEF Said, Seller
<1>10. Said("OfferCreated", offers[z].buyer, z)'
  BY <1>1, <1>2, <1>6 DEF Said
<1> QED  BY <1>5, <1>7, <1>8, <1>9, <1>10 DEF Deal

LEMMA FinalizeDeal ==
  ASSUME RecordsFit, KeepsDeals, Step, NEW z \in Slot, Deal(z), NEW e \in Entry,
         Turn(z, e), e.name = "OfferFinalized"
  PROVE  Deal(z)'
<1>1. /\ e.party \in {offers[z].buyer, Seller(z)} /\ offers[z].status = Accepted
      /\ offers'[z].status = Undefined
  BY DEF Turn, TurnsTo, Seller, NoOffer
<1>2. PICK seller, buyer : seller = Seller(z) /\ buyer = offers[z].buyer
  OBVIOUS
<1>3. \A name, party : Says(name, party, z) => name = "OfferFinalized" /\ party = e.party
  BY TurnSays
<1>4. Said("OfferAccepted", seller, z) /\ Said("OfferCreated", buyer, z)
  BY <1>1, <1>2 DEF Deal
<1>5. /\ Said("OfferAccepted", seller, z)' /\ Said("OfferCreated", buyer, z)'
      /\ ListingExists(z[1])' /\ Seller(z)' = seller
  BY <1>2, <1>4, DealStands
<1>6. ASSUME NEW party, Said("OfferAccepted", party, z)'
      PROVE  party = seller
  <2>1. Said("OfferAccepted", party, z)
    BY <1>3, <1>6, DealStands
  <2> QED  BY <1>2, <2>1 DEF Deal
<1>7. ASSUME NEW party, Said("OfferFinalized", party, z)'
      PROVE  party = seller \/ Said("OfferCreated", party, z)'
  <2>1. CASE Said("OfferFinalized", party, z)
    <3>1. party = seller \/ Said("OfferCreated", party, z)
      BY <1>2, <2>1 DEF Deal
    <3> QED  BY <3>1, DealStands
  <2>2. CASE Says("OfferFinalized", party, z)
    <3>1. party = seller \/ party = buyer
      BY <1>1, <1>2, <1>3, <2>2
    <3> QED  BY <1>5, <3>1
  <2> QED  BY <1>7, <2>1, <2>2, DealStands
<1>8. Said("OfferAccepted", Seller(z), z)'
  BY <1>5 DEF Said, Seller
<1> QED  BY <1>1, <1>5, <1>6, <1>7, <1>8 DEF Deal

\* A new offer: nobody has said anything of it, but for who made it.
LEMMA MadeDeal ==
  ASSUME RecordsFit, Step, NEW z \in Slot, Deal(z),
         NEW buyer, Says("OfferCreated", buyer, z),
         offers'[z].status = Created, offers'[z].buyer = buyer,
         \A party : ~Says("OfferAccepted", party, z) /\ ~Says("OfferFinalized", party, z)
  PROVE  Deal(z)'
<1>1. Said("OfferCreated", buyer, z)'
  <2>1. log \in Seq(Entry) /\ log' \in Seq(Entry) /\ Grows
    BY StepFits DEF RecordsFit
  <2> QED  BY <2>1, SaidGrows
<1>2. Said("OfferCreated", offers[z].buyer, z)'
  BY <1>1 DEF Said
<1>3. ASSUME NEW party, Said("OfferAccepted", party, z)'
      PROVE  ListingExists(z[1])' /\ party = Seller(z)'
  BY <1>3, DealStands
<1>4. ASSUME NEW party, Said("OfferFinalized", party, z)'
      PROVE  /\ Said("OfferAccepted", Seller(z), z)'
             /\ party = Seller(z)' \/ Said("OfferCreated", party, z)'
  <2>1. Said("OfferFinalized", party, z)
    BY <1>4, DealStands
  <2>2. PICK seller : seller = Seller(z)
    OBVIOUS
  <2>3. /\ Said("OfferAccepted", seller, z)
        /\ party = seller \/ Said("OfferCreated", party, z)
    BY <2>1, <2>2 DEF Deal
  <2>4. /\ Said("OfferAccepted", seller, z)' /\ seller = Seller(z)'
        /\ party = seller \/ Said("OfferCreated", party, z)'
    BY <2>2, <2>3, DealStands
  <2> QED  BY <2>4 DEF Said, Seller
<1> QED  BY <1>2, <1>3, <1>4 DEF Deal

LEMMA DealStep ==
  ASSUME RecordsFit, KeepsDeals, Step, NEW z \in Slot, Deal(z)
  PROVE  Deal(z)'
<1>0. NoOffer.status = Undefined
  BY DEF NoOffer
\* The cases in which no step made the record at z what it is.
<1>1. ASSUME \A party : ~Says("OfferAccepted", party, z) /\ ~Says("OfferFinalized", party, z),
             offers'[z] = offers[z] \/ offers'[z].status = Undefined
      PROVE  Deal(z)'
  BY <1>1, DealKept
<1>2. CASE Quiet
  <2>1. \A party : ~Says("OfferAccepted", party, z) /\ ~Says("OfferFinalized", party, z)
    BY <1>2, QuietSays DEF MoveNames
  <2> QED  BY <1>1, <1>2, <2>1 DEF Quiet
<1>3. ASSUME NEW x \in Slot, NEW e \in Entry, Turn(x, e)
      PROVE  Deal(z)'
  <2>1. \A name, party : Says(name, party, z) => z = x /\ e.name = name
    BY <1>3, TurnSays
  <2>2. CASE z # x
    BY <1>1, <1>3, <2>1, <2>2 DEF Turn
  <2>3. CASE z = x /\ e.name \notin {"OfferAccepted", "OfferFinalized"}
    <3>1. \/ offers'[z].status = Undefined
          \/ /\ offers[z].status # Undefined /\ offers'[z].buyer = offers[z].buyer
             /\ offers'[z].status \in {Accepted, Disputed} =>
                  offers[z].status \in {Accepted, Disputed}
      BY <1>0, <1>3, <2>3 DEF Turn, TurnsTo
    <3> QED  BY <2>1, <2>3, <3>1, DealKept
  <2> QED  BY <1>3, <2>2, <2>3, AcceptDeal, FinalizeDeal
<1>4. ASSUME NEW l \in ListingId, NEW e \in Entry, Make(l, e)
      PROVE  Deal(z)'
  <2>1. /\ \A name, party : Says(name, party, z) => name = "OfferCreated"
        /\ Says("OfferCreated", e.party, NextSlot(l))
    BY <1>4, MakeSays DEF KeepsDeals
  <2>2. CASE z = NextSlot(l)
    BY <1>4, <2>1, <2>2, MadeDeal DEF Make, Takes
  <2> QED  BY <1>1, <1>4, <2>1, <2>2 DEF Make
<1>5. ASSUME NEW x \in Slot, NEW d \in Entry, NEW e \in Entry, Replace(x, d, e)
      PROVE  Deal(z)'
  <2>1. /\ \A name, party : Says(name, party, z) => name \in {"OfferCreated", "OfferWithdrawn"}
        /\ Says("OfferCreated", e.party, NextSlot(x[1]))
    BY <1>5, ReplaceSays DEF KeepsDeals
  <2>2. CASE z = NextSlot(x[1])
    <3>1. offers'[z].status = Created /\ offers'[z].buyer = e.party
      BY <1>5, <2>2 DEF Replace, Takes
    <3>2. /\ Says("OfferCreated", e.party, z)
          /\ \A party : ~Says("OfferAccepted", party, z) /\ ~Says("OfferFinalized", party, z)
      BY <2>1, <2>2
    <3> QED  BY <3>1, <3>2, MadeDeal
  <2> QED  BY <1>0, <1>1, <1>5, <2>1, <2>2 DEF Replace
<1> QED  BY <1>2, <1>3, <1>4, <1>5 DEF Step

\* The events a call has collected are the log's.
Collected ==
  call.pc = "reviews" =>
    \A e : Has(call.pending, e) \/ Has(call.returned, e) => Has(log, e)

LEMMA CollectedStep ==
  ASSUME RecordsFit, WriteFits, Collected, [ClientNext]_adapterVars
  PROVE  Collected'
<1>1. /\ log \in Seq(Entry) /\ log' \in Seq(Entry) /\ Grows
  BY ClientStep, StepFits DEF RecordsFit
<1>2. \A e : Has(log, e) => Has(log', e)
  <2>1. 1 .. Len(log) \subseteq 1 .. Len(log')
    BY <1>1 DEF Grows
  <2> QED  BY <1>1, <2>1 DEF Has, Grows
<1>3. CASE UNCHANGED call
  BY <1>2, <1>3 DEF Collected, Has
<1>4. ASSUME NEW l \in ListingId, ReadReviewEvents(l)
      PROVE  Collected'
  <2> DEFINE pending == Picked(log, ReviewPlaces(l))
  <2>1. call' = [pc |-> "reviews", listing |-> l, returned |-> <<>>, pending |-> pending]
    BY <1>4 DEF ReadReviewEvents, ReviewPlaces
  <2>2. \A e : Has(pending, e) => Has(log, e)
    BY ReviewPicked
  <2> HIDE DEF pending
  <2>3. call'.pending = pending /\ call'.returned = <<>>
    BY <2>1
  <2>4. \A e : ~Has(<<>>, e)
    BY DEF Has
  <2> QED  BY <1>2, <2>2, <2>3, <2>4 DEF Collected, Has
<1>5. CASE LoadReview
  <2>1. call \in ReviewsCall /\ call.pc = "reviews" /\ call.pending # <<>>
    BY <1>5 DEF LoadReview, WriteFits
  <2>2. call.pending \in Seq(Entry) /\ call.returned \in Seq(Entry)
    BY <2>1 DEF ReviewsCall
  <2> DEFINE first == Head(call.pending)
             pending == Tail(call.pending)
             returned == Append(call.returned, first)
  <2>3. /\ first \in Entry
        /\ \A e : Has(call.pending, e) <=> e = first \/ Has(pending, e)
    BY <2>1, <2>2, HeadAndTail
  <2>4. call' = [call EXCEPT !.pending = pending, !.returned = returned]
    BY <1>5 DEF LoadReview
  <2> HIDE DEF first
  <2>5. \A e : Has(returned, e) <=> Has(call.returned, e) \/ e = first
    BY <2>2, <2>3, AppendHas
  <2> HIDE DEF pending, returned
  <2>6. call'.pending = pending /\ call'.returned = returned
    BY <2>1, <2>4 DEF ReviewsCall
  <2>7. \A e : Has(pending, e) \/ Has(returned, e) => Has(log, e)
    BY <2>1, <2>3, <2>5 DEF Collected
  <2> QED  BY <1>2, <2>6, <2>7 DEF Collected, Has
<1>6. CASE call'.pc # "reviews"
  BY <1>6 DEF Collected
<1>7. NoReview \/ OtherWrite \/ Fail => call'.pc # "reviews"
  BY DEF NoReview, OtherWrite, Fail
<1> QED  BY <1>3, <1>4, <1>5, <1>6, <1>7, ClientSteps, OfferReadPc, ListingWriteFits, AcceptFits,
         ListingsFit DEF OwnStep, ReviewsRead

LEMMA CollectedDeals ==
  ASSUME ClientFits, Deals, Collected
  PROVE  ReviewsOfDeals
<1> SUFFICES ASSUME call.pc = "reviews", NEW k \in DOMAIN call.returned,
                    call.returned[k].name = "OfferFinalized"
             PROVE  LET e == call.returned[k]
                        x == <<e.listing, e.offer>>
                        by(name) == {log[i].party : i \in Mentions({name}, Len(log), x)}
                        seller == listings[e.listing].seller
                    IN  /\ by("OfferAccepted") = {seller}
                        /\ e.party \in by("OfferCreated") \cup {seller}
  BY DEF ReviewsOfDeals
<1> DEFINE e == call.returned[k]
           x == <<e.listing, e.offer>>
           by(name) == {log[i].party : i \in Mentions({name}, Len(log), x)}
           seller == listings[e.listing].seller
<1>1. call.returned \in Seq(Entry) /\ log \in Seq(Entry)
  BY DEF ClientFits, WriteFits, ReviewsCall, RecordsFit
<1>2. e \in Entry /\ Has(call.returned, e)
  BY <1>1, LenProperties, ElementOfSeq DEF Has
<1>3. Has(log, e)
  BY <1>2 DEF Collected
<1>4. PICK i \in 1 .. Len(log) : log[i] = e
  BY <1>3 DEF Has
<1>5. x \in Slot /\ OnOffer(e, x) /\ x[1] = e.listing
  BY <1>2 DEF Entry, Event, OfferEvent, Slot, OnOffer
<1>6. Said("OfferFinalized", e.party, x)
  <2>1. i \in Mentions({"OfferFinalized"}, Len(log), x)
    BY <1>4, <1>5 DEF Mentions
  <2> QED  BY <1>4, <2>1 DEF Said
<1>7. Seller(x) = seller
  BY <1>5 DEF Seller
<1>8. Deal(x)
  BY <1>5 DEF Deals
<1>9. \A name, party : Said(name, party, x) <=> party \in by(name)
  BY DEF Said
<1> HIDE DEF e, x, by, seller
<1>10. /\ \A party : party \in by("OfferAccepted") => party = seller
       /\ seller \in by("OfferAccepted")
       /\ e.party = seller \/ e.party \in by("OfferCreated")
  BY <1>6, <1>7, <1>8, <1>9 DEF Deal
<1>11. by("OfferAccepted") = {seller} /\ e.party \in by("OfferCreated") \cup {seller}
  BY <1>10
<1> QED  BY <1>11 DEF e, x, by, seller

\* A review that came with the end of an offer is about an offer that the seller
\* of the listing had accepted, and is by its buyer or its seller.
THEOREM ReviewsAreOfDeals == KeepsDeals => (ClientSpec => []ReviewsOfDeals)
<1> SUFFICES ASSUME KeepsDeals PROVE ClientSpec => []ReviewsOfDeals
  OBVIOUS
<1>1. AdapterInit => Deals /\ Collected
  <2> SUFFICES ASSUME AdapterInit PROVE Deals /\ Collected
    OBVIOUS
  <2>1. \A name, party, z : ~Said(name, party, z)
    BY DEF AdapterInit, LogInit, Said, Mentions
  <2>2. \A z \in Slot : offers[z].status = Undefined
    BY DEF AdapterInit, LogInit, Init, NoOffer
  <2> QED  BY <2>1, <2>2 DEF AdapterInit, Idle, Deals, Deal, Collected
<1>2. ClientFits /\ Deals /\ [ClientNext]_adapterVars => Deals'
  <2> SUFFICES ASSUME ClientFits, Deals, [ClientNext]_adapterVars PROVE Deals'
    OBVIOUS
  <2>1. RecordsFit /\ Step
    BY ClientStep DEF ClientFits
  <2>2. ASSUME NEW z \in Slot  PROVE Deal(z)'
    <3>1. Deal(z)
      BY DEF Deals
    <3> QED  BY <2>1, <3>1, DealStep
  <2> QED  BY <2>2 DEF Deals
<1>3. ClientFits /\ Collected /\ [ClientNext]_adapterVars => Collected'
  BY CollectedStep DEF ClientFits
<1>4. ClientFits /\ Deals /\ Collected => ReviewsOfDeals
  BY CollectedDeals
<1> QED  BY <1>1, <1>2, <1>3, <1>4, ClientAlwaysFits, PTL DEF ClientSpec, ClientNext
=============================================================================
