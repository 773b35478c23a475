----------------------------- MODULE Marketplace -----------------------------
(***************************************************************************)
(* The V00_Marketplace contract: listings that hold a deposit in Origin    *)
(* Token, offers whose price is held in escrow in Eth or in an ERC20       *)
(* token, and the commission an accepted offer sets aside out of the       *)
(* deposit.  A transaction is atomic, so each action is one successful     *)
(* call; a call that reverts leaves the state alone and is a stuttering    *)
(* step.  The escrow is modelled as what the contract really owns (its     *)
(* balance in each currency), separately from what its records say it      *)
(* owes, so that the two can disagree.                                     *)
(***************************************************************************)
EXTENDS NatSum

CONSTANTS
  Account,        \* wallets and contracts that call or are paid
  Owner,          \* owner of the contract (Ownable)
  Refusing,       \* accounts whose code does not accept plain Eth
  NullAddr,       \* 0x0 as a party
  Market,         \* the contract's own address
  Eth,            \* 0x0 as a currency
  Token,          \* ERC20 contracts an offer may be priced in
  OriginToken,    \* those that tokenAddr ever points at
  MaxListings,    \* bound on createListing
  MaxOffers,      \* bound on makeOffer, per listing
  MaxRecord,      \* bound on a deposit or an offer's value added to
  Amounts,        \* deposits, additional funds and refunds callers try
  Terms,          \* offer terms buyers propose
  Managers,       \* deposit managers and targets of withdrawals callers name
  Whitelisted,    \* addresses the owner adds to and removes from the whitelist
  RelativeWindow, \* below it, finalizes is a duration: 1000000000 seconds
  StartTime,      \* block time at deployment
  MaxTime,        \* bound on the clock
  Endowment       \* what each account owns before the first transaction

Currency  == Token \cup {Eth}
Holder    == Account \cup {Market}
Party     == Account \cup {NullAddr}
ListingId == 0 .. MaxListings - 1
OfferId   == 0 .. MaxOffers - 1
Slot      == ListingId \X OfferId

OfferTerms == [finalizes : Nat, affiliate : Party, commission : Nat,
               value : Nat, currency : Currency, arbitrator : Party]

ASSUME BoundsAssumption ==
  /\ MaxListings \in Nat
  /\ MaxOffers \in Nat
  /\ MaxRecord \in Nat
  /\ RelativeWindow \in Nat
  /\ StartTime \in Nat
  /\ MaxTime \in Nat
  /\ RelativeWindow <= StartTime

ASSUME AddressAssumption ==
  /\ NullAddr \notin Account \cup {Market}
  /\ Market \notin Account
  /\ Eth \notin Token
  /\ Owner \in Account
  /\ Refusing \subseteq Account
  /\ OriginToken \subseteq Token

ASSUME InputAssumption ==
  /\ Amounts \subseteq Nat
  /\ Terms \subseteq OfferTerms
  /\ Managers \subseteq Party
  /\ Whitelisted \subseteq Party \cup {Market}
  /\ Endowment \in [Currency -> [Account -> Nat]]

VARIABLES
  totalListings,     \* length of the listings array
  listings,          \* listing records
  totalOffers,       \* length of each listing's offers array
  offers,            \* offer records, by <<listing, offer>>
  allowedAffiliates, \* affiliate whitelist
  tokenAddr,         \* the Origin Token contract in use
  balance,           \* what every holder owns, in each currency
  now                \* block time

vars == <<totalListings, listings, totalOffers, offers, allowedAffiliates,
          tokenAddr, balance, now>>

-----------------------------------------------------------------------------
(* Records.  A deleted or never written record reads as all zeros.           *)

Undefined == 0
Created   == 1
Accepted  == 2
Disputed  == 3

NoListing == [seller |-> NullAddr, deposit |-> 0, depositManager |-> NullAddr]

NoOffer == [value |-> 0, commission |-> 0, refund |-> 0, currency |-> Eth,
            buyer |-> NullAddr, affiliate |-> NullAddr, arbitrator |-> NullAddr,
            finalizes |-> 0, status |-> Undefined]

Listing == [seller : Party, deposit : Nat, depositManager : Party]

Offer == [value : Nat, commission : Nat, refund : Nat, currency : Currency,
          buyer : Party, affiliate : Party, arbitrator : Party,
          finalizes : Nat, status : Undefined .. Disputed]

TypeOK ==
  /\ totalListings \in 0 .. MaxListings
  /\ listings \in [ListingId -> Listing]
  /\ totalOffers \in [ListingId -> 0 .. MaxOffers]
  /\ offers \in [Slot -> Offer]
  /\ allowedAffiliates \subseteq Party \cup {Market}
  /\ tokenAddr \in OriginToken
  /\ balance \in [Currency -> [Holder -> Nat]]
  /\ now \in Nat

Init ==
  /\ totalListings = 0
  /\ listings = [l \in ListingId |-> NoListing]
  /\ totalOffers = [l \in ListingId |-> 0]
  /\ offers = [x \in Slot |-> NoOffer]
  /\ allowedAffiliates = {NullAddr}
  /\ tokenAddr \in OriginToken
  /\ balance = [c \in Currency |->
                  [h \in Holder |-> IF h = Market THEN 0 ELSE Endowment[c][h]]]
  /\ now = StartTime

-----------------------------------------------------------------------------
(* Moving money.  An ERC20 transfer reverts when the payer is short; a send  *)
(* of Eth, even of nothing, fails when the payee refuses it.                 *)

Moved(b, c, from, to, v) ==
  [[b EXCEPT ![c][from] = @ - v] EXCEPT ![c][to] = @ + v]

CanReceive(c, to) == c = Eth => to \notin Refusing

CanMove(b, c, from, to, v) == b[c][from] >= v /\ CanReceive(c, to)

\* transferFrom(sender, this, v), or the Eth sent along with the call
CanCollect(c, from, v) == balance[c][from] >= v

CanRefundBuyer(x) ==
  CanMove(balance, offers[x].currency, Market, offers[x].buyer, offers[x].value)

RefundBuyer(x) ==
  Moved(balance, offers[x].currency, Market, offers[x].buyer, offers[x].value)

Seller(x) == listings[x[1]].seller

CanPaySeller(o, seller) ==
  /\ CanReceive(o.currency, o.buyer)
  /\ CanReceive(o.currency, seller)
  /\ balance[o.currency][Market] >= o.value

PaySeller(o, seller) ==
  Moved(Moved(balance, o.currency, Market, o.buyer, o.refund),
        o.currency, Market, seller, o.value - o.refund)

CanPayCommission(b, o) ==
  o.affiliate # NullAddr => b[tokenAddr][Market] >= o.commission

PayCommission(b, o) ==
  IF o.affiliate = NullAddr
  THEN b
  ELSE Moved(b, tokenAddr, Market, o.affiliate, o.commission)

-----------------------------------------------------------------------------
(* Listings.                                                                 *)

ListingExists(l) == l < totalListings

CreateListingFor(seller, deposit, manager) ==
  /\ totalListings < MaxListings
  /\ manager # NullAddr
  /\ CanCollect(tokenAddr, seller, deposit)
  /\ listings' = [listings EXCEPT ![totalListings] =
                    [seller |-> seller, deposit |-> deposit, depositManager |-> manager]]
  /\ totalListings' = totalListings + 1
  /\ balance' = Moved(balance, tokenAddr, seller, Market, deposit)
  /\ UNCHANGED <<totalOffers, offers, allowedAffiliates, tokenAddr, now>>

createListing(sender, deposit, manager) ==
  CreateListingFor(sender, deposit, manager)

createListingWithSender(sender, seller, deposit, manager) ==
  /\ sender = tokenAddr
  /\ CreateListingFor(seller, deposit, manager)

UpdateListingFor(seller, l, additional) ==
  /\ ListingExists(l)
  /\ listings[l].seller = seller
  /\ listings[l].deposit + additional <= MaxRecord
  /\ CanCollect(tokenAddr, seller, additional)
  /\ listings' = [listings EXCEPT ![l].deposit = @ + additional]
  /\ balance' = Moved(balance, tokenAddr, seller, Market, additional)
  /\ UNCHANGED <<totalListings, totalOffers, offers, allowedAffiliates, tokenAddr, now>>

updateListing(sender, l, additional) == UpdateListingFor(sender, l, additional)

updateListingWithSender(sender, seller, l, additional) ==
  /\ sender = tokenAddr
  /\ UpdateListingFor(seller, l, additional)

\* The record, deposit included, stays as it is.
withdrawListing(sender, l, target) ==
  /\ ListingExists(l)
  /\ sender = listings[l].depositManager
  /\ target # NullAddr
  /\ CanMove(balance, tokenAddr, Market, target, listings[l].deposit)
  /\ balance' = Moved(balance, tokenAddr, Market, target, listings[l].deposit)
  /\ UNCHANGED <<totalListings, listings, totalOffers, offers, allowedAffiliates, tokenAddr, now>>

sendDeposit(sender, l, target, value) ==
  /\ ListingExists(l)
  /\ sender = listings[l].depositManager
  /\ listings[l].deposit >= value
  /\ target # NullAddr
  /\ CanMove(balance, tokenAddr, Market, target, value)
  /\ listings' = [listings EXCEPT ![l].deposit = @ - value]
  /\ balance' = Moved(balance, tokenAddr, Market, target, value)
  /\ UNCHANGED <<totalListings, totalOffers, offers, allowedAffiliates, tokenAddr, now>>

-----------------------------------------------------------------------------
(* Offers.  A listing id need not exist for an offer to be made on it.       *)

AffiliateAllowed(t) ==
  /\ Market \in allowedAffiliates \/ t.affiliate \in allowedAffiliates
  /\ t.affiliate = NullAddr => t.commission = 0

NewOffer(buyer, t) ==
  [value |-> t.value, commission |-> t.commission, refund |-> 0,
   currency |-> t.currency, buyer |-> buyer, affiliate |-> t.affiliate,
   arbitrator |-> t.arbitrator, finalizes |-> t.finalizes, status |-> Created]

makeOffer(sender, l, t) ==
  /\ totalOffers[l] < MaxOffers
  /\ AffiliateAllowed(t)
  /\ CanCollect(t.currency, sender, t.value)
  /\ offers' = [offers EXCEPT ![<<l, totalOffers[l]>>] = NewOffer(sender, t)]
  /\ totalOffers' = [totalOffers EXCEPT ![l] = @ + 1]
  /\ balance' = Moved(balance, t.currency, sender, Market, t.value)
  /\ UNCHANGED <<totalListings, listings, allowedAffiliates, tokenAddr, now>>

MayWithdraw(sender, x) ==
  /\ ListingExists(x[1])
  /\ offers[x].status = Created
  /\ sender \in {offers[x].buyer, Seller(x)}
  /\ CanRefundBuyer(x)

\* Fault: the record is not deleted.
withdrawOffer_kept(sender, x) ==
  /\ MayWithdraw(sender, x)
  /\ balance' = RefundBuyer(x)
  /\ UNCHANGED <<totalListings, listings, totalOffers, offers, allowedAffiliates, tokenAddr, now>>

\* Fault: the money goes back to the caller.
withdrawOffer_toCaller(sender, x) ==
  /\ MayWithdraw(sender, x)
  /\ balance' = Moved(balance, offers[x].currency, Market, sender, offers[x].value)
  /\ offers' = [offers EXCEPT ![x] = NoOffer]
  /\ UNCHANGED <<totalListings, listings, totalOffers, allowedAffiliates, tokenAddr, now>>

withdrawOffer(sender, x) ==
  /\ MayWithdraw(sender, x)
  /\ balance' = RefundBuyer(x)
  /\ offers' = [offers EXCEPT ![x] = NoOffer]
  /\ UNCHANGED <<totalListings, listings, totalOffers, allowedAffiliates, tokenAddr, now>>

\* The overload that withdraws an offer first: one transaction, so both
\* parts happen or neither does.  The caller pays for the new offer.
makeOfferAfterWithdrawal(sender, x, t) ==
  LET l == x[1] IN
  /\ MayWithdraw(sender, x)
  /\ totalOffers[l] < MaxOffers
  /\ AffiliateAllowed(t)
  /\ IF t.currency = Eth \* sent along with the call, before the refund arrives
     THEN CanCollect(t.currency, sender, t.value)
     ELSE RefundBuyer(x)[t.currency][sender] >= t.value
  /\ offers' = [offers EXCEPT ![x] = NoOffer, ![<<l, totalOffers[l]>>] = NewOffer(sender, t)]
  /\ totalOffers' = [totalOffers EXCEPT ![l] = @ + 1]
  /\ balance' = Moved(RefundBuyer(x), t.currency, sender, Market, t.value)
  /\ UNCHANGED <<totalListings, listings, allowedAffiliates, tokenAddr, now>>

\* Fault: the deposit need not cover the commission.
acceptOffer_uncovered(sender, x) ==
  LET o == offers[x] IN
  /\ ListingExists(x[1])
  /\ sender = Seller(x)
  /\ o.status = Created
  /\ offers' = [offers EXCEPT
       ![x].finalizes = IF @ < RelativeWindow THEN now + @ ELSE @,
       ![x].status = Accepted]
  /\ listings' = [listings EXCEPT ![x[1]].deposit = @ - o.commission]
  /\ UNCHANGED <<totalListings, totalOffers, allowedAffiliates, tokenAddr, balance, now>>

\* Fault: a relative window is left relative.
acceptOffer_relative(sender, x) ==
  LET o == offers[x] IN
  /\ ListingExists(x[1])
  /\ sender = Seller(x)
  /\ o.status = Created
  /\ listings[x[1]].deposit >= o.commission
  /\ offers' = [offers EXCEPT ![x].status = Accepted]
  /\ listings' = [listings EXCEPT ![x[1]].deposit = @ - o.commission]
  /\ UNCHANGED <<totalListings, totalOffers, allowedAffiliates, tokenAddr, balance, now>>

acceptOffer(sender, x) ==
  LET o == offers[x] IN
  /\ ListingExists(x[1])
  /\ sender = Seller(x)
  /\ o.status = Created
  /\ listings[x[1]].deposit >= o.commission
  /\ offers' = [offers EXCEPT
       ![x].finalizes = IF @ < RelativeWindow THEN now + @ ELSE @,
       ![x].status = Accepted]
  /\ listings' = [listings EXCEPT ![x[1]].deposit = @ - o.commission]
  /\ UNCHANGED <<totalListings, totalOffers, allowedAffiliates, tokenAddr, balance, now>>

addFunds(sender, x, value) ==
  LET o == offers[x] IN
  /\ sender = o.buyer
  /\ o.status = Accepted
  /\ o.value + value <= MaxRecord
  /\ CanCollect(o.currency, sender, value)
  /\ offers' = [offers EXCEPT ![x].value = @ + value]
  /\ balance' = Moved(balance, o.currency, sender, Market, value)
  /\ UNCHANGED <<totalListings, listings, totalOffers, allowedAffiliates, tokenAddr, now>>

updateRefund(sender, x, refund) ==
  /\ ListingExists(x[1])
  /\ sender = Seller(x)
  /\ offers[x].status = Accepted
  /\ refund <= offers[x].value
  /\ offers' = [offers EXCEPT ![x].refund = refund]
  /\ UNCHANGED <<totalListings, listings, totalOffers, allowedAffiliates, tokenAddr, balance, now>>

\* Fault: the seller's turn never comes.
finalize_buyerOnly(sender, x) ==
  LET o == offers[x]
      paid == PaySeller(o, Seller(x))
  IN
  /\ ListingExists(x[1])
  /\ sender = o.buyer
  /\ o.status = Accepted
  /\ CanPaySeller(o, Seller(x))
  /\ CanPayCommission(paid, o)
  /\ balance' = PayCommission(paid, o)
  /\ offers' = [offers EXCEPT ![x] = NoOffer]
  /\ UNCHANGED <<totalListings, listings, totalOffers, allowedAffiliates, tokenAddr, now>>

\* Fault: the offer need not have been accepted.
finalize_unaccepted(sender, x) ==
  LET o == offers[x]
      paid == PaySeller(o, Seller(x))
  IN
  /\ ListingExists(x[1])
  /\ sender = o.buyer \/ (now > o.finalizes /\ sender = Seller(x))
  /\ o.status \in {Created, Accepted}
  /\ CanPaySeller(o, Seller(x))
  /\ IF sender = o.buyer
     THEN CanPayCommission(paid, o) /\ balance' = PayCommission(paid, o)
     ELSE balance' = paid
  /\ offers' = [offers EXCEPT ![x] = NoOffer]
  /\ UNCHANGED <<totalListings, listings, totalOffers, allowedAffiliates, tokenAddr, now>>

\* Fault: the call waits for the commission whoever makes it.
MayFinalize_alwaysCommission(sender, x) ==
  LET o == offers[x] IN
  /\ ListingExists(x[1])
  /\ sender = o.buyer \/ (now > o.finalizes /\ sender = Seller(x))
  /\ o.status = Accepted
  /\ CanPaySeller(o, Seller(x))
  /\ CanPayCommission(PaySeller(o, Seller(x)), o)

\* Only the buyer finalizes before the window has passed, and only the
\* buyer's call depends on the commission.
MayFinalize(sender, x) ==
  LET o == offers[x] IN
  /\ ListingExists(x[1])
  /\ sender = o.buyer \/ (now > o.finalizes /\ sender = Seller(x))
  /\ o.status = Accepted
  /\ CanPaySeller(o, Seller(x))
  /\ sender = o.buyer => CanPayCommission(PaySeller(o, Seller(x)), o)

finalize(sender, x) ==
  LET o == offers[x]
      paid == PaySeller(o, Seller(x))
  IN
  /\ MayFinalize(sender, x)
  /\ balance' = IF sender = o.buyer THEN PayCommission(paid, o) ELSE paid
  /\ offers' = [offers EXCEPT ![x] = NoOffer]
  /\ UNCHANGED <<totalListings, listings, totalOffers, allowedAffiliates, tokenAddr, now>>

dispute(sender, x) ==
  /\ ListingExists(x[1])
  /\ sender \in {offers[x].buyer, Seller(x)}
  /\ offers[x].status = Accepted
  /\ now <= offers[x].finalizes
  /\ offers' = [offers EXCEPT ![x].status = Disputed]
  /\ UNCHANGED <<totalListings, listings, totalOffers, allowedAffiliates, tokenAddr, balance, now>>

\* The offer with the refund its arbitrator rules.
Ruled(x, refund) == [offers[x] EXCEPT !.refund = refund]

\* What the balances are once the escrow is paid out as the ruling says.
RulingPays(x, toBuyer, refund) ==
  IF toBuyer THEN RefundBuyer(x) ELSE PaySeller(Ruled(x, refund), Seller(x))

MayRule(sender, x, toBuyer, toAffiliate, refund) ==
  /\ sender = offers[x].arbitrator
  /\ offers[x].status = Disputed
  /\ refund <= offers[x].value
  /\ IF toBuyer THEN CanRefundBuyer(x) ELSE CanPaySeller(Ruled(x, refund), Seller(x))
  /\ toAffiliate => CanPayCommission(RulingPays(x, toBuyer, refund), Ruled(x, refund))

\* Fault: the commission returns to the deposit even when it was paid.
executeRuling_twice(sender, x, toBuyer, toAffiliate, refund) ==
  LET o == Ruled(x, refund)
      paid == RulingPays(x, toBuyer, refund)
  IN
  /\ MayRule(sender, x, toBuyer, toAffiliate, refund)
  /\ balance' = IF toAffiliate THEN PayCommission(paid, o) ELSE paid
  /\ listings' = [listings EXCEPT ![x[1]].deposit = @ + o.commission]
  /\ offers' = [offers EXCEPT ![x] = NoOffer]
  /\ UNCHANGED <<totalListings, totalOffers, allowedAffiliates, tokenAddr, now>>

\* The ruling's low bit favours the buyer, the next one pays the commission;
\* otherwise the commission goes back to the listing's deposit.
executeRuling(sender, x, toBuyer, toAffiliate, refund) ==
  LET o == Ruled(x, refund)
      paid == RulingPays(x, toBuyer, refund)
  IN
  /\ MayRule(sender, x, toBuyer, toAffiliate, refund)
  /\ IF toAffiliate
     THEN /\ balance' = PayCommission(paid, o)
          /\ UNCHANGED listings
     ELSE /\ balance' = paid
          /\ listings' = [listings EXCEPT ![x[1]].deposit = @ + o.commission]
  /\ offers' = [offers EXCEPT ![x] = NoOffer]
  /\ UNCHANGED <<totalListings, totalOffers, allowedAffiliates, tokenAddr, now>>

-----------------------------------------------------------------------------
(* Administration and the passage of time.                                   *)

setTokenAddr(sender, t) ==
  /\ sender = Owner
  /\ tokenAddr' = t
  /\ UNCHANGED <<totalListings, listings, totalOffers, offers, allowedAffiliates, balance, now>>

addAffiliate(sender, a) ==
  /\ sender = Owner
  /\ allowedAffiliates' = allowedAffiliates \cup {a}
  /\ UNCHANGED <<totalListings, listings, totalOffers, offers, tokenAddr, balance, now>>

removeAffiliate(sender, a) ==
  /\ sender = Owner
  /\ allowedAffiliates' = allowedAffiliates \ {a}
  /\ UNCHANGED <<totalListings, listings, totalOffers, offers, tokenAddr, balance, now>>

Tick ==
  /\ now < MaxTime
  /\ now' = now + 1
  /\ UNCHANGED <<totalListings, listings, totalOffers, offers, allowedAffiliates, tokenAddr, balance>>

ListingStep(sender) ==
  \/ \E d \in Amounts, m \in Managers :
       \/ createListing(sender, d, m)
       \/ \E t \in OriginToken : createListingWithSender(t, sender, d, m)
  \/ \E l \in ListingId, d \in Amounts :
       \/ updateListing(sender, l, d)
       \/ \E t \in OriginToken : updateListingWithSender(t, sender, l, d)
       \/ \E target \in Managers : sendDeposit(sender, l, target, d)
  \/ \E l \in ListingId, target \in Managers : withdrawListing(sender, l, target)

OfferStep(sender) ==
  \/ \E l \in ListingId, t \in Terms : makeOffer(sender, l, t)
  \/ \E x \in Slot, t \in Terms : makeOfferAfterWithdrawal(sender, x, t)
  \/ \E x \in Slot :
       \/ withdrawOffer(sender, x)
       \/ acceptOffer(sender, x)
       \/ finalize(sender, x)
       \/ dispute(sender, x)
  \/ \E x \in Slot, v \in Amounts :
       \/ addFunds(sender, x, v)
       \/ updateRefund(sender, x, v)
       \/ \E toBuyer, toAffiliate \in BOOLEAN :
            executeRuling(sender, x, toBuyer, toAffiliate, v)

OwnerStep(sender) ==
  \/ \E t \in OriginToken : setTokenAddr(sender, t)
  \/ \E a \in Whitelisted : addAffiliate(sender, a) \/ removeAffiliate(sender, a)

Next ==
  \/ \E sender \in Account : ListingStep(sender) \/ OfferStep(sender) \/ OwnerStep(sender)
  \/ Tick

Spec == Init /\ [][Next]_vars

-----------------------------------------------------------------------------
(* What the contract's records say it owes.                                  *)

Held(c)  == balance[c][Market]

\* What the offer o holds in escrow in the currency c.
Stake(o, c) == IF o.status # Undefined /\ o.currency = c THEN o.value ELSE 0

OwedBy(records, c) == Total([x \in Slot |-> Stake(records[x], c)])

Owed(c) == OwedBy(offers, c)

Deposits == Total([l \in ListingId |-> listings[l].deposit])

Commissions == Total([x \in Slot |->
  IF offers[x].status \in {Accepted, Disputed} THEN offers[x].commission ELSE 0])

-----------------------------------------------------------------------------
(* Properties.                                                               *)

\* In every currency that never serves as Origin Token, the contract holds
\* exactly the value of the live offers priced in it: no path through accept,
\* add funds, refund, dispute, ruling, finalize and withdraw pays out twice,
\* pays from another offer's escrow, or leaves part of an escrow behind.
EscrowExact == \A c \in Currency \ OriginToken : Held(c) = Owed(c)

\* The Origin Token the contract holds covers the recorded deposits, the
\* commissions set aside by accepted offers, and the offers priced in it.
TokenBacked == Held(tokenAddr) >= Owed(tokenAddr) + Deposits + Commissions

\* Only two calls can make the records promise more Origin Token than the
\* contract holds: withdrawListing, which pays the deposit out and keeps it on
\* record, and setTokenAddr, which leaves the deposits in the old token.
BackingKept ==
  [][ TokenBacked =>
        \/ TokenBacked'
        \/ \E a \in Account, l \in ListingId, t \in Account : withdrawListing(a, l, t)
        \/ \E t \in OriginToken : setTokenAddr(Owner, t) ]_vars

\* What finalize and executeRuling rely on without checking it: an accepted or
\* disputed offer is on an existing listing, its deadline is a point in time
\* and no longer a duration, its refund cannot underflow the subtraction in
\* paySeller, and a commission has somebody to go to.
AgreedOffersSound ==
  \A x \in Slot : offers[x].status \in {Accepted, Disputed} =>
    /\ ListingExists(x[1])
    /\ offers[x].finalizes >= RelativeWindow
    /\ offers[x].refund <= offers[x].value
    /\ offers[x].affiliate = NullAddr => offers[x].commission = 0

\* Whatever happened to other offers, to the deposit, to the whitelist or to
\* the token, an offer in a currency of its own can be settled by one party
\* alone: the buyer of a created offer, the seller of an accepted one past its
\* deadline (even on a withdrawn listing), the arbitrator of a disputed one,
\* whichever way and with whatever refund the ruling goes.  The call succeeds:
\* MayWithdraw, MayFinalize and MayRule are all that the calls require.
Settleable ==
  \A x \in Slot :
    LET o == offers[x] IN
    /\ ListingExists(x[1])
    /\ o.currency \notin OriginToken
    /\ CanReceive(o.currency, o.buyer)
    /\ CanReceive(o.currency, Seller(x))
    =>
    /\ o.status = Created => MayWithdraw(o.buyer, x)
    /\ o.status = Accepted /\ now > o.finalizes /\ o.buyer # Seller(x) =>
         MayFinalize(Seller(x), x)
    /\ o.status = Disputed /\ o.arbitrator # NullAddr =>
         \A toBuyer \in BOOLEAN, refund \in 0 .. o.value :
           MayRule(o.arbitrator, x, toBuyer, FALSE, refund)

\* A seller who keeps asking is paid: an accepted offer whose deadline the clock
\* reaches does not stay accepted for ever, unless somebody's account refuses
\* the money or the price is in Origin Token.
PersistentSellers == \A x \in Slot : WF_vars(finalize(Seller(x), x))

FairSpec == Spec /\ WF_vars(Tick) /\ PersistentSellers

AcceptedSettles ==
  \A x \in Slot :
    ( /\ offers[x].status = Accepted
      /\ offers[x].finalizes < MaxTime
      /\ offers[x].currency \notin OriginToken
      /\ offers[x].buyer # Seller(x)
      /\ CanReceive(offers[x].currency, offers[x].buyer)
      /\ CanReceive(offers[x].currency, Seller(x)) )
    ~> offers[x].status # Accepted
=============================================================================
