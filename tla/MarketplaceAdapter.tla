-------------------------- MODULE MarketplaceAdapter --------------------------
(***************************************************************************)
(* How a client reads the marketplace: getOffer and getNotifications.      *)
(* Each is a series of requests to a node, and the chain goes on between   *)
(* two of them.  A call leaves nothing behind that a later one uses, so    *)
(* one call is followed from its first request to its result.              *)
(***************************************************************************)
EXTENDS MarketplaceLog, OfferChecks

CONSTANT Asked \* the terms that listings ask for, [OfferTerms]

ASSUME AskedAssumption == Asked \in OfferTerms

VARIABLE call

adapterVars == <<logVars, call>>

Idle == [pc |-> "idle"]

AdapterInit == LogInit /\ call = Idle

\* What the chain does after the call returned is of no interest.
ChainStep == call.pc \notin {"got", "failed"} /\ LogNext /\ UNCHANGED call

-----------------------------------------------------------------------------
(* getOffer: the record, then the events about the offer.                    *)

OFFER_STATUS == <<"error", "created", "accepted", "disputed">>

Overrides ==
  [OfferFinalized |-> "finalized", OfferData |-> "sellerReviewed",
   OfferWithdrawn |-> "withdrawn", OfferRuling |-> "ruling"]

\* The status getOffer reports from a record and the first n events.
OfferStatus(record, n, x) == LastIn(Overrides, n, x, OFFER_STATUS[record.status + 1])

\* Reading a place beyond the end of the array fails.
ReadRecord(x) ==
  /\ call = Idle
  /\ x[2] < totalOffers[x[1]]
  /\ call' = [pc |-> "events", since |-> Len(log), slot |-> x, record |-> offers[x]]
  /\ UNCHANGED logVars

\* Fault: the events are queried first and the record is read last.
ReadEvents_first ==
  /\ call.pc = "events"
  /\ LET status == OfferStatus(offers[call.slot], call.since, call.slot) IN
     call' = [pc |-> "got", since |-> call.since, until |-> Len(log), slot |-> call.slot,
              status |-> status, terms |-> offers[call.slot], invalid |-> FALSE]
  /\ UNCHANGED logVars

\* Fault: an offer's terms are not held against the listing.
ReadEvents_unchecked ==
  /\ call.pc = "events"
  /\ LET status == OfferStatus(call.record, Len(log), call.slot) IN
     call' = [pc |-> "got", since |-> call.since, until |-> Len(log), slot |-> call.slot,
              status |-> status, terms |-> call.record, invalid |-> FALSE]
  /\ UNCHANGED logVars

\* Only an offer that waits for the seller is held against the listing.
ReadEvents ==
  /\ call.pc = "events"
  /\ LET status == OfferStatus(call.record, Len(log), call.slot) IN
     call' = [pc |-> "got", since |-> call.since, until |-> Len(log), slot |-> call.slot,
              status |-> status, terms |-> call.record,
              invalid |-> status = "created" /\ ~Suits(Asked, call.record)]
  /\ UNCHANGED logVars

OfferRead == (\E x \in Slot : ReadRecord(x)) \/ ReadEvents

-----------------------------------------------------------------------------
(* getNotifications: the party's events, then every listing it created, then *)
(* the listing of every offer it made; then each offer found is loaded and   *)
(* validated, all of them concurrently.                                      *)

\* The status getListing shows for an offer.
FoldedAs ==
  [OfferCreated |-> "created", OfferAccepted |-> "accepted", OfferDisputed |-> "disputed",
   OfferRuling |-> "ruling", OfferFinalized |-> "finalized", OfferData |-> "sellerReviewed"]

ListedStatus(x) == LastIn(FoldedAs, Len(log), x, "none")

Notice(type, x) == [type |-> type, slot |-> x]

\* Fault: offer number 0 counts as no offer.
SellerNotices_truthy(l) ==
  LET named(type, status) ==
        {Notice(type, x) : x \in {x \in {l} \X OfferId : x[2] # 0 /\ ListedStatus(x) = status}}
  IN named("seller_listing_purchased", "created") \cup
     named("seller_review_received", "finalized")

SellerNotices(l) ==
  LET named(type, status) ==
        {Notice(type, x) : x \in {x \in {l} \X OfferId : ListedStatus(x) = status}}
  IN named("seller_listing_purchased", "created") \cup
     named("seller_review_received", "finalized")

BuyerNotices(x) ==
  IF ListedStatus(x) = "accepted" THEN {Notice("buyer_listing_shipped", x)} ELSE {}

By(party, name) == Picked(log, {i \in DOMAIN log : log[i].party = party /\ log[i].name = name})

ReadPartyEvents(party) ==
  /\ call = Idle
  /\ LET created == By(party, "ListingCreated")
         made    == By(party, "OfferCreated")
     IN call' = [pc |-> "listings", since |-> Len(log), party |-> party, found |-> {},
                 listings  |-> [i \in DOMAIN created |-> created[i].listing],
                 purchases |-> [i \in DOMAIN made |-> <<made[i].listing, made[i].offer>>]]
  /\ UNCHANGED logVars

ReadOwnListing ==
  /\ call.pc = "listings"
  /\ call.listings # <<>>
  /\ call' = [call EXCEPT !.listings = Tail(@),
                          !.found = @ \cup SellerNotices(Head(call.listings))]
  /\ UNCHANGED logVars

\* Reading a listing that does not exist fails, and the whole call with it.
ReadPurchase ==
  /\ call.pc = "listings"
  /\ call.listings = <<>>
  /\ call.purchases # <<>>
  /\ LET x == Head(call.purchases) IN
     call' = IF ListingExists(x[1])
             THEN [call EXCEPT !.purchases = Tail(@), !.found = @ \cup BuyerNotices(x)]
             ELSE [pc |-> "failed", since |-> call.since, party |-> call.party]
  /\ UNCHANGED logVars

StartChecks ==
  /\ call.pc = "listings"
  /\ call.listings = <<>>
  /\ call.purchases = <<>>
  /\ call' = [pc |-> "checks", since |-> call.since, until |-> Len(log),
              party |-> call.party, found |-> call.found, pending |-> call.found,
              invalid |-> {}, returned |-> {}]
  /\ UNCHANGED logVars

\* One offer's load ends.  The flag that an invalid offer clears is shared by
\* all of them: whatever ends later is left out too.
EndCheck(notice) ==
  LET x       == notice.slot
      invalid == IF /\ OfferStatus(offers[x], Len(log), x) = "created"
                    /\ ~Suits(Asked, offers[x])
                 THEN call.invalid \cup {notice}
                 ELSE call.invalid
  IN
  /\ call' = [call EXCEPT !.pending = @ \ {notice},
                          !.invalid = invalid,
                          !.returned = IF invalid = {} THEN @ \cup {notice} ELSE @]
  /\ UNCHANGED logVars

NotificationRead ==
  \/ \E party \in Account : ReadPartyEvents(party)
  \/ ReadOwnListing
  \/ ReadPurchase
  \/ StartChecks
  \/ call.pc = "checks" /\ \E notice \in call.pending : EndCheck(notice)

-----------------------------------------------------------------------------
(* getOffers: who made offers on a listing is one query; then every offer is *)
(* loaded and validated, all of them concurrently.  A load may fail for      *)
(* reasons of its own (its data, the node); the offer is then left out.      *)

\* The null address stands for whoever made the offers.
ReadOfferIds(l, buyer) ==
  /\ call = Idle
  /\ LET made(e) == /\ e.name = "OfferCreated"
                    /\ e.listing = l
                    /\ buyer \in {NullAddr, e.party}
         found == {<<l, log[i].offer>> : i \in {i \in DOMAIN log : made(log[i])}}
     IN call' = [pc |-> "loads", since |-> Len(log), listing |-> l, buyer |-> buyer,
                 pending |-> found, lost |-> {}, returned |-> {}]
  /\ UNCHANGED logVars

Waiting(x) == OfferStatus(offers[x], Len(log), x) = "created"

\* Fault: the first load that fails ends them all.
EndLoad_all(x, ok) ==
  /\ call.pc = "loads"
  /\ x \in call.pending
  /\ (ok /\ Waiting(x)) => Suits(Asked, offers[x])
  /\ call' = [call EXCEPT !.pending = IF ok THEN @ \ {x} ELSE {},
                          !.lost = IF ok THEN @ ELSE @ \cup {x},
                          !.returned = IF ok THEN @ \cup {x} ELSE @]
  /\ UNCHANGED logVars

EndLoad(x, ok) ==
  /\ call.pc = "loads"
  /\ x \in call.pending
  /\ (ok /\ Waiting(x)) => Suits(Asked, offers[x])
  /\ call' = [call EXCEPT !.pending = @ \ {x},
                          !.lost = IF ok THEN @ ELSE @ \cup {x},
                          !.returned = IF ok THEN @ \cup {x} ELSE @]
  /\ UNCHANGED logVars

OffersRead ==
  \/ \E l \in ListingId, buyer \in Party : ReadOfferIds(l, buyer)
  \/ \E x \in Slot, ok \in BOOLEAN : EndLoad(x, ok)

AdapterSpec ==
  AdapterInit /\ [][ChainStep \/ OfferRead \/ NotificationRead \/ OffersRead]_adapterVars

-----------------------------------------------------------------------------
(* What really happened to an offer.                                         *)

MovedBy ==
  [OfferCreated |-> "created", OfferAccepted |-> "accepted", OfferDisputed |-> "disputed",
   OfferWithdrawn |-> "withdrawn", OfferFinalized |-> "finalized", OfferRuling |-> "ruling"]

TrueStatus(n, x) == LastIn(MovedBy, n, x, "none")

HasData(n, x) == Mentions({"OfferData"}, n, x) # {}

\* getOffer reports a status that the offer had at some moment of the call,
\* even when it is accepted, withdrawn or finalized between the two requests,
\* unless data was attached to the offer.
StatusTimely ==
  (call.pc = "got" /\ ~HasData(call.until, call.slot)) =>
    \E n \in call.since .. call.until : TrueStatus(n, call.slot) = call.status

\* What stays true of an offer all through the call is in the notifications
\* found: the seller's waiting and finalized offers, the buyer's accepted ones.
NothingMissed ==
  call.pc = "checks" =>
    \A x \in {x \in Slot : ~HasData(call.until, x)} :
      LET sells == \E i \in 1 .. call.since : /\ log[i].name = "ListingCreated"
                                             /\ log[i].party = call.party
                                             /\ log[i].listing = x[1]
          buys  == \E i \in Mentions({"OfferCreated"}, call.since, x) :
                     log[i].party = call.party
          always(status) == \A n \in call.since .. call.until : TrueStatus(n, x) = status
          found(type) == Notice(type, x) \in call.found
      IN
      /\ sells /\ always("created")   => found("seller_listing_purchased")
      /\ sells /\ always("finalized") => found("seller_review_received")
      /\ buys  /\ always("accepted")  => found("buyer_listing_shipped")

\* getOffers answers with every offer the buyer had made on the listing before
\* the call, one whose own load failed excepted: neither an invalid offer nor
\* what happens to the others meanwhile takes a valid one with it.
OffersComplete ==
  (call.pc = "loads" /\ call.pending = {}) =>
    \A i \in 1 .. call.since :
      LET x == <<log[i].listing, log[i].offer>> IN
      ( /\ log[i].name = "OfferCreated"
        /\ log[i].listing = call.listing
        /\ call.buyer \in {NullAddr, log[i].party} )
      => x \in call.returned \cup call.lost

\* resource_marketplace.test.js: "should exclude notifications for invalid
\* offers".  The notifications of the other offers are returned.
OnlyInvalidExcluded ==
  (call.pc = "checks" /\ call.pending = {}) => call.returned = call.found \ call.invalid
=============================================================================
