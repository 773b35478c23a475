-------------------------- MODULE MarketplaceClient --------------------------
(***************************************************************************)
(* How a client writes to the marketplace, and how what it has read before *)
(* and what it reads afterwards fit together: a listing is created and its *)
(* id is looked up, an offer is shown to the seller and then accepted, the *)
(* reviews of a listing are collected.  Everybody else goes on meanwhile,  *)
(* and any request may fail, also one whose transaction is mined later.    *)
(*                                                                         *)
(* The account a call is made from is read from the wallet when the call   *)
(* begins; the user may have another one selected by the next time.        *)
(***************************************************************************)
EXTENDS MarketplaceAdapter

CONSTANTS
  DeployedToken, \* the Origin Token contract the client is configured with
  Arbitrators,   \* arbitrators that listings name; the null address: none
  Commission     \* what some listings set aside, in Origin Token

ASSUME ClientAssumption ==
  /\ DeployedToken \in OriginToken
  /\ Arbitrators \subseteq Party
  /\ Commission \in Nat \ {0}

Answerable == call.pc = "got" /\ call.status = "created" /\ ~call.invalid

\* What the others do, as long as the call is not over.
OthersStep ==
  /\ call.pc \in {"got", "done", "failed"} => Answerable
  /\ LogNext
  /\ UNCHANGED call

Fail ==
  /\ call.pc \in {"events", "storing", "listing", "mined", "accepting"}
  /\ call' = [pc |-> "failed"]
  /\ UNCHANGED logVars

-----------------------------------------------------------------------------
(* createListing.  A commission travels with the token's approve-and-call,   *)
(* so the receipt is the token's and the id has to be looked for among the   *)
(* marketplace's events in the block of the transaction.                     *)

\* The data goes to IPFS first.
StoreListing(arbitrator, commission) ==
  /\ call = Idle
  /\ call' = [pc |-> "storing", arbitrator |-> arbitrator, commission |-> commission]
  /\ UNCHANGED logVars

\* Whoever is selected when the data is stored creates the listing.
StartListing(from) ==
  /\ call.pc = "storing"
  /\ call' = [pc |-> "listing", from |-> from, commission |-> call.commission,
              manager |-> IF call.arbitrator = NullAddr THEN from ELSE call.arbitrator]
  /\ UNCHANGED logVars

\* Fault: the account is not handed on, and read again for the transaction.
SendListing_reread ==
  /\ call.pc = "listing"
  /\ \E sender \in Account :
       /\ IF call.commission > 0
          THEN createListingWithSender(DeployedToken, sender, call.commission, call.manager)
          ELSE createListing(sender, 0, call.manager)
       /\ EmitListing("ListingCreated", sender, totalListings)
  /\ call' = [pc |-> "mined", from |-> call.from, commission |-> call.commission,
              manager |-> call.manager, own |-> Len(log) + 1]

\* The token calls the marketplace with the parameters encoded by the client.
ViaToken == createListingWithSender(DeployedToken, call.from, call.commission, call.manager)

SendListing ==
  /\ call.pc = "listing"
  /\ IF call.commission > 0
     THEN ViaToken
     ELSE createListing(call.from, 0, call.manager)
  /\ EmitListing("ListingCreated", call.from, totalListings)
  /\ call' = [pc |-> "mined", from |-> call.from, commission |-> call.commission,
              manager |-> call.manager, own |-> Len(log) + 1]

ListedAs(id) ==
  call' = [pc |-> "done", from |-> call.from, manager |-> call.manager,
           own |-> call.own, id |-> id]

\* The receipt of a call to the marketplace holds its own events.
ReadReceipt ==
  /\ call.pc = "mined"
  /\ call.commission = 0
  /\ ListedAs(log[call.own].listing)
  /\ UNCHANGED logVars

\* Fault: the first listing created in the block is taken for the own one.
ReadBlock_first(first, last) ==
  /\ call.pc = "mined"
  /\ call.commission > 0
  /\ call.own \in first .. last /\ last <= Len(log)
  /\ LET created == {i \in first .. last : log[i].name = "ListingCreated"} IN
     ListedAs(log[CHOOSE i \in created : \A j \in created : i <= j].listing)
  /\ UNCHANGED logVars

\* The block holds the transactions first .. last, the own one among them; the
\* event is told by the hash of its transaction.
ReadBlock(first, last) ==
  /\ call.pc = "mined"
  /\ call.commission > 0
  /\ call.own \in first .. last /\ last <= Len(log)
  /\ \E i \in first .. last :
       /\ log[i].name = "ListingCreated"
       /\ i = call.own
       /\ ListedAs(log[i].listing)
  /\ UNCHANGED logVars

ListingWrite ==
  \/ \E arbitrator \in Arbitrators, commission \in {0, Commission} :
       StoreListing(arbitrator, commission)
  \/ \E from \in Account : StartListing(from)
  \/ SendListing
  \/ ReadReceipt
  \/ \E first, last \in 1 .. MaxLog : ReadBlock(first, last)

-----------------------------------------------------------------------------
(* acceptOffer, of an offer that getOffer has returned as waiting.           *)

StartAccept(from) ==
  /\ Answerable
  /\ call' = [pc |-> "accepting", from |-> from, slot |-> call.slot, shown |-> call.terms]
  /\ UNCHANGED logVars

SendAccept ==
  /\ call.pc = "accepting"
  /\ acceptOffer(call.from, call.slot)
  /\ EmitOffer("OfferAccepted", call.from, call.slot)
  /\ call' = [call EXCEPT !.pc = "done"]

-----------------------------------------------------------------------------
(* The other calls send one transaction and look at nothing but its receipt. *)

\* A listing's deposit is asked for by, and goes to, the account of the call.
SendWithdrawal(from, l) ==
  withdrawListing(from, l, from) /\ EmitListing("ListingWithdrawn", from, l)

SendOffer(from, l, t) ==
  makeOffer(from, l, t) /\ EmitOffer("OfferCreated", from, NextSlot(l))

SendData(from, x) == addOfferData(from, x)

SendOnOffer(from, x) ==
  \/ withdrawOffer(from, x) /\ EmitOffer("OfferWithdrawn", from, x)
  \/ finalize(from, x) /\ EmitOffer("OfferFinalized", from, x)
  \/ dispute(from, x) /\ EmitOffer("OfferDisputed", from, x)
  \/ SendData(from, x)
  \/ \E ruling \in 0 .. 3, refund \in Amounts :
       /\ executeRuling(from, x, ruling % 2 = 1, ruling >= 2, refund)
       /\ EmitOffer("OfferRuling", from, x)

OtherCall(from) ==
  \/ \E l \in ListingId : SendWithdrawal(from, l)
  \/ \E l \in ListingId, t \in Terms : SendOffer(from, l, t)
  \/ \E x \in Slot : SendOnOffer(from, x)

OtherWrite ==
  /\ call = Idle
  /\ \E from \in Account : OtherCall(from)
  /\ call' = [pc |-> "done"]

-----------------------------------------------------------------------------
(* getListingReviews: the events of the listing, then the data of each       *)
(* review.  One that is no review fails the call.                            *)

ReviewEvent == {"OfferFinalized", "OfferData"}

ReadReviewEvents(l) ==
  /\ call = Idle
  /\ \E i \in DOMAIN log : log[i].name = "ListingCreated" /\ log[i].listing = l
  /\ call' = [pc |-> "reviews", listing |-> l, returned |-> <<>>,
              pending |-> Picked(log, {i \in DOMAIN log :
                                         /\ log[i].listing = l
                                         /\ log[i].name \in ReviewEvent})]
  /\ UNCHANGED logVars

LoadReview ==
  /\ call.pc = "reviews"
  /\ call.pending # <<>>
  /\ call' = [call EXCEPT !.pending = Tail(@), !.returned = Append(@, Head(call.pending))]
  /\ UNCHANGED logVars

\* Data that names no schema, or another one than that of reviews.
NoReview ==
  /\ call.pc = "reviews"
  /\ call.pending # <<>>
  /\ call' = [pc |-> "failed"]
  /\ UNCHANGED logVars

ReviewsRead == (\E l \in ListingId : ReadReviewEvents(l)) \/ LoadReview \/ NoReview

-----------------------------------------------------------------------------
(* getListings: the ids, each once, then every listing concurrently.  One    *)
(* that cannot be loaded fails the call: an offer on a listing that does not *)
(* exist keeps its buyer from listing the purchases.                         *)

ListingsIn(events) == {events[i].listing : i \in DOMAIN events}

IdsOf(query, party) ==
  CASE query = "purchasesFor" -> ListingsIn(By(party, "OfferCreated"))
    [] query = "listingsFor"  -> ListingsIn(By(party, "ListingCreated"))
    [] query = "all"          -> {l \in ListingId : ListingExists(l)}

ReadListingIds(query, party) ==
  /\ call = Idle
  /\ call' = [pc |-> "loading", ids |-> IdsOf(query, party), pending |-> IdsOf(query, party)]
  /\ UNCHANGED logVars

LoadListing(l) ==
  /\ call.pc = "loading"
  /\ l \in call.pending
  /\ IF ListingExists(l)
     THEN call' = [call EXCEPT !.pending = @ \ {l}]
     ELSE call' = [pc |-> "failed"]
  /\ UNCHANGED logVars

ListingsRead ==
  \/ \E query \in {"purchasesFor", "listingsFor", "all"}, party \in Account :
       ReadListingIds(query, party)
  \/ \E l \in ListingId : LoadListing(l)

ClientSpec ==
  AdapterInit
  /\ [][ \/ OthersStep
         \/ OfferRead
         \/ ListingWrite
         \/ \E from \in Account : StartAccept(from)
         \/ SendAccept
         \/ OtherWrite
         \/ ReviewsRead
         \/ ListingsRead
         \/ Fail ]_adapterVars

-----------------------------------------------------------------------------

\* The id that createListing returns is the id of the listing its own
\* transaction created, whatever else is in the block and whatever account is
\* selected meanwhile: the caller is its seller, and decides over its deposit
\* unless an arbitrator was named.
CreatedIsOwn ==
  (call.pc = "done" /\ "id" \in DOMAIN call) =>
    /\ log[call.own] = About("ListingCreated", call.from, call.id, NoOfferId)
    /\ listings[call.id].seller = call.from
    /\ listings[call.id].depositManager = call.manager

\* What a seller accepts through the client is what was shown and validated,
\* though time passes between the two: the buyer, the price, the commission and
\* the arbitrator of the accepted offer are those of the record that was read,
\* and they satisfied the listing.
AcceptedAsShown ==
  (call.pc = "done" /\ "shown" \in DOMAIN call) =>
    LET o == offers[call.slot] IN
    /\ o.status = Accepted
    /\ o = [call.shown EXCEPT !.status = o.status, !.finalizes = o.finalizes]
    /\ Suits(Asked, o)

\* A review that came with the end of an offer is about an offer that the
\* seller of the listing had accepted, and is by its buyer or its seller.
ReviewsOfDeals ==
  call.pc = "reviews" =>
    \A k \in DOMAIN call.returned :
      LET e == call.returned[k]
          x == <<e.listing, e.offer>>
          by(name) == {log[i].party : i \in Mentions({name}, Len(log), x)}
          seller == listings[e.listing].seller
      IN e.name = "OfferFinalized" =>
           /\ by("OfferAccepted") = {seller}
           /\ e.party \in by("OfferCreated") \cup {seller}
=============================================================================
