---------------------------- MODULE MarketplaceLog ----------------------------
(***************************************************************************)
(* The marketplace contract together with the events it emits.  Clients    *)
(* have no other history: records of closed offers are deleted, and what   *)
(* became of an offer is only known from the log.  Events about neither a  *)
(* listing nor an offer (MarketplaceData, AffiliateAdded and -Removed)     *)
(* match none of the clients' queries and are left out; an instance may    *)
(* leave out more of them, those its queries do not look at.               *)
(***************************************************************************)
EXTENDS Marketplace, Sequences

CONSTANTS
  MaxLog, \* bound on the number of events
  Kept    \* names of the events that an instance keeps

VARIABLE log

logVars == <<vars, log>>

NoOfferId == MaxOffers \* in events about a listing as a whole

ListingEvent == {"ListingCreated", "ListingUpdated", "ListingWithdrawn",
                 "ListingArbitrated", "ListingData"}

OfferEvent == {"OfferCreated", "OfferAccepted", "OfferFinalized", "OfferWithdrawn",
               "OfferFundsAdded", "OfferDisputed", "OfferRuling", "OfferData"}

ASSUME LogAssumption ==
  /\ MaxLog \in Nat
  /\ Kept \subseteq ListingEvent \cup OfferEvent

Event == [name : ListingEvent \cup OfferEvent, party : Party,
          listing : ListingId, offer : 0 .. MaxOffers]

About(name, party, l, o) == [name |-> name, party |-> party, listing |-> l, offer |-> o]

\* The event, if the instance keeps it.
Logged(e) == IF e.name \in Kept THEN <<e>> ELSE <<>>

Emit(events) == log' = log \o events /\ Len(log') <= MaxLog

EmitListing(name, party, l) == Emit(Logged(About(name, party, l, NoOfferId)))

EmitOffer(name, party, x) == Emit(Logged(About(name, party, x[1], x[2])))

-----------------------------------------------------------------------------

\* Anybody may attach data to any listing or offer, existing or not.
addListingData(sender, l) ==
  /\ EmitListing("ListingData", sender, l)
  /\ UNCHANGED vars

addOfferData(sender, x) ==
  /\ EmitOffer("OfferData", sender, x)
  /\ UNCHANGED vars

LoggedListingStep(sender) ==
  \/ \E d \in Amounts, m \in Managers :
       /\ \/ createListing(sender, d, m)
          \/ \E t \in OriginToken : createListingWithSender(t, sender, d, m)
       /\ EmitListing("ListingCreated", sender, totalListings)
  \/ \E l \in ListingId, d \in Amounts :
       /\ \/ updateListing(sender, l, d)
          \/ \E t \in OriginToken : updateListingWithSender(t, sender, l, d)
       /\ EmitListing("ListingUpdated", sender, l)
  \/ \E l \in ListingId, d \in Amounts, target \in Managers :
       sendDeposit(sender, l, target, d) /\ EmitListing("ListingArbitrated", target, l)
  \/ \E l \in ListingId, target \in Managers :
       withdrawListing(sender, l, target) /\ EmitListing("ListingWithdrawn", target, l)
  \/ \E l \in ListingId : addListingData(sender, l)

\* The place the next offer on the listing l takes.
NextSlot(l) == <<l, totalOffers[l]>>

\* Fault: the withdrawal inside a replacement is not announced.
LoggedReplacement_silent(sender, x, t) ==
  /\ makeOfferAfterWithdrawal(sender, x, t)
  /\ EmitOffer("OfferCreated", sender, NextSlot(x[1]))

\* A replacement emits two events, in one transaction.
LoggedReplacement(sender, x, t) ==
  /\ makeOfferAfterWithdrawal(sender, x, t)
  /\ Emit(Logged(About("OfferWithdrawn", sender, x[1], x[2])) \o
          Logged(About("OfferCreated", sender, x[1], totalOffers[x[1]])))

LoggedOfferStep(sender) ==
  \/ \E l \in ListingId, t \in Terms :
       makeOffer(sender, l, t) /\ EmitOffer("OfferCreated", sender, NextSlot(l))
  \/ \E x \in Slot, t \in Terms : LoggedReplacement(sender, x, t)
  \/ \E x \in Slot :
       \/ withdrawOffer(sender, x) /\ EmitOffer("OfferWithdrawn", sender, x)
       \/ acceptOffer(sender, x) /\ EmitOffer("OfferAccepted", sender, x)
       \/ finalize(sender, x) /\ EmitOffer("OfferFinalized", sender, x)
       \/ dispute(sender, x) /\ EmitOffer("OfferDisputed", sender, x)
       \/ addOfferData(sender, x)
  \/ \E x \in Slot, v \in Amounts :
       \/ addFunds(sender, x, v) /\ EmitOffer("OfferFundsAdded", sender, x)
       \/ updateRefund(sender, x, v) /\ EmitOffer("OfferData", sender, x)
       \/ \E toBuyer, toAffiliate \in BOOLEAN :
            /\ executeRuling(sender, x, toBuyer, toAffiliate, v)
            /\ EmitOffer("OfferRuling", offers[x].arbitrator, x)

LogInit == Init /\ log = <<>>

LogNext ==
  \/ \E sender \in Account :
       \/ LoggedListingStep(sender)
       \/ LoggedOfferStep(sender)
       \/ OwnerStep(sender) /\ UNCHANGED log
  \/ Tick /\ UNCHANGED log

LogSpec == LogInit /\ [][LogNext]_logVars

-----------------------------------------------------------------------------
(* What the log says of an offer.                                            *)

\* The events of s at the places in I, in their order.
Picked(s, I) ==
  LET kept[i \in 0 .. Len(s)] ==
        IF i = 0 THEN <<>>
        ELSE IF i \in I THEN Append(kept[i - 1], s[i]) ELSE kept[i - 1]
  IN  kept[Len(s)]

OnOffer(e, x) == e.name \in OfferEvent /\ e.listing = x[1] /\ e.offer = x[2]

\* Where the first n events mention x under one of the names.
Mentions(names, n, x) == {i \in 1 .. n : OnOffer(log[i], x) /\ log[i].name \in names}

Latest(I) == CHOOSE i \in I : \A j \in I : j <= i

\* The value that the last event about x named in the table has in it.
LastIn(table, n, x, default) ==
  LET I == Mentions(DOMAIN table, n, x) IN
  IF I = {} THEN default ELSE table[log[Latest(I)].name]

\* The events that move an offer from one status to another.
MovesTo ==
  [OfferCreated |-> Created, OfferAccepted |-> Accepted, OfferDisputed |-> Disputed,
   OfferWithdrawn |-> Undefined, OfferFinalized |-> Undefined, OfferRuling |-> Undefined]

\* The log determines the status of every offer: each call that changes a
\* status emits the one event that says so, replacements included, and no other
\* call emits one of these events.
LogTells == \A x \in Slot : offers[x].status = LastIn(MovesTo, Len(log), x, Undefined)
=============================================================================
