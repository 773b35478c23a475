------------------------------ MODULE MCListener ------------------------------
(***************************************************************************)
(* A small instance of the indexing daemon and its search index for TLC.   *)
(***************************************************************************)
EXTENDS SearchIndex

CONSTANTS bike, boat, canoe, junk, bid

Ev(l, o) == [contract |-> "V00_Marketplace", listing |-> l, offer |-> o]

\* An empty block, one event about either kind of thing, two in one block, one about
\* a listing whose data never loads, and one that only looks like an event of the
\* marketplace.
Blocks ==
  {<<>>, <<Ev(bike, NoOffer)>>, <<Ev(bike, bid)>>,
   <<Ev(boat, NoOffer), Ev(canoe, NoOffer)>>,
   <<Ev(junk, NoOffer)>>, <<[Ev(bike, NoOffer) EXCEPT !.contract = "other"]>>}

Doc(status, title, price, category) ==
  [status |-> status, title |-> title, all_text |-> title \cup {"sale"}, price |-> price,
   category |-> category, commission |-> price]

\* One listing is changed, then withdrawn; the other is withdrawn.
DocVersions ==
  [l \in Listing |->
     IF l = bike THEN <<Doc("active", {"bike"}, 1, "sport"), Doc("active", {}, 3, "art"),
                        Doc("inactive", {}, 3, "art")>>
                 ELSE <<Doc("active", {}, 2, "sport"), Doc("inactive", {}, 2, "sport")>>]

Filter(name, value, valueType, operator) ==
  [name |-> name, value |-> value, valueType |-> valueType, operator |-> operator]

SomeFilters ==
  {{}, {Filter("price", 2, "FLOAT", "GREATER_OR_EQUAL")},
   {Filter("price", 2, "FLOAT", "LESSER_OR_EQUAL"),
    Filter("category", {"sport", "music"}, "ARRAY_STRING", "CONTAINS"),
    Filter("status", "active", "STRING", "EQUALS")}}

Buyers == [o \in Offer |-> "ann"]
=============================================================================
