-------------------------------- MODULE Search --------------------------------
(***************************************************************************)
(* What the GraphQL server answers from the search index: pages of         *)
(* listings, price ranges, and offers with the listings they refer to.     *)
(* Queries change nothing; they are operators on an index, a function from *)
(* the ids that have a document to the documents.                          *)
(*                                                                         *)
(* Elasticsearch is external.  It finds a text in the fields that are      *)
(* copied to all_text, scores what it finds, and breaks ties as long as    *)
(* nothing is written always in the same way.                              *)
(***************************************************************************)
EXTENDS Integers, Sequences, FiniteSets, FiniteSetsExt

CONSTANTS
  MaxResultsPerPage, \* the largest page that Discovery asks for
  DefaultHits        \* how many hits come back when a search does not say

-----------------------------------------------------------------------------
(* Listings.                                                                 *)

\* Only active listings are found; the empty text finds all of them.
Matches(index, text) ==
  {l \in DOMAIN index : /\ index[l].status = "active"
                        /\ text # "" => text \in index[l].all_text}

\* Other filters become an empty clause, and Elasticsearch refuses the search.
Translated(f) ==
  \/ f.operator \in {"GREATER_OR_EQUAL", "LESSER_OR_EQUAL", "EQUALS"}
  \/ f.operator = "CONTAINS" /\ f.valueType = "ARRAY_STRING"

Passes(doc, f) ==
  \/ f.operator = "GREATER_OR_EQUAL" /\ doc[f.name] >= f.value
  \/ f.operator = "LESSER_OR_EQUAL"  /\ doc[f.name] <= f.value
  \/ f.operator = "CONTAINS"         /\ doc[f.name] \in f.value
  \/ f.operator = "EQUALS"           /\ doc[f.name] = f.value

\* A text found in the title adds twice as much again; a commission counts 1/200.
Score(doc, text) ==
  (IF text # "" /\ text \in doc.title THEN 600 ELSE 200) + doc.commission

Hits(index, text, filters) ==
  LET S == {l \in Matches(index, text) : \A f \in filters : Passes(index[l], f)}
      n == Cardinality(S)
  IN CHOOSE s \in [1 .. n -> S] :
       /\ \A l \in S : \E i \in 1 .. n : s[i] = l
       /\ \A i, j \in 1 .. n :
            i < j => Score(index[s[i]], text) >= Score(index[s[j]], text)

\* Fault: the range is that of the listings that pass the filters.
Stats_filtered(index, text, filters) ==
  LET prices == {index[l].price : l \in {k \in Matches(index, text) :
                                           \A f \in filters : Passes(index[k], f)}}
  IN [maxPrice |-> IF prices = {} THEN 0 ELSE Max(prices),
      minPrice |-> IF prices = {} THEN 0 ELSE Min(prices)]

\* The second search leaves the filters out.
Stats(index, text, filters) ==
  LET prices == {index[l].price : l \in Matches(index, text)}
  IN [maxPrice |-> IF prices = {} THEN 0 ELSE Max(prices),
      minPrice |-> IF prices = {} THEN 0 ELSE Min(prices)]

\* The answer to "listings".
Listings(index, text, filters, numberOfItems, offset) ==
  LET hits  == Hits(index, text, filters)
      nodes == SubSeq(hits, offset + 1, Min({offset + numberOfItems, Len(hits)}))
  IN [offset |-> offset, numberOfItems |-> Len(nodes),
      totalNumberOfItems |-> Len(hits), stats |-> Stats(index, text, filters),
      nodes |-> nodes]

\* Fault: a caller may ask for a page of nothing.
DiscoverySearch_unclamped(index, text, numberOfItems, offset, filters) ==
  Listings(index, text, filters, Min({numberOfItems, MaxResultsPerPage}), Max({offset, 0}))

\* What the client's Discovery asks for: a page of one listing at least.
DiscoverySearch(index, text, numberOfItems, offset, filters) ==
  Listings(index, text, filters,
           Min({Max({numberOfItems, 1}), MaxResultsPerPage}), Max({offset, 0}))

-----------------------------------------------------------------------------
(* Offers.                                                                   *)

\* The possible answers to a search for offers: an option that is left out, or has a
\* name that is not read, puts no condition.  Nothing says how many hits are wanted.
OfferSearch(index, opts) ==
  LET S == {o \in DOMAIN index :
              /\ "buyerAddress" \in DOMAIN opts => index[o].buyer = opts.buyerAddress
              /\ "listingId" \in DOMAIN opts => index[o].listingId = opts.listingId}
  IN kSubset(Min({DefaultHits, Cardinality(S)}), S)

\* "offers", with either argument, both or none.
Offers(index, buyerAddress, listingId) ==
  LET args == [buyerAddress |-> buyerAddress, listingId |-> listingId]
  IN UNION {OfferSearch(index, [k \in K |-> args[k]]) : K \in SUBSET DOMAIN args}

\* The offers of a listing.
OffersOfListing(index, id) == OfferSearch(index, [listingId |-> id])

\* The offers of a user: the option has not the name that the search reads.
OffersOfUser(index, walletAddress) == OfferSearch(index, [buyer |-> walletAddress])
=============================================================================
