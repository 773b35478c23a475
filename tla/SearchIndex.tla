----------------------------- MODULE SearchIndex -----------------------------
(***************************************************************************)
(* The indexing daemon and the queries on what it wrote: at every moment,  *)
(* also between two writes for the same event, after a failed one and       *)
(* after a restart, the search index is what Search answers from.           *)
(***************************************************************************)
EXTENDS Listener, Integers

CONSTANTS
  Versions,          \* of each listing: its data after each event about it
  BuyerOf,           \* of each offer
  Texts, FilterSets, \* what is searched for
  Sizes,             \* page sizes that callers ask for
  MaxResultsPerPage, DefaultHits

S == INSTANCE Search

ASSUME SearchIndexAssumption ==
  /\ {MaxResultsPerPage, DefaultHits} \subseteq Nat \ {0}
  /\ IsFiniteSet(Listing) /\ DOMAIN BuyerOf = Offer
  /\ Versions \in [Listing -> Seq([status : STRING, title : SUBSET STRING,
                                   all_text : SUBSET STRING, category : STRING,
                                   price : Int, commission : Nat]) \ {<<>>}]
  /\ Sizes \subseteq Int
  /\ \A filters \in FilterSets : \A f \in filters : S!Translated(f)
  \* The id of an offer begins with that of its listing.
  /\ \A b, c \in Contents : \A i \in DOMAIN b, j \in DOMAIN c :
       b[i].offer = c[j].offer /\ b[i].offer # NoOffer => b[i].listing = c[j].listing

Indexed(Items) == {item \in Items : stored["search"][item] > 0}

\* A listing is indexed as it was when it was read; its last version stays.
DataAsOf(l, block) ==
  LET events == {p \in Places : p[1] <= block /\ HasRule(p)
                                /\ EventAt(p) = [EventAt(p) EXCEPT !.listing = l,
                                                                   !.offer = NoOffer]}
  IN Versions[l][Min(Cardinality(events), Len(Versions[l]))]

ListingIndex == [l \in Indexed(Listing) |-> DataAsOf(l, stored["search"][l])]

ListingOf(o) == CHOOSE l \in Listing : \E p \in Places : Mentions(p, o) /\ Mentions(p, l)

OfferIndex ==
  [o \in Indexed(Offer) |-> [listingId |-> ListingOf(o), buyer |-> BuyerOf[o]]]

-----------------------------------------------------------------------------
(* Properties.                                                               *)

\* discovery.js, search.js: a caller who starts at offset 0 and goes on by the number
\* of items each page had, in pages of whatever size, has seen after no more pages than
\* there are listings every one that is active, matches and passes the filters, once,
\* and as many as the first page said in total.  The price range that comes with a page,
\* from which a caller chooses a filter, covers also what the filters hide.
WalkComplete ==
  LET index == ListingIndex IN
  \A text \in Texts, filters \in FilterSets, size \in Sizes :
    LET page(offset) == S!DiscoverySearch(index, text, size, offset, filters)
        first == page(0)
        walk[n \in Nat] ==
          IF n = 0 THEN <<>>
          ELSE LET seen == walk[n - 1] IN seen \o page(Len(seen)).nodes
        all == walk[Cardinality(DOMAIN index)]
        matching == S!Matches(index, text)
        wanted == {l \in matching : \A f \in filters : S!Passes(index[l], f)}
    IN /\ {all[i] : i \in DOMAIN all} = wanted
       /\ Len(all) = Cardinality(wanted)
       /\ first.totalNumberOfItems = Len(all)
       /\ \A l \in matching :
            index[l].price \in first.stats.minPrice .. first.stats.maxPrice

\* apollo/index.js: an offer that any of the queries answers leads to its listing, which
\* a further request reads: no "Listing not found", wherever the listener is.
OfferResolves ==
  LET index == OfferIndex IN
  \A o \in Offer, l \in Listing :
    \A nodes \in S!Offers(index, BuyerOf[o], l) \cup S!OffersOfListing(index, l)
                  \cup S!OffersOfUser(index, BuyerOf[o]) :
      \A found \in nodes : index[found].listingId \in DOMAIN ListingIndex
=============================================================================
