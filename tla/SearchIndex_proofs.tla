-------------------------- MODULE SearchIndex_proofs --------------------------
(***************************************************************************)
(* For any contents of the chain, batch sizes, numbers of tries and        *)
(* failures: an offer in the index leads to its listing there, and a       *)
(* caller who goes through the pages of a search sees all that it matches, *)
(* whatever the nodes answer.  When the nodes agree on the head of the     *)
(* chain, the daemon skips no event, tells the webhook in order and        *)
(* replaces nothing by what is older.                                      *)
(***************************************************************************)
EXTENDS SearchIndex, NatSum_proofs, SequenceTheorems

-----------------------------------------------------------------------------
(* Finitely many places can be put in order.                                 *)

Counts(T, s) ==
  /\ s \in [1 .. Cardinality(T) -> T]
  /\ \A i, j \in 1 .. Cardinality(T) : i < j => Before(s[i], s[j])

Earlier(T, p) == {q \in T : Before(q, p)}

Rank(T, p) == Cardinality(Earlier(T, p)) + 1

LEMMA BeforeIsStrict ==
  ASSUME NEW p \in Nat \X Nat, NEW q \in Nat \X Nat, NEW r \in Nat \X Nat
  PROVE  /\ ~Before(p, p)
         /\ Before(p, q) /\ Before(q, r) => Before(p, r)
         /\ p # q => Before(p, q) \/ Before(q, p)
BY DEF Before

LEMMA RankIs ==
  ASSUME NEW T \in SUBSET (Nat \X Nat), IsFiniteSet(T), NEW p \in T
  PROVE  /\ Rank(T, p) \in 1 .. Cardinality(T)
         /\ \A q \in T : Before(p, q) => Rank(T, p) < Rank(T, q)
<1>1. \A q \in T : IsFiniteSet(Earlier(T, q)) /\ Cardinality(Earlier(T, q)) \in Nat
  BY FS_Subset, FS_CardinalityType DEF Earlier
<1>2. IsFiniteSet(T \ {p}) /\ Cardinality(T \ {p}) = Cardinality(T) - 1 /\ Cardinality(T) \in Nat
  BY FS_RemoveElement, FS_CardinalityType
<1>3. Earlier(T, p) \subseteq T \ {p}
  BY BeforeIsStrict DEF Earlier
<1>4. Cardinality(Earlier(T, p)) <= Cardinality(T) - 1
  BY <1>2, <1>3, FS_Subset
<1>5. ASSUME NEW q \in T, Before(p, q)
      PROVE  Rank(T, p) < Rank(T, q)
  <2>1. Earlier(T, p) \cup {p} \subseteq Earlier(T, q) /\ p \notin Earlier(T, p)
    BY <1>5, BeforeIsStrict DEF Earlier
  <2>2. Cardinality(Earlier(T, p) \cup {p}) = Cardinality(Earlier(T, p)) + 1
    BY <1>1, <2>1, FS_AddElement
  <2>3. Cardinality(Earlier(T, p) \cup {p}) <= Cardinality(Earlier(T, q))
    BY <1>1, <2>1, FS_Subset
  <2> QED  BY <1>1, <2>2, <2>3 DEF Rank
<1> QED  BY <1>1, <1>2, <1>4, <1>5 DEF Rank

LEMMA OrderExists ==
  ASSUME NEW T \in SUBSET (Nat \X Nat), IsFiniteSet(T)
  PROVE  \E s : Counts(T, s)
<1> DEFINE n == Cardinality(T)
           rank == [p \in T |-> Rank(T, p)]
           s == [i \in 1 .. n |-> CHOOSE p \in T : Rank(T, p) = i]
<1>0. n \in Nat
  BY FS_CardinalityType
<1>1. \A p, q \in T : p # q => Rank(T, p) # Rank(T, q)
  <2> SUFFICES ASSUME NEW p \in T, NEW q \in T, p # q
               PROVE  Rank(T, p) # Rank(T, q)
    OBVIOUS
  <2>1. Rank(T, p) \in Nat /\ Rank(T, q) \in Nat
    BY RankIs
  <2>2. Before(p, q) \/ Before(q, p)
    BY BeforeIsStrict
  <2> QED  BY <2>1, <2>2, RankIs
<1>2. rank \in Injection(T, 1 .. n)
  BY <1>1, RankIs DEF Injection, IsInjective
<1>3. IsFiniteSet(1 .. n) /\ Cardinality(1 .. n) = n
  BY <1>0, FS_Interval
<1>4. rank \in Surjection(T, 1 .. n)
  BY <1>2, <1>3, FS_Injection
<1>5. \A i \in 1 .. n : \E p \in T : Rank(T, p) = i
  BY <1>4 DEF Surjection
<1>6. \A i \in 1 .. n : s[i] \in T /\ Rank(T, s[i]) = i
  BY <1>5
<1>7. \A i, j \in 1 .. n : i < j => Before(s[i], s[j])
  <2> SUFFICES ASSUME NEW i \in 1 .. n, NEW j \in 1 .. n, i < j
               PROVE  Before(s[i], s[j])
    OBVIOUS
  <2> DEFINE p == s[i]
             q == s[j]
  <2>1. p \in T /\ q \in T /\ Rank(T, p) = i /\ Rank(T, q) = j
    BY <1>6
  <2> HIDE DEF p, q
  <2>2. p # q
    BY <2>1
  <2>3. ~Before(q, p)
    <3>1. Before(q, p) => Rank(T, q) < Rank(T, p)
      BY <2>1, RankIs
    <3> QED  BY <1>0, <2>1, <3>1
  <2>4. Before(p, q)
    BY <2>1, <2>2, <2>3, BeforeIsStrict
  <2> QED  BY <2>4 DEF p, q
<1>8. s \in [1 .. n -> T]
  BY <1>6
<1>9. Counts(T, s)
  BY <1>7, <1>8 DEF Counts
<1> QED  BY <1>9

\* The sequence s has every member of T, once.
Lists(T, s) ==
  /\ s \in Seq(T) /\ Len(s) = Cardinality(T)
  /\ \A p \in T : \E i \in 1 .. Len(s) : s[i] = p

\* What is counted in order is counted completely.
LEMMA CountedIsAll ==
  ASSUME NEW T \in SUBSET (Nat \X Nat), IsFiniteSet(T), NEW s, Counts(T, s)
  PROVE  Lists(T, s)
<1> DEFINE n == Cardinality(T)
<1>0. n \in Nat
  BY FS_CardinalityType
<1>1. s \in [1 .. n -> T]
  BY DEF Counts
<1>2. s \in Seq(T) /\ Len(s) = n
  BY <1>0, <1>1
<1>3. \A i, j \in 1 .. n : i # j => s[i] # s[j]
  <2> SUFFICES ASSUME NEW i \in 1 .. n, NEW j \in 1 .. n, i < j
               PROVE  s[i] # s[j]
    BY <1>0
  <2>1. Before(s[i], s[j])
    BY DEF Counts
  <2> QED  BY <1>1, <2>1, BeforeIsStrict
<1>4. s \in Injection(1 .. n, T)
  BY <1>1, <1>3 DEF Injection, IsInjective
<1>5. s \in Surjection(1 .. n, T)
  BY <1>0, <1>4, FS_Injection, FS_Interval
<1> QED  BY <1>2, <1>5 DEF Surjection, Lists

-----------------------------------------------------------------------------
(* The events.                                                               *)

AnyEvent == [contract : {"V00_Marketplace", "other"}, listing : Listing,
             offer : Offer \cup {NoOffer}]

ChainTyped == chain \in Seq(Contents) /\ Len(chain) <= MaxHead

LEMMA BlockIs ==
  ASSUME NEW c \in Seq(Contents), NEW b \in 1 .. Len(c)
  PROVE  c[b] \in Seq(AnyEvent) /\ Len(c[b]) \in Nat /\ DOMAIN c[b] = 1 .. Len(c[b])
<1>1. c[b] \in Contents
  OBVIOUS
<1>2. Contents \subseteq Seq(AnyEvent)
  BY ListenerAssumption DEF AnyEvent
<1> QED  BY <1>1, <1>2

LEMMA PlacesOf ==
  ASSUME NEW c \in Seq(Contents)
  PROVE  UNION {{b} \X DOMAIN c[b] : b \in DOMAIN c}
           = {p \in Nat \X Nat : p[1] \in 1 .. Len(c) /\ p[2] \in 1 .. Len(c[p[1]])}
<1>1. DOMAIN c = 1 .. Len(c) /\ Len(c) \in Nat
  OBVIOUS
<1>2. ASSUME NEW p \in UNION {{b} \X DOMAIN c[b] : b \in DOMAIN c}
      PROVE  p \in Nat \X Nat /\ p[1] \in 1 .. Len(c) /\ p[2] \in 1 .. Len(c[p[1]])
  <2>1. PICK b \in 1 .. Len(c) : p \in {b} \X DOMAIN c[b]
    BY <1>1
  <2>2. DOMAIN c[b] = 1 .. Len(c[b]) /\ Len(c[b]) \in Nat
    BY BlockIs
  <2> QED  BY <1>1, <2>1, <2>2
<1>3. ASSUME NEW p \in Nat \X Nat, p[1] \in 1 .. Len(c), p[2] \in 1 .. Len(c[p[1]])
      PROVE  p \in UNION {{b} \X DOMAIN c[b] : b \in DOMAIN c}
  <2>1. p \in {p[1]} \X DOMAIN c[p[1]]
    BY <1>3, BlockIs
  <2> QED  BY <1>1, <1>3, <2>1
<1> QED  BY <1>2, <1>3

LEMMA PlaceIs ==
  ASSUME ChainTyped
  PROVE  /\ Places = {p \in Nat \X Nat : p[1] \in 1 .. Len(chain) /\ p[2] \in 1 .. Len(chain[p[1]])}
         /\ \A p \in Places : /\ p \in Nat \X Nat
                              /\ p[1] \in 1 .. Len(chain)
                              /\ EventAt(p) \in AnyEvent
<1>1. chain \in Seq(Contents)
  BY DEF ChainTyped
<1>2. Places = {p \in Nat \X Nat : p[1] \in 1 .. Len(chain) /\ p[2] \in 1 .. Len(chain[p[1]])}
  BY <1>1, PlacesOf DEF Places
<1>3. ASSUME NEW p \in Places
      PROVE  EventAt(p) \in AnyEvent
  BY <1>1, <1>2, BlockIs DEF EventAt
<1> QED  BY <1>2, <1>3

LEMMA PlacesFinite ==
  ASSUME ChainTyped
  PROVE  IsFiniteSet(Places)
<1>1. DOMAIN chain = 1 .. Len(chain) /\ Len(chain) \in Nat
  BY DEF ChainTyped
<1>2. \A b \in 1 .. Len(chain) : IsFiniteSet({b} \X DOMAIN chain[b])
  <2> SUFFICES ASSUME NEW b \in 1 .. Len(chain) PROVE IsFiniteSet({b} \X DOMAIN chain[b])
    OBVIOUS
  <2>1. IsFiniteSet({b})
    BY FS_Singleton
  <2>2. DOMAIN chain[b] = 1 .. Len(chain[b]) /\ Len(chain[b]) \in Nat
    BY BlockIs DEF ChainTyped
  <2>3. IsFiniteSet(DOMAIN chain[b])
    BY <2>2, FS_Interval
  <2> QED  BY <2>1, <2>3, FS_Product
<1> DEFINE f == [b \in 1 .. Len(chain) |-> {b} \X DOMAIN chain[b]]
<1>3. IsFiniteSet(1 .. Len(chain))
  BY <1>1, FS_Interval
<1>4. f \in Surjection(1 .. Len(chain), {f[b] : b \in 1 .. Len(chain)})
  BY Fun_IsSurj
<1>5. IsFiniteSet({f[b] : b \in 1 .. Len(chain)})
  BY <1>3, <1>4, FS_Surjection
<1>6. {f[b] : b \in 1 .. Len(chain)} = {{b} \X DOMAIN chain[b] : b \in DOMAIN chain}
  BY <1>1
<1>7. IsFiniteSet(UNION {f[b] : b \in 1 .. Len(chain)})
  BY <1>2, <1>5, FS_UNION
<1> QED  BY <1>6, <1>7 DEF Places

\* The chain as it was is the beginning of the new one.
LEMMA ChainGrows ==
  ASSUME ChainTyped, NEW block \in Contents, chain' = Append(chain, block), Len(chain) < MaxHead
  PROVE  /\ ChainTyped' /\ Len(chain') = Len(chain) + 1
         /\ Places \subseteq Places'
         /\ \A p \in Places : EventAt(p)' = EventAt(p)
         /\ \A p \in Places' : p[1] <= Len(chain) => p \in Places
<1>1. chain \in Seq(Contents) /\ Len(chain) \in Nat /\ MaxHead \in Nat
  BY ListenerAssumption DEF ChainTyped
<1>2. chain' \in Seq(Contents) /\ Len(chain') = Len(chain) + 1
  BY <1>1
<1>3. \A b \in 1 .. Len(chain) : chain'[b] = chain[b]
  BY <1>1
<1>4. ChainTyped'
  BY <1>1, <1>2 DEF ChainTyped
<1>5. Places' = {p \in Nat \X Nat : p[1] \in 1 .. Len(chain') /\ p[2] \in 1 .. Len(chain'[p[1]])}
  BY <1>2, PlacesOf DEF Places
<1>6. Places = {p \in Nat \X Nat : p[1] \in 1 .. Len(chain) /\ p[2] \in 1 .. Len(chain[p[1]])}
  BY PlaceIs
<1>7. \A p \in Nat \X Nat : p[1] \in 1 .. Len(chain) => p[1] \in 1 .. Len(chain')
  BY <1>1, <1>2
<1>8. Places \subseteq Places'
  BY <1>3, <1>5, <1>6, <1>7
<1>9. \A p \in Places : EventAt(p)' = EventAt(p)
  BY <1>3, PlaceIs DEF EventAt
<1>10. \A p \in Nat \X Nat : p[1] \in 1 .. Len(chain') /\ p[1] <= Len(chain) => p[1] \in 1 .. Len(chain)
  BY <1>1, <1>2
<1>11. \A p \in Places' : p[1] <= Len(chain) => p \in Places
  BY <1>3, <1>5, <1>6, <1>10
<1> QED  BY <1>2, <1>4, <1>8, <1>9, <1>11

LEMMA ChainSame ==
  ASSUME UNCHANGED chain
  PROVE  /\ Places' = Places /\ (ChainTyped => ChainTyped')
         /\ \A p : EventAt(p)' = EventAt(p) /\ (HasRule(p)' <=> HasRule(p))
         /\ Wanted' = Wanted
<1>1. Places' = Places /\ (ChainTyped => ChainTyped')
  BY DEF Places, ChainTyped
<1>2. \A p : EventAt(p)' = EventAt(p)
  BY DEF EventAt
<1>3. \A p : HasRule(p)' <=> HasRule(p)
  BY <1>2 DEF HasRule
<1> QED  BY <1>1, <1>2, <1>3 DEF Wanted

-----------------------------------------------------------------------------
(* What holds of the daemon's records and of its memory, between any two     *)
(* steps.                                                                    *)

Records ==
  /\ ChainTyped
  /\ file \in 0 .. Len(chain) \cup {Torn}
  /\ stored \in [Store -> [Item -> 0 .. Len(chain)]]
  /\ delivered \subseteq Places

Output == [to : Store \cup {"webhook"}, item : Item, asOf : Nat]

Memory ==
  /\ lastLogBlock \in 0 .. Len(chain) /\ current \in 0 .. Len(chain)
  /\ logs \in Seq(Places)
  /\ outputs \in Seq(Output)
  /\ related \in [listing : Nat, offer : Nat]

\* What the daemon must store about an event, and where.
Duties(e) ==
  (Store \X {e.listing}) \cup (IF e.offer = NoOffer THEN {} ELSE {<<"search", e.offer>>})

\* The places of the batch, and those that are still to be handled.
Batch == {p \in Places : HasRule(p) /\ lastLogBlock < p[1] /\ p[1] <= toBlock}

Remaining == {logs[i] : i \in 1 .. Len(logs)}

\* What is left of the batch is in order, and the rest of it is handled.
BatchFacts ==
  /\ lastLogBlock <= current
  /\ \A i, j \in 1 .. Len(logs) : i < j => Before(logs[i], logs[j])
  /\ Remaining \subseteq Batch
  /\ \A p \in Batch \ Remaining : p \in Wanted => Handled(p)

BatchSound ==
  /\ pc = "fetch" => lastLogBlock <= current
  /\ pc \in {"listing", "offer", "write"} => BatchFacts
  /\ pc \in {"offer", "write"} => logs # <<>>

\* A listing was read after all that is stored.
ReadSound ==
  pc = "offer" =>
    /\ EventAt(Head(logs)).offer # NoOffer
    /\ related.listing >= Head(logs)[1] /\ related.listing <= Len(chain)
    /\ \A s \in Store, item \in Item : stored[s][item] <= related.listing

\* Which place of the records the output o is about.
About(o, s, item) == s = o.to /\ item = o.item

\* One of the outputs, number i, for the event at p.
OutputSound(p, i) ==
  LET o == outputs[i]
      e == EventAt(p) IN
  /\ o.asOf \in p[1] .. Len(chain)
  /\ o.to = "webhook" <=> i = Len(outputs)
  /\ \A j \in 1 .. i - 1 : ~About(outputs[j], o.to, o.item)
  /\ o.to \in Store => <<o.to, o.item>> \in Duties(e) /\ stored[o.to][o.item] <= o.asOf

DutiesMet(p) ==
  \A d \in Duties(EventAt(p)) :
    \/ stored[d[1]][d[2]] >= p[1]
    \/ \E i \in 1 .. Len(outputs) : outputs[i].to = d[1] /\ outputs[i].item = d[2]

\* The outputs still to do complete what is done already; the webhook is last.
WriteSound ==
  pc = "write" =>
    /\ outputs # <<>>
    /\ EventAt(Head(logs)).listing \notin Unpriced
    /\ \A i \in 1 .. Len(outputs) : OutputSound(Head(logs), i)
    /\ DutiesMet(Head(logs))

Sound ==
  /\ Records /\ Memory
  /\ BatchSound /\ ReadSound /\ WriteSound
  /\ NothingSkipped /\ InOrder

LEMMA InitIsSound == Init => Sound
<1> SUFFICES ASSUME Init PROVE Sound
  OBVIOUS
<1>1. chain = <<>> /\ Len(chain) = 0 /\ MaxHead \in Nat
  BY ListenerAssumption DEF Init
<1>2. Places = {}
  BY <1>1 DEF Places
<1>3. Records
  BY <1>1 DEF Init, Records, ChainTyped, Nothing
<1>4. Memory
  BY <1>1 DEF Init, Memory, Unread
<1>5. BatchSound /\ ReadSound /\ WriteSound
  BY DEF Init, BatchSound, ReadSound, WriteSound
<1>6. NothingSkipped /\ InOrder
  BY <1>2 DEF Init, NothingSkipped, InOrder, Wanted
<1> QED  BY <1>3, <1>4, <1>5, <1>6 DEF Sound

-----------------------------------------------------------------------------
(* What was handled stays handled.                                           *)

\* Nothing is taken back.
Raised ==
  /\ stored' \in [Store -> [Item -> Nat]]
  /\ \A s \in Store, item \in Item : stored[s][item] <= stored'[s][item]
  /\ delivered \subseteq delivered'

LEMMA EventTyped ==
  ASSUME Records, NEW p \in Places
  PROVE  /\ p \in Nat \X Nat /\ p[1] \in 1 .. Len(chain)
         /\ EventAt(p).listing \in Item /\ EventAt(p).listing \in Listing
         /\ EventAt(p).offer \in Offer \cup {NoOffer}
         /\ EventAt(p).offer # NoOffer => EventAt(p).offer \in Item
         /\ EventAt(p).listing # EventAt(p).offer
<1>1. p \in Nat \X Nat /\ p[1] \in 1 .. Len(chain) /\ EventAt(p) \in AnyEvent
  BY PlaceIs DEF Records
<1> QED  BY <1>1, ListenerAssumption DEF AnyEvent, Item

LEMMA StoredTyped ==
  ASSUME Records
  PROVE  \A s \in Store, item \in Item : stored[s][item] \in 0 .. Len(chain) /\ stored[s][item] \in Nat
BY DEF Records, ChainTyped

LEMMA HandledIs ==
  ASSUME Records, NEW p \in Places
  PROVE  Handled(p) <=> /\ p \in delivered
                        /\ \A d \in Duties(EventAt(p)) : stored[d[1]][d[2]] >= p[1]
<1> DEFINE e == EventAt(p)
<1>1. \A d \in Store \X {e.listing} : d[1] \in Store /\ d[2] = e.listing
  OBVIOUS
<1>2. \A s \in Store : <<s, e.listing>> \in Store \X {e.listing}
  OBVIOUS
<1>3. (\A d \in Store \X {e.listing} : stored[d[1]][d[2]] >= p[1])
        <=> \A s \in Store : stored[s][e.listing] >= p[1]
  BY <1>1, <1>2
<1>4. CASE e.offer = NoOffer
  BY <1>3, <1>4 DEF Handled, Duties
<1>5. CASE e.offer # NoOffer
  <2>1. \A d \in {<<"search", e.offer>>} : d[1] = "search" /\ d[2] = e.offer
    OBVIOUS
  <2>2. Duties(e) = (Store \X {e.listing}) \cup {<<"search", e.offer>>}
    BY <1>5 DEF Duties
  <2>3. (\A d \in {<<"search", e.offer>>} : stored[d[1]][d[2]] >= p[1])
          <=> stored["search"][e.offer] >= p[1]
    BY <2>1
  <2> HIDE DEF e
  <2>4. (\A d \in Duties(e) : stored[d[1]][d[2]] >= p[1])
          <=> (\A s \in Store : stored[s][e.listing] >= p[1]) /\ stored["search"][e.offer] >= p[1]
    BY <1>3, <2>2, <2>3
  <2> QED  BY <1>5, <2>4 DEF Handled, e
<1> QED  BY <1>4, <1>5

LEMMA HandledStays ==
  ASSUME Records, NEW p \in Places, Handled(p), Raised, EventAt(p)' = EventAt(p)
  PROVE  Handled(p)'
<1> DEFINE e == EventAt(p)
<1>1. p[1] \in Nat /\ e.listing \in Item /\ (e.offer # NoOffer => e.offer \in Item)
  BY EventTyped
<1>2. \A s \in Store : stored[s][e.listing] >= p[1]
  BY DEF Handled
<1>3. e.offer # NoOffer => stored["search"][e.offer] >= p[1]
  BY DEF Handled
<1>4. \A s \in Store, item \in Item :
        stored[s][item] >= p[1] => stored'[s][item] >= p[1]
  <2> SUFFICES ASSUME NEW s \in Store, NEW item \in Item, stored[s][item] >= p[1]
               PROVE  stored'[s][item] >= p[1]
    OBVIOUS
  <2>1. stored[s][item] \in Nat /\ stored'[s][item] \in Nat /\ stored[s][item] <= stored'[s][item]
    BY StoredTyped DEF Raised
  <2> QED  BY <1>1, <2>1
<1>5. p \in delivered'
  BY DEF Handled, Raised
<1>6. \A s \in Store : stored'[s][e.listing] >= p[1]
  BY <1>1, <1>2, <1>4
<1>7. e.offer # NoOffer => stored'["search"][e.offer] >= p[1]
  BY <1>1, <1>3, <1>4 DEF Store
<1>8. EventAt(p)' = e
  OBVIOUS
<1> HIDE DEF e
<1> QED  BY <1>5, <1>6, <1>7, <1>8 DEF Handled

Seen(b) == b <= lastLogBlock \/ (file # Torn /\ b <= file)

LEMMA SkippedStays ==
  ASSUME Records, NothingSkipped, UNCHANGED chain, Raised,
         \A p \in Wanted : Seen(p[1])' => Seen(p[1]) \/ Handled(p)
  PROVE  NothingSkipped'
<1> SUFFICES ASSUME NEW p \in Wanted', Seen(p[1])'
             PROVE  Handled(p)'
  BY DEF NothingSkipped, Seen
<1>1. p \in Wanted /\ p \in Places /\ EventAt(p)' = EventAt(p)
  BY ChainSame DEF Wanted
<1>2. Handled(p)
  BY <1>1 DEF NothingSkipped, Seen
<1> QED  BY <1>1, <1>2, HandledStays

LEMMA BatchStays ==
  ASSUME Records, BatchFacts, UNCHANGED <<chain, lastLogBlock, current, logs>>, Raised
  PROVE  BatchFacts'
<1>1. Places' = Places /\ Wanted' = Wanted /\ (\A p : HasRule(p)' <=> HasRule(p))
  BY ChainSame
<1>2. toBlock' = toBlock
  BY DEF toBlock, Min
<1>3. Batch' = Batch
  BY <1>1, <1>2 DEF Batch
<1>4. Remaining' = Remaining
  BY DEF Remaining
<1>5. \A p \in Batch' \ Remaining' : p \in Wanted' => Handled(p)'
  <2> SUFFICES ASSUME NEW p \in Batch \ Remaining, p \in Wanted
               PROVE  Handled(p)'
    BY <1>1, <1>3, <1>4
  <2>1. p \in Places /\ EventAt(p)' = EventAt(p)
    BY ChainSame DEF Batch
  <2>2. Handled(p)
    BY DEF BatchFacts
  <2> QED  BY <2>1, <2>2, HandledStays
<1> QED  BY <1>3, <1>4, <1>5 DEF BatchFacts

-----------------------------------------------------------------------------
(* Steps that leave what is stored as it is.                                 *)

LEMMA RaisedSame ==
  ASSUME Records, UNCHANGED <<stored, delivered>>
  PROVE  Raised
<1>1. \A s \in Store, item \in Item : stored[s][item] \in Nat
  BY StoredTyped
<1>2. stored \in [Store -> [Item -> Nat]]
  BY <1>1 DEF Records
<1> QED  BY <1>1, <1>2 DEF Raised

LEMMA WorldSame ==
  ASSUME Sound, UNCHANGED <<chain, stored, delivered>>, file' \in 0 .. Len(chain) \cup {Torn}
  PROVE  Records' /\ InOrder'
<1>1. Places' = Places /\ Wanted' = Wanted /\ ChainTyped'
      /\ \A p : EventAt(p)' = EventAt(p) /\ (HasRule(p)' <=> HasRule(p))
  BY ChainSame DEF Sound, Records
<1>2. Records'
  BY <1>1 DEF Sound, Records
<1>3. InOrder'
  BY <1>1 DEF Sound, InOrder
<1> QED  BY <1>2, <1>3

LEMMA WriteSame ==
  ASSUME WriteSound, pc' = "write" => pc = "write",
         UNCHANGED <<chain, logs, outputs, stored>>
  PROVE  WriteSound'
<1>1. \A p : EventAt(p)' = EventAt(p)
  BY ChainSame
<1>2. \A p, i : OutputSound(p, i) => OutputSound(p, i)'
  BY <1>1 DEF OutputSound
<1>3. \A p : DutiesMet(p) => DutiesMet(p)'
  BY <1>1 DEF DutiesMet
<1> QED  BY <1>1, <1>2, <1>3 DEF WriteSound

\* The process is gone; what it left behind is as sound as before.
LEMMA DieStep ==
  ASSUME Sound, Die, UNCHANGED chain, Raised, file' \in {file, Torn},
         Records', InOrder'
  PROVE  Sound'
<1>1. Memory'
  BY DEF Die, Memory, Unread, Records, ChainTyped
<1>2. BatchSound' /\ ReadSound' /\ WriteSound'
  BY DEF Die, BatchSound, ReadSound, WriteSound
<1>3. \A p \in Wanted : Seen(p[1])' => Seen(p[1])
  <2> SUFFICES ASSUME NEW p \in Wanted, Seen(p[1])' PROVE Seen(p[1])
    OBVIOUS
  <2>1. p[1] \in 1 .. Len(chain)
    BY EventTyped DEF Sound, Wanted
  <2>2. ~(p[1] <= lastLogBlock')
    BY <2>1 DEF Die
  <2> QED  BY <2>2 DEF Seen
<1>4. NothingSkipped'
  BY <1>3, SkippedStays DEF Sound
<1> QED  BY <1>1, <1>2, <1>4 DEF Sound

\* The step is tried again.
LEMMA TryAgainStep ==
  ASSUME Sound, pc \in {"poll", "fetch", "listing", "offer", "write"}, TryAgain,
         UNCHANGED <<chain, file>>, Raised,
         Records', InOrder', WriteSound'
  PROVE  Sound'
<1>0. Places' = Places
  BY ChainSame
<1>1. Memory'
  BY <1>0 DEF Sound, TryAgain, Memory, Unread
<1>2. pc' \in {"poll", "listing", "write"} /\ (pc' # "poll" => pc \in {"listing", "offer", "write"})
      /\ (pc' = "write" => pc = "write")
  BY DEF TryAgain
<1>3. ReadSound'
  BY <1>2 DEF ReadSound
<1>4. pc' # "poll" => BatchFacts'
  BY <1>2, BatchStays DEF Sound, BatchSound, TryAgain
<1>5. BatchSound'
  BY <1>2, <1>4 DEF Sound, BatchSound, TryAgain
<1>6. \A p \in Wanted : Seen(p[1])' => Seen(p[1])
  BY DEF Seen, TryAgain
<1>7. NothingSkipped'
  BY <1>6, SkippedStays DEF Sound
<1> QED  BY <1>1, <1>3, <1>5, <1>7 DEF Sound

LEMMA StartStep ==
  ASSUME Sound, Start
  PROVE  Sound'
<1>1. Raised /\ Records' /\ InOrder'
  BY RaisedSame, WorldSame DEF Sound, Start, Records
<1>2. Places' = Places
  BY ChainSame DEF Start
<1>3. file \in 0 .. Len(chain)
  BY DEF Start, Sound, Records
<1>4. Memory'
  BY <1>2, <1>3 DEF Sound, Start, Memory
<1>5. BatchSound' /\ ReadSound' /\ WriteSound'
  BY DEF Start, BatchSound, ReadSound, WriteSound
<1>6. \A p \in Wanted : Seen(p[1])' => Seen(p[1])
  BY DEF Seen, Start
<1>7. NothingSkipped'
  BY <1>1, <1>6, SkippedStays DEF Sound, Start
<1> QED  BY <1>1, <1>4, <1>5, <1>7 DEF Sound

LEMMA PollStep ==
  ASSUME Sound, Poll(Len(chain))
  PROVE  Sound'
<1>0. UNCHANGED <<chain, file, stored, delivered, lastLogBlock, logs, outputs, related>> /\ pc = "poll"
  BY DEF Poll
<1>1. Raised /\ Records' /\ InOrder'
  BY <1>0, RaisedSame, WorldSame DEF Sound, Records
<1>2. Places' = Places
  BY <1>0, ChainSame
<1>3. current' \in 0 .. Len(chain)
  BY DEF Poll, Sound, Memory, Records, ChainTyped
<1>4. Memory'
  BY <1>0, <1>2, <1>3 DEF Sound, Memory
<1>5. pc' = "poll" \/ (pc' = "fetch" /\ current' = Len(chain))
  BY <1>0 DEF Poll
<1>6. lastLogBlock <= Len(chain)
  BY DEF Sound, Memory, Records, ChainTyped
<1>7. BatchSound' /\ ReadSound' /\ WriteSound'
  BY <1>0, <1>5, <1>6 DEF BatchSound, ReadSound, WriteSound
<1>8. \A p \in Wanted : Seen(p[1])' => Seen(p[1])
  BY <1>0 DEF Seen
<1>9. NothingSkipped'
  BY <1>0, <1>1, <1>8, SkippedStays DEF Sound
<1> QED  BY <1>1, <1>4, <1>7, <1>9 DEF Sound

\* The events of some blocks are fetched, all of them and in order.
LEMMA FetchedInOrder ==
  ASSUME Records, NEW from, NEW to
  PROVE  LET T == {p \in Places : p[1] \in from .. to /\ HasRule(p)} IN
         T \in SUBSET (Nat \X Nat) /\ IsFiniteSet(T) /\ Counts(T, PlacesBetween(from, to))
<1> DEFINE T == {p \in Places : p[1] \in from .. to /\ HasRule(p)}
<1>1. T \in SUBSET (Nat \X Nat) /\ IsFiniteSet(T)
  BY PlacesFinite, FS_Subset, EventTyped DEF Records
<1>2. PlacesBetween(from, to) = CHOOSE s : Counts(T, s)
  <2>1. \A s : Counts(T, s) <=>
               /\ s \in [1 .. Cardinality(T) -> T]
               /\ \A i, j \in 1 .. Cardinality(T) : i < j => Before(s[i], s[j])
    BY DEF Counts
  <2> QED  BY <2>1 DEF PlacesBetween
<1> HIDE DEF T
<1>3. Counts(T, PlacesBetween(from, to))
  BY <1>1, <1>2, OrderExists
<1> QED  BY <1>1, <1>3 DEF T

LEMMA FetchLogsStep ==
  ASSUME Sound, FetchLogs(Len(chain))
  PROVE  Sound'
<1>0. UNCHANGED <<chain, file, stored, delivered, lastLogBlock, current, outputs, related>>
      /\ pc = "fetch" /\ pc' = "listing"
      /\ logs' = PlacesBetween(lastLogBlock + 1, Min(toBlock, Len(chain)))
  BY DEF FetchLogs
<1>1. Raised /\ Records' /\ InOrder'
  BY <1>0, RaisedSame, WorldSame DEF Sound, Records
<1>2. Places' = Places
  BY <1>0, ChainSame
<1>3. lastLogBlock \in Nat /\ current \in Nat /\ Len(chain) \in Nat /\ MaxBatch \in Nat
      /\ current <= Len(chain)
  BY ListenerAssumption DEF Sound, Memory, Records, ChainTyped
<1>4. Min(toBlock, Len(chain)) = toBlock /\ toBlock \in Nat
  BY <1>3 DEF toBlock, Min
<1>5. {p \in Places : p[1] \in lastLogBlock + 1 .. toBlock /\ HasRule(p)} = Batch
  <2>1. \A p \in Places : p[1] \in Nat
    BY EventTyped DEF Sound
  <2>2. \A b \in Nat : b \in lastLogBlock + 1 .. toBlock <=> lastLogBlock < b /\ b <= toBlock
    BY <1>3, <1>4
  <2> QED  BY <2>1, <2>2 DEF Batch
<1>6. Batch \in SUBSET (Nat \X Nat) /\ IsFiniteSet(Batch) /\ Counts(Batch, logs')
  BY <1>0, <1>4, <1>5, FetchedInOrder DEF Sound
<1>9. /\ logs' \in Seq(Batch) /\ Len(logs') = Cardinality(Batch)
      /\ \A p \in Batch : \E i \in 1 .. Len(logs') : logs'[i] = p
  <2>1. Lists(Batch, logs')
    BY <1>6, CountedIsAll
  <2> QED  BY <2>1 DEF Lists
<1>10. Memory'
  BY <1>0, <1>2, <1>9 DEF Sound, Memory, Batch
<1>11. Batch' = Batch
  BY <1>0, <1>2, ChainSame DEF Batch, toBlock, Min
<1>12. Remaining' = Batch
  BY <1>9 DEF Remaining
<1>13. BatchFacts'
  BY <1>0, <1>6, <1>9, <1>11, <1>12 DEF BatchFacts, Counts, Sound, BatchSound
<1>14. BatchSound' /\ ReadSound' /\ WriteSound'
  BY <1>0, <1>13 DEF BatchSound, ReadSound, WriteSound
<1>15. \A p \in Wanted : Seen(p[1])' => Seen(p[1])
  BY <1>0 DEF Seen
<1>16. NothingSkipped'
  BY <1>0, <1>1, <1>15, SkippedStays DEF Sound
<1> QED  BY <1>1, <1>10, <1>14, <1>16 DEF Sound

\* The batch is handled when nothing remains of it.
LEMMA SaveStep ==
  ASSUME Sound, Save
  PROVE  Sound'
<1>0. UNCHANGED <<chain, stored, delivered, logs, outputs, related, current>>
      /\ pc = "listing" /\ pc' = "poll" /\ logs = <<>>
      /\ lastLogBlock' = toBlock /\ file' = toBlock
  BY DEF Save
<1>1. lastLogBlock \in Nat /\ current \in Nat /\ Len(chain) \in Nat /\ MaxBatch \in Nat
      /\ current <= Len(chain)
  BY ListenerAssumption DEF Sound, Memory, Records, ChainTyped
<1>2. toBlock \in 0 .. Len(chain)
  BY <1>1 DEF toBlock, Min
<1>3. Raised /\ Records' /\ InOrder'
  BY <1>0, <1>2, RaisedSame, WorldSame DEF Sound
<1>4. Places' = Places
  BY <1>0, ChainSame
<1>5. Memory'
  BY <1>0, <1>2, <1>4 DEF Sound, Memory
<1>6. BatchSound' /\ ReadSound' /\ WriteSound'
  BY <1>0 DEF BatchSound, ReadSound, WriteSound
<1>7. BatchFacts /\ Remaining = {}
  BY <1>0 DEF Sound, BatchSound, Remaining
<1>8. \A p \in Wanted : Seen(p[1])' => Seen(p[1]) \/ Handled(p)
  <2> SUFFICES ASSUME NEW p \in Wanted, Seen(p[1])', ~Seen(p[1])
               PROVE  Handled(p)
    OBVIOUS
  <2>1. p \in Places /\ HasRule(p) /\ p[1] \in Nat
    BY EventTyped DEF Wanted, Sound
  <2>2. p[1] <= toBlock
    BY <1>0 DEF Seen
  <2>3. lastLogBlock < p[1]
    BY <1>1, <2>1 DEF Seen
  <2>4. p \in Batch
    BY <2>1, <2>2, <2>3 DEF Batch
  <2> QED  BY <1>7, <2>4 DEF BatchFacts
<1>9. NothingSkipped'
  BY <1>0, <1>3, <1>8, SkippedStays DEF Sound
<1> QED  BY <1>3, <1>5, <1>6, <1>9 DEF Sound

\* A new block leaves the records and the memory as they are.
LEMMA MineTyped ==
  ASSUME Records, Memory, NEW block \in Contents, Mine(block)
  PROVE  Records' /\ Memory'
<1> DEFINE n == Len(chain)
<1>1. UNCHANGED <<file, pc, lastLogBlock, current, logs, related, outputs, stored, delivered>>
  BY DEF Mine, process
<1>2. n \in Nat /\ ChainTyped' /\ Len(chain') = n + 1 /\ Places \subseteq Places'
  BY ChainGrows DEF Mine, Records, ChainTyped
<1>3. 0 .. n \subseteq 0 .. n + 1
  BY <1>2
<1>4. Records'
  <2>1. stored \in [Store -> [Item -> 0 .. n]]
    BY DEF Records
  <2>2. \A s \in Store : stored[s] \in [Item -> 0 .. n + 1]
    BY <1>3, <2>1
  <2>3. stored' \in [Store -> [Item -> 0 .. n + 1]]
    BY <1>1, <2>1, <2>2
  <2> QED  BY <1>1, <1>2, <1>3, <2>3 DEF Records
<1>5. Memory'
  <2>1. logs \in Seq(Places)
    BY DEF Memory
  <2>2. logs' \in Seq(Places')
    BY <1>1, <1>2, <2>1
  <2> QED  BY <1>1, <1>2, <1>3, <2>2 DEF Memory
<1> QED  BY <1>4, <1>5

\* A new block is after all that the daemon has seen.
LEMMA MineStep ==
  ASSUME Sound, NEW block \in Contents, Mine(block)
  PROVE  Sound'
<1> DEFINE n == Len(chain)
<1>0. UNCHANGED <<file, process, stored, delivered, faults>>
      /\ chain' = Append(chain, block) /\ n < MaxHead
  BY DEF Mine
<1>1. UNCHANGED <<file, pc, lastLogBlock, current, logs, related, outputs, stored, delivered>>
  BY <1>0 DEF process
<1>2. ChainTyped /\ n \in Nat
  BY DEF Sound, Records, ChainTyped
<1>3. /\ ChainTyped' /\ Len(chain') = n + 1
      /\ Places \subseteq Places'
      /\ \A p \in Places : EventAt(p)' = EventAt(p)
      /\ \A p \in Places' : p[1] <= n => p \in Places
  BY <1>0, <1>2, ChainGrows
<1>4. Raised
  BY <1>1, RaisedSame DEF Sound
<1>6. Records' /\ Memory'
  BY MineTyped DEF Sound
<1>8. \A p \in Places : /\ HasRule(p)' <=> HasRule(p)
                        /\ p \in Wanted' <=> p \in Wanted
  <2> SUFFICES ASSUME NEW p \in Places
               PROVE  /\ HasRule(p)' <=> HasRule(p)
                      /\ p \in Wanted' <=> p \in Wanted
    OBVIOUS
  <2>1. EventAt(p)' = EventAt(p) /\ p \in Places'
    BY <1>3
  <2> QED  BY <2>1 DEF HasRule, Wanted
<1>9. \A p \in Places' : p[1] \in Nat
  <2>1. Records' => \A p \in Places' : p \in Nat \X Nat
    BY <1>3, PlacesOf DEF Places, ChainTyped
  <2> QED  BY <1>6, <2>1
<1>10. \A p \in Wanted' : p[1] <= n => p \in Wanted
  BY <1>3, <1>8 DEF Wanted
<1>11. NothingSkipped'
  <2> SUFFICES ASSUME NEW p \in Wanted', Seen(p[1])'
               PROVE  Handled(p)'
    BY DEF NothingSkipped, Seen
  <2>1. p[1] \in Nat
    BY <1>9 DEF Wanted
  <2>2. Seen(p[1])
    BY <1>1 DEF Seen
  <2>3. p[1] <= n
    <3>1. lastLogBlock \in 0 .. n /\ (file # Torn => file \in 0 .. n)
      BY DEF Sound, Memory, Records
    <3> QED  BY <1>2, <2>1, <2>2, <3>1 DEF Seen
  <2>4. p \in Wanted /\ Handled(p)
    BY <1>10, <2>2, <2>3 DEF Sound, NothingSkipped, Seen
  <2>5. p \in Places /\ EventAt(p)' = EventAt(p)
    BY <1>3, <2>4 DEF Wanted
  <2> QED  BY <1>4, <2>4, <2>5, HandledStays DEF Sound
<1>12. InOrder'
  <2> SUFFICES ASSUME NEW p \in delivered, NEW q \in Wanted', Before(q, p)
               PROVE  q \in delivered
    BY <1>1 DEF InOrder
  <2>1. p \in Places /\ p[1] <= n /\ p[1] \in Nat /\ q[1] \in Nat
    BY <1>2, <1>9, EventTyped DEF Sound, Records, Wanted
  <2>2. q[1] <= n
    BY <1>2, <2>1 DEF Before
  <2>3. q \in Wanted
    BY <1>10, <2>2
  <2> QED  BY <2>3 DEF Sound, InOrder
<1>14. pc \in {"listing", "offer", "write"} => BatchFacts'
  <2> SUFFICES ASSUME pc \in {"listing", "offer", "write"} PROVE BatchFacts'
    OBVIOUS
  <2>1. BatchFacts
    BY DEF Sound, BatchSound
  <2>2. toBlock' = toBlock /\ toBlock <= n
    BY <1>1, <1>2, ListenerAssumption DEF toBlock, Min, Sound, Memory
  <2>3. Batch' = Batch
    <3>1. \A p \in Places' : p[1] <= toBlock => p \in Places
      <4>1. toBlock \in Nat
        BY <1>2, ListenerAssumption DEF toBlock, Min, Sound, Memory
      <4> QED  BY <1>2, <1>3, <1>9, <2>2, <4>1
    <3> QED  BY <1>1, <1>3, <1>8, <2>2, <3>1 DEF Batch
  <2>4. Remaining' = Remaining
    BY <1>1 DEF Remaining
  <2>5. \A p \in Batch \ Remaining : p \in Wanted' => Handled(p)'
    <3> SUFFICES ASSUME NEW p \in Batch \ Remaining, p \in Wanted'
                 PROVE  Handled(p)'
      OBVIOUS
    <3>1. p \in Places /\ EventAt(p)' = EventAt(p) /\ p \in Wanted
      BY <1>3, <1>8 DEF Batch
    <3>2. Handled(p)
      BY <2>1, <3>1 DEF BatchFacts
    <3> QED  BY <1>4, <3>1, <3>2, HandledStays DEF Sound
  <2> QED  BY <1>1, <2>1, <2>3, <2>4, <2>5 DEF BatchFacts
<1>15. BatchSound'
  BY <1>1, <1>14 DEF Sound, BatchSound
<1>16. pc \in {"offer", "write"} => Head(logs) \in Places /\ EventAt(Head(logs))' = EventAt(Head(logs))
  <2>1. pc \in {"offer", "write"} => Head(logs) \in Places
    BY DEF Sound, BatchSound, Memory
  <2> QED  BY <1>1, <1>3, <2>1
<1>17. ReadSound'
  <2>1. related.listing \in Nat
    BY DEF Sound, Memory
  <2> QED  BY <1>1, <1>2, <1>3, <1>16, <2>1 DEF Sound, ReadSound
<1>18. WriteSound'
  <2> SUFFICES ASSUME pc = "write" PROVE WriteSound'
    BY <1>1 DEF WriteSound
  <2>0. PICK p : p = Head(logs)
    OBVIOUS
  <2>1. p \in Places /\ EventAt(p)' = EventAt(p) /\ p[1] \in Nat
    BY <1>3, <1>16, <2>0, EventTyped DEF Sound
  <2>2. \A i \in 1 .. Len(outputs) : OutputSound(p, i)
    BY <2>0 DEF Sound, WriteSound
  <2>3. p[1] .. n \subseteq p[1] .. n + 1
    BY <1>2, <2>1
  <2>4. Head(logs') = p
    BY <1>1, <2>0
  <2>5. \A i \in 1 .. Len(outputs) : OutputSound(p, i)'
    BY <1>1, <1>3, <2>1, <2>2, <2>3 DEF OutputSound
  <2>6. DutiesMet(p)'
    BY <1>1, <2>0, <2>1 DEF Sound, WriteSound, DutiesMet
  <2>7. outputs # <<>> /\ EventAt(p).listing \notin Unpriced
    BY <2>0 DEF Sound, WriteSound
  <2> QED  BY <1>1, <2>1, <2>4, <2>5, <2>6, <2>7 DEF WriteSound
<1> QED  BY <1>6, <1>11, <1>12, <1>15, <1>17, <1>18 DEF Sound

-----------------------------------------------------------------------------
(* From one event to the next.                                               *)

LEMMA HeadIs ==
  ASSUME Sound, logs # <<>>, pc \in {"listing", "offer", "write"}
  PROVE  /\ Head(logs) \in Places /\ Head(logs) \in Batch
         /\ Head(logs)[1] \in 1 .. Len(chain)
         /\ Head(logs) = logs[1] /\ Len(logs) \in Nat /\ Len(logs) >= 1
<1>1. logs \in Seq(Places)
  BY DEF Sound, Memory
<1>2. Head(logs) = logs[1] /\ Len(logs) \in Nat /\ Len(logs) >= 1
  BY <1>1
<1>3. Head(logs) \in Remaining
  BY <1>2 DEF Remaining
<1>4. Head(logs) \in Batch
  BY <1>3 DEF Sound, BatchSound, BatchFacts
<1>5. Head(logs) \in Places
  BY <1>4 DEF Batch
<1> QED  BY <1>2, <1>4, <1>5, EventTyped DEF Sound

LEMMA NextEvent ==
  ASSUME Sound, logs # <<>>, pc \in {"listing", "offer", "write"},
         logs' = Tail(logs), UNCHANGED <<chain, lastLogBlock, current>>, Raised,
         NEW first, first = Head(logs), first \in Wanted => Handled(first)'
  PROVE  BatchFacts' /\ logs' \in Seq(Places')
<1> DEFINE n == Len(logs)
<1>1. logs \in Seq(Places) /\ n \in Nat /\ n >= 1 /\ Head(logs) = logs[1]
  BY HeadIs DEF Sound, Memory
<1>2. logs' \in Seq(Places) /\ Len(logs') = n - 1 /\ \A i \in 1 .. n - 1 : logs'[i] = logs[i + 1]
  BY <1>1
<1>3. Places' = Places /\ Wanted' = Wanted /\ \A p : HasRule(p)' <=> HasRule(p)
  BY ChainSame
<1>4. BatchFacts
  BY DEF Sound, BatchSound
<1>5. Batch' = Batch
  BY <1>3 DEF Batch, toBlock, Min
<1>6. \A i, j \in 1 .. n - 1 : i < j => Before(logs'[i], logs'[j])
  <2> SUFFICES ASSUME NEW i \in 1 .. n - 1, NEW j \in 1 .. n - 1, i < j
               PROVE  Before(logs'[i], logs'[j])
    OBVIOUS
  <2>1. i + 1 \in 1 .. n /\ j + 1 \in 1 .. n /\ i + 1 < j + 1
    BY <1>1
  <2> QED  BY <1>2, <1>4, <2>1 DEF BatchFacts
<1>7. Remaining' \subseteq Remaining
  <2> SUFFICES ASSUME NEW i \in 1 .. n - 1 PROVE logs'[i] \in Remaining
    BY <1>2 DEF Remaining
  <2>1. i + 1 \in 1 .. n
    BY <1>1
  <2> QED  BY <1>2, <2>1 DEF Remaining
<1>8. \A p \in Remaining : p = Head(logs) \/ p \in Remaining'
  <2> SUFFICES ASSUME NEW i \in 1 .. n PROVE logs[i] = logs[1] \/ logs[i] \in Remaining'
    BY <1>1 DEF Remaining
  <2>1. CASE i = 1
    BY <2>1
  <2>2. CASE i # 1
    <3>1. i - 1 \in 1 .. n - 1 /\ (i - 1) + 1 = i
      BY <1>1, <2>2
    <3>2. logs'[i - 1] = logs[i]
      BY <1>2, <3>1
    <3> QED  BY <1>2, <3>1, <3>2 DEF Remaining
  <2> QED  BY <2>1, <2>2
<1>9. \A p \in Batch \ Remaining' : p \in Wanted => Handled(p)'
  <2> SUFFICES ASSUME NEW q \in Batch \ Remaining', q \in Wanted
               PROVE  Handled(q)'
    OBVIOUS
  <2>1. CASE q \in Remaining
    <3>1. q = first
      BY <1>8, <2>1
    <3> QED  BY <3>1
  <2>2. CASE q \notin Remaining
    <3>1. Handled(q)
      BY <1>4, <2>2 DEF BatchFacts
    <3>2. q \in Places /\ EventAt(q)' = EventAt(q)
      BY ChainSame DEF Batch
    <3> QED  BY <3>1, <3>2, HandledStays DEF Sound
  <2> QED  BY <2>1, <2>2
<1> QED  BY <1>2, <1>3, <1>4, <1>5, <1>6, <1>7, <1>9 DEF BatchFacts

-----------------------------------------------------------------------------
(* An event is loaded.                                                       *)

LEMMA Joined ==
  ASSUME NEW T, NEW s \in Seq(T), NEW t \in Seq(T), NEW r \in Seq(T),
         Len(r) = Len(s) + Len(t),
         \A i \in 1 .. Len(s) : r[i] = s[i],
         \A i \in 1 .. Len(t) : r[Len(s) + i] = t[i]
  PROVE  s \o t = r
<1>1. s \o t \in Seq(T) /\ Len(s \o t) = Len(r)
  BY ConcatProperties
<1>2. \A i \in 1 .. Len(r) : (s \o t)[i] = r[i]
  <2> SUFFICES ASSUME NEW i \in 1 .. Len(r) PROVE (s \o t)[i] = r[i]
    OBVIOUS
  <2>1. (s \o t)[i] = IF i <= Len(s) THEN s[i] ELSE t[i - Len(s)]
    BY ConcatProperties
  <2>2. CASE i <= Len(s)
    BY <2>1, <2>2
  <2>3. CASE ~(i <= Len(s))
    <3>1. i - Len(s) \in 1 .. Len(t) /\ Len(s) + (i - Len(s)) = i
      BY <2>3
    <3> QED  BY <2>1, <2>3, <3>1
  <2> QED  BY <2>2, <2>3
<1> QED  BY <1>1, <1>2, SeqEqual

LEMMA OutputsAre ==
  ASSUME NEW e \in AnyEvent, NEW rel \in [listing : Nat, offer : Nat]
  PROVE  /\ OutputsFor(e, rel) \in Seq(Output)
         /\ e.listing \in Unpriced => OutputsFor(e, rel) = <<>>
         /\ e.listing \notin Unpriced /\ e.offer = NoOffer =>
              OutputsFor(e, rel) =
                << Write("search", e.listing, rel.listing), Write("db", e.listing, rel.listing),
                   Write("webhook", e.listing, rel.listing) >>
         /\ e.listing \notin Unpriced /\ e.offer # NoOffer =>
              OutputsFor(e, rel) =
                << Write("search", e.listing, rel.listing), Write("search", e.offer, rel.offer),
                   Write("db", e.listing, rel.listing),
                   Write("webhook", e.listing, rel.listing) >>
<1> DEFINE a == Write("search", e.listing, rel.listing)
           b == Write("search", e.offer, rel.offer)
           c == Write("db", e.listing, rel.listing)
           d == Write("webhook", e.listing, rel.listing)
<1>1. a \in Output /\ c \in Output /\ d \in Output /\ (e.offer # NoOffer => b \in Output)
  BY DEF Write, Output, Store, Item, AnyEvent
<1> HIDE DEF a, b, c, d
<1>2. CASE e.listing \in Unpriced
  BY <1>2 DEF OutputsFor
<1>3. CASE e.listing \notin Unpriced /\ e.offer = NoOffer
  <2>1. OutputsFor(e, rel) = (<<a>> \o <<>>) \o <<c, d>>
    BY <1>3 DEF OutputsFor, a, c, d
  <2>2. (<<a>> \o <<>>) \o <<c, d>> = <<a, c, d>>
    <3>1. <<a>> \in Seq(Output)
      BY <1>1
    <3>2. <<a>> \o <<>> = <<a>>
      BY <3>1, ConcatEmptySeq
    <3>3. <<a>> \o <<c, d>> = <<a, c, d>>
      <4>1. PICK s, t, r : s = <<a>> /\ t = <<c, d>> /\ r = <<a, c, d>>
        OBVIOUS
      <4>2. Len(s) = 1 /\ Len(t) = 2 /\ Len(r) = Len(s) + Len(t)
        BY <4>1
      <4>3. \A i \in 1 .. Len(s) : r[i] = s[i]
        BY <4>1
      <4>4. \A i \in 1 .. Len(t) : r[Len(s) + i] = t[i]
        BY <4>1
      <4>5. s \in Seq(Output) /\ t \in Seq(Output) /\ r \in Seq(Output)
        BY <1>1, <4>1
      <4>6. s \o t = r
        BY <4>2, <4>3, <4>4, <4>5, Joined
      <4> QED  BY <4>1, <4>6
    <3> QED  BY <3>2, <3>3
  <2> QED  BY <1>1, <1>3, <2>1, <2>2 DEF a, c, d
<1>4. CASE e.listing \notin Unpriced /\ e.offer # NoOffer
  <2>1. OutputsFor(e, rel) = (<<a>> \o <<b>>) \o <<c, d>>
    BY <1>4 DEF OutputsFor, a, b, c, d
  <2>2. (<<a>> \o <<b>>) \o <<c, d>> = <<a, b, c, d>>
    <3>1. <<a>> \o <<b>> = <<a, b>>
      <4>1. PICK s, t, r : s = <<a>> /\ t = <<b>> /\ r = <<a, b>>
        OBVIOUS
      <4>2. Len(s) = 1 /\ Len(t) = 1 /\ Len(r) = Len(s) + Len(t)
        BY <4>1
      <4>3. \A i \in 1 .. Len(s) : r[i] = s[i]
        BY <4>1
      <4>4. \A i \in 1 .. Len(t) : r[Len(s) + i] = t[i]
        BY <4>1
      <4>5. s \in Seq(Output) /\ t \in Seq(Output) /\ r \in Seq(Output)
        BY <1>1, <1>4, <4>1
      <4>6. s \o t = r
        BY <4>2, <4>3, <4>4, <4>5, Joined
      <4> QED  BY <4>1, <4>6
    <3>2. <<a, b>> \o <<c, d>> = <<a, b, c, d>>
      <4>1. PICK s, t, r : s = <<a, b>> /\ t = <<c, d>> /\ r = <<a, b, c, d>>
        OBVIOUS
      <4>2. Len(s) = 2 /\ Len(t) = 2 /\ Len(r) = Len(s) + Len(t)
        BY <4>1
      <4>3. \A i \in 1 .. Len(s) : r[i] = s[i]
        BY <4>1
      <4>4. \A i \in 1 .. Len(t) : r[Len(s) + i] = t[i]
        BY <4>1
      <4>5. s \in Seq(Output) /\ t \in Seq(Output) /\ r \in Seq(Output)
        BY <1>1, <1>4, <4>1
      <4>6. s \o t = r
        BY <4>2, <4>3, <4>4, <4>5, Joined
      <4> QED  BY <4>1, <4>6
    <3> QED  BY <3>1, <3>2
  <2> QED  BY <1>1, <1>4, <2>1, <2>2 DEF a, b, c, d
<1> QED  BY <1>2, <1>3, <1>4

\* What there is to do for an event that was just loaded.
LEMMA FreshOutputs ==
  ASSUME Records, NEW p \in Places, NEW rel \in [listing : Nat, offer : Nat],
         rel.listing \in p[1] .. Len(chain),
         \A s \in Store, item \in Item : stored[s][item] <= rel.listing,
         EventAt(p).offer # NoOffer => rel.offer = Len(chain),
         EventAt(p).listing \notin Unpriced,
         UNCHANGED <<chain, stored>>, outputs' = OutputsFor(EventAt(p), rel)
  PROVE  /\ outputs' # <<>>
         /\ \A i \in 1 .. Len(outputs') : OutputSound(p, i)'
         /\ DutiesMet(p)'
<1> DEFINE e == EventAt(p)
           l == e.listing
           x == e.offer
<1>1. e \in AnyEvent /\ p[1] \in 1 .. Len(chain) /\ Len(chain) \in Nat
  BY PlaceIs DEF Records, ChainTyped
<1>2. l \in Item /\ (x # NoOffer => x \in Item) /\ l # x /\ x # l
  BY EventTyped
<1>3. EventAt(p)' = e
  BY ChainSame
<1>4. \A s \in Store, item \in Item : stored[s][item] <= Len(chain)
  BY StoredTyped
<1> HIDE DEF e
<1>5. CASE x = NoOffer
  <2>1. outputs' = << Write("search", l, rel.listing), Write("db", l, rel.listing),
                      Write("webhook", l, rel.listing) >>
    BY <1>1, <1>5, OutputsAre DEF e
  <2>2. Len(outputs') = 3
        /\ outputs'[1] = Write("search", l, rel.listing)
        /\ outputs'[2] = Write("db", l, rel.listing)
        /\ outputs'[3] = Write("webhook", l, rel.listing)
    BY <2>1
  <2>3. Duties(e) = {<<"search", l>>, <<"db", l>>}
    BY <1>5 DEF Duties, Store
  <2>4. OutputSound(p, 1)'
    BY <1>1, <1>2, <1>3, <1>5, <2>2, <2>3 DEF OutputSound, About, Write, Store
  <2>5. OutputSound(p, 2)'
    BY <1>1, <1>2, <1>3, <1>5, <2>2, <2>3 DEF OutputSound, About, Write, Store
  <2>6. OutputSound(p, 3)'
    BY <1>1, <1>2, <1>3, <1>5, <2>2, <2>3 DEF OutputSound, About, Write, Store
  <2>7. DutiesMet(p)'
    <3>1. \A d \in Duties(e) : \E i \in 1 .. 3 : outputs'[i].to = d[1] /\ outputs'[i].item = d[2]
      BY <2>2, <2>3 DEF Write
    <3> QED  BY <1>3, <2>2, <3>1 DEF DutiesMet
  <2> QED  BY <2>1, <2>2, <2>4, <2>5, <2>6, <2>7
<1>6. CASE x # NoOffer
  <2>1. outputs' = << Write("search", l, rel.listing), Write("search", x, rel.offer),
                      Write("db", l, rel.listing), Write("webhook", l, rel.listing) >>
    BY <1>1, <1>6, OutputsAre DEF e
  <2>2. Len(outputs') = 4
        /\ outputs'[1] = Write("search", l, rel.listing)
        /\ outputs'[2] = Write("search", x, rel.offer)
        /\ outputs'[3] = Write("db", l, rel.listing)
        /\ outputs'[4] = Write("webhook", l, rel.listing)
    BY <2>1
  <2>3. Duties(e) = {<<"search", l>>, <<"db", l>>, <<"search", x>>}
    BY <1>6 DEF Duties, Store
  <2>4. OutputSound(p, 1)'
    BY <1>1, <1>2, <1>3, <1>6, <2>2, <2>3 DEF OutputSound, About, Write, Store
  <2>5. OutputSound(p, 2)'
    <3>1. rel.offer = Len(chain)
      BY <1>6 DEF e
    <3>2. stored["search"][x] <= rel.offer /\ rel.offer \in p[1] .. Len(chain)
      BY <1>1, <1>2, <1>4, <1>6, <3>1 DEF Store
    <3>3. 1 \in 1 .. 2 - 1
      OBVIOUS
    <3> QED  BY <1>2, <1>3, <2>2, <2>3, <3>1, <3>2, <3>3 DEF OutputSound, About, Write, Store
  <2>6. OutputSound(p, 3)'
    BY <1>1, <1>2, <1>3, <1>6, <2>2, <2>3 DEF OutputSound, About, Write, Store
  <2>7. OutputSound(p, 4)'
    BY <1>1, <1>2, <1>3, <1>6, <2>2, <2>3 DEF OutputSound, About, Write, Store
  <2>8. DutiesMet(p)'
    <3>1. \A d \in Duties(e) : \E i \in 1 .. 4 : outputs'[i].to = d[1] /\ outputs'[i].item = d[2]
      BY <2>2, <2>3 DEF Write
    <3> QED  BY <1>3, <2>2, <3>1 DEF DutiesMet
  <2> QED  BY <2>1, <2>2, <2>4, <2>5, <2>6, <2>7, <2>8
<1> QED  BY <1>5, <1>6

LEMMA LoadedStep ==
  ASSUME Sound, pc \in {"listing", "offer"}, logs # <<>>,
         NEW rel \in [listing : Nat, offer : Nat], Loaded(rel),
         rel.listing \in Head(logs)[1] .. Len(chain),
         \A s \in Store, item \in Item : stored[s][item] <= rel.listing,
         EventAt(Head(logs)).offer # NoOffer => rel.offer = Len(chain),
         UNCHANGED <<chain, file, lastLogBlock, current, stored, delivered>>
  PROVE  Sound'
<1>0. PICK p : p = Head(logs)
  OBVIOUS
<1> DEFINE out == OutputsFor(EventAt(p), rel)
<1>1. p \in Places
  BY <1>0, HeadIs
<1>2. related' = Unread /\ outputs' = out
      /\ logs' = (IF out = <<>> THEN Tail(logs) ELSE logs)
      /\ pc' = (IF out = <<>> THEN "listing" ELSE "write")
  BY <1>0 DEF Loaded
<1>3. EventAt(p) \in AnyEvent
  BY <1>1, PlaceIs DEF Sound, Records
<1>4. Places' = Places
  BY ChainSame
<1>5. Raised /\ Records' /\ InOrder'
  BY RaisedSame, WorldSame DEF Sound, Records
<1>6. NothingSkipped'
  <2>1. \A q \in Wanted : Seen(q[1])' => Seen(q[1])
    BY DEF Seen
  <2> QED  BY <1>5, <2>1, SkippedStays DEF Sound
<1>7. ReadSound'
  BY <1>2 DEF ReadSound
<1>8. out \in Seq(Output)
  BY <1>3, OutputsAre
<1>9. CASE EventAt(p).listing \in Unpriced
  <2>1. out = <<>>
    BY <1>3, <1>9, OutputsAre
  <2>2. p \notin Wanted
    BY <1>9 DEF Wanted
  <2>3. BatchFacts' /\ logs' \in Seq(Places')
    BY <1>0, <1>2, <1>5, <2>1, <2>2, NextEvent
  <2>4. Memory'
    BY <1>2, <1>8, <2>3 DEF Sound, Memory, Unread
  <2>5. BatchSound' /\ WriteSound'
    BY <1>2, <2>1, <2>3 DEF BatchSound, WriteSound
  <2> QED  BY <1>5, <1>6, <1>7, <2>4, <2>5 DEF Sound
<1>10. CASE EventAt(p).listing \notin Unpriced
  <2>1. /\ outputs' # <<>>
        /\ \A i \in 1 .. Len(outputs') : OutputSound(p, i)'
        /\ DutiesMet(p)'
    BY <1>0, <1>1, <1>2, <1>10, FreshOutputs DEF Sound
  <2>2. logs' = logs /\ pc' = "write"
    BY <1>2, <2>1
  <2>3. EventAt(p)' = EventAt(p)
    BY ChainSame
  <2>4. Head(logs') = p
    BY <1>0, <2>2
  <2>5. Memory'
    BY <1>2, <1>4, <1>8, <2>2 DEF Sound, Memory, Unread
  <2>6. BatchFacts'
    BY <1>5, <2>2, BatchStays DEF Sound, BatchSound
  <2>7. BatchSound'
    BY <2>2, <2>6 DEF BatchSound
  <2>8. WriteSound'
    BY <1>10, <2>1, <2>3, <2>4 DEF WriteSound
  <2> QED  BY <1>5, <1>6, <1>7, <2>5, <2>7, <2>8 DEF Sound
<1> QED  BY <1>9, <1>10

LEMMA LoadListingStep ==
  ASSUME Sound, LoadListing(Len(chain))
  PROVE  Sound'
<1> DEFINE e == EventAt(Head(logs))
           n == Len(chain)
<1>0. pc = "listing" /\ logs # <<>>
      /\ UNCHANGED <<chain, file, lastLogBlock, current, stored, delivered>>
  BY DEF LoadListing
<1>1. n \in Nat /\ Head(logs)[1] \in 1 .. n
  BY <1>0, HeadIs DEF Sound, Records, ChainTyped
<1>2. \A s \in Store, item \in Item : stored[s][item] <= n
  BY StoredTyped DEF Sound
<1>3. CASE e.offer = NoOffer
  <2> DEFINE rel == [listing |-> n, offer |-> 0]
  <2>1. Loaded(rel)
    BY <1>3 DEF LoadListing
  <2>2. rel \in [listing : Nat, offer : Nat] /\ rel.listing = n
    BY <1>1
  <2> HIDE DEF rel
  <2> QED  BY <1>0, <1>1, <1>2, <1>3, <2>1, <2>2, LoadedStep
<1>4. CASE e.offer # NoOffer
  <2>1. related' = [listing |-> n, offer |-> 0] /\ pc' = "offer" /\ UNCHANGED <<logs, outputs>>
    BY <1>4 DEF LoadListing
  <2>2. Raised /\ Records' /\ InOrder'
    BY <1>0, RaisedSame, WorldSame DEF Sound, Records
  <2>3. NothingSkipped'
    <3>1. \A q \in Wanted : Seen(q[1])' => Seen(q[1])
      BY <1>0 DEF Seen
    <3> QED  BY <1>0, <2>2, <3>1, SkippedStays DEF Sound
  <2>4. Places' = Places /\ \A q : EventAt(q)' = EventAt(q)
    BY <1>0, ChainSame
  <2>5. Memory'
    BY <1>0, <1>1, <2>1, <2>4 DEF Sound, Memory
  <2>6. BatchFacts'
    BY <1>0, <2>1, <2>2, BatchStays DEF Sound, BatchSound
  <2>7. BatchSound' /\ WriteSound'
    BY <1>0, <2>1, <2>6 DEF BatchSound, WriteSound
  <2>8. ReadSound'
    BY <1>0, <1>1, <1>2, <1>4, <2>1, <2>4 DEF ReadSound
  <2> QED  BY <2>2, <2>3, <2>5, <2>7, <2>8 DEF Sound
<1> QED  BY <1>3, <1>4

LEMMA LoadOfferStep ==
  ASSUME Sound, LoadOffer(Len(chain))
  PROVE  Sound'
<1> DEFINE n == Len(chain)
           rel == [related EXCEPT !.offer = n]
<1>0. pc = "offer" /\ Loaded(rel)
      /\ UNCHANGED <<chain, file, lastLogBlock, current, stored, delivered>>
  BY DEF LoadOffer
<1>1. logs # <<>>
  BY <1>0 DEF Sound, BatchSound
<1>2. n \in Nat /\ Head(logs)[1] \in 1 .. n
  BY <1>0, <1>1, HeadIs DEF Sound, Records, ChainTyped
<1>3. related \in [listing : Nat, offer : Nat]
  BY DEF Sound, Memory
<1>4. rel \in [listing : Nat, offer : Nat] /\ rel.listing = related.listing /\ rel.offer = n
  BY <1>2, <1>3
<1>5. related.listing \in Head(logs)[1] .. n
      /\ \A s \in Store, item \in Item : stored[s][item] <= related.listing
  BY <1>0, <1>2, <1>3 DEF Sound, ReadSound
<1> HIDE DEF rel
<1> QED  BY <1>0, <1>1, <1>2, <1>4, <1>5, LoadedStep

-----------------------------------------------------------------------------
(* An output is carried out, by the step that does it or by one that fails   *)
(* all the same.                                                             *)

LEMMA FirstOutput ==
  ASSUME Sound, pc = "write"
  PROVE  /\ outputs \in Seq(Output) /\ Len(outputs) \in Nat /\ Len(outputs) >= 1
         /\ Head(outputs) = outputs[1] /\ Head(outputs) \in Output
         /\ logs # <<>> /\ Head(logs) \in Places /\ Head(logs)[1] \in 1 .. Len(chain)
         /\ EventAt(Head(logs)).listing \notin Unpriced
         /\ \A i \in 1 .. Len(outputs) : OutputSound(Head(logs), i)
         /\ DutiesMet(Head(logs))
<1>1. outputs \in Seq(Output) /\ outputs # <<>> /\ logs # <<>>
  BY DEF Sound, Memory, WriteSound, BatchSound
<1> QED  BY <1>1, HeadIs DEF Sound, WriteSound

LEMMA AppliedTyped ==
  ASSUME Records, NEW o \in Output, o.to \in Store => o.asOf <= Len(chain), Apply(o)
  PROVE  /\ stored' \in [Store -> [Item -> 0 .. Len(chain)]]
         /\ o.to \in Store =>
              /\ stored'[o.to][o.item] = o.asOf
              /\ \A s \in Store, item \in Item :
                   ~About(o, s, item) => stored'[s][item] = stored[s][item]
              /\ delivered' = delivered
         /\ o.to \notin Store =>
              /\ o.to = "webhook"
              /\ stored' = stored /\ delivered' = delivered \cup {Head(logs)}
<1> DEFINE n == Len(chain)
<1>1. stored \in [Store -> [Item -> 0 .. n]] /\ n \in Nat
  BY DEF Records, ChainTyped
<1>2. o.to \in Store \cup {"webhook"} /\ o.item \in Item /\ (o.to \in Store => o.asOf \in 0 .. n)
  BY <1>1 DEF Output
<1> HIDE DEF n
<1>3. CASE o.to \in Store
  <2>1. stored' = [stored EXCEPT ![o.to][o.item] = o.asOf] /\ delivered' = delivered
    BY <1>3 DEF Apply, Index, Insert, PostToWebhook, Replace, Store
  <2>2. stored'[o.to][o.item] = o.asOf
    BY <1>1, <1>2, <1>3, <2>1
  <2>3. \A s \in Store, item \in Item : ~About(o, s, item) => stored'[s][item] = stored[s][item]
    BY <1>1, <1>2, <1>3, <2>1 DEF About
  <2>4. stored' \in [Store -> [Item -> 0 .. n]]
    BY <1>1, <1>2, <1>3, <2>1
  <2> QED  BY <1>3, <2>1, <2>2, <2>3, <2>4 DEF n
<1>4. CASE o.to \notin Store
  <2>1. o.to = "webhook" /\ stored' = stored /\ delivered' = delivered \cup {Head(logs)}
    BY <1>2, <1>4 DEF Apply, Index, Insert, PostToWebhook, Store
  <2> QED  BY <1>1, <1>4, <2>1 DEF n
<1> QED  BY <1>3, <1>4

LEMMA AppliedIs ==
  ASSUME Sound, pc = "write", Apply(Head(outputs)), UNCHANGED chain
  PROVE  LET o == Head(outputs) IN
         /\ stored' \in [Store -> [Item -> 0 .. Len(chain)]]
         /\ o.to \in Store =>
              /\ stored'[o.to][o.item] = o.asOf
              /\ \A s \in Store, item \in Item :
                   ~About(o, s, item) => stored'[s][item] = stored[s][item]
              /\ delivered' = delivered
         /\ o.to \notin Store =>
              /\ o.to = "webhook"
              /\ stored' = stored /\ delivered' = delivered \cup {Head(logs)}
         /\ Raised
<1>0. PICK o : o = Head(outputs)
  OBVIOUS
<1>1. o = outputs[1] /\ o \in Output /\ OutputSound(Head(logs), 1) /\ 1 \in 1 .. Len(outputs)
      /\ Head(logs)[1] \in 1 .. Len(chain)
  BY <1>0, FirstOutput
<1>2. stored \in [Store -> [Item -> 0 .. Len(chain)]] /\ Len(chain) \in Nat
  BY DEF Sound, Records, ChainTyped
<1>3. o.asOf <= Len(chain) /\ (o.to \in Store => stored[o.to][o.item] <= o.asOf)
  BY <1>1, <1>2 DEF OutputSound
<1>4. /\ stored' \in [Store -> [Item -> 0 .. Len(chain)]]
      /\ o.to \in Store =>
           /\ stored'[o.to][o.item] = o.asOf
           /\ \A s \in Store, item \in Item :
                ~About(o, s, item) => stored'[s][item] = stored[s][item]
           /\ delivered' = delivered
      /\ o.to \notin Store =>
           /\ o.to = "webhook"
           /\ stored' = stored /\ delivered' = delivered \cup {Head(logs)}
  BY <1>0, <1>1, <1>3, AppliedTyped DEF Sound
<1>5. \A s \in Store, item \in Item : stored[s][item] \in Nat /\ stored'[s][item] \in Nat
  BY <1>2, <1>4
<1>6. \A s \in Store, item \in Item : stored[s][item] <= stored'[s][item]
  BY <1>3, <1>4, <1>5 DEF About
<1>7. stored' \in [Store -> [Item -> Nat]] /\ delivered \subseteq delivered'
  BY <1>4, <1>5
<1> QED  BY <1>0, <1>4, <1>6, <1>7 DEF Raised

\* After it the records are sound, the order of the webhook included.
LEMMA AppliedWorld ==
  ASSUME Sound, pc = "write", Apply(Head(outputs)), UNCHANGED <<chain, file>>
  PROVE  Records' /\ InOrder'
<1> DEFINE o == Head(outputs)
           p == Head(logs)
           e == EventAt(p)
<1>1. /\ stored' \in [Store -> [Item -> 0 .. Len(chain)]]
      /\ o.to \in Store =>
           /\ stored'[o.to][o.item] = o.asOf
           /\ \A s \in Store, item \in Item :
                ~About(o, s, item) => stored'[s][item] = stored[s][item]
           /\ delivered' = delivered
      /\ o.to \notin Store =>
           /\ o.to = "webhook"
           /\ stored' = stored /\ delivered' = delivered \cup {p}
      /\ Raised
  BY AppliedIs
<1>2. p \in Places /\ logs # <<>> /\ p[1] \in 1 .. Len(chain) /\ p \in Batch
  BY FirstOutput, HeadIs
<1>3. Places' = Places /\ Wanted' = Wanted /\ (ChainTyped => ChainTyped')
      /\ \A q : EventAt(q)' = EventAt(q) /\ (HasRule(q)' <=> HasRule(q))
  BY ChainSame
<1>4. Records'
  BY <1>1, <1>2, <1>3 DEF Sound, Records
<1>5. ASSUME NEW q \in Wanted, Before(q, p)
      PROVE  q \in delivered
  <2>1. q \in Places /\ HasRule(q) /\ q \in Nat \X Nat /\ q[1] \in Nat
    BY EventTyped DEF Sound, Wanted
  <2>2. lastLogBlock \in Nat /\ p[1] <= toBlock /\ toBlock \in Nat /\ p \in Nat \X Nat
    <3>1. lastLogBlock \in Nat /\ current \in Nat /\ MaxBatch \in Nat
      BY ListenerAssumption DEF Sound, Memory, Records, ChainTyped
    <3>2. toBlock \in Nat
      BY <3>1 DEF toBlock, Min
    <3>3. p[1] <= toBlock
      BY <1>2 DEF Batch
    <3> QED  BY <1>2, <3>1, <3>2, <3>3, EventTyped DEF Sound
  <2>3. CASE q[1] <= lastLogBlock
    BY <2>3 DEF Sound, NothingSkipped, Handled
  <2>4. CASE lastLogBlock < q[1]
    <3>1. q[1] <= toBlock
      BY <1>5, <2>1, <2>2 DEF Before
    <3>2. q \in Batch
      BY <2>1, <2>4, <3>1 DEF Batch
    <3>3. q \notin Remaining
      <4> SUFFICES ASSUME NEW i \in 1 .. Len(logs), q = logs[i] PROVE FALSE
        BY DEF Remaining
      <4>1. p = logs[1] /\ Len(logs) \in Nat
        BY <1>2, HeadIs
      <4>2. i = 1 \/ Before(p, q)
        BY <4>1 DEF Sound, BatchSound, BatchFacts
      <4>3. p # q \/ ~Before(q, p)
        BY <2>1, BeforeIsStrict
      <4> QED  BY <1>5, <2>1, <2>2, <4>1, <4>2, <4>3, BeforeIsStrict
    <3> QED  BY <3>2, <3>3 DEF Sound, BatchSound, BatchFacts, Handled
  <2> QED  BY <2>1, <2>2, <2>3, <2>4
<1> HIDE DEF o, p
<1>6. InOrder'
  <2> SUFFICES ASSUME NEW r \in delivered', NEW q \in Wanted, Before(q, r)
               PROVE  q \in delivered'
    BY <1>3 DEF InOrder
  <2>1. CASE r \in delivered
    BY <1>1, <2>1 DEF Sound, InOrder, Raised
  <2>2. CASE r \notin delivered
    BY <1>1, <1>5, <2>2
  <2> QED  BY <2>1, <2>2
<1> QED  BY <1>4, <1>6

\* The outputs that are left are as sound as they were: all of them, when the first was
\* carried out by a step that failed, or all but the first.
LEMMA AppliedOutputs ==
  ASSUME Sound, pc = "write", Apply(Head(outputs)), UNCHANGED chain,
         NEW p, p = Head(logs), NEW k \in {0, 1}, Len(outputs') = Len(outputs) - k,
         \A i \in 1 .. Len(outputs) - k : outputs'[i] = outputs[i + k]
  PROVE  /\ \A i \in 1 .. Len(outputs') : OutputSound(p, i)'
         /\ DutiesMet(p)'
<1> DEFINE m == Len(outputs)
           e == EventAt(p)
           l == e.listing
<1>0. PICK h : h = Head(outputs)
  OBVIOUS
<1>1. /\ stored' \in [Store -> [Item -> 0 .. Len(chain)]]
      /\ h.to \in Store =>
           /\ stored'[h.to][h.item] = h.asOf
           /\ \A s \in Store, item \in Item :
                ~About(h, s, item) => stored'[s][item] = stored[s][item]
      /\ h.to \notin Store => h.to = "webhook" /\ stored' = stored
      /\ Raised
  BY <1>0, AppliedIs
<1>2. /\ m \in Nat /\ m >= 1 /\ h = outputs[1] /\ h \in Output
      /\ p \in Places /\ p[1] \in 1 .. Len(chain)
      /\ \A i \in 1 .. m : OutputSound(p, i) /\ outputs[i] \in Output
      /\ DutiesMet(p)
  BY <1>0, FirstOutput
<1>3. EventAt(p)' = e /\ Len(chain) \in Nat
  BY ChainSame DEF Sound, Records, ChainTyped
<1>4. l \in Item /\ "search" \in Store /\ p[1] \in Nat /\ p[1] >= 1
  BY <1>2, <1>3, EventTyped DEF Sound, Store
<1>5. \A s \in Store, item \in Item :
        stored[s][item] \in Nat /\ stored'[s][item] \in Nat /\ stored[s][item] <= stored'[s][item]
  BY <1>1, StoredTyped DEF Raised, Sound
<1>6. h.asOf \in Nat /\ h.asOf >= p[1]
  <2>1. OutputSound(p, 1)
    BY <1>2
  <2> QED  BY <1>2, <1>3, <1>4, <2>1 DEF OutputSound
<1> HIDE DEF m, e
<1>7. ASSUME NEW i \in 1 .. m - k
      PROVE  OutputSound(p, i)'
  <2>1. i + k \in 1 .. m /\ (i + k = 1 \/ 1 \in 1 .. i + k - 1) /\ (i = m - k <=> i + k = m)
    BY <1>2
  <2>2. PICK o : o = outputs[i + k]
    OBVIOUS
  <2>3. OutputSound(p, i + k) /\ o \in Output /\ outputs'[i] = o
    BY <1>2, <1>7, <2>1, <2>2 DEF m
  <2>4. o.asOf \in p[1] .. Len(chain) /\ o.asOf \in Nat
    BY <1>3, <1>4, <2>2, <2>3 DEF OutputSound
  <2>5. o.to = "webhook" <=> i = Len(outputs')
    BY <2>1, <2>2, <2>3 DEF OutputSound, m
  <2>6. \A j \in 1 .. i - 1 : ~About(outputs'[j], o.to, o.item)
    <3> SUFFICES ASSUME NEW j \in 1 .. i - 1 PROVE ~About(outputs'[j], o.to, o.item)
      OBVIOUS
    <3>1. j + k \in 1 .. i + k - 1 /\ j \in 1 .. m - k
      BY <1>2
    <3>2. outputs'[j] = outputs[j + k]
      BY <3>1 DEF m
    <3> QED  BY <2>2, <2>3, <3>1, <3>2 DEF OutputSound
  <2>7. o.to \in Store => <<o.to, o.item>> \in Duties(e)
    BY <2>2, <2>3 DEF OutputSound, e
  <2>8. o.to \in Store => stored'[o.to][o.item] <= o.asOf
    <3> SUFFICES ASSUME o.to \in Store PROVE stored'[o.to][o.item] <= o.asOf
      OBVIOUS
    <3>1. stored[o.to][o.item] <= o.asOf /\ o.item \in Item
      BY <2>2, <2>3 DEF OutputSound, Output
    <3>2. CASE h.to \notin Store
      BY <1>1, <3>1, <3>2
    <3>3. CASE h.to \in Store /\ ~About(h, o.to, o.item)
      BY <1>1, <3>1, <3>3
    <3>4. CASE h.to \in Store /\ About(h, o.to, o.item)
      <4>1. i + k = 1
        BY <1>2, <2>1, <2>2, <2>3, <3>4 DEF OutputSound
      <4>2. stored'[o.to][o.item] = o.asOf
        BY <1>1, <1>2, <2>2, <3>4, <4>1 DEF About
      <4> QED  BY <2>4, <4>2
    <3> QED  BY <3>2, <3>3, <3>4
  <2> QED
    BY <1>3, <2>3, <2>4, <2>5, <2>6, <2>7, <2>8 DEF OutputSound, e
<1>8. DutiesMet(p)'
  <2> SUFFICES ASSUME NEW d \in Duties(e)
               PROVE  \/ stored'[d[1]][d[2]] >= p[1]
                      \/ \E i \in 1 .. Len(outputs') : outputs'[i].to = d[1] /\ outputs'[i].item = d[2]
    BY <1>3 DEF DutiesMet, e
  <2>1. d[1] \in Store /\ d[2] \in Item
    <3>1. e.offer # NoOffer => e.offer \in Item
      BY <1>2, EventTyped DEF Sound, e
    <3> QED  BY <1>4, <3>1 DEF Duties, Store, e
  <2>2. CASE stored[d[1]][d[2]] >= p[1]
    BY <1>4, <1>5, <2>1, <2>2
  <2>3. CASE \E i \in 1 .. m : outputs[i].to = d[1] /\ outputs[i].item = d[2]
    <3>1. PICK i \in 1 .. m : outputs[i].to = d[1] /\ outputs[i].item = d[2]
      BY <2>3
    <3>2. CASE i = 1
      <4>1. stored'[d[1]][d[2]] = h.asOf
        BY <1>1, <1>2, <2>1, <3>1, <3>2
      <4> QED  BY <1>6, <4>1
    <3>3. CASE i # 1
      <4>1. i - k \in 1 .. m - k /\ (i - k) + k = i
        BY <1>2, <3>3
      <4>2. outputs'[i - k] = outputs[i]
        BY <4>1 DEF m
      <4> QED  BY <3>1, <4>1, <4>2 DEF m
    <3> QED  BY <3>2, <3>3
  <2> QED  BY <1>2, <2>2, <2>3 DEF DutiesMet, e, m
<1> QED  BY <1>7, <1>8 DEF m

\* The last output is the webhook's: then the event is handled.
LEMMA DoOutputStep ==
  ASSUME Sound, DoOutput
  PROVE  Sound'
<1> DEFINE m == Len(outputs)
<1>0. pc = "write" /\ Apply(Head(outputs)) /\ outputs' = Tail(outputs)
      /\ logs' = (IF m = 1 THEN Tail(logs) ELSE logs)
      /\ pc' = (IF m = 1 THEN "listing" ELSE "write")
      /\ UNCHANGED <<chain, file, lastLogBlock, current, related>>
  BY DEF DoOutput
<1>1. PICK p, h : p = Head(logs) /\ h = Head(outputs)
  OBVIOUS
<1>2. /\ outputs \in Seq(Output) /\ m \in Nat /\ m >= 1 /\ h = outputs[1]
      /\ logs # <<>> /\ p \in Places /\ p[1] \in 1 .. Len(chain)
      /\ EventAt(p).listing \notin Unpriced
      /\ \A i \in 1 .. m : OutputSound(p, i)
      /\ DutiesMet(p)
  BY <1>0, <1>1, FirstOutput
<1>3. Raised /\ Records' /\ InOrder'
  BY <1>0, AppliedIs, AppliedWorld
<1>4. NothingSkipped'
  <2>1. \A q \in Wanted : Seen(q[1])' => Seen(q[1])
    BY <1>0 DEF Seen
  <2> QED  BY <1>0, <1>3, <2>1, SkippedStays DEF Sound
<1>5. outputs' \in Seq(Output) /\ Len(outputs') = m - 1
      /\ \A i \in 1 .. m - 1 : outputs'[i] = outputs[i + 1]
  BY <1>0, <1>2
<1>6. Places' = Places /\ EventAt(p)' = EventAt(p)
  BY <1>0, ChainSame
<1>7. ReadSound'
  BY <1>0 DEF ReadSound
<1>8. CASE m = 1
  <2>1. OutputSound(p, 1)
    BY <1>2, <1>8
  <2>2. h.to = "webhook"
    BY <1>2, <1>8, <2>1 DEF OutputSound
  <2>3. stored' = stored /\ delivered' = delivered \cup {p}
    BY <1>0, <1>1, <2>2, AppliedIs DEF Store
  <2>4. \A d \in Duties(EventAt(p)) : stored[d[1]][d[2]] >= p[1]
    <3> SUFFICES ASSUME NEW d \in Duties(EventAt(p)) PROVE stored[d[1]][d[2]] >= p[1]
      OBVIOUS
    <3>1. d[1] \in Store
      BY DEF Duties, Store
    <3>2. ~\E i \in 1 .. m : outputs[i].to = d[1]
      BY <1>2, <1>8, <2>2, <3>1 DEF Store
    <3> QED  BY <1>2, <3>2 DEF DutiesMet
  <2>5. Handled(p)'
    <3> DEFINE e == EventAt(p)
    <3>1. \A s \in Store : stored[s][e.listing] >= p[1]
      <4> SUFFICES ASSUME NEW s \in Store PROVE stored[s][e.listing] >= p[1]
        OBVIOUS
      <4>1. <<s, e.listing>> \in Duties(e)
        BY DEF Duties
      <4> QED  BY <2>4, <4>1
    <3>2. e.offer # NoOffer => stored["search"][e.offer] >= p[1]
      <4> SUFFICES ASSUME e.offer # NoOffer PROVE stored["search"][e.offer] >= p[1]
        OBVIOUS
      <4>1. <<"search", e.offer>> \in Duties(e)
        BY DEF Duties
      <4> QED  BY <2>4, <4>1
    <3> QED  BY <1>6, <2>3, <3>1, <3>2 DEF Handled
  <2>6. BatchFacts' /\ logs' \in Seq(Places')
    BY <1>0, <1>1, <1>2, <1>3, <1>8, <2>5, NextEvent
  <2>7. Memory'
    BY <1>0, <1>5, <2>6 DEF Sound, Memory
  <2>8. BatchSound' /\ WriteSound'
    BY <1>0, <1>8, <2>6 DEF BatchSound, WriteSound
  <2> QED  BY <1>3, <1>4, <1>7, <2>7, <2>8 DEF Sound
<1>9. CASE m # 1
  <2>1. \A i \in 1 .. Len(outputs') : OutputSound(p, i)'
    BY <1>0, <1>1, <1>5, AppliedOutputs, Zenon
  <2>2. DutiesMet(p)'
    BY <1>0, <1>1, <1>5, AppliedOutputs, Zenon
  <2>3. logs' = logs /\ pc' = "write" /\ outputs' # <<>>
    <3>1. Len(outputs') # 0
      BY <1>2, <1>5, <1>9
    <3>2. outputs' # <<>>
      BY <1>5, <3>1
    <3> QED  BY <1>0, <1>9, <3>2
  <2>4. Head(logs') = p
    BY <1>1, <2>3
  <2>5. WriteSound'
    BY <1>2, <1>6, <2>1, <2>2, <2>3, <2>4 DEF WriteSound
  <2>6. Memory'
    BY <1>0, <1>5, <1>6, <2>3 DEF Sound, Memory
  <2>7. BatchFacts'
    BY <1>0, <1>3, <2>3, BatchStays DEF Sound, BatchSound
  <2>8. BatchSound'
    BY <1>2, <2>3, <2>7 DEF BatchSound
  <2> QED  BY <1>3, <1>4, <1>7, <2>5, <2>6, <2>8 DEF Sound
<1> QED  BY <1>8, <1>9

-----------------------------------------------------------------------------
(* Failures.                                                                 *)

\* A write that failed and may have been carried out is still to be done.
LEMMA FailedWrite ==
  ASSUME Sound, pc = "write", Apply(Head(outputs)), UNCHANGED <<chain, logs, outputs>>
  PROVE  WriteSound'
<1>1. PICK p : p = Head(logs)
  OBVIOUS
<1>2. outputs \in Seq(Output) /\ outputs # <<>> /\ EventAt(p).listing \notin Unpriced
  BY <1>1 DEF Sound, Memory, WriteSound
<1>3. Len(outputs') = Len(outputs) - 0 /\ \A i \in 1 .. Len(outputs) - 0 : outputs'[i] = outputs[i + 0]
  <2>1. \A i \in Nat : i - 0 = i /\ i + 0 = i
    OBVIOUS
  <2>2. Len(outputs) \in Nat /\ 1 .. Len(outputs) \subseteq Nat
    BY <1>2
  <2> QED  BY <2>1, <2>2
<1>4. (\A i \in 1 .. Len(outputs') : OutputSound(p, i)') /\ DutiesMet(p)'
  BY <1>1, <1>3, AppliedOutputs, Zenon
<1>5. EventAt(p)' = EventAt(p)
  BY ChainSame
<1>6. Head(logs') = p
  BY <1>1
<1> QED  BY <1>2, <1>4, <1>5, <1>6 DEF WriteSound

LEMMA RetryStep ==
  ASSUME Sound, pc \in {"poll", "fetch", "listing", "offer", "write"},
         Die \/ TryAgain, UNCHANGED <<chain, file>>,
         \/ UNCHANGED <<stored, delivered>>
         \/ pc = "write" /\ Apply(Head(outputs))
  PROVE  Sound'
<1>1. Raised /\ Records' /\ InOrder'
  <2>1. CASE UNCHANGED <<stored, delivered>>
    BY <2>1, RaisedSame, WorldSame DEF Sound, Records
  <2>2. CASE pc = "write" /\ Apply(Head(outputs))
    BY <2>2, AppliedIs, AppliedWorld
  <2> QED  BY <2>1, <2>2
<1>2. CASE Die
  BY <1>1, <1>2, DieStep
<1>3. CASE TryAgain
  <2>1. UNCHANGED <<logs, outputs>> /\ (pc' = "write" => pc = "write")
    BY <1>3 DEF TryAgain
  <2>2. WriteSound'
    <3>1. CASE UNCHANGED <<stored, delivered>>
      BY <2>1, <3>1, WriteSame DEF Sound
    <3>2. CASE pc = "write" /\ Apply(Head(outputs))
      BY <2>1, <3>2, FailedWrite
    <3> QED  BY <3>1, <3>2
  <2> QED  BY <1>1, <1>3, <2>2, TryAgainStep
<1> QED  BY <1>2, <1>3

LEMMA CrashStep ==
  ASSUME Sound, Crash
  PROVE  Sound'
<1>1. Die /\ UNCHANGED <<chain, stored, delivered>> /\ file' \in {file, Torn}
  BY DEF Crash
<1>2. file' \in 0 .. Len(chain) \cup {Torn}
  BY <1>1 DEF Sound, Records
<1>3. Raised /\ Records' /\ InOrder'
  BY <1>1, <1>2, RaisedSame, WorldSame DEF Sound
<1> QED  BY <1>1, <1>3, DieStep

\* Without the lag of a node all of them tell the same head.
LEMMA OneView ==
  ASSUME MaxLag = 0, Sound
  PROVE  View = {Len(chain)}
<1>1. Len(chain) \in Nat
  BY DEF Sound, Records, ChainTyped
<1> QED  BY <1>1 DEF View

LEMMA NextStep ==
  ASSUME MaxLag = 0, Sound, Next
  PROVE  Sound' /\ Raised
<1>0. View = {Len(chain)}
  BY OneView
<1>1. CASE \E block \in Contents : Mine(block)
  <2>1. PICK block \in Contents : Mine(block)
    BY <1>1
  <2> QED  BY <2>1, MineStep, RaisedSame DEF Mine, Sound
<1>2. CASE Start
  BY <1>2, StartStep, RaisedSame DEF Start, Sound
<1>3. CASE Poll(Len(chain))
  BY <1>3, PollStep, RaisedSame DEF Poll, Sound
<1>4. CASE FetchLogs(Len(chain))
  BY <1>4, FetchLogsStep, RaisedSame DEF FetchLogs, Sound
<1>5. CASE LoadListing(Len(chain))
  BY <1>5, LoadListingStep, RaisedSame DEF LoadListing, Sound
<1>6. CASE LoadOffer(Len(chain))
  BY <1>6, LoadOfferStep, RaisedSame DEF LoadOffer, Sound
<1>7. CASE LoadFails(Len(chain))
  <2>1. pc \in {"listing", "offer"} /\ UNCHANGED <<chain, file, stored, delivered>> /\ (Die \/ TryAgain)
    BY <1>7 DEF LoadFails, Retry
  <2> QED  BY <2>1, RetryStep, RaisedSame DEF Sound
<1>8. CASE DoOutput
  <2>1. pc = "write" /\ Apply(Head(outputs)) /\ UNCHANGED chain
    BY <1>8 DEF DoOutput
  <2> QED  BY <1>8, <2>1, DoOutputStep, AppliedIs
<1>9. CASE Save
  BY <1>9, SaveStep, RaisedSame DEF Save, Sound
<1>10. CASE RequestFails
  <2>1. /\ pc \in {"poll", "fetch", "listing", "offer", "write"}
        /\ Die \/ TryAgain
        /\ UNCHANGED <<chain, file>>
        /\ UNCHANGED <<stored, delivered>> \/ (pc = "write" /\ Apply(Head(outputs)))
    BY <1>10 DEF RequestFails, Retry
  <2>2. Raised
    BY <2>1, RaisedSame, AppliedIs DEF Sound
  <2> QED  BY <2>1, <2>2, RetryStep
<1>11. CASE \E view \in View : DataSpoiled(view)
  <2>1. pc \in {"listing", "offer"} /\ UNCHANGED <<chain, file, stored, delivered>> /\ (Die \/ TryAgain)
    BY <1>11 DEF DataSpoiled
  <2> QED  BY <2>1, RetryStep, RaisedSame DEF Sound
<1>12. CASE Crash
  BY <1>12, CrashStep, RaisedSame DEF Crash, Sound
<1> QED
  BY <1>0, <1>1, <1>2, <1>3, <1>4, <1>5, <1>6, <1>7, <1>8, <1>9, <1>10, <1>11, <1>12
     DEF Next, Work

LEMMA StutterStep ==
  ASSUME Sound, UNCHANGED vars
  PROVE  Sound' /\ Raised
<1>1. UNCHANGED <<chain, file, pc, lastLogBlock, lastCheckedBlock, current, logs, related,
                  outputs, tries, stored, delivered>>
  BY DEF vars, process
<1>2. Raised /\ Records' /\ InOrder'
  BY <1>1, RaisedSame, WorldSame DEF Sound, Records
<1>3. Places' = Places /\ \A q : EventAt(q)' = EventAt(q)
  BY <1>1, ChainSame
<1>4. Memory'
  BY <1>1, <1>3 DEF Sound, Memory
<1>5. WriteSound'
  BY <1>1, WriteSame DEF Sound
<1>6. ReadSound'
  BY <1>1, <1>3 DEF Sound, ReadSound
<1>7. BatchFacts => BatchFacts'
  BY <1>1, <1>2, BatchStays DEF Sound
<1>8. BatchSound'
  BY <1>1, <1>7 DEF Sound, BatchSound
<1>9. NothingSkipped'
  <2>1. \A q \in Wanted : Seen(q[1])' => Seen(q[1])
    BY <1>1 DEF Seen
  <2> QED  BY <1>1, <1>2, <2>1, SkippedStays DEF Sound
<1> QED  BY <1>2, <1>4, <1>5, <1>6, <1>8, <1>9 DEF Sound

-----------------------------------------------------------------------------
(* Whatever the nodes answer, those that are behind included: what is stored *)
(* was on the chain when it was read, and an offer in the index leads to its *)
(* listing there.                                                            *)

\* One of the first n blocks has an event that mentions the item.
ToldBy(item, n) == \E p \in Places : p[1] <= n /\ Mentions(p, item)

\* An event about an offer comes after one about its listing.
OffersFollow ==
  \A p \in Places : EventAt(p).offer # NoOffer =>
    \E q \in Places : q[1] < p[1] /\ Mentions(q, EventAt(p).listing)

\* What is stored was read as of a block that is not before the first event about it.
ItemsTold ==
  \A s \in Store, item \in Item : stored[s][item] > 0 => ToldBy(item, stored[s][item])

\* An offer in the index has an event, and the listing of that event is there too.
OffersLead ==
  \A o \in Offer : stored["search"][o] > 0 =>
    \E p \in Places : /\ HasRule(p) /\ EventAt(p).offer = o
                      /\ stored["search"][EventAt(p).listing] > 0

\* Number i of the outputs out for the event e, when this is in the search index: an
\* offer is written after its listing.
OutputLeads(out, i, e, index) ==
  LET o == out[i] IN
  o.to \in Store =>
    /\ <<o.to, o.item>> \in Duties(e)
    /\ o.asOf <= Len(chain) /\ ToldBy(o.item, o.asOf)
    /\ o.item = e.offer =>
         \/ index[e.listing] > 0
         \/ \E j \in 1 .. i - 1 : out[j].to = "search" /\ out[j].item = e.listing

LogsLead == \A i \in 1 .. Len(logs) : HasRule(logs[i])

ReadLeads ==
  pc = "offer" =>
    /\ logs # <<>> /\ EventAt(Head(logs)).offer # NoOffer
    /\ related.listing <= Len(chain) /\ ToldBy(EventAt(Head(logs)).listing, related.listing)

WriteLeads ==
  pc = "write" =>
    /\ logs # <<>> /\ outputs # <<>>
    /\ \A i \in 1 .. Len(outputs) :
         OutputLeads(outputs, i, EventAt(Head(logs)), stored["search"])

Leading ==
  /\ Records /\ Memory
  /\ OffersFollow /\ ItemsTold /\ OffersLead
  /\ LogsLead /\ ReadLeads /\ WriteLeads

LEMMA InitLeads == Init => Leading
<1> SUFFICES ASSUME Init PROVE Leading
  OBVIOUS
<1>1. Places = {}
  BY DEF Init, Places
<1>2. Records /\ Memory
  BY InitIsSound DEF Sound
<1>3. \A s \in Store, item \in Item : ~(stored[s][item] > 0)
  BY DEF Init, Nothing
<1>4. ItemsTold /\ OffersLead
  BY <1>3 DEF ItemsTold, OffersLead, Store, Item
<1>5. OffersFollow
  BY <1>1 DEF OffersFollow
<1>6. LogsLead /\ ReadLeads /\ WriteLeads
  BY DEF Init, LogsLead, ReadLeads, WriteLeads
<1> QED  BY <1>2, <1>4, <1>5, <1>6 DEF Leading

\* Whatever becomes of the chain, what was told stays told.
LEMMA ToldStays ==
  ASSUME Records, (\E block \in Contents : Mine(block)) \/ UNCHANGED chain
  PROVE  /\ Len(chain) \in Nat /\ Len(chain') \in Nat /\ Len(chain) <= Len(chain')
         /\ Places \subseteq Places' /\ ChainTyped'
         /\ \A p \in Places : EventAt(p)' = EventAt(p) /\ (HasRule(p)' <=> HasRule(p))
         /\ \A item, n : ToldBy(item, n) => ToldBy(item, n)'
<1>0. ChainTyped /\ Len(chain) \in Nat
  BY DEF Records, ChainTyped
<1>1. /\ Len(chain') \in Nat /\ Len(chain) <= Len(chain')
      /\ Places \subseteq Places' /\ ChainTyped'
      /\ \A p \in Places : EventAt(p)' = EventAt(p)
  <2>1. CASE UNCHANGED chain
    BY <1>0, <2>1, ChainSame
  <2>2. CASE \E block \in Contents : Mine(block)
    <3>1. PICK block \in Contents : Mine(block)
      BY <2>2
    <3> QED  BY <1>0, <3>1, ChainGrows DEF Mine
  <2> QED  BY <2>1, <2>2
<1>2. \A p \in Places : HasRule(p)' <=> HasRule(p)
  BY <1>1 DEF HasRule
<1>3. \A item, n : ToldBy(item, n) => ToldBy(item, n)'
  <2>1. \A p \in Places : \A item : Mentions(p, item) => Mentions(p, item)'
    BY <1>1, <1>2 DEF Mentions
  <2> QED  BY <1>1, <2>1 DEF ToldBy
<1> QED  BY <1>0, <1>1, <1>2, <1>3

\* What is stored as of a block is stored as of one of the chain.
LEMMA ToldOnChain ==
  ASSUME Records, NEW item, NEW n \in Nat, ToldBy(item, n)
  PROVE  n > 0
<1>1. PICK p \in Places : p[1] <= n
  BY DEF ToldBy
<1>2. p[1] \in 1 .. Len(chain)
  BY EventTyped
<1> QED  BY <1>1, <1>2

LEMMA OffersFollowStep ==
  ASSUME Records, OffersFollow, (\E block \in Contents : Mine(block)) \/ UNCHANGED chain
  PROVE  OffersFollow'
<1>1. CASE \E block \in Contents : Mine(block)
  <2>1. PICK block \in Contents : Mine(block)
    BY <1>1
  <2>2. /\ ChainTyped /\ ChainTyped' /\ Len(chain) \in Nat /\ Len(chain') = Len(chain) + 1
        /\ Places \subseteq Places'
        /\ \A p \in Places : EventAt(p)' = EventAt(p)
        /\ \A p \in Places' : p[1] <= Len(chain) => p \in Places
    BY <2>1, ChainGrows DEF Mine, Records, ChainTyped
  <2>3. \A q \in Places : \A l : Mentions(q, l) => Mentions(q, l)'
    BY <2>2 DEF Mentions, HasRule
  <2> SUFFICES ASSUME NEW p \in Places', (EventAt(p).offer # NoOffer)'
               PROVE  \E q \in Places' : q[1] < p[1] /\ Mentions(q, EventAt(p).listing)'
    BY DEF OffersFollow
  <2>4. CASE p \in Places
    <3>1. PICK q \in Places : q[1] < p[1] /\ Mentions(q, EventAt(p).listing)
      BY <2>2, <2>4 DEF OffersFollow
    <3> QED  BY <2>2, <2>3, <2>4, <3>1
  <2>5. CASE p \notin Places
    <3>1. p[1] = Len(chain) + 1 /\ p[2] \in 1 .. Len(chain'[p[1]])
      <4>1. p \in Nat \X Nat /\ p[1] \in 1 .. Len(chain') /\ p[2] \in 1 .. Len(chain'[p[1]])
        BY <2>2, PlacesOf DEF Places, ChainTyped
      <4>2. ~(p[1] <= Len(chain))
        BY <2>2, <2>5
      <4> QED  BY <2>2, <4>1, <4>2
    <3>2. chain'[p[1]] = block
      BY <2>1, <2>2, <3>1 DEF Mine, ChainTyped
    <3>3. p[2] \in DOMAIN block /\ EventAt(p)' = block[p[2]]
      <4>1. block \in Seq(AnyEvent)
        BY ListenerAssumption DEF AnyEvent
      <4> QED  BY <3>1, <3>2, <4>1 DEF EventAt
    <3>4. PICK q \in Places : Mentions(q, block[p[2]].listing)
      BY <2>1, <3>3 DEF Mine
    <3>5. q[1] < p[1]
      <4>1. q[1] \in 1 .. Len(chain)
        BY <2>2, PlaceIs
      <4> QED  BY <2>2, <3>1, <4>1
    <3> QED  BY <2>2, <2>3, <3>3, <3>4, <3>5
  <2> QED  BY <2>4, <2>5
<1>2. CASE UNCHANGED chain
  <2>1. Places' = Places /\ \A p : EventAt(p)' = EventAt(p) /\ (HasRule(p)' <=> HasRule(p))
    BY <1>2, ChainSame
  <2> QED  BY <2>1 DEF OffersFollow, Mentions
<1> QED  BY <1>1, <1>2

\* The index leads on when nothing is written.
LEMMA IndexSame ==
  ASSUME Leading, UNCHANGED stored, (\E block \in Contents : Mine(block)) \/ UNCHANGED chain
  PROVE  OffersFollow' /\ ItemsTold' /\ OffersLead'
<1>1. OffersFollow'
  BY OffersFollowStep DEF Leading
<1>2. ItemsTold'
  BY ToldStays DEF Leading, ItemsTold
<1>3. OffersLead'
  <2> SUFFICES ASSUME NEW o \in Offer, stored["search"][o] > 0
               PROVE  \E p \in Places' : /\ HasRule(p)' /\ (EventAt(p).offer)' = o
                                         /\ (stored["search"][EventAt(p).listing])' > 0
    BY DEF OffersLead
  <2>1. PICK p \in Places : /\ HasRule(p) /\ EventAt(p).offer = o
                            /\ stored["search"][EventAt(p).listing] > 0
    BY DEF Leading, OffersLead
  <2> QED  BY <2>1, ToldStays DEF Leading
<1> QED  BY <1>1, <1>2, <1>3

\* An output that stays leads on, when as much is in the index.
LEMMA OutputStays ==
  ASSUME Records, (\E block \in Contents : Mine(block)) \/ UNCHANGED chain,
         NEW out, NEW i \in 1 .. Len(out), out[i] \in Output, NEW e, NEW index,
         OutputLeads(out, i, e, index)
  PROVE  OutputLeads(out, i, e, index)'
<1> DEFINE o == out[i]
<1>1. o.asOf \in Nat
  BY DEF Output
<1>2. /\ Len(chain) \in Nat /\ Len(chain') \in Nat /\ Len(chain) <= Len(chain')
      /\ \A item, n : ToldBy(item, n) => ToldBy(item, n)'
  BY ToldStays
<1>3. o.to \in Store => o.asOf <= Len(chain') /\ ToldBy(o.item, o.asOf)'
  BY <1>1, <1>2 DEF OutputLeads
<1> QED  BY <1>3 DEF OutputLeads

LEMMA LeadMine ==
  ASSUME Leading, NEW block \in Contents, Mine(block)
  PROVE  Leading'
<1>1. UNCHANGED <<pc, logs, related, outputs, stored>>
  BY DEF Mine, process
<1>2. Records' /\ Memory' /\ OffersFollow' /\ ItemsTold' /\ OffersLead'
  BY <1>1, MineTyped, IndexSame DEF Leading
<1>3. /\ Len(chain) \in Nat /\ Len(chain') \in Nat /\ Len(chain) <= Len(chain')
      /\ \A p \in Places : EventAt(p)' = EventAt(p) /\ (HasRule(p)' <=> HasRule(p))
      /\ \A item, n : ToldBy(item, n) => ToldBy(item, n)'
  BY ToldStays DEF Leading
<1>4. logs \in Seq(Places) /\ outputs \in Seq(Output) /\ related.listing \in Nat
  BY DEF Leading, Memory
<1>5. LogsLead'
  BY <1>1, <1>3, <1>4 DEF Leading, LogsLead
<1>6. PICK p : p = Head(logs)
  OBVIOUS
<1>7. logs # <<>> => p \in Places /\ EventAt(p)' = EventAt(p)
  BY <1>3, <1>4, <1>6
<1>8. Head(logs') = p
  BY <1>1, <1>6
<1>9. ReadLeads'
  BY <1>1, <1>3, <1>4, <1>6, <1>7, <1>8 DEF Leading, ReadLeads
<1>10. WriteLeads'
  <2> SUFFICES ASSUME pc = "write" PROVE WriteLeads'
    BY <1>1 DEF WriteLeads
  <2>1. logs # <<>> /\ outputs # <<>>
        /\ \A i \in 1 .. Len(outputs) : OutputLeads(outputs, i, EventAt(p), stored["search"])
    BY <1>6 DEF Leading, WriteLeads
  <2>2. PICK out, e, index : out = outputs /\ e = EventAt(p) /\ index = stored["search"]
    OBVIOUS
  <2>3. \A i \in 1 .. Len(out) : out[i] \in Output /\ OutputLeads(out, i, e, index)
    BY <1>4, <2>1, <2>2
  <2>4. \A i \in 1 .. Len(out) : OutputLeads(out, i, e, index)'
    BY <2>3, OutputStays DEF Leading
  <2>5. outputs' = out /\ EventAt(p)' = e /\ stored'["search"] = index
    BY <1>1, <1>7, <2>1, <2>2
  <2> QED  BY <1>1, <1>8, <2>1, <2>2, <2>4, <2>5 DEF WriteLeads
<1> QED  BY <1>2, <1>5, <1>9, <1>10 DEF Leading

\* Steps that write nothing, and leave or drop what the process was doing.
LEMMA LeadQuiet ==
  ASSUME Leading, UNCHANGED <<chain, stored>>, Records', Memory', LogsLead',
         \/ pc' \notin {"offer", "write"}
         \/ /\ pc' = pc /\ UNCHANGED <<logs, outputs>>
            /\ pc = "offer" => UNCHANGED related
  PROVE  Leading'
<1>1. OffersFollow' /\ ItemsTold' /\ OffersLead'
  BY IndexSame
<1>2. ReadLeads' /\ WriteLeads'
  <2>1. CASE pc' \notin {"offer", "write"}
    BY <2>1 DEF ReadLeads, WriteLeads
  <2>2. CASE /\ pc' = pc /\ UNCHANGED <<logs, outputs>>
             /\ pc = "offer" => UNCHANGED related
    <3>1. /\ \A p : EventAt(p)' = EventAt(p)
          /\ \A item, n : ToldBy(item, n) => ToldBy(item, n)'
      BY ChainSame, ToldStays DEF Leading
    <3>2. ReadLeads'
      BY <2>2, <3>1 DEF Leading, ReadLeads
    <3>3. WriteLeads'
      BY <2>2, <3>1 DEF Leading, WriteLeads, OutputLeads
    <3> QED  BY <3>2, <3>3
  <2> QED  BY <2>1, <2>2
<1> QED  BY <1>1, <1>2 DEF Leading

\* What is to be written for an event that was just loaded.
LEMMA FreshLeads ==
  ASSUME Records, NEW p \in Places, NEW rel \in [listing : Nat, offer : Nat],
         rel.listing <= Len(chain), ToldBy(EventAt(p).listing, rel.listing),
         EventAt(p).offer # NoOffer =>
           rel.offer <= Len(chain) /\ ToldBy(EventAt(p).offer, rel.offer),
         NEW out, out = OutputsFor(EventAt(p), rel), NEW index
  PROVE  \A i \in 1 .. Len(out) : OutputLeads(out, i, EventAt(p), index)
<1> DEFINE e == EventAt(p)
           l == e.listing
           x == e.offer
<1>1. e \in AnyEvent /\ l # x
  BY PlaceIs, EventTyped DEF Records
<1>2. l \in Item /\ (x # NoOffer => x \in Item)
  BY EventTyped
<1> HIDE DEF e
<1>3. CASE l \in Unpriced
  <2>1. Len(out) = 0
    BY <1>1, <1>3, OutputsAre DEF e
  <2> QED  BY <2>1
<1>4. CASE l \notin Unpriced /\ x = NoOffer
  <2>1. out = << Write("search", l, rel.listing), Write("db", l, rel.listing),
                 Write("webhook", l, rel.listing) >>
    BY <1>1, <1>4, OutputsAre DEF e
  <2>2. Len(out) = 3 /\ out[1] = Write("search", l, rel.listing)
        /\ out[2] = Write("db", l, rel.listing) /\ out[3] = Write("webhook", l, rel.listing)
    BY <2>1
  <2>3. <<"search", l>> \in Duties(e) /\ <<"db", l>> \in Duties(e)
    BY DEF Duties, Store
  <2>4. OutputLeads(out, 1, e, index) /\ OutputLeads(out, 2, e, index)
        /\ OutputLeads(out, 3, e, index)
    BY <1>1, <2>2, <2>3 DEF OutputLeads, Write, Store, e
  <2>5. \A i \in 1 .. 3 : i = 1 \/ i = 2 \/ i = 3
    OBVIOUS
  <2> QED  BY <2>2, <2>4, <2>5 DEF e
<1>5. CASE l \notin Unpriced /\ x # NoOffer
  <2>1. out = << Write("search", l, rel.listing), Write("search", x, rel.offer),
                 Write("db", l, rel.listing), Write("webhook", l, rel.listing) >>
    BY <1>1, <1>5, OutputsAre DEF e
  <2>2. Len(out) = 4 /\ out[1] = Write("search", l, rel.listing)
        /\ out[2] = Write("search", x, rel.offer)
        /\ out[3] = Write("db", l, rel.listing) /\ out[4] = Write("webhook", l, rel.listing)
    BY <2>1
  <2>3. <<"search", l>> \in Duties(e) /\ <<"db", l>> \in Duties(e) /\ <<"search", x>> \in Duties(e)
    BY <1>5 DEF Duties, Store
  <2>4. OutputLeads(out, 1, e, index) /\ OutputLeads(out, 3, e, index)
        /\ OutputLeads(out, 4, e, index)
    BY <1>1, <2>2, <2>3 DEF OutputLeads, Write, Store, e
  <2>5. OutputLeads(out, 2, e, index)
    <3>1. out[1].to = "search" /\ out[1].item = l /\ 1 \in 1 .. 2 - 1
      BY <2>2 DEF Write
    <3>2. rel.offer <= Len(chain) /\ ToldBy(x, rel.offer)
      BY <1>5 DEF e
    <3> QED  BY <2>2, <2>3, <3>1, <3>2 DEF OutputLeads, Write
  <2>6. \A i \in 1 .. 4 : i = 1 \/ i = 2 \/ i = 3 \/ i = 4
    OBVIOUS
  <2> QED  BY <2>2, <2>4, <2>5, <2>6 DEF e
<1> QED  BY <1>3, <1>4, <1>5

LEMMA LeadLoaded ==
  ASSUME Leading, logs # <<>>,
         NEW rel \in [listing : Nat, offer : Nat], Loaded(rel),
         rel.listing <= Len(chain), ToldBy(EventAt(Head(logs)).listing, rel.listing),
         EventAt(Head(logs)).offer # NoOffer =>
           rel.offer <= Len(chain) /\ ToldBy(EventAt(Head(logs)).offer, rel.offer),
         UNCHANGED <<chain, file, lastLogBlock, current, stored, delivered>>
  PROVE  Leading'
<1>1. PICK p : p = Head(logs)
  OBVIOUS
<1> DEFINE out == OutputsFor(EventAt(p), rel)
<1>2. related' = Unread /\ outputs' = out
      /\ logs' = (IF out = <<>> THEN Tail(logs) ELSE logs)
      /\ pc' = (IF out = <<>> THEN "listing" ELSE "write")
  BY <1>1 DEF Loaded
<1>3. logs \in Seq(Places) /\ p \in Places /\ EventAt(p) \in AnyEvent
  BY <1>1, PlaceIs DEF Leading, Memory, Records
<1>4. out \in Seq(Output)
  BY <1>3, OutputsAre
<1>5. Places' = Places /\ (\A q : EventAt(q)' = EventAt(q) /\ (HasRule(q)' <=> HasRule(q)))
      /\ ChainTyped'
  BY ChainSame DEF Leading, Records
<1>6. Records'
  BY <1>5 DEF Leading, Records
<1>7. Memory'
  BY <1>2, <1>3, <1>4, <1>5 DEF Leading, Memory, Unread
<1>8. LogsLead'
  <2>1. \A i \in 1 .. Len(Tail(logs)) : Tail(logs)[i] = logs[i + 1] /\ i + 1 \in 1 .. Len(logs)
    BY <1>3
  <2> QED  BY <1>2, <1>5, <2>1 DEF Leading, LogsLead
<1>9. CASE out = <<>>
  BY <1>2, <1>6, <1>7, <1>8, <1>9, LeadQuiet
<1>10. CASE out # <<>>
  <2>1. logs' = logs /\ pc' = "write" /\ Head(logs') = p
    BY <1>1, <1>2, <1>10
  <2>2. PICK t, e, index : t = out /\ e = EventAt(p) /\ index = stored["search"]
    OBVIOUS
  <2>3. \A i \in 1 .. Len(t) : t[i] \in Output /\ OutputLeads(t, i, e, index)
    BY <1>1, <1>3, <1>4, <2>2, FreshLeads DEF Leading
  <2>4. \A i \in 1 .. Len(t) : OutputLeads(t, i, e, index)'
    BY <2>3, OutputStays DEF Leading
  <2>5. EventAt(p)' = e /\ stored'["search"] = index /\ outputs' = t
    BY <1>2, <1>5, <2>2
  <2>6. WriteLeads'
    BY <1>10, <2>1, <2>2, <2>4, <2>5 DEF WriteLeads
  <2>7. ReadLeads'
    BY <2>1 DEF ReadLeads
  <2>8. OffersFollow' /\ ItemsTold' /\ OffersLead'
    BY IndexSame
  <2> QED  BY <1>6, <1>7, <1>8, <2>6, <2>7, <2>8 DEF Leading
<1> QED  BY <1>9, <1>10

LEMMA LeadLoad ==
  ASSUME Leading, NEW view \in View, LoadListing(view) \/ LoadOffer(view)
  PROVE  Leading'
<1>1. PICK p : p = Head(logs)
  OBVIOUS
<1>2. view \in Nat /\ view <= Len(chain)
  BY DEF View, Leading, Records, ChainTyped
<1>3. UNCHANGED <<chain, file, lastLogBlock, current, stored, delivered>>
  BY DEF LoadListing, LoadOffer
<1>4. \A item : LoadsAt(item, view) => ToldBy(item, view)
  BY DEF LoadsAt, ToldBy
<1>5. CASE LoadListing(view)
  <2>1. logs # <<>> /\ ToldBy(EventAt(p).listing, view)
    BY <1>1, <1>4, <1>5 DEF LoadListing
  <2>2. CASE EventAt(p).offer = NoOffer
    <3> DEFINE rel == [listing |-> view, offer |-> 0]
    <3>1. Loaded(rel)
      BY <1>1, <1>5, <2>2 DEF LoadListing
    <3>2. rel \in [listing : Nat, offer : Nat] /\ rel.listing = view
      BY <1>2
    <3> HIDE DEF rel
    <3> QED  BY <1>1, <1>2, <1>3, <2>1, <2>2, <3>1, <3>2, LeadLoaded
  <2>3. CASE EventAt(p).offer # NoOffer
    <3>1. related' = [listing |-> view, offer |-> 0] /\ pc' = "offer" /\ UNCHANGED <<logs, outputs>>
      BY <1>1, <1>5, <2>3 DEF LoadListing
    <3>2. Places' = Places /\ (\A q : EventAt(q)' = EventAt(q) /\ (HasRule(q)' <=> HasRule(q)))
          /\ ChainTyped'
      BY <1>3, ChainSame DEF Leading, Records
    <3>3. Records'
      BY <1>3, <3>2 DEF Leading, Records
    <3>4. Memory' /\ LogsLead'
      BY <1>2, <1>3, <3>1, <3>2 DEF Leading, Memory, LogsLead
    <3>5. \A item, n : ToldBy(item, n) => ToldBy(item, n)'
      BY <1>3, ToldStays DEF Leading
    <3>6. Head(logs') = p /\ EventAt(p)' = EventAt(p) /\ related'.listing = view /\ Len(chain') = Len(chain)
      BY <1>1, <1>3, <3>1, <3>2
    <3>7. ReadLeads'
      BY <1>2, <2>1, <2>3, <3>1, <3>5, <3>6 DEF ReadLeads
    <3>8. WriteLeads'
      BY <3>1 DEF WriteLeads
    <3>9. OffersFollow' /\ ItemsTold' /\ OffersLead'
      BY <1>3, IndexSame
    <3> QED  BY <3>3, <3>4, <3>7, <3>8, <3>9 DEF Leading
  <2> QED  BY <2>2, <2>3
<1>6. CASE LoadOffer(view)
  <2> DEFINE rel == [related EXCEPT !.offer = view]
  <2>1. pc = "offer" /\ Loaded(rel) /\ ToldBy(EventAt(p).offer, view)
    BY <1>1, <1>4, <1>6 DEF LoadOffer
  <2>2. logs # <<>> /\ related.listing <= Len(chain) /\ ToldBy(EventAt(p).listing, related.listing)
    BY <1>1, <2>1 DEF Leading, ReadLeads
  <2>3. related \in [listing : Nat, offer : Nat]
    BY DEF Leading, Memory
  <2>4. rel \in [listing : Nat, offer : Nat] /\ rel.listing = related.listing /\ rel.offer = view
    BY <1>2, <2>3
  <2> HIDE DEF rel
  <2> QED  BY <1>1, <1>2, <1>3, <2>1, <2>2, <2>4, LeadLoaded
<1> QED  BY <1>5, <1>6

\* A write goes on from what leads: it is not before an event about the item, and an
\* offer's listing is there.
LEMMA LeadApplied ==
  ASSUME Leading, pc = "write", Apply(Head(outputs)), UNCHANGED <<chain, file>>,
         NEW o, o = Head(outputs)
  PROVE  /\ Records' /\ OffersFollow' /\ ItemsTold' /\ OffersLead'
         /\ \A item \in Item : stored["search"][item] > 0 => stored'["search"][item] > 0
         /\ o.to = "search" => stored'["search"][o.item] > 0
<1>1. PICK p : p = Head(logs)
  OBVIOUS
<1> DEFINE e == EventAt(p)
<1>2. /\ logs \in Seq(Places) /\ logs # <<>> /\ p \in Places /\ HasRule(p)
      /\ outputs \in Seq(Output) /\ outputs # <<>> /\ o = outputs[1] /\ o \in Output
      /\ OutputLeads(outputs, 1, e, stored["search"])
  BY <1>1 DEF Leading, Memory, LogsLead, WriteLeads
<1>3. /\ o.item \in Item /\ o.asOf \in Nat /\ Len(chain) \in Nat
      /\ o.to \in Store =>
           /\ <<o.to, o.item>> \in Duties(e)
           /\ o.asOf <= Len(chain) /\ ToldBy(o.item, o.asOf)
           /\ o.item = e.offer => stored["search"][e.listing] > 0
  <2>1. \A j : j \notin 1 .. 1 - 1
    OBVIOUS
  <2>2. o.item \in Item /\ o.asOf \in Nat /\ Len(chain) \in Nat
    BY <1>2 DEF Output, Leading, Records, ChainTyped
  <2>3. o.to \in Store =>
          /\ <<o.to, o.item>> \in Duties(e)
          /\ o.asOf <= Len(chain) /\ ToldBy(o.item, o.asOf)
          /\ o.item = e.offer => stored["search"][e.listing] > 0
    <3> HIDE DEF e
    <3> QED  BY <1>2, <2>1 DEF OutputLeads
  <2> QED  BY <2>2, <2>3
<1>4. /\ stored' \in [Store -> [Item -> 0 .. Len(chain)]]
      /\ o.to \in Store =>
           /\ stored'[o.to][o.item] = o.asOf
           /\ \A s \in Store, item \in Item :
                ~About(o, s, item) => stored'[s][item] = stored[s][item]
           /\ delivered' = delivered
      /\ o.to \notin Store =>
           /\ o.to = "webhook"
           /\ stored' = stored /\ delivered' = delivered \cup {p}
  BY <1>1, <1>2, <1>3, AppliedTyped DEF Leading
<1>5. Places' = Places /\ ChainTyped'
      /\ \A q : EventAt(q)' = EventAt(q) /\ (HasRule(q)' <=> HasRule(q))
  BY ChainSame DEF Leading, Records
<1>6. Records'
  BY <1>2, <1>4, <1>5 DEF Leading, Records
<1>7. o.to \in Store => o.asOf > 0
  BY <1>3, ToldOnChain DEF Leading
<1>8. \A s \in Store, item \in Item :
        \/ stored'[s][item] = stored[s][item]
        \/ o.to \in Store /\ s = o.to /\ item = o.item /\ stored'[s][item] = o.asOf
  BY <1>4 DEF About
<1>9. \A item \in Item : stored["search"][item] > 0 => stored'["search"][item] > 0
  BY <1>7, <1>8 DEF Store
<1>10. o.to = "search" => stored'["search"][o.item] > 0
  BY <1>4, <1>7 DEF Store
<1>11. OffersFollow'
  BY OffersFollowStep DEF Leading
<1>12. ItemsTold'
  <2> SUFFICES ASSUME NEW s \in Store, NEW item \in Item, stored'[s][item] > 0
               PROVE  ToldBy(item, stored'[s][item])
    BY ToldStays DEF Leading, ItemsTold
  <2> QED  BY <1>3, <1>8 DEF Leading, ItemsTold
<1>13. OffersLead'
  <2> SUFFICES ASSUME NEW x \in Offer, stored'["search"][x] > 0
               PROVE  \E q \in Places : /\ HasRule(q) /\ EventAt(q).offer = x
                                        /\ stored'["search"][EventAt(q).listing] > 0
    BY <1>5 DEF OffersLead
  <2>1. x \in Item /\ "search" \in Store
    BY DEF Item, Store
  <2>2. CASE stored["search"][x] > 0
    <3>1. PICK q \in Places : /\ HasRule(q) /\ EventAt(q).offer = x
                              /\ stored["search"][EventAt(q).listing] > 0
      BY <2>2 DEF Leading, OffersLead
    <3>2. EventAt(q).listing \in Item
      BY EventTyped DEF Leading
    <3> QED  BY <1>9, <3>1, <3>2
  <2>3. CASE ~(stored["search"][x] > 0)
    <3>1. o.to \in Store /\ o.item = x
      BY <1>8, <2>1, <2>3
    <3>2. e.listing \in Listing /\ e.listing \in Item /\ Listing \cap Offer = {}
      BY <1>2, EventTyped, ListenerAssumption DEF Leading
    <3>3. e.offer = x
      BY <1>3, <3>1, <3>2 DEF Duties
    <3>4. stored'["search"][e.listing] > 0
      BY <1>3, <1>9, <3>1, <3>2, <3>3
    <3> QED  BY <1>2, <3>3, <3>4
  <2> QED  BY <2>2, <2>3
<1> QED  BY <1>6, <1>9, <1>10, <1>11, <1>12, <1>13

\* The outputs that are left lead on: all of them, or all but the first.
LEMMA OutputsLeft ==
  ASSUME Leading, pc = "write", Apply(Head(outputs)), UNCHANGED <<chain, file>>,
         NEW p, p = Head(logs), NEW k \in {0, 1},
         NEW out, Len(out) = Len(outputs) - k,
         \A i \in 1 .. Len(outputs) - k : out[i] = outputs[i + k]
  PROVE  \A i \in 1 .. Len(out) : OutputLeads(out, i, EventAt(p), stored'["search"])
<1> DEFINE m == Len(outputs)
           e == EventAt(p)
           l == e.listing
<1>0. PICK h : h = Head(outputs)
  OBVIOUS
<1>1. /\ m \in Nat /\ m >= 1 /\ h = outputs[1] /\ p \in Places
      /\ \A i \in 1 .. m : OutputLeads(outputs, i, e, stored["search"])
  BY <1>0 DEF Leading, Memory, WriteLeads
<1>2. l \in Item
  BY <1>1, EventTyped DEF Leading
<1>3. /\ stored["search"][l] > 0 => stored'["search"][l] > 0
      /\ h.to = "search" /\ h.item = l => stored'["search"][l] > 0
  BY <1>0, <1>2, LeadApplied
<1> HIDE DEF m, e
<1> SUFFICES ASSUME NEW i \in 1 .. m - k
             PROVE  OutputLeads(out, i, e, stored'["search"])
  BY DEF m, e
<1>4. i + k \in 1 .. m /\ out[i] = outputs[i + k]
  BY <1>1 DEF m
<1>5. OutputLeads(outputs, i + k, e, stored["search"])
  BY <1>1, <1>4
<1>6. ASSUME out[i].to \in Store, out[i].item = e.offer, ~(stored'["search"][l] > 0)
      PROVE  \E j \in 1 .. i - 1 : out[j].to = "search" /\ out[j].item = l
  <2>1. PICK j \in 1 .. i + k - 1 : outputs[j].to = "search" /\ outputs[j].item = l
    BY <1>3, <1>4, <1>5, <1>6 DEF OutputLeads
  <2>2. j # 1
    BY <1>1, <1>3, <1>6, <2>1
  <2>3. j - k \in 1 .. i - 1 /\ j - k \in 1 .. m - k /\ (j - k) + k = j
    BY <1>1, <2>2
  <2>4. out[j - k] = outputs[j]
    BY <2>3 DEF m
  <2> QED  BY <2>1, <2>3, <2>4
<1> QED  BY <1>4, <1>5, <1>6 DEF OutputLeads

\* The write of a step that succeeds, or of one that fails all the same.
LEMMA LeadWrite ==
  ASSUME Leading, pc = "write", Apply(Head(outputs)), UNCHANGED <<chain, file>>,
         Memory', LogsLead',
         \/ pc' \notin {"offer", "write"}
         \/ /\ pc' = "write" /\ UNCHANGED logs
            /\ outputs' = outputs \/ (outputs' = Tail(outputs) /\ Len(outputs) # 1)
  PROVE  Leading'
<1>1. Records' /\ OffersFollow' /\ ItemsTold' /\ OffersLead'
  BY LeadApplied
<1>2. CASE pc' \notin {"offer", "write"}
  BY <1>1, <1>2 DEF Leading, ReadLeads, WriteLeads
<1>3. CASE /\ pc' = "write" /\ UNCHANGED logs
           /\ outputs' = outputs \/ (outputs' = Tail(outputs) /\ Len(outputs) # 1)
  <2>1. PICK p : p = Head(logs)
    OBVIOUS
  <2>2. outputs \in Seq(Output) /\ outputs # <<>> /\ logs # <<>> /\ logs \in Seq(Places)
    BY DEF Leading, Memory, WriteLeads
  <2>3. PICK k \in {0, 1} : /\ Len(outputs') = Len(outputs) - k /\ outputs' # <<>>
                            /\ \A i \in 1 .. Len(outputs) - k : outputs'[i] = outputs[i + k]
    <3>1. CASE outputs' = outputs
      <4>1. Len(outputs') = Len(outputs) - 0 /\ outputs' # <<>>
            /\ \A i \in 1 .. Len(outputs) - 0 : outputs'[i] = outputs[i + 0]
        BY <2>2, <3>1
      <4> QED  BY <4>1
    <3>2. CASE outputs' = Tail(outputs) /\ Len(outputs) # 1
      <4>1. Len(outputs) \in Nat /\ Len(outputs) >= 1
        BY <2>2
      <4>2. Len(outputs') = Len(outputs) - 1
            /\ \A i \in 1 .. Len(outputs) - 1 : outputs'[i] = outputs[i + 1]
        BY <2>2, <3>2
      <4>3. outputs' # <<>>
        <5>1. Len(outputs') # 0
          BY <3>2, <4>1, <4>2
        <5> QED  BY <5>1
      <4> QED  BY <4>2, <4>3
    <3> QED  BY <1>3, <3>1, <3>2
  <2>4. PICK out, e, index : out = outputs' /\ e = EventAt(p) /\ index = stored'["search"]
    OBVIOUS
  <2>5. \A i \in 1 .. Len(out) : OutputLeads(out, i, e, index)
    BY <2>1, <2>3, <2>4, OutputsLeft
  <2>6. \A i \in 1 .. Len(out) : out[i] \in Output
    BY <2>4 DEF Memory
  <2>7. \A i \in 1 .. Len(out) : OutputLeads(out, i, e, index)'
    BY <2>5, <2>6, OutputStays DEF Leading
  <2>8. EventAt(p)' = e /\ Head(logs') = p
    BY <1>3, <2>1, <2>4, ChainSame
  <2>9. WriteLeads'
    BY <1>3, <2>2, <2>3, <2>4, <2>7, <2>8 DEF WriteLeads
  <2> QED  BY <1>1, <1>3, <2>9 DEF Leading, ReadLeads
<1> QED  BY <1>2, <1>3

LEMMA LeadDoOutput ==
  ASSUME Leading, DoOutput
  PROVE  Leading'
<1>1. pc = "write" /\ Apply(Head(outputs)) /\ outputs' = Tail(outputs)
      /\ logs' = (IF Len(outputs) = 1 THEN Tail(logs) ELSE logs)
      /\ pc' = (IF Len(outputs) = 1 THEN "listing" ELSE "write")
      /\ UNCHANGED <<chain, file, lastLogBlock, current, related>>
  BY DEF DoOutput
<1>2. logs \in Seq(Places) /\ logs # <<>> /\ outputs \in Seq(Output) /\ outputs # <<>>
  BY <1>1 DEF Leading, Memory, WriteLeads
<1>3. Places' = Places /\ \A q : HasRule(q)' <=> HasRule(q)
  BY <1>1, ChainSame
<1>4. Tail(logs) \in Seq(Places) /\ Tail(outputs) \in Seq(Output)
      /\ \A i \in 1 .. Len(Tail(logs)) : Tail(logs)[i] = logs[i + 1] /\ i + 1 \in 1 .. Len(logs)
  BY <1>2
<1>5. Memory' /\ LogsLead'
  BY <1>1, <1>2, <1>3, <1>4 DEF Leading, Memory, LogsLead
<1> QED  BY <1>1, <1>5, LeadWrite

\* The process gives up, tries again or dies, whether or not its write was carried out.
LEMMA LeadAgain ==
  ASSUME Leading, pc # "down", Die \/ TryAgain,
         UNCHANGED chain, file' \in {file, Torn},
         \/ UNCHANGED <<stored, delivered>>
         \/ pc = "write" /\ Apply(Head(outputs)) /\ UNCHANGED file
  PROVE  Leading'
<1>1. Places' = Places /\ ChainTyped' /\ \A q : HasRule(q)' <=> HasRule(q)
  BY ChainSame DEF Leading, Records
<1>2. Memory' /\ LogsLead'
  <2>1. CASE Die
    BY <2>1 DEF Die, Memory, LogsLead, Unread, Leading, Records, ChainTyped
  <2>2. CASE TryAgain
    BY <1>1, <2>2 DEF TryAgain, Memory, LogsLead, Unread, Leading
  <2> QED  BY <2>1, <2>2
<1>3. \/ pc' \notin {"offer", "write"}
      \/ pc' = "write" /\ pc = "write" /\ UNCHANGED <<logs, outputs>>
  BY DEF Die, TryAgain
<1>4. CASE UNCHANGED <<stored, delivered>>
  <2>1. Records'
    BY <1>1, <1>4 DEF Leading, Records
  <2> QED  BY <1>2, <1>3, <1>4, <2>1, LeadQuiet
<1>5. CASE pc = "write" /\ Apply(Head(outputs)) /\ UNCHANGED file
  BY <1>2, <1>3, <1>5, LeadWrite
<1> QED  BY <1>4, <1>5

LEMMA LeadIdle ==
  ASSUME Leading,
         Start \/ Save \/ (\E view \in View : Poll(view) \/ FetchLogs(view)) \/ UNCHANGED vars
  PROVE  Leading'
<1>1. UNCHANGED <<chain, stored, delivered, outputs, related>>
  BY DEF Start, Save, Poll, FetchLogs, vars, process
<1>2. Places' = Places /\ ChainTyped' /\ \A q : HasRule(q)' <=> HasRule(q)
  BY <1>1, ChainSame DEF Leading, Records
<1>3. /\ Len(chain) \in Nat /\ MaxBatch \in Nat
      /\ lastLogBlock \in 0 .. Len(chain) /\ current \in 0 .. Len(chain)
  BY ListenerAssumption DEF Leading, Memory, Records, ChainTyped
<1>4. /\ file' \in 0 .. Len(chain) \cup {Torn}
      /\ lastLogBlock' \in 0 .. Len(chain) /\ current' \in 0 .. Len(chain)
  <2>1. toBlock \in 0 .. Len(chain)
    BY <1>3 DEF toBlock, Min
  <2> QED
    BY <1>3, <2>1 DEF Start, Save, Poll, FetchLogs, vars, process, View, Leading, Records
<1>5. logs' \in Seq(Places) /\ \A i \in 1 .. Len(logs') : HasRule(logs'[i])
  <2>1. CASE \E view \in View : FetchLogs(view)
    <3>1. PICK from, to : logs' = PlacesBetween(from, to)
      BY <2>1 DEF FetchLogs
    <3> DEFINE T == {p \in Places : p[1] \in from .. to /\ HasRule(p)}
    <3>2. T \in SUBSET (Nat \X Nat) /\ IsFiniteSet(T) /\ Counts(T, logs')
      BY <3>1, FetchedInOrder DEF Leading
    <3> HIDE DEF T
    <3>3. logs' \in Seq(T)
      BY <3>2, CountedIsAll DEF Lists
    <3> QED  BY <3>3 DEF T
  <2>2. CASE UNCHANGED logs
    BY <2>2 DEF Leading, Memory, LogsLead
  <2> QED  BY <2>1, <2>2 DEF Start, Save, Poll, vars, process
<1>6. Records' /\ Memory' /\ LogsLead'
  BY <1>1, <1>2, <1>4, <1>5 DEF Leading, Records, Memory, LogsLead
<1>7. \/ pc' \notin {"offer", "write"}
      \/ pc' = pc /\ UNCHANGED <<logs, outputs, related>>
  BY DEF Start, Save, Poll, FetchLogs, vars, process
<1> QED  BY <1>1, <1>6, <1>7, LeadQuiet

LEMMA LeadStep ==
  ASSUME Leading, [Next]_vars
  PROVE  Leading'
<1>1. CASE \E block \in Contents : Mine(block)
  BY <1>1, LeadMine
<1>2. CASE Start \/ Save \/ (\E view \in View : Poll(view) \/ FetchLogs(view)) \/ UNCHANGED vars
  BY <1>2, LeadIdle
<1>3. CASE \E view \in View : LoadListing(view) \/ LoadOffer(view)
  BY <1>3, LeadLoad
<1>4. CASE DoOutput
  BY <1>4, LeadDoOutput
<1>5. CASE RequestFails
  <2>1. /\ pc # "down" /\ (Die \/ TryAgain)
        /\ UNCHANGED <<chain, file>>
        /\ UNCHANGED <<stored, delivered>> \/ (pc = "write" /\ Apply(Head(outputs)))
    BY <1>5 DEF RequestFails, Retry
  <2> QED  BY <2>1, LeadAgain
<1>6. CASE \E view \in View : DataSpoiled(view) \/ LoadFails(view)
  <2>1. pc # "down" /\ (Die \/ TryAgain) /\ UNCHANGED <<chain, file, stored, delivered>>
    BY <1>6 DEF DataSpoiled, LoadFails, Retry
  <2> QED  BY <2>1, LeadAgain
<1>7. CASE Crash
  <2>1. pc # "down" /\ Die /\ UNCHANGED <<chain, stored, delivered>> /\ file' \in {file, Torn}
    BY <1>7 DEF Crash
  <2> QED  BY <2>1, LeadAgain
<1> QED  BY <1>1, <1>2, <1>3, <1>4, <1>5, <1>6, <1>7 DEF Next, Work

LEMMA AlwaysLeading == Spec => []Leading
<1> QED  BY InitLeads, LeadStep, PTL DEF Spec

-----------------------------------------------------------------------------
(* The theorems.                                                             *)

\* Every node tells the same head of the chain.  Otherwise the daemon does skip events.
NodesAgree == MaxLag = 0

LEMMA AlwaysSound == NodesAgree => (Spec => []Sound)
<1> SUFFICES ASSUME NodesAgree PROVE Spec => []Sound
  OBVIOUS
<1>1. Sound /\ [Next]_vars => Sound'
  BY NextStep, StutterStep DEF NodesAgree
<1> QED  BY <1>1, InitIsSound, PTL DEF Spec

\* However many requests fail, write and fail, or answer with what is no data, and
\* wherever the process dies: what it will not look at again has been handled.
THEOREM NothingIsSkipped == NodesAgree => (Spec => []NothingSkipped)
<1>1. Sound => NothingSkipped
  BY DEF Sound
<1> QED  BY <1>1, AlwaysSound, PTL

\* The webhook hears of the events in the order of the chain, repetitions aside.
THEOREM ToldInOrder == NodesAgree => (Spec => []InOrder)
<1>1. Sound => InOrder
  BY DEF Sound
<1> QED  BY <1>1, AlwaysSound, PTL

\* No write to the search index or the database, repeated or late, takes it back to
\* what was read earlier.
THEOREM NewStaysOverOld == NodesAgree => (Spec => NoOldOverNew)
<1> SUFFICES ASSUME NodesAgree PROVE Spec => NoOldOverNew
  OBVIOUS
<1>1. Sound /\ [Next]_vars =>
        [\A s \in Store, item \in Item : stored'[s][item] >= stored[s][item]]_vars
  <2> SUFFICES ASSUME Sound, [Next]_vars, NEW s \in Store, NEW item \in Item
               PROVE  stored'[s][item] >= stored[s][item]
    OBVIOUS
  <2>1. Raised
    BY NextStep, StutterStep DEF NodesAgree
  <2>2. stored[s][item] \in Nat /\ stored'[s][item] \in Nat
    BY <2>1, StoredTyped DEF Raised, Sound
  <2> QED  BY <2>1, <2>2 DEF Raised
<1> QED  BY <1>1, AlwaysSound, PTL DEF Spec, NoOldOverNew

\* The events about an offer agree on its listing.
LEMMA OneListing ==
  ASSUME Records, NEW p \in Places, NEW q \in Places,
         EventAt(p).offer = EventAt(q).offer, EventAt(p).offer # NoOffer
  PROVE  EventAt(p).listing = EventAt(q).listing
<1>1. chain \in Seq(Contents) /\ p[1] \in 1 .. Len(chain) /\ q[1] \in 1 .. Len(chain)
      /\ p[2] \in 1 .. Len(chain[p[1]]) /\ q[2] \in 1 .. Len(chain[q[1]])
  BY PlaceIs DEF Records, ChainTyped
<1>2. chain[p[1]] \in Contents /\ chain[q[1]] \in Contents
  BY <1>1
<1>3. p[2] \in DOMAIN chain[p[1]] /\ q[2] \in DOMAIN chain[q[1]]
  BY <1>1, BlockIs
<1> QED  BY <1>2, <1>3, SearchIndexAssumption DEF EventAt

LEMMA OffersFound ==
  ASSUME NEW index, NEW opts, NEW nodes \in S!OfferSearch(index, opts)
  PROVE  nodes \subseteq DOMAIN index
BY DEF S!OfferSearch, S!kSubset

LEMMA LeadIsListed ==
  ASSUME Records, OffersLead, NEW o \in Offer, stored["search"][o] > 0
  PROVE  ListingOf(o) \in Listing /\ stored["search"][ListingOf(o)] > 0
<1>1. PICK p \in Places : /\ HasRule(p) /\ EventAt(p).offer = o
                          /\ stored["search"][EventAt(p).listing] > 0
  BY DEF OffersLead
<1>2. EventAt(p).listing \in Listing /\ Mentions(p, o) /\ Mentions(p, EventAt(p).listing)
  BY <1>1, EventTyped DEF Mentions
<1>3. \E l \in Listing : \E q \in Places : Mentions(q, o) /\ Mentions(q, l)
  BY <1>2
<1>4. ListingOf(o) \in Listing /\ \E q \in Places : Mentions(q, o) /\ Mentions(q, ListingOf(o))
  BY <1>3 DEF ListingOf
<1>5. PICK q \in Places : Mentions(q, o) /\ Mentions(q, ListingOf(o))
  BY <1>4
<1>6. Listing \cap Offer = {} /\ NoOffer \notin Listing \cup Offer
  BY ListenerAssumption
<1>7. EventAt(q).listing \in Listing /\ EventAt(q).offer \in Offer \cup {NoOffer}
  BY EventTyped
<1>8. EventAt(q).offer = o /\ EventAt(q).listing = ListingOf(o)
  BY <1>4, <1>5, <1>6, <1>7 DEF Mentions
<1>9. EventAt(q).listing = EventAt(p).listing
  BY <1>1, <1>6, <1>8, OneListing
<1> QED  BY <1>1, <1>4, <1>8, <1>9

\* Also between the two writes for an event, after one of them failed, and when the
\* nodes lag or disagree as far as they may, an offer that a query answers leads to a
\* listing that the index has.
THEOREM OffersResolve == Spec => []OfferResolves
<1>1. Leading => OfferResolves
  <2> SUFFICES ASSUME Leading, NEW o \in Offer, NEW l \in Listing,
                      NEW nodes \in S!Offers(OfferIndex, BuyerOf[o], l)
                                    \cup S!OffersOfListing(OfferIndex, l)
                                    \cup S!OffersOfUser(OfferIndex, BuyerOf[o]),
                      NEW found \in nodes
               PROVE  OfferIndex[found].listingId \in DOMAIN ListingIndex
    BY DEF OfferResolves
  <2>1. nodes \subseteq DOMAIN OfferIndex
    <3>1. PICK opts : nodes \in S!OfferSearch(OfferIndex, opts)
      BY DEF S!Offers, S!OffersOfListing, S!OffersOfUser
    <3> QED  BY <3>1, OffersFound
  <2>2. found \in Offer /\ stored["search"][found] > 0 /\ found \in Indexed(Offer)
    BY <2>1 DEF OfferIndex, Indexed
  <2>3. OfferIndex[found].listingId = ListingOf(found)
    BY <2>2 DEF OfferIndex
  <2>4. DOMAIN ListingIndex = Indexed(Listing)
    BY DEF ListingIndex
  <2>5. ListingOf(found) \in Indexed(Listing)
    BY <2>2, LeadIsListed DEF Indexed, Leading
  <2> QED  BY <2>3, <2>4, <2>5
<1> QED  BY <1>1, AlwaysLeading, PTL

-----------------------------------------------------------------------------
(* The greatest and the least of some numbers.                               *)

LEMMA GreatestExists ==
  ASSUME NEW T, T \subseteq Int, IsFiniteSet(T), T # {}
  PROVE  \E m \in T : \A n \in T : m >= n
<1> DEFINE Above(m) == {n \in T : n > m}
           Counted == {Cardinality(Above(m)) : m \in T}
<1>1. \A m \in T : IsFiniteSet(Above(m)) /\ Cardinality(Above(m)) \in Nat
  BY FS_Subset, FS_CardinalityType
<1>2. Counted \subseteq Nat /\ Counted # {}
  BY <1>1
<1>3. PICK c \in Counted : \A d \in Counted : c <= d
  BY <1>2, LeastNumber
<1>4. PICK m \in T : Cardinality(Above(m)) = c
  BY <1>3
<1>5. ASSUME NEW n \in T, n > m  PROVE FALSE
  <2>1. Above(n) \subseteq Above(m) /\ n \in Above(m) /\ n \notin Above(n)
    <3>1. m \in Int /\ n \in Int /\ T \subseteq Int
      OBVIOUS
    <3>2. \A k \in Int : k > n => k > m
      BY <1>5, <3>1
    <3>3. ~(n > n)
      BY <3>1
    <3> QED  BY <1>5, <3>1, <3>2, <3>3
  <2>2. Cardinality(Above(n)) <= Cardinality(Above(m))
        /\ Cardinality(Above(m)) # Cardinality(Above(n))
    <3>1. IsFiniteSet(Above(m)) /\ Above(n) \in SUBSET Above(m)
      BY <1>1, <2>1
    <3> HIDE DEF Above
    <3>2. Cardinality(Above(n)) <= Cardinality(Above(m))
      BY <3>1, FS_Subset
    <3>3. Cardinality(Above(m)) = Cardinality(Above(n)) => Above(m) = Above(n)
      BY <3>1, FS_Subset
    <3> QED  BY <2>1, <3>2, <3>3
  <2>3. Cardinality(Above(n)) \in Counted
    OBVIOUS
  <2>4. Cardinality(Above(n)) \in Nat /\ Cardinality(Above(m)) \in Nat
    BY <1>1
  <2> HIDE DEF Above, Counted
  <2> QED  BY <1>3, <1>4, <2>2, <2>3, <2>4
<1>6. \A n \in T : m >= n
  BY <1>5
<1> QED  BY <1>6

LEMMA LeastExists ==
  ASSUME NEW T, T \subseteq Int, IsFiniteSet(T), T # {}
  PROVE  \E m \in T : \A n \in T : m <= n
<1> DEFINE U == {- n : n \in T}
           f == [n \in T |-> - n]
<1>1. f \in Surjection(T, U)
  BY DEF Surjection
<1>2. IsFiniteSet(U)
  BY <1>1, FS_Surjection
<1>3. U \subseteq Int /\ U # {}
  OBVIOUS
<1>4. PICK k \in U : \A n \in U : k >= n
  BY <1>2, <1>3, GreatestExists
<1>5. PICK m \in T : k = - m
  BY <1>4
<1>6. ASSUME NEW n \in T  PROVE m <= n
  <2>1. - n \in U /\ m \in Int /\ n \in Int
    OBVIOUS
  <2>2. - m >= - n
    BY <1>4, <1>5, <2>1
  <2> QED  BY <2>1, <2>2
<1> QED  BY <1>6

LEMMA Extremes ==
  ASSUME NEW T, T \subseteq Int, IsFiniteSet(T), T # {}
  PROVE  /\ S!Max(T) \in T /\ \A n \in T : S!Max(T) >= n
         /\ S!Min(T) \in T /\ \A n \in T : S!Min(T) <= n
BY GreatestExists, LeastExists DEF S!Max, S!Min

LEMMA OfTwo ==
  ASSUME NEW a \in Int, NEW b \in Int
  PROVE  /\ S!Min({a, b}) = IF a <= b THEN a ELSE b
         /\ S!Max({a, b}) = IF a >= b THEN a ELSE b
<1>1. {a, b} \subseteq Int /\ {a, b} # {} /\ IsFiniteSet({a, b})
  <2>1. IsFiniteSet({a} \cup {b})
    BY FS_Singleton, FS_Union
  <2>2. {a, b} = {a} \cup {b}
    OBVIOUS
  <2> QED  BY <2>1, <2>2
<1> DEFINE x == S!Max({a, b})
           y == S!Min({a, b})
<1>2. x \in {a, b} /\ x >= a /\ x >= b /\ y \in {a, b} /\ y <= a /\ y <= b
  BY <1>1, Extremes
<1> HIDE DEF x, y
<1>3. y = IF a <= b THEN a ELSE b
  BY <1>2
<1>4. x = IF a >= b THEN a ELSE b
  BY <1>2
<1> QED  BY <1>3, <1>4 DEF x, y

-----------------------------------------------------------------------------
(* A finite set can be put in the order of a score.                          *)

ByScore(T, score, s) ==
  /\ s \in [1 .. Cardinality(T) -> T]
  /\ \A l \in T : \E i \in 1 .. Cardinality(T) : s[i] = l
  /\ \A i, j \in 1 .. Cardinality(T) : i < j => score[s[i]] >= score[s[j]]

LEMMA ByScoreExists ==
  ASSUME NEW T, IsFiniteSet(T), NEW score, \A l \in T : score[l] \in Nat
  PROVE  \E s : ByScore(T, score, s)
<1> DEFINE n == Cardinality(T)
<1>0. n \in Nat /\ ExistsBijection(T, 1 .. n)
  <2>1. n \in Nat
    BY FS_CardinalityType
  <2>2. IsFiniteSet(1 .. n) /\ Cardinality(1 .. n) = n
    BY <2>1, FS_Interval
  <2> QED  BY <2>1, <2>2, FS_SameCardinalityBij
<1>1. PICK g \in [T -> 1 .. n] : IsInjective(g)
  BY <1>0 DEF ExistsBijection, Bijection, Injection
<1>2. PICK top \in Nat : \A l \in T : score[l] <= top
  <2>1. CASE T = {}
    BY <2>1
  <2>2. CASE T # {}
    <3> DEFINE P == {score[l] : l \in T}
               f == [l \in T |-> score[l]]
    <3>1. f \in Surjection(T, P)
      BY DEF Surjection
    <3>2. IsFiniteSet(P) /\ P # {} /\ P \subseteq Nat /\ P \subseteq Int
      BY <2>2, <3>1, FS_Surjection
    <3>3. PICK m \in P : \A k \in P : m >= k
      BY <3>2, GreatestExists
    <3>4. \A l \in T : score[l] <= m
      <4> TAKE l \in T
      <4>1. score[l] \in P /\ score[l] \in Nat /\ m \in Nat
        BY <3>2
      <4> QED  BY <3>3, <4>1
    <3>5. m \in Nat
      BY <3>2
    <3> QED  BY <3>4, <3>5
  <2> QED  BY <2>1, <2>2
<1> DEFINE h == [l \in T |-> <<top - score[l], g[l]>>]
           U == {h[l] : l \in T}
<1>3. \A l \in T : top - score[l] \in Nat /\ g[l] \in Nat /\ h[l] = <<top - score[l], g[l]>>
  BY <1>0, <1>2
<1>4. h \in [T -> U] /\ U \subseteq Nat \X Nat
  BY <1>3
<1>5. \A k, l \in T : h[k] = h[l] => k = l
  BY <1>1, <1>3 DEF IsInjective
<1>6. h \in Bijection(T, U)
  BY <1>4, <1>5 DEF Bijection, Injection, Surjection, IsInjective
<1>7. IsFiniteSet(U) /\ Cardinality(U) = n
  BY <1>6, FS_Bijection DEF ExistsBijection
<1> HIDE DEF h, U
<1>8. PICK r : Counts(U, r)
  BY <1>4, <1>7, OrderExists
<1>9. /\ r \in [1 .. n -> U] /\ (\A p \in U : \E i \in 1 .. n : r[i] = p)
      /\ \A i, j \in 1 .. n : i < j => Before(r[i], r[j])
  <2>1. U \in SUBSET (Nat \X Nat)
    BY <1>4
  <2>2. r \in Seq(U) /\ Len(r) = n /\ \A p \in U : \E i \in 1 .. Len(r) : r[i] = p
    BY <2>1, <1>7, <1>8, CountedIsAll DEF Lists
  <2> QED  BY <2>2, <1>7, <1>8 DEF Counts
<1> DEFINE s == [i \in 1 .. n |-> CHOOSE l \in T : h[l] = r[i]]
<1>10. \A i \in 1 .. n : s[i] \in T /\ h[s[i]] = r[i]
  BY <1>9 DEF U
<1>11. s \in [1 .. n -> T]
  BY <1>10
<1>12. \A l \in T : \E i \in 1 .. n : s[i] = l
  <2> TAKE l \in T
  <2>1. PICK i \in 1 .. n : r[i] = h[l]
    BY <1>9 DEF U
  <2>2. s[i] = l
    BY <2>1, <1>5, <1>10
  <2> QED  BY <2>2
<1>13. \A i, j \in 1 .. n : i < j => score[s[i]] >= score[s[j]]
  <2> SUFFICES ASSUME NEW i \in 1 .. n, NEW j \in 1 .. n, i < j
               PROVE  score[s[i]] >= score[s[j]]
    OBVIOUS
  <2>1. PICK k, l \in T : k = s[i] /\ l = s[j]
    BY <1>10
  <2>2. Before(h[k], h[l])
    BY <1>9, <1>10, <2>1
  <2>3. top - score[k] <= top - score[l]
    BY <2>2, <1>3 DEF Before
  <2>4. score[k] \in Nat /\ score[l] \in Nat /\ top \in Nat
    OBVIOUS
  <2>5. score[k] >= score[l]
    BY <2>3, <2>4
  <2> QED  BY <2>1, <2>5
<1> HIDE DEF s
<1>14. ByScore(T, score, s)
  BY <1>11, <1>12, <1>13 DEF ByScore
<1> QED  BY <1>14

-----------------------------------------------------------------------------
(* Walking through the pages.                                                *)

\* What an answer needs of the documents.
Scored(index) ==
  /\ IsFiniteSet(DOMAIN index)
  /\ \A l \in DOMAIN index : index[l].price \in Int /\ index[l].commission \in Nat

Wished(index, text, filters) ==
  {l \in S!Matches(index, text) : \A f \in filters : S!Passes(index[l], f)}

\* The instance counts as this module does.
LEMMA SameCount == \A T : S!Cardinality(T) = Cardinality(T)
<1>1. \A T : S!IsFiniteSet(T) <=> IsFiniteSet(T)
  BY DEF S!IsFiniteSet, IsFiniteSet
<1> QED  BY <1>1 DEF S!Cardinality, Cardinality

LEMMA HitsUnfold ==
  ASSUME NEW index, NEW text, NEW filters
  PROVE  S!Hits(index, text, filters) =
           LET T == {l \in S!Matches(index, text) : \A f \in filters : S!Passes(index[l], f)}
               n == S!Cardinality(T)
           IN  CHOOSE s \in [1 .. n -> T] :
                 /\ \A l \in T : \E i \in 1 .. n : s[i] = l
                 /\ \A i, j \in 1 .. n :
                      i < j => S!Score(index[s[i]], text) >= S!Score(index[s[j]], text)
BY DEF S!Hits

LEMMA ScoreIs ==
  ASSUME NEW doc, NEW text, doc.commission \in Nat
  PROVE  S!Score(doc, text) \in Nat
<1> DEFINE b == text # "" /\ text \in doc.title
           c == IF b THEN 600 ELSE 200
<1>1. S!Score(doc, text) = c + doc.commission
  BY DEF S!Score
<1> HIDE DEF b
<1>2. c \in Nat
  OBVIOUS
<1> HIDE DEF c
<1> QED  BY <1>1, <1>2

\* The hits are what is wished for, once.
LEMMA HitsAre ==
  ASSUME NEW index, Scored(index), NEW text, NEW filters
  PROVE  LET T == Wished(index, text, filters)
             hits == S!Hits(index, text, filters)
         IN /\ IsFiniteSet(T) /\ T \subseteq DOMAIN index
            /\ hits \in Seq(T) /\ Len(hits) = Cardinality(T)
            /\ {hits[i] : i \in 1 .. Len(hits)} = T
<1> DEFINE T == Wished(index, text, filters)
           n == Cardinality(T)
           score == [l \in T |-> S!Score(index[l], text)]
           hits == S!Hits(index, text, filters)
<1>1. T \subseteq DOMAIN index
  BY DEF Wished, S!Matches
<1>2. IsFiniteSet(T) /\ n \in Nat
  BY <1>1, FS_Subset, FS_CardinalityType DEF Scored
<1>3. \A l \in T : score[l] = S!Score(index[l], text) /\ score[l] \in Nat
  <2> TAKE l \in T
  <2>1. score[l] = S!Score(index[l], text)
    OBVIOUS
  <2>2. index[l].commission \in Nat
    BY <1>1 DEF Scored
  <2>3. S!Score(index[l], text) \in Nat
    BY <2>2, ScoreIs
  <2> QED  BY <2>1, <2>3
<1> HIDE DEF score
<1>4. \E s : ByScore(T, score, s)
  BY <1>2, <1>3, ByScoreExists
<1>5. \E s \in [1 .. n -> T] :
        /\ \A l \in T : \E i \in 1 .. n : s[i] = l
        /\ \A i, j \in 1 .. n :
             i < j => S!Score(index[s[i]], text) >= S!Score(index[s[j]], text)
  <2>1. PICK s : ByScore(T, score, s)
    BY <1>4
  <2>2. /\ s \in [1 .. n -> T] /\ \A l \in T : \E i \in 1 .. n : s[i] = l
        /\ \A i, j \in 1 .. n : i < j => score[s[i]] >= score[s[j]]
    BY <2>1 DEF ByScore
  <2>3. \A i \in 1 .. n : score[s[i]] = S!Score(index[s[i]], text)
    BY <1>3, <2>2
  <2> HIDE DEF n, T
  <2> QED  BY <2>2, <2>3
<1>6. hits \in [1 .. n -> T] /\ \A l \in T : \E i \in 1 .. n : hits[i] = l
  <2>1. S!Cardinality(T) = n
    BY SameCount
  <2>2. hits = LET k == S!Cardinality(T)
               IN  CHOOSE s \in [1 .. k -> T] :
                     /\ \A l \in T : \E i \in 1 .. k : s[i] = l
                     /\ \A i, j \in 1 .. k :
                          i < j => S!Score(index[s[i]], text) >= S!Score(index[s[j]], text)
    BY HitsUnfold DEF Wished
  <2> HIDE DEF hits, n, T
  <2> QED  BY <2>1, <2>2, <1>5
<1> HIDE DEF hits, T
<1>7. hits \in Seq(T) /\ Len(hits) = n
  BY <1>2, <1>6
<1>8. {hits[i] : i \in 1 .. n} = T
  BY <1>6
<1> QED  BY <1>1, <1>2, <1>7, <1>8 DEF hits, T

PageSize(size) == S!Min({S!Max({size, 1}), MaxResultsPerPage})

LEMMA PageSizeIs ==
  ASSUME NEW size \in Int
  PROVE  PageSize(size) \in Nat \ {0}
<1> DEFINE a == S!Max({size, 1})
<1>1. a \in Nat \ {0}
  <2>1. a = IF size >= 1 THEN size ELSE 1
    BY OfTwo
  <2> QED  BY <2>1
<1>2. MaxResultsPerPage \in Nat \ {0}
  BY SearchIndexAssumption
<1> HIDE DEF a
<1>3. S!Min({a, MaxResultsPerPage}) = IF a <= MaxResultsPerPage THEN a ELSE MaxResultsPerPage
  BY <1>1, <1>2, OfTwo
<1> QED  BY <1>1, <1>2, <1>3 DEF PageSize, a

Upto(k, n) == IF k <= n THEN k ELSE n

LEMMA PageIs ==
  ASSUME NEW index, Scored(index), NEW text, NEW filters, NEW size \in Int, NEW a \in Nat
  PROVE  LET page == S!DiscoverySearch(index, text, size, a, filters)
             hits == S!Hits(index, text, filters)
         IN /\ page.nodes = SubSeq(hits, a + 1, Upto(a + PageSize(size), Len(hits)))
            /\ page.totalNumberOfItems = Len(hits)
            /\ page.stats = S!Stats(index, text, filters)
<1> DEFINE hits == S!Hits(index, text, filters)
<1>1. S!Max({a, 0}) = a
  BY OfTwo
<1>2. PageSize(size) \in Nat /\ Len(hits) \in Nat
  BY PageSizeIs, HitsAre
<1>3. S!Min({a + PageSize(size), Len(hits)}) = Upto(a + PageSize(size), Len(hits))
  BY <1>2, OfTwo DEF Upto
<1> QED  BY <1>1, <1>3 DEF S!DiscoverySearch, S!Listings, PageSize

\* What the walk has seen after each number of pages.
Walking(index, text, filters, size, w) ==
  w = [n \in Nat |->
         IF n = 0 THEN <<>>
         ELSE LET seen == w[n - 1]
              IN  seen \o S!DiscoverySearch(index, text, size, Len(seen), filters).nodes]

LEMMA WalkingAt ==
  ASSUME NEW index, NEW text, NEW filters, NEW size, NEW w,
         Walking(index, text, filters, size, w), NEW n \in Nat
  PROVE  w[n] = IF n = 0 THEN <<>>
                ELSE w[n - 1] \o S!DiscoverySearch(index, text, size, Len(w[n - 1]), filters).nodes
<1> DEFINE val(k) == IF k = 0 THEN <<>>
                     ELSE w[k - 1]
                          \o S!DiscoverySearch(index, text, size, Len(w[k - 1]), filters).nodes
<1>1. w = [k \in Nat |-> val(k)]
  BY DEF Walking
<1>2. w[n] = val(n)
  <2> HIDE DEF val
  <2>1. \A g : g = [k \in Nat |-> val(k)] => g[n] = val(n)
    OBVIOUS
  <2> QED  BY <1>1, <2>1
<1> QED  BY <1>2

\* After n pages the walk has seen the first n * PageSize hits.
SeenAfter(index, text, filters, size, n) ==
  SubSeq(S!Hits(index, text, filters), 1,
         Upto(n * PageSize(size), Len(S!Hits(index, text, filters))))

LEMMA OneTimeMore ==
  ASSUME NEW n \in Nat \ {0}, NEW m \in Nat
  PROVE  n * m = (n - 1) * m + m /\ (n - 1) * m \in Nat
<1>1. PICK k \in Nat : n = k + 1
  <2>1. n - 1 \in Nat /\ n = (n - 1) + 1
    OBVIOUS
  <2> QED  BY <2>1
<1>2. (k + 1) * m = k * m + m /\ k * m \in Nat
  OBVIOUS
<1>3. n - 1 = k
  BY <1>1
<1> QED  BY <1>1, <1>2, <1>3

LEMMA OnePageMore ==
  ASSUME NEW index, Scored(index), NEW text, NEW filters, NEW size \in Int, NEW n \in Nat \ {0}
  PROVE  LET seen == SeenAfter(index, text, filters, size, n - 1)
         IN  seen \o S!DiscoverySearch(index, text, size, Len(seen), filters).nodes
               = SeenAfter(index, text, filters, size, n)
<1> DEFINE hits == S!Hits(index, text, filters)
           T == Wished(index, text, filters)
           m == PageSize(size)
           N == Len(hits)
           a == Upto((n - 1) * m, N)
           seen == SeenAfter(index, text, filters, size, n - 1)
<1>1. hits \in Seq(T) /\ N \in Nat /\ m \in Nat \ {0}
  BY HitsAre, PageSizeIs
<1>2. n * m = (n - 1) * m + m /\ (n - 1) * m \in Nat
  <2> HIDE DEF m
  <2> QED  BY <1>1, OneTimeMore
<1> DEFINE p == (n - 1) * m
<1>3. p \in Nat /\ n * m = p + m
  BY <1>2
<1> HIDE DEF p, N, m
<1>4. Upto(p, N) \in 0 .. N /\ Upto(n * m, N) = Upto(Upto(p, N) + m, N)
      /\ Upto(p, N) <= Upto(n * m, N) /\ Upto(n * m, N) \in 0 .. N
  BY <1>1, <1>3 DEF Upto
<1>5. a = Upto(p, N)
  BY DEF p
<1> HIDE DEF a
<1>6. a \in Nat /\ a \in 0 .. N /\ Upto(n * m, N) \in a .. N /\ Upto(a + m, N) = Upto(n * m, N)
  BY <1>1, <1>4, <1>5
<1>7. seen = SubSeq(hits, 1, a)
  BY DEF SeenAfter, a, m, N
<1> HIDE DEF seen, hits, T
<1>8. Len(seen) = a
  <2>1. \A i \in 1 .. a : hits[i] \in T
    BY <1>1, <1>6 DEF N
  <2>2. Len(SubSeq(hits, 1, a)) = IF 1 <= a THEN a - 1 + 1 ELSE 0
    BY <1>6, <2>1, SubSeqProperties
  <2> QED  BY <1>6, <1>7, <2>2
<1>9. S!DiscoverySearch(index, text, size, a, filters).nodes = SubSeq(hits, a + 1, Upto(n * m, N))
  BY <1>6, PageIs DEF hits, m, N
<1>10. SubSeq(hits, 1, a) \o SubSeq(hits, a + 1, Upto(n * m, N)) = SubSeq(hits, 1, Upto(n * m, N))
  <2>1. 1 \in 1 .. Len(hits) + 1 /\ a \in 1 - 1 .. Len(hits) /\ Upto(n * m, N) \in a .. Len(hits)
    BY <1>1, <1>6 DEF N
  <2> QED  BY <1>1, <2>1, ConcatAdjacentSubSeq
<1>11. SeenAfter(index, text, filters, size, n) = SubSeq(hits, 1, Upto(n * m, N))
  BY DEF SeenAfter, hits, m, N
<1> QED  BY <1>7, <1>8, <1>9, <1>10, <1>11 DEF seen

LEMMA WalkingExists ==
  ASSUME NEW index, Scored(index), NEW text, NEW filters, NEW size \in Int
  PROVE  \E w : Walking(index, text, filters, size, w)
<1> DEFINE w == [n \in Nat |-> SeenAfter(index, text, filters, size, n)]
<1>1. \A n \in Nat : w[n] = SeenAfter(index, text, filters, size, n)
  OBVIOUS
<1>2. w[0] = <<>>
  <2>1. PageSize(size) \in Nat /\ Len(S!Hits(index, text, filters)) \in Nat
    BY PageSizeIs, HitsAre
  <2>2. 0 * PageSize(size) = 0
    BY <2>1
  <2>3. Upto(0 * PageSize(size), Len(S!Hits(index, text, filters))) = 0
    BY <2>1, <2>2 DEF Upto
  <2> QED  BY <1>1, <2>3, SubSeqEmpty DEF SeenAfter
<1>3. ASSUME NEW n \in Nat, n # 0
      PROVE  w[n] = w[n - 1]
                    \o S!DiscoverySearch(index, text, size, Len(w[n - 1]), filters).nodes
  <2>1. n - 1 \in Nat /\ n \in Nat \ {0}
    BY <1>3
  <2>2. w[n - 1] = SeenAfter(index, text, filters, size, n - 1)
        /\ w[n] = SeenAfter(index, text, filters, size, n)
    BY <1>1, <2>1
  <2> HIDE DEF w
  <2> QED  BY <2>1, <2>2, OnePageMore
<1>4. w = [n \in Nat |-> w[n]]
  OBVIOUS
<1> HIDE DEF w
<1>5. Walking(index, text, filters, size, w)
  BY <1>2, <1>3, <1>4 DEF Walking
<1> QED  BY <1>5

LEMMA WalkingIs ==
  ASSUME NEW index, Scored(index), NEW text, NEW filters, NEW size \in Int,
         NEW w, Walking(index, text, filters, size, w)
  PROVE  \A n \in Nat : w[n] = SeenAfter(index, text, filters, size, n)
<1> DEFINE T == {n \in Nat : w[n] # SeenAfter(index, text, filters, size, n)}
<1>1. SUFFICES ASSUME T # {} PROVE FALSE
  OBVIOUS
<1>2. PICK n \in T : \A k \in T : n <= k
  BY <1>1, LeastNumber
<1>3. CASE n = 0
  <2>1. PageSize(size) \in Nat /\ Len(S!Hits(index, text, filters)) \in Nat
    BY PageSizeIs, HitsAre
  <2>2. 0 * PageSize(size) = 0
    BY <2>1
  <2>3. Upto(0 * PageSize(size), Len(S!Hits(index, text, filters))) = 0
    BY <2>1, <2>2 DEF Upto
  <2>4. SeenAfter(index, text, filters, size, 0) = <<>>
    BY <2>3, SubSeqEmpty DEF SeenAfter
  <2>5. w[0] = <<>>
    BY WalkingAt
  <2> QED  BY <1>2, <1>3, <2>4, <2>5
<1>4. CASE n # 0
  <2>1. n \in Nat \ {0} /\ n - 1 \in Nat /\ ~(n <= n - 1)
    BY <1>2, <1>4
  <2>2. w[n - 1] = SeenAfter(index, text, filters, size, n - 1)
    BY <1>2, <2>1
  <2>3. w[n] = w[n - 1] \o S!DiscoverySearch(index, text, size, Len(w[n - 1]), filters).nodes
    <3>1. w[n] = IF n = 0 THEN <<>>
                 ELSE w[n - 1]
                      \o S!DiscoverySearch(index, text, size, Len(w[n - 1]), filters).nodes
      <4>1. n \in Nat
        BY <2>1
      <4> QED  BY <4>1, WalkingAt
    <3> QED  BY <1>4, <3>1
  <2>4. w[n] = SeenAfter(index, text, filters, size, n)
    BY <2>1, <2>2, <2>3, OnePageMore
  <2> QED  BY <1>2, <2>4
<1> QED  BY <1>3, <1>4

LEMMA StatsCover ==
  ASSUME NEW index, Scored(index), NEW text, NEW filters, NEW l \in S!Matches(index, text)
  PROVE  index[l].price \in S!Stats(index, text, filters).minPrice
                              .. S!Stats(index, text, filters).maxPrice
<1> DEFINE M == S!Matches(index, text)
           P == {index[k].price : k \in M}
           f == [k \in M |-> index[k].price]
<1>1. M \subseteq DOMAIN index
  BY DEF S!Matches
<1>2. IsFiniteSet(M)
  BY <1>1, FS_Subset DEF Scored
<1>3. f \in Surjection(M, P)
  BY DEF Surjection
<1>4. IsFiniteSet(P)
  BY <1>2, <1>3, FS_Surjection
<1>5. P \subseteq Int /\ index[l].price \in P /\ P # {}
  BY <1>1 DEF Scored
<1>6. /\ S!Stats(index, text, filters).minPrice = IF P = {} THEN 0 ELSE S!Min(P)
      /\ S!Stats(index, text, filters).maxPrice = IF P = {} THEN 0 ELSE S!Max(P)
  BY DEF S!Stats
<1> HIDE DEF P
<1>7. /\ S!Max(P) \in P /\ S!Max(P) >= index[l].price
      /\ S!Min(P) \in P /\ S!Min(P) <= index[l].price
  BY <1>4, <1>5, Extremes
<1>8. S!Max(P) \in Int /\ S!Min(P) \in Int /\ index[l].price \in Int
  BY <1>5, <1>7
<1> QED  BY <1>5, <1>6, <1>7, <1>8

LEMMA WalkFinds ==
  ASSUME NEW index, Scored(index), NEW text, NEW filters, NEW size \in Int,
         NEW w, Walking(index, text, filters, size, w)
  PROVE  LET all == w[Cardinality(DOMAIN index)]
             T == Wished(index, text, filters)
         IN /\ {all[i] : i \in DOMAIN all} = T
            /\ Len(all) = Cardinality(T)
            /\ S!DiscoverySearch(index, text, size, 0, filters).totalNumberOfItems = Len(all)
<1> DEFINE T == Wished(index, text, filters)
           hits == S!Hits(index, text, filters)
           n == Cardinality(DOMAIN index)
           m == PageSize(size)
           all == w[n]
<1>1. /\ IsFiniteSet(T) /\ T \subseteq DOMAIN index
      /\ hits \in Seq(T) /\ Len(hits) = Cardinality(T)
      /\ {hits[i] : i \in 1 .. Len(hits)} = T
  BY HitsAre
<1>2. n \in Nat /\ Cardinality(T) <= n /\ Len(hits) \in Nat /\ m \in Nat \ {0}
  BY <1>1, FS_CardinalityType, FS_Subset, PageSizeIs DEF Scored
<1>3. all = SubSeq(hits, 1, Upto(n * m, Len(hits)))
  <2>1. all = SeenAfter(index, text, filters, size, n)
    BY <1>2, WalkingIs, Zenon
  <2> QED  BY <2>1 DEF SeenAfter
<1>4. S!DiscoverySearch(index, text, size, 0, filters).totalNumberOfItems = Len(hits)
  BY PageIs
<1> HIDE DEF hits, n, m, T, all
<1>5. n * m >= n
  <2>1. CASE n = 0
    BY <1>2, <2>1
  <2>2. PICK k \in Nat : m = k + 1
    <3>1. m - 1 \in Nat /\ m = (m - 1) + 1
      BY <1>2
    <3> QED  BY <3>1
  <2>3. n * (k + 1) = n * k + n /\ n * k \in Nat
    BY <1>2
  <2> QED  BY <1>2, <2>2, <2>3
<1>6. Upto(n * m, Len(hits)) = Len(hits)
  <2>1. n * m \in Nat
    BY <1>2
  <2>2. n * m >= Len(hits)
    BY <1>1, <1>2, <1>5, <2>1
  <2> QED  BY <1>2, <2>1, <2>2 DEF Upto
<1>7. all = hits
  BY <1>1, <1>3, <1>6, SubSeqFull
<1>8. {hits[i] : i \in DOMAIN hits} = T
  <2>1. DOMAIN hits = 1 .. Len(hits)
    BY <1>1
  <2> QED  BY <1>1, <2>1
<1> QED  BY <1>1, <1>4, <1>7, <1>8 DEF all, T, n

-----------------------------------------------------------------------------
(* The documents of the index.                                               *)

\* There is an event about the listing alone by then: it was created before there
\* were offers on it.
LEMMA ListedAlone ==
  ASSUME Records, OffersFollow, NEW l \in Listing, NEW b \in Nat, ToldBy(l, b)
  PROVE  \E p \in Places : /\ p[1] <= b /\ HasRule(p)
                           /\ EventAt(p).listing = l /\ EventAt(p).offer = NoOffer
<1> DEFINE Told(p) == p[1] <= b /\ Mentions(p, l)
           T == {n \in Nat : \E p \in Places : n = p[1] /\ Told(p)}
<1>0. ChainTyped /\ \A p \in Places : p[1] \in Nat
  BY PlaceIs DEF Records
<1>1. T # {} /\ T \subseteq Nat
  BY <1>0 DEF ToldBy
<1>2. PICK n \in T : \A k \in T : n <= k
  BY <1>1, LeastNumber
<1>3. PICK p \in Places : n = p[1] /\ Told(p)
  BY <1>2
<1>4. EventAt(p).listing = l /\ HasRule(p)
  <2>1. EventAt(p).offer \in Offer \cup {NoOffer}
    BY EventTyped
  <2>2. l # EventAt(p).offer
    BY <2>1, ListenerAssumption
  <2> QED  BY <1>3, <2>2 DEF Mentions
<1>5. CASE EventAt(p).offer # NoOffer
  <2>1. PICK q \in Places : q[1] < p[1] /\ Mentions(q, l)
    BY <1>4, <1>5 DEF OffersFollow
  <2>2. q[1] \in Nat /\ p[1] \in Nat
    BY <1>0
  <2>3. q[1] <= b /\ ~(p[1] <= q[1])
    BY <1>3, <2>1, <2>2
  <2>4. q[1] \in T
    BY <2>1, <2>2, <2>3
  <2> HIDE DEF T
  <2> QED  BY <1>2, <1>3, <2>3, <2>4
<1> QED  BY <1>3, <1>4, <1>5

LEMMA NumbersFrom ==
  ASSUME NEW m \in Nat \ {0}, NEW n \in Nat \ {0}
  PROVE  Min(m, n) \in 1 .. n
BY DEF Min

Document == [status : STRING, title : SUBSET STRING, all_text : SUBSET STRING,
             category : STRING, price : Int, commission : Nat]

\* The events about a listing alone, up to the block at which it is stored: there is
\* one, so that a version of the listing belongs to it.
LEMMA DocumentsTyped ==
  ASSUME Leading, NEW l \in Indexed(Listing)
  PROVE  DataAsOf(l, stored["search"][l]) \in Document
<1> DEFINE b == stored["search"][l]
           events == {p \in Places : p[1] <= b /\ HasRule(p)
                                     /\ EventAt(p) = [EventAt(p) EXCEPT !.listing = l,
                                                                        !.offer = NoOffer]}
<1>1. l \in Listing /\ b \in Nat /\ b > 0
  <2>1. "search" \in Store /\ l \in Item /\ l \in Listing /\ b > 0
    BY DEF Indexed, Store, Item
  <2> QED  BY <2>1, StoredTyped DEF Leading
<1>2. PICK p \in Places : /\ p[1] <= b /\ HasRule(p)
                          /\ EventAt(p).listing = l /\ EventAt(p).offer = NoOffer
  <2>1. ToldBy(l, b)
    BY <1>1 DEF Leading, ItemsTold, Store, Item
  <2> HIDE DEF b
  <2> QED  BY <1>1, <2>1, ListedAlone DEF Leading
<1>3. EventAt(p) = [EventAt(p) EXCEPT !.listing = l, !.offer = NoOffer]
  <2>1. EventAt(p) \in AnyEvent
    BY PlaceIs DEF Leading, Records
  <2> QED  BY <1>2, <2>1 DEF AnyEvent
<1>4. p \in events
  BY <1>2, <1>3
<1>5. IsFiniteSet(events)
  <2>1. IsFiniteSet(Places)
    BY PlacesFinite DEF Leading, Records
  <2> QED  BY <2>1, FS_Subset
<1>6. Cardinality(events) \in Nat \ {0}
  <2> HIDE DEF events
  <2> QED  BY <1>4, <1>5, FS_EmptySet, FS_CardinalityType
<1>7. DataAsOf(l, b) = Versions[l][Min(Cardinality(events), Len(Versions[l]))]
  BY DEF DataAsOf
<1> HIDE DEF events, b
<1>8. Versions[l] \in Seq(Document) /\ Versions[l] # <<>>
  BY <1>1, SearchIndexAssumption DEF Document
<1>9. Len(Versions[l]) \in Nat \ {0}
  BY <1>8
<1>10. Min(Cardinality(events), Len(Versions[l])) \in 1 .. Len(Versions[l])
  BY <1>6, <1>9, NumbersFrom
<1>11. \A v \in Seq(Document) : \A i \in 1 .. Len(v) : v[i] \in Document
  OBVIOUS
<1> QED  BY <1>7, <1>8, <1>10, <1>11 DEF b

LEMMA IndexIsScored ==
  ASSUME Leading
  PROVE  Scored(ListingIndex)
<1>1. DOMAIN ListingIndex = Indexed(Listing) /\ Indexed(Listing) \subseteq Listing
  BY DEF ListingIndex, Indexed
<1>2. IsFiniteSet(Indexed(Listing))
  BY <1>1, SearchIndexAssumption, FS_Subset
<1>3. \A l \in Indexed(Listing) : ListingIndex[l] = DataAsOf(l, stored["search"][l])
  BY DEF ListingIndex
<1>4. \A l \in Indexed(Listing) : ListingIndex[l] \in Document
  BY <1>3, DocumentsTyped
<1>5. \A l \in Indexed(Listing) : ListingIndex[l].price \in Int /\ ListingIndex[l].commission \in Nat
  <2>1. \A d \in Document : d.price \in Int /\ d.commission \in Nat
    BY DEF Document
  <2> QED  BY <1>4, <2>1
<1> QED  BY <1>1, <1>2, <1>5 DEF Scored

\* Whatever is in the index and however small the pages: a caller who goes on by the
\* number of items each page had sees every active listing that matches and passes the
\* filters, once, and as many as the first page said; the price range covers them all.
THEOREM WalkIsComplete == Spec => []WalkComplete
<1>1. Leading => WalkComplete
  <2> SUFFICES ASSUME Leading PROVE WalkComplete
    OBVIOUS
  <2> DEFINE index == ListingIndex
  <2>1. Scored(index)
    BY IndexIsScored, Zenon
  <2> HIDE DEF index
  <2>2. ASSUME NEW text \in Texts, NEW filters \in FilterSets, NEW size \in Sizes
        PROVE  LET page(offset) == S!DiscoverySearch(index, text, size, offset, filters)
                   first == page(0)
                   walk[n \in Nat] ==
                     IF n = 0 THEN <<>>
                     ELSE LET seen == walk[n - 1] IN seen \o page(Len(seen)).nodes
                   all == walk[Cardinality(DOMAIN index)]
                   matching == S!Matches(index, text)
                   wanted == {l \in matching : \A f \in filters : S!Passes(index[l], f)}
               IN /\ {all[i] : i \in DOMAIN all} = wanted
                  /\ Len(all) = Cardinality(wanted)
                  /\ first.totalNumberOfItems = Len(all)
                  /\ \A l \in matching :
                       index[l].price \in first.stats.minPrice .. first.stats.maxPrice
    <3>1. size \in Int
      BY SearchIndexAssumption
    <3> DEFINE w == CHOOSE w : Walking(index, text, filters, size, w)
               first == S!DiscoverySearch(index, text, size, 0, filters)
               all == w[Cardinality(DOMAIN index)]
               matching == S!Matches(index, text)
               wanted == {l \in matching : \A f \in filters : S!Passes(index[l], f)}
    <3>2. Walking(index, text, filters, size, w)
      BY <2>1, <3>1, WalkingExists
    <3> HIDE DEF w
    <3>3. wanted = Wished(index, text, filters)
      BY DEF Wished
    <3>4. /\ {all[i] : i \in DOMAIN all} = wanted
          /\ Len(all) = Cardinality(wanted)
          /\ first.totalNumberOfItems = Len(all)
      <4>1. /\ {all[i] : i \in DOMAIN all} = Wished(index, text, filters)
            /\ Len(all) = Cardinality(Wished(index, text, filters))
            /\ first.totalNumberOfItems = Len(all)
        BY <2>1, <3>1, <3>2, WalkFinds
      <4> HIDE DEF wanted, all, first
      <4> QED  BY <3>3, <4>1
    <3>5. first.stats = S!Stats(index, text, filters)
      BY <2>1, <3>1, PageIs
    <3>6. \A l \in matching : index[l].price \in first.stats.minPrice .. first.stats.maxPrice
      BY <2>1, <3>5, StatsCover
    <3> QED  BY <3>4, <3>6, Zenon DEF w, Walking
  <2> QED  BY <2>2, Zenon DEF WalkComplete, index
<1> QED  BY <1>1, AlwaysLeading, PTL
=============================================================================
