------------------------------- MODULE Listener -------------------------------
(***************************************************************************)
(* The indexing daemon.  It polls for new blocks, fetches the marketplace's *)
(* events, loads through the client what each event is about, and writes   *)
(* that to the search index, the database and a webhook.  The last block   *)
(* handled is kept in a file.  Every request may fail; after MaxTries       *)
(* failures of the same step the process exits and is started again.  An   *)
(* answer of the storage that is no data stays in the client's cache until *)
(* then: trying again does not help.                                       *)
(*                                                                         *)
(* What is written about a listing or an offer is represented by the block *)
(* as of which it was read: 0 stands for nothing.                          *)
(***************************************************************************)
EXTENDS Naturals, Sequences, FiniteSets

CONSTANTS
  Listing,
  Offer,
  NoOffer,   \* the offer of an event about a listing as a whole
  Contents,  \* what a block may contain: sequences of events
  Unpriced,  \* listings whose data has no price
  Broken,    \* listings and offers whose data never loads
  MaxBatch,  \* MAX_BATCH_BLOCKS
  MaxTries,  \* MAX_RETRYS
  MaxLag,    \* how many blocks behind a node may answer
  MaxHead,   \* bound on the chain
  MaxFaults  \* bound on failed requests and crashes

ASSUME ListenerAssumption ==
  /\ Listing \cap Offer = {} /\ NoOffer \notin Listing \cup Offer
  /\ Contents \subseteq Seq([contract : {"V00_Marketplace", "other"},
                        listing : Listing, offer : Offer \cup {NoOffer}])
  /\ Unpriced \subseteq Listing
  /\ Broken \subseteq Listing \cup Offer
  /\ MaxBatch \in Nat \ {0}
  /\ MaxTries \in Nat \ {0}
  /\ MaxLag \in Nat /\ MaxHead \in Nat /\ MaxFaults \in Nat

VARIABLES
  chain,            \* the blocks, each a sequence of events
  file,             \* the continue file
  pc,               \* where the process is
  lastLogBlock,     \* in memory: last block handled
  lastCheckedBlock, \* in memory: head when it last was
  current,          \* currentBlockNumber of this check
  logs,             \* places of the events fetched and not yet handled
  related,          \* blocks as of which the listing and the offer were read
  outputs,          \* writes still to do for the first of logs
  tries,            \* failures of the step being retried
  spoiled,          \* listings and offers whose data is cached as a failure
  stored,           \* what the search index and the database hold
  delivered,        \* events the webhook received
  faults

process == <<pc, lastLogBlock, lastCheckedBlock, current, logs, related, outputs, tries,
             spoiled>>
vars == <<chain, file, process, stored, delivered, faults>>

Torn == MaxHead + 1 \* the file was being written when the process died

Store == {"search", "db"}
Item  == Listing \cup Offer

\* Where events are: a block, and a position in it.
Places == UNION {{b} \X DOMAIN chain[b] : b \in DOMAIN chain}

\* The order of the events on the chain.
Before(p, q) == p[1] < q[1] \/ (p[1] = q[1] /\ p[2] < q[2])

EventAt(p) == chain[p[1]][p[2]]

\* Any contract may log an event that looks like the marketplace's; the rules are
\* for those of the marketplace.
HasRule(p) == EventAt(p).contract = "V00_Marketplace"

Mentions(p, item) == HasRule(p) /\ item \in {EventAt(p).listing, EventAt(p).offer}

\* What a node may take for the head of the chain.
View == {v \in 0 .. Len(chain) : v + MaxLag >= Len(chain)}

Unread  == [listing |-> 0, offer |-> 0]
Nothing == [item \in Item |-> 0]

Init ==
  /\ chain = <<>>
  /\ file = 0
  /\ pc = "down"
  /\ lastLogBlock = 0 /\ lastCheckedBlock = 0 /\ current = 0
  /\ logs = <<>> /\ related = Unread /\ outputs = <<>>
  /\ tries = 0
  /\ spoiled = {}
  /\ stored = [s \in Store |-> Nothing]
  /\ delivered = {}
  /\ faults = 0

-----------------------------------------------------------------------------
(* The chain.  Listings exist before there are offers on them.               *)

Mine(block) ==
  /\ Len(chain) < MaxHead
  /\ \A i \in DOMAIN block :
       block[i].offer # NoOffer => \E p \in Places : Mentions(p, block[i].listing)
  /\ chain' = Append(chain, block)
  /\ UNCHANGED <<file, process, stored, delivered, faults>>

\* A listing or an offer can be loaded once an event has mentioned it.
LoadsAt(item, view) ==
  /\ item \notin Broken \cup spoiled
  /\ \E p \in Places : p[1] <= view /\ Mentions(p, item)

-----------------------------------------------------------------------------
(* The process.                                                              *)

Min(m, n) == IF m <= n THEN m ELSE n

toBlock == Min(lastLogBlock + MaxBatch, current)

\* Memory is gone; what the process started with replaces it.
Die ==
  /\ pc' = "down"
  /\ lastLogBlock' = 0 /\ lastCheckedBlock' = 0 /\ current' = 0
  /\ logs' = <<>> /\ related' = Unread /\ outputs' = <<>>
  /\ tries' = 0
  /\ spoiled' = {}

Start ==
  /\ pc = "down"
  /\ file # Torn
  /\ pc' = "poll"
  /\ lastLogBlock' = file
  /\ UNCHANGED <<chain, file, lastCheckedBlock, current, logs, related, outputs, tries,
                 stored, delivered, faults, spoiled>>

\* Fault: the block counts as checked before its events were fetched.
Poll_early(view) ==
  /\ pc = "poll"
  /\ IF view = lastCheckedBlock
     THEN tries' = 0 /\ UNCHANGED <<current, pc, lastCheckedBlock>>
     ELSE /\ current' = view
          /\ lastCheckedBlock' = view
          /\ pc' = "fetch"
          /\ UNCHANGED tries
  /\ UNCHANGED <<chain, file, lastLogBlock, logs, related, outputs, stored, delivered,
                 faults, spoiled>>

\* Without a new block there is nothing to do but to ask again later.
Poll(view) ==
  /\ pc = "poll"
  /\ IF view = lastCheckedBlock
     THEN tries' = 0 /\ UNCHANGED <<current, pc>>
     ELSE /\ current' = view
          /\ pc' = "fetch"
          /\ UNCHANGED tries
  /\ UNCHANGED <<chain, file, lastLogBlock, lastCheckedBlock, logs, related, outputs,
                 stored, delivered, faults, spoiled>>

\* The places of the marketplace's events in the blocks from .. to, in order.
PlacesBetween(from, to) ==
  LET S == {p \in Places : p[1] \in from .. to /\ HasRule(p)}
  IN CHOOSE s \in [1 .. Cardinality(S) -> S] :
       \A i, j \in 1 .. Cardinality(S) : i < j => Before(s[i], s[j])

\* Fault: the continue file moves on before the events are handled.
FetchLogs_savesFirst(view) ==
  /\ pc = "fetch"
  /\ logs' = PlacesBetween(lastLogBlock + 1, Min(toBlock, view))
  /\ file' = toBlock
  /\ pc' = "listing"
  /\ tries' = 0
  /\ UNCHANGED <<chain, lastLogBlock, lastCheckedBlock, current, related, outputs,
                 stored, delivered, faults, spoiled>>

\* A node that is behind answers with the events it knows.
FetchLogs(view) ==
  /\ pc = "fetch"
  /\ logs' = PlacesBetween(lastLogBlock + 1, Min(toBlock, view))
  /\ pc' = "listing"
  /\ tries' = 0
  /\ UNCHANGED <<chain, file, lastLogBlock, lastCheckedBlock, current, related, outputs,
                 stored, delivered, faults, spoiled>>

Write(to, item, asOf) == [to |-> to, item |-> item, asOf |-> asOf]

OutputsFor(e, rel) ==
  IF e.listing \in Unpriced
  THEN <<>>
  ELSE <<Write("search", e.listing, rel.listing)>>
       \o (IF e.offer = NoOffer THEN <<>> ELSE <<Write("search", e.offer, rel.offer)>>)
       \o <<Write("db", e.listing, rel.listing), Write("webhook", e.listing, rel.listing)>>

\* The rule has loaded what the event is about.
Loaded(rel) ==
  LET out == OutputsFor(EventAt(Head(logs)), rel) IN
  /\ related' = Unread
  /\ outputs' = out
  /\ logs' = IF out = <<>> THEN Tail(logs) ELSE logs
  /\ pc' = IF out = <<>> THEN "listing" ELSE "write"
  /\ tries' = 0

\* Fault: the listing is read as it was at the time of the event.
LoadListing_then(view) ==
  /\ pc = "listing"
  /\ logs # <<>>
  /\ LET e == EventAt(Head(logs))
         then == Head(logs)[1]
     IN
     /\ LoadsAt(e.listing, then)
     /\ IF e.offer = NoOffer
        THEN Loaded([listing |-> then, offer |-> 0])
        ELSE /\ related' = [listing |-> then, offer |-> 0]
             /\ pc' = "offer"
             /\ UNCHANGED <<logs, outputs, tries>>
  /\ UNCHANGED <<chain, file, lastLogBlock, lastCheckedBlock, current, stored,
                 delivered, faults, spoiled>>

LoadListing(view) ==
  /\ pc = "listing"
  /\ logs # <<>>
  /\ LET e == EventAt(Head(logs)) IN
     /\ LoadsAt(e.listing, view)
     /\ IF e.offer = NoOffer
        THEN Loaded([listing |-> view, offer |-> 0])
        ELSE /\ related' = [listing |-> view, offer |-> 0]
             /\ pc' = "offer"
             /\ UNCHANGED <<logs, outputs, tries>>
  /\ UNCHANGED <<chain, file, lastLogBlock, lastCheckedBlock, current, stored,
                 delivered, faults, spoiled>>

LoadOffer(view) ==
  /\ pc = "offer"
  /\ LoadsAt(EventAt(Head(logs)).offer, view)
  /\ Loaded([related EXCEPT !.offer = view])
  /\ UNCHANGED <<chain, file, lastLogBlock, lastCheckedBlock, current, stored,
                 delivered, faults, spoiled>>

Replace(o) ==
  /\ stored' = [stored EXCEPT ![o.to][o.item] = o.asOf]
  /\ UNCHANGED delivered

\* The document of the index is put in the place of the former one.
Index(o) == o.to = "search" /\ Replace(o)

\* The row of the database: on conflict its data is updated.
Insert(o) == o.to = "db" /\ Replace(o)

PostToWebhook(o) ==
  /\ o.to = "webhook"
  /\ delivered' = delivered \cup {Head(logs)}
  /\ UNCHANGED stored

Apply(o) == Index(o) \/ Insert(o) \/ PostToWebhook(o)

\* The last output of an event makes room for the next event.
DoOutput ==
  /\ pc = "write"
  /\ Apply(Head(outputs))
  /\ outputs' = Tail(outputs)
  /\ logs' = IF Len(outputs) = 1 THEN Tail(logs) ELSE logs
  /\ pc' = IF Len(outputs) = 1 THEN "listing" ELSE "write"
  /\ tries' = 0
  /\ UNCHANGED <<chain, file, lastLogBlock, lastCheckedBlock, current, related,
                 faults, spoiled>>

\* Fault: the whole way to the head counts as handled, not the batch.
Save_current ==
  /\ pc = "listing"
  /\ logs = <<>>
  /\ lastLogBlock' = current
  /\ file' = current
  /\ lastCheckedBlock' = current
  /\ pc' = "poll"
  /\ UNCHANGED <<chain, current, logs, related, outputs, tries, stored, delivered,
                 faults, spoiled>>

Save ==
  /\ pc = "listing"
  /\ logs = <<>>
  /\ lastLogBlock' = toBlock
  /\ file' = toBlock
  /\ lastCheckedBlock' = current
  /\ pc' = "poll"
  /\ UNCHANGED <<chain, current, logs, related, outputs, tries, stored, delivered,
                 faults, spoiled>>

-----------------------------------------------------------------------------
(* Failures.                                                                 *)

\* The step is tried again, a rule from its beginning.
TryAgain ==
  /\ tries' = tries + 1
  /\ pc' = IF pc \in {"fetch", "poll"} THEN "poll" ELSE IF pc = "offer" THEN "listing" ELSE pc
  /\ related' = Unread
  /\ UNCHANGED <<lastLogBlock, lastCheckedBlock, current, logs, outputs>>

\* withRetrys: after MAX_RETRYS failures the process gives up.
Retry == IF tries + 1 >= MaxTries THEN Die ELSE TryAgain /\ UNCHANGED spoiled

\* Fault: a write that fails is left out, and the next one done.
RequestFails_givesUp ==
  /\ faults < MaxFaults
  /\ faults' = faults + 1
  /\ pc = "write"
  /\ outputs' = Tail(outputs)
  /\ logs' = IF Len(outputs) = 1 THEN Tail(logs) ELSE logs
  /\ pc' = IF Len(outputs) = 1 THEN "listing" ELSE "write"
  /\ tries' = 0
  /\ UNCHANGED <<chain, file, lastLogBlock, lastCheckedBlock, current, related, spoiled,
                 stored, delivered>>

\* A request fails; one that writes may have been carried out all the same.
RequestFails ==
  /\ faults < MaxFaults
  /\ faults' = faults + 1
  /\ pc \in {"poll", "fetch", "listing", "offer", "write"}
  /\ pc = "listing" => logs # <<>>
  /\ Retry
  /\ \/ UNCHANGED <<stored, delivered>>
     \/ pc = "write" /\ Apply(Head(outputs))
  /\ UNCHANGED <<chain, file>>

\* The storage answers with what is no data: the client keeps that answer.
DataSpoiled(view) ==
  /\ faults < MaxFaults
  /\ faults' = faults + 1
  /\ \E item \in Item :
       /\ \/ pc = "listing" /\ logs # <<>> /\ item = EventAt(Head(logs)).listing
          \/ pc = "offer" /\ item = EventAt(Head(logs)).offer
       /\ LoadsAt(item, view)
       /\ IF tries + 1 >= MaxTries THEN Die ELSE TryAgain /\ spoiled' = spoiled \cup {item}
  /\ UNCHANGED <<chain, file, stored, delivered>>

\* What the event is about cannot be loaded: not yet by this node, or never.
LoadFails(view) ==
  /\ \/ pc = "listing" /\ logs # <<>> /\ ~LoadsAt(EventAt(Head(logs)).listing, view)
     \/ pc = "offer" /\ ~LoadsAt(EventAt(Head(logs)).offer, view)
  /\ Retry
  /\ UNCHANGED <<chain, file, stored, delivered, faults>>

Crash ==
  /\ pc # "down"
  /\ faults < MaxFaults
  /\ faults' = faults + 1
  /\ Die
  /\ file' \in IF pc = "listing" /\ logs = <<>> THEN {file, Torn} ELSE {file}
  /\ UNCHANGED <<chain, stored, delivered>>

Work ==
  \/ Start
  \/ \E view \in View : Poll(view) \/ FetchLogs(view) \/ LoadListing(view)
                         \/ LoadOffer(view) \/ LoadFails(view)
  \/ DoOutput
  \/ Save

Next ==
  \/ \E block \in Contents : Mine(block)
  \/ Work
  \/ RequestFails
  \/ \E view \in View : DataSpoiled(view)
  \/ Crash

Spec == Init /\ [][Next]_vars

\* The process runs whenever it can, and is started again after it exits.
FairSpec == Spec /\ WF_vars(Work)

-----------------------------------------------------------------------------
(* Properties.                                                               *)

Wanted == {p \in Places : HasRule(p) /\ EventAt(p).listing \notin Unpriced}

\* An event was handled when the webhook has it and what is stored about its
\* listing and its offer is at least as recent as the event.
Handled(p) ==
  LET e == EventAt(p) IN
  /\ p \in delivered
  /\ \A s \in Store : stored[s][e.listing] >= p[1]
  /\ e.offer # NoOffer => stored["search"][e.offer] >= p[1]

\* README: "The listener will let you know one or more times about an event."
\* Whatever was tried again, and wherever the process died, an event in a block
\* that the daemon will not look at again has been handled.
NothingSkipped ==
  \A p \in Wanted : (p[1] <= lastLogBlock \/ (file # Torn /\ p[1] <= file)) => Handled(p)

\* The webhook hears of an event only after all the earlier ones.
InOrder == \A p \in delivered, q \in Wanted : Before(q, p) => q \in delivered

\* db.js: "TODO: Check that we are not replacing new data with old".  Although
\* events are handled again after a restart, no write takes an index back.
NoOldOverNew ==
  [][\A s \in Store, item \in Item : stored'[s][item] >= stored[s][item]]_vars

Stuck(p) == \E q \in Places : (q = p \/ Before(q, p)) /\ \E item \in Broken : Mentions(q, item)

AllHandled ==
  \A b \in 1 .. MaxHead :
    b <= Len(chain) ~> \A p \in Wanted : (p[1] = b /\ ~Stuck(p)) => Handled(p)

\* Every event on the chain is handled in the end, however many requests fail on
\* the way, unless it, or one before it, is about something that never loads.
\* Neither may a crash in the middle of a write destroy the continue file, nor
\* may the process fall more than a batch behind.
CaughtUp == [](file # Torn /\ current <= lastLogBlock + MaxBatch) => AllHandled
=============================================================================
