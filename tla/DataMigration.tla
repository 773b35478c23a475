----------------------------- MODULE DataMigration -----------------------------
(***************************************************************************)
(* The scripts that move listings into a new registry contract.  The read  *)
(* action saves the listings of the old contract to a data file.  The      *)
(* write action checks that none is in the registry already, submits one   *)
(* transaction for each under nonces of its own, with retries, polls until *)
(* all have their confirmations, and compares what was created with the    *)
(* file.  An answer may be lost, the operator may stop the script and      *)
(* start it again, and removes from the file what the check reports.       *)
(* Others may create listings in the registry too.                         *)
(*                                                                         *)
(* The listings of the old contract have different IPFS hashes.            *)
(***************************************************************************)
EXTENDS Naturals, Sequences, FiniteSets, SequencesExt

CONSTANTS
  N,                \* the listings of the old contract are 1 .. N
  MaxRetries,       \* MAX_RETRIES
  numConfirmations,
  MaxRuns,          \* bound on the times the write action is started
  Foreign,          \* a listing that others create
  MaxForeign        \* bound on these

ASSUME DataMigrationAssumption ==
  /\ N \in Nat /\ MaxRetries \in Nat
  /\ numConfirmations \in Nat \ {0} /\ MaxRuns \in Nat
  /\ Foreign \notin Nat /\ MaxForeign \in Nat

Listing == 1 .. N
Nonce   == 0 .. N * MaxRuns - 1

\* A transaction is known by its nonce and what it creates.
Tx == [nonce : Nonce, listing : Listing]

VARIABLES
  file,       \* the listings in the data file, none before it is written
  pool,       \* transactions that were sent and not mined
  nonce,      \* the account's next nonce on the chain
  receipts,   \* the mined transactions, with the blocks on top of them
  reverted,   \* those of them that failed, as the status in the receipt says
  registry,   \* the listings of the new contract, in the order of their indexes
  pc,         \* what the script is doing
  runs,       \* how often it was started
  initialNonce,
  startingNumListings,
  left,       \* the listings the loop has not come past
  numRetries,
  txToListings,
  numTotalTransactions,
  submittedListings, minedListings, confirmedListings, errors,
  duplicates, \* what the last check reported
  match,      \* whether the checksums were reported to match
  blind       \* history: whether a check could not see a listing of the file

chain  == <<pool, nonce, receipts, reverted, registry>>
lists  == <<submittedListings, minedListings, confirmedListings, errors>>
script == <<pc, initialNonce, startingNumListings, left, numRetries, txToListings,
            numTotalTransactions, lists, duplicates, match>>
dataVars   == <<file, chain, runs, script, blind>>

DataTypeOK ==
  /\ file \subseteq Listing /\ left \subseteq file
  /\ pool \subseteq Tx /\ DOMAIN receipts \subseteq Tx
  /\ nonce \in 0 .. N * MaxRuns
  /\ receipts \in [DOMAIN receipts -> 0 .. numConfirmations] /\ reverted \subseteq DOMAIN receipts
  /\ registry \in Seq(Listing \cup {Foreign})
  /\ startingNumListings \in 0 .. Len(registry) /\ match \in BOOLEAN
  /\ pc \in {"off", "check", "submit", "confirm", "data", "done"}
  /\ runs \in 0 .. MaxRuns
  /\ initialNonce \in 0 .. N * MaxRuns /\ numRetries \in 0 .. MaxRetries
  /\ txToListings \subseteq Tx /\ numTotalTransactions \in 0 .. N
  /\ submittedListings \subseteq Listing /\ minedListings \subseteq Listing
  /\ confirmedListings \in Seq(Listing) /\ errors \subseteq Listing
  /\ duplicates \subseteq Listing /\ blind \in BOOLEAN

DataInit ==
  /\ file = {}
  /\ pool = {} /\ nonce = 0
  /\ receipts = <<>> /\ reverted = {} /\ registry = <<>>
  /\ pc = "off" /\ runs = 0
  /\ initialNonce = 0 /\ startingNumListings = 0 /\ left = {} /\ numRetries = 0
  /\ txToListings = {} /\ numTotalTransactions = 0
  /\ submittedListings = {} /\ minedListings = {} /\ confirmedListings = <<>> /\ errors = {}
  /\ duplicates = {} /\ match = FALSE /\ blind = FALSE

-----------------------------------------------------------------------------
(* The chain.                                                                *)

Aged == [tx \in DOMAIN receipts |->
           IF receipts[tx] < numConfirmations THEN receipts[tx] + 1 ELSE receipts[tx]]

\* A block with the account's next transaction, which creates its listing or fails
\* (out of gas), or without.
Mine ==
  /\ \E tx \in pool :
       /\ tx.nonce = nonce
       /\ pool' = pool \ {tx}
       /\ receipts' = [t \in DOMAIN receipts \cup {tx} |-> IF t = tx THEN 0 ELSE Aged[t]]
       /\ \/ registry' = Append(registry, tx.listing) /\ UNCHANGED reverted
          \/ reverted' = reverted \cup {tx} /\ UNCHANGED registry
  /\ nonce' = nonce + 1
  /\ UNCHANGED <<file, runs, script, blind>>

EmptyBlock ==
  /\ receipts' = Aged
  /\ UNCHANGED <<file, pool, nonce, reverted, registry, runs, script, blind>>

Indexes(S) == {i \in DOMAIN registry : registry[i] \in S}

CreatedOften(l) == Cardinality(Indexes({l}))

OthersCreate ==
  /\ Cardinality(Indexes({Foreign})) < MaxForeign
  /\ registry' = Append(registry, Foreign)
  /\ UNCHANGED <<file, pool, nonce, receipts, reverted, runs, script, blind>>

\* The transaction count with the pending ones, as far as no nonce is missing.
PendingNonce ==
  CHOOSE n \in 0 .. N * MaxRuns :
    /\ n >= nonce /\ \A t \in pool : t.nonce # n
    /\ \A k \in nonce .. n - 1 : \E t \in pool : t.nonce = k

-----------------------------------------------------------------------------
(* The operator.                                                             *)

\* A listing that could not be read, however often it was tried, is missing
\* from the file.
read ==
  /\ pc = "off" /\ runs = 0
  /\ \E unread \in SUBSET Listing : file' = Listing \ unread
  /\ UNCHANGED <<chain, runs, script, blind>>

Start ==
  /\ pc \in {"off", "done"} /\ runs < MaxRuns
  /\ file # {}
  /\ pc' = "check"
  /\ runs' = runs + 1
  /\ left' = {} /\ numRetries' = 0
  /\ txToListings' = {}
  /\ submittedListings' = {} /\ minedListings' = {} /\ confirmedListings' = <<>> /\ errors' = {}
  /\ match' = FALSE
  /\ UNCHANGED <<file, chain, initialNonce, startingNumListings, numTotalTransactions,
                 duplicates, blind>>

\* CTRL+C, while the script could still be started again.
Interrupt ==
  /\ pc \in {"check", "submit", "confirm", "data"} /\ runs < MaxRuns
  /\ pc' = "off"
  /\ UNCHANGED <<file, chain, runs, initialNonce, startingNumListings, left, numRetries,
                 txToListings, numTotalTransactions, lists, duplicates, match, blind>>

RemoveDuplicates ==
  /\ pc = "off" /\ duplicates # {}
  /\ file' = file \ duplicates
  /\ left' = {}
  /\ duplicates' = {}
  /\ UNCHANGED <<chain, runs, pc, initialNonce, startingNumListings, numRetries,
                 txToListings, numTotalTransactions, lists, match, blind>>

-----------------------------------------------------------------------------
(* write.                                                                    *)

\* getAllListings, of the places first .. last of the registry: what can be read.
Retrieved(first, last, unread) == {registry[i] : i \in (first .. last) \ unread}

\* A listing that cannot be read is not compared.
checkDuplicates ==
  /\ pc = "check"
  /\ \E unread \in SUBSET Indexes(file) :
       LET found == file \cap Retrieved(1, Len(registry), unread) IN
       /\ duplicates' = found
       /\ pc' = IF found = {} THEN "submit" ELSE "off"
       /\ left' = IF found = {} THEN file ELSE {}
       /\ blind' = \/ blind
                   \/ unread # {}
                   \/ \E tx \in pool : tx.listing \in file
  /\ initialNonce' = PendingNonce
  /\ startingNumListings' = Len(registry)
  /\ UNCHANGED <<file, chain, runs, numRetries, txToListings, numTotalTransactions, lists, match>>

listingID == CHOOSE l \in left : \A k \in left : l <= k

\* Fault: each attempt asks for the nonce.
createListing_newNonce == [nonce |-> PendingNonce, listing |-> listingID]

\* The nonce belongs to the listing, whatever attempt it is.
createListing == [nonce |-> initialNonce + Cardinality(file \ left), listing |-> listingID]

\* The node takes one transaction for a nonce.
Acceptable(tx) == tx.nonce >= nonce /\ \A t \in pool : t.nonce # tx.nonce

sendTransaction(tx) == Acceptable(tx) /\ pool' = pool \cup {tx}

Accepted ==
  LET tx == createListing IN
  /\ pc = "submit" /\ left # {}
  /\ sendTransaction(tx)
  /\ numRetries' = 0
  /\ txToListings' = txToListings \cup {tx}
  /\ submittedListings' = submittedListings \cup {listingID}
  /\ left' = left \ {listingID}
  /\ UNCHANGED <<file, nonce, receipts, reverted, registry, runs, pc, initialNonce, startingNumListings,
                 numTotalTransactions, minedListings, confirmedListings, errors, duplicates,
                 match, blind>>

\* The attempt fails: nothing was sent, or it was and the answer is lost.
Failed ==
  /\ pc = "submit" /\ left # {}
  /\ \/ UNCHANGED pool
     \/ sendTransaction(createListing)
  /\ IF numRetries < MaxRetries
     THEN numRetries' = numRetries + 1 /\ UNCHANGED <<left, errors>>
     ELSE /\ errors' = errors \cup {listingID}
          /\ left' = left \ {listingID}
          /\ UNCHANGED numRetries
  /\ UNCHANGED <<file, nonce, receipts, reverted, registry, runs, pc, initialNonce, startingNumListings,
                 txToListings, numTotalTransactions, submittedListings, minedListings,
                 confirmedListings, duplicates, match, blind>>

Submitted ==
  /\ pc = "submit" /\ left = {}
  /\ pc' = "confirm"
  /\ numTotalTransactions' = Cardinality(txToListings)
  /\ UNCHANGED <<file, chain, runs, initialNonce, startingNumListings, left, numRetries,
                 txToListings, lists, duplicates, match, blind>>

\* Fault: a listing is confirmed in one block only.
Confirmed_exactly(tx) == receipts[tx] = numConfirmations - 1

Confirmed(tx) == receipts[tx] >= numConfirmations - 1

Listings(txs) == {tx.listing : tx \in txs}

Mined(known, sure) == (minedListings \cup Listings(known)) \ Listings(sure)

\* Fault: the script ends when every transaction has been mined.
AllConfirmed_mined(submitted, confirmed) == submitted = {}

AllConfirmed(submitted, confirmed) == Len(confirmed) = numTotalTransactions

\* One round of polling, that reads the current block and all receipts, whatever
\* their status.
confirm ==
  LET known == txToListings \cap DOMAIN receipts
      sure  == {tx \in known : Confirmed(tx)}
  IN
  /\ pc = "confirm"
  /\ submittedListings' = submittedListings \ Listings(known)
  /\ confirmedListings' = confirmedListings \o SetToSeq(Listings(sure))
  /\ minedListings' = Mined(known, sure)
  /\ txToListings' = txToListings \ sure
  /\ pc' = IF AllConfirmed(submittedListings', confirmedListings') THEN "data" ELSE "confirm"
  /\ UNCHANGED <<file, chain, runs, initialNonce, startingNumListings, left, numRetries,
                 numTotalTransactions, errors, duplicates, match, blind>>

\* The digest is taken of as many undefined values as there are different hashes:
\* the listings are looked up by their position instead of by their hash.
calculateChecksum(listings) == Cardinality(listings)

\* Fault: what was given up is not asked for.
checkData_withoutErrors ==
  /\ pc = "data"
  /\ \E unread \in SUBSET (startingNumListings + 1 .. Len(registry)) :
       match' = ( calculateChecksum(file \ errors) =
                  calculateChecksum(Retrieved(startingNumListings + 1, Len(registry), unread)) )
  /\ pc' = "done"
  /\ UNCHANGED <<file, chain, runs, initialNonce, startingNumListings, left, numRetries,
                 txToListings, numTotalTransactions, lists, duplicates, blind>>

\* What was created since the start is compared with the file.
checkData ==
  /\ pc = "data"
  /\ \E unread \in SUBSET (startingNumListings + 1 .. Len(registry)) :
       match' = ( calculateChecksum(file) =
                  calculateChecksum(Retrieved(startingNumListings + 1, Len(registry), unread)) )
  /\ pc' = "done"
  /\ UNCHANGED <<file, chain, runs, initialNonce, startingNumListings, left, numRetries,
                 txToListings, numTotalTransactions, lists, duplicates, blind>>

-----------------------------------------------------------------------------

write == checkDuplicates \/ Accepted \/ Failed \/ Submitted \/ confirm \/ checkData

DataNext ==
  Mine \/ EmptyBlock \/ OthersCreate \/ read \/ Start \/ Interrupt \/ RemoveDuplicates \/ write

DataSpec == DataInit /\ [][DataNext]_dataVars

\* Blocks come, with what can be mined, and the script goes on.
FairSpec == DataSpec /\ WF_dataVars(Mine) /\ WF_dataVars(EmptyBlock) /\ WF_dataVars(write)

-----------------------------------------------------------------------------
(* Properties.                                                               *)

\* A listing is created once, whatever attempts were repeated, answers lost and
\* runs interrupted; unless a run was started while transactions of an earlier one
\* were pending, or could not read a listing of the new registry.
CreatedOnce == ~blind => \A l \in Listing : CreatedOften(l) <= 1

\* What the script prints adds up, also when it is stopped: each listing is in one
\* state only, submitted, mined, confirmed, in error or not yet come past; when the
\* script ends by itself everything was confirmed, or is an error; and what is printed
\* as mined or migrated has a transaction that was mined, and was created unless that
\* transaction failed, which the script does not ask.
ResultsTrue ==
  LET confirmed == ToSet(confirmedListings)
      states == <<submittedListings, minedListings, confirmed, errors, left>>
  IN /\ \A l \in minedListings \cup confirmed :
          \E tx \in DOMAIN receipts :
            tx.listing = l /\ (tx \notin reverted => CreatedOften(l) > 0)
     /\ pc \in {"data", "done"} => confirmed \cup errors = file
     /\ pc \in {"submit", "confirm", "data", "done"} =>
         /\ UNION {states[i] : i \in 1 .. 5} = file
         /\ \A i, j \in 1 .. 5 : i # j => states[i] \cap states[j] = {}
         /\ Len(confirmedListings) = Cardinality(confirmed)

\* When the checksums are said to match, every listing of the file was created in
\* this run, unless others created listings meanwhile or the check for duplicates
\* was blind.  Of what the script reports, only this tells of transactions that failed.
MatchTells ==
  (match /\ ~blind) =>
    LET since == {registry[i] : i \in startingNumListings + 1 .. Len(registry)}
    IN Foreign \in since \/ file \subseteq since

\* The script does not poll for ever when no listing was given up: no nonce is
\* missing before the ones it waits for.
PollingEnds == pc = "confirm" /\ errors = {} ~> pc # "confirm"
=============================================================================
