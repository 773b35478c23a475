# origin-js in TLA+

A verification project for origin-js: the smart contracts of the Origin
marketplace, the JavaScript client that talks to them, and the daemon that
indexes their events. The modules model the code; TLC checks them on small
instances and TLAPS proves the theorems for every value of the constants.

## 1. The system

Paths are relative to the repository root.

| Part | Code | State it keeps | Operations |
|---|---|---|---|
| Marketplace contract | `contracts/contracts/marketplace/v00/Marketplace.sol` | listings with a deposit in Origin Token, offers with an escrowed price, affiliate whitelist, token address, the money itself | create, update, withdraw a listing; make, replace, withdraw, accept, finalize, dispute, rule on an offer; add funds, set a refund; owner's settings; `addData` (an event only) |
| Origin Token | `contracts/contracts/token/*.sol` | balances, allowances, pause flag, two whitelists, whitelist expiration | transfer, approve, `approveAndCallWithSender`, mint, burn, whitelist administration; migration of all balances to a new token |
| Identity | `contracts/contracts/identity/*.sol` | keys and pending executions, claims and their index by topic, user registry | add and remove keys, execute and approve, add and remove claims, register |
| Client: marketplace | `src/contractInterface/marketplace/*`, `src/resources/marketplace.js`, `src/models/*` | nothing durable but the read flags of notifications; views computed from the contract's records and its event history | every contract call above, `getListing`, `getListings`, `getOffer`, `getOffers`, `getNotifications`, reviews |
| Client: users | `src/contractInterface/users/*`, `src/resources/users.js`, `attestations.js` | the wallet's identity contract and its claims | `set` (deploy an identity or add claims), `get` |
| Client: messaging | `src/resources/messaging.js` | OrbitDB stores: key registry, per-user conversation list, per-conversation rooms with encrypted keys; unlock state | start conversing, join a room, exchange keys, send, mark as read |
| Client: services | `src/services/*`, `src/utils/*`, `src/ipfsInterface/*` | IPFS cache, web3 connection | transactions with confirmation callbacks and retries, IPFS load and save |
| Indexing daemon | `daemon/indexing/*` | the last block handled (memory and continue file), the Postgres and Elasticsearch indexes | poll the chain, handle each event, retry, exit, resume; answer GraphQL queries from the search index |
| Token tools | `token/*` | none of their own | calls to the token with retries, faucet, whitelist and multi-signature helpers |
| Data migrations | `data_migrations/*` | files listing what was read, written, confirmed | copy listings from an old contract to a new one |
| Deployment | `contracts/migrations/*`, `scripts/*` | | deploy and configure the contracts |

How they interact: the client and the token tools send transactions to the
contracts and read them back, by a call for the current record and by a query
for past events, two requests that the chain may change between. Seller deposits
reach the marketplace through the token (`approveAndCallWithSender` calls
`createListingWithSender`). The daemon uses the client to read what an event is
about. Wallets, ERC20 tokens, Ethereum nodes, IPFS, OrbitDB and the databases are
outside the repository.

What is hard here: transactions of several parties in any order on contracts that
keep deposits, escrow and commissions in one balance; a view put together from two
requests; events read while the chain grows; retries of what may have happened
already; processes that stop in the middle of a batch; replicas that learn of each
other's entries late and in another order than they were written. PROJECT.json
lists each such hazard at its line, with the properties that watch over it.

What makes each part correct, in a sentence:

- *Marketplace*: what is paid out of an offer is what was paid in, to its two
  parties; a deal that was agreed can always be settled; what an offer is owed never
  comes out of another offer or deposit.
- *Origin Token*: the supply is what the accounts own, pause and whitelist apply on
  every way a token can move, and a migration that finishes left nobody out.
- *Identity*: the two records of keys agree, and a requested execution takes effect
  as requested, once, and only through a key holder, but for what is done to it from
  within its own call.
- *Client*: what it shows was true at some moment of the call, and it misses nothing
  that was true throughout.
- *Users*: what a call of `set` was given is there when the call has returned.
- *Messaging*: whoever can open the conversation can read all of it, in whatever order
  its entries arrived.
- *Daemon*: no event is skipped, however often requests fail and wherever it stops.
- *Search*: walking through the pages of an answer finds what there is, once.
- *Token tools*: a command takes effect once at most, and what the operator is told
  of it is true.
- *Data migration*: each listing is created once, and the printed results are true of
  the transactions that did not fail.

## 2. Modules

| Module | What it is | Checked in runs |
|---|---|---|
| `NatSum` | sums of natural-number functions over finite sets, defined by counting and not by recursion, so that proofs can use it | |
| `Marketplace` | the contract: one action per function, atomic as a transaction is | `money`, `deals` |
| `Escrow` | abstract: what the marketplace promises about money in one currency, a pot per deal | |
| `MarketplaceEscrow` | the refinement mapping from the contract to `Escrow` | `deals` |
| `MarketplaceLog` | `Marketplace` with the events each call emits | `adapter`, `client`, `excluded` |
| `OfferChecks` | what the client requires of an offer, with its comparison of amounts | `adapter`, `client`, `excluded` |
| `MarketplaceAdapter` | `getOffer`, `getOffers` and `getNotifications`, request by request, on `MarketplaceLog` | `adapter`, `excluded` |
| `MarketplaceClient` | the client's writes, listing queries and reviews, composed with its reads and the contract | `client` |
| `OriginToken` | the token: ERC20, pause, whitelist, approve-and-call | `token`, `migration` |
| `TokenTools` | a command of the command line or the faucet, sent directly or through a multi-signature wallet, on `OriginToken` | `token` |
| `TokenMigration` | two instances of `OriginToken` and the migration contract | `migration` |
| `IdentityState`, `Identity` | what an identity keeps and how keys and claims change; the calls and executions | `identity` |
| `Users` | `set` of the users adapter, the registry, attestations | `users` |
| `Messaging` | a conversation of two users over replicated stores | `messaging` |
| `Listener` | the indexing daemon | `listener` |
| `Search` | the answers of the GraphQL server, with Discovery's bounds on a page, as operators on an index | |
| `SearchIndex` | `Listener` with those queries on the index it writes | `listener` |
| `DataMigration` | the scripts that write listings to a new registry | `data_migration` |
| `*_proofs` | lemmas and theorems, see section 5 | |
| `MC*` | constants of the checked instances | |

Operators called `X_something` after `X`, commented "Fault", are changed forms of the
operator `X` that stand for a plausible mistake in the code. No specification uses
them. For each property at least one of them, put in the place of the original, breaks the
property: that is how we know that the property depends on the code.

## 3. How the modules correspond to the code

### Marketplace

`listings`, `offers`, `allowedAffiliates` and `tokenAddr` are the contract's storage;
an array entry that does not exist is the zeroed record that a read of it would
return. `balance` holds all money in Eth and the tokens, the contract's own under
`Market`. One action per public function, named as there; internal functions
(`paySeller`, `refundBuyer`, `payCommission`) are operators on the balances. A call
that reverts is no step: an action's guard is the conjunction of all the `require`s
on its path, those of the calls it makes included. `Tick` moves the block time.

Taken as given: the owner is a constant (`transferOwnership` is library code); the
ERC20 allowances a call needs are there, as a missing one only makes it revert; an
affiliate or target is never the contract itself; Origin Token's pause is not part of
this module; nobody sends the contract tokens outside its functions. `MaxRecord`
bounds amounts, so that overflow is out of reach, as it is with real supplies.
`Refusing` is the set of accounts that do not accept Eth; the runs leave it empty, the
theorems hold for any.

What reading the contract shows and the properties state openly: a withdrawn listing
keeps its deposit on record, so a later call can spend Origin Token that backs other
listings (`BackingKept` names the two calls after which backing may be lost); a
disputed offer without an arbitrator, an offer on a listing that does not exist yet
and an offer priced in Origin Token are excluded from `Settleable`; a seller's own
`finalize` leaves the commission in the contract.

`Escrow` knows deals by their slot: a pot that is opened, added to, and paid out to
the buyer and the seller of that deal. `MarketplaceEscrow` maps a live offer in the
watched currency to its pot, everything else to an empty one.

### Client: reading

`MarketplaceLog` adds `log`, the sequence of events (`Emit` what one call adds to it);
`Kept` leaves out those that no modelled query reads (`Logged`). `MarketplaceAdapter` adds
one call in progress: `since` and `until` are the lengths of the log at its first and last request. `ReadRecord` and
`ReadEvents` are the two requests of `getOffer`, `OfferStatus` the status it makes of
them, `Suits` the validation. `ReadPartyEvents`, `ReadOwnListing` and `ReadPurchase`
are the requests of the adapter's `getNotifications`; `StartChecks` and `EndCheck` the
concurrent loads of the resource's, with the flag `isValid` that they share.
`ReadOfferIds` and `EndLoad` are `getOffers`, whose loads fail one by one. The chain
stops once a call has returned, and one node answers all requests.

### Client: writing, queries and reviews

`MarketplaceClient` lets everybody else go on (`OthersStep`) while a call of the client
is in progress, and any request fail (`Fail`). `createListing` is `StoreListing` (the
data goes to IPFS), `StartListing` (the account selected by then is read), `SendListing`
(directly or with a commission through the token) and `ReadReceipt` or `ReadBlock`: with
a commission the receipt is the token's, and the id is looked up among the events of the
whole block. `StartAccept` and `SendAccept` follow a `getOffer` whose answer the seller
saw; every other write is one transaction (`OtherWrite`). `ReadListingIds` and
`LoadListing` are `getListings`, which fails as a whole when one load does;
`ReadReviewEvents` and `LoadReview` are `getListingReviews`. The account may be switched
in the wallet between any two calls.

### Origin Token, its tools and its migration

`token` is a record of the token's storage, so that `TokenMigration` can hold two of
them. One action per function of the contract and of the OpenZeppelin 1.10 contracts it
inherits (those are external: only the way this code uses them is modelled). A
contract called by `approveAndCallWithSender` is represented by how much of the
allowance it collects. `MaxSupply` bounds minting and `increaseApproval`. The token
contracts make no calls of their own.

`TokenTools` follows one command (`cmd`): `Check` is one of its reads of the chain, in
the code's order, each a step of its own; `Send` the transaction, to the token or as a
submission to the wallet; `PollReceipt` and `PollEffect` the two retry loops, after
which it gives up. The wallet's owners confirm, revoke and execute. `effects` is a
history variable, how often the token did what was asked for. A process that ended and
has nothing under way is not told from one that never began; one command at a time.

`undisturbed` of `TokenMigration` is a history variable: only the migration has changed
balances since it began. The code does not require pausing the old token, which is why
the properties have it as a condition.

### Identity

`holder` has the keys, the index of keys by purpose, the claims and their index by
topic; `executions` and `executionNonce` the requests. A key stands for the hash of
an account, a claim id for an issuer and a topic. An execution names a call of the
identity itself or of another contract.

The library calls out between checking and setting `executed`, and before it advances the
nonce, so what an execution calls is not one step with it. `frames` are the executions
whose call has not returned, the innermost last, and `calling` is what the identity calls
of itself next. While another contract runs, contracts (`Contracts`, with or without
keys) may call every function of the identity; the identity may call its own, by
`CallSelf`, and needs no key for it but to approve. `Return` sets `executed` and, for an
execution begun by `execute`, advances the nonce. A call that fails undoes what was done
within it, so it is one step that does nothing but what `approve` records of it; what
was done before the failure is what is done in a call that succeeds. A call of another
function of the identity's own cannot be interrupted and is done in the step that makes it.

`ran` is a history variable, the calls that took effect under each id. `rerun` and
`overwritten` are, too: the ids that something within their own call ran again, or gave
another call. The code allows both (section 6), so the properties except these ids and no
other, and `OnlyKeyHoldersAct` says that running again takes a key. Key types, the Eth an
execution names and the parsing of packed signatures are left out.

### Users

One wallet. `registry` is its entry in the user registry, an identity is named by the
number of the wallet's transaction that deployed it, as the contract's address is a
function of it. `pool` are the transactions sent and not mined. `call[c]` is one call
of `set` in progress, with one action per request it waits for: `KnowIdentity`,
`KnowClaims`, `KnowIdentityAgain`, `Submit`; it returns when its transaction is mined.
It fails when a request does or the wallet refuses the transaction (`Fail`), when the
transaction is mined and reverts (`Revert`), and when it is not mined within 50 blocks
(`GiveUp`): then nobody waits for it any more and it may still be mined, or fail.
`given`, `profile`, `overlapped`, `replaced` and `astray` are history: what calls that have
returned were given, and those that failed before their transaction was mined after all;
whether a call began while another was in progress or a deployment pending; whether a
registered identity was replaced; whether claims reached an identity that was not
registered. `getClaims` ignores removed claims, and no client call removes one; the
server's signing key is assumed to stay trusted.

### Messaging

Two users and their replicas: `registry[u]` of the global key store, `marks[u]` of the
two init stores, `log[u]` of the room on disk and `view[u]` the part that is loaded.
OrbitDB is external: entries have a Lamport time and are ordered by it and their
writer, a replica joins what the other has, and an entry whose writer's key is not in
the registry within five seconds is rejected and comes again with a later exchange. A
join brings all that is missing at once; smaller deliveries lead to the same states.
A user is unlocked before being registered (`Unlock`): sending is possible from then on,
while the prompt that registers the user (`Register`) may be answered late or never, as
when it is refused. `conv[u]` are the keys learned, the first of them (the only one used to encrypt) and the
entries processed last, `shown` and `hidden` what was emitted in clear and as encrypted.
`AddFails` ends a call that could not add its message and leaves the flag `sending` set,
after which every later call is refused until the page is loaded again, as in the code.
`late[u]` says that a key went past a locked user: such a user's messages stay encrypted,
and sending throws, until `getAllMessages` or a reload, which is what the code does and
why the properties exclude it.

### Listener

`chain` is the sequence of blocks, each a sequence of events about a listing or an
offer; an event of another contract that looks like one of the marketplace matches no
rule. `file` is the continue file, `Torn` when the process died between truncating and
writing it. `pc` and the variables after it are the running process; `Start`, `Poll`,
`FetchLogs`, `LoadListing`, `LoadOffer`, `DoOutput` and `Save` are its awaits in
order; the outputs are the search index (`Index`), the database (`Insert`, `Replace`) and
the webhook (`PostToWebhook`). `Retry` is `withRetrys`: a failed step is repeated from its
start until the process exits. `spoiled` is the client's cache of loaded objects: an
answer that is no data is kept as a failure until the process ends (`DataSpoiled`).
`stored` says as of which block each index describes each item. A failed write may have
been carried out. User documents are left out; that the listing id of an event differs
from the one loaded cannot happen with this client.

### Search

Queries change nothing, so `Search` has no variables: its operators take an index, a
function from ids to documents, and give the answers. `Matches`, `Passes` and `Hits` are
the query that `Listing.search` builds, `Stats` its second request, `Listings` the
resolver and `DiscoverySearch` what the client makes of a caller's size and offset.
Filters that `Translated` does not hold of leave an empty clause, which Elasticsearch
refuses. Relevance is reduced to whether the text is in the title, and every document has
a price and a commission; the index's field mapping, which is not in the repository, is
taken to treat them as numbers. `OfferSearch` reads the options it is given by name.

`SearchIndex` puts the queries on the index that `Listener` writes: `ListingIndex` has of
each listing the data after the last event as of the block in which it was read
(`Versions`), `OfferIndex` of each offer its listing and buyer. Its properties hold
between any two writes, so also while an event is handled in part and the daemon is down.
Each answer is taken from one state; the two requests of a search are made together.

### Data migration

The scripts for v0.6 and v0.7 have the same text but for addresses, interfaces and batch
sizes; one module stands for both. `read` writes the data file; `registry` is the new
contract's list; `pool` the transactions sent and not mined. One action per await of
`write`: its duplicate check, submissions with nonces of their own, retries, polling (a
poll reads the current block and all receipts at once) and `checkData`, the comparison
of checksums. A transaction is mined and creates its listing, or is mined and fails, when
it reverts or runs out of gas (`reverted`); the scripts take the receipts of both alike.
`Interrupt` is the operator stopping the script, `RemoveDuplicates` the
operator editing the file after a check, `OthersCreate` somebody else using the
registry. `blind` is a history variable: a run was started while transactions of an
earlier one were pending, or could not read a listing; then the code may create a
listing twice, and `CreatedOnce` says so. Listings have distinct hashes.

## 4. Runs

| Run | What it shows |
|---|---|
| `money` | Two listings with one offer each, in Eth or in Origin Token itself, whose deposits share the contract's balance, with the owner switching between two Origin Token contracts: the escrow stays exact, and only withdrawListing (or a change of token) leaves deposits unbacked. `TypeOK`, `EscrowExact`, `BackingKept`. |
| `deals` | One listing with two offers, in Eth with a commission or in a stablecoin: accepted offers stay sound and every offer can be settled by one party; the contract implements the abstract escrow of one pot per deal; and with time passing and a seller who keeps calling finalize no accepted offer stays accepted for ever, whatever others do. `AgreedOffersSound`, `Settleable`, `ImplementsEscrow`, `AcceptedSettles`. |
| `adapter` | getOffer, getOffers and getNotifications as series of requests while the chain goes on: the log determines every status, what getOffer reports was true at some moment of the call unless data was attached, the notifications miss nothing that holds throughout, and getOffers loses no offer but one whose own load fails. `LogTells`, `StatusTimely`, `NothingMissed`, `OffersComplete`. |
| `excluded` | One invalid offer suppresses the notifications of valid offers that finish loading after it. Violated, as expected: `OnlyInvalidExcluded`. |
| `client` | Writes of a client composed with its reads while others go on: the id returned by createListing is that of its own listing even when two are created in one block, what is accepted is what was shown and validated, and a final review is by a party of an accepted offer. `CreatedIsOwn`, `AcceptedAsShown`, `ReviewsOfDeals`. |
| `listener` | With failed requests, unreadable answers kept in the cache, exits, crashes and data that never loads, no event is skipped, the webhook hears of events in order, no index goes back to older data, and every event that nothing unloadable precedes is handled in the end. At every moment a walk through the pages of a search finds every listing of the index once, the price range covers what filters hide, and an offer found leads to its listing. `NothingSkipped`, `InOrder`, `WalkComplete`, `OfferResolves`, `NoOldOverNew`, `CaughtUp`. |
| `token` | Origin Token with one command of its tools, sent directly or through a wallet of two signers, next to everything others do: pause and whitelist hold on every way tokens move, the supply is what the accounts own, and a command takes effect at most once and is reported as it went. `SupplyIsSum`, `AnswersTrue`, `EffectOnce`, `TransfersGated`, `WhitelistEnds`. |
| `migration` | Two tokens and the migration contract: the totals that finish compares are equal exactly when no holder was left out, so an undisturbed migration that finishes has given everyone what they had. `TotalsTellAll`, `FinishIsComplete`. |
| `identity` | An identity whose keys and claims change by direct calls and by executions that are requested by anybody, approved later, refused and tried again; what an execution calls may be a contract that calls back, with or without an action key, or the identity itself. `IndexesAgree`, `RunsOnce`, `RequestsFixed`, `OnlyKeyHoldersAct`. |
| `users` | Two overlapping calls of set of one wallet, each of which may fail at any request, with its transaction refused, reverted or still pending, and be repeated, between transactions that clear its registration or use up the nonce the attestation server counted on. `GivenIsShown`, `OneIdentity`. |
| `messaging` | Two users who may start their conversation at once, one of them registered on another device and still locked, the other able to send before being registered, with one reload of either's page. `AllReadable`, `KeysBefore`, `Delivered`. |
| `data_migration` | Up to three listings read and then moved by a script that is started more than once while others create listings too, with failing attempts, lost answers, transactions that are mined and fail, and interruptions at any step. `CreatedOnce`, `ResultsTrue`, `MatchTells`, `PollingEnds`. |

### Bounds, and why they are enough

- Marketplace: two slots suffice for one offer to be paid from another's escrow, and
  two accounts for every role, as roles are per deal and an account may hold several.
  Amounts are 1, prices 1 and 2, records at most 3, so that a sum of two differs from
  each part; `RelativeWindow` 2 stands for the 1000000000 that separates durations from
  points in time, and both kinds of deadline occur. In the runs of the client deposits
  are zero and the price is 10, so that an offer can fall short. The client needs four
  events (`MaxLog`): two more than one request of a call leaves behind.
- Client: two listings, so that two can be created in one block; offers at a price that
  suits and at one that does not; with and without arbitrator and commission. The clock
  stands; the deadline of one kind of offer is past, so that its seller too may finalize
  it. Time passes in `deals` and `adapter`.
- Token: one whitelisted and one other account, an owner, one unit to move; the
  expiration has a value that can pass and one after it. The wallet has two owners who
  must both confirm; two polls per loop, so that one can miss and the next succeed. The
  migration has three holders, so that batches can overlap and leave one out.
- Identity: two requests, and executions two deep, so that one can be run again or
  overwritten within its own call; the account that deploys it, a contract that calls back
  and may get and lose a key, and the identity itself; three purposes, claims with and
  without an issuer, at most two entries per index (`MaxIndexed`), so that one can be there
  twice. Executions are of a call of another contract or of one of six of the
  identity: `addKey` for the contract and for the identity, `removeKey`, `addClaims`,
  `execute` and `approve`; `removeClaim` is called directly only (the theorems have it in
  executions too).
- Users: two concurrent calls, three transactions, two issued attestations: one for the
  identity that comes to exist and one for another; a call is given one of them at most
  (`MaxGiven`) and a profile. Callers and profiles are symmetric,
  no definition tells them apart.
- Messaging: one call per user and two entries each (a key and a message); one reload.
- Listener: three blocks and batches of two, so that a batch ends before the head;
  two failures or crashes, two tries per step; one listing that never loads and one
  foreign event.
- Search: two listings in the index, one of which changes category, price and place in
  the order and is then withdrawn; pages of one and of two, so that a walk takes one or
  two; a size below what Discovery allows; one default hit, so that an answer is cut.
- Data migration: three listings, one retry, two confirmations, two runs, one listing
  of somebody else.

### Fairness

- `deals`: time passes, and each seller keeps calling `finalize` while it can
  succeed. Nothing is assumed of buyers, arbitrators or the owner. The contract
  cannot act by itself, so someone must; the property says who suffices.
- `listener`: the process does its next step whenever it can, and is restarted when it
  has exited (the continue file is there for that). Failures are finite (`MaxFaults`),
  as the code's limited retries justify nothing against a service that is always down.
  `CaughtUp` is stated of behaviours in which the continue file is never torn and the
  daemon is never more than a batch behind.
- `messaging`: each page opens and loads its room and exchanges with the peer, which
  happens without the user; nothing is assumed of unlocking, registering, reloading or sending.
  `Delivered` is of what is sent by those who are registered, then or later.
- `data_migration`: blocks are mined, and the script, once started, goes on.

The other runs check safety only: nobody is obliged to call a contract or a client, and
a command of the token tools may be interrupted.

## 5. Theorems

| Theorem, and the property of section 4 that it states | Module |
|---|---|
| `TypeCorrect` (`TypeOK`): For every number of listings, offers, accounts and tokens and all amounts, records, deposits and balances stay naturals: no subtraction in any call goes below zero. | `Marketplace_proofs` |
| `EscrowIsExact` (`EscrowExact`): For all values of the constants, the contract holds in each currency that never is Origin Token exactly the sum of the values of the live offers priced in it. | `Marketplace_proofs` |
| `AgreedOffersAreSound` (`AgreedOffersSound`): For all values of the constants, an accepted or disputed offer is on an existing listing, has an absolute deadline, a refund no larger than its value, and a commission only with an affiliate. | `Marketplace_proofs` |
| `OffersAreSettleable` (`Settleable`): For all values of the constants, an offer in a currency of its own between parties that accept the money can be settled by one party alone, and the call is never short of money: the buyer withdraws a created one, the seller finalizes an accepted one past its deadline, the arbitrator rules a disputed one whichever way and with whatever refund. | `Marketplace_proofs` |
| `EscrowRefined` (`ImplementsEscrow`): For all values of the constants and any watched currency, every call of the contract is one step of the escrow it promises, or none: money leaves an offer's pot only to its buyer or its seller, once, when it is withdrawn, replaced, finalized or ruled. | `Marketplace_proofs` |
| `NoMoneyIsLost`: For any finite set of accounts and all other constants: in every currency a call leaves what accounts and contract own together as it was, so no call pays the null address that an absent record reads as, creates money, or loses any between the several payments it makes. | `Marketplace_proofs` |
| `BackingIsKept` (`BackingKept`): For all values of the constants, only withdrawListing and setTokenAddr can make the records promise more Origin Token than the contract holds; every other call that finds it backed leaves it backed. | `Marketplace_proofs` |
| `LogAlwaysTells` (`LogTells`): For any accounts, listings, offers, terms and length of a log that keeps the events that move offers: the newest such event of an offer gives the status on record, through replacements of an offer too. | `Marketplace_proofs` |
| `NothingIsMissed` (`NothingMissed`): For any number of listings, offers and events that come while the adapter's getNotifications makes its requests: what stays true of an offer without data all through the call is among the notifications found. | `Marketplace_proofs` |
| `OffersAreComplete` (`OffersComplete`): For any number of offers and any order in which their loads end, one by one and some of them failing: the answer of getOffers has every offer that was there when it asked, but those whose own load failed. | `Marketplace_proofs` |
| `StatusIsTimely` (`StatusTimely`): However the contract and the log change between the two requests of getOffer, the status it reports is one the offer had at some moment of the call, unless data was attached to it. | `Marketplace_proofs` |
| `CreatedIsAlwaysOwn` (`CreatedIsOwn`): However many accounts create listings, in the same block or not, and whatever account is selected meanwhile: the id that createListing returns is that of the listing its own transaction created. | `Marketplace_proofs` |
| `AcceptedIsAsShown` (`AcceptedAsShown`): For any accounts, terms and calls of others in between: an offer that a client accepted has the record that getOffer had read and validated. | `Marketplace_proofs` |
| `ReviewsAreOfDeals` (`ReviewsOfDeals`): For any accounts and calls: a review that came with the end of an offer is about one that the seller of the listing had accepted, and is by its buyer or its seller. | `Marketplace_proofs` |
| `SupplyIsTheSum` (`SupplyIsSum`): For any accounts, amounts and dates the supply is the sum of all balances, which with every allowance stay natural numbers. | `OriginToken_proofs` |
| `WhitelistStaysExpired` (`WhitelistEnds`): Whatever dates the owner tries, a whitelist that has expired stays expired. | `OriginToken_proofs` |
| `TransfersAreGated` (`TransfersGated`): In every step that leaves the supply as it is, tokens only move while not paused and as the whitelist allows, including the collection inside a call with an approval. | `OriginToken_proofs` |
| `EffectsAreOnce` (`EffectOnce`): Whatever the wallet's owners confirm, revoke and execute again, and however long a command polls, what it was to do is done once at most. | `TokenTools_proofs` |
| `AnswersAreTrue` (`AnswersTrue`): For any number of polls, confirmations and calls of others in between: a refused command changes nothing, now or later, one reported done without a wallet was done by its own transaction, and one reported done with a wallet was submitted. | `TokenTools_proofs` |
| `ExecutionsRunOnce` (`RunsOnce`): However many requests are made, approved, refused and tried again, by whomever, each takes effect once at most and as it was recorded, unless something within its own call runs it again or overwrites it. | `Identity_proofs` |
| `RequestsAreFixed` (`RequestsFixed`): No call, made within another or not, changes the call of an execution once execute has counted it, so what is approved is what was asked for. | `Identity_proofs` |
| `IndexesAlwaysAgree` (`IndexesAgree`): For any keys, purposes and claims, however they are added, replaced, removed and executed: getKeysByPurpose and getKeyPurposes record the same, each key once, and a claim somebody else issued is found under its topic and no other. | `Identity_proofs` |
| `OutsidersChangeNothing` (`OnlyKeyHoldersAct`): No call of an account without a management or action key, made within an execution or not, changes a key, removes a claim or has anything run or run again, whatever was requested and approved before. | `Identity_proofs` |
| `IdentityIsOne` (`OneIdentity`): For any number of calls, attestations and other transactions of the wallet: while calls of set wait for each other, failed ones included, and after a failed one for its deployment if that is still pending, no registered identity is ever replaced by a second one. | `Identity_proofs` |
| `WhatWasGivenIsShown` (`GivenIsShown`): However calls of set, their failures, transactions and changes of the registration interleave, an attestation for the registered identity is shown once the call it was given to has completed, or has failed and its transaction was mined after all; so is the profile set last, with the two exceptions the property names. | `Identity_proofs` |
| `UsersTyped`: Every state of the wallet, the chain and the calls has the types UsersTypeOK gives. | `Identity_proofs` |
| `KeysComeBefore` (`KeysBefore`): For any number of calls, entries and reloads, and in whatever order the replicas exchange, each has every message's key, earlier in the order than the message. | `Messaging_proofs` |
| `EverythingIsReadable` (`AllReadable`): For any number of calls, entries and reloads, and in whatever order the replicas exchange: a user past whom no key went while messaging was locked has had every loaded message emitted in clear. | `Messaging_proofs` |
| `NothingIsSkipped` (`NothingSkipped`): For nodes that agree on the head of the chain, any contents of blocks, batch size, number of tries, failures and crashes: every event in a block that the daemon will not look at again has been handled. | `SearchIndex_proofs` |
| `ToldInOrder` (`InOrder`): Under the same conditions the webhook hears of an event only after all earlier ones, whatever was retried or repeated after a restart. | `SearchIndex_proofs` |
| `NewStaysOverOld` (`NoOldOverNew`): Under the same conditions no step takes the search index or the database back to what was read earlier: an action property. | `SearchIndex_proofs` |
| `OffersResolve` (`OfferResolves`): Whatever the nodes answer, those that lag behind included, and for any contents of the chain, failures and crashes: at every moment, also between the writes for one event and after one that failed, an offer that a query answers leads to a listing of the index. | `SearchIndex_proofs` |
| `WalkIsComplete` (`WalkComplete`): Whatever the nodes answer, those that lag behind included, and whatever is indexed, searched for, filtered and asked for per page: a caller who goes on by the number of items each page had sees every active listing that matches and passes the filters, once, and as many as the first page said, whose price range covers them. | `SearchIndex_proofs` |
| `SuppliesAreSums`: While accounts are migrated and both tokens are used, the supply of each stays the sum of all its balances; the proof uses the token's own lemmas for each. | `Migrations_proofs` |
| `TotalsTell` (`TotalsTellAll`): For any accounts, amounts, batches and order, the totals of an undisturbed migration are equal exactly when every holder was migrated. | `Migrations_proofs` |
| `MigrationIsComplete` (`FinishIsComplete`): When an undisturbed migration finishes, every account has in the new token what it has in the old one. | `Migrations_proofs` |
| `EachIsCreatedOnce` (`CreatedOnce`): For any number of listings, attempts, lost answers, runs and interruptions at any step: a listing is created once, unless a run began while transactions of an earlier one were pending or could not read the registry. | `Migrations_proofs` |
| `PrintedIsTrue` (`ResultsTrue`): However many blocks pass between two polls: each listing is in one state of what the script prints, what it calls mined or migrated has a mined transaction and is in the new registry unless that failed, and it ends by itself only when every listing was confirmed or given up. | `Migrations_proofs` |
| `MatchIsTold` (`MatchTells`): A reported match of the checksums means that this run created everything in the file, so that nothing was lost with a failed transaction, although the code compares numbers only, unless others created listings meanwhile or the check for duplicates was blind. | `Migrations_proofs` |

They hold for every value of the constants that meets the named assumptions of the
modules (bounds are natural numbers, sets of accounts and tokens are finite, terms are
well formed, the marketplace is no account, no caller of `set` is called as the wallet
itself, the id of an offer names one listing, documents have a price and a commission).
TLC evaluates these assumptions in the runs. Three kinds of hypotheses are stated with the
theorems that need them:

- `KeepsMoves`, `KeepsDeals` and `"ListingCreated" \in Kept`: the log of the instance
  keeps the events that the property is about. The contract emits all of them; `Kept`
  only makes the instances smaller, and those of the runs keep these.
- `IsFiniteSet(Account)`, for `NoMoneyIsLost`, which adds up what all accounts own.
- `NodesAgree` (`MaxLag = 0`), for `NothingIsSkipped`, `ToldInOrder` and `NewStaysOverOld`
  alone: every node tells the same head of the chain. Otherwise the code does skip events
  (section 6), and TLC finds all three violated. `OffersResolve` and `WalkIsComplete` need
  no such hypothesis.

A component's proofs share a module with those of what it is built on: the client's are
with the contract's, the wallet's with those of the identities it deploys, both migrations
are together.

*Marketplace.* The invariant is `IInv`: `TypeOK`, `RecordsSound`, `ClockStarted` and
`EscrowExact`. Neither `TypeOK` nor `EscrowExact` is inductive alone: that balances
stay natural when an offer is paid out needs that the contract holds at least its
value, which is `EscrowExact`; that needs the sums to be over naturals. `RecordsSound`
adds what the checks in one call establish for a later one: counters bound the slots
in use, an accepted offer has an absolute deadline (for which `ClockStarted` says that
the clock is past the window), and refunds of accepted offers are within the value.
Payments are described by `MovedIn` and `MovedOut`, the effect of changing one record
on the sum by `OwedUpdate`; each action has a lemma that preserves `IInv`, and
`StepInv` collects them. For `withdrawOffer`, `finalize` and `executeRuling` the common
part is `CloseOffer`, for the calls that rewrite a record `RewriteOffer`.

*Escrow.* The refinement needs one more invariant, `PartiesKnown`: sellers of existing
listings and buyers of live offers are accounts, so that money that leaves a pot goes to
somebody whose wallet `Escrow` knows. Each call on an offer then has a lemma that names
the step of `Escrow` it is (`MakeOfferFunds`, `AddFundsTopsUp`, `FinalizeSettles`, ...); calls
on listings and `updateRefund` are none, as they leave pots and wallets alone.

*Money.* `NoMoneyIsLost` states `MoneyKept`, which no run checks: the sums of all wallets
and the contract's balance stay, currency by currency. `MovedSums` says so of one covered
move between two holders; that each payee is a holder is `PartiesKnown` for buyers and
sellers, `RecordsSound` for the listing of an agreed offer, and a guard for the rest.

*Backing.* What Origin Token is promised is the sum of three: escrow, deposits and the
commissions of agreed offers (`OwedBy`, `DepositsOn`, `ReservedBy`). For each call the three
`...Update` lemmas say how its change of one record moves its sum, and the balance moves by
as much. Only the steps in `Unbacks` have no such equation.

*The log.* `Histories` says of each offer: it was created in the log exactly if its slot is
in use; the newest of its moving events gives its status; an event that ends it has no
other after it. Of every call `Step` says which one turn it can make and which one
event goes with it, and that is all the proofs about the log use. That a replaced offer
has an end and another one a beginning, in one step, is why both are needed.

*Client: reading.* `CallSound` describes a call in progress. `NoticesSound`: whatever
held since the call began is found already, or among the listings and purchases still to
be asked for. `LoadsSound`: the offers that were there at the beginning are loaded, lost
or to come. `ReadSound`: while `getOffer` waits for its events, the record it has is the one
the log told of at its first request, so that with the events of the second the status is
one of the moments between. The function `Picked`, which the requests collect with, is
recursive, and unfolded once `PickingExists` says that such a function exists.

*Client: writing.* `Owned`: in the block whose events are searched there is one that names
the client's own listing, and ids are given once. `Shown`: an offer that was shown and
still waits has the record shown, as no call rewrites the record of a waiting offer.
`Deals`: who is recorded in the log to have accepted or finalized an offer is its seller,
or was its buyer; `Collected`: a review call has only events of the log.

*Origin Token.* `TypeOK` and `SupplyIsSum` together are inductive: a balance is at most
the sum, so subtractions from the supply stay natural. `ChangedSum` and `MovedSum` are
the sums after one and two balances change. The two action properties follow from the
invariant and a case distinction on the step: only `setWhitelistExpiration` sets the
date, and `CallsGated` is about the collection inside a call.

*Token tools.* `ToolsInv` adds to `AnswersTrue` three facts. `NothingYet`: before it
has sent, a command has caused nothing. `OnePlace`: what was asked for is in one place
only, in the open transaction, in the wallet's submission or done, of which `EffectOnce`
is a consequence; without it a submission could be executed while the transaction that
made it was still open. `ReceiptTrue`: a receipt that says a direct transaction
succeeded is of one that did. What others do to the token disturbs none of them, so the
token itself need not be described.

*Token migration.* `Inv` has the token's own invariant for each of the two tokens, taken
with what was proved of it by instantiating `OriginToken_proofs` twice, and
`MigratedOnly`: undisturbed, an account has in the new token what it has in the old one
if it was migrated, and nothing otherwise. `CopiedSum` says what a batch adds to the new
sum. With equal totals `EqualTotals` concludes that all balances are equal, since no
account has more in the new token than in the old one.

*Identity.* `Inv` has the types of executions, `RunsOnce`, `Fresh` and `FramesSound`.
`Fresh`: a call is kept only under an id that was given out, or under the next one while
the `execute` that wrote it is still at it. It is what makes `execute` write to an empty
slot, or to one in progress, and no other. `FramesSound`: while its call has not returned,
an execution does not count as executed, is begun once and keeps the call it was begun
with, unless `rerun` or `overwritten` tell otherwise; that is what `Return` needs to write
the truth. Every step approves, requests, returns or leaves the executions alone
(`Written`). The keys need not be described: who may do
something has no part in how often it happens. For `IndexesAgree` there is
an invariant of its own, `HolderSound`: a key has a purpose exactly if the index of the
purpose has the key, each once, and a claim with an issuer is in the index of its topic
and no other. The lemmas on `Positions` say what appending to and removing from an index
does to where its members are. Claims are added in batches, by a fold, which `Through`
unfolds by the number of claims so far. `OutsidersChangeNothing` follows
action by action: what changes a key or removes a claim asks its sender for a key, and a
request runs only in a step of somebody who has one.

*Users.* `Sound` says what a call knows at each of its requests: claims it leaves
out of its transaction are on the chain already, under the identity they are for
(`CallSound`); a transaction carries what its call decided, also when that call has failed
(`TransactionSound`); what was
given for the registered identity is among its events, and the last profile there is the
last one given (`GivenSound`, `ProfileSound`), but for what the history variables except.
For `OneIdentity`, `Waiting` adds `Alone` while calls have not overlapped: at most one
call is in progress (`OneCall`); a deployment in the pool is the only one, no identity is
registered, and the call in progress, if any, waits for it (`OneDeployment`); and
a call about to deploy has seen that there was no identity, and there is none yet
(`NoneBefore`). A call that fails early leaves no transaction, one that gives up leaves a
deployment that a next call would find in the pool, and then has `overlapped` set.

*Messaging.* `Inv` says of each replica and of what is loaded of it that every message
is behind its key (`Keyed`), that the keys a conversation knows came with entries that
are loaded (`KeysFrom`), and that a message about to be added is encrypted with such a
key (`CallsKeyed`). A new entry is behind all loaded ones by its clock (`ClockIsPast`).
That there is an earliest of several keys follows from the order of the naturals
(`EarliestExists`). `Reading` adds what
a user reads: what is loaded was processed, and if no key went past the user while locked,
the keys loaded are known and the messages loaded are shown. That every message loaded
can then be decrypted is `KeysBefore`.

*Daemon.* `Sound` has, beside types, one part for each place where the process can be.
`BatchSound`: what is fetched and not handled is in order, of the batch, and all else of
the batch is handled. `ReadSound`: a listing that was read is at least as new as all that
is stored. `WriteSound`: of the event being written, each duty is stored or an output
still to come, and the webhook is the last output. These hold also after a write that failed and was carried out, which is what makes
repeating it harmless. `NothingSkipped` and `InOrder` complete it. The events of a batch
are put in order by a CHOOSE: `OrderExists` shows, by counting what is earlier, that an
order exists (`FetchedInOrder`).

*Daemon, nodes that lag.* Of a daemon that may skip events, and may replace what it
stored by what is older, less is true, and enough for whoever asks the index. `Leading`
has: what is stored was mentioned by the block as of which it was read (`ItemsTold`, so
that a write never empties what was filled); events about an offer come after one about
its listing (`OffersFollow`); an offer in the index has an event whose listing is there
(`OffersLead`); and of the outputs still to come an offer's is behind its listing's, unless
the listing is in the index (`OutputLeads`). It holds for every `View` a node may have.

*Search.* By `ItemsTold` and `OffersFollow` every document of the index has a version
(`DocumentsTyped`). Then, for any such index: hits exist (`ByScoreExists`: a finite set can be put in the order of a score, by
the order of pairs), they are what is wished for, once (`HitsAre`), and after `n` pages a
walk has seen the first `n` pages' worth of them (`SeenAfter`, `WalkingIs`), hence all of
them after as many pages as there are documents.

*Data migration.* `DataInv` has `Careful`: unless `blind`, there is one transaction of a
listing at most, mined or pending (`Single`); of those the loop has not come past only
the first can have been sent, and then under the very nonce of the next attempt, which
cannot be mined twice (`OnlyFirst`); and what was created since the check is of the file
or somebody else's (`SinceIsOurs`), which makes equal numbers mean equal sets. `Books` and
`OneState` say that the script's sets are disjoint and add up to the file, `Told` that what
is called mined has a receipt (`Receipted`). A receipt is of a listing that was created, or
of a transaction that failed.

`NatSum` defines a sum as the number of unit squares below the graph of a function:
the cardinality of a finite set, about which the library has theorems. Its lemmas give
the type, zero, the effect of changing one value, the sum of a function that is the sum
of two (`TotalAdd`), of one that is zero outside a part (`TotalOfPart`), and that two
functions of which one is below the other are equal when their sums are (`TotalBelow`).

Only model-checked: liveness (`AcceptedSettles`, `CaughtUp`, `Delivered`,
`PollingEnds`), which is out of the prover's reach. Every other property of the passing
runs is stated by a theorem. `Settleable` can be, because the guards of `withdrawOffer`,
`finalize` and `executeRuling` are definitions of their own (`MayWithdraw`, `MayFinalize`,
`MayRule`), with the sends that must not fail among them: beyond these the calls only
assign, so that they are what ENABLED would say. The library's induction theorems take an operator as a parameter, which the provers cannot
instantiate; where a fact about all numbers was needed (`WalkingIs`, `Through`) it is
proved by the least counterexample (`LeastNumber`), which there is by counting.

## 6. Where the code departs from what is said of it

The run `excluded` keeps one case: `getNotifications` declares `isValid` outside the
concurrent loads and never sets it back, so after one invalid offer every
notification that finishes loading later is dropped. The test "should exclude
notifications for invalid offers" (`test/resource_marketplace.test.js`) expects the
valid one to remain.

Others were met while modelling. The models have them and the properties above are
stated so as not to deny them:

- `getListing` (v00 adapter) has no case for `OfferWithdrawn`: a withdrawn offer goes
  on being notified to the seller as a purchase. Its comment (line 233) says that a
  withdrawn listing is deleted; `Marketplace.sol` (lines 165-172) keeps the record.
- Amounts are compared as decimal strings, in the client an offer of 9 passes for a
  price of 10, in the token tools (`token/lib/token.js:85`) a balance for a credit.
- `getListings` and `getListingReviews` fail as a whole when one load fails, unlike
  `getOffers`.
- `getListingReviews` is documented as returning the buyers' reviews
  (`resources/marketplace.js:336`), and returns whatever anybody attached to an offer
  with `addData`, and a finalization by the seller.
- The seller may lower the refund that a buyer was shown before finalizing.
- An offer is validated against the affiliate and arbitrator of the client's
  configuration; without one configured `getOffer` throws.
- The daemon asks one node for the block number and may be answered about past events
  by another that lags; the events it lacks are never asked for again (`MaxLag` above
  0 in `Listener` shows it).
- A daemon more than a batch behind handles one batch and waits for the next block.
- An answer of the storage that is no data is cached as a failure, so trying again
  does not help; the process must exit.
- In the database an offer's table name is misspelt (`daemon/indexing/lib/db.js:130`,
  `Offer.tabe`), and a listing that is written again keeps its first hash and seller
  (lines 62-63 update `data` only).
- `approve` of an identity does not ask whether the id was requested: approving the
  next id runs an empty call, and from then on `execute` is refused.
- `approve` sets `executed`, and `execute` advances the nonce, only after the call
  (`KeyHolderLibrary.sol:103-105`, `143`). A called contract with an action key can approve
  the execution it is called by, which then runs twice. While a request that `execute`
  approved at once is running, an `execute` by anybody within it, the identity itself
  included, overwrites the record of the request, so that what is recorded as executed is
  not what ran, and leaves an id unused.
- `set` rejects when its transaction is not mined within 50 blocks
  (`contract-service.js:218`, `281`), although it may be mined later: repeating it deploys a
  second identity, which replaces the first with its claims.
- Messaging sets the account (`messaging.js:452`) before the prompt that registers its key
  (479-489). Until that is answered the user can send, and nothing of it reaches anybody.
- A failed addition of a message leaves the user unable to send until the page is
  loaded again.
- The command line prints "owner set" also when it only submitted the call to the
  wallet (`token_cli.js:117`); the faucet answers that a wallet must be supplied and goes
  on (`faucet/app.js:54`).
- The migration script, started again while transactions of its last run are pending,
  creates their listings again; its final check compares only how many there are
  (`migrate_listings_to_listings_registry.js:463`).
- The migration scripts never read `receipt.status` (v0.7, lines 293-308): a listing whose
  transaction was mined and failed is printed as migrated. A comment says that as many
  listings should have been created as are recorded as migrated (lines 452-453); nothing
  asks. Only the comparison of checksums tells, as `MatchTells` has it: unless others
  create listings meanwhile.
- A listing that the migration script gives up leaves a gap in the nonces, and polling
  does not end.
- A user's offers are looked up by `buyer` (`apollo/index.js:314`) where the search
  reads `buyerAddress` (`search.js:266`), so they are anybody's (`OffersOfUser`).
- The input `offset` of a query is described as "Page number." (`apollo/index.js:122`),
  and is the number of listings to skip (`search.js:185`).
- The GraphQL server says that a larger page "will be trimmed to MaxResultsPerPage"
  (`apollo/index.js:215`) and does not trim it; only Discovery does. A search for offers
  states no size, so that of many the rest is left out.

## 7. Not modelled

- Of the GraphQL server and Elasticsearch: relevance, the names of the answered fields,
  user documents, counting and cluster health.
- The confirmation reports of the contract service and the read flags of notifications:
  for display only.
- Schemas, HTTP and file uploads of the IPFS store; the HTTP calls of the attestation
  services: what they answer is a choice in the models that use them.
- Amounts from 10^21 on, which BigNumber writes with an exponent, and currencies the
  client does not know, whose amounts it passes on as they are (`contract-service.js:292-309`):
  no property depends on how `OfferChecks` compares such amounts.
- Changing the account of a page, cookies and arbitrators in messaging; the
  code shares one object for both accounts there, so a model of it needs both pages'
  histories, beyond the instance that can be checked.
- The signature checks of `ClaimVerifier`: pure functions, used as an answer.
- Deployment: a fixed sequence of transactions made once; the arbitrator contracts,
  which are test-only; build scripts and released artifacts.
- Chain reorganisations, of which the code takes no notice.

PROJECT.json gives the reason for each component.

## 8. What could follow

A model of two accounts sharing a page in messaging; user documents in the daemon; which
events exactly are skipped when nodes lag.
