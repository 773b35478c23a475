--------------------------- MODULE Migrations_proofs ---------------------------
(***************************************************************************)
(* The two migrations.  Of the token: both tokens keep their supplies the  *)
(* sums of all balances while accounts are migrated, and when an           *)
(* undisturbed migration may finish, everybody has what he had, for any    *)
(* accounts, amounts, batches and dates.  What was proved of a token is    *)
(* used for both.                                                          *)
(*                                                                         *)
(* Of the listings: each is created once and what the script prints is     *)
(* true, for any number of listings, attempts, runs and interruptions.     *)
(***************************************************************************)
EXTENDS TokenMigration, DataMigration, NatSum_proofs, SequenceTheorems

FromFacts == INSTANCE OriginToken_proofs WITH
  token <- fromToken, This <- FromAddr, Deployer <- Admin, Owners <- {}

ToFacts == INSTANCE OriginToken_proofs WITH
  token <- toToken, This <- ToAddr, Deployer <- Admin, InitialSupply <- 0,
  Delegates <- {}, Transactors <- {}, Spenders <- {}, Expirations <- {}

Balances == [Account -> Nat]

TokenState ==
  [balances : [Account -> Nat], allowed : [Account -> [Account -> Nat]], totalSupply : Nat,
   owner : Account \cup {NullAddr}, paused : BOOLEAN, mintingFinished : BOOLEAN,
   whitelistExpiration : Nat, allowedTransactors : SUBSET Account,
   callSpenderWhitelist : SUBSET Account]

-----------------------------------------------------------------------------

\* What was proved of a token, of this one.
LEMMA FromAssumption == FromFacts!TokenAssumption
<1>1. FromFacts!IsFiniteSet(Account)
  BY MigrationAssumption DEF IsFiniteSet, FromFacts!IsFiniteSet
<1> QED  BY <1>1, MigrationAssumption DEF FromFacts!TokenAssumption

LEMMA FromSumSame == \A f : FromFacts!Total(f) = Total(f)
BY DEF FromFacts!Total, Total, FromFacts!Units, Units, FromFacts!Column, Column,
   FromFacts!Cardinality, Cardinality

LEMMA FromIs ==
  FromFacts!Inv <=>
    fromToken \in TokenState /\ now \in Nat /\ fromToken.totalSupply = Total(fromToken.balances)
BY FromSumSame, Zenon DEF FromFacts!Inv, FromFacts!TypeOK, FromFacts!TokenState, TokenState,
   FromFacts!SupplyIsSum

LEMMA FromSteps ==
  ASSUME NEW sender \in Account, From!HolderStep(sender) \/ From!OwnerStep(sender)
  PROVE  FromFacts!HolderStep(sender) \/ FromFacts!OwnerStep(sender)
BY Zenon DEF From!Moved, FromFacts!Moved, From!whitelistActive, FromFacts!whitelistActive,
   From!AllowedTransfer, FromFacts!AllowedTransfer, From!CanMove, FromFacts!CanMove,
   From!transfer, FromFacts!transfer, From!transferFrom, FromFacts!transferFrom,
   From!SetAllowance, FromFacts!SetAllowance, From!approve, FromFacts!approve,
   From!increaseApproval, FromFacts!increaseApproval, From!decreaseApproval,
   FromFacts!decreaseApproval, From!approveAndCallWithSender, FromFacts!approveAndCallWithSender,
   From!mint, FromFacts!mint, From!finishMinting, FromFacts!finishMinting, From!burn,
   FromFacts!burn, From!pause, FromFacts!pause, From!unpause, FromFacts!unpause,
   From!transferOwnership, FromFacts!transferOwnership, From!renounceOwnership,
   FromFacts!renounceOwnership, From!setWhitelistExpiration, FromFacts!setWhitelistExpiration,
   From!addAllowedTransactor, FromFacts!addAllowedTransactor, From!removeAllowedTransactor,
   FromFacts!removeAllowedTransactor, From!addCallSpenderWhitelist,
   FromFacts!addCallSpenderWhitelist, From!removeCallSpenderWhitelist,
   FromFacts!removeCallSpenderWhitelist, From!HolderStep, FromFacts!HolderStep, From!OwnerStep,
   FromFacts!OwnerStep

\* What was proved of a token, of this one.
LEMMA ToAssumption == ToFacts!TokenAssumption
<1>1. ToFacts!IsFiniteSet(Account)
  BY MigrationAssumption DEF IsFiniteSet, ToFacts!IsFiniteSet
<1> QED  BY <1>1, MigrationAssumption DEF ToFacts!TokenAssumption

LEMMA ToSumSame == \A f : ToFacts!Total(f) = Total(f)
BY DEF ToFacts!Total, Total, ToFacts!Units, Units, ToFacts!Column, Column,
   ToFacts!Cardinality, Cardinality

LEMMA ToIs ==
  ToFacts!Inv <=>
    toToken \in TokenState /\ now \in Nat /\ toToken.totalSupply = Total(toToken.balances)
BY ToSumSame, Zenon DEF ToFacts!Inv, ToFacts!TypeOK, ToFacts!TokenState, TokenState,
   ToFacts!SupplyIsSum

LEMMA ToSteps ==
  ASSUME NEW sender \in Account, To!HolderStep(sender) \/ To!OwnerStep(sender)
  PROVE  ToFacts!HolderStep(sender) \/ ToFacts!OwnerStep(sender)
BY Zenon DEF To!Moved, ToFacts!Moved, To!whitelistActive, ToFacts!whitelistActive, To!AllowedTransfer,
   ToFacts!AllowedTransfer, To!CanMove, ToFacts!CanMove, To!transfer, ToFacts!transfer,
   To!transferFrom, ToFacts!transferFrom, To!SetAllowance, ToFacts!SetAllowance, To!approve,
   ToFacts!approve, To!increaseApproval, ToFacts!increaseApproval, To!decreaseApproval,
   ToFacts!decreaseApproval, To!approveAndCallWithSender, ToFacts!approveAndCallWithSender,
   To!mint, ToFacts!mint, To!finishMinting, ToFacts!finishMinting, To!burn, ToFacts!burn,
   To!pause, ToFacts!pause, To!unpause, ToFacts!unpause, To!transferOwnership,
   ToFacts!transferOwnership, To!renounceOwnership, ToFacts!renounceOwnership,
   To!setWhitelistExpiration, ToFacts!setWhitelistExpiration, To!addAllowedTransactor,
   ToFacts!addAllowedTransactor, To!removeAllowedTransactor, ToFacts!removeAllowedTransactor,
   To!addCallSpenderWhitelist, ToFacts!addCallSpenderWhitelist, To!removeCallSpenderWhitelist,
   ToFacts!removeCallSpenderWhitelist, To!HolderStep, ToFacts!HolderStep, To!OwnerStep,
   ToFacts!OwnerStep

-----------------------------------------------------------------------------
(* The invariant.                                                            *)

\* Undisturbed, who was migrated has what he has in the old token, nobody else has
\* anything.
MigratedOnly ==
  undisturbed =>
    \A a \in Account :
      toToken.balances[a] = IF a \in migrated THEN fromToken.balances[a] ELSE 0

Inv ==
  /\ FromFacts!Inv /\ ToFacts!Inv
  /\ migrated \subseteq Account /\ finished \in BOOLEAN /\ undisturbed \in BOOLEAN
  /\ MigratedOnly

LEMMA InitSound == Init => Inv
<1> SUFFICES ASSUME Init PROVE Inv
  OBVIOUS
<1>1. FromFacts!Init /\ ToFacts!Init
  BY DEF Init, From!Init, FromFacts!Init, From!Deployed, FromFacts!Deployed,
     To!Init, ToFacts!Init, To!Deployed, ToFacts!Deployed
<1>2. FromFacts!Inv
  BY <1>1, FromAssumption, FromFacts!InitSound
<1>3. ToFacts!Inv
  BY <1>1, ToAssumption, ToFacts!InitSound
<1>4. \A a \in Account : toToken.balances[a] = 0
  BY DEF Init, To!Init, To!Deployed
<1> QED  BY <1>2, <1>3, <1>4 DEF Init, Inv, MigratedOnly

\* The tokens' own calls.
LEMMA TokensSound ==
  ASSUME Inv, NEW sender \in Account, FromStep(sender) \/ ToStep(sender)
  PROVE  Inv'
<1>1. /\ fromToken \in TokenState /\ toToken \in TokenState /\ now \in Nat
      /\ fromToken.totalSupply = Total(fromToken.balances)
      /\ toToken.totalSupply = Total(toToken.balances)
  BY FromIs, ToIs DEF Inv
<1>2. CASE FromStep(sender)
  <2>1. FromFacts!Inv'
    BY <1>2, FromSteps, FromAssumption, FromFacts!CallsSound DEF FromStep, Inv
  <2>2. toToken' = toToken /\ migrated' = migrated /\ finished' = finished
        /\ undisturbed' = (undisturbed /\ (migrated = {} \/ fromToken'.balances = fromToken.balances))
    BY <1>2 DEF FromStep
  <2>3. now' \in Nat
    BY <2>1 DEF FromFacts!Inv, FromFacts!TypeOK
  <2>4. ToFacts!Inv'
    BY <1>1, <2>2, <2>3, ToSumSame DEF ToFacts!Inv, ToFacts!TypeOK, ToFacts!TokenState, TokenState,
       ToFacts!SupplyIsSum
  <2>5. MigratedOnly'
    BY <2>2 DEF Inv, MigratedOnly
  <2> QED  BY <2>1, <2>2, <2>4, <2>5 DEF Inv
<1>3. CASE ToStep(sender)
  <2>1. ToFacts!Inv'
    BY <1>3, ToSteps, ToAssumption, ToFacts!CallsSound DEF ToStep, Inv
  <2>2. fromToken' = fromToken /\ migrated' = migrated /\ finished' = finished
        /\ undisturbed' = (undisturbed /\ toToken'.balances = toToken.balances)
    BY <1>3 DEF ToStep
  <2>3. now' \in Nat
    BY <2>1 DEF ToFacts!Inv, ToFacts!TypeOK
  <2>4. FromFacts!Inv'
    BY <1>1, <2>2, <2>3, FromSumSame DEF FromFacts!Inv, FromFacts!TypeOK, FromFacts!TokenState,
       TokenState, FromFacts!SupplyIsSum
  <2>5. MigratedOnly'
    BY <2>2 DEF Inv, MigratedOnly
  <2> QED  BY <2>1, <2>2, <2>4, <2>5 DEF Inv
<1> QED  BY <1>2, <1>3

\* What is minted for the accounts in D is what the new balances have more.
LEMMA CopiedSum ==
  ASSUME NEW f \in Balances, NEW t \in Balances, NEW D \in SUBSET Account
  PROVE  /\ Total([h \in D |-> f[h]]) \in Nat
         /\ [a \in Account |-> IF a \in D THEN t[a] + f[a] ELSE t[a]] \in Balances
         /\ Total([a \in Account |-> IF a \in D THEN t[a] + f[a] ELSE t[a]])
              = Total(t) + Total([h \in D |-> f[h]])
<1> DEFINE g == [h \in D |-> f[h]]
           m == [a \in Account |-> IF a \in D THEN f[a] ELSE 0]
           b == [a \in Account |-> IF a \in D THEN t[a] + f[a] ELSE t[a]]
<1>1. IsFiniteSet(Account)
  BY MigrationAssumption
<1>2. g \in [D -> Nat] /\ m \in Balances /\ b \in Balances
  BY DEF Balances
<1>3. \A x \in Account : m[x] = IF x \in D THEN g[x] ELSE 0
  OBVIOUS
<1>4. \A x \in Account : b[x] = t[x] + m[x]
  BY DEF Balances
<1> HIDE DEF g, m, b
<1>5. Total(m) = Total(g)
  BY <1>2, <1>3, TotalOfPart DEF Balances
<1>6. t \in [Account -> Nat] /\ m \in [Account -> Nat] /\ b \in [Account -> Nat]
  BY <1>2 DEF Balances
<1>7. Total(b) = Total(t) + Total(m)
  BY <1>1, <1>4, <1>6, TotalAdd
<1>8. Total(m) \in Nat
  BY <1>1, <1>6, TotalType
<1>9. Total(g) \in Nat /\ b \in Balances /\ Total(b) = Total(t) + Total(g)
  BY <1>2, <1>5, <1>7, <1>8
<1> QED  BY <1>9 DEF b, g

\* Migrating accounts.
LEMMA MigrateSound ==
  ASSUME Inv, NEW sender \in Account, NEW H \in SUBSET Account, migrateAccounts(sender, H)
  PROVE  Inv'
<1> DEFINE b == [a \in Account |-> IF a \in Holding(H)
                  THEN toToken.balances[a] + fromToken.balances[a] ELSE toToken.balances[a]]
           n == Minted(H)
<1>1. /\ fromToken \in TokenState /\ toToken \in TokenState /\ now \in Nat
      /\ fromToken.totalSupply = Total(fromToken.balances)
      /\ toToken.totalSupply = Total(toToken.balances)
  BY FromIs, ToIs DEF Inv
<1>2. b \in Balances /\ n \in Nat /\ Total(b) = Total(toToken.balances) + n
  <2>1. fromToken.balances \in Balances /\ toToken.balances \in Balances
    BY <1>1 DEF TokenState, Balances
  <2>2. Holding(H) \in SUBSET Account
    BY DEF Holding
  <2> QED  BY <2>1, <2>2, CopiedSum DEF Minted
<1>3. toToken' = [toToken EXCEPT !.balances = b, !.totalSupply = @ + n]
  BY <1>1 DEF migrateAccounts, TokenState
<1>4. /\ fromToken' = fromToken /\ now' = now /\ migrated' = migrated \cup Holding(H)
      /\ finished' = finished /\ undisturbed' = undisturbed /\ H \cap migrated = {}
  BY DEF migrateAccounts
<1>5. \A a \in Account : b[a] = IF a \in Holding(H)
         THEN toToken.balances[a] + fromToken.balances[a] ELSE toToken.balances[a]
  OBVIOUS
<1> HIDE DEF b, n
<1>6. toToken' \in TokenState /\ toToken'.balances = b /\ toToken'.totalSupply = Total(b)
  <2>1. toToken.totalSupply + n = Total(b)
    BY <1>1, <1>2
  <2>2. toToken'.totalSupply = toToken.totalSupply + n /\ toToken'.balances = b
    BY <1>1, <1>3 DEF TokenState
  <2>3. toToken.totalSupply + n \in Nat
    BY <1>1, <1>2 DEF TokenState
  <2>4. toToken' \in TokenState
    BY <1>1, <1>2, <1>3, <2>2, <2>3 DEF TokenState, Balances
  <2> QED  BY <2>1, <2>2, <2>4
<1>7. FromFacts!Inv' /\ ToFacts!Inv'
  <2>1. FromFacts!Inv'
    BY <1>1, <1>4, FromSumSame DEF FromFacts!Inv, FromFacts!TypeOK, FromFacts!TokenState,
       TokenState, FromFacts!SupplyIsSum
  <2>2. ToFacts!Inv'
    BY <1>1, <1>4, <1>6, ToSumSame DEF ToFacts!Inv, ToFacts!TypeOK, ToFacts!TokenState, TokenState,
       ToFacts!SupplyIsSum
  <2> QED  BY <2>1, <2>2
<1>8. MigratedOnly'
  <2>1. Holding(H) \subseteq H
    BY DEF Holding
  <2>2. SUFFICES ASSUME undisturbed, NEW a \in Account
        PROVE  b[a] = IF a \in migrated \cup Holding(H) THEN fromToken.balances[a] ELSE 0
    BY <1>4, <1>6 DEF MigratedOnly
  <2>3. toToken.balances[a] = IF a \in migrated THEN fromToken.balances[a] ELSE 0
    BY <2>2 DEF Inv, MigratedOnly
  <2>4. fromToken.balances[a] \in Nat
    BY <1>1 DEF TokenState
  <2> QED  BY <1>4, <1>5, <2>1, <2>3, <2>4
<1>9. migrated' \subseteq Account
  BY <1>4 DEF Inv, Holding
<1> QED  BY <1>4, <1>7, <1>8, <1>9 DEF Inv

\* Finishing hands over the new token and leaves every balance.
LEMMA FinishSound ==
  ASSUME Inv, NEW sender \in Account, NEW newTokenOwner \in Account,
         finish(sender, newTokenOwner)
  PROVE  Inv' /\ toToken'.balances = toToken.balances
<1>1. /\ fromToken \in TokenState /\ toToken \in TokenState /\ now \in Nat
      /\ fromToken.totalSupply = Total(fromToken.balances)
      /\ toToken.totalSupply = Total(toToken.balances)
  BY FromIs, ToIs DEF Inv
<1>2. /\ toToken' \in TokenState /\ toToken'.balances = toToken.balances
      /\ toToken'.totalSupply = toToken.totalSupply
  BY <1>1 DEF finish, TokenState
<1>3. /\ fromToken' = fromToken /\ now' = now /\ migrated' = migrated
      /\ finished' = TRUE /\ undisturbed' = undisturbed
  BY DEF finish
<1>4. FromFacts!Inv'
  BY <1>1, <1>3, FromSumSame DEF FromFacts!Inv, FromFacts!TypeOK, FromFacts!TokenState,
     TokenState, FromFacts!SupplyIsSum
<1>5. ToFacts!Inv'
  BY <1>1, <1>2, <1>3, ToSumSame DEF ToFacts!Inv, ToFacts!TypeOK, ToFacts!TokenState, TokenState,
     ToFacts!SupplyIsSum
<1> QED  BY <1>2, <1>3, <1>4, <1>5 DEF Inv, MigratedOnly

LEMMA StepSound == Inv /\ [Next]_vars => Inv'
<1> SUFFICES ASSUME Inv, [Next]_vars PROVE Inv'
  OBVIOUS
<1>1. /\ fromToken \in TokenState /\ toToken \in TokenState /\ now \in Nat
      /\ fromToken.totalSupply = Total(fromToken.balances)
      /\ toToken.totalSupply = Total(toToken.balances)
  BY FromIs, ToIs DEF Inv
<1>2. ASSUME now' \in Nat, UNCHANGED <<fromToken, toToken, migrated, finished, undisturbed>>
      PROVE  Inv'
  <2>1. FromFacts!Inv'
    BY <1>1, <1>2, FromSumSame DEF FromFacts!Inv, FromFacts!TypeOK, FromFacts!TokenState,
       TokenState, FromFacts!SupplyIsSum
  <2>2. ToFacts!Inv'
    BY <1>1, <1>2, ToSumSame DEF ToFacts!Inv, ToFacts!TypeOK, ToFacts!TokenState, TokenState,
       ToFacts!SupplyIsSum
  <2> QED  BY <1>2, <2>1, <2>2 DEF Inv, MigratedOnly
<1>3. CASE Tick
  <2>1. now' \in Nat /\ UNCHANGED <<fromToken, toToken, migrated, finished, undisturbed>>
    BY <1>1, <1>3 DEF Tick, From!Tick
  <2> QED  BY <1>2, <2>1
<1>4. CASE UNCHANGED vars
  BY <1>1, <1>2, <1>4 DEF vars
<1>5. ASSUME NEW sender \in Account,
             \/ FromStep(sender) \/ ToStep(sender)
             \/ \E H \in SUBSET Account : migrateAccounts(sender, H)
             \/ \E newTokenOwner \in Account : finish(sender, newTokenOwner)
      PROVE  Inv'
  BY <1>5, TokensSound, MigrateSound, FinishSound
<1> QED  BY <1>3, <1>4, <1>5 DEF Next

-----------------------------------------------------------------------------
(* The theorems.                                                             *)

\* No step of the migration, nor of the tokens, creates or loses a token.
THEOREM SuppliesAreSums ==
  Spec => []( /\ fromToken.totalSupply = Total(fromToken.balances)
              /\ toToken.totalSupply = Total(toToken.balances) )
<1> DEFINE Sums == /\ fromToken.totalSupply = Total(fromToken.balances)
                   /\ toToken.totalSupply = Total(toToken.balances)
<1>1. Inv => Sums
  BY FromIs, ToIs DEF Inv
<1> QED  BY <1>1, InitSound, StepSound, PTL DEF Spec

\* With equal totals an undisturbed migration has copied every balance.
LEMMA EqualTotals ==
  ASSUME Inv, undisturbed, fromToken.totalSupply = toToken.totalSupply
  PROVE  toToken.balances = fromToken.balances
<1>1. /\ fromToken.balances \in Balances /\ toToken.balances \in Balances
      /\ Total(toToken.balances) = Total(fromToken.balances)
  BY FromIs, ToIs DEF Inv, TokenState, Balances
<1>2. \A a \in Account : toToken.balances[a] <= fromToken.balances[a]
  BY <1>1 DEF Inv, MigratedOnly, Balances
<1>3. IsFiniteSet(Account)
  BY MigrationAssumption
<1> QED  BY <1>1, <1>2, <1>3, TotalBelow DEF Balances

\* While nobody disturbs it, the totals are equal exactly when every holder was
\* migrated.
THEOREM TotalsTell == Spec => []TotalsTellAll
<1>1. ASSUME Inv PROVE TotalsTellAll
  <2> USE <1>1
  <2>1. SUFFICES ASSUME undisturbed
        PROVE  fromToken.totalSupply = toToken.totalSupply <=> Holding(Account) \subseteq migrated
    BY DEF TotalsTellAll
  <2>2. /\ fromToken.balances \in Balances /\ toToken.balances \in Balances
        /\ fromToken.totalSupply = Total(fromToken.balances)
        /\ toToken.totalSupply = Total(toToken.balances)
    BY FromIs, ToIs DEF Inv, TokenState, Balances
  <2>3. \A a \in Account :
          toToken.balances[a] = IF a \in migrated THEN fromToken.balances[a] ELSE 0
    BY <2>1 DEF Inv, MigratedOnly
  <2>4. ASSUME fromToken.totalSupply = toToken.totalSupply
        PROVE  Holding(Account) \subseteq migrated
    <3>1. toToken.balances = fromToken.balances
      BY <2>1, <2>4, EqualTotals
    <3> QED  BY <2>2, <2>3, <3>1 DEF Holding, Balances
  <2>5. ASSUME Holding(Account) \subseteq migrated
        PROVE  fromToken.totalSupply = toToken.totalSupply
    <3>1. \A a \in Account : toToken.balances[a] = fromToken.balances[a]
      BY <2>2, <2>3, <2>5 DEF Holding, Balances
    <3>2. toToken.balances = fromToken.balances
      BY <2>2, <3>1 DEF Balances
    <3> QED  BY <2>2, <3>2
  <2> QED  BY <2>4, <2>5
<1> QED  BY <1>1, InitSound, StepSound, PTL DEF Spec

\* Whoever had what, and in whatever batches it was migrated, when an undisturbed
\* migration finishes everybody has what he had.
THEOREM MigrationIsComplete == Spec => FinishIsComplete
<1> DEFINE A == finished' /\ ~finished /\ undisturbed => toToken.balances = fromToken.balances
<1>1. ASSUME Inv, [Next]_vars, finished', ~finished, undisturbed
      PROVE  toToken.balances = fromToken.balances
  <2>1. PICK sender \in Account, newTokenOwner \in Account : finish(sender, newTokenOwner)
    BY <1>1 DEF Next, FromStep, ToStep, migrateAccounts, Tick, vars, Inv
  <2>2. fromToken.totalSupply = toToken.totalSupply
    BY <2>1 DEF finish
  <2> QED  BY <1>1, <2>2, EqualTotals
<1>2. Inv /\ [Next]_vars => [A]_vars
  BY <1>1
<1>3. Spec => []Inv
  BY InitSound, StepSound, PTL DEF Spec
<1>4. Spec => [][A]_vars
  BY <1>2, <1>3, PTL DEF Spec
<1> QED  BY <1>4 DEF FinishIsComplete

-----------------------------------------------------------------------------
(* The data migration.                                                       *)

Registered(l) == \E i \in 1 .. Len(registry) : registry[i] = l

Reached(l) == Registered(l) \/ \E tx \in pool : tx.listing = l

Receipted(l) == \E tx \in DOMAIN receipts : tx.listing = l

ChainTyped ==
  /\ file \subseteq Listing
  /\ \A tx \in pool : tx.listing \in Listing
  /\ nonce \in Nat
  /\ registry \in Seq(Listing \cup {Foreign})
  /\ startingNumListings \in 0 .. Len(registry)
  /\ runs \in Nat
  /\ runs = 0 => pc = "off" /\ pool = {} /\ left = {}
  /\ match => pc = "done"

\* A listing is created once at most, and none that was is in the pool again.
Single ==
  /\ \A i, j \in 1 .. Len(registry) :
       registry[i] = registry[j] /\ registry[i] \in Listing => i = j
  /\ \A tx \in pool : tx.listing \in file /\ ~Registered(tx.listing)
  /\ \A t, u \in pool : t.listing = u.listing => t = u
  /\ \A l \in duplicates : Registered(l)

\* Of those the loop has not come past, only the first can have been sent, by an
\* attempt whose answer was lost, and then under the nonce of the next attempt.
OnlyFirst ==
  pc = "submit" /\ left # {} =>
    /\ \A l \in left : Reached(l) => l = listingID
    /\ \A tx \in pool : tx.listing = listingID => tx = createListing
    /\ Registered(listingID) => createListing.nonce \in Nat /\ createListing.nonce < nonce

\* What was created since the check is of the file.
SinceIsOurs ==
  pc \in {"submit", "confirm", "data"} =>
    \A i \in startingNumListings + 1 .. Len(registry) : registry[i] \in file \cup {Foreign}

Careful == ~blind => Single /\ OnlyFirst /\ SinceIsOurs /\ MatchTells

\* What the script keeps of its transactions.
Books ==
  /\ \A tx \in DOMAIN receipts : tx \in reverted \/ Registered(tx.listing)
  /\ minedListings \subseteq Listing /\ confirmedListings \in Seq(Listing)
  /\ pc = "check" => submittedListings = {} /\ errors = {} /\ txToListings = {}
  /\ pc \in {"check", "submit"} => minedListings = {} /\ confirmedListings = <<>>
  /\ pc \in {"submit", "confirm"} =>
       /\ Listings(txToListings) = submittedListings \cup minedListings
       /\ \A t, u \in txToListings : t.listing = u.listing => t = u
  /\ pc = "confirm" =>
       /\ left = {}
       /\ numTotalTransactions =
            Cardinality(submittedListings \cup minedListings \cup ToSet(confirmedListings))

\* Each listing is in one state.
OneState ==
  LET confirmed == ToSet(confirmedListings) IN
  /\ submittedListings \cup minedListings \cup confirmed \cup errors \cup left = file
  /\ submittedListings \cap minedListings = {} /\ submittedListings \cap confirmed = {}
  /\ submittedListings \cap errors = {} /\ submittedListings \cap left = {}
  /\ minedListings \cap confirmed = {} /\ minedListings \cap errors = {}
  /\ minedListings \cap left = {}
  /\ confirmed \cap errors = {} /\ confirmed \cap left = {} /\ errors \cap left = {}
  /\ Len(confirmedListings) = Cardinality(confirmed)

Told ==
  /\ \A l \in minedListings \cup ToSet(confirmedListings) : Receipted(l)
  /\ pc \in {"data", "done"} => ToSet(confirmedListings) \cup errors = file
  /\ pc \in {"submit", "confirm", "data", "done"} => OneState

DataInv == ChainTyped /\ Careful /\ Books /\ Told

-----------------------------------------------------------------------------

LEMMA LeastOf ==
  ASSUME NEW T, T \subseteq Listing, T # {}
  PROVE  (CHOOSE l \in T : \A k \in T : l <= k) \in T
<1>1. T \subseteq Nat
  BY DataMigrationAssumption DEF Listing
<1>2. \E l \in T : \A k \in T : l <= k
  BY <1>1, LeastNumber
<1>. QED
  BY <1>2

LEMMA ListingIDIn ==
  ASSUME left \subseteq Listing, left # {}
  PROVE  listingID \in left
BY LeastOf DEF listingID

LEMMA ListingsFinite ==
  ASSUME NEW T, T \subseteq Listing
  PROVE  IsFiniteSet(T) /\ Cardinality(T) \in Nat
<1>1. IsFiniteSet(Listing)
  BY DataMigrationAssumption, FS_Interval DEF Listing
<1>. QED
  BY <1>1, FS_Subset, FS_CardinalityType

\* The sequence of a set's elements.
LEMMA SequenceOfSet ==
  ASSUME NEW T, IsFiniteSet(T)
  PROVE  /\ SetToSeq(T) \in Seq(T)
         /\ Len(SetToSeq(T)) = Cardinality(T)
         /\ ToSet(SetToSeq(T)) = T
<1> DEFINE n == Cardinality(T)
<1>1. n \in Nat /\ ExistsBijection(1 .. n, T)
  BY FS_CardinalityType
<1>2. PICK f \in [1 .. n -> T] : IsInjective(f)
  BY <1>1 DEF ExistsBijection, Bijection, Injection, Surjection
<1>3. SetToSeq(T) \in [1 .. n -> T] /\ IsInjective(SetToSeq(T))
  BY <1>2 DEF SetToSeq
<1> DEFINE s == SetToSeq(T)
<1>4. s \in Injection(1 .. n, T)
  BY <1>3 DEF Injection
<1>5. IsFiniteSet(1 .. n) /\ Cardinality(1 .. n) = n
  BY <1>1, FS_Interval
<1>6. s \in Surjection(1 .. n, T)
  BY <1>4, <1>5, FS_Injection
<1>7. s \in Seq(T) /\ Len(s) = n
  BY <1>1, <1>3
<1>8. \A x \in T : \E i \in 1 .. n : s[i] = x
  BY <1>6 DEF Surjection
<1>9. ToSet(s) = T
  BY <1>3, <1>8 DEF ToSet
<1>. QED
  BY <1>7, <1>9

LEMMA ConcatSet ==
  ASSUME NEW T, NEW s \in Seq(T), NEW t \in Seq(T)
  PROVE  /\ s \o t \in Seq(T) /\ Len(s \o t) = Len(s) + Len(t)
         /\ ToSet(s \o t) = ToSet(s) \cup ToSet(t)
<1>1. s \o t \in Seq(T) /\ Len(s \o t) = Len(s) + Len(t)
  OBVIOUS
<1>2. \A i \in 1 .. Len(s) : (s \o t)[i] = s[i]
  OBVIOUS
<1>3. \A i \in 1 .. Len(t) : (s \o t)[Len(s) + i] = t[i]
  OBVIOUS
<1>4. ASSUME NEW i \in 1 .. Len(s) + Len(t), i \notin 1 .. Len(s)
      PROVE  i - Len(s) \in 1 .. Len(t) /\ i = Len(s) + (i - Len(s))
  <2> DEFINE m == Len(s)
             k == Len(t)
  <2>1. m \in Nat /\ k \in Nat /\ i \in 1 .. m + k /\ i \notin 1 .. m
    BY <1>4
  <2> HIDE DEF m, k
  <2>2. i - m \in 1 .. k /\ i = m + (i - m)
    BY <2>1
  <2>. QED
    BY <2>2 DEF m, k
<1>5. \A i \in 1 .. Len(t) : Len(s) + i \in 1 .. Len(s) + Len(t)
  OBVIOUS
<1>6. \A i \in 1 .. Len(s) : i \in 1 .. Len(s) + Len(t)
  OBVIOUS
<1>7. ToSet(s \o t) = {(s \o t)[i] : i \in 1 .. Len(s) + Len(t)}
  BY <1>1 DEF ToSet
<1>8. ToSet(s) = {s[i] : i \in 1 .. Len(s)} /\ ToSet(t) = {t[i] : i \in 1 .. Len(t)}
  BY DEF ToSet
<1>9. ASSUME NEW x \in ToSet(s \o t)  PROVE x \in ToSet(s) \cup ToSet(t)
  <2>1. PICK i \in 1 .. Len(s) + Len(t) : x = (s \o t)[i]
    BY <1>7
  <2>2. CASE i \in 1 .. Len(s)
    BY <2>1, <2>2, <1>2, <1>8
  <2>3. CASE i \notin 1 .. Len(s)
    BY <2>1, <2>3, <1>3, <1>4, <1>8
  <2>. QED
    BY <2>2, <2>3
<1>10. ASSUME NEW x \in ToSet(s) \cup ToSet(t)  PROVE x \in ToSet(s \o t)
  BY <1>2, <1>3, <1>5, <1>6, <1>7, <1>8
<1>. QED
  BY <1>1, <1>9, <1>10

\* How many listings a set of transactions has, when none has two.
LEMMA OnePerListing ==
  ASSUME NEW T, Listings(T) \subseteq Listing,
         \A t, u \in T : t.listing = u.listing => t = u
  PROVE  Cardinality(T) = Cardinality(Listings(T))
<1> DEFINE L == Listings(T)
           f == [l \in L |-> CHOOSE t \in T : t.listing = l]
<1>1. IsFiniteSet(L)
  BY ListingsFinite
<1>2. \A l \in L : f[l] \in T /\ f[l].listing = l
  BY DEF Listings
<1>3. \A t \in T : t.listing \in L /\ f[t.listing] = t
  <2> TAKE t \in T
  <2>1. t.listing \in L
    BY DEF Listings
  <2>. QED
    BY <2>1, <1>2
<1>4. f \in [L -> T]
  BY <1>2
<1>5. \A a, b \in L : f[a] = f[b] => a = b
  BY <1>2
<1>6. \A t \in T : \E l \in L : f[l] = t
  BY <1>3
<1> HIDE DEF f, L
<1>7. f \in Bijection(L, T)
  BY <1>4, <1>5, <1>6 DEF Bijection, Injection, Surjection, IsInjective
<1>8. ExistsBijection(L, T)
  BY <1>7 DEF ExistsBijection
<1>9. Cardinality(T) = Cardinality(L)
  BY <1>1, <1>8, FS_Bijection
<1>. QED
  BY <1>9 DEF L

-----------------------------------------------------------------------------

LEMMA DataInitial == DataInit => DataInv
<1> SUFFICES ASSUME DataInit  PROVE DataInv
  OBVIOUS
<1> USE DEF DataInit
<1>1. registry = <<>> /\ Len(registry) = 0 /\ 1 .. Len(registry) = {}
  OBVIOUS
<1>2. ChainTyped
  BY <1>1 DEF ChainTyped
<1>3. Careful
  BY <1>1 DEF Careful, Single, OnlyFirst, SinceIsOurs, MatchTells
<1>4. Books
  BY DEF Books
<1>5. ToSet(confirmedListings) = {}
  BY DEF ToSet
<1>6. Told
  BY <1>5 DEF Told
<1>. QED
  BY <1>2, <1>3, <1>4, <1>6 DEF DataInv

\* What a longer registry has.
LEMMA Appended ==
  ASSUME NEW l, registry \in Seq(Listing \cup {Foreign}), l \in Listing \cup {Foreign},
         registry' = Append(registry, l)
  PROVE  /\ registry' \in Seq(Listing \cup {Foreign})
         /\ Len(registry) \in Nat /\ Len(registry') = Len(registry) + 1
         /\ \A i \in 1 .. Len(registry) : registry'[i] = registry[i]
         /\ registry'[Len(registry) + 1] = l
         /\ 1 .. Len(registry') = (1 .. Len(registry)) \cup {Len(registry) + 1}
         /\ \A k : Registered(k)' <=> Registered(k) \/ k = l
<1>1. /\ registry' \in Seq(Listing \cup {Foreign})
      /\ Len(registry) \in Nat /\ Len(registry') = Len(registry) + 1
      /\ \A i \in 1 .. Len(registry) : registry'[i] = registry[i]
      /\ registry'[Len(registry) + 1] = l
  OBVIOUS
<1>2. 1 .. Len(registry') = (1 .. Len(registry)) \cup {Len(registry) + 1}
  BY <1>1
<1>3. \A k : Registered(k)' <=> Registered(k) \/ k = l
  BY <1>1, <1>2 DEF Registered
<1>. QED
  BY <1>1, <1>2, <1>3

\* The account's next transaction creates its listing.
LEMMA MineCreates ==
  ASSUME DataInv, NEW tx \in pool, tx.nonce = nonce,
         pool' = pool \ {tx}, DOMAIN receipts' = DOMAIN receipts \cup {tx},
         registry' = Append(registry, tx.listing), reverted' = reverted,
         nonce' = nonce + 1, UNCHANGED <<file, runs, script, blind>>
  PROVE  DataInv'
<1> DEFINE l == tx.listing
<1>0. nonce' = nonce + 1
  OBVIOUS
<1>u. UNCHANGED <<pc, initialNonce, startingNumListings, left, numRetries, txToListings,
                  numTotalTransactions, submittedListings, minedListings, confirmedListings,
                  errors, duplicates, match, blind, file, runs>>
  BY DEF script, lists
<1>c. ChainTyped
  BY DEF DataInv
<1>l. l \in Listing /\ l \in Listing \cup {Foreign} /\ registry \in Seq(Listing \cup {Foreign})
  BY <1>c DEF ChainTyped
<1>a. /\ registry' \in Seq(Listing \cup {Foreign})
      /\ Len(registry) \in Nat /\ Len(registry') = Len(registry) + 1
      /\ \A i \in 1 .. Len(registry) : registry'[i] = registry[i]
      /\ registry'[Len(registry) + 1] = l
      /\ 1 .. Len(registry') = (1 .. Len(registry)) \cup {Len(registry) + 1}
      /\ \A k : Registered(k)' <=> Registered(k) \/ k = l
  BY <1>l, Appended
<1> HIDE DEF l
<1>1. ChainTyped'
  BY <1>c, <1>u, <1>a, <1>0 DEF ChainTyped
<1>2. ASSUME ~blind'  PROVE (Single /\ OnlyFirst /\ SinceIsOurs /\ MatchTells)'
  <2>1. ~blind /\ Single /\ OnlyFirst /\ SinceIsOurs /\ MatchTells
    BY <1>2, <1>u DEF DataInv, Careful
  <2>2. l \in file /\ ~Registered(l)
    BY <2>1 DEF Single, l
  <2>3. Single'
    <3>1. \A i \in 1 .. Len(registry) : registry[i] # l
      BY <2>2 DEF Registered
    <3>2. \A i, j \in 1 .. Len(registry') :
            registry'[i] = registry'[j] /\ registry'[i] \in Listing => i = j
      BY <3>1, <2>1, <1>a DEF Single
    <3>3. \A t \in pool' : t.listing \in file' /\ ~Registered(t.listing)'
      BY <2>1, <1>u, <1>a DEF Single, l
    <3>. QED
      BY <3>2, <3>3, <2>1, <1>u, <1>a DEF Single
  <2>4. OnlyFirst'
    <3> SUFFICES ASSUME pc = "submit", left # {}
                 PROVE  (/\ \A k \in left : Reached(k) => k = listingID
                         /\ \A t \in pool : t.listing = listingID => t = createListing
                         /\ Registered(listingID) =>
                              createListing.nonce \in Nat /\ createListing.nonce < nonce)'
      BY <1>u DEF OnlyFirst
    <3>1. listingID' = listingID /\ createListing' = createListing
      BY <1>u DEF listingID, createListing
    <3>2. /\ \A k \in left : Reached(k) => k = listingID
          /\ \A t \in pool : t.listing = listingID => t = createListing
          /\ Registered(listingID) => createListing.nonce \in Nat /\ createListing.nonce < nonce
      BY <2>1 DEF OnlyFirst
    <3>3. ASSUME NEW k, Reached(k)'  PROVE Reached(k)
      BY <3>3, <1>a DEF Reached, l
    <3>4. ASSUME Registered(listingID)'
          PROVE  createListing.nonce \in Nat /\ createListing.nonce < nonce'
      <4>1. nonce \in Nat
        BY <1>c DEF ChainTyped
      <4>2. CASE Registered(listingID)
        BY <4>1, <4>2, <3>2, <1>0
      <4>3. CASE ~Registered(listingID)
        <5>1. listingID = l
          BY <3>4, <4>3, <3>1, <1>a
        <5>2. tx = createListing
          BY <5>1, <3>2 DEF l
        <5>. QED
          BY <5>2, <4>1, <1>0
      <4>. QED
        BY <4>2, <4>3
    <3>5. \A k \in left' : Reached(k)' => k = listingID'
      BY <3>1, <3>2, <3>3, <1>u
    <3>6. \A t \in pool' : t.listing = listingID' => t = createListing'
      BY <3>1, <3>2
    <3>. QED
      BY <3>1, <3>4, <3>5, <3>6
  <2>5. SinceIsOurs'
    BY <2>1, <2>2, <1>u, <1>a, <1>c DEF SinceIsOurs, ChainTyped
  <2>6. MatchTells'
    <3> SUFFICES ASSUME match
                 PROVE  \/ Foreign \in {registry'[i] : i \in startingNumListings + 1 .. Len(registry')}
                        \/ file \subseteq {registry'[i] : i \in startingNumListings + 1 .. Len(registry')}
      BY <1>u DEF MatchTells
    <3>1. \/ Foreign \in {registry[i] : i \in startingNumListings + 1 .. Len(registry)}
          \/ file \subseteq {registry[i] : i \in startingNumListings + 1 .. Len(registry)}
      BY <2>1 DEF MatchTells
    <3>2. \A i \in startingNumListings + 1 .. Len(registry) :
            i \in startingNumListings + 1 .. Len(registry') /\ registry'[i] = registry[i]
      BY <1>a, <1>c DEF ChainTyped
    <3>. QED
      BY <3>1, <3>2
  <2>. QED
    BY <2>3, <2>4, <2>5, <2>6
<1>3. Books'
  BY <1>u, <1>a DEF DataInv, Books, l, Listings
<1>4. Told'
  BY <1>u DEF DataInv, Told, OneState, Receipted
<1>. QED
  BY <1>1, <1>2, <1>3, <1>4 DEF DataInv, Careful

\* It fails.
LEMMA MineFails ==
  ASSUME DataInv, NEW tx \in pool, tx.nonce = nonce,
         pool' = pool \ {tx}, DOMAIN receipts' = DOMAIN receipts \cup {tx},
         reverted' = reverted \cup {tx}, nonce' = nonce + 1,
         UNCHANGED <<file, runs, script, blind, registry>>
  PROVE  DataInv'
<1>u. UNCHANGED <<pc, initialNonce, startingNumListings, left, numRetries, txToListings,
                  numTotalTransactions, submittedListings, minedListings, confirmedListings,
                  errors, duplicates, match, blind, file, runs, registry>>
  BY DEF script, lists
<1>c. ChainTyped
  BY DEF DataInv
<1>1. ChainTyped'
  BY <1>c, <1>u DEF ChainTyped
<1>2. ASSUME ~blind'  PROVE (Single /\ OnlyFirst /\ SinceIsOurs /\ MatchTells)'
  <2>1. Single /\ OnlyFirst /\ SinceIsOurs /\ MatchTells
    BY <1>2, <1>u DEF DataInv, Careful
  <2>2. Single'
    BY <2>1, <1>u DEF Single, Registered
  <2>3. OnlyFirst'
    <3> SUFFICES ASSUME pc = "submit", left # {}  PROVE OnlyFirst'
      BY <1>u DEF OnlyFirst
    <3>1. listingID' = listingID /\ createListing' = createListing
      BY <1>u DEF listingID, createListing
    <3>2. /\ \A k \in left : Reached(k) => k = listingID
          /\ \A t \in pool : t.listing = listingID => t = createListing
          /\ Registered(listingID) => createListing.nonce \in Nat /\ createListing.nonce < nonce
      BY <2>1 DEF OnlyFirst
    <3>3. \A k \in left' : Reached(k)' => k = listingID'
      BY <3>1, <3>2, <1>u DEF Reached, Registered
    <3>4. \A t \in pool' : t.listing = listingID' => t = createListing'
      BY <3>1, <3>2
    <3>5. Registered(listingID)' => createListing'.nonce \in Nat /\ createListing'.nonce < nonce'
      <4>1. nonce \in Nat
        BY <1>c DEF ChainTyped
      <4>2. Registered(listingID)' => Registered(listingID)
        BY <3>1, <1>u DEF Registered
      <4>. QED
        BY <4>1, <4>2, <3>1, <3>2
    <3>. QED
      BY <3>3, <3>4, <3>5 DEF OnlyFirst
  <2>4. SinceIsOurs' /\ MatchTells'
    BY <2>1, <1>u DEF SinceIsOurs, MatchTells
  <2>. QED
    BY <2>2, <2>3, <2>4
<1>3. Books'
  BY <1>u DEF DataInv, Books, Listings, Registered
<1>4. Told'
  BY <1>u DEF DataInv, Told, OneState, Receipted
<1>. QED
  BY <1>1, <1>2, <1>3, <1>4 DEF DataInv, Careful

LEMMA MineStep == DataInv /\ Mine => DataInv'
<1> SUFFICES ASSUME DataInv, Mine  PROVE DataInv'
  OBVIOUS
<1> PICK tx \in pool :
      /\ tx.nonce = nonce
      /\ pool' = pool \ {tx}
      /\ receipts' = [t \in DOMAIN receipts \cup {tx} |-> IF t = tx THEN 0 ELSE Aged[t]]
      /\ \/ registry' = Append(registry, tx.listing) /\ UNCHANGED reverted
         \/ reverted' = reverted \cup {tx} /\ UNCHANGED registry
  BY DEF Mine
<1>1. DOMAIN receipts' = DOMAIN receipts \cup {tx}
  OBVIOUS
<1>2. nonce' = nonce + 1 /\ UNCHANGED <<file, runs, script, blind>>
  BY DEF Mine
<1>3. CASE registry' = Append(registry, tx.listing) /\ UNCHANGED reverted
  BY <1>1, <1>2, <1>3, MineCreates
<1>4. CASE reverted' = reverted \cup {tx} /\ UNCHANGED registry
  BY <1>1, <1>2, <1>4, MineFails
<1>. QED
  BY <1>3, <1>4

LEMMA OthersCreateStep == DataInv /\ OthersCreate => DataInv'
<1> SUFFICES ASSUME DataInv, OthersCreate  PROVE DataInv'
  OBVIOUS
<1>u. UNCHANGED <<pc, initialNonce, startingNumListings, left, numRetries, txToListings,
                  numTotalTransactions, submittedListings, minedListings, confirmedListings,
                  errors, duplicates, match, blind, file, runs, pool, nonce, receipts, reverted>>
  BY DEF OthersCreate, script, lists
<1>c. ChainTyped
  BY DEF DataInv
<1>l. registry' = Append(registry, Foreign) /\ registry \in Seq(Listing \cup {Foreign})
  BY <1>c DEF ChainTyped, OthersCreate
<1>f. Foreign \notin Listing
  BY DataMigrationAssumption DEF Listing
<1>a. /\ registry' \in Seq(Listing \cup {Foreign})
      /\ Len(registry) \in Nat /\ Len(registry') = Len(registry) + 1
      /\ \A i \in 1 .. Len(registry) : registry'[i] = registry[i]
      /\ registry'[Len(registry) + 1] = Foreign
      /\ 1 .. Len(registry') = (1 .. Len(registry)) \cup {Len(registry) + 1}
      /\ \A k : Registered(k)' <=> Registered(k) \/ k = Foreign
  BY <1>l, Appended
<1>1. ChainTyped'
  BY <1>c, <1>u, <1>a DEF ChainTyped
<1>2. ASSUME ~blind'  PROVE (Single /\ OnlyFirst /\ SinceIsOurs /\ MatchTells)'
  <2>1. ~blind /\ Single /\ OnlyFirst /\ SinceIsOurs /\ MatchTells
    BY <1>2, <1>u DEF DataInv, Careful
  <2>2. \A k \in Listing : Registered(k)' <=> Registered(k)
    BY <1>a, <1>f
  <2>3. Single'
    <3>1. \A i, j \in 1 .. Len(registry') :
            registry'[i] = registry'[j] /\ registry'[i] \in Listing => i = j
      BY <1>f, <2>1, <1>a DEF Single
    <3>2. \A t \in pool' : t.listing \in file' /\ ~Registered(t.listing)'
      BY <2>1, <2>2, <1>u, <1>c DEF Single, ChainTyped
    <3>. QED
      BY <3>1, <3>2, <2>1, <1>u, <1>a DEF Single
  <2>4. OnlyFirst'
    <3> SUFFICES ASSUME pc = "submit", left # {}
                 PROVE  (/\ \A k \in left : Reached(k) => k = listingID
                         /\ \A t \in pool : t.listing = listingID => t = createListing
                         /\ Registered(listingID) =>
                              createListing.nonce \in Nat /\ createListing.nonce < nonce)'
      BY <1>u DEF OnlyFirst
    <3>1. listingID' = listingID /\ createListing' = createListing
      BY <1>u DEF listingID, createListing
    <3>2. left \subseteq Listing
      BY <1>u DEF DataInv, Told, OneState, ChainTyped
    <3>3. listingID \in Listing
      BY <3>2, ListingIDIn
    <3>4. \A k \in Listing : Reached(k)' <=> Reached(k)
      BY <2>2, <1>u DEF Reached
    <3>5. Registered(listingID)' <=> Registered(listingID)
      BY <2>2, <3>1, <3>3
    <3>. QED
      BY <2>1, <3>1, <3>2, <3>4, <3>5, <1>u DEF OnlyFirst
  <2>5. SinceIsOurs'
    BY <2>1, <2>2, <1>u, <1>a, <1>c DEF SinceIsOurs, ChainTyped
  <2>6. MatchTells'
    <3> SUFFICES ASSUME match
                 PROVE  \/ Foreign \in {registry'[i] : i \in startingNumListings + 1 .. Len(registry')}
                        \/ file \subseteq {registry'[i] : i \in startingNumListings + 1 .. Len(registry')}
      BY <1>u DEF MatchTells
    <3>1. \/ Foreign \in {registry[i] : i \in startingNumListings + 1 .. Len(registry)}
          \/ file \subseteq {registry[i] : i \in startingNumListings + 1 .. Len(registry)}
      BY <2>1 DEF MatchTells
    <3>2. \A i \in startingNumListings + 1 .. Len(registry) :
            i \in startingNumListings + 1 .. Len(registry') /\ registry'[i] = registry[i]
      BY <1>a, <1>c DEF ChainTyped
    <3>. QED
      BY <3>1, <3>2
  <2>. QED
    BY <2>3, <2>4, <2>5, <2>6
<1>3. Books'
  BY <1>u, <1>a DEF DataInv, Books, Listings
<1>4. Told'
  BY <1>u DEF DataInv, Told, OneState, Receipted
<1>. QED
  BY <1>1, <1>2, <1>3, <1>4 DEF DataInv, Careful

\* Steps that leave the invariant's variables alone, but for the receipts' blocks.
LEMMA QuietData ==
  DataInv /\ UNCHANGED <<file, pool, nonce, reverted, registry, runs, script, blind>>
          /\ DOMAIN receipts' = DOMAIN receipts
  => DataInv'
<1> SUFFICES ASSUME DataInv, UNCHANGED <<file, pool, nonce, reverted, registry, runs, script, blind>>,
                    DOMAIN receipts' = DOMAIN receipts
             PROVE  DataInv'
  OBVIOUS
<1>u. UNCHANGED <<pc, initialNonce, startingNumListings, left, numRetries, txToListings,
                  numTotalTransactions, submittedListings, minedListings, confirmedListings,
                  errors, duplicates, match, blind, file, runs, pool, nonce, reverted, registry>>
  BY DEF script, lists
<1>1. ChainTyped'
  BY <1>u DEF DataInv, ChainTyped
<1>2. Careful'
  <2>1. Single' <=> Single
    BY <1>u DEF Single, Registered
  <2>2. listingID' = listingID /\ createListing' = createListing
    BY <1>u DEF listingID, createListing
  <2>3. OnlyFirst' <=> OnlyFirst
    BY <1>u, <2>2 DEF OnlyFirst, Registered, Reached
  <2>4. (SinceIsOurs' <=> SinceIsOurs) /\ (MatchTells' <=> MatchTells)
    BY <1>u DEF SinceIsOurs, MatchTells
  <2>. QED
    BY <1>u, <2>1, <2>3, <2>4 DEF DataInv, Careful
<1>3. Books'
  BY <1>u DEF DataInv, Books, Listings, Registered
<1>4. Told'
  BY <1>u DEF DataInv, Told, OneState, Receipted
<1>. QED
  BY <1>1, <1>2, <1>3, <1>4 DEF DataInv

LEMMA EmptyBlockStep == DataInv /\ EmptyBlock => DataInv'
BY QuietData DEF EmptyBlock, Aged

-----------------------------------------------------------------------------
(* The operator.                                                             *)

LEMMA ReadStep == DataInv /\ read => DataInv'
<1> SUFFICES ASSUME DataInv, read  PROVE DataInv'
  OBVIOUS
<1>u. UNCHANGED <<pc, initialNonce, startingNumListings, left, numRetries, txToListings,
                  numTotalTransactions, submittedListings, minedListings, confirmedListings,
                  errors, duplicates, match, blind, runs, pool, nonce, receipts, reverted, registry>>
  BY DEF read, script, lists, chain
<1>r. pc = "off" /\ runs = 0 /\ file' \subseteq Listing
  BY DEF read
<1>c. ChainTyped /\ pool = {} /\ ~match
  BY <1>r DEF DataInv, ChainTyped
<1>1. ChainTyped'
  BY <1>u, <1>r, <1>c DEF ChainTyped
<1>2. Careful'
  BY <1>u, <1>r, <1>c
     DEF DataInv, Careful, Single, OnlyFirst, SinceIsOurs, MatchTells, Registered
<1>3. Books'
  BY <1>u, <1>r DEF DataInv, Books, Listings, Registered
<1>4. Told'
  BY <1>u, <1>r DEF DataInv, Told, Receipted
<1>. QED
  BY <1>1, <1>2, <1>3, <1>4 DEF DataInv

LEMMA StartStep == DataInv /\ Start => DataInv'
<1> SUFFICES ASSUME DataInv, Start  PROVE DataInv'
  OBVIOUS
<1>u. UNCHANGED <<startingNumListings, duplicates, blind, file, pool, nonce, receipts, reverted, registry>>
  BY DEF Start, chain
<1>r. /\ pc' = "check" /\ runs' = runs + 1 /\ left' = {} /\ txToListings' = {}
      /\ submittedListings' = {} /\ minedListings' = {} /\ confirmedListings' = <<>>
      /\ errors' = {} /\ match' = FALSE
  BY DEF Start
<1>s. ToSet(confirmedListings)' = {}
  BY <1>r DEF ToSet
<1>1. ChainTyped'
  BY <1>u, <1>r DEF DataInv, ChainTyped
<1>2. Careful'
  BY <1>u, <1>r DEF DataInv, Careful, Single, OnlyFirst, SinceIsOurs, MatchTells, Registered
<1>3. Books'
  BY <1>u, <1>r DEF DataInv, Books, Registered
<1>4. Told'
  BY <1>u, <1>r, <1>s DEF Told
<1>. QED
  BY <1>1, <1>2, <1>3, <1>4 DEF DataInv

LEMMA InterruptStep == DataInv /\ Interrupt => DataInv'
<1> SUFFICES ASSUME DataInv, Interrupt  PROVE DataInv'
  OBVIOUS
<1>u. UNCHANGED <<initialNonce, startingNumListings, left, numRetries, txToListings,
                  numTotalTransactions, submittedListings, minedListings, confirmedListings,
                  errors, duplicates, match, blind, file, runs, pool, nonce, receipts, reverted, registry>>
  BY DEF Interrupt, lists, chain
<1>r. pc' = "off" /\ pc \in {"check", "submit", "confirm", "data"}
  BY DEF Interrupt
<1>m. ~match
  BY <1>r DEF DataInv, ChainTyped
<1>1. ChainTyped'
  BY <1>u, <1>r, <1>m DEF DataInv, ChainTyped
<1>2. Careful'
  BY <1>u, <1>r, <1>m
     DEF DataInv, Careful, Single, OnlyFirst, SinceIsOurs, MatchTells, Registered
<1>3. Books'
  BY <1>u, <1>r DEF DataInv, Books, Registered
<1>4. Told'
  BY <1>u, <1>r DEF DataInv, Told, Receipted
<1>. QED
  BY <1>1, <1>2, <1>3, <1>4 DEF DataInv

LEMMA RemoveDuplicatesStep == DataInv /\ RemoveDuplicates => DataInv'
<1> SUFFICES ASSUME DataInv, RemoveDuplicates  PROVE DataInv'
  OBVIOUS
<1>u. UNCHANGED <<initialNonce, startingNumListings, numRetries, txToListings, pc,
                  numTotalTransactions, submittedListings, minedListings, confirmedListings,
                  errors, match, blind, runs, pool, nonce, receipts, reverted, registry>>
  BY DEF RemoveDuplicates, lists, chain
<1>r. pc = "off" /\ file' = file \ duplicates /\ duplicates' = {} /\ left' = {}
  BY DEF RemoveDuplicates
<1>m. ~match
  BY <1>r DEF DataInv, ChainTyped
<1>1. ChainTyped'
  BY <1>u, <1>r, <1>m DEF DataInv, ChainTyped
<1>2. Careful'
  BY <1>u, <1>r, <1>m
     DEF DataInv, Careful, Single, OnlyFirst, SinceIsOurs, MatchTells, Registered
<1>3. Books'
  BY <1>u, <1>r DEF DataInv, Books, Registered
<1>4. Told'
  BY <1>u, <1>r DEF DataInv, Told, Receipted
<1>. QED
  BY <1>1, <1>2, <1>3, <1>4 DEF DataInv

-----------------------------------------------------------------------------
(* The script.                                                               *)

LEMMA CheckDuplicatesStep == DataInv /\ checkDuplicates => DataInv'
<1> SUFFICES ASSUME DataInv, checkDuplicates  PROVE DataInv'
  OBVIOUS
<1>u. UNCHANGED <<numRetries, txToListings,
                  numTotalTransactions, submittedListings, minedListings, confirmedListings,
                  errors, match, file, runs, pool, nonce, receipts, reverted, registry>>
  BY DEF checkDuplicates, lists, chain
<1> PICK unread \in SUBSET Indexes(file) :
      LET found == file \cap Retrieved(1, Len(registry), unread) IN
      /\ duplicates' = found
      /\ pc' = IF found = {} THEN "submit" ELSE "off"
      /\ left' = IF found = {} THEN file ELSE {}
      /\ blind' = \/ blind
                  \/ unread # {}
                  \/ \E tx \in pool : tx.listing \in file
  BY DEF checkDuplicates
<1> DEFINE found == file \cap Retrieved(1, Len(registry), unread)
<1>r. /\ duplicates' = found
      /\ pc' = IF found = {} THEN "submit" ELSE "off"
      /\ left' = IF found = {} THEN file ELSE {}
      /\ ~blind' => ~blind /\ unread = {} /\ \A tx \in pool : tx.listing \notin file
  OBVIOUS
<1>f. \A k \in found : Registered(k) /\ k \in file
  BY DEF Retrieved, Registered
<1>e. unread = {} => \A k \in file : Registered(k) => k \in found
  BY DEF Retrieved, Registered
<1> HIDE DEF found
<1>p. pc = "check" /\ startingNumListings' = Len(registry)
  BY DEF checkDuplicates
<1>m. ~match /\ Len(registry) \in Nat
  BY <1>p DEF DataInv, ChainTyped
<1>n. Listings({}) = {}
  BY DEF Listings
<1>s. ToSet(<<>>) = {}
  BY DEF ToSet
<1>b. /\ submittedListings = {} /\ errors = {} /\ txToListings = {}
      /\ minedListings = {} /\ confirmedListings = <<>>
  BY <1>p DEF DataInv, Books
<1>1. ChainTyped'
  <2>1. runs = 0 => left' = {}
    <3>1. runs # 0
      BY <1>p DEF DataInv, ChainTyped
    <3>. QED
      BY <3>1
  <2>. QED
    BY <1>u, <1>r, <1>m, <1>p, <2>1 DEF DataInv, ChainTyped
<1>2. ASSUME ~blind'  PROVE (Single /\ OnlyFirst /\ SinceIsOurs /\ MatchTells)'
  <2>1. Single /\ unread = {} /\ \A tx \in pool : tx.listing \notin file
    BY <1>2, <1>r DEF DataInv, Careful
  <2>2. Single'
    BY <2>1, <1>u, <1>r, <1>f DEF Single, Registered
  <2>3. OnlyFirst'
    <3> SUFFICES ASSUME pc' = "submit", left' # {}
                 PROVE  OnlyFirst'
      BY DEF OnlyFirst
    <3>1. found = {} /\ left' = file
      BY <1>r
    <3>2. \A k \in left' : ~Reached(k)'
      BY <3>1, <2>1, <1>e, <1>u DEF Reached, Registered
    <3>3. left' \subseteq Listing
      BY <3>1 DEF DataInv, ChainTyped
    <3>4. listingID' \in left'
      BY <3>3, LeastOf DEF listingID
    <3>5. ~Registered(listingID)' /\ \A t \in pool' : t.listing # listingID'
      BY <3>2, <3>4 DEF Reached
    <3>. QED
      BY <3>2, <3>5 DEF OnlyFirst
  <2>4. SinceIsOurs'
    BY <1>p, <1>m, <1>u DEF SinceIsOurs
  <2>. QED
    BY <2>2, <2>3, <2>4, <1>m, <1>u DEF MatchTells
<1>3. Books'
  BY <1>b, <1>u, <1>r, <1>n DEF DataInv, Books, Registered
<1>4. Told'
  <2>1. OneState' \/ pc' = "off"
    BY <1>b, <1>u, <1>r, <1>s, FS_EmptySet DEF OneState
  <2>. QED
    BY <2>1, <1>b, <1>u, <1>r, <1>s DEF Told
<1>. QED
  BY <1>1, <1>2, <1>3, <1>4 DEF DataInv, Careful

\* The next transaction may be sent, at most once, and the loop may come past its
\* listing: what holds of the chain.
LEMMA SentCareful ==
  ASSUME DataInv, pc = "submit", left # {},
         UNCHANGED <<file, nonce, receipts, reverted, registry, runs, pc, initialNonce,
                     startingNumListings, duplicates, match, blind>>,
         pool' = pool \/ sendTransaction(createListing),
         left' = left \/ left' = left \ {listingID}
  PROVE  ChainTyped' /\ Careful'
<1>c. ChainTyped /\ ~match
  BY DEF DataInv, ChainTyped
<1>l. left \subseteq file /\ left \subseteq Listing
  BY DEF DataInv, Told, OneState, ChainTyped
<1>i. listingID \in left
  BY <1>l, ListingIDIn
<1>j. createListing.listing = listingID
  BY DEF createListing
<1>p. \A t \in pool' : t \in pool \/ (t = createListing /\ createListing.nonce >= nonce)
  <2>1. CASE pool' = pool
    <3>1. \A t \in pool' : t \in pool
      BY <2>1
    <3>. QED
      BY <3>1
  <2>2. CASE sendTransaction(createListing)
    <3>1. pool' = pool \cup {createListing} /\ createListing.nonce >= nonce
      BY <2>2 DEF sendTransaction, Acceptable
    <3>. QED
      BY <3>1
  <2>. QED
    BY <2>1, <2>2
<1>1. ChainTyped'
  BY <1>c, <1>l, <1>i, <1>j, <1>p DEF ChainTyped
<1>2. ASSUME ~blind'  PROVE (Single /\ OnlyFirst /\ SinceIsOurs /\ MatchTells)'
  <2>1. ~blind /\ Single /\ OnlyFirst /\ SinceIsOurs
    BY <1>2 DEF DataInv, Careful
  <2>2. /\ \A l \in left : Reached(l) => l = listingID
        /\ \A tx \in pool : tx.listing = listingID => tx = createListing
        /\ Registered(listingID) => createListing.nonce \in Nat /\ createListing.nonce < nonce
    BY <2>1 DEF OnlyFirst
  <2>3. \A k : Registered(k)' <=> Registered(k)
    BY DEF Registered
  <2>4. \A t \in pool' : t \in pool \/ (t = createListing /\ ~Registered(listingID))
    <3>1. createListing.nonce >= nonce /\ nonce \in Nat => ~Registered(listingID)
      BY <2>2
    <3>. QED
      BY <3>1, <1>p, <1>c DEF ChainTyped
  <2>5. Single'
    <3>1. \A t \in pool' : t.listing \in file' /\ ~Registered(t.listing)'
      BY <2>1, <2>3, <2>4, <1>i, <1>j, <1>l DEF Single
    <3>2. \A t, u \in pool' : t.listing = u.listing => t = u
      BY <2>1, <2>2, <2>4, <1>j DEF Single
    <3>. QED
      BY <3>1, <3>2, <2>1, <2>3 DEF Single
  <2>6. \A k : Reached(k)' => Reached(k) \/ k = listingID
    BY <2>3, <2>4, <1>j DEF Reached
  <2>7. OnlyFirst'
    <3>1. CASE left' = left
      <4>1. listingID' = listingID /\ createListing' = createListing
        BY <3>1 DEF listingID, createListing
      <4>2. \A l \in left' : Reached(l)' => l = listingID'
        BY <3>1, <4>1, <2>2, <2>6
      <4>3. \A t \in pool' : t.listing = listingID' => t = createListing'
        BY <4>1, <2>2, <2>4
      <4>4. Registered(listingID)' =>
              createListing'.nonce \in Nat /\ createListing'.nonce < nonce'
        BY <4>1, <2>2, <2>3
      <4>. QED
        BY <4>2, <4>3, <4>4 DEF OnlyFirst
    <3>2. CASE left' = left \ {listingID} /\ left' # {}
      <4>1. \A l \in left' : ~Reached(l)'
        BY <3>2, <2>2, <2>6
      <4>2. listingID' \in left'
        BY <3>2, <1>l, LeastOf DEF listingID
      <4>3. ~Registered(listingID)' /\ \A t \in pool' : t.listing # listingID'
        BY <4>1, <4>2 DEF Reached
      <4>. QED
        BY <4>1, <4>3 DEF OnlyFirst
    <3>. QED
      BY <3>1, <3>2 DEF OnlyFirst
  <2>8. SinceIsOurs'
    BY <2>1 DEF SinceIsOurs
  <2>. QED
    BY <2>5, <2>7, <2>8, <1>c DEF MatchTells
<1>. QED
  BY <1>1, <1>2 DEF Careful

LEMMA AcceptedStep == DataInv /\ Accepted => DataInv'
<1> SUFFICES ASSUME DataInv, Accepted  PROVE DataInv'
  OBVIOUS
<1>u. UNCHANGED <<file, nonce, receipts, reverted, registry, runs, pc, initialNonce, startingNumListings,
                  numTotalTransactions, minedListings, confirmedListings, errors, duplicates,
                  match, blind>>
  BY DEF Accepted
<1>r. /\ pc = "submit" /\ left # {}
      /\ sendTransaction(createListing)
      /\ txToListings' = txToListings \cup {createListing}
      /\ submittedListings' = submittedListings \cup {listingID}
      /\ left' = left \ {listingID}
  BY DEF Accepted
<1>1. ChainTyped' /\ Careful'
  BY <1>u, <1>r, SentCareful
<1>2. left \subseteq Listing
  BY <1>r DEF DataInv, Told, OneState, ChainTyped
<1>3. listingID \in left
  BY <1>r, <1>2, ListingIDIn
<1>4. createListing.listing = listingID
  BY DEF createListing
<1>o. OneState
  BY <1>r DEF DataInv, Told
<1>5. Books'
  <2>1. minedListings = {} /\ Listings(txToListings) = submittedListings
    BY <1>r DEF DataInv, Books
  <2>2. \A t \in txToListings : t.listing # listingID
    BY <2>1, <1>3, <1>o DEF OneState, Listings
  <2>3. Listings(txToListings') = submittedListings'
    BY <2>1, <1>r, <1>4 DEF Listings
  <2>4. \A t, u \in txToListings' : t.listing = u.listing => t = u
    BY <2>2, <1>r, <1>4 DEF DataInv, Books
  <2>5. Listings(txToListings)' = Listings(txToListings')
    BY DEF Listings
  <2>6. \A tx \in DOMAIN receipts' : tx \in reverted' \/ Registered(tx.listing)'
    BY <1>u DEF DataInv, Books, Registered
  <2>. QED
    BY <2>1, <2>3, <2>4, <2>5, <2>6, <1>u, <1>r DEF DataInv, Books
<1>6. Told'
  <2>1. OneState'
    BY <1>o, <1>u, <1>r, <1>3 DEF OneState
  <2>. QED
    BY <2>1, <1>u, <1>r DEF DataInv, Told, Receipted
<1>. QED
  BY <1>1, <1>5, <1>6 DEF DataInv

LEMMA FailedStep == DataInv /\ Failed => DataInv'
<1> SUFFICES ASSUME DataInv, Failed  PROVE DataInv'
  OBVIOUS
<1>u. UNCHANGED <<file, nonce, receipts, reverted, registry, runs, pc, initialNonce, startingNumListings,
                  txToListings, numTotalTransactions, submittedListings, minedListings,
                  confirmedListings, duplicates, match, blind>>
  BY DEF Failed
<1>r. /\ pc = "submit" /\ left # {}
      /\ pool' = pool \/ sendTransaction(createListing)
      /\ \/ UNCHANGED <<left, errors>>
         \/ errors' = errors \cup {listingID} /\ left' = left \ {listingID}
  BY DEF Failed
<1>1. ChainTyped' /\ Careful'
  BY <1>u, <1>r, SentCareful
<1>2. left \subseteq Listing
  BY <1>r DEF DataInv, Told, OneState, ChainTyped
<1>3. listingID \in left
  BY <1>r, <1>2, ListingIDIn
<1>5. Books'
  BY <1>u, <1>r DEF DataInv, Books, Listings, Registered
<1>6. Told'
  <2>1. OneState
    BY <1>r DEF DataInv, Told
  <2>2. OneState'
    <3>1. CASE UNCHANGED <<left, errors>>
      BY <3>1, <2>1, <1>u DEF OneState
    <3>2. CASE errors' = errors \cup {listingID} /\ left' = left \ {listingID}
      BY <3>2, <2>1, <1>u, <1>3 DEF OneState
    <3>. QED
      BY <3>1, <3>2, <1>r
  <2>. QED
    BY <2>2, <1>u, <1>r DEF DataInv, Told, Receipted
<1>. QED
  BY <1>1, <1>5, <1>6 DEF DataInv

LEMMA SubmittedStep == DataInv /\ Submitted => DataInv'
<1> SUFFICES ASSUME DataInv, Submitted  PROVE DataInv'
  OBVIOUS
<1>u. UNCHANGED <<file, nonce, receipts, reverted, registry, runs, initialNonce, startingNumListings,
                  txToListings, submittedListings, minedListings, pool, left,
                  confirmedListings, errors, duplicates, match, blind>>
  BY DEF Submitted, chain, lists
<1>r. /\ pc = "submit" /\ left = {} /\ pc' = "confirm"
      /\ numTotalTransactions' = Cardinality(txToListings)
  BY DEF Submitted
<1>m. ~match
  BY <1>r DEF DataInv, ChainTyped
<1>o. OneState
  BY <1>r DEF DataInv, Told
<1>1. ChainTyped'
  BY <1>u, <1>r, <1>m DEF DataInv, ChainTyped
<1>2. Careful'
  BY <1>u, <1>r, <1>m
     DEF DataInv, Careful, Single, OnlyFirst, SinceIsOurs, MatchTells, Registered
<1>3. Books'
  <2>1. /\ minedListings = {} /\ confirmedListings = <<>>
        /\ Listings(txToListings) = submittedListings \cup minedListings
        /\ \A t, u \in txToListings : t.listing = u.listing => t = u
    BY <1>r DEF DataInv, Books
  <2>2. submittedListings \subseteq Listing
    BY <1>o DEF OneState, DataInv, ChainTyped
  <2>3. Cardinality(txToListings) = Cardinality(submittedListings)
    BY <2>1, <2>2, OnePerListing
  <2>4. ToSet(confirmedListings) = {}
    BY <2>1 DEF ToSet
  <2>5. numTotalTransactions' =
          Cardinality(submittedListings \cup minedListings \cup ToSet(confirmedListings))
    BY <2>1, <2>3, <2>4, <1>r
  <2>. QED
    BY <2>1, <2>5, <1>u, <1>r DEF DataInv, Books, Listings, Registered
<1>4. Told'
  BY <1>o, <1>u, <1>r DEF DataInv, Told, OneState, Receipted
<1>. QED
  BY <1>1, <1>2, <1>3, <1>4 DEF DataInv

LEMMA CheckDataStep == DataInv /\ checkData => DataInv'
<1> SUFFICES ASSUME DataInv, checkData  PROVE DataInv'
  OBVIOUS
<1>u. UNCHANGED <<file, nonce, receipts, reverted, registry, runs, initialNonce, startingNumListings,
                  txToListings, submittedListings, minedListings, pool, left,
                  confirmedListings, errors, duplicates, numTotalTransactions, blind>>
  BY DEF checkData, chain, lists
<1>r. pc = "data" /\ pc' = "done"
  BY DEF checkData
<1>1. ChainTyped'
  BY <1>u, <1>r DEF DataInv, ChainTyped
<1>2. ASSUME ~blind'  PROVE (Single /\ OnlyFirst /\ SinceIsOurs /\ MatchTells)'
  <2>1. Single /\ SinceIsOurs
    BY <1>2, <1>u DEF DataInv, Careful
  <2>2. Single'
    BY <2>1, <1>u DEF Single, Registered
  <2>3. OnlyFirst' /\ SinceIsOurs'
    BY <1>r DEF OnlyFirst, SinceIsOurs
  <2>4. MatchTells'
    <3> PICK unread \in SUBSET (startingNumListings + 1 .. Len(registry)) :
          match' = ( calculateChecksum(file) =
                     calculateChecksum(Retrieved(startingNumListings + 1, Len(registry), unread)) )
      BY DEF checkData
    <3> DEFINE since == {registry[i] : i \in startingNumListings + 1 .. Len(registry)}
               got == Retrieved(startingNumListings + 1, Len(registry), unread)
    <3>1. got \subseteq since
      BY DEF Retrieved
    <3>2. since \subseteq file \cup {Foreign}
      BY <2>1, <1>r DEF SinceIsOurs
    <3>3. IsFiniteSet(file)
      BY ListingsFinite DEF DataInv, ChainTyped
    <3> HIDE DEF since, got
    <3>4. ASSUME match', Foreign \notin since  PROVE file \subseteq since
      <4>1. got \subseteq file
        BY <3>1, <3>2, <3>4
      <4>2. Cardinality(file) = Cardinality(got)
        BY <3>4 DEF calculateChecksum, got
      <4>3. got = file
        BY <3>3, <4>1, <4>2, FS_Subset
      <4>. QED
        BY <3>1, <4>3
    <3>. QED
      BY <3>4, <1>u DEF MatchTells, since
  <2>. QED
    BY <2>2, <2>3, <2>4
<1>3. Books'
  BY <1>u, <1>r DEF DataInv, Books, Listings, Registered
<1>4. Told'
  BY <1>u, <1>r DEF DataInv, Told, OneState, Receipted
<1>. QED
  BY <1>1, <1>2, <1>3, <1>4 DEF DataInv, Careful

LEMMA ConfirmStep == DataInv /\ confirm => DataInv'
<1> SUFFICES ASSUME DataInv, confirm  PROVE DataInv'
  OBVIOUS
<1>u. UNCHANGED <<file, nonce, receipts, reverted, registry, runs, initialNonce, startingNumListings,
                  pool, left, errors, duplicates, numTotalTransactions, match, blind>>
  BY DEF confirm, chain
<1> DEFINE known == txToListings \cap DOMAIN receipts
           sure == {tx \in known : Confirmed(tx)}
           K == Listings(known)
           Q == Listings(sure)
           C == ToSet(confirmedListings)
<1>r. /\ pc = "confirm"
      /\ submittedListings' = submittedListings \ K
      /\ confirmedListings' = confirmedListings \o SetToSeq(Q)
      /\ minedListings' = (minedListings \cup K) \ Q
      /\ txToListings' = txToListings \ sure
      /\ pc' = IF Len(confirmedListings') = numTotalTransactions THEN "data" ELSE "confirm"
  BY DEF confirm, Mined, AllConfirmed
<1>m. ~match
  BY <1>r DEF DataInv, ChainTyped
<1>o. OneState
  BY <1>r DEF DataInv, Told
<1>b. /\ Listings(txToListings) = submittedListings \cup minedListings
      /\ \A t, u \in txToListings : t.listing = u.listing => t = u
      /\ left = {} /\ confirmedListings \in Seq(Listing)
      /\ numTotalTransactions = Cardinality(submittedListings \cup minedListings \cup C)
  BY <1>r DEF DataInv, Books
<1>k. Q \subseteq K /\ K \subseteq submittedListings \cup minedListings
  BY <1>b DEF Listings
<1>g. \A l \in K : Receipted(l)
  BY DEF Listings, Receipted
<1>t. Listings(txToListings') = (submittedListings \cup minedListings) \ Q
  <2>1. \A t \in txToListings : t.listing \in Q => t \in sure
    BY <1>b DEF Listings
  <2>2. \A t \in sure : t.listing \in Q
    BY DEF Listings
  <2>3. \A t \in txToListings' : t.listing \in Listings(txToListings) \ Q
    BY <2>1, <1>r DEF Listings
  <2>4. \A l \in Listings(txToListings) \ Q : \E t \in txToListings' : l = t.listing
    BY <2>2, <1>r DEF Listings
  <2>5. Listings(txToListings') = Listings(txToListings) \ Q
    BY <2>3, <2>4 DEF Listings
  <2>. QED
    BY <2>5, <1>b
<1>w. \A t, u \in txToListings' : t.listing = u.listing => t = u
  BY <1>b, <1>r
<1> HIDE DEF known, sure, K, Q
<1>f. /\ submittedListings \subseteq Listing /\ minedListings \subseteq Listing
      /\ C \subseteq Listing /\ file \subseteq Listing
  BY <1>o DEF OneState, DataInv, ChainTyped
<1>q. Q \subseteq Listing /\ IsFiniteSet(Q)
  BY <1>f, <1>k, ListingsFinite
<1>s. /\ SetToSeq(Q) \in Seq(Q) /\ Len(SetToSeq(Q)) = Cardinality(Q)
      /\ ToSet(SetToSeq(Q)) = Q
  BY <1>q, SequenceOfSet
<1>x. /\ confirmedListings' \in Seq(Listing)
      /\ Len(confirmedListings') = Len(confirmedListings) + Cardinality(Q)
      /\ ToSet(confirmedListings') = C \cup Q
  <2>1. SetToSeq(Q) \in Seq(Listing)
    BY <1>s, <1>q
  <2>2. confirmedListings \in Seq(Listing)
    BY <1>b
  <2>3. /\ confirmedListings \o SetToSeq(Q) \in Seq(Listing)
        /\ Len(confirmedListings \o SetToSeq(Q)) = Len(confirmedListings) + Len(SetToSeq(Q))
        /\ ToSet(confirmedListings \o SetToSeq(Q))
             = ToSet(confirmedListings) \cup ToSet(SetToSeq(Q))
    BY <2>1, <2>2, ConcatSet
  <2>. QED
    BY <2>3, <1>s, <1>r DEF C
<1>y. ToSet(confirmedListings)' = C \cup Q
  BY <1>x DEF ToSet
<1>d. /\ submittedListings \cap minedListings = {} /\ submittedListings \cap C = {}
      /\ minedListings \cap C = {} /\ errors \cap C = {}
      /\ submittedListings \cap errors = {} /\ minedListings \cap errors = {}
      /\ submittedListings \cup minedListings \cup C \cup errors \cup left = file
      /\ Len(confirmedListings) = Cardinality(C)
  BY <1>o DEF OneState
<1> HIDE DEF C
<1>e. /\ submittedListings' \cup minedListings' \cup (C \cup Q)
           = submittedListings \cup minedListings \cup C
      /\ submittedListings' \cup minedListings' = (submittedListings \cup minedListings) \ Q
  BY <1>r, <1>k
<1>n. Len(confirmedListings') = Cardinality(C \cup Q) /\ IsFiniteSet(C \cup Q)
  <2>1. C \cap Q = {}
    BY <1>d, <1>k
  <2>2. IsFiniteSet(C) /\ Cardinality(C) \in Nat /\ Cardinality(Q) \in Nat
    BY <1>f, <1>q, ListingsFinite
  <2>3. Cardinality(C \cup Q) = Cardinality(C) + Cardinality(Q) - Cardinality(C \cap Q)
    BY <2>2, <1>q, FS_Union
  <2>4. Cardinality(C \cap Q) = 0
    BY <2>1, FS_EmptySet
  <2>5. IsFiniteSet(C \cup Q)
    BY <2>2, <1>q, FS_Union
  <2>. QED
    BY <2>2, <2>3, <2>4, <2>5, <1>x, <1>d
<1>1. ChainTyped'
  BY <1>u, <1>r, <1>m DEF DataInv, ChainTyped
<1>2. Careful'
  BY <1>u, <1>r, <1>m
     DEF DataInv, Careful, Single, OnlyFirst, SinceIsOurs, MatchTells, Registered
<1>3. Books'
  <2>1. minedListings' \subseteq Listing
    BY <1>r, <1>f, <1>k
  <2>2. Listings(txToListings)' = submittedListings' \cup minedListings'
    BY <1>t, <1>e DEF Listings
  <2>3. numTotalTransactions' =
          Cardinality(submittedListings' \cup minedListings' \cup ToSet(confirmedListings)')
    BY <1>b, <1>e, <1>y, <1>u
  <2>4. \A tx \in DOMAIN receipts' : tx \in reverted' \/ Registered(tx.listing)'
    BY <1>u DEF DataInv, Books, Registered
  <2>5. pc' \in {"data", "confirm"} /\ left' = {}
    BY <1>r, <1>b, <1>u
  <2>. QED
    BY <2>1, <2>2, <2>3, <2>4, <2>5, <1>w, <1>x DEF Books
<1>4. Told'
  <2>1. OneState'
    <3>1. submittedListings' \cup minedListings' \cup (C \cup Q) \cup errors \cup left = file
      BY <1>e, <1>d
    <3>2. /\ submittedListings' \cap minedListings' = {}
          /\ submittedListings' \cap (C \cup Q) = {} /\ minedListings' \cap (C \cup Q) = {}
      BY <1>r, <1>d, <1>k
    <3>3. /\ submittedListings' \cap errors = {} /\ minedListings' \cap errors = {}
          /\ errors \cap (C \cup Q) = {}
      BY <1>r, <1>d, <1>k
    <3>. QED
      BY <3>1, <3>2, <3>3, <1>n, <1>y, <1>u, <1>b DEF OneState
  <2>2. \A l \in minedListings' \cup ToSet(confirmedListings)' : Receipted(l)'
    <3>1. \A l \in minedListings \cup C : Receipted(l)
      BY DEF DataInv, Told, C
    <3>2. \A l \in minedListings' \cup (C \cup Q) : Receipted(l)
      BY <3>1, <1>r, <1>g, <1>k
    <3>. QED
      BY <3>2, <1>y, <1>u DEF Receipted
  <2>3. ASSUME pc' = "data"  PROVE ToSet(confirmedListings)' \cup errors' = file'
    <3>1. Len(confirmedListings') = numTotalTransactions
      BY <2>3, <1>r
    <3> DEFINE A == submittedListings \cup minedListings \cup C
    <3>2. C \cup Q \in SUBSET A /\ A \subseteq Listing
      BY <1>k, <1>f
    <3>3. Cardinality(A) = Cardinality(C \cup Q)
      BY <3>1, <1>n, <1>b DEF C
    <3>4. IsFiniteSet(A)
      BY <3>2, ListingsFinite
    <3> HIDE DEF A
    <3>5. A = C \cup Q
      BY <3>2, <3>3, <3>4, FS_Subset
    <3>. QED
      BY <3>5, <1>d, <1>b, <1>y, <1>u DEF A
  <2>4. pc' \in {"data", "confirm"}
    BY <1>r
  <2>. QED
    BY <2>1, <2>2, <2>3, <2>4 DEF Told
<1>. QED
  BY <1>1, <1>2, <1>3, <1>4 DEF DataInv

-----------------------------------------------------------------------------

LEMMA DataStep == DataInv /\ [DataNext]_dataVars => DataInv'
<1> SUFFICES ASSUME DataInv, [DataNext]_dataVars  PROVE DataInv'
  OBVIOUS
<1>1. CASE UNCHANGED dataVars
  BY <1>1, QuietData DEF dataVars, chain
<1>2. CASE Mine \/ EmptyBlock \/ OthersCreate
  BY <1>2, MineStep, EmptyBlockStep, OthersCreateStep
<1>3. CASE read \/ Start \/ Interrupt \/ RemoveDuplicates
  BY <1>3, ReadStep, StartStep, InterruptStep, RemoveDuplicatesStep
<1>4. CASE write
  BY <1>4, CheckDuplicatesStep, AcceptedStep, FailedStep, SubmittedStep, ConfirmStep, CheckDataStep
     DEF write
<1>. QED
  BY <1>1, <1>2, <1>3, <1>4 DEF DataNext

LEMMA DataAlways == DataSpec => []DataInv
BY DataInitial, DataStep, PTL DEF DataSpec

\* How often a listing was created, and whether it was.
LEMMA Created ==
  ASSUME registry \in Seq(Listing \cup {Foreign}), NEW l
  PROVE  /\ CreatedOften(l) > 0 <=> Registered(l)
         /\ (\A i, j \in 1 .. Len(registry) :
               registry[i] = registry[j] /\ registry[i] = l => i = j) => CreatedOften(l) <= 1
<1> DEFINE I == Indexes({l})
           n == Len(registry)
<1>1. n \in Nat /\ DOMAIN registry = 1 .. n
  OBVIOUS
<1>2. I = {i \in 1 .. n : registry[i] = l}
  BY <1>1 DEF Indexes
<1>3. IsFiniteSet(I) /\ Cardinality(I) \in Nat
  <2>1. IsFiniteSet(1 .. n)
    BY <1>1, FS_Interval
  <2>. QED
    BY <2>1, <1>2, FS_Subset, FS_CardinalityType
<1>4. I = {} <=> ~Registered(l)
  BY <1>2 DEF Registered
<1>5. Cardinality(I) = 0 <=> I = {}
  BY <1>3, FS_EmptySet
<1>6. ASSUME \A i, j \in 1 .. n : registry[i] = registry[j] /\ registry[i] = l => i = j
      PROVE  Cardinality(I) <= 1
  <2>1. CASE I = {}
    <3>1. Cardinality(I) = 0
      BY <2>1, <1>5
    <3>. QED
      BY <3>1
  <2>2. CASE I # {}
    <3>1. PICK i : i \in I
      BY <2>2
    <3>2. I = {i}
      BY <3>1, <1>2, <1>6
    <3>3. Cardinality(I) = 1
      BY <3>2, FS_Singleton
    <3>. QED
      BY <3>3
  <2>. QED
    BY <2>1, <2>2
<1>7. Cardinality(I) > 0 <=> Cardinality(I) # 0
  BY <1>3
<1>8. CreatedOften(l) = Cardinality(I)
  BY DEF CreatedOften
<1> HIDE DEF I, n
<1>9. CreatedOften(l) > 0 <=> Registered(l)
  BY <1>4, <1>5, <1>7, <1>8
<1>. QED
  BY <1>6, <1>8, <1>9 DEF n

\* However often attempts are repeated, their answers lost and runs interrupted, a
\* listing is created once, unless a run began while transactions of an earlier one
\* were pending or could not read the registry.
THEOREM EachIsCreatedOnce == DataSpec => []CreatedOnce
<1>1. DataInv => CreatedOnce
  <2> SUFFICES ASSUME DataInv, ~blind, NEW l \in Listing  PROVE CreatedOften(l) <= 1
    BY DEF CreatedOnce
  <2>1. registry \in Seq(Listing \cup {Foreign})
    BY DEF DataInv, ChainTyped
  <2>2. \A i, j \in 1 .. Len(registry) :
          registry[i] = registry[j] /\ registry[i] = l => i = j
    BY DEF DataInv, Careful, Single
  <2>. QED
    BY <2>1, <2>2, Created
<1>. QED
  BY <1>1, DataAlways, PTL

\* What the script prints adds up at every moment, also when it is stopped: each
\* listing is in one state, what it calls mined or migrated has a mined transaction,
\* and is in the registry unless that transaction failed, and when the script ends by
\* itself all were confirmed or are errors.
THEOREM PrintedIsTrue == DataSpec => []ResultsTrue
<1>1. DataInv => ResultsTrue
  <2> SUFFICES ASSUME DataInv  PROVE ResultsTrue
    OBVIOUS
  <2> DEFINE confirmed == ToSet(confirmedListings)
             states == <<submittedListings, minedListings, confirmed, errors, left>>
  <2>1. registry \in Seq(Listing \cup {Foreign})
    BY DEF DataInv, ChainTyped
  <2>2. \A l \in minedListings \cup confirmed :
          \E tx \in DOMAIN receipts :
            tx.listing = l /\ (tx \notin reverted => CreatedOften(l) > 0)
    <3> TAKE l \in minedListings \cup confirmed
    <3>1. PICK tx \in DOMAIN receipts : tx.listing = l
      BY DEF DataInv, Told, Receipted
    <3>2. tx \in reverted \/ Registered(l)
      BY <3>1 DEF DataInv, Books
    <3>3. CreatedOften(l) > 0 <=> Registered(l)
      BY <2>1, Created
    <3>. QED
      BY <3>1, <3>2, <3>3
  <2>3. pc \in {"data", "done"} => confirmed \cup errors = file
    BY DEF DataInv, Told
  <2>4. ASSUME pc \in {"submit", "confirm", "data", "done"}
        PROVE  /\ UNION {states[i] : i \in 1 .. 5} = file
               /\ \A i, j \in 1 .. 5 : i # j => states[i] \cap states[j] = {}
               /\ Len(confirmedListings) = Cardinality(confirmed)
    <3>o. OneState
      BY <2>4 DEF DataInv, Told
    <3>1. /\ states[1] = submittedListings /\ states[2] = minedListings
          /\ states[3] = confirmed /\ states[4] = errors /\ states[5] = left
      OBVIOUS
    <3>2. \A i \in 1 .. 5 : i = 1 \/ i = 2 \/ i = 3 \/ i = 4 \/ i = 5
      OBVIOUS
    <3>3. 1 \in 1 .. 5 /\ 2 \in 1 .. 5 /\ 3 \in 1 .. 5 /\ 4 \in 1 .. 5 /\ 5 \in 1 .. 5
      OBVIOUS
    <3>4. /\ submittedListings \cup minedListings \cup confirmed \cup errors \cup left = file
          /\ submittedListings \cap minedListings = {} /\ submittedListings \cap confirmed = {}
          /\ submittedListings \cap errors = {} /\ submittedListings \cap left = {}
          /\ minedListings \cap confirmed = {} /\ minedListings \cap errors = {}
          /\ minedListings \cap left = {}
          /\ confirmed \cap errors = {} /\ confirmed \cap left = {} /\ errors \cap left = {}
          /\ Len(confirmedListings) = Cardinality(confirmed)
      BY <3>o DEF OneState
    <3> HIDE DEF states, confirmed
    <3>5. UNION {states[i] : i \in 1 .. 5} = states[1] \cup states[2] \cup states[3]
                                               \cup states[4] \cup states[5]
      BY <3>2, <3>3
    <3>6. \A i, j \in 1 .. 5 : i # j => states[i] \cap states[j] = {}
      <4> TAKE i, j \in 1 .. 5
      <4>1. CASE i = 1
        BY <4>1, <3>1, <3>2, <3>4
      <4>2. CASE i = 2
        BY <4>2, <3>1, <3>2, <3>4
      <4>3. CASE i = 3
        BY <4>3, <3>1, <3>2, <3>4
      <4>4. CASE i = 4
        BY <4>4, <3>1, <3>2, <3>4
      <4>5. CASE i = 5
        BY <4>5, <3>1, <3>2, <3>4
      <4>. QED
        BY <4>1, <4>2, <4>3, <4>4, <4>5, <3>2
    <3>. QED
      BY <3>1, <3>4, <3>5, <3>6
  <2>. QED
    BY <2>2, <2>3, <2>4 DEF ResultsTrue
<1>. QED
  BY <1>1, DataAlways, PTL

\* When the checksums are said to match, everything in the file was created in this
\* run, unless others created listings meanwhile or the check for duplicates was blind.
THEOREM MatchIsTold == DataSpec => []MatchTells
<1>1. DataInv => MatchTells
  <2>1. CASE blind
    BY <2>1 DEF MatchTells
  <2>2. CASE ~blind
    BY <2>2 DEF DataInv, Careful
  <2>. QED
    BY <2>1, <2>2
<1>. QED
  BY <1>1, DataAlways, PTL
=============================================================================
