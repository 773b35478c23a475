---------------------------- MODULE TokenMigration ----------------------------
(***************************************************************************)
(* Moving all balances from one Origin Token contract to another: the      *)
(* migration contract owns the new token and mints, account by account,    *)
(* what each holder had in the old one.  The administrator drives it,      *)
(* while the old token's owner and holders, and those who were migrated    *)
(* already, can do all that the two tokens allow.                          *)
(***************************************************************************)
EXTENDS NatSum

CONSTANTS
  Account,       \* holders, owners and contracts
  NullAddr,
  FromAddr,      \* the old token contract
  ToAddr,        \* the new token contract
  Migration,     \* the migration contract
  Admin,         \* owner of the migration contract, deployer of both tokens
  InitialSupply, \* of the old token; the new one starts empty
  Amounts,
  Recipients,
  Delegates,     \* of the old token
  Owners,        \* of the new token
  Transactors,
  Spenders,
  Expirations,
  Day,
  MaxSupply,
  StartTime,
  MaxTime

ASSUME MigrationAssumption ==
  /\ IsFiniteSet(Account) /\ NullAddr \notin Account
  /\ {FromAddr, ToAddr, Migration} \subseteq Account
  /\ Admin \in Account \ {Migration}
  /\ Recipients \cup Delegates \cup Owners \cup Transactors \cup Spenders \subseteq Account
  /\ Amounts \cup Expirations \subseteq Nat
  /\ {InitialSupply, MaxSupply, StartTime, MaxTime} \subseteq Nat
  /\ Day \in Nat \ {0}

VARIABLES
  fromToken,
  toToken,
  now,
  migrated,   \* accounts whose balance was migrated
  finished,
  undisturbed \* history: whether only the migration has changed a balance
              \* since it began

vars == <<fromToken, toToken, now, migrated, finished, undisturbed>>

From == INSTANCE OriginToken WITH
  token <- fromToken, This <- FromAddr, Deployer <- Admin, Owners <- {}

To == INSTANCE OriginToken WITH
  token <- toToken, This <- ToAddr, Deployer <- Admin, InitialSupply <- 0,
  Delegates <- {}, Transactors <- {}, Spenders <- {}, Expirations <- {}

TypeOK ==
  /\ From!TypeOK
  /\ To!TypeOK
  /\ migrated \subseteq Account
  /\ finished \in BOOLEAN
  /\ undisturbed \in BOOLEAN

Init ==
  /\ From!Init
  /\ To!Init
  /\ migrated = {}
  /\ finished = FALSE
  /\ undisturbed = TRUE

-----------------------------------------------------------------------------

Holding(H) == {h \in H : fromToken.balances[h] > 0}

Minted(H) == Total([h \in Holding(H) |-> fromToken.balances[h]])

\* Fault: an account that is listed again is migrated again.
migrateAccounts_again(sender, H) ==
  /\ sender = Admin
  /\ ~finished
  /\ Holding(H) # {} => toToken.owner = Migration /\ ~toToken.mintingFinished
  /\ toToken' = [toToken EXCEPT
       !.balances = [a \in Account |->
          IF a \in Holding(H) THEN @[a] + fromToken.balances[a] ELSE @[a]],
       !.totalSupply = @ + Minted(H)]
  /\ migrated' = migrated \cup Holding(H)
  /\ UNCHANGED <<fromToken, now, finished, undisturbed>>

\* All of the accounts in one transaction; migrateAccount is the same for one.
\* An account that is listed twice either had nothing or makes the call fail.
migrateAccounts(sender, H) ==
  /\ sender = Admin
  /\ ~finished
  /\ H \cap migrated = {}
  /\ Holding(H) # {} => toToken.owner = Migration /\ ~toToken.mintingFinished
  /\ toToken' = [toToken EXCEPT
       !.balances = [a \in Account |->
          IF a \in Holding(H) THEN @[a] + fromToken.balances[a] ELSE @[a]],
       !.totalSupply = @ + Minted(H)]
  /\ migrated' = migrated \cup Holding(H)
  /\ UNCHANGED <<fromToken, now, finished, undisturbed>>

\* Fault: whether everything was migrated is not checked.
finish_unchecked(sender, newTokenOwner) ==
  /\ sender = Admin
  /\ ~finished
  /\ newTokenOwner # Migration
  /\ toToken.owner = Migration
  /\ finished' = TRUE
  /\ toToken' = [toToken EXCEPT !.owner = newTokenOwner]
  /\ UNCHANGED <<fromToken, now, migrated, undisturbed>>

finish(sender, newTokenOwner) ==
  /\ sender = Admin
  /\ ~finished
  /\ fromToken.totalSupply = toToken.totalSupply
  /\ newTokenOwner # Migration
  /\ toToken.owner = Migration
  /\ finished' = TRUE
  /\ toToken' = [toToken EXCEPT !.owner = newTokenOwner]
  /\ UNCHANGED <<fromToken, now, migrated, undisturbed>>

\* The two tokens' own calls.  The migration contract makes none but the above.
FromStep(sender) ==
  /\ From!HolderStep(sender) \/ From!OwnerStep(sender)
  /\ undisturbed' = (undisturbed /\ (migrated = {} \/ fromToken'.balances = fromToken.balances))
  /\ UNCHANGED <<toToken, migrated, finished>>

ToStep(sender) ==
  /\ To!HolderStep(sender) \/ To!OwnerStep(sender)
  /\ undisturbed' = (undisturbed /\ toToken'.balances = toToken.balances)
  /\ UNCHANGED <<fromToken, migrated, finished>>

Tick ==
  /\ From!Tick
  /\ UNCHANGED <<toToken, migrated, finished, undisturbed>>

Next ==
  \/ \E sender \in Account \ {FromAddr, ToAddr, Migration} :
       \/ FromStep(sender)
       \/ ToStep(sender)
       \/ \E H \in SUBSET Account : migrateAccounts(sender, H)
       \/ \E newTokenOwner \in Account : finish(sender, newTokenOwner)
  \/ Tick

Spec == Init /\ [][Next]_vars

-----------------------------------------------------------------------------
(* Properties.                                                               *)

\* As long as only the migration changes balances, the equality of the two
\* totals that finish asks for holds exactly when no holder was left out, in
\* whatever batches and order the accounts were migrated.
TotalsTellAll ==
  undisturbed =>
    ( fromToken.totalSupply = toToken.totalSupply <=> Holding(Account) \subseteq migrated )

\* TokenMigration: "Migrates all balances from one token contract to another."
\* When an undisturbed migration finishes, everyone has as much of the new token
\* as of the old one.
FinishIsComplete ==
  [][ finished' /\ ~finished /\ undisturbed => toToken.balances = fromToken.balances ]_vars
=============================================================================
