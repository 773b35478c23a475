----------------------------- MODULE OriginToken -----------------------------
(***************************************************************************)
(* Origin Token: an ERC20 that its owner mints, burns and pauses, that     *)
(* until a date only moves from or to whitelisted accounts, and that lets  *)
(* a holder approve a whitelisted contract and call it in one transaction. *)
(* Each action is one successful call; a call that reverts is a stuttering *)
(* step.  The library contracts it inherits from (OpenZeppelin 1.10) are   *)
(* modelled as far as they touch the same state.                           *)
(***************************************************************************)
EXTENDS NatSum

CONSTANTS
  Account,       \* wallets and contracts, the token's own address among them
  NullAddr,      \* 0x0, the owner after the ownership was given up
  This,          \* the token's own address
  Deployer,
  InitialSupply,
  Amounts,       \* amounts callers try
  Recipients,    \* accounts that callers send to
  Delegates,     \* accounts that callers approve
  Owners,        \* accounts the ownership is given to
  Transactors,   \* accounts the owner adds to and removes from the whitelist
  Spenders,      \* contracts the owner lets be called with an approval
  Expirations,   \* dates the owner sets for the end of the whitelist
  Day,           \* one day in units of the clock
  MaxSupply,     \* bound on minting
  StartTime,     \* block time at deployment
  MaxTime        \* bound on the clock

ASSUME TokenAssumption ==
  /\ IsFiniteSet(Account) /\ NullAddr \notin Account
  /\ This \in Account
  /\ Deployer \in Account
  /\ InitialSupply \in Nat
  /\ Amounts \subseteq Nat
  /\ Recipients \cup Delegates \cup Owners \subseteq Account
  /\ Transactors \subseteq Account
  /\ Spenders \subseteq Account
  /\ Expirations \subseteq Nat
  /\ Day \in Nat \ {0}
  /\ MaxSupply \in Nat
  /\ StartTime \in Nat
  /\ MaxTime \in Nat

VARIABLES
  token, \* the contract's storage
  now    \* block time

tokenVars == <<token, now>>

TokenState ==
  [balances : [Account -> Nat],
   allowed : [Account -> [Account -> Nat]],
   totalSupply : Nat,
   owner : Account \cup {NullAddr},
   paused : BOOLEAN,
   mintingFinished : BOOLEAN,
   whitelistExpiration : Nat,
   allowedTransactors : SUBSET Account,
   callSpenderWhitelist : SUBSET Account]

TypeOK == token \in TokenState /\ now \in Nat

Deployed ==
  [balances |-> [a \in Account |-> IF a = Deployer THEN InitialSupply ELSE 0],
   allowed |-> [a \in Account |-> [s \in Account |-> 0]],
   totalSupply |-> InitialSupply,
   owner |-> Deployer,
   paused |-> FALSE,
   mintingFinished |-> FALSE,
   whitelistExpiration |-> 0,
   allowedTransactors |-> {},
   callSpenderWhitelist |-> {}]

Init == token = Deployed /\ now = StartTime

-----------------------------------------------------------------------------
(* Moving tokens.                                                            *)

Moved(b, from, to, v) ==
  LET taken == [b EXCEPT ![from] = @ - v] IN [taken EXCEPT ![to] = @ + v]

whitelistActive == now < token.whitelistExpiration

AllowedTransfer(from, to) ==
  whitelistActive => from \in token.allowedTransactors \/ to \in token.allowedTransactors

CanMove(from, to, v) ==
  /\ ~token.paused
  /\ AllowedTransfer(from, to)
  /\ v <= token.balances[from]

transfer(sender, to, v) ==
  /\ CanMove(sender, to, v)
  /\ token' = [token EXCEPT !.balances = Moved(@, sender, to, v)]
  /\ UNCHANGED now

\* Fault: the whitelist is asked about the caller, not about the holder.
transferFrom_caller(sender, from, to, v) ==
  /\ ~token.paused
  /\ AllowedTransfer(sender, to)
  /\ v <= token.balances[from]
  /\ v <= token.allowed[from][sender]
  /\ token' = [token EXCEPT !.balances = Moved(@, from, to, v),
                            !.allowed[from][sender] = @ - v]
  /\ UNCHANGED now

transferFrom(sender, from, to, v) ==
  /\ CanMove(from, to, v)
  /\ v <= token.allowed[from][sender]
  /\ token' = [token EXCEPT !.balances = Moved(@, from, to, v),
                            !.allowed[from][sender] = @ - v]
  /\ UNCHANGED now

SetAllowance(holder, spender, v) ==
  /\ ~token.paused
  /\ token' = [token EXCEPT !.allowed[holder][spender] = v]
  /\ UNCHANGED now

approve(sender, spender, v) == SetAllowance(sender, spender, v)

increaseApproval(sender, spender, v) ==
  /\ token.allowed[sender][spender] + v <= MaxSupply
  /\ SetAllowance(sender, spender, token.allowed[sender][spender] + v)

decreaseApproval(sender, spender, v) ==
  LET current == token.allowed[sender][spender] IN
  SetAllowance(sender, spender, IF v > current THEN 0 ELSE current - v)

\* The contract that is called collects some of what it was approved for, as
\* the marketplace collects a deposit, or the whole transaction reverts.
approveAndCallWithSender(sender, spender, v, collected) ==
  /\ spender # This
  /\ spender \in token.callSpenderWhitelist
  /\ ~token.paused
  /\ collected <= v
  /\ collected > 0 => CanMove(sender, spender, collected)
  /\ token' = [token EXCEPT !.balances = Moved(@, sender, spender, collected),
                            !.allowed[sender][spender] = v - collected]
  /\ UNCHANGED now

-----------------------------------------------------------------------------
(* The owner's calls.                                                        *)

mint(sender, to, v) ==
  /\ sender = token.owner
  /\ ~token.mintingFinished
  /\ token.totalSupply + v <= MaxSupply
  /\ token' = [token EXCEPT !.balances[to] = @ + v, !.totalSupply = @ + v]
  /\ UNCHANGED now

finishMinting(sender) ==
  /\ sender = token.owner
  /\ ~token.mintingFinished
  /\ token' = [token EXCEPT !.mintingFinished = TRUE]
  /\ UNCHANGED now

\* Fault: the total still counts what was burned.
burn_uncounted(sender, who, v) ==
  /\ sender = token.owner
  /\ v <= token.balances[who]
  /\ token' = [token EXCEPT !.balances[who] = @ - v]
  /\ UNCHANGED now

\* burn(_value) burns the owner's own.
burn(sender, who, v) ==
  /\ sender = token.owner
  /\ v <= token.balances[who]
  /\ token' = [token EXCEPT !.balances[who] = @ - v, !.totalSupply = @ - v]
  /\ UNCHANGED now

pause(sender) ==
  /\ sender = token.owner
  /\ ~token.paused
  /\ token' = [token EXCEPT !.paused = TRUE]
  /\ UNCHANGED now

unpause(sender) ==
  /\ sender = token.owner
  /\ token.paused
  /\ token' = [token EXCEPT !.paused = FALSE]
  /\ UNCHANGED now

transferOwnership(sender, newOwner) ==
  /\ sender = token.owner
  /\ token' = [token EXCEPT !.owner = newOwner]
  /\ UNCHANGED now

renounceOwnership(sender) ==
  /\ sender = token.owner
  /\ token' = [token EXCEPT !.owner = NullAddr]
  /\ UNCHANGED now

\* Fault: an expired whitelist can be given a new date.
setWhitelistExpiration_again(sender, expiration) ==
  /\ sender = token.owner
  /\ expiration >= now + Day
  /\ token' = [token EXCEPT !.whitelistExpiration = expiration]
  /\ UNCHANGED now

setWhitelistExpiration(sender, expiration) ==
  /\ sender = token.owner
  /\ token.whitelistExpiration = 0 \/ whitelistActive
  /\ expiration >= now + Day
  /\ token' = [token EXCEPT !.whitelistExpiration = expiration]
  /\ UNCHANGED now

addAllowedTransactor(sender, a) ==
  /\ sender = token.owner
  /\ token' = [token EXCEPT !.allowedTransactors = @ \cup {a}]
  /\ UNCHANGED now

removeAllowedTransactor(sender, a) ==
  /\ sender = token.owner
  /\ token' = [token EXCEPT !.allowedTransactors = @ \ {a}]
  /\ UNCHANGED now

addCallSpenderWhitelist(sender, a) ==
  /\ sender = token.owner
  /\ token' = [token EXCEPT !.callSpenderWhitelist = @ \cup {a}]
  /\ UNCHANGED now

removeCallSpenderWhitelist(sender, a) ==
  /\ sender = token.owner
  /\ token' = [token EXCEPT !.callSpenderWhitelist = @ \ {a}]
  /\ UNCHANGED now

-----------------------------------------------------------------------------

HolderStep(sender) ==
  \E v \in Amounts :
    \/ \E to \in Recipients :
         \/ transfer(sender, to, v)
         \/ \E from \in Account : transferFrom(sender, from, to, v)
    \/ \E spender \in Delegates :
         \/ approve(sender, spender, v)
         \/ increaseApproval(sender, spender, v)
         \/ decreaseApproval(sender, spender, v)
         \/ \E collected \in 0 .. v : approveAndCallWithSender(sender, spender, v, collected)

OwnerStep(sender) ==
  \/ \E a \in Recipients, v \in Amounts : mint(sender, a, v) \/ burn(sender, a, v)
  \/ \E a \in Owners : transferOwnership(sender, a)
  \/ finishMinting(sender)
  \/ pause(sender)
  \/ unpause(sender)
  \/ renounceOwnership(sender)
  \/ \E expiration \in Expirations : setWhitelistExpiration(sender, expiration)
  \/ \E a \in Transactors : addAllowedTransactor(sender, a) \/ removeAllowedTransactor(sender, a)
  \/ \E a \in Spenders : addCallSpenderWhitelist(sender, a) \/ removeCallSpenderWhitelist(sender, a)

Tick ==
  /\ now < MaxTime
  /\ now' = now + 1
  /\ UNCHANGED token

\* The token contract makes no calls to itself.
Next == (\E sender \in Account \ {This} : HolderStep(sender) \/ OwnerStep(sender)) \/ Tick

Spec == Init /\ [][Next]_tokenVars

-----------------------------------------------------------------------------
(* Properties.                                                               *)

\* Every token that was minted and not burned is somebody's: no sequence of
\* transfers, calls with an approval, mints and burns creates or loses one.
SupplyIsSum == token.totalSupply = Total(token.balances)

\* Tokens change hands only while transfers are not paused, and until the
\* whitelist expires only from or to an account on it.  This is so on every way
\* tokens can move, the one inside a call with an approval included; only the
\* owner's mint and burn are exempt, and they change the supply.
TransfersGated ==
  [][ token'.totalSupply = token.totalSupply =>
        \A from, to \in Account :
          /\ token'.balances[from] < token.balances[from]
          /\ token'.balances[to] > token.balances[to]
          => /\ ~token.paused
             /\ AllowedTransfer(from, to) ]_tokenVars

\* WhitelistedPausableToken: "Once the whitelist expiration passes, it becomes
\* impossible to re-enable the whitelist."
Expired == token.whitelistExpiration # 0 /\ ~whitelistActive

WhitelistEnds == [][Expired => Expired']_tokenVars
=============================================================================
