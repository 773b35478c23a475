-------------------------- MODULE OriginToken_proofs --------------------------
(***************************************************************************)
(* Origin Token keeps its types, its supply stays the sum of all balances, *)
(* tokens move only where pause and whitelist allow, and an expired        *)
(* whitelist stays expired, for any accounts, amounts and dates.           *)
(***************************************************************************)
EXTENDS OriginToken, NatSum_proofs

Balances == [Account -> Nat]

\* What minting adds to one account is added to the sum, and what burning takes
\* is taken from it.
LEMMA ChangedSum ==
  ASSUME NEW b \in Balances, NEW a \in Account, NEW n \in Nat
  PROVE  /\ [b EXCEPT ![a] = n] \in Balances
         /\ Total([b EXCEPT ![a] = n]) + b[a] = Total(b) + n
         /\ Total(b) \in Nat
         /\ Total([b EXCEPT ![a] = n]) \in Nat
<1> DEFINE q == [b EXCEPT ![a] = n]
<1>1. IsFiniteSet(Account)
  BY TokenAssumption
<1>2. q \in Balances /\ q[a] = n /\ \A y \in Account \ {a} : q[y] = b[y]
  BY DEF Balances
<1> HIDE DEF q
<1>3. Total(q) + b[a] = Total(b) + q[a]
  BY <1>1, <1>2, TotalUpdate DEF Balances
<1>4. Total(b) \in Nat /\ Total(q) \in Nat
  BY <1>1, <1>2, TotalType DEF Balances
<1>5. q \in Balances /\ Total(q) + b[a] = Total(b) + n /\ Total(b) \in Nat /\ Total(q) \in Nat
  BY <1>2, <1>3, <1>4
<1> QED  BY <1>5 DEF q

\* A covered move keeps every balance a natural number and the sum unchanged.
LEMMA MovedSum ==
  ASSUME NEW b \in Balances, NEW from \in Account, NEW to \in Account,
         NEW v \in Nat, v <= b[from]
  PROVE  /\ Moved(b, from, to, v) \in Balances
         /\ Total(Moved(b, from, to, v)) = Total(b)
<1> DEFINE m == b[from] - v
           p == [b EXCEPT ![from] = m]
           n == p[to] + v
           q == [p EXCEPT ![to] = n]
<1>1. b[from] \in Nat /\ m \in Nat /\ m + v = b[from]
  BY DEF Balances
<1>2. Moved(b, from, to, v) = q
  BY DEF Moved
<1> HIDE DEF m
<1>3. p \in Balances /\ Total(p) + b[from] = Total(b) + m /\ Total(b) \in Nat /\ Total(p) \in Nat
  BY <1>1, ChangedSum
<1> HIDE DEF p
<1>4. p[to] \in Nat /\ n \in Nat /\ n = p[to] + v
  BY <1>3 DEF Balances
<1> HIDE DEF n
<1>5. q \in Balances /\ Total(q) + p[to] = Total(p) + n /\ Total(q) \in Nat
  BY <1>3, <1>4, ChangedSum
<1> HIDE DEF q
<1>6. Total(q) = Total(b)
  BY <1>1, <1>3, <1>4, <1>5
<1> QED  BY <1>2, <1>5, <1>6

-----------------------------------------------------------------------------
(* The invariant, one lemma for each kind of call.                           *)

Inv == TypeOK /\ SupplyIsSum

\* Calls that move tokens: transfer, transferFrom and approveAndCallWithSender.
LEMMA MovesSound ==
  ASSUME Inv, NEW sender \in Account, NEW from \in Account, NEW to \in Account, NEW v \in Nat,
         NEW w \in Nat,
         \/ transfer(sender, to, v)
         \/ transferFrom(sender, from, to, v)
         \/ approveAndCallWithSender(sender, to, v, w)
  PROVE  Inv'
<1>1. token \in TokenState /\ now \in Nat /\ token.totalSupply = Total(token.balances)
  BY DEF Inv, TypeOK, SupplyIsSum
<1>2. token.balances \in Balances /\ token.allowed \in [Account -> [Account -> Nat]]
  BY <1>1 DEF TokenState, Balances
<1>3. CASE transfer(sender, to, v)
  <2> DEFINE b == Moved(token.balances, sender, to, v)
  <2>1. b \in Balances /\ Total(b) = Total(token.balances)
    BY <1>2, <1>3, MovedSum DEF transfer, CanMove
  <2>2. token' = [token EXCEPT !.balances = b] /\ now' = now
    BY <1>3 DEF transfer
  <2> HIDE DEF b
  <2>3. token' \in TokenState /\ token'.balances = b /\ token'.totalSupply = token.totalSupply
    BY <1>1, <2>1, <2>2 DEF TokenState, Balances
  <2> QED  BY <1>1, <2>1, <2>2, <2>3 DEF Inv, TypeOK, SupplyIsSum
<1>4. CASE transferFrom(sender, from, to, v)
  <2> DEFINE b == Moved(token.balances, from, to, v)
             al == [token.allowed EXCEPT ![from][sender] = @ - v]
  <2>1. b \in Balances /\ Total(b) = Total(token.balances)
    BY <1>2, <1>4, MovedSum DEF transferFrom, CanMove
  <2>2. al \in [Account -> [Account -> Nat]]
    BY <1>2, <1>4 DEF transferFrom
  <2>3. token' = [token EXCEPT !.balances = b, !.allowed = al] /\ now' = now
    BY <1>1, <1>4 DEF transferFrom, TokenState
  <2> HIDE DEF b, al
  <2>4. token' \in TokenState /\ token'.balances = b /\ token'.totalSupply = token.totalSupply
    BY <1>1, <2>1, <2>2, <2>3 DEF TokenState, Balances
  <2> QED  BY <1>1, <2>1, <2>3, <2>4 DEF Inv, TypeOK, SupplyIsSum
<1>5. CASE approveAndCallWithSender(sender, to, v, w)
  <2> DEFINE b == Moved(token.balances, sender, to, w)
             al == [token.allowed EXCEPT ![sender][to] = v - w]
  <2>1. w <= token.balances[sender] /\ w <= v
    BY <1>2, <1>5 DEF approveAndCallWithSender, CanMove, Balances
  <2>2. b \in Balances /\ Total(b) = Total(token.balances)
    BY <1>2, <2>1, MovedSum
  <2>3. al \in [Account -> [Account -> Nat]]
    BY <1>2, <2>1
  <2>4. token' = [token EXCEPT !.balances = b, !.allowed = al] /\ now' = now
    BY <1>1, <1>5 DEF approveAndCallWithSender, TokenState
  <2> HIDE DEF b, al
  <2>5. token' \in TokenState /\ token'.balances = b /\ token'.totalSupply = token.totalSupply
    BY <1>1, <2>2, <2>3, <2>4 DEF TokenState, Balances
  <2> QED  BY <1>1, <2>2, <2>4, <2>5 DEF Inv, TypeOK, SupplyIsSum
<1> QED  BY <1>3, <1>4, <1>5

\* Calls that only change an allowance.
LEMMA AllowancesSound ==
  ASSUME Inv, NEW holder \in Account, NEW spender \in Account, NEW v \in Nat,
         SetAllowance(holder, spender, v)
  PROVE  Inv'
<1> DEFINE al == [token.allowed EXCEPT ![holder][spender] = v]
<1>1. token \in TokenState /\ token.allowed \in [Account -> [Account -> Nat]]
  BY DEF Inv, TypeOK, TokenState
<1>2. al \in [Account -> [Account -> Nat]]
  BY <1>1
<1>3. token' = [token EXCEPT !.allowed = al] /\ now' = now
  BY <1>1 DEF SetAllowance, TokenState
<1> HIDE DEF al
<1>4. /\ token' \in TokenState
      /\ token'.balances = token.balances
      /\ token'.totalSupply = token.totalSupply
  BY <1>1, <1>2, <1>3 DEF TokenState
<1> QED  BY <1>3, <1>4 DEF Inv, TypeOK, SupplyIsSum

\* Calls that change the supply.
LEMMA SupplySound ==
  ASSUME Inv, NEW sender \in Account, NEW a \in Account, NEW v \in Nat,
         mint(sender, a, v) \/ burn(sender, a, v)
  PROVE  Inv'
<1>1. token \in TokenState /\ now \in Nat /\ token.totalSupply = Total(token.balances)
  BY DEF Inv, TypeOK, SupplyIsSum
<1>2. token.balances \in Balances /\ token.balances[a] \in Nat
  BY <1>1 DEF TokenState, Balances
<1>3. PICK n \in Nat, s \in Nat :
        /\ token' = [token EXCEPT !.balances = [token.balances EXCEPT ![a] = n], !.totalSupply = s]
        /\ now' = now
        /\ s + token.balances[a] = Total(token.balances) + n
  <2>1. CASE mint(sender, a, v)
    <3> DEFINE n == token.balances[a] + v
               s == token.totalSupply + v
    <3>1. n \in Nat /\ s \in Nat /\ s + token.balances[a] = Total(token.balances) + n
      BY <1>1, <1>2 DEF TokenState
    <3>2. token' = [token EXCEPT !.balances = [token.balances EXCEPT ![a] = n], !.totalSupply = s]
      BY <1>1, <2>1 DEF mint, TokenState
    <3> QED  BY <2>1, <3>1, <3>2 DEF mint
  <2>2. CASE burn(sender, a, v)
    <3> DEFINE n == token.balances[a] - v
               s == token.totalSupply - v
    <3>1. v <= token.balances[a]
      BY <2>2 DEF burn
    <3>2. n \in Nat
      BY <1>2, <3>1
    <3>3. token.balances[a] <= Total(token.balances)
      <4>1. /\ Total([token.balances EXCEPT ![a] = 0]) + token.balances[a] = Total(token.balances) + 0
            /\ Total(token.balances) \in Nat
            /\ Total([token.balances EXCEPT ![a] = 0]) \in Nat
        BY <1>2, ChangedSum
      <4> QED  BY <1>2, <4>1
    <3>4. s \in Nat /\ s + token.balances[a] = Total(token.balances) + n
      BY <1>1, <1>2, <3>1, <3>3 DEF TokenState
    <3>5. token' = [token EXCEPT !.balances = [token.balances EXCEPT ![a] = n], !.totalSupply = s]
      BY <1>1, <2>2 DEF burn, TokenState
    <3> QED  BY <2>2, <3>2, <3>4, <3>5 DEF burn
  <2> QED  BY <2>1, <2>2
<1> DEFINE b == [token.balances EXCEPT ![a] = n]
<1>4. /\ b \in Balances
      /\ Total(b) + token.balances[a] = Total(token.balances) + n
      /\ Total(b) \in Nat
  BY <1>2, ChangedSum
<1>5. token' = [token EXCEPT !.balances = b, !.totalSupply = s]
  BY <1>3
<1> HIDE DEF b
<1>6. token' \in TokenState /\ token'.balances = b /\ token'.totalSupply = s
  BY <1>1, <1>4, <1>5 DEF TokenState, Balances
<1>7. s = Total(b)
  BY <1>2, <1>3, <1>4
<1> QED  BY <1>1, <1>3, <1>6, <1>7 DEF Inv, TypeOK, SupplyIsSum

\* The other calls of the owner leave balances and supply alone.
LEMMA SwitchesSound ==
  ASSUME Inv, NEW sender \in Account, NEW a \in Account, NEW expiration \in Nat,
         \/ finishMinting(sender) \/ pause(sender) \/ unpause(sender)
         \/ transferOwnership(sender, a) \/ renounceOwnership(sender)
         \/ setWhitelistExpiration(sender, expiration)
         \/ addAllowedTransactor(sender, a) \/ removeAllowedTransactor(sender, a)
         \/ addCallSpenderWhitelist(sender, a) \/ removeCallSpenderWhitelist(sender, a)
  PROVE  Inv'
<1>1. token \in TokenState /\ now \in Nat
  BY DEF Inv, TypeOK
<1> DEFINE Kept == /\ token' \in TokenState
                   /\ token'.balances = token.balances
                   /\ token'.totalSupply = token.totalSupply
                   /\ now' = now
<1>2. ASSUME finishMinting(sender) PROVE Kept
  BY <1>1, <1>2 DEF TokenState, finishMinting
<1>3. ASSUME pause(sender) PROVE Kept
  BY <1>1, <1>3 DEF TokenState, pause
<1>4. ASSUME unpause(sender) PROVE Kept
  BY <1>1, <1>4 DEF TokenState, unpause
<1>5. ASSUME transferOwnership(sender, a) PROVE Kept
  BY <1>1, <1>5 DEF TokenState, transferOwnership
<1>6. ASSUME renounceOwnership(sender) PROVE Kept
  BY <1>1, <1>6 DEF TokenState, renounceOwnership
<1>7. ASSUME setWhitelistExpiration(sender, expiration) PROVE Kept
  BY <1>1, <1>7 DEF TokenState, setWhitelistExpiration
<1>8. ASSUME addAllowedTransactor(sender, a) PROVE Kept
  BY <1>1, <1>8 DEF TokenState, addAllowedTransactor
<1>9. ASSUME removeAllowedTransactor(sender, a) PROVE Kept
  BY <1>1, <1>9 DEF TokenState, removeAllowedTransactor
<1>10. ASSUME addCallSpenderWhitelist(sender, a) PROVE Kept
  BY <1>1, <1>10 DEF TokenState, addCallSpenderWhitelist
<1>11. ASSUME removeCallSpenderWhitelist(sender, a) PROVE Kept
  BY <1>1, <1>11 DEF TokenState, removeCallSpenderWhitelist
<1>12. Kept
  BY <1>2, <1>3, <1>4, <1>5, <1>6, <1>7, <1>8, <1>9, <1>10, <1>11
<1> QED  BY <1>1, <1>12 DEF Inv, TypeOK, SupplyIsSum

\* Every call preserves the invariant.
LEMMA CallsSound ==
  ASSUME Inv, NEW sender \in Account, HolderStep(sender) \/ OwnerStep(sender)
  PROVE  Inv'
<1> USE TokenAssumption
<1>1. CASE HolderStep(sender)
  <2>1. PICK v \in Amounts :
          \/ \E to \in Recipients :
               \/ transfer(sender, to, v)
               \/ \E from \in Account : transferFrom(sender, from, to, v)
          \/ \E spender \in Delegates :
               \/ approve(sender, spender, v)
               \/ increaseApproval(sender, spender, v)
               \/ decreaseApproval(sender, spender, v)
               \/ \E collected \in 0 .. v : approveAndCallWithSender(sender, spender, v, collected)
    BY <1>1 DEF HolderStep
  <2>2. v \in Nat
    OBVIOUS
  <2>3. ASSUME NEW to \in Recipients, transfer(sender, to, v)
        PROVE  Inv'
    BY <2>2, <2>3, MovesSound
  <2>4. ASSUME NEW to \in Recipients, NEW from \in Account, transferFrom(sender, from, to, v)
        PROVE  Inv'
    BY <2>2, <2>4, MovesSound
  <2>5. ASSUME NEW spender \in Delegates,
               \/ approve(sender, spender, v)
               \/ increaseApproval(sender, spender, v)
               \/ decreaseApproval(sender, spender, v)
        PROVE  Inv'
    <3>1. token.allowed[sender][spender] \in Nat
      BY DEF Inv, TypeOK, TokenState
    <3>2. PICK n \in Nat : SetAllowance(sender, spender, n)
      <4>1. CASE approve(sender, spender, v)
        BY <2>2, <4>1 DEF approve
      <4>2. CASE increaseApproval(sender, spender, v)
        <5>1. token.allowed[sender][spender] + v \in Nat
          BY <2>2, <3>1
        <5> QED  BY <4>2, <5>1 DEF increaseApproval
      <4>3. CASE decreaseApproval(sender, spender, v)
        <5> DEFINE n == IF v > token.allowed[sender][spender] THEN 0
                        ELSE token.allowed[sender][spender] - v
        <5>1. n \in Nat
          BY <2>2, <3>1
        <5>2. SetAllowance(sender, spender, n)
          BY <4>3 DEF decreaseApproval
        <5> QED  BY <5>1, <5>2
      <4> QED  BY <2>5, <4>1, <4>2, <4>3
    <3> QED  BY <3>2, AllowancesSound
  <2>6. ASSUME NEW spender \in Delegates, NEW collected \in 0 .. v,
               approveAndCallWithSender(sender, spender, v, collected)
        PROVE  Inv'
    <3>1. collected \in Nat
      BY <2>2
    <3> QED  BY <2>2, <2>6, <3>1, MovesSound
  <2> QED  BY <2>1, <2>3, <2>4, <2>5, <2>6
<1>2. CASE OwnerStep(sender)
  <2>1. ASSUME NEW a \in Recipients, NEW v \in Amounts, mint(sender, a, v) \/ burn(sender, a, v)
        PROVE  Inv'
    BY <2>1, SupplySound
  <2>2. ASSUME NEW a \in Owners, transferOwnership(sender, a)
        PROVE  Inv'
    BY <2>2, SwitchesSound
  <2>3. ASSUME finishMinting(sender) \/ pause(sender) \/ unpause(sender) \/ renounceOwnership(sender)
        PROVE  Inv'
    BY <2>3, SwitchesSound
  <2>4. ASSUME NEW expiration \in Expirations, setWhitelistExpiration(sender, expiration)
        PROVE  Inv'
    BY <2>4, SwitchesSound
  <2>5. ASSUME NEW a \in Transactors,
               addAllowedTransactor(sender, a) \/ removeAllowedTransactor(sender, a)
        PROVE  Inv'
    BY <2>5, SwitchesSound
  <2>6. ASSUME NEW a \in Spenders,
               addCallSpenderWhitelist(sender, a) \/ removeCallSpenderWhitelist(sender, a)
        PROVE  Inv'
    BY <2>6, SwitchesSound
  <2> QED  BY <1>2, <2>1, <2>2, <2>3, <2>4, <2>5, <2>6 DEF OwnerStep
<1> QED  BY <1>1, <1>2

-----------------------------------------------------------------------------
(* The theorems.                                                             *)

\* Before the first call the deployer owns all there is.
LEMMA InitSound == Init => Inv
<1> SUFFICES ASSUME Init PROVE Inv
  OBVIOUS
<1> DEFINE none == [a \in Account |-> 0]
<1>1. IsFiniteSet(Account) /\ InitialSupply \in Nat /\ Deployer \in Account /\ StartTime \in Nat
  BY TokenAssumption
<1>2. none \in Balances /\ none[Deployer] = 0 /\ Total(none) = 0
  BY <1>1, TotalZero DEF Balances
<1> DEFINE b == [none EXCEPT ![Deployer] = InitialSupply]
<1>3. b \in Balances /\ Total(b) + 0 = 0 + InitialSupply /\ Total(b) \in Nat
  BY <1>1, <1>2, ChangedSum
<1>4. b = [a \in Account |-> IF a = Deployer THEN InitialSupply ELSE 0]
  OBVIOUS
<1>5. token.balances = b /\ token.totalSupply = InitialSupply /\ now = StartTime
  BY <1>4 DEF Init, Deployed
<1>6. token \in TokenState
  BY <1>1 DEF Init, Deployed, TokenState
<1> HIDE DEF b
<1> QED  BY <1>1, <1>3, <1>5, <1>6 DEF Inv, TypeOK, SupplyIsSum

LEMMA StepSound == Inv /\ [Next]_tokenVars => Inv'
<1> SUFFICES ASSUME Inv, [Next]_tokenVars PROVE Inv'
  OBVIOUS
<1>1. ASSUME NEW sender \in Account, HolderStep(sender) \/ OwnerStep(sender)
      PROVE  Inv'
  BY <1>1, CallsSound
<1>2. CASE Tick
  <2>1. now' \in Nat
    BY <1>2 DEF Inv, TypeOK, Tick
  <2> QED  BY <1>2, <2>1 DEF Tick, Inv, TypeOK, SupplyIsSum
<1>3. CASE UNCHANGED tokenVars
  BY <1>3 DEF tokenVars, Inv, TypeOK, SupplyIsSum
<1> QED  BY <1>1, <1>2, <1>3 DEF Next

\* Whatever is called in whatever order, the supply is the sum of what the
\* accounts own, and no balance, allowance or supply goes below zero.
THEOREM Sound == Spec => [](TypeOK /\ SupplyIsSum)
<1>1. Inv => TypeOK /\ SupplyIsSum
  BY DEF Inv
<1> QED  BY <1>1, InitSound, StepSound, PTL DEF Spec

THEOREM SupplyIsTheSum == Spec => []SupplyIsSum
<1> QED  BY Sound, PTL

\* No call but setWhitelistExpiration changes the date.
LEMMA DateKept ==
  ASSUME TypeOK, [Next]_tokenVars
  PROVE  \/ now' = now /\ token'.whitelistExpiration = token.whitelistExpiration
         \/ Tick
         \/ \E sender \in Account, expiration \in Expirations :
              setWhitelistExpiration(sender, expiration)
<1> DEFINE Kept == now' = now /\ token'.whitelistExpiration = token.whitelistExpiration
<1>1. token \in TokenState
  BY DEF TypeOK
<1>2. ASSUME NEW sender \in Account, HolderStep(sender)
      PROVE  Kept
  BY <1>1, <1>2 DEF TokenState, HolderStep, transfer, transferFrom, approve, increaseApproval,
     decreaseApproval, SetAllowance, approveAndCallWithSender
<1>3. ASSUME NEW sender \in Account, OwnerStep(sender)
      PROVE  Kept \/ \E expiration \in Expirations : setWhitelistExpiration(sender, expiration)
  BY <1>1, <1>3 DEF TokenState, OwnerStep, mint, burn, transferOwnership, finishMinting, pause,
     unpause, renounceOwnership, addAllowedTransactor, removeAllowedTransactor,
     addCallSpenderWhitelist, removeCallSpenderWhitelist
<1>4. CASE UNCHANGED tokenVars
  BY <1>4 DEF tokenVars
<1> QED  BY <1>2, <1>3, <1>4 DEF Next

\* An expired whitelist stays expired.
THEOREM WhitelistStaysExpired == Spec => WhitelistEnds
<1>1. ASSUME TypeOK, Expired, [Next]_tokenVars
      PROVE  Expired'
  <2>1. token.whitelistExpiration \in Nat /\ now \in Nat
    BY <1>1 DEF TypeOK, TokenState
  <2>2. ~whitelistActive /\ token.whitelistExpiration # 0 /\ ~(now < token.whitelistExpiration)
    BY <1>1 DEF Expired, whitelistActive
  <2>3. CASE now' = now /\ token'.whitelistExpiration = token.whitelistExpiration
    BY <2>2, <2>3 DEF Expired, whitelistActive
  <2>4. CASE Tick
    BY <2>1, <2>2, <2>4 DEF Tick, Expired, whitelistActive
  <2>5. ~\E sender \in Account, expiration \in Expirations :
           setWhitelistExpiration(sender, expiration)
    BY <2>2 DEF setWhitelistExpiration
  <2> QED  BY <1>1, <2>3, <2>4, <2>5, DateKept
<1>2. TypeOK /\ [Next]_tokenVars => [Expired => Expired']_tokenVars
  BY <1>1
<1> QED  BY <1>2, Sound, PTL DEF Spec, WhitelistEnds

\* A move takes from one account only and gives to one only.
LEMMA MovedBetween ==
  ASSUME NEW b \in Balances, NEW from \in Account, NEW to \in Account, NEW v \in Nat,
         NEW y \in Account
  PROVE  /\ Moved(b, from, to, v)[y] < b[y] => y = from
         /\ Moved(b, from, to, v)[y] > b[y] => y = to
<1> DEFINE p == [b EXCEPT ![from] = @ - v]
<1>1. b[y] \in Nat /\ b[from] \in Nat /\ b[to] \in Nat
  BY DEF Balances
<1>2. p \in [Account -> Int] /\ p[y] = IF y = from THEN b[from] - v ELSE b[y]
  BY <1>1 DEF Balances
<1>3. Moved(b, from, to, v) = [p EXCEPT ![to] = @ + v]
  BY DEF Moved
<1> HIDE DEF p
<1>4. Moved(b, from, to, v)[y] = IF y = to THEN p[y] + v ELSE p[y]
  BY <1>2, <1>3
<1> QED  BY <1>1, <1>2, <1>4

\* Only a holder's call moves tokens while the supply stays the same, and it is
\* refused while transfers are paused or the whitelist names neither side.
LEMMA CallsGated ==
  ASSUME TypeOK, [Next]_tokenVars, token'.totalSupply = token.totalSupply,
         NEW x \in Account, NEW y \in Account,
         token'.balances[x] < token.balances[x], token'.balances[y] > token.balances[y]
  PROVE  ~token.paused /\ AllowedTransfer(x, y)
<1> USE TokenAssumption
<1> DEFINE Gated == ~token.paused /\ AllowedTransfer(x, y)
<1>1. token \in TokenState /\ token.balances \in Balances
  BY DEF TypeOK, TokenState, Balances
<1>2. token.balances[x] \in Nat /\ token.balances[y] \in Nat /\ token.totalSupply \in Nat
  BY <1>1 DEF TokenState, Balances
<1>3. ~(token'.balances[x] = token.balances[x])
  BY <1>2
<1>4. ASSUME NEW from \in Account, NEW to \in Account, NEW v \in Nat, CanMove(from, to, v),
             token'.balances = Moved(token.balances, from, to, v)
      PROVE  Gated
  <2>1. x = from /\ y = to
    BY <1>1, <1>4, MovedBetween
  <2> QED  BY <1>4, <2>1 DEF CanMove
<1>5. ASSUME NEW sender \in Account, NEW v \in Amounts, NEW to \in Account, transfer(sender, to, v)
      PROVE  Gated
  <2>1. token'.balances = Moved(token.balances, sender, to, v)
    BY <1>1, <1>5 DEF transfer, TokenState
  <2>2. v \in Nat /\ CanMove(sender, to, v)
    BY <1>5 DEF transfer
  <2> QED  BY <1>4, <2>1, <2>2
<1>6. ASSUME NEW sender \in Account, NEW v \in Amounts, NEW to \in Account, NEW from \in Account,
             transferFrom(sender, from, to, v)
      PROVE  Gated
  <2>1. token'.balances = Moved(token.balances, from, to, v)
    BY <1>1, <1>6 DEF transferFrom, TokenState
  <2>2. v \in Nat /\ CanMove(from, to, v)
    BY <1>6 DEF transferFrom
  <2> QED  BY <1>4, <2>1, <2>2
<1>7. ASSUME NEW sender \in Account, NEW v \in Amounts, NEW spender \in Account, NEW w \in 0 .. v,
             approveAndCallWithSender(sender, spender, v, w)
      PROVE  Gated
  <2>1. token'.balances = Moved(token.balances, sender, spender, w)
    BY <1>1, <1>7 DEF approveAndCallWithSender, TokenState
  <2>2. w \in Nat
    OBVIOUS
  <2>3. w # 0
    <3> SUFFICES ASSUME w = 0 PROVE FALSE
      OBVIOUS
    <3>1. token'.balances[x] = token.balances[x]
      BY <1>1, <1>2, <2>1 DEF Moved, Balances
    <3> QED  BY <1>3, <3>1
  <2>4. CanMove(sender, spender, w)
    BY <1>7, <2>2, <2>3 DEF approveAndCallWithSender
  <2> QED  BY <1>4, <2>1, <2>2, <2>4
<1>8. ASSUME NEW sender \in Account, HolderStep(sender)
      PROVE  Gated
  <2>1. ASSUME NEW spender \in Delegates, NEW v \in Amounts,
               \/ approve(sender, spender, v)
               \/ increaseApproval(sender, spender, v)
               \/ decreaseApproval(sender, spender, v)
        PROVE  Gated
    <3>1. token'.balances = token.balances
      BY <1>1, <2>1 DEF approve, increaseApproval, decreaseApproval, SetAllowance, TokenState
    <3> QED  BY <1>3, <3>1
  <2> QED  BY <1>5, <1>6, <1>7, <1>8, <2>1 DEF HolderStep
<1>9. ASSUME NEW sender \in Account, OwnerStep(sender)
      PROVE  FALSE
  <2>1. ASSUME NEW a \in Recipients, NEW v \in Amounts, mint(sender, a, v) \/ burn(sender, a, v)
        PROVE  FALSE
    <3>1. v \in Nat /\ a \in Account
      OBVIOUS
    <3>2. CASE mint(sender, a, v)
      <4>1. /\ token'.balances = [token.balances EXCEPT ![a] = @ + v]
            /\ token'.totalSupply = token.totalSupply + v
        BY <1>1, <3>2 DEF mint, TokenState
      <4>2. v = 0
        BY <1>2, <3>1, <4>1
      <4>3. token'.balances[x] = token.balances[x]
        BY <1>1, <1>2, <3>1, <4>1, <4>2 DEF Balances
      <4> QED  BY <1>3, <4>3
    <3>3. CASE burn(sender, a, v)
      <4>1. /\ token'.balances = [token.balances EXCEPT ![a] = @ - v]
            /\ token'.totalSupply = token.totalSupply - v
        BY <1>1, <3>3 DEF burn, TokenState
      <4>2. v = 0
        BY <1>2, <3>1, <4>1
      <4>3. token'.balances[x] = token.balances[x]
        BY <1>1, <1>2, <3>1, <4>1, <4>2 DEF Balances
      <4> QED  BY <1>3, <4>3
    <3> QED  BY <2>1, <3>2, <3>3
  <2>2. ASSUME token'.balances = token.balances
        PROVE  FALSE
    BY <1>3, <2>2
  <2> QED  BY <1>1, <1>9, <2>1, <2>2 DEF TokenState, OwnerStep, transferOwnership, finishMinting,
           pause, unpause, renounceOwnership, setWhitelistExpiration, addAllowedTransactor,
           removeAllowedTransactor, addCallSpenderWhitelist, removeCallSpenderWhitelist
<1>10. ~Tick /\ ~UNCHANGED tokenVars
  BY <1>3 DEF Tick, tokenVars
<1> QED  BY <1>8, <1>9, <1>10 DEF Next

\* Tokens change hands only as pause and whitelist allow.
THEOREM TransfersAreGated == Spec => TransfersGated
<1> DEFINE A == token'.totalSupply = token.totalSupply =>
                  \A from, to \in Account :
                    /\ token'.balances[from] < token.balances[from]
                    /\ token'.balances[to] > token.balances[to]
                    => /\ ~token.paused
                       /\ AllowedTransfer(from, to)
<1>1. TypeOK /\ [Next]_tokenVars => [A]_tokenVars
  BY CallsGated
<1>2. Spec => [][A]_tokenVars
  <2> HIDE DEF A
  <2> QED  BY <1>1, Sound, PTL DEF Spec
<1> QED  BY <1>2 DEF TransfersGated
=============================================================================
