--------------------------------- MODULE Users ---------------------------------
(***************************************************************************)
(* Profiles and attestations of one wallet.  The client's set deploys an   *)
(* identity contract or adds claims to the one that is registered, after   *)
(* it has read which attestations are there already; each of its requests  *)
(* is a step, and calls may overlap.  A call fails when a request does,    *)
(* when the wallet refuses the transaction, when that reverts, or when it  *)
(* is not mined in time, and then it may be mined later.  The attestation  *)
(* server signs for the identity that is registered, or for the address    *)
(* that one deployed by the wallet's next transaction would get.           *)
(*                                                                         *)
(* An identity is represented by the number of the transaction that        *)
(* deployed it, which together with the wallet determines its address.     *)
(***************************************************************************)
EXTENDS Naturals, Sequences, FiniteSets, SequencesExt

CONSTANTS
  Profile,
  NoProfile,
  ClaimTopic,    \* what can be attested
  Data,
  Caller,        \* concurrent calls of set
  NoIdentity,    \* the registry's answer for an unknown wallet
  MaxTx,         \* bound on the wallet's transactions
  MaxIssued,     \* bound on the attestations issued
  MaxGiven       \* bound on the attestations given to one call

ASSUME UsersAssumption ==
  /\ NoProfile \notin Profile
  /\ MaxTx \in Nat /\ MaxIssued \in Nat /\ MaxGiven \in Nat
  /\ NoIdentity \notin Nat /\ "wallet" \notin Caller

Identity == 0 .. MaxTx - 1

\* A signature covers the identity, the topic and the data.
Attestation == [topic : ClaimTopic, data : Data, identity : Identity]
SelfClaim   == [profile : Profile]
Claim       == Attestation \cup SelfClaim

IsProfile(claim) == "profile" \in DOMAIN claim

\* The last profile in a list of claims.
LastProfile(claims) ==
  LET at == {i \in DOMAIN claims : IsProfile(claims[i])} IN
  IF at = {} THEN NoProfile ELSE claims[Max(at)].profile

VARIABLES
  mined,    \* how many of the wallet's transactions were mined
  pool,     \* those sent and not yet mined, in the order of their nonces
  registry, \* V00_UserRegistry's entry for the wallet
  events,   \* the ClaimAdded events of each identity
  issued,   \* attestations the server has answered with
  call,     \* the calls of set
  given,      \* history: attestations of completed calls, and of those that failed too early
  profile,    \* history: the last profile of these
  overlapped, \* history: whether a call began while one was in progress or a deployment pending
  replaced,   \* history: whether an identity replaced a registered one
  astray      \* history: whether claims reached an identity that was not registered

chain     == <<mined, pool, registry, events>>
history   == <<given, profile, overlapped, replaced, astray>>
usersVars == <<chain, issued, call, history>>

Idle == [pc |-> "idle", claims |-> <<>>, identity |-> NoIdentity, new |-> <<>>]

Transaction == [kind : {"deploy", "addClaims", "clearUser", "other"}, claims : Seq(Claim),
                identity : Identity \cup {NoIdentity}, by : Caller \cup {"wallet"}]

UsersTypeOK ==
  /\ mined \in 0 .. MaxTx
  /\ pool \in Seq(Transaction) /\ mined + Len(pool) <= MaxTx
  /\ registry \in Identity \cup {NoIdentity}
  /\ events \in [Identity -> Seq(Claim)]
  /\ issued \subseteq Attestation
  /\ call \in [Caller -> [pc : {"idle", "known", "claims", "again", "submit", "sent"},
                          claims : Seq(Claim), identity : Identity \cup {NoIdentity},
                          new : Seq(Claim)]]
  /\ given \subseteq Attestation
  /\ profile \in Profile \cup {NoProfile}
  /\ overlapped \in BOOLEAN /\ replaced \in BOOLEAN /\ astray \in BOOLEAN

UsersInit ==
  /\ mined = 0 /\ pool = <<>>
  /\ registry = NoIdentity
  /\ events = [i \in Identity |-> <<>>]
  /\ issued = {}
  /\ call = [c \in Caller |-> Idle]
  /\ given = {} /\ profile = NoProfile
  /\ overlapped = FALSE /\ replaced = FALSE /\ astray = FALSE

-----------------------------------------------------------------------------
(* The chain.                                                                *)

Send(kind, claims, identity, by) ==
  /\ mined + Len(pool) < MaxTx
  /\ pool' = Append(pool, [kind |-> kind, claims |-> claims, identity |-> identity, by |-> by])

\* The wallet clears its registration, or does anything else.
WalletSends ==
  /\ \E kind \in {"clearUser", "other"} : Send(kind, <<>>, NoIdentity, "wallet")
  /\ UNCHANGED <<mined, registry, events, issued, call, history>>

\* What has been set, whether a call waits for it or no longer does.
Complete(claims) ==
  /\ given' = given \cup {claims[i] : i \in {j \in DOMAIN claims : ~IsProfile(claims[j])}}
  /\ profile' = IF LastProfile(claims) = NoProfile THEN profile ELSE LastProfile(claims)

\* The call that waits for a transaction ends with it.
Returned(tx) == call' = IF tx.by \in Caller THEN [call EXCEPT ![tx.by] = Idle] ELSE call

\* The identity registers itself while it is deployed, whatever was registered.
Mine ==
  /\ pool # <<>>
  /\ LET tx == Head(pool) IN
     /\ registry' = CASE tx.kind = "deploy" -> mined
                      [] tx.kind = "clearUser" -> NoIdentity
                      [] OTHER -> registry
     /\ events' = CASE tx.kind = "deploy" -> [events EXCEPT ![mined] = tx.claims]
                    [] tx.kind = "addClaims" -> [events EXCEPT ![tx.identity] = @ \o tx.claims]
                    [] OTHER -> events
     /\ replaced' = (replaced \/ (tx.kind = "deploy" /\ registry # NoIdentity))
     /\ astray' = (astray \/ (tx.kind = "addClaims" /\ registry # tx.identity))
     /\ Returned(tx)
     /\ IF tx.kind = "clearUser"
        THEN profile' = NoProfile /\ UNCHANGED given
        ELSE Complete(IF tx.by \in Caller THEN call[tx.by].claims ELSE tx.claims)
  /\ pool' = Tail(pool)
  /\ mined' = mined + 1
  /\ UNCHANGED <<issued, overlapped>>

\* The transaction is mined and fails, as when its gas does not suffice.
Revert ==
  /\ pool # <<>>
  /\ Returned(Head(pool))
  /\ pool' = Tail(pool)
  /\ mined' = mined + 1
  /\ UNCHANGED <<registry, events, issued, history>>

-----------------------------------------------------------------------------
(* Verification with the attestation server, which signs for the identity    *)
(* that is registered or else for the one the next transaction would deploy. *)

predictIdentityAddress == mined

getIdentityAddress == IF registry = NoIdentity THEN predictIdentityAddress ELSE registry

\* The server's answer to a request for an identity.
Signed(topic, data, identity) == [topic |-> topic, data |-> data, identity |-> identity]

Verify(topic, data) ==
  /\ getIdentityAddress \in Identity
  /\ issued' = issued \cup {Signed(topic, data, getIdentityAddress)}
  /\ Cardinality(issued') <= MaxIssued
  /\ UNCHANGED <<chain, call, history>>

-----------------------------------------------------------------------------
(* set.                                                                      *)

\* The profile goes after the attestations.
set(c, newProfile, attestations) ==
  /\ call[c].pc = "idle"
  /\ overlapped' = \/ overlapped
                   \/ \E d \in Caller \ {c} : call[d].pc # "idle"
                   \/ \E i \in DOMAIN pool : pool[i].kind = "deploy"
  /\ call' = [call EXCEPT ![c] =
       [Idle EXCEPT !.pc = "known",
                    !.claims = SetToSeq(attestations)
                               \o IF newProfile = NoProfile THEN <<>> ELSE <<[profile |-> newProfile]>>]]
  /\ UNCHANGED <<chain, issued, given, profile, replaced, astray>>

\* newAttestations asks for the identity.
KnowIdentity(c) ==
  /\ call[c].pc = "known"
  /\ call' = [call EXCEPT ![c] =
       IF registry = NoIdentity THEN [@ EXCEPT !.new = call[c].claims, !.pc = "again"]
       ELSE [@ EXCEPT !.identity = registry, !.pc = "claims"]]
  /\ UNCHANGED <<chain, issued, history>>

\* The server's key stays a claim signer key of OriginIdentity.
isValidAttestation(claim, identity) == ~IsProfile(claim) /\ claim.identity = identity

getClaims(identity) == {events[identity][i] : i \in DOMAIN events[identity]}

\* The claims of a list that are not among those known, in their order.
Without(claims, known) ==
  LET kept[i \in 0 .. Len(claims)] ==
        IF i = 0 THEN <<>>
        ELSE IF claims[i] \in known THEN kept[i - 1] ELSE Append(kept[i - 1], claims[i])
  IN  kept[Len(claims)]

\* Fault: signatures are not compared, nor checked.
newAttestations_unsigned(claims, identity) ==
  Without(claims, {claim \in ToSet(claims) :
    \E old \in getClaims(identity) :
      /\ ~IsProfile(old) /\ ~IsProfile(claim)
      /\ old.topic = claim.topic /\ old.data = claim.data})

\* Fault: the profile is compared like an attestation.
newAttestations_profileToo(claims, identity) == Without(claims, getClaims(identity))

\* What is not among the valid attestations; the profile never is.
newAttestations(claims, identity) ==
  Without(claims, {old \in getClaims(identity) : isValidAttestation(old, identity)})

KnowClaims(c) ==
  /\ call[c].pc = "claims"
  /\ call' = [call EXCEPT ![c].new = newAttestations(call[c].claims, call[c].identity),
                          ![c].pc = "again"]
  /\ UNCHANGED <<chain, issued, history>>

\* addAttestations asks for the identity once more.
KnowIdentityAgain(c) ==
  /\ call[c].pc = "again"
  /\ LET done == call[c].new = <<>> /\ registry # NoIdentity IN
     /\ call' = [call EXCEPT ![c] = IF done THEN Idle
                   ELSE [@ EXCEPT !.identity = registry, !.pc = "submit"]]
     /\ IF done THEN Complete(call[c].claims) ELSE UNCHANGED <<given, profile>>
  /\ UNCHANGED <<chain, overlapped, replaced, astray, issued>>

deploy(c) == Send("deploy", call[c].new, NoIdentity, c)

addToIdentity(c) == Send("addClaims", call[c].new, call[c].identity, c)

\* The call returns when the transaction is mined.
Submit(c) ==
  /\ call[c].pc = "submit"
  /\ IF call[c].identity = NoIdentity THEN deploy(c) ELSE addToIdentity(c)
  /\ call' = [call EXCEPT ![c].pc = "sent"]
  /\ UNCHANGED <<mined, registry, events, issued, history>>

\* A request has no answer, or the wallet refuses the transaction.
Fail(c) ==
  /\ call[c].pc \notin {"idle", "sent"}
  /\ call' = [call EXCEPT ![c] = Idle]
  /\ UNCHANGED <<chain, issued, history>>

\* A transaction that is not mined within 50 blocks stays pending, and nobody
\* waits for it any more.
Disowned(c) == [i \in DOMAIN pool |->
                  IF pool[i].by = c THEN [pool[i] EXCEPT !.by = "wallet"] ELSE pool[i]]

\* Fault: the call sends its transaction again.
GiveUp_again(c) ==
  /\ call[c].pc = "sent"
  /\ call' = [call EXCEPT ![c].pc = "submit"]
  /\ pool' = Disowned(c)
  /\ UNCHANGED <<mined, registry, events, issued, history>>

\* The call stops waiting for its transaction and fails.
GiveUp(c) ==
  /\ call[c].pc = "sent"
  /\ call' = [call EXCEPT ![c] = Idle]
  /\ pool' = Disowned(c)
  /\ UNCHANGED <<mined, registry, events, issued, history>>

-----------------------------------------------------------------------------

UsersNext ==
  \/ WalletSends
  \/ Mine
  \/ Revert
  \/ \E topic \in ClaimTopic, data \in Data : Verify(topic, data)
  \/ \E c \in Caller :
       \/ \E newProfile \in Profile \cup {NoProfile}, attestations \in SUBSET issued :
            Cardinality(attestations) <= MaxGiven /\ set(c, newProfile, attestations)
       \/ KnowIdentity(c)
       \/ KnowClaims(c)
       \/ KnowIdentityAgain(c)
       \/ Submit(c)
       \/ Fail(c)
       \/ GiveUp(c)

UsersSpec == UsersInit /\ [][UsersNext]_usersVars

-----------------------------------------------------------------------------
(* Properties.                                                               *)

\* What get answers for the wallet: the last profile, the valid attestations.
ShownProfile == LastProfile(events[registry])

Shown == {events[registry][i] : i \in {j \in DOMAIN events[registry] :
                                         isValidAttestation(events[registry][j], registry)}}

\* What a call of set was given is shown once the call has returned, however calls,
\* failures, transactions and changes of the registration interleave.  An attestation
\* signed for the registered identity: what is skipped as already there is there, also
\* when it was read of another identity.  The profile of the call that completed last, or
\* whose transaction was mined after it had failed; unless two calls each deployed an
\* identity.  Except for what reached an identity no longer registered.
GivenIsShown ==
  registry # NoIdentity /\ ~astray =>
    /\ \A a \in given : a.identity = registry => a \in Shown
    /\ ~replaced => ShownProfile = profile

\* A wallet whose calls wait for each other, and after a failed one for its deployment
\* if that is still pending, never has a registered identity replaced by a second one:
\* a call that has returned is seen by the next, and one that failed otherwise left
\* nothing to come.
OneIdentity == replaced => overlapped
=============================================================================
