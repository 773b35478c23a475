----------------------------- MODULE IdentityState -----------------------------
(***************************************************************************)
(* What an identity contract (ClaimHolder) keeps about keys and claims, as *)
(* a record, and what each of its functions does to that record.  A key is *)
(* the hash of an account and is represented by the account; a claim's id  *)
(* is the hash of its issuer and its topic and is represented by the pair. *)
(***************************************************************************)
EXTENDS Naturals, Sequences, FiniteSets

CONSTANTS
  Account,
  Purpose,   \* purposes keys are added for: 1 management, 2 action, 3 claim signer
  NullAddr,  \* the issuer of a claim about oneself
  Issuer,
  Topic,
  Content,   \* what a claim says and how it is signed
  NoContent

ASSUME IdentityAssumption ==
  /\ Purpose \subseteq Nat
  /\ NullAddr \in Issuer
  /\ NoContent \notin Content

ClaimId == Issuer \X Topic

Holder ==
  [keys : [Account -> [held : BOOLEAN, purposes : Seq(Purpose)]],
   keysByPurpose : [Purpose -> Seq(Account)],
   claims : [ClaimId -> [issuer : Issuer, content : Content \cup {NoContent}]],
   byTopic : [Topic -> Seq(ClaimId)]]

NoKey   == [held |-> FALSE, purposes |-> <<>>]
NoClaim == [issuer |-> NullAddr, content |-> NoContent]

-----------------------------------------------------------------------------
(* Keys.                                                                     *)

keyHasPurpose(h, key, purpose) ==
  /\ h.keys[key].held
  /\ \E i \in DOMAIN h.keys[key].purposes : h.keys[key].purposes[i] <= purpose

WithKey(h, key, purpose) ==
  [h EXCEPT !.keys[key] = [held |-> TRUE, purposes |-> Append(@.purposes, purpose)],
            !.keysByPurpose[purpose] = Append(@, key)]

\* The holder right after its deployment.
NewHolder(deployer) ==
  WithKey([keys |-> [k \in Account |-> NoKey],
           keysByPurpose |-> [p \in Purpose |-> <<>>],
           claims |-> [id \in ClaimId |-> NoClaim],
           byTopic |-> [t \in Topic |-> <<>>]],
          deployer, 1)

\* The first occurrence is overwritten by the last element, and the list cut.
WithoutFirst(s, x) ==
  IF \A i \in DOMAIN s : s[i] # x
  THEN s
  ELSE LET first == CHOOSE i \in DOMAIN s : s[i] = x /\ \A j \in 1 .. i - 1 : s[j] # x
       IN  [j \in 1 .. Len(s) - 1 |-> IF j = first THEN s[Len(s)] ELSE s[j]]

\* Fault: the key is deleted whatever purpose it was asked to be removed from.
WithoutKey_whole(h, key, purpose) ==
  [h EXCEPT !.keys[key] = NoKey,
            !.keysByPurpose[purpose] = WithoutFirst(@, key)]

\* A key without a purpose left is deleted.
WithoutKey(h, key, purpose) ==
  LET left == WithoutFirst(h.keys[key].purposes, purpose) IN
  [h EXCEPT !.keys[key] = IF left = <<>> THEN NoKey ELSE [held |-> TRUE, purposes |-> left],
            !.keysByPurpose[purpose] = WithoutFirst(@, key)]

-----------------------------------------------------------------------------
(* Claims.                                                                   *)

\* Fault: the claim is stored before it is looked up, so it is never indexed.
WithClaim_storedFirst(h, id, content) ==
  LET stored == [h EXCEPT !.claims[id] = [issuer |-> id[1], content |-> content]] IN
  IF stored.claims[id].issuer # id[1]
  THEN [stored EXCEPT !.byTopic[id[2]] = Append(@, id)]
  ELSE stored

\* A claim is indexed unless one of the same issuer is stored already.  A claim
\* about oneself has the null issuer, which is that of no claim at all.
WithClaim(h, id, content) ==
  [h EXCEPT !.byTopic[id[2]] = IF h.claims[id].issuer # id[1] THEN Append(@, id) ELSE @,
            !.claims[id] = [issuer |-> id[1], content |-> content]]

\* The index keeps the id.
WithoutClaim(h, id) == [h EXCEPT !.claims[id] = NoClaim]
=============================================================================
