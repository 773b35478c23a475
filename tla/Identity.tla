------------------------------- MODULE Identity -------------------------------
(***************************************************************************)
(* An identity contract: whoever has a management key changes keys, whoever *)
(* has a claim signer key adds claims, and anybody may request an           *)
(* execution, which the holder of an action key approves and which may be   *)
(* any call, those of the identity itself included.  A key serves every     *)
(* purpose with a number at least its own.                                  *)
(*                                                                          *)
(* Each action is a successful call of one function, from outside a         *)
(* transaction or from within one: while another contract that an execution *)
(* calls has not returned, contracts may call the identity, and it may call *)
(* itself.  A call that fails undoes what was done in it.                   *)
(***************************************************************************)
EXTENDS IdentityState

CONSTANTS
  Deployer,
  Self,          \* the identity's own address
  Contracts,     \* the accounts that are contracts
  Keys,          \* keys callers try to add and remove
  Batches,       \* what callers pass to addClaim (one claim) and addClaims
  Calls,         \* what executions are requested for
  Outside,       \* a call of another contract
  NoCall,        \* an execution nobody has requested: address 0, no data
  MaxExecutions, \* bound on requests
  MaxDepth,      \* bound on executions within one another
  MaxIndexed     \* bound on the index of a topic, which grows with every removed claim

ASSUME CallsAssumption ==
  /\ 1 \in Purpose
  /\ Deployer \in Account /\ Self \in Account /\ Contracts \subseteq Account \ {Self}
  /\ Keys \subseteq Account
  /\ Batches \subseteq Seq([id : ClaimId, content : Content])
  /\ Calls \subseteq
       [op : {"addKey", "removeKey"}, key : Account, purpose : Purpose]
       \cup [op : {"addClaim"}, id : ClaimId, content : Content]
       \cup [op : {"addClaims"}, batch : Batches]
       \cup [op : {"removeClaim"}, id : ClaimId]
       \cup [op : {"execute"}, call : Calls]
       \cup [op : {"approve"}, request : 0 .. MaxExecutions, yes : BOOLEAN]
       \cup {Outside}
  /\ NoCall \notin Calls
  /\ MaxExecutions \in Nat /\ MaxDepth \in Nat /\ MaxIndexed \in Nat

VARIABLES
  holder,          \* keys and claims
  executions,
  executionNonce,
  frames,          \* the executions whose call has not returned, the innermost last
  calling,         \* the call of itself the identity makes next, or NoCall
  ran,             \* history: the calls that took effect under each id, in order
  rerun,           \* history: ids run again by a call within their own
  overwritten      \* history: ids given another call within their own

vars == <<holder, executions, executionNonce, frames, calling, ran, rerun, overwritten>>

Id == 0 .. MaxExecutions

NoExecution == [call |-> NoCall, approved |-> FALSE, executed |-> FALSE]

\* counted: begun by execute, which counts the request when the call has returned.
Frame == [id : Id, counted : BOOLEAN, call : Calls \cup {NoCall}]

TypeOK ==
  /\ holder \in Holder
  /\ executions \in [Id -> [call : Calls \cup {NoCall}, approved : BOOLEAN, executed : BOOLEAN]]
  /\ executionNonce \in Nat
  /\ frames \in Seq(Frame) /\ calling \in Calls \cup {NoCall}
  /\ ran \in [Id -> Seq(Calls \cup {NoCall})]
  /\ rerun \subseteq Id /\ overwritten \subseteq Id

Init ==
  /\ holder = NewHolder(Deployer)
  /\ executions = [id \in Id |-> NoExecution]
  /\ executionNonce = 0
  /\ frames = <<>> /\ calling = NoCall
  /\ ran = [id \in Id |-> <<>>]
  /\ rerun = {} /\ overwritten = {}

-----------------------------------------------------------------------------
(* Keys and claims.                                                          *)

addKey(sender, key, purpose) ==
  /\ ~holder.keys[key].held
  /\ keyHasPurpose(holder, sender, 1)
  /\ holder' = WithKey(holder, key, purpose)
  /\ UNCHANGED <<executions, executionNonce, frames, calling, ran, rerun, overwritten>>

removeKey(sender, key, purpose) ==
  /\ keyHasPurpose(holder, sender, 1)
  /\ holder.keys[key].held
  /\ holder' = WithoutKey(holder, key, purpose)
  /\ UNCHANGED <<executions, executionNonce, frames, calling, ran, rerun, overwritten>>

\* The claims of the batch are added one after the other.
WithClaims(h, batch) ==
  LET added[i \in 0 .. Len(batch)] ==
        IF i = 0 THEN h ELSE WithClaim(added[i - 1], batch[i].id, batch[i].content)
  IN  added[Len(batch)]

addClaims(sender, batch) ==
  /\ keyHasPurpose(holder, sender, 3)
  /\ holder' = WithClaims(holder, batch)
  /\ UNCHANGED <<executions, executionNonce, frames, calling, ran, rerun, overwritten>>

removeClaim(sender, id) ==
  /\ keyHasPurpose(holder, sender, 1)
  /\ holder' = WithoutClaim(holder, id)
  /\ UNCHANGED <<executions, executionNonce, frames, calling, ran, rerun, overwritten>>

-----------------------------------------------------------------------------
(* Executions.  The identity needs no key to call itself, but for approve.    *)

CanSucceed(call) ==
  call \notin {Outside, NoCall} =>
    /\ call.op = "addKey" => ~holder.keys[call.key].held
    /\ call.op = "removeKey" => holder.keys[call.key].held
    /\ call.op = "execute" =>
         executionNonce < MaxExecutions /\ ~executions[executionNonce].executed
    /\ call.op = "approve" => keyHasPurpose(holder, Self, 2) /\ ~executions[call.request].executed

\* Others may act before such a call returns.
CallsOut(call) ==
  /\ call # NoCall
  /\ call # Outside => call.op \in {"execute", "approve"}

Effect(call) ==
  IF call = NoCall THEN holder
  ELSE CASE call.op = "addKey" -> WithKey(holder, call.key, call.purpose)
         [] call.op = "removeKey" -> WithoutKey(holder, call.key, call.purpose)
         [] call.op = "addClaim" -> WithClaim(holder, call.id, call.content)
         [] call.op = "addClaims" -> WithClaims(holder, call.batch)
         [] call.op = "removeClaim" -> WithoutClaim(holder, call.id)

Running(id) == \E i \in DOMAIN frames : frames[i].id = id

\* execute counts its request after approve.
Counted(counted) == executionNonce' = IF counted THEN executionNonce + 1 ELSE executionNonce

Again(id) == rerun' = IF Running(id) THEN rerun \cup {id} ELSE rerun

Answered(id, call, executed) ==
  [executions EXCEPT ![id] = [call |-> call, approved |-> TRUE, executed |-> executed]]

\* Another contract may refuse the call, and every call may run out of gas.
Run(id, call, counted) ==
  \/ /\ executions' = Answered(id, call, executions[id].executed)
     /\ Counted(counted) /\ calling' = NoCall
     /\ UNCHANGED <<holder, frames, ran, rerun>>
  \/ /\ ~CallsOut(call) /\ CanSucceed(call)
     /\ holder' = Effect(call)
     /\ executions' = Answered(id, call, TRUE)
     /\ ran' = [ran EXCEPT ![id] = Append(@, call)]
     /\ Again(id)
     /\ Counted(counted) /\ calling' = NoCall
     /\ UNCHANGED frames
  \/ /\ CallsOut(call) /\ CanSucceed(call)
     /\ Len(frames) < MaxDepth
     /\ executions' = Answered(id, call, executions[id].executed)
     /\ frames' = Append(frames, [id |-> id, counted |-> counted, call |-> call])
     /\ calling' = IF call = Outside THEN NoCall ELSE call
     /\ Again(id)
     /\ UNCHANGED <<holder, executionNonce, ran>>

\* Fault: an execution that took effect is approved again.
approve_again(sender, id, yes) ==
  /\ keyHasPurpose(holder, sender, 2)
  /\ IF yes
     THEN Run(id, executions[id].call, FALSE)
     ELSE /\ executions' = [executions EXCEPT ![id].approved = FALSE]
          /\ calling' = NoCall
          /\ UNCHANGED <<holder, executionNonce, frames, ran, rerun>>
  /\ UNCHANGED overwritten

\* The id need not have been requested.
approve(sender, id, yes) ==
  /\ keyHasPurpose(holder, sender, 2)
  /\ ~executions[id].executed
  /\ IF yes
     THEN Run(id, executions[id].call, FALSE)
     ELSE /\ executions' = [executions EXCEPT ![id].approved = FALSE]
          /\ calling' = NoCall
          /\ UNCHANGED <<holder, executionNonce, frames, ran, rerun>>
  /\ UNCHANGED overwritten

Overwriting(id) == overwritten' = IF Running(id) THEN overwritten \cup {id} ELSE overwritten

\* Requesting only.
Request(call) ==
  /\ executions' = [executions EXCEPT ![executionNonce].call = call]
  /\ calling' = NoCall
  /\ UNCHANGED <<holder, frames, ran, rerun>>

\* Fault: the next request takes the place of one that was not approved.
execute_inPlace(sender, call) ==
  /\ executionNonce < MaxExecutions
  /\ ~executions[executionNonce].executed
  /\ Overwriting(executionNonce)
  /\ IF keyHasPurpose(holder, sender, 1) \/ keyHasPurpose(holder, sender, 2)
     THEN Run(executionNonce, call, TRUE)
     ELSE Request(call) /\ Counted(FALSE)

\* Fault: whoever holds any key has the request approved.
execute_anyKey(sender, call) ==
  /\ executionNonce < MaxExecutions
  /\ ~executions[executionNonce].executed
  /\ Overwriting(executionNonce)
  /\ IF holder.keys[sender].held
     THEN Run(executionNonce, call, TRUE)
     ELSE Request(call) /\ Counted(TRUE)

\* The holder of a management or an action key approves in the same call.
execute(sender, call) ==
  /\ executionNonce < MaxExecutions
  /\ ~executions[executionNonce].executed
  /\ Overwriting(executionNonce)
  /\ IF keyHasPurpose(holder, sender, 1) \/ keyHasPurpose(holder, sender, 2)
     THEN Run(executionNonce, call, TRUE)
     ELSE Request(call) /\ Counted(TRUE)

\* The identity as its own caller.
CallSelf ==
  /\ calling # NoCall
  /\ \/ calling.op = "execute" /\ execute(Self, calling.call)
     \/ calling.op = "approve" /\ approve(Self, calling.request, calling.yes)

\* The innermost call has returned.
Return ==
  /\ frames # <<>> /\ calling = NoCall
  /\ LET top == frames[Len(frames)] IN
     /\ executions' = [executions EXCEPT ![top.id].executed = TRUE]
     /\ ran' = [ran EXCEPT ![top.id] = Append(@, top.call)]
     /\ Counted(top.counted)
  /\ frames' = SubSeq(frames, 1, Len(frames) - 1)
  /\ UNCHANGED <<holder, calling, rerun, overwritten>>

-----------------------------------------------------------------------------

\* The functions an account may call.
KeyHolderCall(sender) ==
  \/ \E key \in Keys, purpose \in Purpose : addKey(sender, key, purpose) \/ removeKey(sender, key, purpose)
  \/ \E call \in Calls : execute(sender, call)
  \/ \E id \in Id, yes \in BOOLEAN : approve(sender, id, yes)

ClaimHolderCall(sender) ==
  \/ \E batch \in Batches : addClaims(sender, batch)
  \/ \E id \in ClaimId : removeClaim(sender, id)

Step(sender) == KeyHolderCall(sender) \/ ClaimHolderCall(sender)

\* A transaction is sent by any account but the identity; within one, contracts call.
Senders ==
  IF frames = <<>> THEN Account \ {Self}
  ELSE IF frames[Len(frames)].call = Outside THEN Contracts
  ELSE {}

IndexBounded == \A t \in Topic : Len(holder.byTopic[t]) <= MaxIndexed

Next ==
  /\ \/ calling = NoCall /\ \E sender \in Senders : Step(sender)
     \/ CallSelf
     \/ Return
  /\ IndexBounded'

Spec == Init /\ [][Next]_vars

-----------------------------------------------------------------------------
(* Properties.                                                               *)

Occurrences(s, x) == Cardinality({i \in DOMAIN s : s[i] = x})

\* The two records of which key serves what never part, although a key can be
\* removed from a purpose it does not have, removed while an execution that will
\* remove it is pending, or added again: getKeysByPurpose lists a key, once, for
\* exactly the purposes getKeyPurposes gives, and a key is held while it has one.
\* Nor do those of claims: one that somebody else issued is found under its topic and
\* under no other, however often it was replaced, removed and added again.
IndexesAgree ==
  /\ \A key \in Account :
       /\ holder.keys[key].held <=> holder.keys[key].purposes # <<>>
       /\ \A purpose \in Purpose :
            /\ Occurrences(holder.keysByPurpose[purpose], key)
                 = Occurrences(holder.keys[key].purposes, purpose)
            /\ Occurrences(holder.keysByPurpose[purpose], key) <= 1
  /\ \A id \in ClaimId :
       holder.claims[id] # NoClaim /\ id[1] # NullAddr =>
         Occurrences(holder.byTopic[id[2]], id) > 0
  /\ \A t \in Topic : \A i \in DOMAIN holder.byTopic[t] : holder.byTopic[t][i][2] = t

\* A failed execution can be approved again, one that took effect never: what was
\* requested takes effect at most once, it counts as executed when it did, and what took
\* effect is what its record names.  Unless something within its own call runs it again,
\* or puts another call in its place: executed is set, and the nonce advanced, only after
\* the call.
RunsOnce ==
  \A id \in Id :
    /\ executions[id].executed <=> ran[id] # <<>>
    /\ id \notin rerun => Len(ran[id]) <= 1
    /\ id \notin rerun \cup overwritten => ran[id] \in {<<>>, <<executions[id].call>>}

\* What is approved is what was requested: a request is never changed or replaced once
\* execute has counted it, before its own call returns at the latest.
RequestsFixed ==
  [][\A id \in Id :
       executions[id].call # NoCall /\ (\A i \in DOMAIN frames : frames[i].counted => frames[i].id # id)
         => executions'[id].call = executions[id].call]_vars

\* Somebody without a management or action key changes no key, removes no claim and
\* has nothing run, or run again, whatever executions have been requested, approved or
\* begun before.
OnlyKeyHoldersAct ==
  [][\A sender \in Account :
       ~keyHasPurpose(holder, sender, 2) /\ Step(sender) =>
         /\ UNCHANGED <<holder.keys, holder.keysByPurpose, frames, ran, rerun>>
         /\ \A id \in ClaimId : holder.claims[id] # NoClaim => holder.claims'[id] # NoClaim]_vars
=============================================================================
