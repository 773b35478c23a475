---------------------------- MODULE Identity_proofs ----------------------------
(***************************************************************************)
(* What was requested of an identity contract takes effect at most once,   *)
(* unless its own call has it run again; a request that was counted is     *)
(* never changed, keys and claims are found where they are recorded, and   *)
(* outsiders change none of them: for any accounts, contracts, purposes,   *)
(* keys, claims and calls, and any number of executions, however deep      *)
(* within one another.                                                     *)
(*                                                                         *)
(* And of the client that gives users their identities, for any profiles,  *)
(* topics, callers and number of transactions: a wallet whose calls of set *)
(* wait for each other never has a registered identity overwritten by a       *)
(* second one, and what a call was given is shown once it has returned.    *)
(***************************************************************************)
EXTENDS Identity, Users, NatSum_proofs, SequenceTheorems

Execution == [call : Calls \cup {NoCall}, approved : BOOLEAN, executed : BOOLEAN]

ExecutionsTyped ==
  /\ executions \in [Id -> Execution]
  /\ executionNonce \in Nat
  /\ frames \in Seq(Frame)
  /\ calling \in (Calls \ {Outside}) \cup {NoCall}
  /\ ran \in [Id -> Seq(Calls \cup {NoCall})]
  /\ rerun \subseteq Id /\ overwritten \subseteq Id

\* The execute that wrote the request has not counted it.
Uncounted(id) == \E i \in DOMAIN frames : frames[i].counted /\ frames[i].id = id

\* An id that was not given out yet has no call, approved or not, unless execute is
\* still at it.
Fresh ==
  \A id \in Id : executions[id].call # NoCall =>
    id < executionNonce \/ (id = executionNonce /\ Uncounted(id))

\* While its call has not returned an execution does not count as executed and keeps
\* the call it was begun with, with the exceptions the histories tell.
FramesSound ==
  \A i \in DOMAIN frames :
    /\ frames[i].id \notin rerun =>
         /\ ~executions[frames[i].id].executed
         /\ \A j \in DOMAIN frames : frames[j].id = frames[i].id => j = i
    /\ frames[i].id \notin overwritten => executions[frames[i].id].call = frames[i].call

Inv == ExecutionsTyped /\ RunsOnce /\ Fresh /\ FramesSound

Requests ==
  \A id \in Id : executions[id].call # NoCall /\ ~Uncounted(id)
                   => executions'[id].call = executions[id].call

Kept == UNCHANGED <<executions, executionNonce, frames, calling, ran, rerun, overwritten>>

\* What a step may write under an id that does not count as executed: execute a call of
\* its own under the next id, approve the one that is there.
Written(id, asked, counted) ==
  /\ ~executions[id].executed
  /\ IF counted THEN id = executionNonce ELSE asked = executions[id].call
  /\ overwritten \subseteq overwritten' /\ overwritten' \subseteq Id
  /\ asked = executions[id].call \/ ~Running(id) \/ id \in overwritten'

\* A step leaves the executions alone, approves or requests.
LEMMA StepsOfExecutions ==
  ASSUME NEW sender \in Account, Step(sender)
  PROVE  \/ Kept
         \/ \E id \in Id, yes \in BOOLEAN : approve(sender, id, yes)
         \/ \E asked \in Calls : execute(sender, asked)
<1>1. ASSUME NEW key \in Keys, NEW purpose \in Purpose,
             addKey(sender, key, purpose) \/ removeKey(sender, key, purpose)
      PROVE  Kept
  BY <1>1 DEF addKey, removeKey, Kept
<1>2. ASSUME NEW batch \in Batches, addClaims(sender, batch)
      PROVE  Kept
  BY <1>2 DEF addClaims, Kept
<1>3. ASSUME NEW id \in ClaimId, removeClaim(sender, id)
      PROVE  Kept
  BY <1>3 DEF removeClaim, Kept
<1> QED  BY <1>1, <1>2, <1>3, Zenon DEF Step, KeyHolderCall, ClaimHolderCall

\* The facts about a step that writes under one id, none running yet or not.
LEMMA WrittenIs ==
  ASSUME Inv, NEW id \in Id, NEW e \in Execution, NEW counted \in BOOLEAN,
         Written(id, e.call, counted), executions' = [executions EXCEPT ![id] = e]
  PROVE  /\ executions' \in [Id -> Execution] /\ executions'[id] = e
         /\ \A other \in Id \ {id} : executions'[other] = executions[other]
         /\ ran[id] = <<>>
         /\ Requests
<1>1. executions \in [Id -> Execution]
  BY DEF Inv, ExecutionsTyped
<1>2. /\ executions' \in [Id -> Execution] /\ executions'[id] = e
      /\ \A other \in Id \ {id} : executions'[other] = executions[other]
  BY <1>1
<1>3. ran[id] = <<>>
  BY DEF Inv, RunsOnce, Written
<1>4. Requests
  <2> SUFFICES ASSUME NEW other \in Id, executions[other].call # NoCall, ~Uncounted(other)
               PROVE  executions'[other].call = executions[other].call
    BY DEF Requests
  <2>1. other < executionNonce /\ executionNonce \in Nat
    BY DEF Inv, Fresh, ExecutionsTyped
  <2>2. CASE other = id
    <3>1. other # executionNonce
      BY <2>1 DEF Id
    <3>2. e.call = executions[id].call
      BY <2>2, <3>1 DEF Written
    <3> QED  BY <1>2, <2>2, <3>2
  <2>3. CASE other # id
    BY <1>2, <2>3
  <2> QED  BY <2>2, <2>3
<1> QED  BY <1>2, <1>3, <1>4

\* The calls in progress are as they were.
LEMMA FramesStay ==
  ASSUME Inv, NEW id \in Id, NEW e \in Execution, NEW counted \in BOOLEAN,
         Written(id, e.call, counted), executions' = [executions EXCEPT ![id] = e],
         rerun \subseteq rerun', e.executed => ~Running(id) \/ id \in rerun',
         NEW i \in DOMAIN frames
  PROVE  /\ frames[i].id \in Id
         /\ frames[i].id \notin rerun' =>
              /\ ~executions'[frames[i].id].executed
              /\ \A j \in DOMAIN frames : frames[j].id = frames[i].id => j = i
         /\ frames[i].id \notin overwritten' => executions'[frames[i].id].call = frames[i].call
<1>1. frames[i] \in Frame
  BY ElementOfSeq, LenProperties DEF Inv, ExecutionsTyped
<1>2. frames[i].id \in Id
  BY <1>1 DEF Frame
<1>3. /\ executions'[id] = e
      /\ \A other \in Id \ {id} : executions'[other] = executions[other]
  BY WrittenIs
<1>4. /\ frames[i].id \notin rerun =>
           /\ ~executions[frames[i].id].executed
           /\ \A j \in DOMAIN frames : frames[j].id = frames[i].id => j = i
      /\ frames[i].id \notin overwritten => executions[frames[i].id].call = frames[i].call
  BY DEF Inv, FramesSound
<1>5. CASE frames[i].id = id
  <2>1. Running(id)
    BY <1>5 DEF Running
  <2>2. id \notin rerun' => ~e.executed
    BY <2>1
  <2>3. id \notin overwritten' => e.call = executions[id].call /\ id \notin overwritten
    BY <2>1 DEF Written
  <2> QED  BY <1>2, <1>3, <1>4, <1>5, <2>2, <2>3
<1>6. CASE frames[i].id # id
  BY <1>2, <1>3, <1>4, <1>6 DEF Written
<1> QED  BY <1>5, <1>6

\* The next id, after execute has counted its request or while it is at it.
LEMMA FreshStays ==
  ASSUME Inv, NEW id \in Id, NEW e \in Execution, NEW counted \in BOOLEAN,
         Written(id, e.call, counted), executions' = [executions EXCEPT ![id] = e],
         \A other \in Id : Uncounted(other) => Uncounted(other)',
         \/ Counted(counted)
         \/ executionNonce' = executionNonce /\ (counted => Uncounted(id)')
  PROVE  Fresh' /\ executionNonce' \in Nat
<1>1. executionNonce \in Nat /\ executionNonce' \in Nat /\ Id \subseteq Nat
  BY DEF Inv, ExecutionsTyped, Counted, Id
<1>2. /\ executions'[id] = e
      /\ \A other \in Id \ {id} : executions'[other] = executions[other]
  BY WrittenIs
<1>3. ASSUME NEW other \in Id, executions'[other].call # NoCall
      PROVE  other < executionNonce' \/ (other = executionNonce' /\ Uncounted(other)')
  <2>1. executions[other].call # NoCall \/ (other = id /\ counted)
    BY <1>2, <1>3 DEF Written
  <2>2. other = id /\ counted => other = executionNonce
    BY DEF Written
  <2>3. executions[other].call # NoCall =>
          other < executionNonce \/ (other = executionNonce /\ Uncounted(other))
    BY DEF Inv, Fresh
  <2>4. CASE executionNonce' = executionNonce + 1
    BY <1>1, <2>1, <2>2, <2>3, <2>4
  <2>5. CASE executionNonce' = executionNonce /\ ~counted
    BY <2>1, <2>3, <2>5
  <2>6. CASE executionNonce' = executionNonce /\ (counted => Uncounted(id)')
    BY <2>1, <2>2, <2>3, <2>6
  <2> QED  BY <2>4, <2>5, <2>6 DEF Counted
<1> QED  BY <1>1, <1>3 DEF Fresh

\* Answering or requesting without running anything.
LEMMA NotedSound ==
  ASSUME Inv, NEW id \in Id, NEW e \in Execution, NEW counted \in BOOLEAN,
         Written(id, e.call, counted), executions' = [executions EXCEPT ![id] = e],
         ~e.executed, Counted(counted), calling' = NoCall, UNCHANGED <<frames, ran, rerun>>
  PROVE  Inv' /\ Requests
<1>1. /\ executions' \in [Id -> Execution] /\ executions'[id] = e
      /\ \A other \in Id \ {id} : executions'[other] = executions[other]
      /\ ran[id] = <<>> /\ Requests
  BY WrittenIs
<1>2. Fresh' /\ executionNonce' \in Nat
  <2>1. \A other \in Id : Uncounted(other) => Uncounted(other)'
    BY DEF Uncounted
  <2> QED  BY <2>1, FreshStays
<1>3. ExecutionsTyped'
  BY <1>1, <1>2 DEF Inv, ExecutionsTyped, Written
<1>4. RunsOnce'
  BY <1>1 DEF Inv, RunsOnce, Written
<1>5. FramesSound'
  <2>1. \A i \in DOMAIN frames :
          /\ frames[i].id \notin rerun' =>
               /\ ~executions'[frames[i].id].executed
               /\ \A j \in DOMAIN frames : frames[j].id = frames[i].id => j = i
          /\ frames[i].id \notin overwritten' => executions'[frames[i].id].call = frames[i].call
    BY FramesStay
  <2> QED  BY <2>1 DEF FramesSound
<1> QED  BY <1>1, <1>2, <1>3, <1>4, <1>5 DEF Inv

\* Running a call that returns at once.
LEMMA RanSound ==
  ASSUME Inv, NEW id \in Id, NEW e \in Execution, NEW counted \in BOOLEAN,
         Written(id, e.call, counted), executions' = [executions EXCEPT ![id] = e],
         e.executed, ran' = [ran EXCEPT ![id] = Append(@, e.call)], Again(id),
         Counted(counted), calling' = NoCall, UNCHANGED frames
  PROVE  Inv' /\ Requests
<1>1. /\ executions' \in [Id -> Execution] /\ executions'[id] = e
      /\ \A other \in Id \ {id} : executions'[other] = executions[other]
      /\ ran[id] = <<>> /\ Requests
  BY WrittenIs
<1>2. Fresh' /\ executionNonce' \in Nat
  <2>1. \A other \in Id : Uncounted(other) => Uncounted(other)'
    BY DEF Uncounted
  <2> QED  BY <2>1, FreshStays
<1>3. /\ ran' \in [Id -> Seq(Calls \cup {NoCall})] /\ ran'[id] = <<e.call>>
      /\ \A other \in Id \ {id} : ran'[other] = ran[other]
  <2>1. ran \in [Id -> Seq(Calls \cup {NoCall})] /\ e.call \in Calls \cup {NoCall}
    BY DEF Inv, ExecutionsTyped, Execution
  <2>2. Append(ran[id], e.call) = <<e.call>>
    BY <1>1
  <2>3. <<e.call>> \in Seq(Calls \cup {NoCall})
    BY <2>1
  <2> QED  BY <2>1, <2>2, <2>3
<1>4. rerun \subseteq rerun' /\ rerun' \subseteq Id /\ (Running(id) => id \in rerun')
  BY DEF Again, Inv, ExecutionsTyped
<1>5. ExecutionsTyped'
  BY <1>1, <1>2, <1>3, <1>4 DEF Inv, ExecutionsTyped, Written
<1>6. RunsOnce'
  <2>1. <<e.call>> # <<>> /\ Len(<<e.call>>) = 1
    OBVIOUS
  <2>2. ASSUME NEW other \in Id
        PROVE  /\ executions'[other].executed <=> ran'[other] # <<>>
               /\ other \notin rerun' => Len(ran'[other]) <= 1
               /\ other \notin rerun' \cup overwritten' => ran'[other] \in {<<>>, <<executions'[other].call>>}
    <3>1. CASE other = id
      BY <1>1, <1>3, <2>1, <3>1
    <3>2. CASE other # id
      BY <1>1, <1>3, <1>4, <3>2 DEF Inv, RunsOnce, Written
    <3> QED  BY <3>1, <3>2
  <2> QED  BY <2>2 DEF RunsOnce
<1>7. FramesSound'
  <2>1. \A i \in DOMAIN frames :
          /\ frames[i].id \notin rerun' =>
               /\ ~executions'[frames[i].id].executed
               /\ \A j \in DOMAIN frames : frames[j].id = frames[i].id => j = i
          /\ frames[i].id \notin overwritten' => executions'[frames[i].id].call = frames[i].call
    BY <1>4, FramesStay
  <2> QED  BY <2>1 DEF FramesSound
<1> QED  BY <1>1, <1>2, <1>5, <1>6, <1>7 DEF Inv

\* Beginning a call that returns later.
LEMMA BegunSound ==
  ASSUME Inv, NEW id \in Id, NEW e \in Execution, NEW counted \in BOOLEAN,
         Written(id, e.call, counted), executions' = [executions EXCEPT ![id] = e],
         ~e.executed,
         frames' = Append(frames, [id |-> id, counted |-> counted, call |-> e.call]),
         calling' \in (Calls \ {Outside}) \cup {NoCall}, Again(id),
         UNCHANGED <<executionNonce, ran>>
  PROVE  Inv' /\ Requests
<1> DEFINE f == [id |-> id, counted |-> counted, call |-> e.call]
           n == Len(frames)
<1>1. /\ executions' \in [Id -> Execution] /\ executions'[id] = e
      /\ \A other \in Id \ {id} : executions'[other] = executions[other]
      /\ ran[id] = <<>> /\ Requests
  BY WrittenIs
<1>2. frames \in Seq(Frame) /\ n \in Nat /\ DOMAIN frames = 1 .. n
  BY LenProperties DEF Inv, ExecutionsTyped
<1>3. f \in Frame
  BY DEF Frame, Execution
<1>4. /\ frames' \in Seq(Frame) /\ DOMAIN frames' = 1 .. n + 1
      /\ frames'[n + 1] = f /\ \A i \in 1 .. n : frames'[i] = frames[i]
  <2> HIDE DEF f
  <2> QED  BY <1>2, <1>3, AppendProperties, LenProperties DEF f
<1>5. f.id = id /\ f.counted = counted /\ f.call = e.call
  OBVIOUS
<1> HIDE DEF f, n
<1>6. rerun \subseteq rerun' /\ rerun' \subseteq Id /\ (Running(id) => id \in rerun')
  BY DEF Again, Inv, ExecutionsTyped
<1>7. Fresh' /\ executionNonce' \in Nat
  <2>1. \A other \in Id : Uncounted(other) => Uncounted(other)'
    BY <1>2, <1>4 DEF Uncounted
  <2>2. counted => Uncounted(id)'
    BY <1>2, <1>4, <1>5 DEF Uncounted
  <2> QED  BY <2>1, <2>2, FreshStays
<1>8. ExecutionsTyped'
  BY <1>1, <1>4, <1>6, <1>7 DEF Inv, ExecutionsTyped, Written
<1>9. RunsOnce'
  BY <1>1, <1>6 DEF Inv, RunsOnce, Written
<1>10. FramesSound'
  <2>1. \A i \in 1 .. n :
          /\ frames[i].id \notin rerun' =>
               /\ ~executions'[frames[i].id].executed
               /\ \A j \in 1 .. n : frames[j].id = frames[i].id => j = i
          /\ frames[i].id \notin overwritten' => executions'[frames[i].id].call = frames[i].call
    BY <1>2, <1>6, FramesStay
  <2>2. \A i \in 1 .. n : frames[i].id = id => id \in rerun'
    BY <1>2, <1>6 DEF Running
  <2>3. ASSUME NEW i \in 1 .. n + 1
        PROVE  /\ frames'[i].id \notin rerun' =>
                    /\ ~executions'[frames'[i].id].executed
                    /\ \A j \in 1 .. n + 1 : frames'[j].id = frames'[i].id => j = i
               /\ frames'[i].id \notin overwritten' => executions'[frames'[i].id].call = frames'[i].call
    <3>1. CASE i \in 1 .. n
      <4>1. frames'[i] = frames[i]
        BY <1>4, <3>1
      <4>2. ASSUME frames[i].id \notin rerun', NEW j \in 1 .. n + 1, frames'[j].id = frames[i].id
            PROVE  j = i
        <5>1. CASE j \in 1 .. n
          BY <1>4, <2>1, <3>1, <4>2, <5>1
        <5>2. CASE j = n + 1
          BY <1>4, <1>5, <2>2, <3>1, <4>2, <5>2
        <5> QED  BY <1>2, <5>1, <5>2
      <4> QED  BY <2>1, <3>1, <4>1, <4>2
    <3>2. CASE i = n + 1
      <4>1. frames'[i].id = id /\ frames'[i].call = e.call
        BY <1>4, <1>5, <3>2
      <4>2. ASSUME id \notin rerun', NEW j \in 1 .. n + 1, frames'[j].id = id
            PROVE  j = i
        BY <1>2, <1>4, <2>2, <3>2, <4>2
      <4> QED  BY <1>1, <4>1, <4>2
    <3> QED  BY <1>2, <3>1, <3>2
  <2> QED  BY <1>4, <2>3 DEF FramesSound
<1> QED  BY <1>1, <1>7, <1>8, <1>9, <1>10 DEF Inv

\* Running a call, however it goes.
LEMMA RunSound ==
  ASSUME Inv, NEW id \in Id, NEW asked \in Calls \cup {NoCall}, NEW counted \in BOOLEAN,
         Written(id, asked, counted), Run(id, asked, counted)
  PROVE  Inv' /\ Requests
<1> DEFINE failed == [call |-> asked, approved |-> TRUE, executed |-> executions[id].executed]
           done   == [call |-> asked, approved |-> TRUE, executed |-> TRUE]
<1>1. executions \in [Id -> Execution] /\ executions[id] \in Execution /\ ~executions[id].executed
  BY DEF Inv, ExecutionsTyped, Written
<1>2. failed \in Execution /\ done \in Execution
  BY <1>1 DEF Execution
<1>3. /\ Answered(id, asked, executions[id].executed) = [executions EXCEPT ![id] = failed]
      /\ Answered(id, asked, TRUE) = [executions EXCEPT ![id] = done]
  BY DEF Answered
<1>4. failed.call = asked /\ ~failed.executed /\ done.call = asked /\ done.executed
  BY <1>1
<1> HIDE DEF failed, done
<1>5. CASE /\ executions' = [executions EXCEPT ![id] = failed]
           /\ Counted(counted) /\ calling' = NoCall
           /\ UNCHANGED <<holder, frames, ran, rerun>>
  BY <1>2, <1>4, <1>5, NotedSound
<1>6. CASE /\ executions' = [executions EXCEPT ![id] = done]
           /\ ran' = [ran EXCEPT ![id] = Append(@, asked)]
           /\ Again(id)
           /\ Counted(counted) /\ calling' = NoCall
           /\ UNCHANGED frames
  BY <1>2, <1>4, <1>6, RanSound
<1>7. CASE /\ CallsOut(asked)
           /\ executions' = [executions EXCEPT ![id] = failed]
           /\ frames' = Append(frames, [id |-> id, counted |-> counted, call |-> asked])
           /\ calling' = IF asked = Outside THEN NoCall ELSE asked
           /\ Again(id)
           /\ UNCHANGED <<executionNonce, ran>>
  <2>1. calling' \in (Calls \ {Outside}) \cup {NoCall}
    BY <1>7
  <2> QED  BY <1>2, <1>4, <1>7, <2>1, BegunSound
<1> QED  BY <1>3, <1>5, <1>6, <1>7 DEF Run

\* The innermost call returns.
LEMMA ReturnSound ==
  ASSUME Inv, Return
  PROVE  Inv' /\ Requests
<1> DEFINE n == Len(frames)
           top == frames[n]
<1>1. frames \in Seq(Frame) /\ n \in Nat /\ n # 0 /\ DOMAIN frames = 1 .. n /\ top \in Frame
  <2>1. frames \in Seq(Frame) /\ frames # <<>>
    BY DEF Inv, ExecutionsTyped, Return
  <2>2. n \in Nat /\ DOMAIN frames = 1 .. n /\ n # 0
    BY <2>1, LenProperties, EmptySeq
  <2> QED  BY <2>1, <2>2, ElementOfSeq
<1>2. /\ executions' = [executions EXCEPT ![top.id].executed = TRUE]
      /\ ran' = [ran EXCEPT ![top.id] = Append(@, top.call)]
      /\ Counted(top.counted) /\ frames' = SubSeq(frames, 1, n - 1)
      /\ UNCHANGED <<calling, rerun, overwritten>>
  BY DEF Return
<1>3. top.id \in Id /\ top.counted \in BOOLEAN /\ top.call \in Calls \cup {NoCall}
  BY <1>1 DEF Frame
<1>4. /\ frames' \in Seq(Frame) /\ DOMAIN frames' = 1 .. n - 1
      /\ \A i \in 1 .. n - 1 : frames'[i] = frames[i]
  <2>1. \A i \in 1 .. n - 1 : frames[i] \in Frame
    BY <1>1, ElementOfSeq
  <2> HIDE DEF n, top
  <2>2. SubSeq(frames, 1, n - 1) = [i \in 1 .. n - 1 |-> frames[i]] /\ n - 1 \in Nat
    BY <1>1
  <2>3. [i \in 1 .. n - 1 |-> frames[i]] \in [1 .. n - 1 -> Frame]
    BY <2>1
  <2> QED  BY <1>2, <2>2, <2>3, SeqDef
<1> HIDE DEF n
<1>5. \A i \in 1 .. n : frames[i] \in Frame /\ frames[i].id \in Id
  <2>1. \A i \in 1 .. n : frames[i] \in Frame
    BY <1>1, ElementOfSeq DEF n
  <2> QED  BY <2>1 DEF Frame
<1>6. PICK t : t = top /\ t = frames[n]
  OBVIOUS
<1> HIDE DEF top
<1>7. executions \in [Id -> Execution] /\ ran \in [Id -> Seq(Calls \cup {NoCall})]
  BY DEF Inv, ExecutionsTyped
<1>8. /\ executions' \in [Id -> Execution]
      /\ \A id \in Id : executions'[id].call = executions[id].call
      /\ executions'[t.id].executed
      /\ \A id \in Id \ {t.id} : executions'[id] = executions[id]
  BY <1>2, <1>3, <1>6, <1>7 DEF Execution
<1>9. /\ ran' \in [Id -> Seq(Calls \cup {NoCall})] /\ ran'[t.id] = Append(ran[t.id], t.call)
      /\ \A id \in Id \ {t.id} : ran'[id] = ran[id]
  <2>1. Append(ran[t.id], t.call) \in Seq(Calls \cup {NoCall})
    BY <1>3, <1>6, <1>7, AppendProperties
  <2> QED  BY <1>2, <1>3, <1>6, <1>7, <2>1
<1>10. executionNonce \in Nat /\ executionNonce' \in Nat
  BY <1>2 DEF Inv, ExecutionsTyped, Counted
<1>11. ExecutionsTyped'
  BY <1>2, <1>4, <1>8, <1>9, <1>10 DEF Inv, ExecutionsTyped
<1>12. n \in DOMAIN frames
  BY <1>1
<1>13. /\ t.id \notin rerun => /\ ~executions[t.id].executed
                               /\ \A j \in 1 .. n : frames[j].id = t.id => j = n
       /\ t.id \notin overwritten => executions[t.id].call = t.call
  BY <1>1, <1>6, <1>12 DEF Inv, FramesSound
<1>14. RunsOnce'
  <2> DEFINE t1 == ran'[t.id]
  <2>1. t1 # <<>> /\ (t.id \notin rerun => t1 = <<t.call>>)
    <3>1. t.id \notin rerun => ran[t.id] = <<>>
      BY <1>3, <1>6, <1>13 DEF Inv, RunsOnce
    <3>2. Append(<<>>, t.call) = <<t.call>>
      OBVIOUS
    <3>3. Append(ran[t.id], t.call) # <<>>
      <4>1. ran[t.id] \in Seq(Calls \cup {NoCall}) /\ t.call \in Calls \cup {NoCall}
        BY <1>3, <1>6, <1>7
      <4> QED  BY <4>1, AppendProperties
    <3> QED  BY <1>9, <3>1, <3>2, <3>3
  <2>2. Len(<<t.call>>) <= 1
    OBVIOUS
  <2>3. t.id \notin overwritten => executions'[t.id].call = t.call
    BY <1>3, <1>6, <1>8, <1>13
  <2>4. ASSUME NEW id \in Id
        PROVE  /\ executions'[id].executed <=> ran'[id] # <<>>
               /\ id \notin rerun => Len(ran'[id]) <= 1
               /\ id \notin rerun \cup overwritten => ran'[id] \in {<<>>, <<executions'[id].call>>}
    <3>1. CASE id = t.id
      BY <1>8, <2>1, <2>2, <2>3, <3>1
    <3>2. CASE id # t.id
      BY <1>8, <1>9, <3>2 DEF Inv, RunsOnce
    <3> QED  BY <3>1, <3>2
  <2> QED  BY <1>2, <2>4 DEF RunsOnce
<1>15. Fresh'
  <2> SUFFICES ASSUME NEW id \in Id, executions'[id].call # NoCall
               PROVE  id < executionNonce' \/ (id = executionNonce' /\ Uncounted(id)')
    BY DEF Fresh
  <2>1. id < executionNonce \/ (id = executionNonce /\ Uncounted(id))
    BY <1>8 DEF Inv, Fresh
  <2>2. id \in Nat
    BY DEF Id
  <2>3. CASE t.counted
    BY <1>2, <1>6, <1>10, <2>1, <2>2, <2>3 DEF Counted
  <2>4. CASE ~t.counted
    <3>1. executionNonce' = executionNonce
      BY <1>2, <1>6, <2>4 DEF Counted
    <3>2. Uncounted(id) => Uncounted(id)'
      <4> SUFFICES ASSUME NEW i \in 1 .. n, frames[i].counted, frames[i].id = id
                   PROVE  Uncounted(id)'
        BY <1>1 DEF Uncounted
      <4>1. i # n
        BY <1>6, <2>4
      <4>2. i \in 1 .. n - 1
        BY <1>1, <4>1
      <4> QED  BY <1>4, <4>2 DEF Uncounted
    <3> QED  BY <2>1, <3>1, <3>2
  <2> QED  BY <2>3, <2>4
<1>16. FramesSound'
  <2> SUFFICES ASSUME NEW i \in 1 .. n - 1
               PROVE  /\ frames[i].id \notin rerun =>
                           /\ ~executions'[frames[i].id].executed
                           /\ \A j \in 1 .. n - 1 : frames[j].id = frames[i].id => j = i
                      /\ frames[i].id \notin overwritten => executions'[frames[i].id].call = frames[i].call
    BY <1>2, <1>4 DEF FramesSound
  <2>1. i \in 1 .. n /\ i # n /\ \A j \in 1 .. n - 1 : j \in 1 .. n
    BY <1>1
  <2>2. /\ frames[i].id \notin rerun =>
             /\ ~executions[frames[i].id].executed
             /\ \A j \in 1 .. n : frames[j].id = frames[i].id => j = i
        /\ frames[i].id \notin overwritten => executions[frames[i].id].call = frames[i].call
    BY <1>1, <2>1 DEF Inv, FramesSound
  <2>3. frames[i].id \notin rerun => frames[i].id # t.id
    BY <1>13, <2>1
  <2> QED  BY <1>5, <1>8, <2>1, <2>2, <2>3
<1>17. Requests
  BY <1>8 DEF Requests
<1> QED  BY <1>11, <1>14, <1>15, <1>16, <1>17 DEF Inv

-----------------------------------------------------------------------------

LEMMA InitSound == Init => Inv
<1> SUFFICES ASSUME Init PROVE Inv
  OBVIOUS
<1>1. /\ \A id \in Id : executions[id] = NoExecution /\ ran[id] = <<>>
      /\ frames = <<>> /\ calling = NoCall /\ rerun = {} /\ overwritten = {} /\ executionNonce = 0
  BY DEF Init
<1>2. executions \in [Id -> Execution] /\ NoExecution.call = NoCall /\ ~NoExecution.executed
  BY DEF Init, NoExecution, Execution
<1>3. ran \in [Id -> Seq(Calls \cup {NoCall})] /\ frames \in Seq(Frame) /\ DOMAIN frames = {}
  BY <1>1 DEF Init
<1>4. ExecutionsTyped
  BY <1>1, <1>2, <1>3 DEF ExecutionsTyped
<1>5. RunsOnce
  BY <1>1, <1>2 DEF RunsOnce
<1>6. Fresh /\ FramesSound
  BY <1>1, <1>2, <1>3 DEF Fresh, FramesSound
<1> QED  BY <1>4, <1>5, <1>6 DEF Inv

LEMMA ApproveSound ==
  ASSUME Inv, NEW sender, NEW id \in Id, NEW yes \in BOOLEAN, approve(sender, id, yes)
  PROVE  Inv' /\ Requests
<1>1. executions \in [Id -> Execution] /\ executions[id] \in Execution
  BY DEF Inv, ExecutionsTyped
<1>2. Written(id, executions[id].call, FALSE)
  BY DEF approve, Written, Inv, ExecutionsTyped
<1>3. CASE yes
  <2>1. Run(id, executions[id].call, FALSE) /\ executions[id].call \in Calls \cup {NoCall}
    BY <1>1, <1>3 DEF approve, Execution
  <2> QED  BY <1>2, <2>1, RunSound
<1>4. CASE ~yes
  <2> DEFINE e == [executions[id] EXCEPT !.approved = FALSE]
  <2>1. e \in Execution /\ e.executed = executions[id].executed /\ e.call = executions[id].call
    BY <1>1 DEF Execution
  <2>2. executions' = [executions EXCEPT ![id] = e]
    BY <1>1, <1>4 DEF approve, Execution
  <2> HIDE DEF e
  <2>3. Counted(FALSE) /\ calling' = NoCall /\ UNCHANGED <<frames, ran, rerun>> /\ ~e.executed
    BY <1>4, <2>1 DEF approve, Counted
  <2> QED  BY <1>2, <2>1, <2>2, <2>3, NotedSound
<1> QED  BY <1>3, <1>4

LEMMA ExecuteSound ==
  ASSUME Inv, NEW sender, NEW asked \in Calls, execute(sender, asked)
  PROVE  Inv' /\ Requests
<1>1. /\ executionNonce \in Id /\ ~executions[executionNonce].executed
      /\ executions \in [Id -> Execution] /\ executions[executionNonce] \in Execution
  BY CallsAssumption DEF execute, Id, Inv, ExecutionsTyped
<1>2. Written(executionNonce, asked, TRUE)
  BY <1>1 DEF execute, Overwriting, Written, Inv, ExecutionsTyped
<1>3. CASE Run(executionNonce, asked, TRUE)
  BY <1>1, <1>2, <1>3, RunSound
<1>4. CASE Request(asked) /\ Counted(TRUE)
  <2> DEFINE e == [executions[executionNonce] EXCEPT !.call = asked]
  <2>1. e \in Execution /\ e.executed = executions[executionNonce].executed /\ e.call = asked
    BY <1>1 DEF Execution
  <2>2. executions' = [executions EXCEPT ![executionNonce] = e]
    BY <1>1, <1>4 DEF Request, Execution
  <2> HIDE DEF e
  <2>3. calling' = NoCall /\ UNCHANGED <<frames, ran, rerun>> /\ ~e.executed
    BY <1>1, <1>4, <2>1 DEF Request
  <2> QED  BY <1>1, <1>2, <1>4, <2>1, <2>2, <2>3, NotedSound
<1> QED  BY <1>3, <1>4 DEF execute

\* What the identity is about to call of itself is among the calls requested.
LEMMA CallsOfSelf ==
  ASSUME Inv, CallSelf
  PROVE  \/ \E id \in Id, yes \in BOOLEAN : approve(Self, id, yes)
         \/ \E asked \in Calls : execute(Self, asked)
<1>1. calling \in Calls \ {Outside}
  BY DEF Inv, ExecutionsTyped, CallSelf
<1>2. /\ calling.op = "execute" => calling.call \in Calls
      /\ calling.op = "approve" => calling.request \in Id /\ calling.yes \in BOOLEAN
  BY <1>1, CallsAssumption DEF Id
<1> QED  BY <1>2 DEF CallSelf

LEMMA StepSound == Inv /\ [Next]_vars => Inv' /\ (Requests \/ UNCHANGED vars)
<1> SUFFICES ASSUME Inv, [Next]_vars PROVE Inv' /\ (Requests \/ UNCHANGED vars)
  OBVIOUS
<1>1. ASSUME Kept PROVE Inv' /\ Requests
  <2>1. ExecutionsTyped' /\ RunsOnce' /\ Fresh' /\ FramesSound'
    BY <1>1 DEF Kept, Inv, ExecutionsTyped, RunsOnce, Fresh, FramesSound, Uncounted
  <2> QED  BY <1>1, <2>1 DEF Kept, Inv, Requests
<1>2. CASE UNCHANGED vars
  BY <1>1, <1>2 DEF vars, Kept
<1>3. ASSUME NEW sender \in Account, Step(sender) PROVE Inv' /\ Requests
  BY <1>1, <1>3, StepsOfExecutions, ApproveSound, ExecuteSound
<1>4. CASE CallSelf
  BY <1>4, CallsOfSelf, ApproveSound, ExecuteSound
<1>5. CASE Return
  BY <1>5, ReturnSound
<1>6. Senders \subseteq Account
  BY CallsAssumption DEF Senders
<1> QED  BY <1>2, <1>3, <1>4, <1>5, <1>6 DEF Next

\* Whatever is requested and approved, in any order and from within any call, takes
\* effect once at most and as its record names it, unless its own call has it run again
\* or puts another in its place.
THEOREM ExecutionsRunOnce == Spec => []RunsOnce
<1>1. Inv => RunsOnce
  BY DEF Inv
<1> QED  BY <1>1, InitSound, StepSound, PTL DEF Spec

\* What is approved is what was requested, once execute has counted the request.
THEOREM RequestsAreFixed == Spec => RequestsFixed
<1> DEFINE Fixed == \A id \in Id :
             executions[id].call # NoCall
               /\ (\A i \in DOMAIN frames : frames[i].counted => frames[i].id # id)
             => executions'[id].call = executions[id].call
<1>1. Requests => Fixed
  BY DEF Requests, Uncounted
<1>2. Inv /\ [Next]_vars => [Fixed]_vars
  BY <1>1, StepSound
<1>3. Spec => []Inv
  BY InitSound, StepSound, PTL DEF Spec
<1>4. Spec => [][Fixed]_vars
  BY <1>2, <1>3, PTL DEF Spec
<1> QED  BY <1>4 DEF RequestsFixed

-----------------------------------------------------------------------------
(* Counting in a list.                                                       *)

Positions(s, x) == {i \in DOMAIN s : s[i] = x}

LEMMA PositionsFinite ==
  ASSUME NEW S, NEW s \in Seq(S), NEW x
  PROVE  /\ IsFiniteSet(Positions(s, x))
         /\ Occurrences(s, x) = Cardinality(Positions(s, x))
         /\ Occurrences(s, x) \in Nat
         /\ Occurrences(s, x) = 0 <=> \A i \in DOMAIN s : s[i] # x
<1>1. DOMAIN s = 1 .. Len(s) /\ Len(s) \in Nat
  BY LenProperties
<1>2. IsFiniteSet(DOMAIN s)
  BY <1>1, FS_Interval
<1>3. Positions(s, x) \in SUBSET DOMAIN s
  BY DEF Positions
<1>4. IsFiniteSet(Positions(s, x))
  BY <1>2, <1>3, FS_Subset
<1>5. Occurrences(s, x) = Cardinality(Positions(s, x))
  BY DEF Occurrences, Positions
<1>6. Cardinality(Positions(s, x)) \in Nat
  BY <1>4, FS_CardinalityType
<1>7. Cardinality(Positions(s, x)) = 0 <=> Positions(s, x) = {}
  BY <1>4, FS_EmptySet
<1>8. Positions(s, x) = {} <=> \A i \in DOMAIN s : s[i] # x
  BY DEF Positions
<1> QED  BY <1>4, <1>5, <1>6, <1>7, <1>8

\* Appending adds one occurrence of what is appended.
LEMMA OccurrencesAppend ==
  ASSUME NEW S, NEW s \in Seq(S), NEW e \in S, NEW x
  PROVE  Occurrences(Append(s, e), x) = IF e = x THEN Occurrences(s, x) + 1 ELSE Occurrences(s, x)
<1> DEFINE n == Len(s)
           t == Append(s, e)
<1>1. n \in Nat /\ DOMAIN s = 1 .. n
  BY LenProperties
<1>2. t \in Seq(S) /\ Len(t) = n + 1 /\ t[n + 1] = e /\ \A i \in 1 .. n : t[i] = s[i]
  BY AppendProperties
<1>3. DOMAIN t = 1 .. n + 1
  BY <1>2, LenProperties
<1> HIDE DEF n, t
<1>4. Positions(t, x) = IF e = x THEN Positions(s, x) \cup {n + 1} ELSE Positions(s, x)
  BY <1>1, <1>2, <1>3 DEF Positions
<1>5. n + 1 \notin Positions(s, x)
  BY <1>1 DEF Positions
<1>6. e = x => Cardinality(Positions(t, x)) = Cardinality(Positions(s, x)) + 1
  <2>1. IsFiniteSet(Positions(s, x))
    BY PositionsFinite
  <2> QED  BY <1>4, <1>5, <2>1, FS_AddElement
<1>7. e # x => Cardinality(Positions(t, x)) = Cardinality(Positions(s, x))
  BY <1>4
<1>8. Occurrences(t, x) = Cardinality(Positions(t, x)) /\ Occurrences(s, x) = Cardinality(Positions(s, x))
  BY <1>2, PositionsFinite
<1> QED  BY <1>6, <1>7, <1>8 DEF t

\* What WithoutFirst takes out: the first place, filled by the last element.
LEMMA WithoutFirstIs ==
  ASSUME NEW S, NEW s \in Seq(S), NEW x, \E i \in DOMAIN s : s[i] = x
  PROVE  \E first \in 1 .. Len(s) :
           /\ s[first] = x
           /\ WithoutFirst(s, x) \in Seq(S)
           /\ Len(WithoutFirst(s, x)) = Len(s) - 1
           /\ DOMAIN WithoutFirst(s, x) = 1 .. Len(s) - 1
           /\ \A j \in 1 .. Len(s) - 1 :
                WithoutFirst(s, x)[j] = IF j = first THEN s[Len(s)] ELSE s[j]
<1> DEFINE n == Len(s)
           Least(i) == s[i] = x /\ \A j \in 1 .. i - 1 : s[j] # x
           first == CHOOSE i \in DOMAIN s : Least(i)
           t == [j \in 1 .. n - 1 |-> IF j = first THEN s[n] ELSE s[j]]
<1>1. n \in Nat /\ DOMAIN s = 1 .. n /\ \A i \in 1 .. n : s[i] \in S
  BY LenProperties, ElementOfSeq
<1>2. n >= 1 /\ s[n] \in S
  BY <1>1
<1>3. \E i \in DOMAIN s : Least(i)
  <2> DEFINE T == {i \in DOMAIN s : s[i] = x}
  <2>1. T \subseteq Nat /\ T # {}
    BY <1>1
  <2>2. PICK m \in T : \A i \in T : m <= i
    BY <2>1, LeastNumber
  <2>3. \A j \in 1 .. m - 1 : j \in DOMAIN s /\ ~(m <= j)
    BY <1>1, <2>2
  <2> QED  BY <2>2, <2>3
<1>4. first \in 1 .. n /\ s[first] = x
  BY <1>1, <1>3
<1>5. WithoutFirst(s, x) = t
  BY DEF WithoutFirst
<1> HIDE DEF first
<1>6. n - 1 \in Nat /\ \A j \in 1 .. n - 1 : t[j] \in S
  BY <1>1, <1>2
<1>7. t \in Seq(S) /\ Len(t) = n - 1
  <2>1. t \in [1 .. n - 1 -> S]
    BY <1>6
  <2> QED  BY <1>6, <2>1, SeqDef
<1>8. DOMAIN t = 1 .. n - 1 /\ \A j \in 1 .. n - 1 : t[j] = IF j = first THEN s[n] ELSE s[j]
  OBVIOUS
<1> QED  BY <1>4, <1>5, <1>7, <1>8

\* WithoutFirst takes out one occurrence, if there is one, and no other element.
LEMMA OccurrencesWithout ==
  ASSUME NEW S, NEW s \in Seq(S), NEW x, NEW y
  PROVE  /\ WithoutFirst(s, x) \in Seq(S)
         /\ Occurrences(WithoutFirst(s, x), y) =
              IF y = x /\ Occurrences(s, x) > 0 THEN Occurrences(s, y) - 1 ELSE Occurrences(s, y)
<1>1. CASE \A i \in DOMAIN s : s[i] # x
  <2>1. Occurrences(s, x) = 0
    BY <1>1, PositionsFinite
  <2>2. WithoutFirst(s, x) = s
    BY <1>1 DEF WithoutFirst
  <2> QED  BY <2>1, <2>2
<1>2. CASE \E i \in DOMAIN s : s[i] = x
  <2> DEFINE n == Len(s)
             t == WithoutFirst(s, x)
             P == Positions(s, y)
             Q == Positions(t, y)
  <2>1. PICK f \in 1 .. n :
          /\ s[f] = x
          /\ t \in Seq(S)
          /\ DOMAIN t = 1 .. n - 1
          /\ \A j \in 1 .. n - 1 : t[j] = IF j = f THEN s[n] ELSE s[j]
    BY <1>2, WithoutFirstIs
  <2>2. n \in Nat /\ DOMAIN s = 1 .. n
    BY LenProperties
  <2>3. Occurrences(s, x) \in Nat /\ Occurrences(s, x) > 0
    BY <1>2, PositionsFinite
  <2>4. /\ IsFiniteSet(P) /\ Occurrences(s, y) = Cardinality(P)
        /\ IsFiniteSet(Q) /\ Occurrences(t, y) = Cardinality(Q)
    BY <2>1, PositionsFinite
  <2> HIDE DEF n, t
  <2>5. CASE y = x
    <3>1. Q = IF s[n] = x THEN P \ {n} ELSE P \ {f}
      BY <2>1, <2>2, <2>5 DEF Positions
    <3>2. f \in P /\ (s[n] = x => n \in P)
      BY <2>1, <2>2, <2>5 DEF Positions
    <3>3. Cardinality(Q) = Cardinality(P) - 1
      <4>1. CASE s[n] = x
        BY <3>1, <3>2, <2>4, <4>1, FS_RemoveElement
      <4>2. CASE s[n] # x
        BY <3>1, <3>2, <2>4, <4>2, FS_RemoveElement
      <4> QED  BY <4>1, <4>2
    <3> QED  BY <2>1, <2>3, <2>4, <2>5, <3>3 DEF t
  <2>6. CASE y # x
    <3>1. f \notin P
      BY <2>1, <2>6 DEF Positions
    <3>2. CASE s[n] = y
      <4>1. Q = (P \ {n}) \cup {f} /\ n \in P /\ f \notin P \ {n}
        BY <2>1, <2>2, <2>6, <3>1, <3>2 DEF Positions
      <4>2. IsFiniteSet(P \ {n}) /\ Cardinality(P \ {n}) = Cardinality(P) - 1
        BY <2>4, <4>1, FS_RemoveElement
      <4>3. Cardinality(Q) = Cardinality(P \ {n}) + 1
        BY <4>1, <4>2, FS_AddElement
      <4>4. Cardinality(P) \in Nat
        BY <2>4, FS_CardinalityType
      <4> QED  BY <2>1, <2>4, <2>6, <4>2, <4>3, <4>4 DEF t
    <3>3. CASE s[n] # y
      <4>1. Q = P
        BY <2>1, <2>2, <2>6, <3>3 DEF Positions
      <4> QED  BY <2>1, <2>4, <2>6, <4>1 DEF t
    <3> QED  BY <3>2, <3>3
  <2> QED  BY <2>5, <2>6
<1> QED  BY <1>1, <1>2

-----------------------------------------------------------------------------
(* Keys and claims stay where the records say they are.                      *)

KeysAgree(h) ==
  \A key \in Account :
    /\ h.keys[key].held <=> h.keys[key].purposes # <<>>
    /\ \A purpose \in Purpose :
         /\ Occurrences(h.keysByPurpose[purpose], key) = Occurrences(h.keys[key].purposes, purpose)
         /\ Occurrences(h.keysByPurpose[purpose], key) <= 1

ClaimsIndexed(h) ==
  /\ \A id \in ClaimId :
       h.claims[id] # NoClaim /\ id[1] # NullAddr => Occurrences(h.byTopic[id[2]], id) > 0
  /\ \A t \in Topic : \A i \in DOMAIN h.byTopic[t] : h.byTopic[t][i][2] = t

HolderSound(h) == h \in Holder /\ KeysAgree(h) /\ ClaimsIndexed(h)

Key == [held : BOOLEAN, purposes : Seq(Purpose)]

\* What is in a list of nothing, and of one.
LEMMA OccurrencesFew ==
  /\ \A x : Occurrences(<<>>, x) = 0
  /\ \A e, x : Occurrences(<<e>>, x) = IF e = x THEN 1 ELSE 0
<1>1. \A x : Occurrences(<<>>, x) = 0
  <2> TAKE x
  <2>1. Positions(<<>>, x) = {}
    BY DEF Positions
  <2> QED  BY <2>1, FS_EmptySet DEF Occurrences, Positions
<1>2. \A e, x : Occurrences(<<e>>, x) = IF e = x THEN 1 ELSE 0
  <2> TAKE e, x
  <2>1. Positions(<<e>>, x) = IF e = x THEN {1} ELSE {}
    BY DEF Positions
  <2> QED  BY <2>1, FS_EmptySet, FS_Singleton DEF Occurrences, Positions
<1> QED  BY <1>1, <1>2

\* A change of one key and one list of keys.
Rewritten(h, g, key, k, purpose, s) ==
  /\ g.keys[key] = k /\ \A x \in Account \ {key} : g.keys[x] = h.keys[x]
  /\ g.keysByPurpose[purpose] = s
  /\ \A p \in Purpose \ {purpose} : g.keysByPurpose[p] = h.keysByPurpose[p]
  /\ g.claims = h.claims /\ g.byTopic = h.byTopic

LEMMA HolderWithKeys ==
  ASSUME NEW h \in Holder, NEW key \in Account, NEW purpose \in Purpose,
         NEW k \in Key, NEW s \in Seq(Account), NEW g,
         g = [h EXCEPT !.keys[key] = k, !.keysByPurpose[purpose] = s]
  PROVE  g \in Holder /\ Rewritten(h, g, key, k, purpose, s)
<1>1. /\ h.keys \in [Account -> Key]
      /\ h.keysByPurpose \in [Purpose -> Seq(Account)]
      /\ h.claims \in [ClaimId -> [issuer : Issuer, content : Content \cup {NoContent}]]
      /\ h.byTopic \in [Topic -> Seq(ClaimId)]
  BY DEF Holder, Key
<1>2. g = [keys |-> [h.keys EXCEPT ![key] = k],
           keysByPurpose |-> [h.keysByPurpose EXCEPT ![purpose] = s],
           claims |-> h.claims, byTopic |-> h.byTopic]
  BY DEF Holder
<1>3. /\ [h.keys EXCEPT ![key] = k] \in [Account -> Key]
      /\ [h.keysByPurpose EXCEPT ![purpose] = s] \in [Purpose -> Seq(Account)]
  BY <1>1
<1>4. g \in Holder
  <2>1. PICK a, b, c, d : /\ a = [h.keys EXCEPT ![key] = k] /\ c = h.claims
                          /\ b = [h.keysByPurpose EXCEPT ![purpose] = s] /\ d = h.byTopic
    OBVIOUS
  <2>2. g = [keys |-> a, keysByPurpose |-> b, claims |-> c, byTopic |-> d]
    BY <1>2, <2>1
  <2>3. /\ a \in [Account -> Key]
        /\ b \in [Purpose -> Seq(Account)]
        /\ c \in [ClaimId -> [issuer : Issuer, content : Content \cup {NoContent}]]
        /\ d \in [Topic -> Seq(ClaimId)]
    BY <1>1, <1>3, <2>1
  <2> QED  BY <2>2, <2>3 DEF Holder, Key
<1>5. g.keys = [h.keys EXCEPT ![key] = k] /\ g.keysByPurpose = [h.keysByPurpose EXCEPT ![purpose] = s]
      /\ g.claims = h.claims /\ g.byTopic = h.byTopic
  BY <1>2
<1>6. g.keys[key] = k /\ \A x \in Account \ {key} : g.keys[x] = h.keys[x]
  BY <1>1, <1>5
<1>7. g.keysByPurpose[purpose] = s
      /\ \A p \in Purpose \ {purpose} : g.keysByPurpose[p] = h.keysByPurpose[p]
  BY <1>1, <1>5
<1> QED  BY <1>4, <1>5, <1>6, <1>7 DEF Rewritten

LEMMA HeldKeys ==
  ASSUME NEW h \in Holder, NEW key \in Account
  PROVE  /\ h.keys[key] \in Key
         /\ h.keys[key].held \in BOOLEAN
         /\ h.keys[key].purposes \in Seq(Purpose)
         /\ \A p \in Purpose : h.keysByPurpose[p] \in Seq(Account)
         /\ \A t \in Topic : h.byTopic[t] \in Seq(ClaimId)
BY DEF Holder, Key

\* A key that is not held can be added.
LEMMA KeyAdded ==
  ASSUME NEW h, HolderSound(h), NEW key \in Account, NEW purpose \in Purpose,
         ~h.keys[key].held
  PROVE  HolderSound(WithKey(h, key, purpose))
<1> DEFINE g == WithKey(h, key, purpose)
           k == [held |-> TRUE, purposes |-> <<purpose>>]
           s == Append(h.keysByPurpose[purpose], key)
<1>1. /\ h \in Holder
      /\ h.keys[key].purposes = <<>>
      /\ h.keysByPurpose[purpose] \in Seq(Account)
      /\ \A p \in Purpose : h.keysByPurpose[p] \in Seq(Account)
  BY HeldKeys DEF HolderSound, KeysAgree
<1>2. s \in Seq(Account)
  BY <1>1, AppendProperties
<1>3. k \in Key
  BY DEF Key
<1>4. g = [h EXCEPT !.keys[key] = k, !.keysByPurpose[purpose] = s]
  BY <1>1 DEF WithKey
<1>5. \A x \in Account : Occurrences(s, x) =
        IF key = x THEN Occurrences(h.keysByPurpose[purpose], x) + 1
                   ELSE Occurrences(h.keysByPurpose[purpose], x)
  BY <1>1, OccurrencesAppend
<1>6. k.held = TRUE /\ k.purposes = <<purpose>> /\ k.purposes # <<>>
  OBVIOUS
<1> HIDE DEF g, k, s
<1>7. /\ g \in Holder
      /\ g.keys[key] = k /\ \A x \in Account \ {key} : g.keys[x] = h.keys[x]
      /\ g.keysByPurpose[purpose] = s
      /\ \A p \in Purpose \ {purpose} : g.keysByPurpose[p] = h.keysByPurpose[p]
      /\ g.claims = h.claims /\ g.byTopic = h.byTopic
  <2>1. g \in Holder /\ Rewritten(h, g, key, k, purpose, s)
    BY <1>1, <1>2, <1>3, <1>4, HolderWithKeys
  <2> QED  BY <2>1 DEF Rewritten
<1>8. \A p \in Purpose : Occurrences(h.keysByPurpose[p], key) = 0
  BY <1>1, OccurrencesFew DEF HolderSound, KeysAgree
<1>9. KeysAgree(g)
  <2> SUFFICES ASSUME NEW x \in Account
               PROVE  /\ g.keys[x].held <=> g.keys[x].purposes # <<>>
                      /\ \A p \in Purpose :
                           /\ Occurrences(g.keysByPurpose[p], x) = Occurrences(g.keys[x].purposes, p)
                           /\ Occurrences(g.keysByPurpose[p], x) <= 1
    BY DEF KeysAgree
  <2>1. CASE x = key
    <3>1. \A p \in Purpose : Occurrences(g.keysByPurpose[p], x) = IF p = purpose THEN 1 ELSE 0
      BY <1>5, <1>7, <1>8, <2>1
    <3>2. \A p \in Purpose : Occurrences(g.keys[x].purposes, p) = IF p = purpose THEN 1 ELSE 0
      <4>1. g.keys[x].purposes = <<purpose>>
        BY <1>6, <1>7, <2>1
      <4>2. \A p : Occurrences(<<purpose>>, p) = IF purpose = p THEN 1 ELSE 0
        BY OccurrencesFew, Zenon
      <4> QED  BY <4>1, <4>2
    <3>3. g.keys[x].held <=> g.keys[x].purposes # <<>>
      BY <1>6, <1>7, <2>1, Zenon
    <3>4. \A p \in Purpose : Occurrences(g.keysByPurpose[p], x) <= 1
      BY <3>1
    <3> QED  BY <3>1, <3>2, <3>3, <3>4
  <2>2. CASE x # key
    <3>1. g.keys[x] = h.keys[x]
      BY <1>7, <2>2
    <3>2. \A p \in Purpose : Occurrences(g.keysByPurpose[p], x) = Occurrences(h.keysByPurpose[p], x)
      BY <1>5, <1>7, <2>2
    <3> QED  BY <3>1, <3>2 DEF HolderSound, KeysAgree
  <2> QED  BY <2>1, <2>2
<1>10. ClaimsIndexed(g)
  BY <1>7 DEF HolderSound, ClaimsIndexed
<1> QED  BY <1>7, <1>9, <1>10 DEF HolderSound, g

\* A key can be removed from any purpose, its own or not.
LEMMA KeyRemoved ==
  ASSUME NEW h, HolderSound(h), NEW key \in Account, NEW purpose \in Purpose
  PROVE  HolderSound(WithoutKey(h, key, purpose))
<1> DEFINE g == WithoutKey(h, key, purpose)
           left == WithoutFirst(h.keys[key].purposes, purpose)
           k == IF left = <<>> THEN NoKey ELSE [held |-> TRUE, purposes |-> left]
           s == WithoutFirst(h.keysByPurpose[purpose], key)
<1>1. /\ h \in Holder
      /\ h.keys[key].purposes \in Seq(Purpose)
      /\ \A p \in Purpose : h.keysByPurpose[p] \in Seq(Account)
  BY HeldKeys DEF HolderSound
<1>2. /\ s \in Seq(Account)
      /\ \A x \in Account : Occurrences(s, x) =
           IF x = key /\ Occurrences(h.keysByPurpose[purpose], key) > 0
           THEN Occurrences(h.keysByPurpose[purpose], x) - 1
           ELSE Occurrences(h.keysByPurpose[purpose], x)
  BY <1>1, OccurrencesWithout
<1>3. /\ left \in Seq(Purpose)
      /\ \A p \in Purpose : Occurrences(left, p) =
           IF p = purpose /\ Occurrences(h.keys[key].purposes, purpose) > 0
           THEN Occurrences(h.keys[key].purposes, p) - 1
           ELSE Occurrences(h.keys[key].purposes, p)
  BY <1>1, OccurrencesWithout
<1>4. g = [h EXCEPT !.keys[key] = k, !.keysByPurpose[purpose] = s]
  BY <1>1 DEF WithoutKey
<1> HIDE DEF left
<1>5. <<>> \in Seq(Purpose)
  BY EmptySeq
<1>6. k \in Key /\ (k.held <=> k.purposes # <<>>) /\ k.purposes = left
  BY <1>3, <1>5 DEF Key, NoKey
<1> HIDE DEF g, k, s
<1>7. /\ g \in Holder
      /\ g.keys[key] = k /\ \A x \in Account \ {key} : g.keys[x] = h.keys[x]
      /\ g.keysByPurpose[purpose] = s
      /\ \A p \in Purpose \ {purpose} : g.keysByPurpose[p] = h.keysByPurpose[p]
      /\ g.claims = h.claims /\ g.byTopic = h.byTopic
  <2>1. g \in Holder /\ Rewritten(h, g, key, k, purpose, s)
    BY <1>1, <1>2, <1>4, <1>6, HolderWithKeys
  <2> QED  BY <2>1 DEF Rewritten
<1>8. \A x \in Account, p \in Purpose :
        /\ Occurrences(h.keysByPurpose[p], x) = Occurrences(h.keys[x].purposes, p)
        /\ Occurrences(h.keysByPurpose[p], x) <= 1
        /\ Occurrences(h.keysByPurpose[p], x) \in Nat
  BY <1>1, PositionsFinite DEF HolderSound, KeysAgree
<1>9. KeysAgree(g)
  <2> SUFFICES ASSUME NEW x \in Account
               PROVE  /\ g.keys[x].held <=> g.keys[x].purposes # <<>>
                      /\ \A p \in Purpose :
                           /\ Occurrences(g.keysByPurpose[p], x) = Occurrences(g.keys[x].purposes, p)
                           /\ Occurrences(g.keysByPurpose[p], x) <= 1
    BY DEF KeysAgree
  <2>1. CASE x = key
    <3>1. ASSUME NEW p \in Purpose
          PROVE  /\ Occurrences(g.keysByPurpose[p], x) = Occurrences(g.keys[x].purposes, p)
                 /\ Occurrences(g.keysByPurpose[p], x) <= 1
      <4> DEFINE n == Occurrences(h.keysByPurpose[p], key)
      <4>1. n \in Nat /\ n <= 1 /\ Occurrences(h.keys[key].purposes, p) = n
        BY <1>8
      <4>2. Occurrences(g.keysByPurpose[p], x) = IF p = purpose /\ n > 0 THEN n - 1 ELSE n
        <5>1. CASE p = purpose
          BY <1>2, <1>7, <2>1, <5>1
        <5>2. CASE p # purpose
          BY <1>7, <2>1, <5>2
        <5> QED  BY <5>1, <5>2
      <4>3. Occurrences(g.keys[x].purposes, p) = IF p = purpose /\ n > 0 THEN n - 1 ELSE n
        <5>1. g.keys[x].purposes = left
          BY <1>6, <1>7, <2>1
        <5> QED  BY <1>3, <4>1, <5>1
      <4> HIDE DEF n
      <4> QED  BY <4>1, <4>2, <4>3
    <3>2. g.keys[x].held <=> g.keys[x].purposes # <<>>
      BY <1>6, <1>7, <2>1, Zenon
    <3> QED  BY <3>1, <3>2
  <2>2. CASE x # key
    <3>1. g.keys[x] = h.keys[x]
      BY <1>7, <2>2
    <3>2. \A p \in Purpose : Occurrences(g.keysByPurpose[p], x) = Occurrences(h.keysByPurpose[p], x)
      BY <1>2, <1>7, <2>2
    <3> QED  BY <3>1, <3>2 DEF HolderSound, KeysAgree
  <2> QED  BY <2>1, <2>2
<1>10. ClaimsIndexed(g)
  BY <1>7 DEF HolderSound, ClaimsIndexed
<1> QED  BY <1>7, <1>9, <1>10 DEF HolderSound, g

\* What adding claims leaves: every key, and every claim there was.
ClaimsKept(h, g) ==
  /\ g.keys = h.keys /\ g.keysByPurpose = h.keysByPurpose
  /\ \A id \in ClaimId : h.claims[id] # NoClaim => g.claims[id] # NoClaim

ClaimRecord == [issuer : Issuer, content : Content \cup {NoContent}]

\* A claim can be added, anew or in place of the one before.
LEMMA ClaimAdded ==
  ASSUME NEW h, HolderSound(h), NEW id \in ClaimId, NEW content \in Content
  PROVE  /\ HolderSound(WithClaim(h, id, content))
         /\ ClaimsKept(h, WithClaim(h, id, content))
<1> DEFINE g == WithClaim(h, id, content)
           c == [issuer |-> id[1], content |-> content]
           s == IF h.claims[id].issuer # id[1] THEN Append(h.byTopic[id[2]], id) ELSE h.byTopic[id[2]]
<1>1. /\ h \in Holder
      /\ h.keys \in [Account -> Key]
      /\ h.keysByPurpose \in [Purpose -> Seq(Account)]
      /\ h.claims \in [ClaimId -> ClaimRecord]
      /\ h.byTopic \in [Topic -> Seq(ClaimId)]
  BY DEF HolderSound, Holder, Key, ClaimRecord
<1>2. id[1] \in Issuer /\ id[2] \in Topic /\ h.byTopic[id[2]] \in Seq(ClaimId)
  BY <1>1 DEF ClaimId
<1>3. c \in ClaimRecord /\ c # NoClaim
  BY <1>2, IdentityAssumption DEF ClaimRecord, NoClaim
<1>4. s \in Seq(ClaimId)
  BY <1>2, AppendProperties
<1>5. g = [keys |-> h.keys, keysByPurpose |-> h.keysByPurpose,
           claims |-> [h.claims EXCEPT ![id] = c], byTopic |-> [h.byTopic EXCEPT ![id[2]] = s]]
  <2>1. g = [h EXCEPT !.claims = [h.claims EXCEPT ![id] = c],
                      !.byTopic = [h.byTopic EXCEPT ![id[2]] = s]]
    BY DEF WithClaim
  <2>2. h = [keys |-> h.keys, keysByPurpose |-> h.keysByPurpose,
             claims |-> h.claims, byTopic |-> h.byTopic]
    BY <1>1 DEF Holder
  <2> HIDE DEF g, c, s
  <2> QED  BY <2>1, <2>2
<1> HIDE DEF s, c, g
<1>6. /\ g.keys = h.keys /\ g.keysByPurpose = h.keysByPurpose
      /\ g.claims = [h.claims EXCEPT ![id] = c]
      /\ g.byTopic = [h.byTopic EXCEPT ![id[2]] = s]
  BY <1>5
<1>7. g \in Holder
  <2>1. [h.claims EXCEPT ![id] = c] \in [ClaimId -> ClaimRecord]
    BY <1>1, <1>3
  <2>2. [h.byTopic EXCEPT ![id[2]] = s] \in [Topic -> Seq(ClaimId)]
    BY <1>1, <1>4
  <2> QED  BY <1>1, <1>5, <2>1, <2>2 DEF Holder, Key, ClaimRecord
<1>8. /\ g.claims[id] = c
      /\ \A x \in ClaimId \ {id} : g.claims[x] = h.claims[x]
      /\ g.byTopic[id[2]] = s
      /\ \A t \in Topic \ {id[2]} : g.byTopic[t] = h.byTopic[t]
  BY <1>1, <1>2, <1>6
<1>9. ClaimsKept(h, g)
  BY <1>3, <1>6, <1>8 DEF ClaimsKept
<1>10. KeysAgree(g)
  BY <1>6 DEF HolderSound, KeysAgree
<1>11. \A x \in ClaimId : Occurrences(s, x) >= Occurrences(h.byTopic[id[2]], x)
                          /\ Occurrences(h.byTopic[id[2]], x) \in Nat /\ Occurrences(s, x) \in Nat
  <2> TAKE x \in ClaimId
  <2>1. Occurrences(h.byTopic[id[2]], x) \in Nat /\ Occurrences(s, x) \in Nat
    BY <1>2, <1>4, PositionsFinite
  <2>2. Occurrences(Append(h.byTopic[id[2]], id), x) =
          IF id = x THEN Occurrences(h.byTopic[id[2]], x) + 1 ELSE Occurrences(h.byTopic[id[2]], x)
    BY <1>2, OccurrencesAppend
  <2> QED  BY <2>1, <2>2 DEF s
<1>12. id[1] # NullAddr => Occurrences(s, id) > 0
  <2> SUFFICES ASSUME id[1] # NullAddr PROVE Occurrences(s, id) > 0
    OBVIOUS
  <2>1. CASE h.claims[id].issuer # id[1]
    <3>1. s = Append(h.byTopic[id[2]], id)
      BY <2>1 DEF s
    <3>2. Occurrences(s, id) = Occurrences(h.byTopic[id[2]], id) + 1
      BY <1>2, <3>1, OccurrencesAppend
    <3> QED  BY <1>11, <3>2
  <2>2. CASE h.claims[id].issuer = id[1]
    <3>1. h.claims[id] # NoClaim
      BY <2>2 DEF NoClaim
    <3>2. Occurrences(h.byTopic[id[2]], id) > 0
      BY <3>1 DEF HolderSound, ClaimsIndexed
    <3> QED  BY <1>11, <3>2
  <2> QED  BY <2>1, <2>2
<1>13. \A i \in DOMAIN s : s[i][2] = id[2]
  <2> DEFINE b == h.byTopic[id[2]]
  <2>1. \A i \in DOMAIN b : b[i][2] = id[2]
    BY <1>2 DEF HolderSound, ClaimsIndexed
  <2>2. DOMAIN b = 1 .. Len(b) /\ Len(b) \in Nat
    BY <1>2, LenProperties
  <2>3. CASE s = b
    BY <2>1, <2>3
  <2>4. CASE s = Append(b, id)
    <3>1. /\ Append(b, id) \in Seq(ClaimId)
          /\ Len(Append(b, id)) = Len(b) + 1
          /\ \A i \in 1 .. Len(b) : Append(b, id)[i] = b[i]
          /\ Append(b, id)[Len(b) + 1] = id
      BY <1>2, AppendProperties
    <3>2. DOMAIN s = 1 .. Len(b) + 1
      BY <2>4, <3>1, LenProperties
    <3> HIDE DEF b
    <3> QED  BY <2>1, <2>2, <2>4, <3>1, <3>2
  <2> QED  BY <2>3, <2>4 DEF s
<1>14. ClaimsIndexed(g)
  <2>1. ASSUME NEW x \in ClaimId, g.claims[x] # NoClaim, x[1] # NullAddr
        PROVE  Occurrences(g.byTopic[x[2]], x) > 0
    <3>1. x[2] \in Topic
      BY DEF ClaimId
    <3>2. CASE x = id
      BY <1>8, <1>12, <2>1, <3>2
    <3>3. CASE x # id
      <4>1. Occurrences(h.byTopic[x[2]], x) > 0
        BY <1>8, <2>1, <3>3 DEF HolderSound, ClaimsIndexed
      <4>2. CASE x[2] = id[2]
        BY <1>8, <1>11, <4>1, <4>2
      <4>3. CASE x[2] # id[2]
        BY <1>8, <3>1, <4>1, <4>3
      <4> QED  BY <4>2, <4>3
    <3> QED  BY <3>2, <3>3
  <2>2. ASSUME NEW t \in Topic
        PROVE  \A i \in DOMAIN g.byTopic[t] : g.byTopic[t][i][2] = t
    BY <1>8, <1>13 DEF HolderSound, ClaimsIndexed
  <2> QED  BY <2>1, <2>2 DEF ClaimsIndexed
<1> QED  BY <1>7, <1>9, <1>10, <1>14 DEF HolderSound, g

\* A removed claim stays in the index of its topic.
LEMMA ClaimRemoved ==
  ASSUME NEW h, HolderSound(h), NEW id \in ClaimId
  PROVE  HolderSound(WithoutClaim(h, id))
<1> DEFINE g == WithoutClaim(h, id)
<1>1. /\ h.claims \in [ClaimId -> ClaimRecord]
      /\ h \in Holder
  BY DEF HolderSound, Holder, ClaimRecord
<1>2. NoClaim \in ClaimRecord
  BY IdentityAssumption DEF NoClaim, ClaimRecord
<1>3. g = [keys |-> h.keys, keysByPurpose |-> h.keysByPurpose,
           claims |-> [h.claims EXCEPT ![id] = NoClaim], byTopic |-> h.byTopic]
  <2>1. g = [h EXCEPT !.claims = [h.claims EXCEPT ![id] = NoClaim]]
    BY DEF WithoutClaim
  <2>2. h = [keys |-> h.keys, keysByPurpose |-> h.keysByPurpose,
             claims |-> h.claims, byTopic |-> h.byTopic]
    BY <1>1 DEF Holder
  <2> HIDE DEF g
  <2> QED  BY <2>1, <2>2
<1>4. [h.claims EXCEPT ![id] = NoClaim] \in [ClaimId -> ClaimRecord]
  BY <1>1, <1>2
<1> HIDE DEF g
<1>5. g \in Holder
  BY <1>1, <1>3, <1>4 DEF Holder, ClaimRecord
<1>6. KeysAgree(g)
  BY <1>3 DEF HolderSound, KeysAgree
<1>7. ClaimsIndexed(g)
  BY <1>1, <1>3 DEF HolderSound, ClaimsIndexed
<1> QED  BY <1>5, <1>6, <1>7 DEF HolderSound, g

-----------------------------------------------------------------------------
(* A batch of claims.                                                        *)

Batch == Seq([id : ClaimId, content : Content])

\* f lists the holders a batch goes through.
Through(f, h, batch, n) ==
  f = [i \in 0 .. n |-> IF i = 0 THEN h ELSE WithClaim(f[i - 1], batch[i].id, batch[i].content)]

\* The recursive definition of WithClaims has a solution.
LEMMA ThroughExists ==
  ASSUME NEW h, NEW batch
  PROVE  \A n \in Nat : \E f : Through(f, h, batch, n)
<1> DEFINE T == {n \in Nat : \A f : ~Through(f, h, batch, n)}
<1>1. SUFFICES ASSUME T # {} PROVE FALSE
  OBVIOUS
<1>2. PICK m \in T : \A n \in T : m <= n
  BY <1>1, LeastNumber
<1>3. CASE m = 0
  <2>1. Through([i \in 0 .. 0 |-> h], h, batch, 0)
    BY DEF Through
  <2> QED  BY <1>2, <1>3, <2>1
<1>4. CASE m # 0
  <2>1. m - 1 \in Nat /\ m - 1 \notin T /\ m \in Nat
    BY <1>2, <1>4
  <2>2. PICK f : Through(f, h, batch, m - 1)
    BY <2>1
  <2> DEFINE g == [i \in 0 .. m |->
                    IF i = m THEN WithClaim(f[m - 1], batch[m].id, batch[m].content) ELSE f[i]]
  <2>3. \A i \in 0 .. m - 1 : g[i] = f[i] /\ f[i] =
          IF i = 0 THEN h ELSE WithClaim(f[i - 1], batch[i].id, batch[i].content)
    BY <2>1, <2>2 DEF Through
  <2>4. \A i \in 0 .. m : g[i] =
          IF i = 0 THEN h ELSE WithClaim(g[i - 1], batch[i].id, batch[i].content)
    <3> TAKE i \in 0 .. m
    <3>1. CASE i = m
      <4>1. g[i] = WithClaim(f[m - 1], batch[m].id, batch[m].content)
        BY <3>1
      <4>2. g[m - 1] = f[m - 1]
        BY <2>1, <2>3
      <4> HIDE DEF g
      <4> QED  BY <1>4, <3>1, <4>1, <4>2
    <3>2. CASE i # m /\ i # 0
      <4>1. i \in 0 .. m - 1 /\ i - 1 \in 0 .. m - 1
        BY <2>1, <3>2
      <4> HIDE DEF g
      <4> QED  BY <2>3, <3>2, <4>1
    <3>3. CASE i # m /\ i = 0
      <4>1. i \in 0 .. m - 1
        BY <2>1, <3>3
      <4> HIDE DEF g
      <4> QED  BY <2>3, <3>3, <4>1
    <3> QED  BY <3>1, <3>2, <3>3
  <2>5. Through(g, h, batch, m)
    <3>1. g = [i \in 0 .. m |-> g[i]]
      OBVIOUS
    <3> HIDE DEF g
    <3> QED  BY <2>4, <3>1 DEF Through
  <2> QED  BY <1>2, <2>5
<1> QED  BY <1>3, <1>4

LEMMA WithClaimsThrough ==
  ASSUME NEW h, NEW batch \in Batch
  PROVE  \E f : Through(f, h, batch, Len(batch)) /\ WithClaims(h, batch) = f[Len(batch)]
<1> DEFINE f == CHOOSE g : Through(g, h, batch, Len(batch))
<1>1. Len(batch) \in Nat
  BY LenProperties DEF Batch
<1>2. Through(f, h, batch, Len(batch))
  BY <1>1, ThroughExists
<1>3. WithClaims(h, batch) = f[Len(batch)]
  BY DEF WithClaims, Through
<1> QED  BY <1>2, <1>3

\* One claim after the other, the records agree and nothing is lost.
LEMMA BatchAdded ==
  ASSUME NEW h, HolderSound(h), NEW batch \in Batch
  PROVE  HolderSound(WithClaims(h, batch)) /\ ClaimsKept(h, WithClaims(h, batch))
<1>1. /\ Len(batch) \in Nat
      /\ \A i \in 1 .. Len(batch) : batch[i].id \in ClaimId /\ batch[i].content \in Content
  <2>1. \A i \in 1 .. Len(batch) : batch[i] \in [id : ClaimId, content : Content]
    BY ElementOfSeq DEF Batch
  <2> QED  BY <2>1, LenProperties DEF Batch
<1>2. PICK f : Through(f, h, batch, Len(batch)) /\ WithClaims(h, batch) = f[Len(batch)]
  BY WithClaimsThrough
<1>3. f[0] = h /\ \A i \in 1 .. Len(batch) :
                     f[i] = WithClaim(f[i - 1], batch[i].id, batch[i].content)
  BY <1>1, <1>2 DEF Through
<1> DEFINE Good(i) == HolderSound(f[i]) /\ ClaimsKept(h, f[i])
           T == {i \in 0 .. Len(batch) : ~Good(i)}
<1>4. SUFFICES ASSUME T # {} PROVE FALSE
  BY <1>1, <1>2
<1>5. T \subseteq Nat
  BY <1>1
<1>6. PICK m \in T : \A n \in T : m <= n
  BY <1>4, <1>5, LeastNumber
<1>7. m # 0
  BY <1>3, <1>6 DEF ClaimsKept
<1>8. m \in 1 .. Len(batch) /\ m - 1 \in 0 .. Len(batch) /\ ~(m <= m - 1)
  BY <1>1, <1>6, <1>7
<1>9. HolderSound(f[m - 1]) /\ ClaimsKept(h, f[m - 1])
  BY <1>6, <1>8
<1>10. HolderSound(f[m]) /\ ClaimsKept(f[m - 1], f[m])
  BY <1>1, <1>3, <1>8, <1>9, ClaimAdded
<1>11. ClaimsKept(h, f[m])
  BY <1>9, <1>10 DEF ClaimsKept
<1> QED  BY <1>6, <1>10, <1>11

-----------------------------------------------------------------------------
(* The steps.                                                                *)

\* A call of the identity that can succeed keeps the records in agreement.
LEMMA EffectSound ==
  ASSUME HolderSound(holder), NEW asked \in Calls \cup {NoCall}, CanSucceed(asked), ~CallsOut(asked)
  PROVE  HolderSound(Effect(asked))
<1>1. CASE asked = NoCall
  BY <1>1 DEF Effect
<1>2. CASE asked \notin {Outside, NoCall}
  <2>1. \/ asked \in [op : {"addKey", "removeKey"}, key : Account, purpose : Purpose]
        \/ asked \in [op : {"addClaim"}, id : ClaimId, content : Content]
        \/ asked \in [op : {"addClaims"}, batch : Batches]
        \/ asked \in [op : {"removeClaim"}, id : ClaimId]
    <3>1. asked.op \notin {"execute", "approve"}
      BY <1>2 DEF CallsOut
    <3> QED  BY <1>2, <3>1, CallsAssumption
  <2>2. ASSUME asked \in [op : {"addKey", "removeKey"}, key : Account, purpose : Purpose],
               asked.op = "addKey"
        PROVE  HolderSound(Effect(asked))
    <3>1. Effect(asked) = WithKey(holder, asked.key, asked.purpose)
      BY <1>2, <2>2 DEF Effect
    <3>2. ~holder.keys[asked.key].held /\ asked.key \in Account /\ asked.purpose \in Purpose
      BY <1>2, <2>2 DEF CanSucceed
    <3> QED  BY <3>1, <3>2, KeyAdded
  <2>3. ASSUME asked \in [op : {"addKey", "removeKey"}, key : Account, purpose : Purpose],
               asked.op = "removeKey"
        PROVE  HolderSound(Effect(asked))
    <3>1. Effect(asked) = WithoutKey(holder, asked.key, asked.purpose)
      BY <1>2, <2>3 DEF Effect
    <3>2. asked.key \in Account /\ asked.purpose \in Purpose
      BY <2>3
    <3> QED  BY <3>1, <3>2, KeyRemoved
  <2>4. ASSUME asked \in [op : {"addClaim"}, id : ClaimId, content : Content]
        PROVE  HolderSound(Effect(asked))
    <3>1. Effect(asked) = WithClaim(holder, asked.id, asked.content)
      BY <1>2, <2>4 DEF Effect
    <3>2. asked.id \in ClaimId /\ asked.content \in Content
      BY <2>4
    <3> QED  BY <3>1, <3>2, ClaimAdded
  <2>5. ASSUME asked \in [op : {"removeClaim"}, id : ClaimId]
        PROVE  HolderSound(Effect(asked))
    <3>1. Effect(asked) = WithoutClaim(holder, asked.id)
      BY <1>2, <2>5 DEF Effect
    <3>2. asked.id \in ClaimId
      BY <2>5
    <3> QED  BY <3>1, <3>2, ClaimRemoved
  <2>6. ASSUME asked \in [op : {"addClaims"}, batch : Batches]
        PROVE  HolderSound(Effect(asked))
    <3>1. Effect(asked) = WithClaims(holder, asked.batch)
      BY <1>2, <2>6 DEF Effect
    <3>2. asked.batch \in Batch
      BY <2>6, CallsAssumption DEF Batch
    <3> QED  BY <3>1, <3>2, BatchAdded
  <2> QED  BY <2>1, <2>2, <2>3, <2>4, <2>5, <2>6
<1>3. asked # NoCall => asked # Outside
  BY DEF CallsOut
<1> QED  BY <1>1, <1>2, <1>3

LEMMA HolderInit == Init => HolderSound(holder)
<1> SUFFICES ASSUME Init PROVE HolderSound(holder)
  OBVIOUS
<1> DEFINE empty == [keys |-> [k \in Account |-> NoKey],
                     keysByPurpose |-> [p \in Purpose |-> <<>>],
                     claims |-> [id \in ClaimId |-> NoClaim],
                     byTopic |-> [t \in Topic |-> <<>>]]
<1>1. holder = WithKey(empty, Deployer, 1) /\ Deployer \in Account /\ 1 \in Purpose
  BY CallsAssumption DEF Init, NewHolder
<1>2. empty \in Holder
  <2>1. <<>> \in Seq(Account) /\ <<>> \in Seq(Purpose) /\ <<>> \in Seq(ClaimId)
    BY EmptySeq
  <2>2. NoClaim \in [issuer : Issuer, content : Content \cup {NoContent}]
    BY IdentityAssumption DEF NoClaim
  <2>3. NoKey \in [held : BOOLEAN, purposes : Seq(Purpose)]
    BY <2>1 DEF NoKey
  <2> QED  BY <2>1, <2>2, <2>3 DEF Holder
<1>3. KeysAgree(empty)
  <2>1. \A x : Occurrences(<<>>, x) = 0
    BY OccurrencesFew
  <2>2. \A key \in Account : ~empty.keys[key].held /\ empty.keys[key].purposes = <<>>
    BY DEF NoKey
  <2>3. \A p \in Purpose : empty.keysByPurpose[p] = <<>>
    OBVIOUS
  <2> HIDE DEF empty
  <2> QED  BY <2>1, <2>2, <2>3 DEF KeysAgree
<1>4. ClaimsIndexed(empty)
  <2>1. \A id \in ClaimId : empty.claims[id] = NoClaim
    OBVIOUS
  <2>2. \A t \in Topic : empty.byTopic[t] = <<>>
    OBVIOUS
  <2> HIDE DEF empty
  <2> QED  BY <2>1, <2>2 DEF ClaimsIndexed
<1>5. ~empty.keys[Deployer].held
  BY <1>1 DEF NoKey
<1> HIDE DEF empty
<1>6. HolderSound(empty)
  BY <1>2, <1>3, <1>4 DEF HolderSound
<1> QED  BY <1>1, <1>5, <1>6, KeyAdded

\* Running a call changes the holder by its effect, or leaves it.
LEMMA RunHolder ==
  ASSUME HolderSound(holder), NEW id, NEW asked \in Calls \cup {NoCall}, NEW counted,
         Run(id, asked, counted)
  PROVE  HolderSound(holder')
<1>1. \/ UNCHANGED holder
      \/ ~CallsOut(asked) /\ CanSucceed(asked) /\ holder' = Effect(asked)
  BY DEF Run
<1> QED  BY <1>1, EffectSound

LEMMA HolderStep ==
  ASSUME Inv, HolderSound(holder), NEW sender \in Account, Step(sender)
  PROVE  HolderSound(holder')
<1>1. ASSUME NEW key \in Keys, NEW purpose \in Purpose, addKey(sender, key, purpose)
      PROVE  HolderSound(holder')
  BY <1>1, KeyAdded, CallsAssumption DEF addKey
<1>2. ASSUME NEW key \in Keys, NEW purpose \in Purpose, removeKey(sender, key, purpose)
      PROVE  HolderSound(holder')
  BY <1>2, KeyRemoved, CallsAssumption DEF removeKey
<1>3. ASSUME NEW batch \in Batches, addClaims(sender, batch)
      PROVE  HolderSound(holder')
  BY <1>3, BatchAdded, CallsAssumption DEF addClaims, Batch
<1>4. ASSUME NEW id \in ClaimId, removeClaim(sender, id)
      PROVE  HolderSound(holder')
  BY <1>4, ClaimRemoved DEF removeClaim
<1>5. ASSUME NEW asked \in Calls, execute(sender, asked)
      PROVE  HolderSound(holder')
  BY <1>5, RunHolder DEF execute, Request
<1>6. ASSUME NEW id \in Id, NEW yes \in BOOLEAN, approve(sender, id, yes)
      PROVE  HolderSound(holder')
  <2>1. executions[id].call \in Calls \cup {NoCall}
    BY DEF Inv, ExecutionsTyped, Execution
  <2> QED  BY <1>6, <2>1, RunHolder DEF approve
<1> QED  BY <1>1, <1>2, <1>3, <1>4, <1>5, <1>6, Zenon DEF Step, KeyHolderCall, ClaimHolderCall

\* What an outsider leaves as it is.
Untouched ==
  /\ UNCHANGED <<holder.keys, holder.keysByPurpose, frames, ran, rerun>>
  /\ \A id \in ClaimId : holder.claims[id] # NoClaim => holder.claims'[id] # NoClaim

\* A management key serves as an action key.
LEMMA ManagementActs ==
  ASSUME NEW h \in Holder, NEW key \in Account, keyHasPurpose(h, key, 1)
  PROVE  keyHasPurpose(h, key, 2)
<1>1. h.keys[key].purposes \in Seq(Purpose)
  BY HeldKeys
<1>2. \A i \in DOMAIN h.keys[key].purposes : h.keys[key].purposes[i] \in Nat
  BY <1>1, IdentityAssumption, ElementOfSeq, LenProperties
<1> QED  BY <1>2 DEF keyHasPurpose

LEMMA OutsiderStep ==
  ASSUME HolderSound(holder), NEW sender \in Account, Step(sender),
         ~keyHasPurpose(holder, sender, 2)
  PROVE  Untouched
<1>1. ~keyHasPurpose(holder, sender, 1)
  BY ManagementActs DEF HolderSound
<1>2. ASSUME NEW key \in Keys, NEW purpose \in Purpose,
             addKey(sender, key, purpose) \/ removeKey(sender, key, purpose)
      PROVE  FALSE
  BY <1>1, <1>2 DEF addKey, removeKey
<1>3. ASSUME NEW batch \in Batches, addClaims(sender, batch)
      PROVE  Untouched
  <2>1. ClaimsKept(holder, holder') /\ UNCHANGED <<frames, ran, rerun>>
    BY <1>3, BatchAdded, CallsAssumption DEF addClaims, Batch
  <2> QED  BY <2>1 DEF ClaimsKept, Untouched
<1>4. ASSUME NEW id \in ClaimId, removeClaim(sender, id)
      PROVE  FALSE
  BY <1>1, <1>4 DEF removeClaim
<1>5. ASSUME NEW asked \in Calls, execute(sender, asked)
      PROVE  Untouched
  BY <1>1, <1>5 DEF execute, Request, Untouched
<1>6. ASSUME NEW id \in Id, NEW yes \in BOOLEAN, approve(sender, id, yes)
      PROVE  FALSE
  BY <1>6 DEF approve
<1> QED  BY <1>2, <1>3, <1>4, <1>5, <1>6, Zenon DEF Step, KeyHolderCall, ClaimHolderCall

LEMMA HolderAlwaysSound == Spec => [](Inv /\ HolderSound(holder))
<1>1. Init => Inv /\ HolderSound(holder)
  BY InitSound, HolderInit
<1>2. Inv /\ HolderSound(holder) /\ [Next]_vars => (Inv /\ HolderSound(holder))'
  <2> SUFFICES ASSUME Inv, HolderSound(holder), [Next]_vars
               PROVE  Inv' /\ HolderSound(holder')
    OBVIOUS
  <2>1. Inv'
    BY StepSound
  <2>2. CASE UNCHANGED vars
    BY <2>1, <2>2 DEF vars
  <2>3. ASSUME NEW sender \in Account, Step(sender) PROVE HolderSound(holder')
    BY <2>3, HolderStep
  <2>4. ASSUME CallSelf PROVE HolderSound(holder')
    BY <2>4, CallsOfSelf, HolderStep, CallsAssumption DEF Step, KeyHolderCall
  <2>5. ASSUME Return PROVE HolderSound(holder')
    BY <2>5 DEF Return
  <2>6. Senders \subseteq Account
    BY CallsAssumption DEF Senders
  <2> QED  BY <2>1, <2>2, <2>3, <2>4, <2>5, <2>6 DEF Next
<1> QED  BY <1>1, <1>2, PTL DEF Spec

\* Keys and claims are always found under what they are recorded for, and only there,
\* whatever is added, replaced, removed and executed, by whom and in which order.
THEOREM IndexesAlwaysAgree == Spec => []IndexesAgree
<1>1. HolderSound(holder) => IndexesAgree
  BY DEF HolderSound, KeysAgree, ClaimsIndexed, IndexesAgree
<1> QED  BY <1>1, HolderAlwaysSound, PTL

\* Whoever has no management or action key can add claims and request executions, has
\* none run, and leaves the keys and the claims of others as they are.
THEOREM OutsidersChangeNothing == Spec => OnlyKeyHoldersAct
<1> DEFINE Alone == \A sender \in Account :
                     ~keyHasPurpose(holder, sender, 2) /\ Step(sender) => Untouched
<1>1. HolderSound(holder) => Alone
  BY OutsiderStep
<1>2. Spec => [][Alone]_vars
  BY <1>1, HolderAlwaysSound, PTL DEF Spec
<1> QED  BY <1>2 DEF OnlyKeyHoldersAct, Untouched

-----------------------------------------------------------------------------
(* Users and their attestations.                                             *)

(* Lists of claims.                                                          *)

\* A set of places in a list has a last one.
LEMMA LastPlace ==
  ASSUME NEW n \in Nat, NEW T \in SUBSET (1 .. n), T # {}
  PROVE  Max(T) \in T /\ \A i \in T : i <= Max(T)
<1> DEFINE U == {n - i : i \in T}
<1>1. \A i \in T : i \in 1 .. n
  OBVIOUS
<1>2. U \subseteq Nat /\ U # {}
  <2>1. \A i \in T : n - i \in Nat
    BY <1>1
  <2> QED  BY <2>1
<1>3. PICK u \in U : \A w \in U : u <= w
  BY <1>2, LeastNumber
<1>4. PICK m \in T : u = n - m
  OBVIOUS
<1>5. \A i \in T : m >= i
  <2> TAKE i \in T
  <2>1. n - m <= n - i
    BY <1>3, <1>4
  <2> QED  BY <1>1, <2>1
<1>6. Max(T) \in T /\ \A i \in T : Max(T) >= i
  BY <1>5 DEF Max
<1>7. Max(T) \in 1 .. n
  BY <1>1, <1>6
<1>8. \A i \in T : i <= Max(T)
  BY <1>1, <1>6, <1>7
<1> QED  BY <1>6, <1>8

\* Which profile is the last, seen from the place it is at.
LEMMA LastProfileIs ==
  ASSUME NEW s \in Seq(Claim)
  PROVE  /\ (\A i \in DOMAIN s : ~IsProfile(s[i])) => LastProfile(s) = NoProfile
         /\ \A m \in DOMAIN s :
              IsProfile(s[m]) /\ (\A i \in DOMAIN s : i > m => ~IsProfile(s[i]))
                => LastProfile(s) = s[m].profile
         /\ (\E i \in DOMAIN s : IsProfile(s[i])) =>
              \E m \in DOMAIN s :
                IsProfile(s[m]) /\ \A i \in DOMAIN s : i > m => ~IsProfile(s[i])
<1> DEFINE at == {i \in DOMAIN s : IsProfile(s[i])}
<1>1. DOMAIN s = 1 .. Len(s) /\ Len(s) \in Nat
  BY LenProperties
<1>2. LastProfile(s) = IF at = {} THEN NoProfile ELSE s[Max(at)].profile
  BY DEF LastProfile
<1>3. at # {} => Max(at) \in at /\ \A i \in at : i <= Max(at)
  <2>1. at \in SUBSET (1 .. Len(s))
    BY <1>1
  <2> HIDE DEF at
  <2> QED  BY <1>1, <2>1, LastPlace
<1>4. ASSUME NEW m \in DOMAIN s, IsProfile(s[m]), \A i \in DOMAIN s : i > m => ~IsProfile(s[i])
      PROVE  LastProfile(s) = s[m].profile
  <2>1. m \in at /\ at # {}
    BY <1>4
  <2>2. Max(at) \in at /\ m <= Max(at)
    BY <1>3, <2>1
  <2> DEFINE top == Max(at)
  <2>3. ~(top > m) /\ top \in Int /\ m \in Int
    <3>1. top \in DOMAIN s /\ IsProfile(s[top])
      BY <2>2
    <3> HIDE DEF top
    <3> QED  BY <1>1, <1>4, <3>1
  <2>4. Max(at) = m
    BY <2>2, <2>3
  <2> QED  BY <1>2, <2>1, <2>4
<1>5. (\E i \in DOMAIN s : IsProfile(s[i])) =>
              \E m \in DOMAIN s :
                IsProfile(s[m]) /\ \A i \in DOMAIN s : i > m => ~IsProfile(s[i])
  <2> SUFFICES ASSUME at # {}
               PROVE  \E m \in DOMAIN s :
                        IsProfile(s[m]) /\ \A i \in DOMAIN s : i > m => ~IsProfile(s[i])
    OBVIOUS
  <2>1. Max(at) \in DOMAIN s /\ IsProfile(s[Max(at)]) /\ \A i \in at : i <= Max(at)
    BY <1>3
  <2> DEFINE top == Max(at)
  <2>2. \A i \in DOMAIN s : i > Max(at) => ~IsProfile(s[i])
    <3> SUFFICES ASSUME NEW i \in DOMAIN s, i > top, IsProfile(s[i]) PROVE FALSE
      OBVIOUS
    <3>1. i <= top /\ top \in DOMAIN s
      BY <2>1
    <3> HIDE DEF top
    <3> QED  BY <1>1, <3>1
  <2> QED  BY <2>1, <2>2
<1> QED  BY <1>2, <1>4, <1>5

\* Claims with a profile show one.
LEMMA Profiles ==
  /\ \A claim \in Claim : IsProfile(claim) => claim.profile \in Profile /\ claim.profile # NoProfile
  /\ \A claim \in Claim : ~IsProfile(claim) => claim \in Attestation
  /\ \A a \in Attestation : ~IsProfile(a)
<1>1. \A a \in Attestation : ~IsProfile(a)
  BY DEF Attestation, IsProfile
<1>2. \A p \in SelfClaim : p.profile \in Profile /\ IsProfile(p)
  BY DEF SelfClaim, IsProfile
<1>3. NoProfile \notin Profile
  BY UsersAssumption
<1> QED  BY <1>1, <1>2, <1>3 DEF Claim

LEMMA LastProfileType ==
  ASSUME NEW s \in Seq(Claim)
  PROVE  LastProfile(s) = NoProfile <=> \A i \in DOMAIN s : ~IsProfile(s[i])
<1>1. \A i \in DOMAIN s : s[i] \in Claim
  BY LenProperties, ElementOfSeq
<1>2. CASE \A i \in DOMAIN s : ~IsProfile(s[i])
  BY <1>2, LastProfileIs
<1>3. CASE \E i \in DOMAIN s : IsProfile(s[i])
  <2>1. PICK m \in DOMAIN s : IsProfile(s[m]) /\ \A i \in DOMAIN s : i > m => ~IsProfile(s[i])
    BY <1>3, LastProfileIs
  <2>2. LastProfile(s) = s[m].profile
    BY <2>1, LastProfileIs
  <2> QED  BY <1>1, <1>3, <2>1, <2>2, Profiles
<1> QED  BY <1>2, <1>3

\* A list after another hides its profiles, if it has one.
LEMMA LastProfileConcat ==
  ASSUME NEW s \in Seq(Claim), NEW t \in Seq(Claim)
  PROVE  LastProfile(s \o t) = IF LastProfile(t) = NoProfile THEN LastProfile(s) ELSE LastProfile(t)
<1> DEFINE r == s \o t
<1>1. /\ Len(s) \in Nat /\ DOMAIN s = 1 .. Len(s)
      /\ Len(t) \in Nat /\ DOMAIN t = 1 .. Len(t)
  BY LenProperties
<1>2. /\ r \in Seq(Claim)
      /\ Len(r) = Len(s) + Len(t)
      /\ \A i \in 1 .. Len(s) + Len(t) : r[i] = IF i <= Len(s) THEN s[i] ELSE t[i - Len(s)]
  BY ConcatProperties
<1>3. DOMAIN r = 1 .. Len(s) + Len(t)
  BY <1>2, LenProperties
<1> HIDE DEF r
<1>4. CASE \E i \in DOMAIN t : IsProfile(t[i])
  <2>1. PICK m \in DOMAIN t : IsProfile(t[m]) /\ \A i \in DOMAIN t : i > m => ~IsProfile(t[i])
    BY <1>4, LastProfileIs
  <2>2. LastProfile(t) = t[m].profile /\ LastProfile(t) # NoProfile
    BY <1>4, <2>1, LastProfileIs, LastProfileType
  <2> DEFINE k == Len(s) + m
  <2>3. k \in DOMAIN r /\ r[k] = t[m]
    BY <1>1, <1>2, <1>3
  <2>4. \A i \in DOMAIN r : i > k => ~IsProfile(r[i])
    <3> TAKE i \in DOMAIN r
    <3>1. i > k => i - Len(s) \in DOMAIN t /\ i - Len(s) > m /\ r[i] = t[i - Len(s)]
      BY <1>1, <1>2, <1>3
    <3> QED  BY <2>1, <3>1
  <2>5. LastProfile(r) = t[m].profile
    <3>1. IsProfile(r[k]) /\ r[k].profile = t[m].profile
      BY <2>1, <2>3
    <3> HIDE DEF k
    <3> QED  BY <1>2, <2>3, <2>4, <3>1, LastProfileIs
  <2> QED  BY <2>2, <2>5 DEF r
<1>5. CASE \A i \in DOMAIN t : ~IsProfile(t[i])
  <2>1. LastProfile(t) = NoProfile
    BY <1>5, LastProfileIs
  <2>2. \A i \in DOMAIN r : i \notin DOMAIN s => ~IsProfile(r[i])
    <3> TAKE i \in DOMAIN r
    <3>1. i \notin DOMAIN s => i - Len(s) \in DOMAIN t /\ r[i] = t[i - Len(s)]
      BY <1>1, <1>2, <1>3
    <3> QED  BY <1>5, <3>1
  <2>3. \A i \in DOMAIN s : i \in DOMAIN r /\ r[i] = s[i]
    BY <1>1, <1>2, <1>3
  <2>4. CASE \A i \in DOMAIN s : ~IsProfile(s[i])
    <3>1. LastProfile(s) = NoProfile
      BY <2>4, LastProfileIs
    <3>2. \A i \in DOMAIN r : ~IsProfile(r[i])
      BY <2>2, <2>3, <2>4
    <3>3. LastProfile(r) = NoProfile
      BY <1>2, <3>2, LastProfileIs
    <3> QED  BY <2>1, <3>1, <3>3 DEF r
  <2>5. CASE \E i \in DOMAIN s : IsProfile(s[i])
    <3>1. PICK m \in DOMAIN s : IsProfile(s[m]) /\ \A i \in DOMAIN s : i > m => ~IsProfile(s[i])
      BY <2>5, LastProfileIs
    <3>2. LastProfile(s) = s[m].profile
      BY <3>1, LastProfileIs
    <3>3. m \in DOMAIN r /\ r[m] = s[m] /\ \A i \in DOMAIN r : i > m => ~IsProfile(r[i])
      BY <2>2, <2>3, <3>1
    <3>4. LastProfile(r) = r[m].profile
      BY <1>2, <3>1, <3>3, LastProfileIs
    <3> QED  BY <2>1, <3>2, <3>3, <3>4 DEF r
  <2> QED  BY <2>4, <2>5
<1> QED  BY <1>4, <1>5

\* f lists what is left of s without K, place by place.
Leaving(f, s, K, n) ==
  f = [i \in 0 .. n |-> IF i = 0 THEN <<>>
                        ELSE IF s[i] \in K THEN f[i - 1] ELSE Append(f[i - 1], s[i])]

LEMMA LeavingAt ==
  ASSUME NEW f, NEW s, NEW K, NEW n, Leaving(f, s, K, n), NEW i \in 0 .. n
  PROVE  f[i] = IF i = 0 THEN <<>> ELSE IF s[i] \in K THEN f[i - 1] ELSE Append(f[i - 1], s[i])
<1> DEFINE val(j) == IF j = 0 THEN <<>>
                     ELSE IF s[j] \in K THEN f[j - 1] ELSE Append(f[j - 1], s[j])
<1>1. f = [j \in 0 .. n |-> val(j)]
  BY DEF Leaving
<1>2. \A g : g = [j \in 0 .. n |-> val(j)] => g[i] = val(i)
  <2> HIDE DEF val
  <2> QED  OBVIOUS
<1>3. f[i] = val(i)
  <2> HIDE DEF val
  <2> QED  BY <1>1, <1>2
<1> QED  BY <1>3

\* The recursive definition of Without has a solution.
LEMMA LeavingExists ==
  ASSUME NEW s, NEW K
  PROVE  \A n \in Nat : \E f : Leaving(f, s, K, n)
<1> DEFINE T == {n \in Nat : \A f : ~Leaving(f, s, K, n)}
<1>1. SUFFICES ASSUME T # {} PROVE FALSE
  OBVIOUS
<1>2. PICK m \in T : \A n \in T : m <= n
  BY <1>1, LeastNumber
<1>3. CASE m = 0
  <2>1. Leaving([i \in 0 .. 0 |-> <<>>], s, K, 0)
    BY DEF Leaving
  <2> QED  BY <1>2, <1>3, <2>1
<1>4. CASE m # 0
  <2>1. m - 1 \in Nat /\ m - 1 \notin T /\ m \in Nat
    BY <1>2, <1>4
  <2>2. PICK f : Leaving(f, s, K, m - 1)
    BY <2>1
  <2> DEFINE last == IF s[m] \in K THEN f[m - 1] ELSE Append(f[m - 1], s[m])
             g == [i \in 0 .. m |-> IF i = m THEN last ELSE f[i]]
  <2>3. \A i \in 0 .. m - 1 : g[i] = f[i] /\ f[i] =
          IF i = 0 THEN <<>> ELSE IF s[i] \in K THEN f[i - 1] ELSE Append(f[i - 1], s[i])
    <3> TAKE i \in 0 .. m - 1
    <3>1. g[i] = f[i]
      BY <2>1
    <3>2. f[i] = IF i = 0 THEN <<>> ELSE IF s[i] \in K THEN f[i - 1] ELSE Append(f[i - 1], s[i])
      BY <2>2, LeavingAt
    <3> HIDE DEF g
    <3> QED  BY <3>1, <3>2
  <2>4. \A i \in 0 .. m : g[i] =
          IF i = 0 THEN <<>> ELSE IF s[i] \in K THEN g[i - 1] ELSE Append(g[i - 1], s[i])
    <3> TAKE i \in 0 .. m
    <3>1. CASE i = m
      <4>1. g[i] = IF s[m] \in K THEN f[m - 1] ELSE Append(f[m - 1], s[m])
        BY <3>1
      <4>2. g[m - 1] = f[m - 1]
        BY <2>1, <2>3
      <4> HIDE DEF g
      <4> QED  BY <1>4, <3>1, <4>1, <4>2
    <3>2. CASE i # m /\ i # 0
      <4>1. i \in 0 .. m - 1 /\ i - 1 \in 0 .. m - 1
        BY <2>1, <3>2
      <4> HIDE DEF g
      <4> QED  BY <2>3, <3>2, <4>1
    <3>3. CASE i # m /\ i = 0
      <4>1. i \in 0 .. m - 1
        BY <2>1, <3>3
      <4> HIDE DEF g
      <4> QED  BY <2>3, <3>3, <4>1
    <3> QED  BY <3>1, <3>2, <3>3
  <2>5. Leaving(g, s, K, m)
    <3>1. g = [i \in 0 .. m |-> g[i]]
      OBVIOUS
    <3> HIDE DEF g
    <3> QED  BY <2>4, <3>1 DEF Leaving
  <2> QED  BY <1>2, <2>5
<1> QED  BY <1>3, <1>4

\* The claims of a list, as a set.
LEMMA SetOf ==
  /\ \A S, s, t : s \in Seq(S) /\ t \in Seq(S) => ToSet(s \o t) = ToSet(s) \cup ToSet(t)
  /\ \A S, s : s \in Seq(S) => ToSet(s) \subseteq S
  /\ ToSet(<<>>) = {}
  /\ \A e : ToSet(<<e>>) = {e}
<1>1. ASSUME NEW S, NEW s \in Seq(S), NEW t \in Seq(S)
      PROVE  ToSet(s \o t) = ToSet(s) \cup ToSet(t)
  <2> DEFINE r == s \o t
  <2>1. /\ Len(s) \in Nat /\ DOMAIN s = 1 .. Len(s)
        /\ Len(t) \in Nat /\ DOMAIN t = 1 .. Len(t)
    BY LenProperties
  <2>2. /\ r \in Seq(S)
        /\ Len(r) = Len(s) + Len(t)
        /\ \A i \in 1 .. Len(s) + Len(t) : r[i] = IF i <= Len(s) THEN s[i] ELSE t[i - Len(s)]
    BY ConcatProperties
  <2>3. DOMAIN r = 1 .. Len(s) + Len(t)
    BY <2>2, LenProperties
  <2> HIDE DEF r
  <2>4. \A i \in DOMAIN s : i \in DOMAIN r /\ r[i] = s[i]
    BY <2>1, <2>2, <2>3
  <2>5. \A i \in DOMAIN t : i + Len(s) \in DOMAIN r /\ r[i + Len(s)] = t[i]
    BY <2>1, <2>2, <2>3
  <2>6. \A i \in DOMAIN r : \/ i \in DOMAIN s /\ r[i] = s[i]
                            \/ i - Len(s) \in DOMAIN t /\ r[i] = t[i - Len(s)]
    BY <2>1, <2>2, <2>3
  <2>7. ToSet(r) = ToSet(s) \cup ToSet(t)
    BY <2>4, <2>5, <2>6 DEF ToSet
  <2> QED  BY <2>7 DEF r
<1>2. ASSUME NEW S, NEW s \in Seq(S) PROVE ToSet(s) \subseteq S
  BY LenProperties, ElementOfSeq DEF ToSet
<1>3. ToSet(<<>>) = {}
  BY DEF ToSet
<1>4. ASSUME NEW e PROVE ToSet(<<e>>) = {e}
  BY DEF ToSet
<1> QED  BY <1>1, <1>2, <1>3, <1>4

LEMMA WithoutIs ==
  ASSUME NEW s \in Seq(Claim), NEW K
  PROVE  \E f : Leaving(f, s, K, Len(s)) /\ Without(s, K) = f[Len(s)]
<1> DEFINE f == CHOOSE g : Leaving(g, s, K, Len(s))
<1>1. Len(s) \in Nat
  BY LenProperties
<1>2. Leaving(f, s, K, Len(s))
  BY <1>1, LeavingExists
<1>3. Without(s, K) = f[Len(s)]
  BY DEF Without, Leaving
<1> QED  BY <1>2, <1>3

\* Leaving attestations out keeps every other claim, and the last profile.
LEMMA WithoutKeeps ==
  ASSUME NEW s \in Seq(Claim), NEW K, \A a \in K : ~IsProfile(a)
  PROVE  /\ Without(s, K) \in Seq(Claim)
         /\ \A i \in DOMAIN s : s[i] \in K \/ s[i] \in ToSet(Without(s, K))
         /\ ToSet(Without(s, K)) \subseteq ToSet(s)
         /\ LastProfile(Without(s, K)) = LastProfile(s)
<1>1. Len(s) \in Nat /\ DOMAIN s = 1 .. Len(s) /\ \A i \in 1 .. Len(s) : s[i] \in Claim
  BY LenProperties, ElementOfSeq
<1>2. PICK f : Leaving(f, s, K, Len(s)) /\ Without(s, K) = f[Len(s)]
  BY WithoutIs
<1>3. f[0] = <<>> /\ \A i \in 1 .. Len(s) :
        f[i] = IF s[i] \in K THEN f[i - 1] ELSE Append(f[i - 1], s[i])
  BY <1>1, <1>2, LeavingAt
<1> DEFINE Good(i) == /\ f[i] \in Seq(Claim)
                      /\ \A j \in 1 .. i : s[j] \in K \/ s[j] \in ToSet(f[i])
                      /\ ToSet(f[i]) \subseteq ToSet(s)
                      /\ LastProfile(f[i]) = LastProfile(SubSeq(s, 1, i))
           T == {i \in 0 .. Len(s) : ~Good(i)}
<1>4. SUFFICES ASSUME T # {} PROVE FALSE
  <2>1. Len(s) \notin T
    BY <1>4
  <2>2. Good(Len(s))
    BY <1>1, <2>1
  <2>3. SubSeq(s, 1, Len(s)) = s
    BY SubSeqFull
  <2> QED  BY <1>1, <1>2, <2>2, <2>3
<1>5. T \subseteq Nat
  BY <1>1
<1>6. PICK m \in T : \A n \in T : m <= n
  BY <1>4, <1>5, LeastNumber
<1>7. m # 0
  <2>1. SubSeq(s, 1, 0) = <<>>
    BY SubSeqEmpty
  <2>2. f[0] \in Seq(Claim)
    BY <1>3, EmptySeq
  <2>3. \A j \in 1 .. 0 : s[j] \in K \/ s[j] \in ToSet(f[0])
    OBVIOUS
  <2>4. ToSet(f[0]) \subseteq ToSet(s)
    BY <1>3, SetOf
  <2>5. Good(0)
    BY <1>3, <2>1, <2>2, <2>3, <2>4
  <2> QED  BY <1>6, <2>5
<1>8. m \in 1 .. Len(s) /\ m - 1 \in 0 .. Len(s) /\ ~(m <= m - 1)
  BY <1>1, <1>6, <1>7
<1>9. Good(m - 1)
  BY <1>6, <1>8
<1> DEFINE before == f[m - 1]
           e == s[m]
<1>10. /\ before \in Seq(Claim) /\ e \in Claim
       /\ \A j \in 1 .. m - 1 : s[j] \in K \/ s[j] \in ToSet(before)
       /\ ToSet(before) \subseteq ToSet(s) /\ e \in ToSet(s)
       /\ LastProfile(before) = LastProfile(SubSeq(s, 1, m - 1))
       /\ f[m] = IF e \in K THEN before ELSE Append(before, e)
  BY <1>1, <1>3, <1>8, <1>9 DEF ToSet
<1>11. /\ SubSeq(s, 1, m) = SubSeq(s, 1, m - 1) \o <<e>>
       /\ SubSeq(s, 1, m - 1) \in Seq(Claim)
       /\ <<e>> \in Seq(Claim)
  <2>1. 1 \in 1 .. Len(s) /\ m \in 1 .. Len(s)
    BY <1>1, <1>8
  <2>2. SubSeq(s, 1, m) = SubSeq(s, 1, m - 1) \o <<e>>
    BY <2>1, SubSeqRecursiveSecond
  <2>3. SubSeq(s, 1, m - 1) \in Seq(Claim)
    BY <1>1, <1>8, SubSeqProperties
  <2>4. <<e>> \in Seq(Claim)
    BY <1>10, SetOf
  <2> QED  BY <2>2, <2>3, <2>4
<1>12. LastProfile(SubSeq(s, 1, m)) =
         IF LastProfile(<<e>>) = NoProfile THEN LastProfile(before) ELSE LastProfile(<<e>>)
  <2> DEFINE a == SubSeq(s, 1, m - 1)
             b == <<e>>
  <2>1. a \in Seq(Claim) /\ b \in Seq(Claim)
    BY <1>11
  <2> HIDE DEF a, b
  <2>2. LastProfile(a \o b) = IF LastProfile(b) = NoProfile THEN LastProfile(a) ELSE LastProfile(b)
    BY <2>1, LastProfileConcat
  <2> QED  BY <1>10, <1>11, <2>2 DEF a, b
<1>13. CASE e \in K
  <2>1. LastProfile(<<e>>) = NoProfile
    <3> DEFINE b == <<e>>
    <3>1. b \in Seq(Claim) /\ \A i \in DOMAIN b : ~IsProfile(b[i])
      BY <1>11, <1>13
    <3> HIDE DEF b
    <3>2. LastProfile(b) = NoProfile
      BY <3>1, LastProfileType
    <3> QED  BY <3>2 DEF b
  <2>2. \A j \in 1 .. m : s[j] \in K \/ s[j] \in ToSet(f[m])
    BY <1>8, <1>10, <1>13
  <2> QED  BY <1>6, <1>10, <1>12, <1>13, <2>1, <2>2
<1>14. CASE e \notin K
  <2>1. f[m] = before \o <<e>> /\ f[m] \in Seq(Claim)
    <3>1. f[m] = Append(before, e) /\ before \in Seq(Claim) /\ e \in Claim
      BY <1>10, <1>14
    <3> HIDE DEF before, e
    <3>2. Append(before, e) = before \o <<e>> /\ Append(before, e) \in Seq(Claim)
      BY <3>1, AppendIsConcat, AppendProperties
    <3> QED  BY <3>1, <3>2
  <2>2. LastProfile(f[m]) = LastProfile(SubSeq(s, 1, m))
    <3> DEFINE b == <<e>>
    <3>1. before \in Seq(Claim) /\ b \in Seq(Claim)
      BY <1>10, <1>11
    <3> HIDE DEF before, b
    <3>2. LastProfile(before \o b) = IF LastProfile(b) = NoProfile THEN LastProfile(before) ELSE LastProfile(b)
      BY <3>1, LastProfileConcat
    <3> QED  BY <1>12, <2>1, <3>2, Zenon DEF b
  <2>3. ToSet(f[m]) = ToSet(before) \cup {e}
    <3>1. /\ f[m] = Append(before, e) /\ Len(f[m]) = Len(before) + 1
          /\ \A i \in 1 .. Len(before) : f[m][i] = before[i]
          /\ f[m][Len(before) + 1] = e
      BY <1>10, <1>14, AppendProperties
    <3>2. /\ DOMAIN f[m] = 1 .. Len(before) + 1 /\ DOMAIN before = 1 .. Len(before)
          /\ Len(before) \in Nat
      BY <1>10, <2>1, <3>1, LenProperties
    <3> HIDE DEF before, e
    <3> QED  BY <3>1, <3>2 DEF ToSet
  <2>4. \A j \in 1 .. m : s[j] \in K \/ s[j] \in ToSet(f[m])
    BY <1>8, <1>10, <2>3
  <2>5. ToSet(f[m]) \subseteq ToSet(s)
    BY <1>10, <2>3
  <2> QED  BY <1>6, <2>1, <2>2, <2>4, <2>5
<1> QED  BY <1>13, <1>14

\* SetToSeq lists the elements of a finite set.
LEMMA SetToSeqIs ==
  ASSUME NEW S, IsFiniteSet(S)
  PROVE  SetToSeq(S) \in Seq(S) /\ ToSet(SetToSeq(S)) = S
<1> DEFINE n == Cardinality(S)
           f == SetToSeq(S)
<1>1. n \in Nat /\ ExistsBijection(1 .. n, S)
  BY FS_CardinalityType
<1>2. \E g \in [1 .. n -> S] : IsInjective(g)
  BY <1>1 DEF ExistsBijection, Bijection, Injection, IsInjective
<1>3. f \in [1 .. n -> S] /\ IsInjective(f)
  BY <1>2 DEF SetToSeq
<1>4. f \in Injection(1 .. n, S)
  BY <1>3 DEF Injection, IsInjective
<1>5. Cardinality(1 .. n) = n
  BY <1>1, FS_Interval
<1>6. f \in Surjection(1 .. n, S)
  BY <1>4, <1>5, FS_Injection
<1> HIDE DEF f, n
<1>7. f \in Seq(S)
  BY <1>1, <1>3, SeqDef
<1>8. ToSet(f) = S
  BY <1>3, <1>6 DEF ToSet, Surjection
<1> QED  BY <1>7, <1>8 DEF f
-----------------------------------------------------------------------------
(* What a call was given is shown.                                           *)

CallRecord == [pc : {"idle", "known", "claims", "again", "submit", "sent"},
               claims : Seq(Claim), identity : Identity \cup {NoIdentity}, new : Seq(Claim)]

\* What a call holds at each of its requests: claims it leaves out are on the chain.
CallSound(r) ==
  /\ \A a \in ToSet(r.claims) : ~IsProfile(a) => a.identity <= mined
  /\ r.identity # NoIdentity => r.identity < mined
  /\ r.pc = "claims" => r.identity # NoIdentity
  /\ r.pc \in {"again", "submit", "sent"} =>
       /\ \A a \in ToSet(r.claims) : ~IsProfile(a) =>
            \/ a \in ToSet(r.new)
            \/ a.identity < mined /\ a \in ToSet(events[a.identity])
       /\ ToSet(r.new) \subseteq ToSet(r.claims)
       /\ LastProfile(r.new) = LastProfile(r.claims)

\* A transaction carries the claims of the call that waits for it, if one does.
TransactionSound(tx) ==
  /\ IF tx.by \in Caller
     THEN /\ tx.kind \in {"deploy", "addClaims"}
          /\ call[tx.by].pc = "sent" /\ call[tx.by].new = tx.claims
     ELSE /\ tx.kind \in {"clearUser", "other"} => tx.claims = <<>>
          /\ \A a \in ToSet(tx.claims) : ~IsProfile(a) => a.identity <= mined
  /\ tx.kind = "addClaims" => tx.identity # NoIdentity /\ tx.identity < mined

ChainSound ==
  /\ mined \in 0 .. MaxTx
  /\ registry \in Identity \cup {NoIdentity} /\ (registry # NoIdentity => registry < mined)
  /\ events \in [Identity -> Seq(Claim)]

IssuedSound ==
  /\ issued \subseteq Attestation /\ IsFiniteSet(issued)
  /\ \A a \in issued : a.identity <= mined

CallsSound == call \in [Caller -> CallRecord] /\ \A c \in Caller : CallSound(call[c])

PoolSound ==
  /\ pool \in Seq(Transaction) /\ mined + Len(pool) <= MaxTx
  /\ \A i \in DOMAIN pool : TransactionSound(pool[i])
  /\ \A i, j \in DOMAIN pool : pool[i].by \in Caller /\ pool[j].by = pool[i].by => i = j

GivenSound ==
  /\ given \subseteq Attestation
  /\ \A a \in given :
       /\ a.identity < mined
       /\ a.identity = registry /\ ~astray => a \in ToSet(events[registry])

ProfileSound ==
  /\ profile \in Profile \cup {NoProfile} /\ replaced \in BOOLEAN /\ astray \in BOOLEAN
  /\ ~astray /\ ~replaced =>
       IF registry = NoIdentity THEN profile = NoProfile ELSE LastProfile(events[registry]) = profile

Sound == ChainSound /\ IssuedSound /\ CallsSound /\ PoolSound /\ GivenSound /\ ProfileSound
         /\ overlapped \in BOOLEAN

LEMMA Numbers ==
  /\ Identity = 0 .. MaxTx - 1 /\ Identity \subseteq Nat /\ MaxTx \in Nat /\ NoIdentity \notin Identity
  /\ \A i \in Identity : i \in Int
  /\ \A a \in Attestation : a.identity \in Identity
  /\ Attestation \subseteq Claim
  /\ \A r \in CallRecord : /\ r.claims \in Seq(Claim) /\ r.new \in Seq(Claim)
                           /\ r.identity \in Identity \cup {NoIdentity}
  /\ \A tx \in Transaction : /\ tx.claims \in Seq(Claim)
                             /\ tx.identity \in Identity \cup {NoIdentity}
                             /\ tx.kind \in {"deploy", "addClaims", "clearUser", "other"}
  BY UsersAssumption DEF Identity, Attestation, Claim, CallRecord, Transaction

Pcs == {"idle", "known", "claims", "again", "submit", "sent"}

\* Nothing that was on the chain is lost.
Grows ==
  /\ mined \in Nat /\ mined' \in Nat /\ mined <= mined'
  /\ \A i \in Identity : i < mined => ToSet(events[i]) \subseteq ToSet(events'[i])

\* What a call holds stays true while the chain grows.
LEMMA CallStays ==
  ASSUME NEW r \in CallRecord, CallSound(r), Grows
  PROVE  CallSound(r)'
<1>1. /\ \A i \in Identity : i <= mined => i <= mined'
      /\ \A i \in Identity : i < mined => i < mined'
  BY Numbers DEF Grows
<1>2. \A a \in ToSet(r.claims) : ~IsProfile(a) => a.identity \in Identity
  <2> TAKE a \in ToSet(r.claims)
  <2>1. a \in Claim
    BY Numbers, SetOf
  <2> QED  BY <2>1, Numbers, Profiles
<1>3. r.identity \in Identity \cup {NoIdentity}
  BY Numbers
<1> QED  BY <1>1, <1>2, <1>3 DEF CallSound, Grows

LEMMA InitTells == UsersInit => Sound
<1> SUFFICES ASSUME UsersInit PROVE Sound
  OBVIOUS
<1>1. ChainSound
  BY Numbers, EmptySeq, UsersAssumption DEF UsersInit, ChainSound
<1>2. IssuedSound
  BY FS_EmptySet DEF UsersInit, IssuedSound
<1>3. CallsSound
  <2>1. Idle \in CallRecord
    BY EmptySeq DEF Idle, CallRecord
  <2>2. CallSound(Idle)
    BY SetOf DEF Idle, CallSound
  <2> QED  BY <2>1, <2>2 DEF UsersInit, CallsSound
<1>4. PoolSound
  <2>1. pool \in Seq(Transaction) /\ DOMAIN pool = {} /\ Len(pool) = 0
    BY EmptySeq DEF UsersInit
  <2> QED  BY <2>1, UsersAssumption DEF UsersInit, PoolSound
<1>5. GivenSound /\ ProfileSound
  BY DEF UsersInit, GivenSound, ProfileSound
<1> QED  BY <1>1, <1>2, <1>3, <1>4, <1>5 DEF UsersInit, Sound

\* A call takes a step that sends nothing.
LEMMA CallSteps ==
  ASSUME Sound, NEW c \in Caller, NEW r \in CallRecord, CallSound(r), call[c].pc # "sent",
         call' = [call EXCEPT ![c] = r], UNCHANGED chain
  PROVE  CallsSound' /\ PoolSound' /\ ChainSound'
<1>1. mined' = mined /\ pool' = pool /\ registry' = registry /\ events' = events
  BY DEF chain
<1>2. call' \in [Caller -> CallRecord] /\ call'[c] = r /\ \A d \in Caller \ {c} : call'[d] = call[d]
  BY DEF Sound, CallsSound
<1>3. CallsSound'
  <2>1. ASSUME NEW d \in Caller PROVE CallSound(call[d])'
    <3>1. CallSound(call'[d])
      BY <1>2 DEF Sound, CallsSound
    <3> QED  BY <1>1, <3>1 DEF CallSound
  <2> QED  BY <1>2, <2>1 DEF CallsSound
<1>4. PoolSound'
  <2>1. \A i \in DOMAIN pool : pool[i].by \in Caller => pool[i].by # c
    BY DEF Sound, PoolSound, TransactionSound
  <2>2. ASSUME NEW i \in DOMAIN pool PROVE TransactionSound(pool[i])'
    <3>1. TransactionSound(pool[i])
      BY DEF Sound, PoolSound
    <3> QED  BY <1>1, <1>2, <2>1, <3>1 DEF TransactionSound
  <2> QED  BY <1>1, <2>2 DEF Sound, PoolSound
<1>5. ChainSound'
  BY <1>1 DEF Sound, ChainSound
<1> QED  BY <1>3, <1>4, <1>5

\* What a completed call adds.
LEMMA CompleteIs ==
  ASSUME NEW claims \in Seq(Claim), Complete(claims)
  PROVE  /\ given' = given \cup {a \in ToSet(claims) : ~IsProfile(a)}
         /\ profile' = IF LastProfile(claims) = NoProfile THEN profile ELSE LastProfile(claims)
         /\ LastProfile(claims) \in Profile \cup {NoProfile}
<1>1. /\ given' = given \cup {a \in ToSet(claims) : ~IsProfile(a)}
      /\ profile' = IF LastProfile(claims) = NoProfile THEN profile ELSE LastProfile(claims)
  BY DEF Complete, ToSet
<1>2. LastProfile(claims) \in Profile \cup {NoProfile}
  <2>1. \A i \in DOMAIN claims : claims[i] \in Claim
    BY LenProperties, ElementOfSeq
  <2>2. CASE \A i \in DOMAIN claims : ~IsProfile(claims[i])
    BY <2>2, LastProfileIs
  <2>3. CASE \E i \in DOMAIN claims : IsProfile(claims[i])
    <3>1. PICK m \in DOMAIN claims : LastProfile(claims) = claims[m].profile /\ IsProfile(claims[m])
      BY <2>3, LastProfileIs
    <3> QED  BY <2>1, <3>1, Profiles
  <2> QED  BY <2>2, <2>3
<1> QED  BY <1>1, <1>2

LEMMA VerifyTells ==
  ASSUME Sound, NEW topic \in ClaimTopic, NEW data \in Data, Verify(topic, data)
  PROVE  Sound'
<1> DEFINE who == getIdentityAddress
<1>1. who \in Identity /\ who <= mined
  BY Numbers DEF Verify, getIdentityAddress, predictIdentityAddress, Sound, ChainSound
<1>2. issued' = issued \cup {Signed(topic, data, who)}
  BY DEF Verify
<1>3. /\ mined' = mined /\ pool' = pool /\ registry' = registry /\ events' = events /\ call' = call
      /\ given' = given /\ profile' = profile /\ overlapped' = overlapped
      /\ replaced' = replaced /\ astray' = astray
  BY DEF Verify, chain, history
<1> HIDE DEF who
<1>4. IssuedSound'
  <2>1. Signed(topic, data, who) \in Attestation /\ Signed(topic, data, who).identity = who
    BY <1>1 DEF Signed, Attestation
  <2>2. IsFiniteSet(issued')
    BY <1>2, FS_AddElement DEF Sound, IssuedSound
  <2> QED  BY <1>1, <1>2, <1>3, <2>1, <2>2 DEF Sound, IssuedSound
<1>5. ChainSound' /\ CallsSound' /\ PoolSound' /\ GivenSound' /\ ProfileSound'
  BY <1>3 DEF Sound, ChainSound, CallsSound, CallSound, PoolSound, TransactionSound, GivenSound,
              ProfileSound
<1> QED  BY <1>3, <1>4, <1>5 DEF Sound

LEMMA SetTells ==
  ASSUME Sound, NEW c \in Caller, NEW newProfile \in Profile \cup {NoProfile},
         NEW attestations \in SUBSET issued, set(c, newProfile, attestations)
  PROVE  Sound'
<1> DEFINE last == IF newProfile = NoProfile THEN <<>> ELSE <<[profile |-> newProfile]>>
           list == SetToSeq(attestations)
           claims == list \o last
           r == [Idle EXCEPT !.pc = "known", !.claims = claims]
<1>1. list \in Seq(Claim) /\ ToSet(list) = attestations
  <2>1. IsFiniteSet(attestations) /\ attestations \subseteq Claim
    BY Numbers, FS_Subset DEF Sound, IssuedSound
  <2>2. SetToSeq(attestations) \in Seq(attestations) /\ ToSet(SetToSeq(attestations)) = attestations
    BY <2>1, SetToSeqIs
  <2> QED  BY <2>1, <2>2
<1>2. last \in Seq(Claim) /\ \A a \in ToSet(last) : IsProfile(a)
  <2>1. CASE newProfile = NoProfile
    BY <2>1, SetOf, EmptySeq
  <2>2. CASE newProfile # NoProfile
    <3> DEFINE e == [profile |-> newProfile]
    <3>1. e \in Claim /\ IsProfile(e)
      BY <2>2 DEF Claim, SelfClaim, IsProfile
    <3>2. last = <<e>>
      BY <2>2
    <3> HIDE DEF e, last
    <3> QED  BY <3>1, <3>2, SetOf
  <2> QED  BY <2>1, <2>2
<1>3. call' = [call EXCEPT ![c] = r] /\ call[c].pc = "idle"
  BY DEF set
<1> HIDE DEF last, list
<1>4. claims \in Seq(Claim) /\ ToSet(claims) = ToSet(list) \cup ToSet(last)
  BY <1>1, <1>2, SetOf
<1> HIDE DEF claims
<1>5. Idle \in CallRecord /\ Idle.identity = NoIdentity /\ Idle.new = <<>> /\ "known" \in Pcs
  BY EmptySeq DEF Idle, CallRecord, Pcs
<1>6. r \in CallRecord /\ r.pc = "known" /\ r.claims = claims /\ r.identity = NoIdentity
  BY <1>4, EmptySeq DEF Idle, CallRecord
<1>7. CallSound(r)
  BY <1>1, <1>2, <1>4, <1>6 DEF CallSound, Sound, IssuedSound
<1>8. UNCHANGED <<chain, issued, given, profile, replaced, astray>> /\ overlapped' \in BOOLEAN
  BY DEF set, Sound, GivenSound, ProfileSound
<1> HIDE DEF r
<1>9. CallsSound' /\ PoolSound' /\ ChainSound'
  BY <1>3, <1>6, <1>7, <1>8, CallSteps
<1>10. IssuedSound' /\ GivenSound' /\ ProfileSound' /\ overlapped' \in BOOLEAN
  BY <1>8 DEF chain, Sound, IssuedSound, GivenSound, ProfileSound
<1> QED  BY <1>9, <1>10 DEF Sound

\* newAttestations leaves out only what is on the chain.
LEMMA NewIs ==
  ASSUME Sound, NEW claims \in Seq(Claim), NEW identity \in Identity
  PROVE  LET new == newAttestations(claims, identity) IN
         /\ new \in Seq(Claim)
         /\ \A a \in ToSet(claims) :
              \/ a \in ToSet(new)
              \/ a.identity = identity /\ a \in ToSet(events[identity])
         /\ ToSet(new) \subseteq ToSet(claims)
         /\ LastProfile(new) = LastProfile(claims)
<1> DEFINE K == {old \in getClaims(identity) : isValidAttestation(old, identity)}
           new == Without(claims, K)
<1>1. \A a \in K : ~IsProfile(a) /\ a.identity = identity /\ a \in ToSet(events[identity])
  BY DEF isValidAttestation, getClaims, ToSet
<1> HIDE DEF K
<1>2. /\ new \in Seq(Claim)
      /\ \A i \in DOMAIN claims : claims[i] \in K \/ claims[i] \in ToSet(new)
      /\ ToSet(new) \subseteq ToSet(claims)
      /\ LastProfile(new) = LastProfile(claims)
  BY <1>1, WithoutKeeps
<1>3. \A a \in ToSet(claims) : a \in K \/ a \in ToSet(new)
  BY <1>2 DEF ToSet
<1>4. newAttestations(claims, identity) = new
  BY DEF newAttestations, K
<1>5. \A a \in ToSet(claims) :
              \/ a \in ToSet(new)
              \/ a.identity = identity /\ a \in ToSet(events[identity])
  <2> HIDE DEF new
  <2> TAKE a \in ToSet(claims)
  <2>1. a \in K => a.identity = identity /\ a \in ToSet(events[identity])
    BY <1>1
  <2> QED  BY <1>3, <2>1
<1> HIDE DEF new
<1> QED  BY <1>2, <1>4, <1>5

LEMMA ReadTells ==
  ASSUME Sound, NEW c \in Caller, KnowIdentity(c) \/ KnowClaims(c)
  PROVE  Sound'
<1> DEFINE old == call[c]
<1>1. /\ old \in CallRecord /\ CallSound(old) /\ call \in [Caller -> CallRecord]
      /\ old.claims \in Seq(Claim) /\ old.new \in Seq(Claim)
      /\ old.identity \in Identity \cup {NoIdentity}
  BY Numbers DEF Sound, CallsSound
<1>3. PICK r \in CallRecord : CallSound(r) /\ call' = [call EXCEPT ![c] = r] /\ call[c].pc # "sent"
  <2>1. CASE KnowIdentity(c)
    <3> DEFINE r1 == [old EXCEPT !.new = old.claims, !.pc = "again"]
               r2 == [old EXCEPT !.identity = registry, !.pc = "claims"]
    <3>1. /\ r1 \in CallRecord /\ r1.pc = "again" /\ r1.new = old.claims
          /\ r1.claims = old.claims /\ r1.identity = old.identity
          /\ r2 \in CallRecord /\ r2.pc = "claims" /\ r2.claims = old.claims /\ r2.identity = registry
      <4>1. registry \in Identity \cup {NoIdentity} /\ "again" \in Pcs /\ "claims" \in Pcs
        BY DEF Sound, ChainSound, Pcs
      <4> HIDE DEF old
      <4> QED  BY <1>1, <4>1 DEF CallRecord, Pcs
    <3>2. call[c].pc = "known"
      BY <2>1 DEF KnowIdentity
    <3> HIDE DEF r1, r2
    <3>3. r1 \in CallRecord /\ CallSound(r1)
      BY <1>1, <3>1 DEF CallSound
    <3>4. CASE registry = NoIdentity
      <4>1. call' = [call EXCEPT ![c] = r1]
        BY <1>1, <2>1, <3>4 DEF KnowIdentity, r1
      <4> QED  BY <3>2, <3>3, <4>1
    <3>5. CASE registry # NoIdentity
      <4>1. call' = [call EXCEPT ![c] = r2]
        BY <1>1, <2>1, <3>5 DEF KnowIdentity, r2
      <4>2. r2 \in CallRecord /\ CallSound(r2)
        BY <1>1, <3>1, <3>5 DEF CallSound, Sound, ChainSound
      <4> QED  BY <3>2, <4>1, <4>2
    <3> QED  BY <3>4, <3>5
  <2>2. CASE KnowClaims(c)
    <3> DEFINE fresh == newAttestations(old.claims, old.identity)
               r == [old EXCEPT !.new = fresh, !.pc = "again"]
    <3>1. old.identity \in Identity /\ old.identity < mined /\ call[c].pc = "claims"
      BY <1>1, <2>2 DEF KnowClaims, CallSound
    <3>2. /\ fresh \in Seq(Claim)
          /\ \A a \in ToSet(old.claims) :
                \/ a \in ToSet(fresh)
                \/ a.identity = old.identity /\ a \in ToSet(events[old.identity])
          /\ ToSet(fresh) \subseteq ToSet(old.claims)
          /\ LastProfile(fresh) = LastProfile(old.claims)
      <4> HIDE DEF old
      <4> QED  BY <1>1, <3>1, NewIs
    <3>3. call' = [call EXCEPT ![c] = r]
      BY <1>1, <2>2 DEF KnowClaims, CallRecord
    <3> HIDE DEF fresh
    <3>4. /\ r \in CallRecord /\ r.pc = "again" /\ r.new = fresh
          /\ r.claims = old.claims /\ r.identity = old.identity
      <4>1. "again" \in Pcs
        BY DEF Pcs
      <4> HIDE DEF old
      <4> QED  BY <1>1, <3>2, <4>1 DEF CallRecord, Pcs
    <3> HIDE DEF r
    <3>6. CallSound(r)
      <4>1. /\ \A a \in ToSet(r.claims) : ~IsProfile(a) => a.identity <= mined
            /\ r.identity # NoIdentity => r.identity < mined
            /\ r.pc # "claims"
        BY <1>1, <3>1, <3>4 DEF CallSound
      <4>2. \A a \in ToSet(r.claims) :
              \/ a \in ToSet(r.new)
              \/ a.identity < mined /\ a \in ToSet(events[a.identity])
        <5> HIDE DEF old
        <5>1. ASSUME NEW a \in ToSet(old.claims), a \notin ToSet(fresh)
              PROVE  a.identity < mined /\ a \in ToSet(events[a.identity])
          <6>1. a.identity = old.identity /\ a \in ToSet(events[old.identity])
            BY <3>2, <5>1
          <6> QED  BY <3>1, <6>1
        <5> QED  BY <3>4, <5>1, Zenon
      <4> QED  BY <3>2, <3>4, <4>1, <4>2 DEF CallSound
    <3> QED  BY <3>1, <3>3, <3>4, <3>6
  <2> QED  BY <2>1, <2>2
<1>4. UNCHANGED <<chain, issued, history>>
  BY DEF KnowIdentity, KnowClaims
<1>5. CallsSound' /\ PoolSound' /\ ChainSound'
  BY <1>3, <1>4, CallSteps
<1>6. IssuedSound' /\ GivenSound' /\ ProfileSound' /\ overlapped' \in BOOLEAN
  BY <1>4 DEF chain, history, Sound, IssuedSound, GivenSound, ProfileSound
<1> QED  BY <1>5, <1>6 DEF Sound

LEMMA AgainTells ==
  ASSUME Sound, NEW c \in Caller, KnowIdentityAgain(c)
  PROVE  Sound'
<1> DEFINE old == call[c]
           done == old.new = <<>> /\ registry # NoIdentity
           r == [old EXCEPT !.identity = registry, !.pc = "submit"]
<1>1. /\ old \in CallRecord /\ CallSound(old) /\ call \in [Caller -> CallRecord]
      /\ old.claims \in Seq(Claim) /\ old.new \in Seq(Claim) /\ old.pc = "again"
  BY Numbers DEF Sound, CallsSound, KnowIdentityAgain
<1>2. /\ \A a \in ToSet(old.claims) : ~IsProfile(a) =>
            \/ a \in ToSet(old.new)
            \/ a.identity < mined /\ a \in ToSet(events[a.identity])
      /\ ToSet(old.new) \subseteq ToSet(old.claims)
      /\ LastProfile(old.new) = LastProfile(old.claims)
  BY <1>1 DEF CallSound
<1>3. /\ UNCHANGED <<chain, overlapped, replaced, astray, issued>>
      /\ call' = [call EXCEPT ![c] = IF done THEN Idle ELSE r]
      /\ IF done THEN Complete(old.claims) ELSE UNCHANGED <<given, profile>>
  BY <1>1 DEF KnowIdentityAgain
<1>4. mined' = mined /\ pool' = pool /\ registry' = registry /\ events' = events
  BY <1>3 DEF chain
<1>5. CASE done
  <2>1. Idle \in CallRecord /\ CallSound(Idle)
    BY EmptySeq, SetOf DEF Idle, CallRecord, CallSound
  <2>2. CallsSound' /\ PoolSound' /\ ChainSound'
    BY <1>1, <1>3, <1>5, <2>1, CallSteps
  <2>3. /\ given' = given \cup {a \in ToSet(old.claims) : ~IsProfile(a)}
        /\ profile' = IF LastProfile(old.claims) = NoProfile THEN profile ELSE LastProfile(old.claims)
    <3> HIDE DEF old
    <3> QED  BY <1>1, <1>3, <1>5, CompleteIs
  <2>4. GivenSound'
    <3>1. \A a \in ToSet(old.claims) : ~IsProfile(a) =>
            a.identity < mined /\ a \in ToSet(events[a.identity]) /\ a \in Attestation
      <4> HIDE DEF old
      <4> TAKE a \in ToSet(old.claims)
      <4>1. a \in Claim /\ ToSet(<<>>) = {}
        BY <1>1, SetOf
      <4> QED  BY <1>2, <1>5, <4>1, Profiles
    <3>2. \A a \in given' : a \in given \/ (a \in ToSet(old.claims) /\ ~IsProfile(a))
      BY <2>3
    <3>3. given \subseteq Attestation /\ given' \subseteq Attestation
      BY <3>1, <3>2 DEF Sound, GivenSound
    <3> HIDE DEF old
    <3>4. ASSUME NEW a \in given'
          PROVE  /\ a.identity < mined
                 /\ a.identity = registry /\ ~astray => a \in ToSet(events[registry])
      BY <3>1, <3>2, <3>4 DEF Sound, GivenSound
    <3> QED  BY <1>3, <1>4, <3>3, <3>4 DEF GivenSound
  <2>5. profile' = profile
    <3>1. <<>> \in Seq(Claim) /\ DOMAIN <<>> = {}
      BY EmptySeq
    <3>2. LastProfile(<<>>) = NoProfile
      BY <3>1, LastProfileIs
    <3> QED  BY <1>2, <1>5, <2>3, <3>2
  <2>6. IssuedSound' /\ ProfileSound' /\ overlapped' \in BOOLEAN
    BY <1>3, <1>4, <2>5 DEF Sound, IssuedSound, ProfileSound
  <2> QED  BY <2>2, <2>4, <2>6 DEF Sound
<1>6. CASE ~done
  <2>1. registry \in Identity \cup {NoIdentity} /\ (registry # NoIdentity => registry < mined)
    BY DEF Sound, ChainSound
  <2>2. /\ r \in CallRecord /\ r.pc = "submit" /\ r.new = old.new
        /\ r.claims = old.claims /\ r.identity = registry
    <3> HIDE DEF old
    <3> QED  BY <1>1, <2>1 DEF CallRecord
  <2> HIDE DEF r
  <2>3. CallSound(r)
    BY <1>1, <1>2, <2>1, <2>2 DEF CallSound
  <2>4. call' = [call EXCEPT ![c] = r]
    BY <1>3, <1>6
  <2>5. CallsSound' /\ PoolSound' /\ ChainSound'
    BY <1>1, <1>3, <2>2, <2>3, <2>4, CallSteps
  <2>6. given' = given /\ profile' = profile
    BY <1>3, <1>6
  <2>7. IssuedSound' /\ GivenSound' /\ ProfileSound' /\ overlapped' \in BOOLEAN
    BY <1>3, <1>4, <2>6 DEF Sound, IssuedSound, GivenSound, ProfileSound
  <2> QED  BY <2>5, <2>7 DEF Sound
<1> QED  BY <1>5, <1>6

\* What sending does to a sound pool.
LEMMA SendTells ==
  ASSUME Sound, NEW kind, NEW claims, NEW identity, NEW by, Send(kind, claims, identity, by),
         [kind |-> kind, claims |-> claims, identity |-> identity, by |-> by] \in Transaction
  PROVE  /\ pool' \in Seq(Transaction) /\ mined + Len(pool') <= MaxTx
         /\ Len(pool) \in Nat /\ DOMAIN pool = 1 .. Len(pool) /\ DOMAIN pool' = 1 .. Len(pool) + 1
         /\ \A i \in 1 .. Len(pool) : pool'[i] = pool[i]
         /\ pool'[Len(pool) + 1] = [kind |-> kind, claims |-> claims, identity |-> identity, by |-> by]
<1> DEFINE tx == [kind |-> kind, claims |-> claims, identity |-> identity, by |-> by]
<1>1. /\ pool \in Seq(Transaction) /\ tx \in Transaction /\ pool' = Append(pool, tx)
      /\ mined + Len(pool) < MaxTx /\ mined \in Nat /\ MaxTx \in Nat
  BY UsersAssumption DEF Send, Sound, PoolSound, ChainSound
<1> HIDE DEF tx
<1>2. Len(pool) \in Nat /\ DOMAIN pool = 1 .. Len(pool)
  BY <1>1, LenProperties
<1>3. /\ pool' \in Seq(Transaction) /\ Len(pool') = Len(pool) + 1
      /\ \A i \in 1 .. Len(pool) : pool'[i] = pool[i]
      /\ pool'[Len(pool) + 1] = tx
  BY <1>1, AppendProperties
<1>4. DOMAIN pool' = 1 .. Len(pool) + 1
  BY <1>3, LenProperties
<1>5. mined + Len(pool') <= MaxTx
  BY <1>1, <1>2, <1>3
<1> QED  BY <1>2, <1>3, <1>4, <1>5 DEF tx

LEMMA SubmitTells ==
  ASSUME Sound, NEW c \in Caller, Submit(c)
  PROVE  Sound'
<1> DEFINE old == call[c]
           r == [old EXCEPT !.pc = "sent"]
           last == Len(pool) + 1
<1>1. /\ old \in CallRecord /\ CallSound(old) /\ call \in [Caller -> CallRecord]
      /\ old.claims \in Seq(Claim) /\ old.new \in Seq(Claim) /\ old.pc = "submit"
      /\ old.identity \in Identity \cup {NoIdentity}
  BY Numbers DEF Sound, CallsSound, Submit
<1>2. /\ r \in CallRecord /\ r.pc = "sent" /\ r.new = old.new
      /\ r.claims = old.claims /\ r.identity = old.identity
  <2> HIDE DEF old
  <2> QED  BY <1>1 DEF CallRecord
<1>3. call' = [call EXCEPT ![c] = r]
  BY <1>1 DEF Submit, CallRecord
<1> HIDE DEF r
<1>4. call' \in [Caller -> CallRecord] /\ call'[c] = r /\ \A d \in Caller \ {c} : call'[d] = call[d]
  BY <1>1, <1>2, <1>3
<1>5. CallSound(r)
  BY <1>1, <1>2 DEF CallSound
<1>6. /\ mined' = mined /\ registry' = registry /\ events' = events /\ issued' = issued
      /\ UNCHANGED history
  BY DEF Submit
<1>7. CallsSound'
  <2>1. ASSUME NEW d \in Caller PROVE CallSound(call[d])'
    <3>1. CallSound(call'[d])
      BY <1>4, <1>5 DEF Sound, CallsSound
    <3> QED  BY <1>6, <3>1 DEF CallSound
  <2> QED  BY <1>4, <2>1 DEF CallsSound
<1>8. PICK tx \in Transaction :
        /\ tx.by = c /\ tx.claims = old.new /\ tx.kind \in {"deploy", "addClaims"}
        /\ tx.kind = "addClaims" => tx.identity # NoIdentity /\ tx.identity < mined
        /\ pool' \in Seq(Transaction) /\ mined + Len(pool') <= MaxTx
        /\ Len(pool) \in Nat /\ DOMAIN pool = 1 .. Len(pool) /\ DOMAIN pool' = 1 .. Len(pool) + 1
        /\ \A i \in 1 .. Len(pool) : pool'[i] = pool[i]
        /\ pool'[Len(pool) + 1] = tx
  <2>1. CASE old.identity = NoIdentity
    <3> DEFINE tx == [kind |-> "deploy", claims |-> old.new, identity |-> NoIdentity, by |-> c]
    <3>1. Send("deploy", old.new, NoIdentity, c)
      BY <2>1 DEF Submit, deploy
    <3>2. tx \in Transaction /\ tx.by = c /\ tx.claims = old.new /\ tx.kind = "deploy"
      BY <1>1 DEF Transaction
    <3>3. /\ pool' \in Seq(Transaction) /\ mined + Len(pool') <= MaxTx
          /\ Len(pool) \in Nat /\ DOMAIN pool = 1 .. Len(pool) /\ DOMAIN pool' = 1 .. Len(pool) + 1
          /\ \A i \in 1 .. Len(pool) : pool'[i] = pool[i]
          /\ pool'[Len(pool) + 1] = tx
      <4> HIDE DEF old
      <4> QED  BY <3>1, <3>2, SendTells
    <3> HIDE DEF tx, old
    <3> QED  BY <3>2, <3>3
  <2>2. CASE old.identity # NoIdentity
    <3> DEFINE tx == [kind |-> "addClaims", claims |-> old.new, identity |-> old.identity, by |-> c]
    <3>1. Send("addClaims", old.new, old.identity, c)
      BY <2>2 DEF Submit, addToIdentity
    <3>2. /\ tx \in Transaction /\ tx.by = c /\ tx.claims = old.new /\ tx.kind = "addClaims"
          /\ tx.identity # NoIdentity /\ tx.identity < mined
      BY <1>1, <2>2 DEF Transaction, CallSound
    <3>3. /\ pool' \in Seq(Transaction) /\ mined + Len(pool') <= MaxTx
          /\ Len(pool) \in Nat /\ DOMAIN pool = 1 .. Len(pool) /\ DOMAIN pool' = 1 .. Len(pool) + 1
          /\ \A i \in 1 .. Len(pool) : pool'[i] = pool[i]
          /\ pool'[Len(pool) + 1] = tx
      <4> HIDE DEF old
      <4> QED  BY <3>1, <3>2, SendTells
    <3> HIDE DEF tx, old
    <3> QED  BY <3>2, <3>3
  <2> QED  BY <2>1, <2>2
<1>9. PoolSound'
  <2>1. \A i \in DOMAIN pool : pool[i].by \in Caller => pool[i].by # c
    BY <1>1 DEF Sound, PoolSound, TransactionSound
  <2>2. ASSUME NEW i \in DOMAIN pool' PROVE TransactionSound(pool[i])'
    <3>1. CASE i \in DOMAIN pool
      <4>1. TransactionSound(pool[i]) /\ pool'[i] = pool[i]
        BY <1>8, <3>1 DEF Sound, PoolSound
      <4> QED  BY <1>4, <1>6, <2>1, <3>1, <4>1 DEF TransactionSound
    <3>2. CASE i \notin DOMAIN pool
      <4>1. pool'[i] = tx
        BY <1>8, <3>2
      <4> HIDE DEF old
      <4> QED  BY <1>2, <1>4, <1>6, <1>8, <4>1 DEF TransactionSound
    <3> QED  BY <3>1, <3>2
  <2>3. \A i, j \in DOMAIN pool' : pool'[i].by \in Caller /\ pool'[j].by = pool'[i].by => i = j
    <3>1. \A i \in DOMAIN pool' : (i \in DOMAIN pool /\ pool'[i] = pool[i]) \/ (i = last /\ pool'[i] = tx)
      BY <1>8
    <3> HIDE DEF last
    <3> QED  BY <1>8, <2>1, <3>1 DEF Sound, PoolSound
  <2> QED  BY <1>6, <1>8, <2>2, <2>3 DEF PoolSound
<1>10. ChainSound' /\ IssuedSound' /\ GivenSound' /\ ProfileSound' /\ overlapped' \in BOOLEAN
  BY <1>6 DEF history, Sound, ChainSound, IssuedSound, GivenSound, ProfileSound
<1> QED  BY <1>7, <1>9, <1>10 DEF Sound

LEMMA WalletTells ==
  ASSUME Sound, WalletSends
  PROVE  Sound'
<1> DEFINE last == Len(pool) + 1
<1>1. PICK kind \in {"clearUser", "other"} : Send(kind, <<>>, NoIdentity, "wallet")
  BY DEF WalletSends
<1> DEFINE tx == [kind |-> kind, claims |-> <<>>, identity |-> NoIdentity, by |-> "wallet"]
<1>2. tx \in Transaction /\ tx.by = "wallet" /\ tx.kind = kind /\ tx.claims = <<>>
  BY EmptySeq DEF Transaction
<1>3. /\ pool' \in Seq(Transaction) /\ mined + Len(pool') <= MaxTx
      /\ Len(pool) \in Nat /\ DOMAIN pool = 1 .. Len(pool) /\ DOMAIN pool' = 1 .. Len(pool) + 1
      /\ \A i \in 1 .. Len(pool) : pool'[i] = pool[i]
      /\ pool'[Len(pool) + 1] = tx
  BY <1>1, <1>2, SendTells
<1>4. /\ mined' = mined /\ registry' = registry /\ events' = events /\ issued' = issued /\ call' = call
      /\ UNCHANGED history
  BY DEF WalletSends
<1> HIDE DEF tx
<1>5. \A i \in DOMAIN pool' : (i \in DOMAIN pool /\ pool'[i] = pool[i]) \/ (i = last /\ pool'[i] = tx)
  BY <1>3
<1> HIDE DEF last
<1>6. PoolSound'
  <2>1. ASSUME NEW i \in DOMAIN pool' PROVE TransactionSound(pool[i])'
    <3>1. CASE i \in DOMAIN pool /\ pool'[i] = pool[i]
      BY <1>4, <3>1 DEF Sound, PoolSound, TransactionSound
    <3>2. CASE pool'[i] = tx
      BY <1>2, <3>2, SetOf, UsersAssumption DEF TransactionSound
    <3> QED  BY <1>5, <3>1, <3>2
  <2>2. \A i, j \in DOMAIN pool' : pool'[i].by \in Caller /\ pool'[j].by = pool'[i].by => i = j
    BY <1>2, <1>5, UsersAssumption DEF Sound, PoolSound
  <2> QED  BY <1>3, <1>4, <2>1, <2>2 DEF PoolSound
<1>7. ChainSound' /\ IssuedSound' /\ CallsSound' /\ GivenSound' /\ ProfileSound' /\ overlapped' \in BOOLEAN
  BY <1>4 DEF history, Sound, ChainSound, IssuedSound, CallsSound, CallSound, GivenSound, ProfileSound
<1> QED  BY <1>6, <1>7 DEF Sound

\* The first transaction leaves the pool.
LEMMA PoolTail ==
  ASSUME Sound, pool # <<>>, pool' = Tail(pool), mined' = mined + 1
  PROVE  /\ pool \in Seq(Transaction) /\ Len(pool) \in Nat /\ DOMAIN pool = 1 .. Len(pool)
         /\ Len(pool) >= 1 /\ mined + Len(pool) <= MaxTx /\ mined \in 0 .. MaxTx /\ mined \in Nat
         /\ pool[1] \in Transaction /\ pool[1] = Head(pool) /\ TransactionSound(pool[1])
         /\ pool' \in Seq(Transaction) /\ Len(pool') = Len(pool) - 1 /\ DOMAIN pool' = 1 .. Len(pool) - 1
         /\ \A i \in DOMAIN pool' : i \in Nat /\ i + 1 \in DOMAIN pool /\ i + 1 # 1 /\ pool'[i] = pool[i + 1]
         /\ mined \in Identity /\ mined' \in 0 .. MaxTx
<1>1. /\ pool \in Seq(Transaction) /\ Len(pool) \in Nat /\ DOMAIN pool = 1 .. Len(pool)
      /\ Len(pool) >= 1 /\ mined + Len(pool) <= MaxTx /\ mined \in 0 .. MaxTx /\ mined \in Nat
  <2>1. pool \in Seq(Transaction) /\ mined \in 0 .. MaxTx /\ mined + Len(pool) <= MaxTx
    BY DEF Sound, PoolSound, ChainSound
  <2>2. Len(pool) \in Nat /\ DOMAIN pool = 1 .. Len(pool) /\ Len(pool) # 0
    BY <2>1, LenProperties, EmptySeq
  <2> QED  BY <2>1, <2>2
<1>2. pool[1] \in Transaction /\ pool[1] = Head(pool)
  BY <1>1, ElementOfSeq
<1>3. TransactionSound(pool[1])
  BY <1>1 DEF Sound, PoolSound
<1>4. /\ pool' \in Seq(Transaction) /\ Len(pool') = Len(pool) - 1 /\ DOMAIN pool' = 1 .. Len(pool) - 1
      /\ \A i \in DOMAIN pool' : i \in Nat /\ i + 1 \in DOMAIN pool /\ i + 1 # 1 /\ pool'[i] = pool[i + 1]
  <2>1. /\ pool' \in Seq(Transaction) /\ Len(pool') = Len(pool) - 1
        /\ \A i \in 1 .. Len(pool') : pool'[i] = pool[i + 1]
    BY <1>1, HeadTailProperties
  <2>2. DOMAIN pool' = 1 .. Len(pool')
    BY <2>1, LenProperties
  <2> QED  BY <1>1, <2>1, <2>2
<1>5. mined \in Identity /\ mined' \in 0 .. MaxTx
  <2>1. mined \in 0 .. MaxTx - 1
    BY <1>1, Numbers
  <2> QED  BY <2>1, Numbers
<1> QED  BY <1>1, <1>2, <1>3, <1>4, <1>5

\* The call that waited for it ends; the others hold what they held.
LEMMA ReturnedTells ==
  ASSUME Sound, pool # <<>>, pool' = Tail(pool), mined' = mined + 1, Returned(Head(pool)), Grows
  PROVE  CallsSound' /\ PoolSound'
<1> DEFINE tx == pool[1]
<1>1. /\ pool \in Seq(Transaction) /\ Len(pool) \in Nat /\ DOMAIN pool = 1 .. Len(pool)
      /\ Len(pool) >= 1 /\ mined + Len(pool) <= MaxTx /\ mined \in 0 .. MaxTx /\ mined \in Nat
      /\ tx \in Transaction /\ tx = Head(pool)
      /\ mined \in Identity
  BY PoolTail
<1>3. /\ pool' \in Seq(Transaction) /\ Len(pool') = Len(pool) - 1 /\ DOMAIN pool' = 1 .. Len(pool) - 1
      /\ \A i \in DOMAIN pool' : i \in Nat /\ i + 1 \in DOMAIN pool /\ i + 1 # 1 /\ pool'[i] = pool[i + 1]
  BY PoolTail
<1>6. call' = IF tx.by \in Caller THEN [call EXCEPT ![tx.by] = Idle] ELSE call
  <2> HIDE DEF tx
  <2> QED  BY <1>1 DEF Returned
<1>12. /\ call' \in [Caller -> CallRecord]
       /\ \A c \in Caller : call'[c] = IF c = tx.by THEN Idle ELSE call[c]
  <2>1. Idle \in CallRecord /\ call \in [Caller -> CallRecord]
    BY EmptySeq DEF Idle, CallRecord, Sound, CallsSound
  <2> HIDE DEF tx
  <2> QED  BY <1>6, <2>1
<1>13. CallsSound'
  <2>1. Idle \in CallRecord /\ CallSound(Idle)
    BY EmptySeq, SetOf DEF Idle, CallRecord, CallSound
  <2>2. ASSUME NEW c \in Caller PROVE CallSound(call[c])'
    <3>1. PICK r \in CallRecord : r = call'[c] /\ CallSound(r)
      BY <1>12, <2>1 DEF Sound, CallsSound
    <3>2. CallSound(r)'
      BY <3>1, CallStays
    <3> QED  BY <3>1, <3>2 DEF CallSound
  <2> QED  BY <1>12, <2>2 DEF CallsSound
<1>14. PoolSound'
  <2>1. mined' + Len(pool') <= MaxTx
    BY <1>1, <1>3, Numbers
  <2>2. \A i \in DOMAIN pool' : pool'[i].by \in Caller => pool'[i].by # tx.by
    BY <1>1, <1>3 DEF Sound, PoolSound, tx
  <2>3. ASSUME NEW i \in DOMAIN pool' PROVE TransactionSound(pool[i])'
    <3>1. TransactionSound(pool'[i]) /\ pool'[i] \in Transaction
      BY <1>1, <1>3, ElementOfSeq DEF Sound, PoolSound
    <3>2. pool'[i].identity # NoIdentity /\ pool'[i].identity < mined => pool'[i].identity < mined'
      BY <1>1, <3>1, Numbers
    <3>3. ASSUME NEW a \in ToSet(pool'[i].claims), ~IsProfile(a), a.identity <= mined
          PROVE  a.identity <= mined'
      <4>1. a \in Claim
        BY <3>1, Numbers, SetOf
      <4>2. a.identity \in Identity
        BY <3>3, <4>1, Profiles, Numbers
      <4> QED  BY <1>1, <3>3, <4>2, Numbers
    <3> QED  BY <1>12, <2>2, <3>1, <3>2, <3>3 DEF TransactionSound
  <2>4. ASSUME NEW i \in DOMAIN pool', NEW j \in DOMAIN pool',
               pool'[i].by \in Caller, pool'[j].by = pool'[i].by
        PROVE  i = j
    <3>1. i + 1 = j + 1 /\ i \in Nat /\ j \in Nat
      BY <1>3, <2>4 DEF Sound, PoolSound
    <3> QED  BY <3>1
  <2> QED  BY <1>3, <2>1, <2>3, <2>4 DEF PoolSound
<1> QED  BY <1>13, <1>14

LEMMA MineTells ==
  ASSUME Sound, Mine
  PROVE  Sound'
<1> DEFINE tx == pool[1]
<1>0. pool # <<>> /\ pool' = Tail(pool) /\ mined' = mined + 1 /\ Returned(Head(pool))
  BY DEF Mine
<1>1. Len(pool) \in Nat /\ mined \in 0 .. MaxTx /\ mined \in Nat
  BY <1>0, PoolTail
<1>2. /\ tx \in Transaction /\ tx = Head(pool) /\ TransactionSound(tx)
      /\ tx.claims \in Seq(Claim) /\ tx.identity \in Identity \cup {NoIdentity}
      /\ tx.kind \in {"deploy", "addClaims", "clearUser", "other"}
  <2>1. tx \in Transaction /\ tx = Head(pool) /\ TransactionSound(tx)
    BY <1>0, PoolTail
  <2> QED  BY <2>1, Numbers
<1>4. mined \in Identity /\ mined' = mined + 1 /\ mined' \in 0 .. MaxTx
  BY <1>0, PoolTail
<1>5. /\ registry' = CASE tx.kind = "deploy" -> mined
                       [] tx.kind = "clearUser" -> NoIdentity
                       [] OTHER -> registry
      /\ events' = CASE tx.kind = "deploy" -> [events EXCEPT ![mined] = tx.claims]
                     [] tx.kind = "addClaims" -> [events EXCEPT ![tx.identity] = @ \o tx.claims]
                     [] OTHER -> events
      /\ replaced' = (replaced \/ (tx.kind = "deploy" /\ registry # NoIdentity))
      /\ astray' = (astray \/ (tx.kind = "addClaims" /\ registry # tx.identity))
      /\ issued' = issued /\ overlapped' = overlapped
  <2> HIDE DEF tx
  <2> QED  BY <1>2 DEF Mine
<1> DEFINE claims == IF tx.by \in Caller THEN call[tx.by].claims ELSE tx.claims
<1>6. IF tx.kind = "clearUser" THEN profile' = NoProfile /\ given' = given ELSE Complete(claims)
  <2> HIDE DEF tx
  <2> QED  BY <1>2 DEF Mine
<1> HIDE DEF tx, claims
<1>7. /\ events \in [Identity -> Seq(Claim)] /\ registry \in Identity \cup {NoIdentity}
      /\ registry # NoIdentity => registry < mined
  BY DEF Sound, ChainSound
\* What is mined is one of: a deployment, claims for a deployed identity, anything else.
<1>8. \/ tx.kind = "deploy" /\ registry' = mined /\ events' = [events EXCEPT ![mined] = tx.claims]
      \/ /\ tx.kind = "addClaims" /\ registry' = registry
         /\ tx.identity \in Identity /\ tx.identity < mined
         /\ events' = [events EXCEPT ![tx.identity] = events[tx.identity] \o tx.claims]
      \/ tx.kind = "clearUser" /\ registry' = NoIdentity /\ events' = events
      \/ tx.kind = "other" /\ registry' = registry /\ events' = events
  BY <1>2, <1>5, <1>7 DEF TransactionSound
<1>9. events' \in [Identity -> Seq(Claim)] /\ Grows
  <2>1. CASE tx.kind = "deploy" /\ events' = [events EXCEPT ![mined] = tx.claims]
    <3>1. events' \in [Identity -> Seq(Claim)]
      BY <1>2, <1>4, <1>7, <2>1
    <3>2. \A i \in Identity : i < mined => events'[i] = events[i]
      BY <1>1, <1>4, <1>7, <2>1
    <3> QED  BY <1>1, <1>4, <3>1, <3>2 DEF Grows
  <2>2. CASE tx.identity \in Identity /\ events' = [events EXCEPT ![tx.identity] = events[tx.identity] \o tx.claims]
    <3>1. events[tx.identity] \in Seq(Claim)
      BY <1>7, <2>2
    <3>2. /\ events[tx.identity] \o tx.claims \in Seq(Claim)
          /\ ToSet(events[tx.identity] \o tx.claims) = ToSet(events[tx.identity]) \cup ToSet(tx.claims)
      BY <1>2, <3>1, SetOf, ConcatProperties
    <3>3. events' \in [Identity -> Seq(Claim)]
      BY <1>7, <2>2, <3>2
    <3>4. \A i \in Identity : ToSet(events[i]) \subseteq ToSet(events'[i])
      BY <1>7, <2>2, <3>2
    <3> QED  BY <1>1, <1>4, <3>3, <3>4 DEF Grows
  <2>3. CASE events' = events
    BY <1>1, <1>4, <1>7, <2>3 DEF Grows
  <2> QED  BY <1>8, <2>1, <2>2, <2>3
<1>10. ChainSound'
  <2>1. registry' \in Identity \cup {NoIdentity}
    BY <1>4, <1>7, <1>8
  <2>2. registry' # NoIdentity => registry' < mined'
    <3>1. registry' # NoIdentity => registry' = mined \/ (registry' = registry /\ registry # NoIdentity)
      BY <1>8
    <3>2. \A i \in Identity : i < mined => i < mined + 1
      BY <1>1, Numbers
    <3> QED  BY <1>1, <1>4, <1>7, <3>1, <3>2
  <2> QED  BY <1>4, <1>9, <2>1, <2>2 DEF ChainSound
<1>11. IssuedSound'
  <2>1. \A a \in issued : a.identity <= mined'
    BY <1>1, <1>4, Numbers DEF Sound, IssuedSound
  <2> QED  BY <1>5, <2>1 DEF Sound, IssuedSound
<1>13. CallsSound' /\ PoolSound'
  BY <1>0, <1>9, ReturnedTells
\* What the call was given is on the chain now.
<1>14. /\ claims \in Seq(Claim) /\ LastProfile(tx.claims) = LastProfile(claims)
       /\ \A a \in ToSet(claims) : ~IsProfile(a) =>
            /\ a \in Attestation /\ a.identity <= mined
            /\ tx.kind \in {"deploy", "addClaims"} \/ tx.kind = "clearUser"
            /\ \/ a \in ToSet(tx.claims)
               \/ a.identity < mined /\ a \in ToSet(events[a.identity])
  <2>1. CASE tx.by \in Caller
    <3> DEFINE old == call[tx.by]
    <3>1. /\ old \in CallRecord /\ CallSound(old) /\ old.claims \in Seq(Claim)
          /\ old.pc = "sent" /\ old.new = tx.claims /\ tx.kind \in {"deploy", "addClaims"}
      BY <1>2, <2>1, Numbers DEF Sound, CallsSound, TransactionSound
    <3>2. claims = old.claims
      BY <2>1 DEF claims
    <3> HIDE DEF old
    <3>3. LastProfile(tx.claims) = LastProfile(old.claims)
      BY <3>1 DEF CallSound
    <3>4. ASSUME NEW a \in ToSet(old.claims), ~IsProfile(a)
          PROVE  /\ a \in Attestation /\ a.identity <= mined
                 /\ \/ a \in ToSet(tx.claims)
                    \/ a.identity < mined /\ a \in ToSet(events[a.identity])
      <4>1. a \in Claim
        BY <3>1, SetOf
      <4> QED  BY <3>1, <3>4, <4>1, Profiles DEF CallSound
    <3> QED  BY <3>1, <3>2, <3>3, <3>4
  <2>2. CASE tx.by \notin Caller
    <3>1. claims = tx.claims
      BY <2>2 DEF claims
    <3>2. ASSUME NEW a \in ToSet(tx.claims), ~IsProfile(a)
          PROVE  /\ a \in Attestation /\ a.identity <= mined
                 /\ tx.kind \in {"deploy", "addClaims"} \/ tx.kind = "clearUser"
      <4>1. a \in Claim /\ ToSet(<<>>) = {}
        BY <1>2, SetOf
      <4> QED  BY <1>2, <2>2, <3>2, <4>1, Profiles DEF TransactionSound
    <3> QED  BY <1>2, <3>1, <3>2
  <2> QED  BY <2>1, <2>2
<1>15. ASSUME tx.kind # "clearUser"
       PROVE  /\ given' = given \cup {a \in ToSet(claims) : ~IsProfile(a)}
              /\ profile' = IF LastProfile(tx.claims) = NoProfile THEN profile ELSE LastProfile(tx.claims)
              /\ LastProfile(tx.claims) \in Profile \cup {NoProfile}
              /\ tx.kind = "other" => LastProfile(tx.claims) = NoProfile
  <2>1. Complete(claims)
    BY <1>6, <1>15
  <2>2. tx.kind = "other" => LastProfile(tx.claims) = NoProfile
    <3>1. LastProfile(<<>>) = NoProfile
      <4>1. <<>> \in Seq(Claim) /\ \A i \in DOMAIN <<>> : ~IsProfile(<<>>[i])
        BY EmptySeq
      <4> QED  BY <4>1, LastProfileIs
    <3> QED  BY <1>2, <3>1 DEF TransactionSound
  <2> QED  BY <1>14, <2>1, <2>2, CompleteIs
<1>16. GivenSound'
  <2>1. ASSUME NEW a \in given'
        PROVE  /\ a \in Attestation /\ a.identity < mined'
               /\ a.identity = registry' /\ ~astray' => a \in ToSet(events'[registry'])
    <3>1. CASE a \in given
      <4>1. /\ a \in Attestation /\ a.identity < mined /\ a.identity \in Identity
            /\ a.identity = registry /\ ~astray => a \in ToSet(events[registry])
        BY <3>1, Numbers DEF Sound, GivenSound
      <4>2. a.identity < mined' /\ a.identity # mined /\ a.identity # NoIdentity
        BY <1>1, <1>4, <4>1, Numbers
      <4>3. a.identity = registry' => registry' = registry
        BY <1>8, <4>2
      <4>4. ~astray' => ~astray
        BY <1>5
      <4> QED  BY <1>9, <4>1, <4>2, <4>3, <4>4 DEF Grows
    <3>2. CASE a \notin given
      <4>1. tx.kind # "clearUser"
        BY <1>6, <3>2
      <4>2. /\ a \in Attestation /\ a.identity <= mined /\ a.identity \in Identity
            /\ \/ a \in ToSet(tx.claims)
               \/ a.identity < mined /\ a \in ToSet(events[a.identity])
            /\ tx.kind \in {"deploy", "addClaims"}
        BY <1>14, <1>15, <3>2, <4>1, Numbers
      <4>3. a.identity < mined'
        BY <1>1, <1>4, <4>2, Numbers
      <4>4. ASSUME a.identity = registry', ~astray' PROVE a \in ToSet(events'[registry'])
        <5>1. CASE a \in ToSet(tx.claims)
          <6>1. CASE tx.kind = "deploy"
            BY <1>4, <1>7, <1>8, <5>1, <6>1
          <6>2. CASE tx.kind = "addClaims"
            <7>1. registry' = tx.identity /\ tx.identity \in Identity
                  /\ events' = [events EXCEPT ![tx.identity] = events[tx.identity] \o tx.claims]
              BY <1>5, <1>8, <4>4, <6>2
            <7>2. ToSet(events[tx.identity] \o tx.claims) = ToSet(events[tx.identity]) \cup ToSet(tx.claims)
              BY <1>2, <1>7, <7>1, SetOf
            <7> QED  BY <1>7, <5>1, <7>1, <7>2
          <6> QED  BY <4>2, <6>1, <6>2
        <5>2. CASE a.identity < mined /\ a \in ToSet(events[a.identity])
          BY <1>9, <4>2, <4>4, <5>2 DEF Grows
        <5> QED  BY <4>2, <5>1, <5>2
      <4> QED  BY <4>2, <4>3, <4>4
    <3> QED  BY <3>1, <3>2
  <2> QED  BY <2>1 DEF GivenSound
<1>17. ProfileSound'
  <2>1. profile' \in Profile \cup {NoProfile} /\ replaced' \in BOOLEAN /\ astray' \in BOOLEAN
    BY <1>5, <1>6, <1>15 DEF Sound, ProfileSound
  <2>2. ASSUME ~astray', ~replaced'
        PROVE  IF registry' = NoIdentity THEN profile' = NoProfile
               ELSE LastProfile(events'[registry']) = profile'
    <3>1. /\ ~astray /\ ~replaced
          /\ IF registry = NoIdentity THEN profile = NoProfile
             ELSE LastProfile(events[registry]) = profile
          /\ tx.kind = "deploy" => registry = NoIdentity
          /\ tx.kind = "addClaims" => registry = tx.identity
      BY <1>5, <2>2 DEF Sound, ProfileSound
    <3>2. CASE tx.kind # "clearUser"
      <4>1. /\ tx.kind = "other" => LastProfile(tx.claims) = NoProfile
            /\ profile' = IF LastProfile(tx.claims) = NoProfile THEN profile ELSE LastProfile(tx.claims)
        BY <1>15, <3>2
      <4>2. CASE tx.kind = "deploy"
        BY <1>4, <1>7, <1>8, <3>1, <4>1, <4>2, Numbers
      <4>3. CASE tx.kind = "addClaims"
        <5>1. registry' = registry /\ registry \in Identity /\ registry # NoIdentity
              /\ events' = [events EXCEPT ![registry] = events[registry] \o tx.claims]
          BY <1>8, <3>1, <4>3, Numbers
        <5>2. LastProfile(events[registry] \o tx.claims) =
                IF LastProfile(tx.claims) = NoProfile THEN LastProfile(events[registry])
                ELSE LastProfile(tx.claims)
          BY <1>2, <1>7, <5>1, LastProfileConcat
        <5> QED  BY <1>7, <3>1, <4>1, <5>1, <5>2
      <4>4. CASE tx.kind = "other"
        BY <1>8, <3>1, <4>1, <4>4
      <4> QED  BY <1>2, <3>2, <4>2, <4>3, <4>4
    <3>3. CASE tx.kind = "clearUser"
      BY <1>6, <1>8, <3>3
    <3> QED  BY <3>2, <3>3
  <2> QED  BY <2>1, <2>2 DEF ProfileSound
<1> QED  BY <1>5, <1>10, <1>11, <1>13, <1>16, <1>17 DEF Sound

LEMMA RevertTells ==
  ASSUME Sound, Revert
  PROVE  Sound'
<1>1. /\ pool # <<>> /\ pool' = Tail(pool) /\ mined' = mined + 1 /\ Returned(Head(pool))
      /\ registry' = registry /\ events' = events /\ issued' = issued /\ UNCHANGED history
  BY DEF Revert
<1>2. mined \in Nat /\ mined' \in Nat /\ mined' = mined + 1 /\ mined' \in 0 .. MaxTx
  BY <1>1, PoolTail
<1>3. Grows
  BY <1>1, <1>2 DEF Grows
<1>4. CallsSound' /\ PoolSound'
  BY <1>1, <1>3, ReturnedTells
<1>5. \A i \in Identity : (i < mined => i < mined') /\ (i <= mined => i <= mined')
  BY <1>2, Numbers
<1>6. ChainSound'
  BY <1>1, <1>2, <1>5 DEF Sound, ChainSound
<1>7. IssuedSound' /\ GivenSound'
  BY <1>1, <1>5, Numbers DEF history, Sound, IssuedSound, GivenSound
<1>8. ProfileSound' /\ overlapped' \in BOOLEAN
  BY <1>1 DEF history, Sound, ProfileSound
<1> QED  BY <1>4, <1>6, <1>7, <1>8 DEF Sound

LEMMA FailTells ==
  ASSUME Sound, NEW c \in Caller, Fail(c)
  PROVE  Sound'
<1>1. /\ call[c].pc # "sent" /\ call' = [call EXCEPT ![c] = Idle]
      /\ UNCHANGED <<chain, issued, history>>
  BY DEF Fail
<1>2. Idle \in CallRecord /\ CallSound(Idle)
  BY EmptySeq, SetOf DEF Idle, CallRecord, CallSound
<1>3. CallsSound' /\ PoolSound' /\ ChainSound'
  BY <1>1, <1>2, CallSteps
<1>4. IssuedSound' /\ GivenSound' /\ ProfileSound' /\ overlapped' \in BOOLEAN
  BY <1>1 DEF chain, history, Sound, IssuedSound, GivenSound, ProfileSound
<1> QED  BY <1>3, <1>4 DEF Sound

\* What a pool is in which nobody waits for the call's transaction any more.
LEMMA DisownedIs ==
  ASSUME Sound, NEW c \in Caller
  PROVE  /\ Disowned(c) \in Seq(Transaction) /\ Len(Disowned(c)) = Len(pool)
         /\ DOMAIN Disowned(c) = DOMAIN pool
         /\ \A i \in DOMAIN pool :
              /\ Disowned(c)[i].kind = pool[i].kind /\ Disowned(c)[i].claims = pool[i].claims
              /\ Disowned(c)[i].identity = pool[i].identity
              /\ Disowned(c)[i].by = IF pool[i].by = c THEN "wallet" ELSE pool[i].by
<1> DEFINE t(i) == IF pool[i].by = c THEN [pool[i] EXCEPT !.by = "wallet"] ELSE pool[i]
<1>1. /\ pool \in Seq(Transaction) /\ Len(pool) \in Nat /\ DOMAIN pool = 1 .. Len(pool)
      /\ \A i \in DOMAIN pool : pool[i] \in Transaction
  BY LenProperties, ElementOfSeq DEF Sound, PoolSound
<1>2. ASSUME NEW i \in DOMAIN pool
      PROVE  /\ t(i) \in Transaction
             /\ t(i).kind = pool[i].kind /\ t(i).claims = pool[i].claims
             /\ t(i).identity = pool[i].identity
             /\ t(i).by = IF pool[i].by = c THEN "wallet" ELSE pool[i].by
  <2>1. pool[i] \in Transaction
    BY <1>1
  <2> QED  BY <2>1 DEF Transaction
<1>3. Disowned(c) = [i \in 1 .. Len(pool) |-> t(i)]
  BY <1>1 DEF Disowned
<1> HIDE DEF t
<1>4. Disowned(c) \in [1 .. Len(pool) -> Transaction]
  BY <1>1, <1>2, <1>3
<1>5. Disowned(c) \in Seq(Transaction)
  BY <1>1, <1>4, SeqDef
<1>6. Len(Disowned(c)) = Len(pool)
  BY <1>1, <1>4, <1>5, LenProperties
<1> QED  BY <1>1, <1>2, <1>3, <1>5, <1>6

LEMMA GiveUpTells ==
  ASSUME Sound, NEW c \in Caller, GiveUp(c)
  PROVE  Sound'
<1>1. /\ call[c].pc = "sent" /\ call' = [call EXCEPT ![c] = Idle] /\ pool' = Disowned(c)
      /\ mined' = mined /\ registry' = registry /\ events' = events /\ issued' = issued
      /\ UNCHANGED history
  BY DEF GiveUp
<1>2. Idle \in CallRecord /\ CallSound(Idle)
  BY EmptySeq, SetOf DEF Idle, CallRecord, CallSound
<1>3. call \in [Caller -> CallRecord] /\ \A d \in Caller : CallSound(call[d])
  BY DEF Sound, CallsSound
<1>4. call' \in [Caller -> CallRecord] /\ \A d \in Caller : call'[d] = IF d = c THEN Idle ELSE call[d]
  BY <1>1, <1>2, <1>3
<1>5. CallsSound'
  <2>1. ASSUME NEW d \in Caller PROVE CallSound(call[d])'
    <3>1. CallSound(call'[d])
      BY <1>2, <1>3, <1>4
    <3> QED  BY <1>1, <3>1 DEF CallSound
  <2> QED  BY <1>4, <2>1 DEF CallsSound
<1>6. /\ pool' \in Seq(Transaction) /\ Len(pool') = Len(pool) /\ DOMAIN pool' = DOMAIN pool
      /\ \A i \in DOMAIN pool :
           /\ pool'[i].kind = pool[i].kind /\ pool'[i].claims = pool[i].claims
           /\ pool'[i].identity = pool[i].identity
           /\ pool'[i].by = IF pool[i].by = c THEN "wallet" ELSE pool[i].by
  BY <1>1, DisownedIs
<1>7. PoolSound'
  <2>1. ASSUME NEW i \in DOMAIN pool PROVE TransactionSound(pool[i])'
    <3>1. TransactionSound(pool[i])
      BY DEF Sound, PoolSound
    <3>2. CASE pool[i].by # c
      <4>1. pool'[i].by = pool[i].by
        BY <1>6, <3>2
      <4>2. pool[i].by \in Caller => call'[pool[i].by] = call[pool[i].by]
        BY <1>4, <3>2
      <4> QED  BY <1>1, <1>6, <3>1, <4>1, <4>2 DEF TransactionSound
    <3>3. CASE pool[i].by = c
      <4>1. /\ pool[i].kind \in {"deploy", "addClaims"} /\ call[c].new = pool[i].claims
            /\ pool'[i].by \notin Caller
        BY <1>6, <3>1, <3>3, UsersAssumption DEF TransactionSound
      <4>2. \A a \in ToSet(call[c].new) : ~IsProfile(a) => a.identity <= mined
        BY <1>1, <1>3 DEF CallSound
      <4> QED  BY <1>1, <1>6, <3>1, <4>1, <4>2 DEF TransactionSound
    <3> QED  BY <3>2, <3>3
  <2>2. \A i, j \in DOMAIN pool : pool'[i].by \in Caller /\ pool'[j].by = pool'[i].by => i = j
    BY <1>6, UsersAssumption DEF Sound, PoolSound
  <2> QED  BY <1>1, <1>6, <2>1, <2>2 DEF Sound, PoolSound
<1>8. ChainSound' /\ IssuedSound' /\ GivenSound' /\ ProfileSound' /\ overlapped' \in BOOLEAN
  BY <1>1 DEF history, Sound, ChainSound, IssuedSound, GivenSound, ProfileSound
<1> QED  BY <1>5, <1>7, <1>8 DEF Sound

LEMMA StepTells == Sound /\ [UsersNext]_usersVars => Sound'
<1> SUFFICES ASSUME Sound, [UsersNext]_usersVars PROVE Sound'
  OBVIOUS
<1>1. CASE UNCHANGED usersVars
  BY <1>1 DEF usersVars, chain, history, Sound, ChainSound, IssuedSound, CallsSound, CallSound, PoolSound,
              TransactionSound, GivenSound, ProfileSound
<1> QED  BY <1>1, WalletTells, MineTells, RevertTells, VerifyTells, SetTells, ReadTells, AgainTells,
            SubmitTells, FailTells, GiveUpTells DEF UsersNext

\* Whatever a call of set was given is shown once it has returned, for any profiles,
\* topics, number of calls at once and number of transactions.
THEOREM WhatWasGivenIsShown == UsersSpec => []GivenIsShown
<1>1. Sound => GivenIsShown
  <2> SUFFICES ASSUME Sound, registry # NoIdentity, ~astray
               PROVE  /\ \A a \in given : a.identity = registry => a \in Shown
                      /\ ~replaced => ShownProfile = profile
    BY DEF GivenIsShown
  <2>1. ASSUME NEW a \in given, a.identity = registry PROVE a \in Shown
    <3>1. a \in ToSet(events[registry]) /\ a \in Attestation
      BY <2>1 DEF Sound, GivenSound
    <3>2. ~IsProfile(a)
      BY <3>1, Profiles
    <3> QED  BY <2>1, <3>1, <3>2 DEF Shown, isValidAttestation, ToSet
  <2>2. ~replaced => ShownProfile = profile
    BY DEF Sound, ProfileSound, ShownProfile
  <2> QED  BY <2>1, <2>2
<1> QED  BY <1>1, InitTells, StepTells, PTL DEF UsersSpec

\* Every state has the types that UsersTypeOK gives.
THEOREM UsersTyped == UsersSpec => []UsersTypeOK
<1>1. Sound => UsersTypeOK
  BY DEF Sound, ChainSound, IssuedSound, CallsSound, CallRecord, PoolSound, GivenSound, ProfileSound,
         UsersTypeOK
<1> QED  BY <1>1, InitTells, StepTells, PTL DEF UsersSpec

-----------------------------------------------------------------------------
(* The registered identity of a wallet whose calls wait.                     *)

Active(c) == call[c].pc # "idle"

OneCall == \A c, d \in Caller : Active(c) /\ Active(d) => c = d

Deploys(i) == pool[i].kind = "deploy"

\* A deployment still to come is the first and the only one, and the call in progress,
\* if there is any, waits for it.
OneDeployment ==
  /\ \A i \in DOMAIN pool : Deploys(i) =>
       /\ registry = NoIdentity
       /\ \A c \in Caller : Active(c) => call[c].pc = "sent" /\ pool[i].by = c
  /\ \A i, j \in DOMAIN pool : Deploys(i) /\ Deploys(j) => i = j

\* An identity is deployed for a call that found none, and there still is none.
NoneBefore ==
  \A c \in Caller : call[c].pc = "submit" /\ call[c].identity = NoIdentity => registry = NoIdentity

Alone == OneCall /\ OneDeployment /\ NoneBefore /\ ~replaced

Waiting == Sound /\ (~overlapped => Alone)

LEMMA InitWaiting == UsersInit => Waiting
<1> SUFFICES ASSUME UsersInit PROVE Waiting
  OBVIOUS
<1>1. \A c \in Caller : call[c].pc = "idle"
  BY DEF UsersInit, Idle
<1>2. DOMAIN pool = {} /\ ~replaced
  BY DEF UsersInit
<1>3. Alone
  BY <1>1, <1>2 DEF Alone, OneCall, OneDeployment, NoneBefore, Active
<1> QED  BY <1>3, InitTells DEF Waiting

\* A step of the call in progress that sends nothing: no deployment is to come.
LEMMA NoteAlone ==
  ASSUME Sound, Alone, NEW c \in Caller, NEW r, call' = [call EXCEPT ![c] = r],
         call[c].pc \notin {"idle", "sent"},
         r.pc = "submit" /\ r.identity = NoIdentity => registry = NoIdentity,
         UNCHANGED <<chain, replaced>>
  PROVE  Alone'
<1>1. call'[c] = r /\ \A d \in Caller \ {c} : call'[d] = call[d]
  BY DEF Sound, CallsSound
<1>2. pool' = pool /\ registry' = registry /\ replaced' = replaced
  BY DEF chain
<1>3. \A i \in DOMAIN pool : ~Deploys(i)
  BY DEF Alone, OneDeployment, Active
<1>4. OneCall'
  BY <1>1 DEF Alone, OneCall, Active
<1>5. OneDeployment'
  BY <1>2, <1>3 DEF OneDeployment, Deploys
<1>6. NoneBefore'
  BY <1>1, <1>2 DEF Alone, NoneBefore
<1> QED  BY <1>2, <1>4, <1>5, <1>6 DEF Alone

LEMMA SetAlone ==
  ASSUME Sound, Alone, NEW c \in Caller, NEW newProfile, NEW attestations,
         set(c, newProfile, attestations), ~overlapped'
  PROVE  Alone'
<1>1. /\ \A d \in Caller : call[d].pc = "idle"
      /\ \A i \in DOMAIN pool : ~Deploys(i)
      /\ pool' = pool /\ registry' = registry /\ replaced' = replaced
  <2>1. call[c].pc = "idle" /\ UNCHANGED <<chain, replaced>>
    BY DEF set
  <2>2. \A d \in Caller \ {c} : call[d].pc = "idle"
    BY DEF set
  <2>3. ASSUME NEW i \in DOMAIN pool, pool[i].kind = "deploy"
        PROVE  FALSE
    <3>1. overlapped'
      BY <2>3 DEF set
    <3> QED  BY <3>1
  <2> QED  BY <2>1, <2>2, <2>3 DEF chain, Deploys
<1>2. call'[c].pc = "known" /\ \A d \in Caller \ {c} : call'[d] = call[d]
  BY DEF set, Idle, Sound, CallsSound
<1>3. OneCall' /\ NoneBefore'
  BY <1>1, <1>2 DEF OneCall, NoneBefore, Active
<1>4. OneDeployment'
  BY <1>1 DEF OneDeployment, Deploys
<1> QED  BY <1>1, <1>3, <1>4 DEF Alone

LEMMA ReadAlone ==
  ASSUME Sound, Alone, NEW c \in Caller,
         KnowIdentity(c) \/ KnowClaims(c) \/ KnowIdentityAgain(c) \/ Fail(c)
  PROVE  Alone'
<1> DEFINE old == call[c]
           fresh == newAttestations(old.claims, old.identity)
           r1 == [old EXCEPT !.new = old.claims, !.pc = "again"]
           r2 == [old EXCEPT !.identity = registry, !.pc = "claims"]
           r3 == [old EXCEPT !.new = fresh, !.pc = "again"]
           r4 == [old EXCEPT !.identity = registry, !.pc = "submit"]
<1>1. old \in CallRecord /\ call \in [Caller -> CallRecord]
  BY DEF Sound, CallsSound
<1>2. /\ r1.pc = "again" /\ r2.pc = "claims" /\ r3.pc = "again" /\ Idle.pc = "idle"
      /\ r4.pc = "submit" /\ r4.identity = registry
  <2> HIDE DEF old, fresh
  <2> QED  BY <1>1 DEF CallRecord, Idle
<1>3. /\ call[c].pc \notin {"idle", "sent"} /\ UNCHANGED <<chain, replaced>>
      /\ \/ call' = [call EXCEPT ![c] = r1] \/ call' = [call EXCEPT ![c] = r2]
         \/ call' = [call EXCEPT ![c] = r3] \/ call' = [call EXCEPT ![c] = r4]
         \/ call' = [call EXCEPT ![c] = Idle]
  <2>1. CASE KnowIdentity(c)
    <3>1. call' = [call EXCEPT ![c] = r1] \/ call' = [call EXCEPT ![c] = r2]
      BY <1>1, <2>1 DEF KnowIdentity
    <3>2. call[c].pc \notin {"idle", "sent"} /\ UNCHANGED <<chain, replaced>>
      BY <2>1 DEF KnowIdentity, history
    <3> QED  BY <3>1, <3>2
  <2>2. CASE KnowClaims(c)
    <3>1. call' = [call EXCEPT ![c] = r3]
      BY <1>1, <2>2 DEF KnowClaims, CallRecord
    <3>2. call[c].pc \notin {"idle", "sent"} /\ UNCHANGED <<chain, replaced>>
      BY <2>2 DEF KnowClaims, history
    <3> QED  BY <3>1, <3>2
  <2>3. CASE KnowIdentityAgain(c)
    <3>1. call' = [call EXCEPT ![c] = r4] \/ call' = [call EXCEPT ![c] = Idle]
      BY <1>1, <2>3 DEF KnowIdentityAgain
    <3>2. call[c].pc \notin {"idle", "sent"} /\ UNCHANGED <<chain, replaced>>
      BY <2>3 DEF KnowIdentityAgain
    <3> QED  BY <3>1, <3>2
  <2>4. CASE Fail(c)
    BY <2>4 DEF Fail, history
  <2> QED  BY <2>1, <2>2, <2>3, <2>4
<1> HIDE DEF r1, r2, r3, r4, old
<1> QED  BY <1>2, <1>3, NoteAlone

LEMMA SubmitAlone ==
  ASSUME Sound, Alone, NEW c \in Caller, Submit(c)
  PROVE  Alone'
<1> DEFINE new == Len(pool) + 1
<1>1. /\ call[c].pc = "submit" /\ call' = [call EXCEPT ![c].pc = "sent"]
      /\ registry' = registry /\ replaced' = replaced
  BY DEF Submit, history
<1>2. /\ call'[c].pc = "sent" /\ \A d \in Caller \ {c} : call'[d] = call[d]
  BY <1>1 DEF Sound, CallsSound, CallRecord
<1>3. \A i \in DOMAIN pool : ~Deploys(i)
  BY <1>1 DEF Alone, OneDeployment, Active
<1>4. PICK kind \in {"deploy", "addClaims"}, identity \in Identity \cup {NoIdentity} :
        /\ kind = "deploy" => call[c].identity = NoIdentity
        /\ Send(kind, call[c].new, identity, c)
  <2>1. call[c].identity \in Identity \cup {NoIdentity}
    BY Numbers DEF Sound, CallsSound
  <2> QED  BY <2>1, Zenon DEF Submit, deploy, addToIdentity
<1>5. [kind |-> kind, claims |-> call[c].new, identity |-> identity, by |-> c] \in Transaction
  <2>1. call[c].new \in Seq(Claim)
    BY Numbers DEF Sound, CallsSound
  <2> QED  BY <2>1 DEF Transaction
<1>6. /\ Len(pool) \in Nat /\ DOMAIN pool = 1 .. Len(pool) /\ DOMAIN pool' = 1 .. Len(pool) + 1
      /\ \A i \in 1 .. Len(pool) : pool'[i] = pool[i]
      /\ pool'[Len(pool) + 1] = [kind |-> kind, claims |-> call[c].new, identity |-> identity, by |-> c]
  BY <1>4, <1>5, SendTells
<1>7. /\ \A i \in DOMAIN pool' : i = new \/ (i \in DOMAIN pool /\ pool'[i] = pool[i])
      /\ pool'[new].kind = kind /\ pool'[new].by = c
  BY <1>6
<1> HIDE DEF new
<1>8. OneCall'
  BY <1>1, <1>2 DEF Alone, OneCall, Active
<1>9. \A d \in Caller \ {c} : ~Active(d)
  BY <1>1 DEF Alone, OneCall, Active
<1>10. \A i \in DOMAIN pool' : pool'[i].kind = "deploy" => i = new /\ registry = NoIdentity
  BY <1>1, <1>3, <1>4, <1>7 DEF Deploys, Alone, NoneBefore
<1>11. OneDeployment'
  BY <1>1, <1>2, <1>7, <1>9, <1>10 DEF OneDeployment, Deploys, Active
<1>12. NoneBefore'
  BY <1>1, <1>2, <1>9 DEF NoneBefore, Active
<1> QED  BY <1>1, <1>8, <1>11, <1>12 DEF Alone

LEMMA GiveUpAlone ==
  ASSUME Sound, Alone, NEW c \in Caller, GiveUp(c)
  PROVE  Alone'
<1>1. /\ call[c].pc = "sent" /\ call' = [call EXCEPT ![c] = Idle] /\ pool' = Disowned(c)
      /\ registry' = registry /\ replaced' = replaced
  BY DEF GiveUp, history
<1>2. \A d \in Caller : call'[d].pc = "idle"
  <2>1. \A d \in Caller \ {c} : call[d].pc = "idle"
    BY <1>1 DEF Alone, OneCall, Active
  <2> QED  BY <1>1, <2>1 DEF Idle, Sound, CallsSound
<1>3. DOMAIN pool' = DOMAIN pool /\ \A i \in DOMAIN pool : pool'[i].kind = pool[i].kind
  BY <1>1, DisownedIs
<1>4. OneCall' /\ NoneBefore'
  BY <1>2 DEF OneCall, NoneBefore, Active
<1>5. OneDeployment'
  BY <1>1, <1>2, <1>3 DEF Alone, OneDeployment, Deploys, Active
<1> QED  BY <1>1, <1>4, <1>5 DEF Alone

LEMMA WalletAlone ==
  ASSUME Sound, Alone, WalletSends
  PROVE  Alone'
<1>1. PICK kind \in {"clearUser", "other"} : Send(kind, <<>>, NoIdentity, "wallet")
  BY DEF WalletSends
<1>2. call' = call /\ registry' = registry /\ replaced' = replaced
  BY DEF WalletSends, history
<1>3. [kind |-> kind, claims |-> <<>>, identity |-> NoIdentity, by |-> "wallet"] \in Transaction
  BY EmptySeq DEF Transaction
<1>4. /\ Len(pool) \in Nat /\ DOMAIN pool = 1 .. Len(pool) /\ DOMAIN pool' = 1 .. Len(pool) + 1
      /\ \A i \in 1 .. Len(pool) : pool'[i] = pool[i]
      /\ pool'[Len(pool) + 1] = [kind |-> kind, claims |-> <<>>, identity |-> NoIdentity, by |-> "wallet"]
  BY <1>1, <1>3, SendTells
<1>5. \A i \in DOMAIN pool' : pool'[i].kind = "deploy" => i \in DOMAIN pool /\ pool'[i] = pool[i]
  BY <1>4
<1>6. OneDeployment'
  BY <1>2, <1>5 DEF Alone, OneDeployment, Deploys, Active
<1> QED  BY <1>2, <1>6 DEF Alone, OneCall, NoneBefore, Active

\* Mined or reverted, a transaction of the pool is done with.
LEMMA TailAlone ==
  ASSUME Sound, Alone, pool # <<>>, pool' = Tail(pool), mined' = mined + 1, Returned(Head(pool)),
         \/ registry' = registry \/ registry' = NoIdentity \/ pool[1].kind = "deploy",
         replaced' => replaced \/ (pool[1].kind = "deploy" /\ registry # NoIdentity)
  PROVE  Alone'
<1>1. /\ 1 \in DOMAIN pool /\ pool[1] = Head(pool)
      /\ \A i \in DOMAIN pool' : i \in Nat /\ i + 1 \in DOMAIN pool /\ i + 1 # 1 /\ pool'[i] = pool[i + 1]
  BY PoolTail
<1>2. \A c \in Caller : call'[c] = call[c] \/ (call'[c].pc = "idle" /\ pool[1].by = c)
  BY <1>1 DEF Returned, Idle, Sound, CallsSound
<1>3. \A c \in Caller : pool[1].by = c => call'[c].pc = "idle"
  BY <1>1 DEF Returned, Idle, Sound, CallsSound
<1>4. OneCall'
  BY <1>2 DEF Alone, OneCall, Active
<1>5. ~replaced'
  BY <1>1 DEF Alone, OneDeployment, Deploys
<1>6. CASE pool[1].kind = "deploy"
  <2>1. \A i \in DOMAIN pool' : pool'[i].kind # "deploy"
    BY <1>1, <1>6 DEF Alone, OneDeployment, Deploys
  <2>2. \A c \in Caller : call'[c].pc = "idle"
    BY <1>1, <1>2, <1>3, <1>6 DEF Alone, OneDeployment, Deploys, Active
  <2> QED  BY <1>4, <1>5, <2>1, <2>2 DEF Alone, OneDeployment, Deploys, NoneBefore
<1>7. CASE pool[1].kind # "deploy"
  <2>1. \A i, j \in DOMAIN pool' : pool'[i].kind = "deploy" /\ pool'[j].kind = "deploy" => i = j
    <3>1. \A i, j \in DOMAIN pool' : pool'[i].kind = "deploy" /\ pool'[j].kind = "deploy" => i + 1 = j + 1
      BY <1>1 DEF Alone, OneDeployment, Deploys
    <3> QED  BY <1>1, <3>1
  <2>2. \A i \in DOMAIN pool' : pool'[i].kind = "deploy" =>
          /\ registry' = NoIdentity
          /\ \A c \in Caller : call'[c].pc # "idle" => call'[c].pc = "sent" /\ pool'[i].by = c
    BY <1>1, <1>2, <1>7 DEF Alone, OneDeployment, Deploys, Active
  <2>3. OneDeployment'
    BY <2>1, <2>2 DEF OneDeployment, Deploys, Active
  <2>4. NoneBefore'
    BY <1>2, <1>7 DEF Alone, NoneBefore
  <2> QED  BY <1>4, <1>5, <2>3, <2>4 DEF Alone
<1> QED  BY <1>6, <1>7

LEMMA StepWaiting == Waiting /\ [UsersNext]_usersVars => Waiting'
<1> SUFFICES ASSUME Waiting, [UsersNext]_usersVars PROVE Waiting'
  OBVIOUS
<1>1. Sound /\ Sound'
  BY StepTells DEF Waiting
<1>2. ASSUME ~overlapped' PROVE Alone'
  <2>1. Alone \/ overlapped
    BY DEF Waiting
  <2>2. CASE UNCHANGED <<chain, call, overlapped, replaced>>
    BY <1>2, <2>1, <2>2 DEF chain, Alone, OneCall, Active, OneDeployment, Deploys, NoneBefore
  <2>3. ASSUME NEW topic \in ClaimTopic, NEW data \in Data, Verify(topic, data)
        PROVE  Alone'
    BY <2>2, <2>3 DEF Verify, history
  <2>4. ASSUME NEW c \in Caller, NEW newProfile, NEW attestations, set(c, newProfile, attestations)
        PROVE  Alone'
    <3>1. ~overlapped
      BY <1>2, <2>4 DEF set
    <3> QED  BY <1>1, <1>2, <2>1, <2>4, <3>1, SetAlone
  <2>5. ASSUME NEW c \in Caller,
               \/ KnowIdentity(c) \/ KnowClaims(c) \/ KnowIdentityAgain(c) \/ Fail(c)
               \/ Submit(c) \/ GiveUp(c)
        PROVE  Alone'
    <3>1. ~overlapped
      BY <1>2, <2>5 DEF KnowIdentity, KnowClaims, KnowIdentityAgain, Fail, Submit, GiveUp, history
    <3> QED  BY <1>1, <2>1, <2>5, <3>1, ReadAlone, SubmitAlone, GiveUpAlone
  <2>6. CASE WalletSends
    <3>1. ~overlapped
      BY <1>2, <2>6 DEF WalletSends, history
    <3> QED  BY <1>1, <2>1, <2>6, <3>1, WalletAlone
  <2>7. CASE Mine
    <3>1. /\ overlapped' = overlapped
          /\ pool # <<>> /\ pool' = Tail(pool) /\ mined' = mined + 1 /\ Returned(Head(pool))
      BY <2>7 DEF Mine
    <3>2. pool[1] = Head(pool)
      BY <1>1, <3>1, PoolTail
    <3>3. /\ \/ registry' = registry \/ registry' = NoIdentity \/ pool[1].kind = "deploy"
          /\ replaced' => replaced \/ (pool[1].kind = "deploy" /\ registry # NoIdentity)
      BY <2>7, <3>2 DEF Mine
    <3> QED  BY <1>1, <1>2, <2>1, <3>1, <3>3, TailAlone
  <2>8. CASE Revert
    <3>1. /\ overlapped' = overlapped /\ registry' = registry /\ replaced' = replaced
          /\ pool # <<>> /\ pool' = Tail(pool) /\ mined' = mined + 1 /\ Returned(Head(pool))
      BY <2>8 DEF Revert, history
    <3> QED  BY <1>1, <1>2, <2>1, <3>1, TailAlone
  <2>9. CASE UNCHANGED usersVars
    BY <2>2, <2>9 DEF usersVars, history
  <2> QED  BY <2>3, <2>4, <2>5, <2>6, <2>7, <2>8, <2>9 DEF UsersNext
<1> QED  BY <1>1, <1>2 DEF Waiting

\* A call that has returned is seen by the next, and so is one that failed, unless its
\* deployment is still pending: only overlapping calls may each deploy an identity.
THEOREM IdentityIsOne == UsersSpec => []OneIdentity
<1>1. Waiting => OneIdentity
  BY DEF Waiting, Alone, OneIdentity
<1> QED  BY <1>1, InitWaiting, StepWaiting, PTL DEF UsersSpec
=============================================================================
