--------------------------- MODULE Messaging_proofs ---------------------------
(***************************************************************************)
(* A message is never in a replica without its key, earlier in the order,  *)
(* whatever number of calls are made, in whatever order the replicas learn *)
(* of each other's entries and wherever pages are loaded again; and a user *)
(* past whom no key went while messaging was locked reads all of them.     *)
(***************************************************************************)
EXTENDS Messaging, FiniteSetTheorems, WellFoundedInduction, TLAPS

\* An entry as far as the proof needs it: the bounds are left out.
AnyName  == User \X Nat
AnyEntry == [by : User, n : Nat, time : Nat, kind : {"key", "msg"}, key : AnyName]

-----------------------------------------------------------------------------
(* The order of the entries.                                                 *)

LEMMA LeastNatural ==
  ASSUME NEW S \in SUBSET Nat, S # {}
  PROVE  \E m \in S : \A k \in S : m <= k
<1>1. \E m \in S : \A k \in S : ~(<<k, m>> \in OpToRel(<, Nat))
  BY NatLessThanWellFounded, WFMin
<1>2. \A k, m \in S : ~(<<k, m>> \in OpToRel(<, Nat)) => m <= k
  BY DEF OpToRel
<1> QED  BY <1>1, <1>2

\* Some entry is before all others.
LEMMA EarliestExists ==
  ASSUME NEW E \in SUBSET AnyEntry, E # {}
  PROVE  \E e \in E : \A f \in E : ~Before(f, e)
<1>1. PICK t \in {e.time : e \in E} : \A k \in {e.time : e \in E} : t <= k
  <2>1. {e.time : e \in E} \in SUBSET Nat /\ {e.time : e \in E} # {}
    BY DEF AnyEntry
  <2> QED  BY <2>1, LeastNatural
<1> DEFINE A == {e \in E : e.time = t}
<1>2. PICK r \in {Rank(e.by) : e \in A} : \A k \in {Rank(e.by) : e \in A} : r <= k
  <2>1. {Rank(e.by) : e \in A} \in SUBSET Nat /\ {Rank(e.by) : e \in A} # {}
    BY <1>1 DEF AnyEntry, Rank
  <2> QED  BY <2>1, LeastNatural
<1> DEFINE B == {e \in A : Rank(e.by) = r}
<1>3. PICK n \in {e.n : e \in B} : \A k \in {e.n : e \in B} : n <= k
  <2>1. {e.n : e \in B} \in SUBSET Nat /\ {e.n : e \in B} # {}
    BY <1>2 DEF AnyEntry
  <2> QED  BY <2>1, LeastNatural
<1>4. PICK e \in B : e.n = n
  BY <1>3
<1>5. ASSUME NEW f \in E PROVE ~Before(f, e)
  <2>1. e \in E /\ e.time = t /\ Rank(e.by) = r /\ e.n = n
    BY <1>4
  <2>2. t \in Nat /\ r \in Nat /\ n \in Nat /\ f.time \in Nat /\ Rank(f.by) \in Nat /\ f.n \in Nat
    BY <1>5, <2>1 DEF AnyEntry, Rank
  <2>3. t <= f.time
    BY <1>1, <1>5
  <2>4. f.time = t => r <= Rank(f.by)
    BY <1>2, <1>5
  <2>5. f.time = t /\ Rank(f.by) = r => n <= f.n
    BY <1>3, <1>5
  <2>6. f.time = t /\ f.by = e.by => Rank(f.by) = r
    BY <2>1
  <2> HIDE DEF A, B
  <2> QED  BY <2>1, <2>2, <2>3, <2>4, <2>5, <2>6 DEF Before
<1> QED  BY <1>4, <1>5

\* The first key is one of those that were learned.
LEMMA FirstIsLearned ==
  ASSUME NEW E \in SUBSET AnyEntry, NEW first
  PROVE  FirstKey(first, E) = first \/ FirstKey(first, E) \in KeysOf(E)
<1>1. CASE first # NoKey \/ E = {}
  BY <1>1 DEF FirstKey
<1>2. CASE first = NoKey /\ E # {}
  <2>1. (CHOOSE e \in E : \A f \in E : ~Before(f, e)) \in E
    BY <1>2, EarliestExists
  <2> QED  BY <1>2, <2>1 DEF FirstKey, KeysOf
<1> QED  BY <1>1, <1>2

\* The clock of a new entry is past all that are loaded.
LEMMA ClockIsPast ==
  ASSUME NEW u, view[u] \in SUBSET AnyEntry, IsFiniteSet(view[u])
  PROVE  Clock(u) \in Nat /\ \A e \in view[u] : e.time < Clock(u)
<1> DEFINE Ticks == {1 .. e.time : e \in view[u]}
           T == UNION Ticks
<1>1. IsFiniteSet(Ticks)
  <2> DEFINE g == [e \in view[u] |-> 1 .. e.time]
  <2>1. g \in Surjection(view[u], Ticks)
    BY DEF Surjection
  <2> QED  BY <2>1, FS_Surjection
<1>2. \A S \in Ticks : IsFiniteSet(S)
  BY FS_Interval DEF AnyEntry
<1>3. IsFiniteSet(T)
  BY <1>1, <1>2, FS_UNION
<1>4. Clock(u) = 1 + Cardinality(T)
  BY DEF Clock
<1>5. Cardinality(T) \in Nat
  BY <1>3, FS_CardinalityType
<1>6. ASSUME NEW e \in view[u] PROVE e.time < Clock(u)
  <2>1. e.time \in Nat
    BY <1>6 DEF AnyEntry
  <2>2. Cardinality(1 .. e.time) = e.time
    BY <2>1, FS_Interval
  <2>3. 1 .. e.time \in SUBSET T
    BY <1>6
  <2>4. Cardinality(1 .. e.time) <= Cardinality(T)
    BY <1>3, <2>3, FS_Subset
  <2> QED  BY <1>4, <1>5, <2>1, <2>2, <2>4
<1> QED  BY <1>4, <1>5, <1>6
-----------------------------------------------------------------------------
(* The invariant.                                                            *)

Conv == [keys : SUBSET AnyName, first : AnyName \cup {NoKey}, last : SUBSET AnyEntry]

Sending ==
  [pc : Steps, opener : BOOLEAN, starting : BOOLEAN, key : AnyName \cup {NoKey}]

\* The key came with one of these entries.
Has(E, key) == \E k \in E : k.kind = "key" /\ k.key = key

\* Every message among these entries comes after its key.
Keyed(E) ==
  \A e \in Messages(E) : \E k \in E : k.kind = "key" /\ k.key = e.key /\ Before(k, e)

\* What a conversation has learned came with these entries.
KeysFrom(cv, E) ==
  /\ \A key \in cv.keys : Has(E, key)
  /\ cv.first # NoKey => Has(E, cv.first)

\* A message about to be added is encrypted with a key of the room.
CallsKeyed(calls) == \A c \in Call : calls[c].pc = "add" => Has(view[Caller[c]], calls[c].key)

Replica(u) ==
  /\ IsFiniteSet(log[u])
  /\ view[u] \subseteq log[u]
  /\ Keyed(log[u]) /\ Keyed(view[u])
  /\ KeysFrom(conv[u], view[u])

Typed ==
  /\ log \in [User -> SUBSET AnyEntry] /\ view \in [User -> SUBSET AnyEntry]
  /\ conv \in [User -> Conv]
  /\ call \in [Call -> Sending]

Inv == Typed /\ CallsKeyed(call) /\ \A u \in User : Replica(u)

LEMMA InitSound == Init => Inv
<1> SUFFICES ASSUME Init PROVE Inv
  OBVIOUS
<1>1. Typed
  BY DEF Init, Typed, Conv, Sending, NoConv, Idle, Steps
<1>2. CallsKeyed(call)
  BY DEF Init, CallsKeyed, Idle
<1>3. ASSUME NEW u \in User PROVE Replica(u)
  <2>1. log[u] = {} /\ view[u] = {} /\ conv[u] = NoConv
    BY DEF Init
  <2> QED  BY <2>1, FS_EmptySet DEF Replica, Keyed, KeysFrom, Messages, NoConv
<1> QED  BY <1>1, <1>2, <1>3 DEF Inv

\* With more entries, what was there stays there.
LEMMA HasMore ==
  ASSUME NEW E, NEW F, E \subseteq F, NEW key, Has(E, key)
  PROVE  Has(F, key)
BY DEF Has

\* Joining replicas that have their messages' keys gives one that has.
LEMMA KeyedUnion ==
  ASSUME NEW E, NEW F, Keyed(E), Keyed(F)
  PROVE  Keyed(E \cup F)
BY DEF Keyed, Messages

\* Learning keys from entries that are there.
LEMMA LearnSound ==
  ASSUME NEW u, conv[u] \in Conv, NEW E \in SUBSET AnyEntry, KeysFrom(conv[u], E),
         NEW S \in SUBSET E, \A e \in S : e.kind = "key"
  PROVE  Learned(u, S) \in Conv /\ KeysFrom(Learned(u, S), E)
<1> DEFINE first == FirstKey(conv[u].first, S)
<1>1. \A key \in KeysOf(S) : key \in AnyName /\ Has(E, key)
  BY DEF KeysOf, AnyEntry, Has
<1>2. first = conv[u].first \/ first \in KeysOf(S)
  BY FirstIsLearned
<1> HIDE DEF first
<1>3. Learned(u, S) = [conv[u] EXCEPT !.keys = @ \cup KeysOf(S), !.first = first]
  BY DEF Learned, first, Conv
<1>4. Learned(u, S) \in Conv
  BY <1>1, <1>2, <1>3 DEF Conv
<1>5. Learned(u, S).keys = conv[u].keys \cup KeysOf(S) /\ Learned(u, S).first = first
  BY <1>3 DEF Conv
<1>6. KeysFrom(Learned(u, S), E)
  BY <1>1, <1>2, <1>5 DEF KeysFrom
<1> QED  BY <1>4, <1>6

\* Processing entries learns keys from them only.
LEMMA ProcessSound ==
  ASSUME Inv, NEW u \in User, NEW E \in SUBSET AnyEntry, view[u] \subseteq E,
         processMessage(u, E)
  PROVE  \E cv \in Conv : conv' = [conv EXCEPT ![u] = cv] /\ KeysFrom(cv, E)
<1>1. PICK S \in SUBSET E :
        /\ \A e \in S : e.kind = "key"
        /\ conv' = [conv EXCEPT ![u] = [Learned(u, S) EXCEPT !.last = E]]
  <2> DEFINE S == {e \in {f \in Unprocessed(u, E) : f.kind = "key"} :
                     Decrypts(u, e) /\ e.key \notin conv[u].keys}
  <2>1. S \in SUBSET E /\ \A e \in S : e.kind = "key"
    BY DEF Unprocessed
  <2>2. conv' = [conv EXCEPT ![u] = [Learned(u, S) EXCEPT !.last = E]]
    BY DEF processMessage
  <2> HIDE DEF S
  <2> QED  BY <2>1, <2>2
<1>2. conv[u] \in Conv /\ KeysFrom(conv[u], view[u])
  BY DEF Inv, Typed, Replica
<1>3. KeysFrom(conv[u], E)
  BY <1>2, HasMore DEF KeysFrom
<1>4. Learned(u, S) \in Conv /\ KeysFrom(Learned(u, S), E)
  BY <1>1, <1>2, <1>3, LearnSound
<1> DEFINE cv == [Learned(u, S) EXCEPT !.last = E]
<1>5. cv \in Conv /\ KeysFrom(cv, E)
  BY <1>4 DEF Conv, KeysFrom
<1> QED  BY <1>1, <1>5

\* A user's replica grows with its messages' keys, and calls go on with keys that
\* are there.
LEMMA GrowSound ==
  ASSUME Inv, NEW u \in User, NEW E \in SUBSET AnyEntry, NEW L \in SUBSET AnyEntry,
         NEW cv \in Conv,
         view[u] \subseteq E, E \subseteq L, IsFiniteSet(L), Keyed(E), Keyed(L),
         KeysFrom(cv, E),
         log' = [log EXCEPT ![u] = L], view' = [view EXCEPT ![u] = E],
         conv' = [conv EXCEPT ![u] = cv],
         call' \in [Call -> Sending], CallsKeyed(call')
  PROVE  Inv'
<1>1. Typed'
  BY DEF Inv, Typed
<1>2. \A v \in User : view[v] \subseteq view'[v]
  BY DEF Inv, Typed
<1>3. CallsKeyed(call)'
  <2>1. SUFFICES ASSUME NEW c \in Call, call'[c].pc = "add"
        PROVE  Has(view'[Caller[c]], call'[c].key)
    BY DEF CallsKeyed
  <2>2. Has(view[Caller[c]], call'[c].key)
    BY <2>1 DEF CallsKeyed
  <2>3. Caller[c] \in User
    BY MessagingAssumption
  <2> QED  BY <1>2, <2>2, <2>3, HasMore
<1>4. ASSUME NEW v \in User PROVE Replica(v)'
  <2>1. CASE v = u
    <3>1. log'[v] = L /\ view'[v] = E /\ conv'[v] = cv
      BY <2>1 DEF Inv, Typed
    <3>2. Keyed(log'[v]) /\ Keyed(view'[v]) /\ KeysFrom(conv'[v], view'[v])
      BY <3>1
    <3>3. IsFiniteSet(log'[v]) /\ view'[v] \subseteq log'[v]
      BY <3>1
    <3> QED  BY <3>2, <3>3 DEF Replica, Keyed, KeysFrom, Has, Messages, Before
  <2>2. CASE v # u
    <3>1. log'[v] = log[v] /\ view'[v] = view[v] /\ conv'[v] = conv[v]
      BY <2>2 DEF Inv, Typed
    <3> QED  BY <3>1 DEF Inv, Replica
  <2> QED  BY <2>1, <2>2
<1> QED  BY <1>1, <1>3, <1>4 DEF Inv

\* A step of a call that changes no replica.
LEMMA CallsSound ==
  ASSUME Inv, NEW c \in Call, NEW s \in Sending, Goes(c, s),
         s.pc = "add" => Has(view[Caller[c]], s.key)
  PROVE  call' \in [Call -> Sending] /\ CallsKeyed(call')
BY DEF Inv, Typed, CallsKeyed, Goes

\* A step that changes no replica.
LEMMA StaySound ==
  ASSUME Inv, UNCHANGED <<log, view, conv>>, call' \in [Call -> Sending], CallsKeyed(call')
  PROVE  Inv'
<1>1. Typed'
  BY DEF Inv, Typed
<1>2. CallsKeyed(call)'
  BY DEF CallsKeyed
<1>3. ASSUME NEW v \in User PROVE Replica(v)'
  BY <1>3 DEF Inv, Replica
<1> QED  BY <1>1, <1>2, <1>3 DEF Inv

LEMMA StepsOfCalls ==
  ASSUME Inv, NEW c \in Call,
         \/ sendConvMessage(c) \/ startConv(c) \/ EnterRoom(c) \/ Encrypt(c) \/ AddFails(c)
  PROVE  Inv'
<1>1. call[c] \in Sending /\ Caller[c] \in User
  BY MessagingAssumption DEF Inv, Typed
<1>2. Idle \in Sending /\ Idle.pc # "add"
  BY DEF Idle, Sending, Steps
<1>3. ASSUME NEW starting \in BOOLEAN, InRoom(c, starting)
      PROVE  call' \in [Call -> Sending] /\ CallsKeyed(call')
  <2> DEFINE s == [Idle EXCEPT !.pc = "room", !.opener = (room[Caller[c]] = "none"),
                               !.starting = starting]
  <2>1. s \in Sending /\ s.pc # "add" /\ Goes(c, s)
    BY <1>2, <1>3 DEF InRoom, Sending, Steps
  <2> HIDE DEF s
  <2> QED  BY <2>1, CallsSound
<1>4. CASE sendConvMessage(c)
  <2>1. CASE InRoom(c, FALSE)
    BY <1>3, <1>4, <2>1, StaySound DEF sendConvMessage
  <2>2. CASE Goes(c, [Idle EXCEPT !.pc = "stores"])
    <3> DEFINE s == [Idle EXCEPT !.pc = "stores"]
    <3>1. s \in Sending /\ s.pc # "add" /\ Goes(c, s)
      BY <1>2, <2>2 DEF Sending, Steps
    <3> HIDE DEF s
    <3>2. call' \in [Call -> Sending] /\ CallsKeyed(call')
      BY <3>1, CallsSound
    <3> QED  BY <1>4, <3>2, StaySound DEF sendConvMessage
  <2> QED  BY <1>4, <2>1, <2>2 DEF sendConvMessage
<1>5. CASE startConv(c)
  <2>1. InRoom(c, TRUE) /\ UNCHANGED <<log, view, conv>>
    BY <1>5 DEF startConv
  <2> QED  BY <1>3, <2>1, StaySound
<1>6. CASE EnterRoom(c)
  <2>1. PICK next \in {"key", "message"} : Goes(c, [call[c] EXCEPT !.pc = next])
    <3> DEFINE next == IF call[c].starting /\ Cardinality(view[Caller[c]]) < 2
                       THEN "key" ELSE "message"
    <3>1. next \in {"key", "message"} /\ Goes(c, [call[c] EXCEPT !.pc = next])
      BY <1>6 DEF EnterRoom
    <3> HIDE DEF next
    <3> QED  BY <3>1
  <2> DEFINE s == [call[c] EXCEPT !.pc = next]
  <2>2. s \in Sending /\ s.pc # "add" /\ Goes(c, s)
    BY <1>1, <2>1 DEF Sending, Steps
  <2> HIDE DEF s
  <2>3. call' \in [Call -> Sending] /\ CallsKeyed(call')
    BY <2>2, CallsSound
  <2> QED  BY <1>6, <2>3, StaySound DEF EnterRoom
<1>7. CASE Encrypt(c)
  <2> DEFINE u == Caller[c]
  <2>1. CASE conv[u].first = NoKey
    <3>1. Goes(c, Idle)
      BY <1>7, <2>1 DEF Encrypt
    <3>2. call' \in [Call -> Sending] /\ CallsKeyed(call')
      BY <1>2, <3>1, CallsSound
    <3> QED  BY <1>7, <3>2, StaySound DEF Encrypt
  <2>2. CASE conv[u].first # NoKey
    <3> DEFINE s == [call[c] EXCEPT !.pc = "add", !.key = conv[u].first]
    <3>1. Goes(c, s)
      BY <1>7, <2>2 DEF Encrypt
    <3>2. conv[u].first \in AnyName \cup {NoKey} /\ Has(view[u], conv[u].first)
      BY <1>1, <2>2 DEF Inv, Typed, Conv, Replica, KeysFrom
    <3>3. s \in Sending /\ s.key = conv[u].first
      BY <1>1, <3>2 DEF Sending, Steps
    <3> HIDE DEF s
    <3>4. call' \in [Call -> Sending] /\ CallsKeyed(call')
      BY <3>1, <3>2, <3>3, CallsSound
    <3> QED  BY <1>7, <3>4, StaySound DEF Encrypt
  <2> QED  BY <2>1, <2>2
<1>8. CASE AddFails(c)
  <2>1. Goes(c, Idle) /\ UNCHANGED <<log, view, conv>>
    BY <1>8 DEF AddFails
  <2>2. call' \in [Call -> Sending] /\ CallsKeyed(call')
    BY <1>2, <2>1, CallsSound
  <2> QED  BY <2>1, <2>2, StaySound
<1> QED  BY <1>4, <1>5, <1>6, <1>7, <1>8

\* Adding a key, or a message whose key is loaded.
LEMMA AddSound ==
  ASSUME Inv, NEW u \in User, NEW kind \in {"key", "msg"}, NEW key \in AnyName,
         kind = "msg" => Has(view[u], key),
         add(u, kind, key), call' \in [Call -> Sending], CallsKeyed(call')
  PROVE  Inv'
<1> DEFINE e == [by |-> u, n |-> Written(u) + 1, time |-> Clock(u), kind |-> kind, key |-> key]
           E == view[u] \cup {e}
           L == log[u] \cup {e}
<1>1. /\ log[u] \in SUBSET AnyEntry /\ view[u] \in SUBSET AnyEntry /\ view[u] \subseteq log[u]
      /\ IsFiniteSet(log[u]) /\ Keyed(log[u]) /\ Keyed(view[u])
  BY DEF Inv, Typed, Replica
<1>2. IsFiniteSet(view[u])
  BY <1>1, FS_Subset
<1>3. Clock(u) \in Nat /\ \A f \in view[u] : f.time < Clock(u)
  BY <1>1, <1>2, ClockIsPast
<1>4. Written(u) \in Nat
  <2>1. IsFiniteSet({f \in log[u] : f.by = u})
    BY <1>1, FS_Subset
  <2> QED  BY <2>1, FS_CardinalityType DEF Written
<1>5. /\ e \in AnyEntry /\ e.kind = kind /\ e.key = key /\ e.time = Clock(u)
      /\ log' = [log EXCEPT ![u] = L] /\ view' = [view EXCEPT ![u] = E]
      /\ processMessage(u, E)
  <2>1. /\ log' = [log EXCEPT ![u] = L] /\ view' = [view EXCEPT ![u] = E]
        /\ processMessage(u, E)
    BY <1>1 DEF add, Inv, Typed
  <2> QED  BY <1>3, <1>4, <2>1 DEF AnyEntry
<1> HIDE DEF e
<1>6. kind = "msg" => \E k \in view[u] : k.kind = "key" /\ k.key = e.key /\ Before(k, e)
  BY <1>3, <1>5 DEF Has, Before
<1>7. Keyed(E) /\ Keyed(L)
  BY <1>1, <1>5, <1>6 DEF Keyed, Messages
<1>8. IsFiniteSet(L)
  BY <1>1, FS_AddElement
<1>9. E \in SUBSET AnyEntry /\ L \in SUBSET AnyEntry /\ E \subseteq L /\ view[u] \subseteq E
  BY <1>1, <1>5
<1> HIDE DEF E, L
<1>10. PICK cv \in Conv : conv' = [conv EXCEPT ![u] = cv] /\ KeysFrom(cv, E)
  BY <1>5, <1>9, ProcessSound
<1> QED  BY <1>5, <1>7, <1>8, <1>9, <1>10, GrowSound

LEMMA AddsSound ==
  ASSUME Inv, NEW c \in Call, AddKey(c) \/ AddMessage(c)
  PROVE  Inv'
<1> DEFINE u == Caller[c]
<1>1. call[c] \in Sending /\ u \in User
  BY MessagingAssumption DEF Inv, Typed
<1>2. CASE AddKey(c)
  <2> DEFINE s == [call[c] EXCEPT !.pc = "message"]
  <2>1. s \in Sending /\ s.pc # "add" /\ Goes(c, s) /\ add(u, "key", <<u, Written(u) + 1>>)
    BY <1>1, <1>2 DEF AddKey, Sending, Steps
  <2> HIDE DEF s
  <2>2. call' \in [Call -> Sending] /\ CallsKeyed(call')
    BY <2>1, CallsSound
  <2>3. <<u, Written(u) + 1>> \in AnyName
    <3>1. IsFiniteSet({f \in log[u] : f.by = u})
      BY <1>1, FS_Subset DEF Inv, Replica
    <3> QED  BY <1>1, <3>1, FS_CardinalityType DEF Written, AnyName
  <2> QED  BY <1>1, <2>1, <2>2, <2>3, AddSound
<1>3. CASE AddMessage(c)
  <2>1. call[c].pc = "add" /\ add(u, "msg", call[c].key) /\ Goes(c, Idle)
    BY <1>3 DEF AddMessage
  <2>2. Has(view[u], call[c].key)
    BY <2>1 DEF Inv, CallsKeyed
  <2>3. call[c].key \in AnyName
    BY <1>1, <2>2 DEF Has, Inv, Typed, AnyEntry
  <2>4. Idle \in Sending /\ Idle.pc # "add"
    BY DEF Idle, Sending, Steps
  <2>5. call' \in [Call -> Sending] /\ CallsKeyed(call')
    BY <2>1, <2>4, CallsSound
  <2> QED  BY <1>1, <2>1, <2>2, <2>3, <2>5, AddSound
<1> QED  BY <1>2, <1>3

\* Opening, loading and exchanging.
LEMMA PagesSound ==
  ASSUME Inv, NEW u \in User, Works(u) \/ Unlock(u) \/ Register(u) \/ Reload(u) \/ getAllMessages(u)
  PROVE  Inv'
<1>1. /\ log[u] \in SUBSET AnyEntry /\ view[u] \in SUBSET AnyEntry /\ view[u] \subseteq log[u]
      /\ IsFiniteSet(log[u]) /\ Keyed(log[u]) /\ Keyed(view[u])
      /\ conv[u] \in Conv /\ KeysFrom(conv[u], view[u])
  BY DEF Inv, Typed, Replica
<1>2. call \in [Call -> Sending] /\ CallsKeyed(call)
  BY DEF Inv, Typed
<1>3. CASE OpenRoom(u) \/ ReceiveRegistry(u) \/ ReceiveMarks(u) \/ Unlock(u) \/ Register(u)
  <2>1. UNCHANGED <<log, view, conv, call>>
    BY <1>3 DEF OpenRoom, ReceiveRegistry, ReceiveMarks, Unlock, Register, session
  <2> QED  BY <1>2, <2>1, StaySound
<1>4. CASE LoadRoom(u)
  <2>1. /\ log' = [log EXCEPT ![u] = log[u]] /\ view' = [view EXCEPT ![u] = log[u]]
        /\ processMessage(u, log[u]) /\ call' = call
    BY <1>4 DEF LoadRoom, Inv, Typed
  <2>2. PICK cv \in Conv : conv' = [conv EXCEPT ![u] = cv] /\ KeysFrom(cv, log[u])
    BY <1>1, <2>1, ProcessSound
  <2> QED  BY <1>1, <1>2, <2>1, <2>2, GrowSound
<1>5. CASE ReceiveEntries(u)
  <2> DEFINE o == Other(u)
             E == view[u] \cup view[o]
             L == log[u] \cup view[o]
  <2>1. o \in User
    BY DEF Other, User
  <2>2. view[o] \in SUBSET AnyEntry /\ IsFiniteSet(view[o]) /\ Keyed(view[o])
    <3>1. view[o] \in SUBSET AnyEntry /\ view[o] \subseteq log[o] /\ IsFiniteSet(log[o]) /\ Keyed(view[o])
      BY <2>1 DEF Inv, Typed, Replica
    <3> QED  BY <3>1, FS_Subset
  <2>3. E = view[u] \cup (view[o] \ view[u]) /\ L = log[u] \cup (view[o] \ view[u])
    BY <1>1
  <2>4. /\ log' = [log EXCEPT ![u] = L] /\ view' = [view EXCEPT ![u] = E]
        /\ processMessage(u, E) /\ call' = call
    BY <1>5, <2>3 DEF ReceiveEntries, Inv, Typed
  <2>5. Keyed(E) /\ Keyed(L)
    BY <1>1, <2>2, KeyedUnion
  <2>6. IsFiniteSet(L)
    BY <1>1, <2>2, FS_Union
  <2>7. E \in SUBSET AnyEntry /\ L \in SUBSET AnyEntry /\ E \subseteq L /\ view[u] \subseteq E
    BY <1>1, <2>2
  <2> HIDE DEF E, L
  <2>8. PICK cv \in Conv : conv' = [conv EXCEPT ![u] = cv] /\ KeysFrom(cv, E)
    BY <2>4, <2>7, ProcessSound
  <2> QED  BY <1>2, <2>4, <2>5, <2>6, <2>7, <2>8, GrowSound
<1>6. CASE getAllMessages(u)
  <2>1. PICK S \in SUBSET view[u] :
          (\A e \in S : e.kind = "key") /\ conv' = [conv EXCEPT ![u] = Learned(u, S)]
    <3> DEFINE S == {e \in view[u] : Decrypts(u, e) /\ e.key \notin conv[u].keys}
    <3>1. /\ S \in SUBSET view[u] /\ \A e \in S : e.kind = "key"
          /\ conv' = [conv EXCEPT ![u] = Learned(u, S)]
      BY <1>6 DEF getAllMessages, Decrypts
    <3> HIDE DEF S
    <3> QED  BY <3>1
  <2>2. Learned(u, S) \in Conv /\ KeysFrom(Learned(u, S), view[u])
    BY <1>1, <2>1, LearnSound
  <2>3. /\ log' = [log EXCEPT ![u] = log[u]] /\ view' = [view EXCEPT ![u] = view[u]]
        /\ call' = call
    BY <1>6 DEF getAllMessages, Inv, Typed
  <2> QED  BY <1>1, <1>2, <2>1, <2>2, <2>3, GrowSound
<1>7. CASE Reload(u)
  <2>1. /\ log' = log /\ view' = [view EXCEPT ![u] = {}] /\ conv' = [conv EXCEPT ![u] = NoConv]
        /\ call' = [c \in Call |-> IF Caller[c] = u THEN Idle ELSE call[c]]
    BY <1>7 DEF Reload
  <2>2. NoConv \in Conv /\ Idle \in Sending /\ Idle.pc # "add"
    BY DEF NoConv, Conv, Idle, Sending, Steps
  <2>3. Typed'
    BY <1>2, <2>1, <2>2 DEF Inv, Typed
  <2>4. CallsKeyed(call)'
    <3>1. SUFFICES ASSUME NEW c \in Call, call'[c].pc = "add"
          PROVE  Has(view'[Caller[c]], call'[c].key)
      BY DEF CallsKeyed
    <3>2. Caller[c] # u /\ call'[c] = call[c]
      BY <2>1, <2>2, <3>1
    <3>3. view'[Caller[c]] = view[Caller[c]]
      BY <2>1, <3>2, MessagingAssumption DEF Inv, Typed
    <3> QED  BY <1>2, <3>1, <3>2, <3>3 DEF CallsKeyed
  <2>5. ASSUME NEW v \in User PROVE Replica(v)'
    <3>1. CASE v = u
      <4>1. log'[v] = log[v] /\ view'[v] = {} /\ conv'[v] = NoConv
        BY <2>1, <3>1 DEF Inv, Typed
      <4> QED  BY <1>1, <3>1, <4>1 DEF Replica, Keyed, Messages, KeysFrom, NoConv
    <3>2. CASE v # u
      <4>1. log'[v] = log[v] /\ view'[v] = view[v] /\ conv'[v] = conv[v]
        BY <2>1, <3>2 DEF Inv, Typed
      <4> QED  BY <4>1 DEF Inv, Replica
    <3> QED  BY <3>1, <3>2
  <2> QED  BY <2>3, <2>4, <2>5 DEF Inv
<1> QED  BY <1>3, <1>4, <1>5, <1>6, <1>7 DEF Works

LEMMA StepSound == Inv /\ [Next]_vars => Inv'
<1> SUFFICES ASSUME Inv, [Next]_vars PROVE Inv'
  OBVIOUS
<1>1. CASE UNCHANGED vars
  <2>1. UNCHANGED <<log, view, conv, call>>
    BY <1>1 DEF vars, session
  <2> QED  BY <2>1, StaySound DEF Inv, Typed
<1>2. ASSUME NEW u \in User, Works(u) \/ Unlock(u) \/ Register(u) \/ Reload(u) \/ getAllMessages(u)
      PROVE  Inv'
  BY <1>2, PagesSound
<1>3. ASSUME NEW c \in Call, sendConvMessage(c) \/ Continue(c) \/ AddFails(c)
      PROVE  Inv'
  BY <1>3, StepsOfCalls, AddsSound DEF Continue
<1> QED  BY <1>1, <1>2, <1>3 DEF Next

\* Whoever starts the conversation, however often and with however many messages,
\* and whatever of it a replica has: it has every message's key, before the message.
THEOREM KeysComeBefore == Spec => []KeysBefore
<1>1. Inv => KeysBefore
  BY DEF Inv, Replica, Keyed, KeysBefore
<1> QED  BY <1>1, InitSound, StepSound, PTL DEF Spec

-----------------------------------------------------------------------------
(* Every message is read.                                                    *)

\* Everything loaded was processed; unless a key went by while messaging was locked,
\* its keys were learned and its messages emitted in clear.
Reads(u) ==
  /\ conv[u].last = view[u]
  /\ ~late[u] =>
       /\ \A k \in view[u] : k.kind = "key" => k.key \in conv[u].keys
       /\ Messages(view[u]) \subseteq shown[u]

Reading ==
  /\ account \in [User -> BOOLEAN] /\ late \in [User -> BOOLEAN]
  /\ shown \in [User -> SUBSET AnyEntry]
  /\ \A u \in User : Reads(u)

LEMMA InitReads == Init => Reading
<1> SUFFICES ASSUME Init PROVE Reading
  OBVIOUS
<1>1. ASSUME NEW u \in User PROVE Reads(u)
  <2>1. view[u] = {} /\ conv[u] = NoConv
    BY DEF Init
  <2> QED  BY <2>1 DEF Reads, Messages, NoConv
<1> QED  BY <1>1 DEF Init, Reading

\* What learning leaves as it is.
LEMMA LearnedIs ==
  ASSUME NEW u, conv[u] \in Conv, NEW S, NEW E
  PROVE  /\ Learned(u, S).keys = conv[u].keys \cup KeysOf(S)
         /\ Learned(u, S).last = conv[u].last
         /\ [Learned(u, S) EXCEPT !.last = E].keys = conv[u].keys \cup KeysOf(S)
         /\ [Learned(u, S) EXCEPT !.last = E].last = E
  BY DEF Learned, Conv

\* A user's entries are processed: all new keys are learned, and all new messages, whose
\* keys come before them, can be read.
LEMMA ProcessReads ==
  ASSUME Inv, Reading, NEW u \in User, NEW E \in SUBSET AnyEntry, view[u] \subseteq E, Keyed(E),
         processMessage(u, E), view' = [view EXCEPT ![u] = E], account' = account
  PROVE  Reading'
<1> DEFINE new == Unprocessed(u, E)
           keyEntries == {e \in new : e.kind = "key"}
           learned == {e \in keyEntries : Decrypts(u, e) /\ e.key \notin conv[u].keys}
           readable == {e \in new \ keyEntries : \/ e.key \in conv[u].keys
                                                 \/ \E k \in learned : k.key = e.key /\ Before(k, e)}
           cv == [Learned(u, learned) EXCEPT !.last = E]
<1>1. /\ conv' = [conv EXCEPT ![u] = cv]
      /\ shown' = [shown EXCEPT ![u] = @ \cup readable]
      /\ late' = [late EXCEPT ![u] = @ \/ (~account[u] /\ keyEntries # {})]
  BY DEF processMessage
<1>2. new \subseteq E /\ \A e \in E : e \notin new => e \in view[u]
  BY DEF Unprocessed, Reading, Reads
<1> HIDE DEF new
<1>3. cv.keys = conv[u].keys \cup KeysOf(learned) /\ cv.last = E
  BY LearnedIs DEF Inv, Typed
<1>4. learned \subseteq keyEntries /\ keyEntries \subseteq new /\ readable \subseteq AnyEntry
  BY <1>2
<1>5. /\ \A k \in keyEntries : account[u] => k \in learned \/ k.key \in conv[u].keys
      /\ \A k \in new : k.kind = "key" => k \in keyEntries
      /\ \A k \in keyEntries : k.kind = "key"
  BY DEF Decrypts
<1>6. \A e \in new : /\ e.kind # "key" /\ e.key \in conv[u].keys => e \in readable
                     /\ \A k \in learned : e.kind # "key" /\ k.key = e.key /\ Before(k, e) => e \in readable
  OBVIOUS
<1>7. \A k \in learned : k.key \in KeysOf(learned)
  BY DEF KeysOf
<1> HIDE DEF cv, readable, learned, keyEntries
<1>8. /\ conv'[u] = cv /\ view'[u] = E /\ shown'[u] = shown[u] \cup readable
      /\ late'[u] = (late[u] \/ (~account[u] /\ keyEntries # {}))
      /\ \A v \in User \ {u} : /\ conv'[v] = conv[v] /\ view'[v] = view[v]
                               /\ shown'[v] = shown[v] /\ late'[v] = late[v]
  BY <1>1 DEF Inv, Typed, Reading
<1>9. account' \in [User -> BOOLEAN] /\ late' \in [User -> BOOLEAN] /\ shown' \in [User -> SUBSET AnyEntry]
  BY <1>1, <1>4 DEF Reading
<1>10. ASSUME ~late'[u]
       PROVE  /\ \A k \in E : k.kind = "key" => k.key \in cv.keys
              /\ Messages(E) \subseteq shown'[u]
  <2>1. ~late[u] /\ (account[u] \/ keyEntries = {})
    BY <1>8, <1>10
  <2>2. /\ \A k \in view[u] : k.kind = "key" => k.key \in conv[u].keys
        /\ Messages(view[u]) \subseteq shown[u]
    BY <2>1 DEF Reading, Reads
  <2>3. ASSUME NEW k \in E, k.kind = "key"
        PROVE  k \in learned \/ k.key \in conv[u].keys
    <3>1. CASE k \in new
      BY <1>5, <2>1, <2>3, <3>1
    <3>2. CASE k \notin new
      BY <1>2, <2>2, <2>3, <3>2
    <3> QED  BY <3>1, <3>2
  <2>4. ASSUME NEW e \in Messages(E) PROVE e \in shown[u] \cup readable
    <3>1. e \in E /\ e.kind = "msg"
      BY DEF Messages
    <3>2. PICK k \in E : k.kind = "key" /\ k.key = e.key /\ Before(k, e)
      BY DEF Keyed
    <3>3. CASE e \in new
      BY <1>6, <2>3, <3>1, <3>2, <3>3
    <3>4. CASE e \notin new
      BY <1>2, <2>2, <3>1, <3>4 DEF Messages
    <3> QED  BY <3>3, <3>4
  <2>5. \A k \in E : k.kind = "key" => k.key \in cv.keys
    BY <1>3, <1>7, <2>3
  <2> QED  BY <1>8, <2>4, <2>5
<1>11. ASSUME NEW v \in User PROVE Reads(v)'
  <2>1. CASE v = u
    BY <1>3, <1>8, <1>10, <2>1 DEF Reads, Messages
  <2>2. CASE v # u
    <3>1. Reads(v)
      BY DEF Reading
    <3> QED  BY <1>8, <2>2, <3>1 DEF Reads, Messages
  <2> QED  BY <2>1, <2>2
<1> QED  BY <1>9, <1>11 DEF Reading

\* A step in which nothing is loaded.
LEMMA StayReads ==
  ASSUME Reading, account' \in [User -> BOOLEAN], UNCHANGED <<view, conv, shown, late>>
  PROVE  Reading'
<1>1. ASSUME NEW u \in User PROVE Reads(u)'
  <2>1. Reads(u)
    BY DEF Reading
  <2> QED  BY <2>1 DEF Reads, Messages
<1> QED  BY <1>1 DEF Reading

LEMMA CallsRead ==
  ASSUME Inv, Inv', Reading, NEW c \in Call, sendConvMessage(c) \/ Continue(c) \/ AddFails(c)
  PROVE  Reading'
<1>1. CASE \/ sendConvMessage(c) \/ startConv(c) \/ EnterRoom(c) \/ Encrypt(c) \/ AddFails(c)
  <2>1. UNCHANGED <<view, conv, shown, late>> /\ account' = account
    BY <1>1 DEF sendConvMessage, startConv, EnterRoom, Encrypt, AddFails
  <2> QED  BY <2>1, StayReads DEF Reading
<1>2. CASE AddKey(c) \/ AddMessage(c)
  <2> DEFINE u == Caller[c]
  <2>1. PICK kind, key : add(u, kind, key) /\ account' = account
    BY <1>2 DEF AddKey, AddMessage
  <2>2. u \in User
    BY MessagingAssumption
  <2> DEFINE e == [by |-> u, n |-> Written(u) + 1, time |-> Clock(u), kind |-> kind, key |-> key]
             E == view[u] \cup {e}
  <2>3. view' = [view EXCEPT ![u] = E] /\ processMessage(u, E)
    BY <2>1, <2>2 DEF add, Inv, Typed
  <2> HIDE DEF e, u
  <2>4. view'[u] = E
    BY <2>2, <2>3 DEF Inv, Typed
  <2>5. E \in SUBSET AnyEntry /\ Keyed(E)
    <3>1. view'[u] \in SUBSET AnyEntry /\ Keyed(view[u])'
      BY <2>2 DEF Inv, Typed, Replica
    <3> QED  BY <2>4, <3>1 DEF Keyed, Messages, Before
  <2> QED  BY <2>1, <2>2, <2>3, <2>5, ProcessReads
<1> QED  BY <1>1, <1>2 DEF Continue

LEMMA PagesRead ==
  ASSUME Inv, Inv', Reading, NEW u \in User, Works(u) \/ Unlock(u) \/ Register(u) \/ Reload(u) \/ getAllMessages(u)
  PROVE  Reading'
<1>1. CASE OpenRoom(u) \/ ReceiveRegistry(u) \/ ReceiveMarks(u) \/ Unlock(u) \/ Register(u)
  <2>1. UNCHANGED <<view, conv, shown, late>> /\ account' \in [User -> BOOLEAN]
    BY <1>1 DEF OpenRoom, ReceiveRegistry, ReceiveMarks, Unlock, Register, session, Reading
  <2> QED  BY <2>1, StayReads
<1>2. ASSUME NEW E, view' = [view EXCEPT ![u] = E], view[u] \subseteq E, processMessage(u, E),
             account' = account
      PROVE  Reading'
  <2>1. view'[u] = E
    BY <1>2 DEF Inv, Typed
  <2>2. view'[u] \in SUBSET AnyEntry /\ Keyed(view[u])'
    BY DEF Inv, Typed, Replica
  <2>3. E \in SUBSET AnyEntry /\ Keyed(E)
    BY <2>1, <2>2 DEF Keyed, Messages, Before
  <2> QED  BY <1>2, <2>3, ProcessReads
<1>3. CASE LoadRoom(u)
  <2>1. view[u] \subseteq log[u]
    BY DEF Inv, Replica
  <2> QED  BY <1>2, <1>3, <2>1 DEF LoadRoom
<1>4. CASE ReceiveEntries(u)
  <2> DEFINE E == view[u] \cup (view[Other(u)] \ view[u])
  <2>1. view' = [view EXCEPT ![u] = E] /\ processMessage(u, E) /\ account' = account
    BY <1>4 DEF ReceiveEntries, Inv, Typed
  <2>2. view[u] \subseteq E
    OBVIOUS
  <2> HIDE DEF E
  <2> QED  BY <1>2, <2>1, <2>2
<1>5. CASE getAllMessages(u)
  <2>1. PICK S : conv' = [conv EXCEPT ![u] = Learned(u, S)]
    BY <1>5 DEF getAllMessages
  <2>2. UNCHANGED <<view, shown, late, account>>
    BY <1>5 DEF getAllMessages
  <2>3. /\ \A v \in User \ {u} : conv'[v] = conv[v]
        /\ conv'[u].keys = conv[u].keys \cup KeysOf(S) /\ conv'[u].last = conv[u].last
    BY <2>1, LearnedIs DEF Inv, Typed
  <2>4. ASSUME NEW v \in User PROVE Reads(v)'
    <3>1. Reads(v)
      BY DEF Reading
    <3>2. conv[v].keys \subseteq conv'[v].keys /\ conv'[v].last = conv[v].last
      BY <2>3
    <3> QED  BY <2>2, <3>1, <3>2 DEF Reads, Messages
  <2> QED  BY <2>2, <2>4 DEF Reading
<1>6. CASE Reload(u)
  <2>1. /\ account' = [account EXCEPT ![u] = FALSE]
        /\ view' = [view EXCEPT ![u] = {}] /\ conv' = [conv EXCEPT ![u] = NoConv]
        /\ shown' = [shown EXCEPT ![u] = {}] /\ late' = [late EXCEPT ![u] = FALSE]
    BY <1>6 DEF Reload
  <2>2. /\ account' \in [User -> BOOLEAN] /\ late' \in [User -> BOOLEAN]
        /\ shown' \in [User -> SUBSET AnyEntry]
    BY <2>1 DEF Reading
  <2>3. ASSUME NEW v \in User PROVE Reads(v)'
    <3>1. CASE v = u
      <4>1. view'[v] = {} /\ conv'[v].last = {}
        BY <2>1, <3>1 DEF Inv, Typed, NoConv
      <4> QED  BY <4>1 DEF Reads, Messages
    <3>2. CASE v # u
      <4>1. /\ view'[v] = view[v] /\ conv'[v] = conv[v] /\ shown'[v] = shown[v]
            /\ late'[v] = late[v]
        BY <2>1, <3>2 DEF Inv, Typed, Reading
      <4>2. Reads(v)
        BY DEF Reading
      <4> QED  BY <4>1, <4>2 DEF Reads, Messages
    <3> QED  BY <3>1, <3>2
  <2> QED  BY <2>2, <2>3 DEF Reading
<1> QED  BY <1>1, <1>3, <1>4, <1>5, <1>6 DEF Works

LEMMA StepReads == Inv /\ Inv' /\ Reading /\ [Next]_vars => Reading'
<1> SUFFICES ASSUME Inv, Inv', Reading, [Next]_vars PROVE Reading'
  OBVIOUS
<1>1. CASE UNCHANGED vars
  <2>1. UNCHANGED <<view, conv, shown, late, account>>
    BY <1>1 DEF vars, session
  <2> QED  BY <2>1, StayReads DEF Reading
<1> QED  BY <1>1, CallsRead, PagesRead DEF Next

\* A user past whom no key went while messaging was locked reads every message, whoever
\* started the conversation, in whatever order the replicas learn of each other's
\* entries and wherever pages are loaded again.
THEOREM EverythingIsReadable == Spec => []AllReadable
<1>1. Reading => AllReadable
  BY DEF Reading, Reads, AllReadable
<1> QED  BY <1>1, InitSound, StepSound, InitReads, StepReads, PTL DEF Spec
=============================================================================
