------------------------------- MODULE Messaging -------------------------------
(***************************************************************************)
(* The conversation of two users of the messaging resource.  Each has      *)
(* replicas of the registry of messaging keys, of the two stores in which  *)
(* a user is told who wants to converse, and of the room's log; OrbitDB    *)
(* orders the log by Lamport clocks and brings entries from one replica to *)
(* the other.  The room holds keys, encrypted for both, and messages       *)
(* encrypted with one of them; a user reads the messages whose key was     *)
(* learned before.  Awaiting the network is a step of its own.             *)
(***************************************************************************)
EXTENDS Naturals, FiniteSets

CONSTANTS
  Alice, Bob,    \* the conversers, in the order of their addresses
  Call,          \* calls of sendConvMessage
  Caller,        \* the user who makes each
  Registered,    \* who has registered a messaging key before, on another device
  MaxEntries,    \* bound on a user's entries in the room
  MaxReloads     \* bound on the page reloads

User == {Alice, Bob}

ASSUME MessagingAssumption ==
  /\ Alice # Bob
  /\ Caller \in [Call -> User] /\ Registered \subseteq User
  /\ MaxEntries \in Nat /\ MaxReloads \in Nat

Other(u) == IF u = Alice THEN Bob ELSE Alice
Rank(u)  == IF u = Alice THEN 1 ELSE 2

\* A key is named by the entry that brought it into the room; a message has the
\* name of the key it is encrypted with.
Name  == User \X (1 .. MaxEntries)
Entry == [by : User, n : 1 .. MaxEntries, time : Nat, kind : {"key", "msg"}, key : Name]

\* In the store of one user: the other wants to converse.
Mark == [store : User, key : User, by : User]

VARIABLES
  registry, \* whose messaging keys are in a user's replica of global_keys
  marks,    \* a user's replicas of the two init stores
  log,      \* a user's replica of the room, on the disk
  view,     \* what of it is loaded
  room,     \* sharedRooms: none, wait, open with its handlers set, loaded
  account,  \* whether messaging is unlocked
  conv,     \* convs: the keys learned, the first of them, the entries last processed
  sending,  \* _sending_message
  call,     \* the calls of sendConvMessage
  reloads,
  shown,    \* history: messages emitted in clear since the page was loaded
  hidden,   \* history: messages emitted encrypted
  late      \* history: whether a key went by while messaging was locked

session == <<view, room, conv, sending, call, shown, hidden, late>>
vars == <<registry, marks, log, account, reloads, session>>

Steps == {"idle", "stores", "room", "key", "message", "add"}

NoKey  == <<>>
NoConv == [keys |-> {}, first |-> NoKey, last |-> {}]
Idle   == [pc |-> "idle", opener |-> FALSE, starting |-> FALSE, key |-> NoKey]

TypeOK ==
  /\ registry \in [User -> SUBSET User]
  /\ marks \in [User -> SUBSET Mark]
  /\ \A u \in User : log[u] \subseteq Entry /\ view[u] \subseteq log[u]
  /\ room \in [User -> {"none", "wait", "open", "loaded"}]
  /\ account \in [User -> BOOLEAN]
  /\ \A u \in User :
       /\ conv[u].keys \subseteq Name /\ conv[u].first \in conv[u].keys \cup {NoKey}
       /\ conv[u].last \subseteq view[u]
  /\ sending \in [User -> BOOLEAN]
  /\ call \in [Call -> [pc : Steps, opener : BOOLEAN, starting : BOOLEAN, key : Name \cup {NoKey}]]
  /\ reloads \in 0 .. MaxReloads
  /\ \A u \in User : shown[u] \subseteq Entry /\ hidden[u] \subseteq Entry
  /\ late \in [User -> BOOLEAN]

Init ==
  /\ registry = [u \in User |-> Registered]
  /\ marks = [u \in User |-> {}]
  /\ log = [u \in User |-> {}] /\ view = log
  /\ room = [u \in User |-> "none"]
  /\ account = [u \in User |-> FALSE]
  /\ conv = [u \in User |-> NoConv]
  /\ sending = [u \in User |-> FALSE]
  /\ call = [c \in Call |-> Idle]
  /\ reloads = 0
  /\ shown = [u \in User |-> {}] /\ hidden = shown
  /\ late = [u \in User |-> FALSE]

-----------------------------------------------------------------------------
(* The log and what is made of it.                                           *)

Before(e, f) ==
  \/ e.time < f.time
  \/ e.time = f.time /\ Rank(e.by) < Rank(f.by)
  \/ e.time = f.time /\ e.by = f.by /\ e.n < f.n

Place(e, entries) == 1 + Cardinality({f \in entries : Before(f, e)})

KeysOf(entries) == {e.key : e \in entries}

\* keys[0]: of the keys learned at once the earliest comes first.
FirstKey(first, learned) ==
  IF first # NoKey \/ learned = {}
  THEN first ELSE (CHOOSE e \in learned : \A f \in learned : ~Before(f, e)).key

\* What a user's conversation is once keys were learned.
Learned(u, learned) ==
  [conv[u] EXCEPT !.keys = @ \cup KeysOf(learned), !.first = FirstKey(@, learned)]

\* One more than the latest clock that is loaded.
Clock(u) == 1 + Cardinality(UNION {1 .. e.time : e \in view[u]})

Written(u) == Cardinality({e \in log[u] : e.by = u})

\* Fault: only what comes after all that was processed is new.
Unprocessed_afterLast(u, entries) == {e \in entries : Place(e, entries) > Cardinality(conv[u].last)}

\* An entry is old when it was at the same place the last time.
Unprocessed(u, entries) ==
  {e \in entries : e \notin conv[u].last \/ Place(e, conv[u].last) # Place(e, entries)}

\* ec_decrypt returns nothing while messaging is locked.
Decrypts(u, e) == e.kind = "key" /\ account[u]

\* A message is emitted in clear when its key
\* was learned, in an earlier call or from an entry before it.
processMessage(u, entries) ==
  LET new == Unprocessed(u, entries)
      keyEntries == {e \in new : e.kind = "key"}
      learned == {e \in keyEntries : Decrypts(u, e) /\ e.key \notin conv[u].keys}
      readable == {e \in new \ keyEntries : \/ e.key \in conv[u].keys
                                            \/ \E k \in learned : k.key = e.key /\ Before(k, e)}
  IN
  /\ conv' = [conv EXCEPT ![u] = [Learned(u, learned) EXCEPT !.last = entries]]
  /\ shown' = [shown EXCEPT ![u] = @ \cup readable]
  /\ hidden' = [hidden EXCEPT ![u] = @ \cup (new \ (keyEntries \cup readable))]
  /\ late' = [late EXCEPT ![u] = @ \/ (~account[u] /\ keyEntries # {})]

\* The entry is signed, joined to the log and saved, and 'write' is emitted.
add(u, kind, key) ==
  LET e == [by |-> u, n |-> Written(u) + 1, time |-> Clock(u), kind |-> kind, key |-> key] IN
  /\ log' = [log EXCEPT ![u] = @ \cup {e}]
  /\ view' = [view EXCEPT ![u] = @ \cup {e}]
  /\ processMessage(u, view[u] \cup {e})

-----------------------------------------------------------------------------
(* Opening the room: getShareRoom.                                           *)

\* Whoever comes first opens it; the others wait.
RoomAsked(u) == [room EXCEPT ![u] = IF @ = "none" THEN "wait" ELSE @]

OpenRoom(u) ==
  /\ room[u] = "wait"
  /\ room' = [room EXCEPT ![u] = "open"]
  /\ UNCHANGED <<registry, marks, log, account, reloads, view, conv, sending, call,
                 shown, hidden, late>>

\* load ends with 'ready'.
LoadRoom(u) ==
  /\ room[u] = "open"
  /\ room' = [room EXCEPT ![u] = "loaded"]
  /\ view' = [view EXCEPT ![u] = log[u]]
  /\ processMessage(u, log[u])
  /\ UNCHANGED <<registry, marks, log, account, reloads, sending, call>>

-----------------------------------------------------------------------------
(* Starting, unlocking and the peer.                                         *)

\* loadMyConvs opens the room when the user's own store has the other.
loadMyConvs(u) == room' = IF \E m \in marks[u] : m.store = u THEN RoomAsked(u) ELSE room

\* startConversing up to setAccount.  Sending is possible from now on; a user who is
\* not registered is prompted for a signature before initMessaging goes on.
Unlock(u) ==
  /\ ~account[u]
  /\ account' = [account EXCEPT ![u] = TRUE]
  /\ IF u \in registry[u] THEN loadMyConvs(u) ELSE UNCHANGED room
  /\ UNCHANGED <<registry, marks, log, reloads, view, conv, sending, call, shown, hidden, late>>

\* The prompt is answered, which a user may put off or refuse.
Register(u) ==
  /\ account[u] /\ u \notin registry[u]
  /\ registry' = [registry EXCEPT ![u] = @ \cup {u}]
  /\ loadMyConvs(u)
  /\ UNCHANGED <<marks, log, account, reloads, view, conv, sending, call, shown, hidden, late>>

\* The replicas stay on the disk, messaging is locked and everything else is lost.
Reload(u) ==
  /\ reloads < MaxReloads
  /\ reloads' = reloads + 1
  /\ account' = [account EXCEPT ![u] = FALSE]
  /\ view' = [view EXCEPT ![u] = {}]
  /\ room' = [room EXCEPT ![u] = "none"]
  /\ conv' = [conv EXCEPT ![u] = NoConv]
  /\ sending' = [sending EXCEPT ![u] = FALSE]
  /\ call' = [c \in Call |-> IF Caller[c] = u THEN Idle ELSE call[c]]
  /\ shown' = [shown EXCEPT ![u] = {}] /\ hidden' = [hidden EXCEPT ![u] = {}]
  /\ late' = [late EXCEPT ![u] = FALSE]
  /\ UNCHANGED <<registry, marks, log>>

ReceiveRegistry(u) ==
  /\ registry' = [registry EXCEPT ![u] = @ \cup registry[Other(u)]]
  /\ UNCHANGED <<marks, log, account, reloads, session>>

\* The keystore lets an entry in once its writer's key is in the registry;
\* getRegisteredKey waits for it, and when it gives up the entry comes again with a
\* later exchange.
Verified(u, by) == by \in registry[u]

\* A mark in the user's own store opens the room.
ReceiveMarks(u) ==
  LET accepted == {m \in marks[Other(u)] : Verified(u, m.by)} IN
  /\ marks' = [marks EXCEPT ![u] = @ \cup accepted]
  /\ room' = IF \E m \in accepted : m.store = u THEN RoomAsked(u) ELSE room
  /\ UNCHANGED <<registry, log, account, reloads, view, conv, sending, call,
                 shown, hidden, late>>

\* The peer's log is joined; 'replicated' is emitted.
ReceiveEntries(u) ==
  LET arriving == view[Other(u)] \ view[u] IN
  /\ room[u] \in {"open", "loaded"}
  /\ arriving # {}
  /\ \A e \in arriving : Verified(u, e.by)
  /\ log' = [log EXCEPT ![u] = @ \cup arriving]
  /\ view' = [view EXCEPT ![u] = @ \cup arriving]
  /\ processMessage(u, view[u] \cup arriving)
  /\ UNCHANGED <<registry, marks, account, reloads, room, sending, call>>

\* getAllMessages learns the keys that went by.
getAllMessages(u) ==
  LET missed == {e \in view[u] : Decrypts(u, e) /\ e.key \notin conv[u].keys} IN
  /\ account[u] /\ room[u] \in {"open", "loaded"}
  /\ conv' = [conv EXCEPT ![u] = Learned(u, missed)]
  /\ UNCHANGED <<registry, marks, log, account, reloads, view, room, sending, call,
                 shown, hidden, late>>

-----------------------------------------------------------------------------
(* sendConvMessage.                                                          *)

Goes(c, step) == call' = [call EXCEPT ![c] = step]

InRoom(c, starting) ==
  LET u == Caller[c] IN
  /\ room' = RoomAsked(u)
  /\ Goes(c, [Idle EXCEPT !.pc = "room", !.opener = (room[u] = "none"), !.starting = starting])

\* A call adds at most a key and a message.
Underway(u) == {c \in Call : Caller[c] = u /\ call[c].pc # "idle"}

\* Refused while another message is being added; without a key the conversation is
\* started first, with somebody who has registered.
sendConvMessage(c) ==
  LET u == Caller[c] IN
  /\ call[c].pc = "idle"
  /\ account[u] /\ ~sending[u]
  /\ Written(u) + 2 * Cardinality(Underway(u)) + 1
       + (IF conv[u].first = NoKey THEN 1 ELSE 0) <= MaxEntries
  /\ \/ conv[u].first # NoKey /\ InRoom(c, FALSE)
     \/ /\ conv[u].first = NoKey /\ Other(u) \in registry[u]
        /\ Goes(c, [Idle EXCEPT !.pc = "stores"])
        /\ UNCHANGED room
  /\ UNCHANGED <<registry, marks, log, account, reloads, view, conv, sending, shown, hidden, late>>

\* Fault: only one's own store is told.
startConv_ownStore(c) ==
  LET u == Caller[c] IN
  /\ call[c].pc = "stores"
  /\ marks' = [marks EXCEPT ![u] = @ \cup {[store |-> u, key |-> Other(u), by |-> u]}]
  /\ InRoom(c, TRUE)
  /\ UNCHANGED <<registry, log, account, reloads, view, conv, sending, shown, hidden, late>>

startConv(c) ==
  LET u == Caller[c] IN
  /\ call[c].pc = "stores"
  /\ marks' = [marks EXCEPT ![u] = @ \cup {[store |-> Other(u), key |-> u, by |-> u],
                                           [store |-> u, key |-> Other(u), by |-> u]}]
  /\ InRoom(c, TRUE)
  /\ UNCHANGED <<registry, log, account, reloads, view, conv, sending, shown, hidden, late>>

\* A call that waits gets the room when it is open, the opener when it is loaded.
HasRoom(c) ==
  LET u == Caller[c] IN room[u] = "loaded" \/ (room[u] = "open" /\ ~call[c].opener)

\* A key is added when the room has fewer than two entries.
EnterRoom(c) ==
  /\ call[c].pc = "room" /\ HasRoom(c)
  /\ Goes(c, [call[c] EXCEPT !.pc =
       IF call[c].starting /\ Cardinality(view[Caller[c]]) < 2 THEN "key" ELSE "message"])
  /\ UNCHANGED <<registry, marks, log, account, reloads, view, room, conv, sending,
                 shown, hidden, late>>

AddKey(c) ==
  LET u == Caller[c] IN
  /\ call[c].pc = "key"
  /\ add(u, "key", <<u, Written(u) + 1>>)
  /\ Goes(c, [call[c] EXCEPT !.pc = "message"])
  /\ UNCHANGED <<registry, marks, account, reloads, room, sending>>

\* Fault: a user's own first key is taken for that of the room.
Encrypt_ownKey(c) ==
  LET u == Caller[c] IN
  /\ call[c].pc = "message"
  /\ sending' = [sending EXCEPT ![u] = TRUE]
  /\ Goes(c, [call[c] EXCEPT !.pc = "add", !.key = <<u, 1>>])
  /\ UNCHANGED <<registry, marks, log, account, reloads, view, room, conv, shown, hidden, late>>

\* With the first key; without one encrypting throws.
Encrypt(c) ==
  LET u == Caller[c] IN
  /\ call[c].pc = "message"
  /\ IF conv[u].first = NoKey
     THEN Goes(c, Idle) /\ UNCHANGED sending
     ELSE /\ sending' = [sending EXCEPT ![u] = TRUE]
          /\ Goes(c, [call[c] EXCEPT !.pc = "add", !.key = conv[u].first])
  /\ UNCHANGED <<registry, marks, log, account, reloads, view, room, conv, shown, hidden, late>>

AddMessage(c) ==
  LET u == Caller[c] IN
  /\ call[c].pc = "add"
  /\ add(u, "msg", call[c].key)
  /\ sending' = [sending EXCEPT ![u] = FALSE]
  /\ Goes(c, Idle)
  /\ UNCHANGED <<registry, marks, account, reloads, room>>

\* When it cannot be added the call ends, and no other is let through until the page
\* is loaded again.
AddFails(c) ==
  /\ call[c].pc = "add"
  /\ Goes(c, Idle)
  /\ UNCHANGED <<registry, marks, log, account, reloads, view, room, conv, sending,
                 shown, hidden, late>>

-----------------------------------------------------------------------------

Continue(c) == startConv(c) \/ EnterRoom(c) \/ AddKey(c) \/ Encrypt(c) \/ AddMessage(c)

\* What a page does by itself once it is loaded.
Works(u) ==
  \/ OpenRoom(u) \/ LoadRoom(u)
  \/ ReceiveRegistry(u) \/ ReceiveMarks(u) \/ ReceiveEntries(u)

Next ==
  \/ \E u \in User : Works(u) \/ Unlock(u) \/ Register(u) \/ Reload(u) \/ getAllMessages(u)
  \/ \E c \in Call : sendConvMessage(c) \/ Continue(c) \/ AddFails(c)

Spec == Init /\ [][Next]_vars

\* The room is opened and loaded, and what one replica has reaches the other.
FairSpec == Spec /\ \A u \in User : WF_vars(Works(u))

-----------------------------------------------------------------------------
(* Properties.                                                               *)

Messages(entries) == {e \in entries : e.kind = "msg"}

\* A user past whom no key went while messaging was locked reads every message,
\* also when both started the conversation at once with a key each.
AllReadable == \A u \in User : ~late[u] => Messages(view[u]) \subseteq shown[u]

\* A message is never in a replica without its key, earlier in the order: it can be
\* read from the log alone, on another device or after a reload.
KeysBefore ==
  \A u \in User : \A e \in Messages(log[u]) :
    \E k \in log[u] : k.kind = "key" /\ k.key = e.key /\ Before(k, e)

Undelivered(u) ==
  {e \in Messages(log[u]) : e.by = u} \ (shown[Other(u)] \cup hidden[Other(u)])

Awaited == {u \in User : u \in registry[u] /\ Undelivered(u) # {}}

\* What one who is registered has sent, also before that, is in the end emitted to
\* the other, who may not have opened the room, or known the sender, before.
Delivered == Awaited # {} ~> Awaited = {}
=============================================================================
