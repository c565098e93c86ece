------------------------------ MODULE RoomKeys ------------------------------
(***************************************************************************)
(* The key of one hive room, as one daemon keeps it on disk: the room      *)
(* functions of crypto/hive_integration.rs, the "hive_room" events of      *)
(* bridge/puller.rs, the room requests of daemon/web.rs, and the timer     *)
(* that deletes expired keys.  The key and its metadata are two files; the *)
(* SSE loops, the requests and the timer run in parallel, and nothing      *)
(* locks the files: every write and every removal is a step of its own.    *)
(*                                                                         *)
(* A key is the index of the event that distributed it; 0 is our own.      *)
(***************************************************************************)
EXTENDS Naturals, Sequences

CONSTANTS
  RoomServer,     \* servers whose streams carry the room
  Member,         \* the others in the room
  Me, NoKey,
  MaxRoomEvents   \* bound: events of the room

ASSUME RoomKeysAssumption ==
  /\ MaxRoomEvents \in Nat /\ NoKey \notin Nat
  /\ Me \notin Member /\ RoomServer \cap {"http", "timer"} = {}

Task == RoomServer \cup {"http", "timer"}

VARIABLES
  room,          \* the events of the room, in the order the servers push them
  stream,        \* of a server: indexes of events not yet handled
  at, on, then,  \* of a task: next step, its event (0: our own key), the step
                 \* that follows a deletion
  held,          \* metadata store_room_members has read
  key_file, meta_file,
  expired,       \* keys whose time is over
  texts,         \* what the handlers made of texts: <<event, result>>
  excused,       \* keys not to be had: not fetched, rejected, or deleted
  gone           \* keys a key_destroy took from us

roomVars == <<room, stream, at, on, then, held, key_file, meta_file, expired, texts,
              excused, gone>>

NoMeta == [creator |-> NoKey, expires |-> NoKey, exists |-> FALSE]
Meta(creator, expires) == [creator |-> creator, expires |-> expires, exists |-> TRUE]

Step(t, here, next) == at[t] = here /\ at' = [at EXCEPT ![t] = next]

\* Who distributed the key a task stores, and when it expires.
From(t) == IF on[t] = 0 THEN Me ELSE room[on[t]].from
Expires(t) == IF on[t] # 0 /\ room[on[t]].expires THEN on[t] ELSE NoKey

MetaExpired == meta_file.expires \in expired

Event(type, from, key, expires) ==
  [type |-> type, from |-> from, key |-> key, expires |-> expires]

----------------------------------------------------------------------------
(* store_room_key, store_room_members, delete_room_key *)

\* Mutant: a key that is there is not replaced.
StoreFirstKey(t) ==
  /\ Step(t, "store_key", "store_meta")
  /\ key_file' = IF key_file = NoKey THEN on[t] ELSE key_file
  /\ UNCHANGED <<room, stream, on, then, held, meta_file, expired, texts, excused, gone>>

StoreKey(t) ==
  /\ Step(t, "store_key", "store_meta")
  /\ key_file' = on[t]
  /\ UNCHANGED <<room, stream, on, then, held, meta_file, expired, texts, excused, gone>>

StoreMeta(t) ==
  /\ Step(t, "store_meta", IF t = "http" THEN "send_keys" ELSE "members_read")
  /\ meta_file' = Meta(From(t), Expires(t))
  /\ UNCHANGED <<room, stream, on, then, held, key_file, expired, texts, excused, gone>>

MembersRead(s) ==
  /\ Step(s, "members_read", "members_write")
  /\ held' = [held EXCEPT ![s] = [meta_file EXCEPT !.exists = TRUE]]
  /\ UNCHANGED <<room, stream, on, then, key_file, meta_file, expired, texts, excused, gone>>

\* The members go into what was read, or into a file without creator and expiry.
MembersWrite(s) ==
  /\ Step(s, "members_write", "idle")
  /\ meta_file' = held[s]
  /\ held' = [held EXCEPT ![s] = NoMeta]
  /\ UNCHANGED <<room, stream, on, then, key_file, expired, texts, excused, gone>>

\* The keys a key_destroy event makes unreadable: all distributed before it.
Condemned(t) ==
  IF t \in RoomServer THEN {k \in 1..on[t] : room[k].type = "keys"} ELSE {}

\* Mutant: the file is still there.
DeleteKeyFileFails(t) ==
  /\ Step(t, "delete_key", "delete_meta")
  /\ excused' = excused \cup {key_file}
  /\ gone' = gone \cup Condemned(t)
  /\ UNCHANGED <<room, stream, on, then, held, key_file, meta_file, expired, texts>>

DeleteKeyFile(t) ==
  /\ Step(t, "delete_key", "delete_meta")
  /\ key_file' = NoKey
  /\ excused' = excused \cup {key_file}
  /\ gone' = gone \cup Condemned(t)
  /\ UNCHANGED <<room, stream, on, then, held, meta_file, expired, texts>>

DeleteMetaFile(t) ==
  /\ Step(t, "delete_meta", then[t])
  /\ meta_file' = NoMeta
  /\ UNCHANGED <<room, stream, on, then, held, key_file, expired, texts, excused, gone>>

----------------------------------------------------------------------------
(* handle_event, "hive_room" *)

\* The first to distribute a key is the creator; a later one has to be the same.
Accepts(e) == meta_file.creator \in {NoKey, e.from}

KeysArrive(s, e) ==
  /\ e.type = "keys"
  /\ IF Accepts(e)
     THEN at' = [at EXCEPT ![s] = "fetching"] /\ UNCHANGED excused
     ELSE UNCHANGED at /\ excused' = excused \cup {e.key}
  /\ UNCHANGED <<then, texts>>

DestroyArrives(s, e) ==
  /\ e.type = "destroy"
  /\ at' = [at EXCEPT ![s] = "delete_key"]
  /\ then' = [then EXCEPT ![s] = "ack"]
  /\ UNCHANGED <<excused, texts>>

\* decrypt_room_message_if_encrypted
TextArrives(s, e) ==
  /\ e.type = "text"
  /\ texts' = Append(texts, <<Head(stream[s]),
       CASE e.key = NoKey \/ e.key = key_file -> "clear"
         [] e.key # NoKey /\ key_file = NoKey -> "missing"
         [] OTHER -> "failed">>)
  /\ UNCHANGED <<at, then, excused>>

RoomEvent(s) ==
  /\ at[s] = "idle" /\ stream[s] # <<>>
  /\ LET e == room[Head(stream[s])] IN
       KeysArrive(s, e) \/ DestroyArrives(s, e) \/ TextArrives(s, e)
  /\ on' = [on EXCEPT ![s] = Head(stream[s])]
  /\ stream' = [stream EXCEPT ![s] = Tail(@)]
  /\ UNCHANGED <<room, held, key_file, meta_file, expired, gone>>

\* receive_room_key and generate_and_distribute_room_key ask a server for public
\* keys first.
PublicKeyFetched(t) ==
  /\ Step(t, "fetching", "store_key")
  /\ UNCHANGED <<room, stream, on, then, held, key_file, meta_file, expired, texts,
                 excused, gone>>

PublicKeyFails(t) ==
  /\ Step(t, "fetching", "idle")
  /\ excused' = excused \cup {on[t]}
  /\ UNCHANGED <<room, stream, on, then, held, key_file, meta_file, expired, texts, gone>>

\* The destruction is acknowledged and announced.
Acknowledge(s) ==
  /\ Step(s, "ack", "idle")
  /\ texts' = Append(texts, <<on[s], "notice">>)
  /\ UNCHANGED <<room, stream, on, then, held, key_file, meta_file, expired, excused, gone>>

----------------------------------------------------------------------------
(* Requests of the agent, the timer *)

\* The servers push to all their streams what others send.
Push(e) ==
  /\ Len(room) < MaxRoomEvents
  /\ room' = Append(room, e)
  /\ stream' = IF e.from = Me THEN stream
               ELSE [s \in RoomServer |-> Append(stream[s], Len(room) + 1)]

\* hive_create_room: a room of ours, in which nobody else distributes keys.
CreateRoom ==
  /\ room = <<>> /\ Step("http", "idle", "fetching") /\ meta_file = NoMeta
  /\ on' = [on EXCEPT !["http"] = 0]
  /\ UNCHANGED <<room, stream, then, held, key_file, meta_file, expired, texts, excused, gone>>

SendKeys ==
  /\ Step("http", "send_keys", "idle")
  /\ Push(Event("keys", Me, 0, FALSE))
  /\ UNCHANGED <<on, then, held, key_file, meta_file, expired, texts, excused, gone>>

\* encrypt_room_message deletes a key that has expired, and so does the timer.
FindsExpired(t) ==
  /\ t \in {"http", "timer"} /\ MetaExpired
  /\ Step(t, "idle", "delete_key")
  /\ then' = [then EXCEPT ![t] = "idle"]
  /\ UNCHANGED <<room, stream, on, held, key_file, meta_file, expired, texts, excused, gone>>

\* hive_room_destroy_key: the others are told, then the own key goes.
DestroyKey ==
  /\ room # <<>> /\ Step("http", "idle", "delete_key")
  /\ then' = [then EXCEPT !["http"] = "idle"]
  /\ Push(Event("destroy", Me, NoKey, FALSE))
  /\ UNCHANGED <<on, held, key_file, meta_file, expired, texts, excused, gone>>

----------------------------------------------------------------------------
(* The others, and time *)

Ours == \E i \in DOMAIN room : room[i].type = "keys" /\ room[i].from = Me
Creating == at["http"] \in {"fetching", "store_key", "store_meta", "send_keys"}

OthersDistribute ==
  /\ ~Ours /\ ~Creating
  /\ \E m \in Member, x \in BOOLEAN : Push(Event("keys", m, Len(room) + 1, x))
  /\ UNCHANGED <<at, on, then, held, key_file, meta_file, expired, texts, excused, gone>>

\* Under a key that was distributed, or in the clear.
OthersSend ==
  /\ \E m \in Member,
        k \in {NoKey} \cup {room[i].key : i \in {j \in DOMAIN room : room[j].type = "keys"}} :
       Push(Event("text", m, k, FALSE))
  /\ UNCHANGED <<at, on, then, held, key_file, meta_file, expired, texts, excused, gone>>

OthersDestroy ==
  /\ \E m \in Member : Push(Event("destroy", m, NoKey, FALSE))
  /\ UNCHANGED <<at, on, then, held, key_file, meta_file, expired, texts, excused, gone>>

TimePasses ==
  /\ \E k \in DOMAIN room \ expired : room[k].expires /\ expired' = expired \cup {k}
  /\ UNCHANGED <<room, stream, at, on, then, held, key_file, meta_file, texts, excused, gone>>

RoomInit ==
  /\ room = <<>> /\ texts = <<>>
  /\ stream = [s \in RoomServer |-> <<>>]
  /\ at = [t \in Task |-> "idle"] /\ then = [t \in Task |-> "idle"]
  /\ on = [t \in Task |-> 0]
  /\ held = [s \in RoomServer |-> NoMeta]
  /\ key_file = NoKey /\ meta_file = NoMeta
  /\ expired = {} /\ excused = {} /\ gone = {}

\* What a task does without being asked.
TaskRuns(t) ==
  \/ PublicKeyFetched(t) \/ PublicKeyFails(t) \/ StoreKey(t) \/ StoreMeta(t)
  \/ DeleteKeyFile(t) \/ DeleteMetaFile(t)
  \/ t \in RoomServer /\ (RoomEvent(t) \/ MembersRead(t) \/ MembersWrite(t) \/ Acknowledge(t))

RoomNext ==
  \/ \E t \in Task : TaskRuns(t) \/ FindsExpired(t)
  \/ CreateRoom \/ SendKeys \/ DestroyKey
  \/ OthersDistribute \/ OthersSend \/ OthersDestroy \/ TimePasses

RoomSpec == RoomInit /\ [][RoomNext]_roomVars

----------------------------------------------------------------------------
(* Properties *)

Keys == 0..MaxRoomEvents
Metas == [creator : Member \cup {Me, NoKey}, expires : Keys \cup {NoKey}, exists : BOOLEAN]

\* The type invariant.
RoomTypeOK ==
  /\ room \in Seq([type : {"keys", "text", "destroy"}, from : Member \cup {Me},
                   key : Keys \cup {NoKey}, expires : BOOLEAN])
  /\ \A s \in RoomServer : stream[s] \in Seq(DOMAIN room)
  /\ at \in [Task -> {"idle", "fetching", "store_key", "store_meta", "members_read",
                      "members_write", "delete_key", "delete_meta", "ack", "send_keys"}]
  /\ on \in [Task -> Keys] /\ then \in [Task -> {"idle", "ack"}]
  /\ held \in [RoomServer -> Metas]
  /\ key_file \in Keys \cup {NoKey} /\ meta_file \in Metas
  /\ expired \subseteq Keys /\ gone \subseteq Keys /\ excused \subseteq Keys \cup {NoKey}

\* puller.rs:561 ("Key destroyed by ... Room is now unreadable."): a key that was
\* distributed before a key_destroy does not come back once that is handled.
DestroyedStaysGone == key_file \notin gone

\* Another key was distributed after k and before event e.
Superseded(k, e) ==
  \E i \in DOMAIN room : i > k /\ i < e /\ room[i].type = "keys" /\ room[i].key # k

\* A text under the room's latest key is read, unless that key could not be had
\* or was deleted: the handler has stored the key when the text reaches it.
TextReadable ==
  \A i \in DOMAIN texts :
    LET e == texts[i][1]
        k == room[e].key
    IN texts[i][2] \in {"missing", "failed"} => k \in excused \/ Superseded(k, e)

=============================================================================
