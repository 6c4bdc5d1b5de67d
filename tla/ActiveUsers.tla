----------------------------- MODULE ActiveUsers -----------------------------
(***************************************************************************)
(* RequestActiveUsers: the request of the list of users and their keys, by  *)
(* the application's thread and by a callback in the run loop's thread, the *)
(* id handlers of libstrophe both use without a lock, and the answer.       *)
(*                                                                         *)
(* There is one id for all requests and one function, MessageHandler, is    *)
(* registered for it, with the callback of the request as its data.  The    *)
(* handlers of the id are a list of items in a hash table.  A step is what   *)
(* one thread does between two looks at what the other may change: a call   *)
(* of hash_get, hash_drop or hash_add, and a use of the item it returned.   *)
(* The list is looked at through one user, who signs up and publishes keys. *)
(* A definition marked as a variant has a plausible bug; no specification   *)
(* uses it.                                                                *)
(***************************************************************************)
EXTENDS Naturals, Sequences, Base64

CONSTANTS
  Keys,         \* the keys the user may publish
  MaxRequests,  \* bound: calls of RequestActiveUsers
  MaxChanges    \* bound: changes of the user's entry at the server

ASSUME ActiveUsersAssumption ==
  /\ Keys \subseteq Seq(Byte)
  /\ MaxRequests \in Nat
  /\ MaxChanges \in Nat

Threads  == {"app", "loop"}
Requests == 1 .. MaxRequests
Null     == 0            \* the null pointer; an item has the number of its request
Pointers == Requests \cup {Null}
Absent   == [known |-> FALSE, text |-> <<>>]

VARIABLES
  entry,      \* the user's entry in the table of the server
  profiles,   \* history: what the user has made of its entry
  toServer,   \* number of requests under way
  toClient,   \* answers under way
  connected,
  asked,      \* history: what the entry was like when a request was made
  answers,    \* history: what each callback was told
  contended,  \* history: the requests that met another one or an answer
  values,     \* the values the hash table holds for the id, the latest first
  next,       \* of an item
  freed,      \* the items that were freed
  call,       \* what a thread is doing in RequestActiveUsers
  walk,       \* what the run loop is doing in handler_fire_stanza
  crashed     \* a thread has used freed memory

server == <<entry, profiles>>
wire   == <<toServer, toClient, connected>>
list   == <<values, next, freed>>
vars   == <<server, wire, asked, answers, contended, list, call, walk, crashed>>

\* What the callback learns of the user: nothing, that it is there, or its key.
NoKey   == [encryptionAlgo |-> "None", encryptionPubKey |-> <<>>]
Policies == {NoKey} \cup [encryptionAlgo : {"RSA_1024"}, encryptionPubKey : Seq(Byte)]
Entries == [known : BOOLEAN, text : Seq(0 .. Pad)]
Answers == [entry : Entries, at : Nat]
Calls == [pc : {"idle", "compare", "link", "append", "send"}, request : Pointers, item : Pointers]
Walks == [pc : {"idle", "fire", "callback", "drop", "add"},
          item : Pointers, next : Pointers, dropped : Pointers, stanza : Answers]

TypeOK ==
  /\ entry \in Entries
  /\ profiles \in Seq(Seq(Byte))
  /\ toServer \in Nat
  /\ toClient \in Seq(Answers)
  /\ connected \in BOOLEAN
  /\ asked \in Seq(Nat)
  /\ answers \in [Requests -> Seq([users : Policies \cup {Absent}, at : Nat])]
  /\ contended \in SUBSET Requests
  /\ values \in Seq(Pointers)
  /\ next \in [Requests -> Pointers]
  /\ freed \in SUBSET Requests
  /\ call \in [Threads -> Calls]
  /\ walk \in Walks
  /\ crashed \in BOOLEAN

Idle == [pc |-> "idle", request |-> Null, item |-> Null]
Rest == [pc |-> "idle", item |-> Null, next |-> Null, dropped |-> Null,
         stanza |-> [entry |-> Absent, at |-> 0]]

\* The messenger is logged in.
Init ==
  /\ entry = Absent
  /\ profiles = <<>>
  /\ toServer = 0
  /\ toClient = <<>>
  /\ connected = TRUE
  /\ asked = <<>>
  /\ answers = [r \in Requests |-> <<>>]
  /\ contended = {}
  /\ values = <<>>
  /\ next = [r \in Requests |-> Null]
  /\ freed = {}
  /\ call = [t \in Threads |-> Idle]
  /\ walk = Rest
  /\ crashed = FALSE

-----------------------------------------------------------------------------
(* The hash table: hash_get, hash_drop and hash_add of the one id.           *)

HashGet == IF values = <<>> THEN Null ELSE values[1]
HashDrop == IF values = <<>> THEN <<>> ELSE Tail(values)
HashAdd(item) == <<item>> \o HashDrop

-----------------------------------------------------------------------------
(* RequestActiveUsers, in either thread.                                     *)

\* A thread in the middle of something the other one can spoil.
Busy(t) == call[t].pc # "idle" \/ (t = "loop" /\ walk.pc # "idle")
Other(t) == IF t = "app" THEN "loop" ELSE "app"

\* The application calls RequestActiveUsers; the run loop does so in a callback, of
\* another stanza or of an answer.  _id_handler_add looks the id up.
Request(t) ==
  /\ Len(asked) < MaxRequests
  /\ call[t].pc = "idle"
  /\ t = "loop" => walk.pc \in {"idle", "callback"}
  /\ LET r == Len(asked) + 1 IN
       /\ call' = [call EXCEPT ![t] = [pc |-> IF HashGet = Null THEN "link" ELSE "compare",
                                       request |-> r, item |-> HashGet]]
       /\ contended' = contended \cup (IF HashGet # Null \/ Busy(Other(t)) THEN {r} ELSE {})
                                 \cup ({call[Other(t)].request} \ {Null})
  /\ asked' = Append(asked, Len(profiles))
  /\ UNCHANGED <<server, wire, answers, list, walk, crashed>>

\* Its first loop: an item with the same function, as any is, ends the registration.
Compare(t) ==
  /\ call[t].pc = "compare"
  /\ IF call[t].item \in freed
       THEN crashed' = TRUE /\ UNCHANGED call
       ELSE call' = [call EXCEPT ![t].pc = "send"] /\ UNCHANGED crashed
  /\ UNCHANGED <<server, wire, asked, answers, contended, list, walk>>

\* Variant: an id that once had handlers is not added to the table again.
LinkOnce(t) ==
  /\ call[t].pc = "link"
  /\ values' = IF values = <<>> THEN HashAdd(call[t].request) ELSE values
  /\ call' = [call EXCEPT ![t].pc = "send"]
  /\ UNCHANGED <<server, wire, asked, answers, contended, next, freed, walk, crashed>>

\* The new item becomes the list, or the list is looked up to be appended to.
Link(t) ==
  /\ call[t].pc = "link"
  /\ IF HashGet = Null
       THEN /\ values' = HashAdd(call[t].request)
            /\ call' = [call EXCEPT ![t].pc = "send"]
       ELSE /\ call' = [call EXCEPT ![t].pc = "append", ![t].item = HashGet]
            /\ UNCHANGED values
  /\ UNCHANGED <<server, wire, asked, answers, contended, next, freed, walk, crashed>>

\* One step along the list, or the end of it.
AppendItem(t) ==
  /\ call[t].pc = "append"
  /\ LET tail == call[t].item IN
       IF tail \in freed
         THEN crashed' = TRUE /\ UNCHANGED <<next, call>>
       ELSE IF next[tail] # Null
         THEN call' = [call EXCEPT ![t].item = next[tail]] /\ UNCHANGED <<next, crashed>>
       ELSE /\ next' = [next EXCEPT ![tail] = call[t].request]
            /\ call' = [call EXCEPT ![t].pc = "send"]
            /\ UNCHANGED crashed
  /\ UNCHANGED <<server, wire, asked, answers, contended, values, freed, walk>>

\* Variant: the request is sent again.
SendTwice(t) ==
  /\ call[t].pc = "send"
  /\ toServer' = IF connected THEN toServer + 2 ELSE toServer
  /\ call' = [call EXCEPT ![t] = Idle]
  /\ UNCHANGED <<server, toClient, connected, asked, answers, contended, list, walk, crashed>>

\* xmpp_send, which does nothing once the connection is gone.
Send(t) ==
  /\ call[t].pc = "send"
  /\ toServer' = IF connected THEN toServer + 1 ELSE toServer
  /\ call' = [call EXCEPT ![t] = Idle]
  /\ UNCHANGED <<server, toClient, connected, asked, answers, contended, list, walk, crashed>>

-----------------------------------------------------------------------------
(* The run loop: handler_fire_stanza for an answer, and MessageHandler.      *)

Looping == call["loop"].pc = "idle"

\* The handlers of the id are looked up.
Receive ==
  /\ walk.pc = "idle" /\ Looping
  /\ toClient # <<>>
  /\ toClient' = Tail(toClient)
  /\ IF HashGet = Null
       THEN UNCHANGED <<walk, contended>>
       ELSE /\ walk' = [Rest EXCEPT !.pc = "fire", !.item = HashGet, !.stanza = Head(toClient)]
            /\ contended' = contended \cup ({call["app"].request} \ {Null})
  /\ UNCHANGED <<server, toServer, connected, asked, answers, list, call, crashed>>

\* Variant: the algorithm is left as it is for a user without a key.
ParsedPlain(e) ==
  IF ~e.known THEN Absent ELSE [NoKey EXCEPT !.encryptionPubKey = Decode(e.text)]

\* ParseActiveUsersResponseStanza, as far as the user is concerned.
Parsed(e) ==
  IF ~e.known THEN Absent
  ELSE IF e.text = <<>> THEN NoKey
  ELSE [encryptionAlgo |-> "RSA_1024", encryptionPubKey |-> Decode(e.text)]

\* The walk remembers what follows and calls MessageHandler, which tells the callback
\* of the request.
Fire ==
  /\ walk.pc = "fire"
  /\ IF walk.item \in freed
       THEN crashed' = TRUE /\ UNCHANGED <<walk, answers>>
       ELSE /\ walk' = [walk EXCEPT !.pc = "callback", !.next = next[walk.item]]
            /\ answers' = [answers EXCEPT ![walk.item] =
                 Append(@, [users |-> Parsed(walk.stanza.entry), at |-> walk.stanza.at])]
            /\ UNCHANGED crashed
  /\ UNCHANGED <<server, wire, asked, contended, list, call>>

\* Variant: the handler is not deleted.
ReturnKeeps ==
  /\ walk.pc = "callback" /\ Looping
  /\ walk' = [walk EXCEPT !.pc = "add"]
  /\ UNCHANGED <<server, wire, asked, answers, contended, list, call, crashed>>

\* The callback has returned: xmpp_id_handler_delete looks the id up and, when there
\* is an item, will delete the first, whose function is the same as any.
Return ==
  /\ walk.pc = "callback" /\ Looping
  /\ walk' = [walk EXCEPT !.pc = IF HashGet = Null THEN "add" ELSE "drop", !.dropped = HashGet]
  /\ UNCHANGED <<server, wire, asked, answers, contended, list, call, crashed>>

Drop ==
  /\ walk.pc = "drop"
  /\ values' = HashDrop
  /\ walk' = [walk EXCEPT !.pc = "add"]
  /\ UNCHANGED <<server, wire, asked, answers, contended, next, freed, call, crashed>>

\* Variant: the handler that has deleted itself returns 0, and is deleted once more.
AddThenFree ==
  /\ walk.pc = "add"
  /\ values' = IF walk.dropped = Null THEN values ELSE HashAdd(next[walk.dropped])
  /\ freed' = freed \cup ({walk.dropped} \ {Null})
  /\ crashed' = (walk.item \in freed')
  /\ walk' = IF walk.next = Null THEN Rest ELSE [walk EXCEPT !.pc = "fire", !.item = walk.next]
  /\ UNCHANGED <<server, wire, asked, answers, contended, next, call>>

\* hash_add of what follows the item, which is freed; then the walk goes on with what
\* it has remembered.
Add ==
  /\ walk.pc = "add"
  /\ IF walk.dropped = Null
       THEN UNCHANGED <<values, freed>>
       ELSE /\ values' = HashAdd(next[walk.dropped])
            /\ freed' = freed \cup {walk.dropped}
  /\ walk' = IF walk.next = Null THEN Rest
             ELSE [walk EXCEPT !.pc = "fire", !.item = walk.next, !.next = Null, !.dropped = Null]
  /\ UNCHANGED <<server, wire, asked, answers, contended, next, call, crashed>>

-----------------------------------------------------------------------------
(* The server, and the other user.                                           *)

\* The user logs in for the first time, or is sent a message.
SignUp ==
  /\ Len(profiles) < MaxChanges
  /\ ~entry.known
  /\ entry' = [entry EXCEPT !.known = TRUE]
  /\ profiles' = Append(profiles, <<>>)
  /\ UNCHANGED <<wire, asked, answers, contended, list, call, walk, crashed>>

\* The user logs in with a key: CreateSetPublicKeyStanza, and handlePublicKey.
Publish(key) ==
  /\ Len(profiles) < MaxChanges
  /\ entry' = [known |-> TRUE, text |-> Encode(key)]
  /\ profiles' = Append(profiles, key)
  /\ UNCHANGED <<wire, asked, answers, contended, list, call, walk, crashed>>

\* handleActiveUserList
ListUsers ==
  /\ toServer > 0
  /\ toServer' = toServer - 1
  /\ toClient' = Append(toClient, [entry |-> entry, at |-> Len(profiles)])
  /\ UNCHANGED <<server, connected, asked, answers, contended, list, call, walk, crashed>>

\* The connection is lost.
Lose ==
  /\ connected
  /\ connected' = FALSE
  /\ toServer' = 0
  /\ toClient' = <<>>
  /\ UNCHANGED <<server, asked, answers, contended, list, call, walk, crashed>>

\* What a thread does on its own once it has begun.
Step(t) == Compare(t) \/ Link(t) \/ AppendItem(t) \/ Send(t)

Loop == Receive \/ Fire \/ Return \/ Drop \/ Add

Next ==
  /\ ~crashed
  /\ \/ \E t \in Threads : Request(t) \/ Step(t)
     \/ Loop
     \/ SignUp
     \/ \E key \in Keys : Publish(key)
     \/ ListUsers
     \/ Lose

Spec == Init /\ [][Next]_vars

\* The threads go on and the server answers.
FairSpec ==
  /\ Spec
  /\ \A t \in Threads : WF_vars(~crashed /\ Step(t))
  /\ WF_vars(~crashed /\ Loop)
  /\ WF_vars(~crashed /\ ListUsers)

-----------------------------------------------------------------------------
AnsweredOnce == \A r \in Requests : Len(answers[r]) <= 1

FreshUnlessContended ==
  \A r \in Requests : answers[r] # <<>> /\ answers[r][1].at < asked[r] =>
    \E q \in contended : q < r

\* The callback learns the key the user has published last, byte by byte; an empty
\* key is no key.
KeyArrives ==
  \A r \in Requests : \A i \in DOMAIN answers[r] :
    LET a == answers[r][i] IN
      a.users = IF a.at = 0 THEN Absent
                ELSE IF profiles[a.at] = <<>> THEN NoKey
                ELSE [encryptionAlgo |-> "RSA_1024", encryptionPubKey |-> profiles[a.at]]

\* Nothing is used after it is freed as long as no request meets another one or an answer.
NoCrashAlone == crashed => contended # {}

OneAnswerOwed ==
  contended = {} /\ connected /\ call["app"].pc = "idle" /\ Looping /\ walk.pc = "idle" =>
    toServer + Len(toClient) = (IF HashGet = Null THEN 0 ELSE 1)

\* The callback of a request is called once at most.  Its answer is no older than the
\* request, unless an earlier request has met another one or an answer: what one of
\* them leaves over goes to a later one.  As long as none does, there is a handler
\* exactly while an answer is owed or at hand, and never more than one answer is.
AnswersMatchRequests == AnsweredOnce /\ FreshUnlessContended /\ OneAnswerOwed

\* A request that meets no other and no answer is answered, while the connection lasts.
AloneIsAnswered ==
  \A r \in Requests :
    Len(asked) >= r ~> answers[r] # <<>> \/ r \in contended \/ ~connected \/ crashed
=============================================================================
