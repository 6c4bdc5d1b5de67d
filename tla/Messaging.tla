----------------------------- MODULE Messaging -----------------------------
(***************************************************************************)
(* Messages between clients that are logged in: SendMessage,               *)
(* SendMessageSeen, the observers and MessageHandler of MessengerImpl      *)
(* (Components/messenger/source/messenger_impl.cpp).                       *)
(*                                                                         *)
(* Each client has two threads: the application's ("app") calls the        *)
(* messenger, the run loop's ("loop") writes the send queue out and calls  *)
(* MessageHandler; both call the observers, with m_observersMutex held.    *)
(* An observer that is told of a message may call SendMessageSeen from its *)
(* callback; one that calls SendMessage, RegisterObserver or               *)
(* UnregisterObserver locks the mutex a second time and is stuck.          *)
(*                                                                         *)
(* The relay between clients that are online is a queue for each of them   *)
(* (PikeServer shows what it does for the others).  The send queue is      *)
(* taken whole: an append is one step unless another use of the queue      *)
(* overlaps with it, after which it may lose items (SendQueue).            *)
(***************************************************************************)
EXTENDS Naturals, Sequences, SequencesExt

CONSTANTS
  Clients,    \* the clients, all logged in
  Observers,  \* the observers an application may register
  MaxSent,    \* bound: how many messages each client sends
  MaxRegs     \* bound: how often each registers or unregisters an observer

ASSUME MessagingAssumption ==
  /\ MaxSent \in [Clients -> Nat]
  /\ MaxRegs \in [Clients -> Nat]

Threads == {"app", "loop"}

\* A message is named by its sender and a number.
Messages == UNION {{c} \X (1 .. MaxSent[c]) : c \in Clients}

\* The stanzas of XmppStanzaBuilder, and the error a server may answer with.
Chat(d, m)      == [type |-> "chat", to |-> d, msg |-> m]
Status(m, s)    == [type |-> s, to |-> m[1], msg |-> m]
Stanzas         == [type : {"chat", "Delivered", "Seen", "error"},
                    to : Clients, msg : Messages]

\* What observers are told: a message, or the status of one.
Event(k, m) == [kind |-> k, msg |-> m]
Events      == [kind : {"received", "Sending", "Delivered", "Seen", "FailedToSend"},
                msg : Messages]
NoEvent     == Event("none", <<>>)
NoStanza    == [type |-> "none"]

VARIABLES
  observers,  \* m_observers of each client
  holder,     \* the thread that holds m_observersMutex, or "none"
  left,       \* the observers the holder has yet to tell
  pc,         \* where each thread is: in xmpp_send, locking the mutex, telling
  out,        \* the stanza it sends
  note,       \* the event it has yet to tell, or is telling
  queue,      \* the send queue of each client
  net,        \* the stanzas on their way to each client
  sent,       \* how many messages each client has sent
  seen,       \* the messages each client has called SendMessageSeen for
  regs,       \* how often it has called RegisterObserver or UnregisterObserver
  raced,      \* history: two uses of its send queue have overlapped
  told,       \* history: what each observer has been told
  heard       \* history: the events of each client, as its observers are told

thread == <<pc, out, note>>
lock   == <<observers, holder, left>>
calls  == <<sent, seen, regs>>
vars   == <<lock, thread, queue, net, calls, raced, told, heard>>

TypeOK ==
  /\ observers \in [Clients -> SUBSET Observers]
  /\ holder \in [Clients -> Threads \cup {"none"}]
  /\ left \in [Clients -> SUBSET Observers]
  /\ pc \in [Clients -> [Threads -> {"idle", "send", "lock", "tell", "stuck"}]]
  /\ out \in [Clients -> [Threads -> Stanzas \cup {NoStanza}]]
  /\ note \in [Clients -> [Threads -> Events \cup {NoEvent}]]
  /\ queue \in [Clients -> Seq(Stanzas)]
  /\ net \in [Clients -> Seq(Stanzas)]
  /\ sent \in [Clients -> Nat]
  /\ seen \in [Clients -> SUBSET Messages]
  /\ regs \in [Clients -> Nat]
  /\ raced \in [Clients -> BOOLEAN]
  /\ told \in [Clients -> [Observers -> Seq(Events)]]
  /\ heard \in [Clients -> Seq(Events)]

\* Nobody is registered yet: Login has returned and its callback has been called.
Init ==
  /\ observers = [c \in Clients |-> {}]
  /\ holder = [c \in Clients |-> "none"]
  /\ left = [c \in Clients |-> {}]
  /\ pc = [c \in Clients |-> [t \in Threads |-> "idle"]]
  /\ out = [c \in Clients |-> [t \in Threads |-> NoStanza]]
  /\ note = [c \in Clients |-> [t \in Threads |-> NoEvent]]
  /\ queue = [c \in Clients |-> <<>>]
  /\ net = [c \in Clients |-> <<>>]
  /\ sent = [c \in Clients |-> 0]
  /\ seen = [c \in Clients |-> {}]
  /\ regs = [c \in Clients |-> 0]
  /\ raced = [c \in Clients |-> FALSE]
  /\ told = [c \in Clients |-> [o \in Observers |-> <<>>]]
  /\ heard = [c \in Clients |-> <<>>]

-----------------------------------------------------------------------------
Goto(c, t, to) == pc' = [pc EXCEPT ![c][t] = to]

\* The thread enters xmpp_send with a stanza; the other one may be in it too.
EnterSend(c, t, stanza) ==
  /\ Goto(c, t, "send")
  /\ out' = [out EXCEPT ![c][t] = stanza]
  /\ raced' = [raced EXCEPT ![c] = @ \/ \E u \in Threads \ {t} : pc[c][u] = "send"]

\* The thread is to tell the observers of an event.
ToTell(c, t, event) == note' = [note EXCEPT ![c][t] = event]

\* The application has been told of the message.
Knows(c, m) == \E o \in Observers : Event("received", m) \in Range(told[c][o])

-----------------------------------------------------------------------------
\* Variants of the definitions with a plausible bug in each, for showing that
\* the properties at the end of the module can fail.  No specification uses them.

\* the identifier of an error stanza is not parsed
EventOfUnparsed(stanza) ==
  IF stanza.type = "error" THEN NoEvent
  ELSE Event(IF stanza.type = "chat" THEN "received" ELSE stanza.type, stanza.msg)

\* the item written is not removed from the queue
FlushKeepsItem(c) ==
  /\ pc[c]["loop"] = "idle"
  /\ queue[c] # <<>>
  /\ Len(net[Head(queue[c]).to]) < 3
  /\ net' = [net EXCEPT ![Head(queue[c]).to] = Append(@, Head(queue[c]))]
  /\ UNCHANGED <<lock, thread, queue, calls, raced, told, heard>>

\* the observers are told, the sender is not
ReceiveUnacknowledged(c) ==
  /\ pc[c]["loop"] = "idle"
  /\ net[c] # <<>>
  /\ net' = [net EXCEPT ![c] = Tail(@)]
  /\ ToTell(c, "loop", Event(IF Head(net[c]).type = "chat" THEN "received"
                             ELSE Head(net[c]).type, Head(net[c]).msg))
  /\ Goto(c, "loop", "lock")
  /\ UNCHANGED <<lock, out, queue, calls, raced, told, heard>>

\* m_observers is changed without the mutex
UnregisterUnlocked(c, o) ==
  /\ pc[c]["app"] = "idle"
  /\ regs[c] < MaxRegs[c]
  /\ observers' = [observers EXCEPT ![c] = @ \ {o}]
  /\ regs' = [regs EXCEPT ![c] = @ + 1]
  /\ UNCHANGED <<holder, left, thread, queue, net, sent, seen, raced, told, heard>>

\* the loop over the observers ends before the last one
UnlockEarly(c, t) ==
  /\ pc[c][t] = "tell"
  /\ left' = [left EXCEPT ![c] = {}]
  /\ holder' = [holder EXCEPT ![c] = "none"]
  /\ ToTell(c, t, NoEvent)
  /\ Goto(c, t, "idle")
  /\ UNCHANGED <<observers, out, queue, net, calls, raced, told, heard>>

\* the mutex is not released
UnlockNothing(c, t) ==
  /\ pc[c][t] = "tell"
  /\ left[c] = {}
  /\ ToTell(c, t, NoEvent)
  /\ Goto(c, t, "idle")
  /\ UNCHANGED <<lock, out, queue, net, calls, raced, told, heard>>

-----------------------------------------------------------------------------
(* The application.                                                          *)

\* SendMessage: the stanza is sent first, then the observers are told Sending.
SendMessage(c, d) ==
  LET m == <<c, sent[c] + 1>>
  IN /\ pc[c]["app"] = "idle"
     /\ sent[c] < MaxSent[c]
     /\ sent' = [sent EXCEPT ![c] = @ + 1]
     /\ EnterSend(c, "app", Chat(d, m))
     /\ ToTell(c, "app", Event("Sending", m))
     /\ UNCHANGED <<lock, queue, net, seen, regs, told, heard>>

\* SendMessageSeen, for a message it has been told of, once.
SendMessageSeen(c, m) ==
  /\ pc[c]["app"] = "idle"
  /\ Knows(c, m)
  /\ m \notin seen[c]
  /\ seen' = [seen EXCEPT ![c] = @ \cup {m}]
  /\ EnterSend(c, "app", Status(m, "Seen"))
  /\ UNCHANGED <<lock, note, queue, net, sent, regs, told, heard>>

\* Both wait for the mutex.
ChangeObservers(c, set) ==
  /\ pc[c]["app"] = "idle"
  /\ holder[c] = "none"
  /\ regs[c] < MaxRegs[c]
  /\ observers' = [observers EXCEPT ![c] = set]
  /\ regs' = [regs EXCEPT ![c] = @ + 1]
  /\ UNCHANGED <<holder, left, thread, queue, net, sent, seen, raced, told, heard>>

RegisterObserver(c, o)   == ChangeObservers(c, observers[c] \cup {o})
UnregisterObserver(c, o) == ChangeObservers(c, observers[c] \ {o})

-----------------------------------------------------------------------------
(* Both threads.                                                             *)

\* What a thread does when xmpp_send has returned: it goes on telling the
\* observers if a callback has sent the stanza, begins to if it has an event.
AfterSend(c, t) ==
  IF holder[c] = t THEN "tell" ELSE IF note[c][t] # NoEvent THEN "lock" ELSE "idle"

\* xmpp_send_raw: the stanza is appended.  If two uses of the queue have
\* overlapped it, or what is in the queue, may be lost.
EndSend(c, t) ==
  /\ pc[c][t] = "send"
  /\ \/ queue' = [queue EXCEPT ![c] = Append(@, out[c][t])]
     \/ raced[c] /\ queue' = [queue EXCEPT ![c] = <<out[c][t]>>]
     \/ raced[c] /\ UNCHANGED queue
  /\ Goto(c, t, AfterSend(c, t))
  /\ out' = [out EXCEPT ![c][t] = NoStanza]
  /\ UNCHANGED <<lock, note, net, calls, raced, told, heard>>

\* NotifyMessageStatus and NotifyNewMessage: the mutex is locked...
Lock(c, t) ==
  /\ pc[c][t] = "lock"
  /\ holder[c] = "none"
  /\ holder' = [holder EXCEPT ![c] = t]
  /\ left' = [left EXCEPT ![c] = observers[c]]
  /\ heard' = [heard EXCEPT ![c] = Append(@, note[c][t])]
  /\ Goto(c, t, "tell")
  /\ UNCHANGED <<observers, out, note, queue, net, calls, raced, told>>

Tell(c, t, o) ==
  /\ pc[c][t] = "tell"
  /\ o \in left[c]
  /\ left' = [left EXCEPT ![c] = @ \ {o}]
  /\ told' = [told EXCEPT ![c][o] = Append(@, note[c][t])]

\* ...the observers are called one by one...
CallObserver(c, t, o) ==
  /\ Tell(c, t, o)
  /\ UNCHANGED <<observers, holder, thread, queue, net, calls, raced, heard>>

\* ...one of them calls SendMessageSeen from OnMessageReceived...
CallbackSeen(c, t, o) ==
  /\ Tell(c, t, o)
  /\ note[c][t].kind = "received"
  /\ note[c][t].msg \notin seen[c]
  /\ seen' = [seen EXCEPT ![c] = @ \cup {note[c][t].msg}]
  /\ EnterSend(c, t, Status(note[c][t].msg, "Seen"))
  /\ UNCHANGED <<observers, holder, note, queue, net, sent, regs, heard>>

\* ...or what locks the mutex again...
CallbackLocks(c, t, o) ==
  /\ Tell(c, t, o)
  /\ Goto(c, t, "stuck")
  /\ UNCHANGED <<observers, holder, out, note, queue, net, calls, raced, heard>>

\* ...and the mutex is released.
Unlock(c, t) ==
  /\ pc[c][t] = "tell"
  /\ left[c] = {}
  /\ holder' = [holder EXCEPT ![c] = "none"]
  /\ ToTell(c, t, NoEvent)
  /\ Goto(c, t, "idle")
  /\ UNCHANGED <<observers, left, out, queue, net, calls, raced, told, heard>>

-----------------------------------------------------------------------------
(* The run loop.                                                             *)

\* The event MessageHandler makes of a stanza.
EventOf(stanza) ==
  Event(CASE stanza.type = "chat"  -> "received"
          [] stanza.type = "error" -> "FailedToSend"
          [] OTHER                 -> stanza.type, stanza.msg)

\* MessageHandler: a message is acknowledged, then told; a status is told.
Receive(c) ==
  LET stanza == Head(net[c])
  IN /\ pc[c]["loop"] = "idle"
     /\ net[c] # <<>>
     /\ net' = [net EXCEPT ![c] = Tail(@)]
     /\ ToTell(c, "loop", EventOf(stanza))
     /\ IF stanza.type = "chat"
          THEN EnterSend(c, "loop", Status(stanza.msg, "Delivered"))
          ELSE Goto(c, "loop", "lock") /\ UNCHANGED <<out, raced>>
     /\ UNCHANGED <<lock, queue, calls, told, heard>>

\* xmpp_run_once removes an item from the queue; the application may be in
\* xmpp_send_raw.
Dequeue(c) ==
  /\ pc[c]["loop"] = "idle"
  /\ queue[c] # <<>>
  /\ queue' = [queue EXCEPT ![c] = Tail(@)]
  /\ raced' = [raced EXCEPT ![c] = @ \/ pc[c]["app"] = "send"]
  /\ UNCHANGED <<lock, thread, calls, told, heard>>

\* It is written out, and forwarded by the relay.
Flush(c) ==
  /\ Dequeue(c)
  /\ net' = [net EXCEPT ![Head(queue[c]).to] = Append(@, Head(queue[c]))]

\* The server answers a message with an error instead.
Bounce(c) ==
  /\ Dequeue(c)
  /\ Head(queue[c]).type = "chat"
  /\ net' = [net EXCEPT ![c] = Append(@, [Head(queue[c]) EXCEPT !.type = "error", !.to = c])]

-----------------------------------------------------------------------------
Application(c) ==
  \/ \E d \in Clients \ {c} : SendMessage(c, d)
  \/ \E m \in Messages : SendMessageSeen(c, m)
  \/ \E o \in Observers : RegisterObserver(c, o) \/ UnregisterObserver(c, o)

Notify(c, t) ==
  \/ Lock(c, t)
  \/ \E o \in Observers : CallObserver(c, t, o) \/ CallbackSeen(c, t, o)
  \/ Unlock(c, t)

Next ==
  \E c \in Clients :
    \/ Application(c)
    \/ \E t \in Threads :
         EndSend(c, t) \/ Notify(c, t) \/ \E o \in Observers : CallbackLocks(c, t, o)
    \/ Receive(c) \/ Flush(c) \/ Bounce(c)

Spec == Init /\ [][Next]_vars

\* The threads are scheduled, the mutex is not withheld from one that waits for
\* it, and the network delivers.  An application need not call anything.
FairSpec ==
  /\ Spec
  /\ \A c \in Clients :
       /\ \A t \in Threads : WF_vars(EndSend(c, t)) /\ WF_vars(Notify(c, t))
       /\ WF_vars(Receive(c))
       /\ WF_vars(Flush(c))

-----------------------------------------------------------------------------
\* No observer is called once UnregisterObserver has returned: the application
\* may delete it.  NotifyNewMessage and UnregisterObserver, in two threads.
OnlyRegisteredAreTold ==
  [][\A c \in Clients : \A o \in Observers :
       told'[c][o] # told[c][o] => o \in observers[c] /\ o \in observers'[c]]_vars

\* What the observers have been told, were those left to be told by the holder of
\* the mutex told at once.
ToldAtOnce ==
  [c \in Clients |-> [o \in Observers |->
     IF o \in left[c] THEN Append(told[c][o], note[c][holder[c]]) ELSE told[c][o]]]

B == INSTANCE Broadcast WITH told <- ToldAtOnce

\* An event is told to all the observers registered at the time, although they
\* are called one by one, while the application registers others.
EventsAreBroadcast == B!Spec

\* An observer is told of the messages of a sender in the order in which they
\* were sent, and of each of them once: from SendMessage through both send
\* queues and MessageHandler, also when the send queue has lost some.
MessagesInOrder ==
  \A c \in Clients : \A o \in Observers : \A i, j \in DOMAIN told[c][o] :
    /\ i < j
    /\ told[c][o][i].kind = "received"
    /\ told[c][o][j].kind = "received"
    /\ told[c][o][i].msg[1] = told[c][o][j].msg[1]
    => told[c][o][i].msg[2] < told[c][o][j].msg[2]

\* A sender hears Seen after Delivered: MessageHandler acknowledges a message
\* before the application can know of it, whichever thread and callback it
\* then calls SendMessageSeen from.  Only an overlapping use of the receiver's
\* send queue can lose the acknowledgement and not the Seen.
SeenAfterDelivered ==
  \A c \in Clients : \A i \in DOMAIN heard[c] :
    heard[c][i].kind = "Seen" =>
      \/ \E j \in 1 .. i - 1 : heard[c][j] = Event("Delivered", heard[c][i].msg)
      \/ \E d \in Clients \ {c} : raced[d]

\* The sender of a message hears that it was delivered or that it failed,
\* unless two uses of a send queue overlap or an observer locks the mutex it is
\* called under.
RoundTrip ==
  \A c \in Clients : \A n \in 1 .. MaxSent[c] :
    sent[c] >= n ~>
      \/ \E e \in Range(heard[c]) : e.kind \in {"Delivered", "FailedToSend"} /\ e.msg = <<c, n>>
      \/ \E d \in Clients : raced[d] \/ \E t \in Threads : pc[d][t] = "stuck"
=============================================================================
