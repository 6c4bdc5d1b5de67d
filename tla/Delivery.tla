------------------------------ MODULE Delivery ------------------------------
(***************************************************************************)
(* Messages end to end: the relay of PikeServer and clients that log in,    *)
(* leave, lose their connection and log in again.                          *)
(*                                                                         *)
(* A client has one connection at a time, and every Login makes a new one.  *)
(* What a client writes is up[c] until a handler of the relay reads it;    *)
(* what the relay writes is wire[c], of which the client has read got[c].   *)
(* The answer to the session request stands after the first ready[c]       *)
(* stanzas of the wire: libstrophe calls no handler of the messenger for    *)
(* what precedes it.  A definition marked as a variant has a plausible bug; *)
(* no specification uses it.                                               *)
(***************************************************************************)
EXTENDS PikeServer

CONSTANTS
  Owner,     \* the user who opens each connection
  MaxChats   \* bound: calls of SendMessage

\* Every message and its acknowledgement can be handled.
ASSUME DeliveryAssumption ==
  /\ Owner \in [Conns -> Users]
  /\ MaxChats \in Nat
  /\ MaxMsgs >= 2 * MaxChats

VARIABLES
  session,    \* the client's side of it
  link,       \* whether TCP still carries anything
  up,         \* what the client has sent and the relay has not read
  ready,      \* where the answer to the session request is, Unanswered before
  got,        \* how much of the wire the client has read
  content,    \* what each stanza handled by the relay is
  sent,       \* history: the messages of SendMessage
  told,       \* history: the users whose observers were told of each message
  confirmed   \* history: how often the sender's observers were told Delivered

server  == <<known, client, messages, key, phase, jid, wire, roster, handled>>
network == <<link, up, ready, got, content>>
history == <<sent, told, confirmed>>
all     == <<server, session, network, history>>

Unanswered == MaxMsgs + 1
Chats      == 1 .. MaxChats
Control    == {[kind |-> k, msg |-> 0] : k \in {"auth", "session", "close"}}
Content    == [kind : {"chat", "Delivered"}, msg : Chats]

DeliveryTypeOK ==
  /\ session \in [Conns -> {"none", "opening", "binding", "connected", "ended"}]
  /\ link \in [Conns -> {"none", "up", "cut"}]
  /\ up \in [Conns -> Seq(Control \cup Content)]
  /\ ready \in [Conns -> 0 .. Unanswered]
  /\ got \in [Conns -> Nat] /\ \A c \in Conns : got[c] <= Len(wire[c])
  /\ content \in Seq([kind : {"chat", "Delivered"}, msg : Chats, fresh : BOOLEAN])
  /\ sent \in Seq([from : Users, to : Users, conn : Conns])
  /\ told \in [Chats -> Seq(Users)]
  /\ confirmed \in [Chats -> Nat]

DeliveryInit ==
  /\ Init
  /\ session = [c \in Conns |-> "none"]
  /\ link = [c \in Conns |-> "none"]
  /\ up = [c \in Conns |-> <<>>]
  /\ ready = [c \in Conns |-> Unanswered]
  /\ got = [c \in Conns |-> 0]
  /\ content = <<>>
  /\ sent = <<>>
  /\ told = [m \in Chats |-> <<>>]
  /\ confirmed = [m \in Chats |-> 0]

-----------------------------------------------------------------------------
\* The connection a client uses, and one it has done with.
Using(c) == session[c] \in {"opening", "binding", "connected"}

Enqueue(c, k, m) == up' = [up EXCEPT ![c] = Append(@, [kind |-> k, msg |-> m])]
Item(c, k)       == link[c] = "up" /\ up[c] # <<>> /\ Head(up[c]).kind = k
Dequeue(c)       == up' = [up EXCEPT ![c] = Tail(@)]

-----------------------------------------------------------------------------
(* The client.                                                               *)

\* Login, up to the credentials.
Login(c) ==
  /\ ~ \E d \in Conns : Owner[d] = Owner[c] /\ Using(d)
  /\ OnConnection(c)
  /\ session' = [session EXCEPT ![c] = "opening"]
  /\ link' = [link EXCEPT ![c] = "up"]
  /\ Enqueue(c, "auth", 0)
  /\ UNCHANGED <<ready, got, content, history>>

\* The relay's success is read; a resource is bound and a session requested.
Succeed(c) ==
  /\ link[c] = "up"
  /\ session[c] = "opening" /\ Live(c)
  /\ session' = [session EXCEPT ![c] = "binding"]
  /\ Enqueue(c, "session", 0)
  /\ UNCHANGED <<server, link, ready, got, content, history>>

\* Its refusal is read: another mechanism is tried, or the stream is closed.
Refused(c) ==
  /\ link[c] = "up"
  /\ session[c] = "opening" /\ phase[c] = "refused" /\ up[c] = <<>>
  /\ \/ Enqueue(c, "auth", 0) /\ UNCHANGED session
     \/ Enqueue(c, "close", 0) /\ session' = [session EXCEPT ![c] = "ended"]
  /\ UNCHANGED <<server, link, ready, got, content, history>>

\* Variant: the answer is looked for at the end of what has been relayed.
EstablishedAtEnd(c) ==
  /\ link[c] = "up"
  /\ session[c] = "binding" /\ ready[c] # Unanswered /\ got[c] = Len(wire[c])
  /\ session' = [session EXCEPT ![c] = "connected"]
  /\ UNCHANGED <<server, network, history>>

\* The answer to the session request is read: the user handlers are called from now on.
Established(c) ==
  /\ link[c] = "up"
  /\ session[c] = "binding" /\ got[c] = ready[c]
  /\ session' = [session EXCEPT ![c] = "connected"]
  /\ UNCHANGED <<server, network, history>>

SendMessage(c, v) ==
  /\ session[c] = "connected"
  /\ Len(sent) < MaxChats
  /\ sent' = Append(sent, [from |-> Owner[c], to |-> v, conn |-> c])
  /\ up' = IF link[c] = "up" THEN [up EXCEPT ![c] = Append(@, [kind |-> "chat", msg |-> Len(sent) + 1])]
           ELSE up
  /\ UNCHANGED <<server, session, link, ready, got, content, told, confirmed>>

\* MessageHandler: a message is acknowledged and told, an acknowledgement is told.
MessageHandler(c, stanza) ==
  LET m == stanza.msg IN
  \/ /\ stanza.kind = "chat"
     /\ Enqueue(c, "Delivered", m)
     /\ told' = [told EXCEPT ![m] = Append(@, Owner[c])]
     /\ UNCHANGED confirmed
  \/ /\ stanza.kind = "Delivered"
     /\ confirmed' = [confirmed EXCEPT ![m] = @ + 1]
     /\ UNCHANGED <<up, told>>

\* Variant: a stanza is skipped.
ReadSkips(c) ==
  /\ link[c] = "up"
  /\ session[c] = "connected"
  /\ got[c] < Len(wire[c])
  /\ got' = [got EXCEPT ![c] = @ + 2]
  /\ MessageHandler(c, content[wire[c][got[c] + 1]])
  /\ UNCHANGED <<server, session, link, ready, content, sent>>

\* A stanza is read; before the session is established it is nobody's.
Read(c) ==
  /\ link[c] = "up"
  /\ session[c] \in {"binding", "connected"}
  /\ got[c] < Len(wire[c])
  /\ session[c] = "binding" => got[c] # ready[c]
  /\ got' = [got EXCEPT ![c] = @ + 1]
  /\ IF session[c] = "connected"
       THEN MessageHandler(c, content[wire[c][got[c] + 1]])
       ELSE UNCHANGED <<up, told, confirmed>>
  /\ UNCHANGED <<server, session, link, ready, content, sent>>

\* Disconnect: the stream is closed, or the connection is freed with some of what is
\* queued unwritten, and its socket left open.
Disconnect(c) ==
  /\ Using(c)
  /\ session' = [session EXCEPT ![c] = "ended"]
  /\ \/ link[c] = "up" /\ Enqueue(c, "close", 0)
     \/ \E k \in 0 .. Len(up[c]) : up' = [up EXCEPT ![c] = SubSeq(@, 1, k)]
  /\ UNCHANGED <<server, link, ready, got, content, history>>

-----------------------------------------------------------------------------
(* The network.                                                              *)

\* TCP gives up, with what is under way in both directions.
Cut(c) ==
  /\ link[c] = "up"
  /\ link' = [link EXCEPT ![c] = "cut"]
  /\ up' = [up EXCEPT ![c] = <<>>]
  /\ UNCHANGED <<server, session, ready, got, content, history>>

\* The client notices: the loop tears the connection down.
ClientNotices(c) ==
  /\ link[c] = "cut"
  /\ Using(c)
  /\ session' = [session EXCEPT ![c] = "ended"]
  /\ UNCHANGED <<server, network, history>>

\* The relay notices.
ServerNotices(c) ==
  /\ link[c] = "cut"
  /\ OnDisconnect(c)
  /\ UNCHANGED <<session, network, history>>

-----------------------------------------------------------------------------
(* The relay reads.                                                          *)

ReadAuth(c) ==
  /\ Item(c, "auth")
  /\ OnAuthenticate(c, Owner[c])
  /\ Dequeue(c)
  /\ UNCHANGED <<session, link, ready, got, content, history>>

ReadSession(c) ==
  /\ Item(c, "session")
  /\ ready' = [ready EXCEPT ![c] = Len(wire[c])]
  /\ Dequeue(c)
  /\ UNCHANGED <<server, session, link, got, content, history>>

\* online is raised for the request of a resource, which comes before that of a
\* session, or for the latter.
Online(c) ==
  /\ link[c] = "up"
  /\ Item(c, "session") \/ ready[c] # Unanswered
  /\ OnOnline(c)
  /\ UNCHANGED <<session, network, history>>

Addressee(item) == IF item.kind = "chat" THEN sent[item.msg].to ELSE sent[item.msg].from

ReadMessage(c, to) ==
  LET item == Head(up[c]) IN
  /\ Item(c, "chat") \/ Item(c, "Delivered")
  /\ to = Addressee(item)
  /\ OnMessage(c, to)
  /\ content' = Append(content, [kind |-> item.kind, msg |-> item.msg, fresh |-> to \notin known])
  /\ Dequeue(c)
  /\ UNCHANGED <<session, link, ready, got, history>>

\* The end of the stream: the socket is closed.
ReadClose(c) ==
  /\ Item(c, "close")
  /\ OnDisconnect(c)
  /\ link' = [link EXCEPT ![c] = "cut"]
  /\ Dequeue(c)
  /\ UNCHANGED <<session, ready, got, content, history>>

-----------------------------------------------------------------------------
\* What goes on by itself while the link is up.
Carry(c) ==
  \/ Succeed(c) \/ Established(c) \/ Read(c)
  \/ ReadAuth(c) \/ ReadSession(c) \/ Online(c) \/ ReadClose(c)
  \/ \E u \in Users : ReadMessage(c, u)

DeliveryNext ==
  \E c \in Conns :
    \/ Carry(c)
    \/ Login(c) \/ \E u \in Users : SendMessage(c, u)
    \/ Refused(c) \/ Disconnect(c)
    \/ Cut(c) \/ ClientNotices(c) \/ ServerNotices(c)

DeliverySpec == DeliveryInit /\ [][DeliveryNext]_all
DeliveryFairSpec == DeliverySpec /\ \A c \in Conns : WF_all(Carry(c))

-----------------------------------------------------------------------------
Promised == INSTANCE Mail WITH
  sent <- [m \in DOMAIN sent |-> [from |-> sent[m].from, to |-> sent[m].to]]

\* Whatever is cut, left open or begun again: the observers of the addressee and nobody
\* else's are told of a message, once at most; those of the sender that it was
\* delivered, once at most and only when it was.
MailIsKept == Promised!Spec

Broken(c) == link[c] = "cut" \/ session[c] = "ended"

\* A client that takes itself for connected is, at the relay: what is sent to its user
\* is sent to it, whichever connections of its own fail, end or are noticed to have
\* ended before and after.
ConnectedIsReachable ==
  \A c \in Conns : session[c] = "connected" /\ ~Broken(c) => client[Owner[c]] = c

\* A login that is not given up is refused only on account of a connection the same user
\* had before, that the client has done with and the relay still has in its table.
RefusedByGhostOnly ==
  [][\A c \in Conns : Using(c) /\ phase[c] # "refused" /\ phase'[c] = "refused" =>
       \E d \in Conns \ {c} :
         Owner[d] = Owner[c] /\ client[Owner[c]] = d /\ Broken(d) /\ phase[d] # "closed"]_all

\* The n-th stanza has come to the observers it is meant for.
Arrived(n) ==
  IF content[n].kind = "chat" THEN told[content[n].msg] # <<>> ELSE confirmed[content[n].msg] > 0

OnWire(n, c, p) == p \in DOMAIN wire[c] /\ wire[c][p] = n

\* It never will: its addressee was not known, it was relayed to a connection that is
\* broken, or to one whose session had not been answered.
Excused(n) ==
  \/ content[n].fresh
  \/ \E c \in Conns, p \in 1 .. MaxMsgs :
       OnWire(n, c, p) /\ (Broken(c) \/ ready[c] = Unanswered \/ p <= ready[c])

\* It waits for the user, or is on its way.
Kept(n) ==
  \/ \E i \in DOMAIN messages[handled[n]] : messages[handled[n]][i] = n
  \/ \E c \in Conns, p \in 1 .. MaxMsgs : OnWire(n, c, p) /\ got[c] < p

\* Where a stanza a client has sent may be.
Accounted(k, m, c) ==
  \/ Broken(c)
  \/ \E i \in DOMAIN up[c] : up[c][i] = [kind |-> k, msg |-> m]
  \/ \E n \in DOMAIN content :
       content[n].kind = k /\ content[n].msg = m /\ (Arrived(n) \/ Excused(n) \/ Kept(n))

\* No message and no acknowledgement is lost in any other way than these: the sender's
\* connection is broken, the addressee was unknown, or its connection was broken or
\* not yet established.
LossesExplained ==
  \A m \in DOMAIN sent :
    /\ Accounted("chat", m, sent[m].conn)
    /\ told[m] # <<>> =>
         \E c \in Conns : Owner[c] = sent[m].to /\ Accounted("Delivered", m, c)

\* The user has a connection that is in use.
Present(u) == \E c \in Conns : Live(c) /\ jid[c] = u /\ ~Broken(c)

\* A stanza the relay has handled comes to its addressee as soon as he is there for it,
\* also when it was stored long before, unless his connection breaks or it was lost.
PresentIsTold ==
  \A n \in 1 .. MaxMsgs :
    n \in DOMAIN content /\ Present(handled[n]) ~>
      n \in DOMAIN content /\ (Arrived(n) \/ Excused(n) \/ ~Present(handled[n]))
=============================================================================
