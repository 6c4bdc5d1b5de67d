----------------------------- MODULE PikeServer -----------------------------
(***************************************************************************)
(* The relay server, Server/app.js.  Node runs one event handler at a      *)
(* time, so every handler is one atomic action.  The HashMap "clients"     *)
(* (bare JID -> {client, messages, key}) is kept as one variable per field *)
(* plus the set "known" of its keys.                                       *)
(*                                                                         *)
(* A message stanza is identified by its number in the order in which the  *)
(* server handled it; handled[i] is the "to" attribute of the i-th one.    *)
(* Its body is never looked at by the server and is left out.              *)
(***************************************************************************)
EXTENDS Naturals, Sequences

CONSTANTS
  Users,      \* the bare JIDs local@domain
  Conns,      \* the connection objects handed to the 'connection' handler
  Keys,       \* the values of the "key" attribute of a public-key iq
  MaxMsgs,    \* bound: how many message stanzas the server handles
  NoConn,     \* null, the client field of an offline user
  NoUser,     \* the jid of a connection that has not authenticated
  NoKey       \* undefined, the key field of a user that published none

ASSUME ServerAssumption ==
  /\ MaxMsgs \in Nat
  /\ NoConn \notin Conns
  /\ NoUser \notin Users
  /\ NoKey \notin Keys

VARIABLES
  known,      \* the keys of the HashMap clients
  client,     \* clients.get(u).client
  messages,   \* clients.get(u).messages, the offline mailbox
  key,        \* clients.get(u).key
  phase,      \* how far each connection has got
  jid,        \* client.jid of each connection, set when authentication succeeds
  wire,       \* message stanzas given to client.send, per connection, in order
  roster,     \* the last active-user list sent, on whichever connection
  handled     \* history: the addressee of every message stanza handled

table   == <<known, client, messages, key>>
streams == <<phase, jid>>
vars    == <<known, client, messages, key, phase, jid, wire, roster, handled>>

Phases == {"unused", "open", "refused", "authenticated", "online", "closed"}

\* A connection whose jid is bound and whose socket has not been closed.
Live(c) == phase[c] \in {"authenticated", "online"}

Entry == [jid : Users, key : Keys \cup {NoKey}]

TypeOK ==
  /\ known \in SUBSET Users
  /\ client \in [Users -> Conns \cup {NoConn}]
  /\ messages \in [Users -> Seq(Nat)]
  /\ key \in [Users -> Keys \cup {NoKey}]
  /\ phase \in [Conns -> Phases]
  /\ jid \in [Conns -> Users \cup {NoUser}]
  /\ wire \in [Conns -> Seq(Nat)]
  /\ roster \in SUBSET Entry
  /\ handled \in Seq(Users)

Init ==
  /\ known = {}
  /\ client = [u \in Users |-> NoConn]
  /\ messages = [u \in Users |-> <<>>]
  /\ key = [u \in Users |-> NoKey]
  /\ phase = [c \in Conns |-> "unused"]
  /\ jid = [c \in Conns |-> NoUser]
  /\ wire = [c \in Conns |-> <<>>]
  /\ roster = {}
  /\ handled = <<>>

-----------------------------------------------------------------------------
\* Variants of the handlers with a plausible bug in each, for showing that the
\* properties at the end of the module can fail.  No specification uses them.

\* disconnect without the test of client.jid
OnDisconnectUnguarded(c) ==
  /\ phase[c] \notin {"unused", "closed"}
  /\ phase' = [phase EXCEPT ![c] = "closed"]
  /\ known' = known \cup {jid[c]}
  /\ client' = IF jid[c] \in known THEN [client EXCEPT ![jid[c]] = NoConn]
               ELSE client
  /\ UNCHANGED <<messages, key, jid, wire, roster, handled>>

\* disconnect that leaves the entry as it is
OnDisconnectForgets(c) ==
  /\ phase[c] \notin {"unused", "closed"}
  /\ phase' = [phase EXCEPT ![c] = "closed"]
  /\ UNCHANGED <<table, jid, wire, roster, handled>>

\* authenticate that lets the newest connection of a user take the entry over
OnAuthenticateTakeover(c, u) ==
  /\ phase[c] \in {"open", "refused"}
  /\ known' = known \cup {u}
  /\ client' = [client EXCEPT ![u] = c]
  /\ phase' = [phase EXCEPT ![c] = "authenticated"]
  /\ jid' = [jid EXCEPT ![c] = u]
  /\ UNCHANGED <<messages, key, wire, roster, handled>>

\* authenticate that sets a fresh entry at every login
OnAuthenticateFresh(c, u) ==
  /\ phase[c] \in {"open", "refused"}
  /\ client[u] = NoConn
  /\ known' = known \cup {u}
  /\ client' = [client EXCEPT ![u] = c]
  /\ messages' = [messages EXCEPT ![u] = <<>>]
  /\ key' = [key EXCEPT ![u] = NoKey]
  /\ phase' = [phase EXCEPT ![c] = "authenticated"]
  /\ jid' = [jid EXCEPT ![c] = u]
  /\ UNCHANGED <<wire, roster, handled>>

\* online without "messages = []"
OnOnlineKeepsMailbox(c) ==
  /\ phase[c] = "authenticated"
  /\ phase' = [phase EXCEPT ![c] = "online"]
  /\ wire' = [wire EXCEPT ![c] = @ \o messages[jid[c]]]
  /\ UNCHANGED <<known, client, messages, key, jid, roster, handled>>

\* handleMessage that stores with unshift
HandleMessageUnshift(n, u) ==
  IF u \in known /\ client[u] # NoConn
    THEN /\ wire' = [wire EXCEPT ![client[u]] = Append(@, n)]
         /\ UNCHANGED <<known, client, messages, key>>
    ELSE /\ known' = known \cup {u}
         /\ messages' = [messages EXCEPT ![u] = IF u \in known THEN <<n>> \o @ ELSE @]
         /\ UNCHANGED <<client, key, wire>>

\* handleMessage that sends to every connected client
HandleMessageBroadcast(n, u) ==
  /\ known' = known \cup {u}
  /\ wire' = [c \in Conns |-> IF \E v \in Users : client[v] = c
                               THEN Append(wire[c], n) ELSE wire[c]]
  /\ UNCHANGED <<client, messages, key>>

\* users without a key are left out of the list
OnActiveUsersKeyed(c) ==
  /\ Live(c)
  /\ roster' = {[jid |-> u, key |-> key[u]] : u \in {v \in known : key[v] # NoKey}}
  /\ UNCHANGED <<table, streams, wire, handled>>

-----------------------------------------------------------------------------
\* server.on('connection'): the handlers are registered, nothing else happens.
OnConnection(c) ==
  /\ phase[c] = "unused"
  /\ phase' = [phase EXCEPT ![c] = "open"]
  /\ UNCHANGED <<table, jid, wire, roster, handled>>

\* clients.set(u, {client: c, messages: [], key: k})
SetEntry(u, c, k) ==
  /\ known' = known \cup {u}
  /\ client' = [client EXCEPT ![u] = c]
  /\ messages' = [messages EXCEPT ![u] = <<>>]
  /\ key' = [key EXCEPT ![u] = k]

\* cb(null, opts): the stream is authenticated and gets its jid.
Accept(c, u) ==
  /\ phase' = [phase EXCEPT ![c] = "authenticated"]
  /\ jid' = [jid EXCEPT ![c] = u]

\* client.on('authenticate'): a new user, a known user that is offline, or a
\* user that already has a connection, which is refused with cb(false).  The
\* stream of a refused client stays open and it may try again.
OnAuthenticate(c, u) ==
  /\ phase[c] \in {"open", "refused"}
  /\ \/ /\ u \notin known
        /\ SetEntry(u, c, NoKey)
        /\ Accept(c, u)
     \/ /\ u \in known
        /\ client[u] = NoConn
        /\ client' = [client EXCEPT ![u] = c]
        /\ UNCHANGED <<known, messages, key>>
        /\ Accept(c, u)
     \/ /\ u \in known
        /\ client[u] # NoConn
        /\ phase' = [phase EXCEPT ![c] = "refused"]
        /\ UNCHANGED <<table, jid>>
  /\ UNCHANGED <<wire, roster, handled>>

\* client.on('online'): the stored stanzas go through handleMessage one by one
\* and the mailbox is emptied.  All of them are addressed to this user, so each
\* is sent on clients.get(full).client (or pushed back onto the array that is
\* then dropped, should that field be null).
OnOnline(c) ==
  /\ phase[c] = "authenticated"
  /\ phase' = [phase EXCEPT ![c] = "online"]
  /\ LET u == jid[c]
         d == client[u]
     IN  /\ wire' = IF d = NoConn THEN wire
                    ELSE [wire EXCEPT ![d] = @ \o messages[u]]
         /\ messages' = [messages EXCEPT ![u] = <<>>]
  /\ UNCHANGED <<known, client, key, jid, roster, handled>>

\* handleMessage(stanza) for a stanza with the number n and a "to" attribute u.
HandleMessage(n, u) ==
  \/ /\ u \notin known
     /\ SetEntry(u, NoConn, NoKey)
     /\ UNCHANGED wire
  \/ /\ u \in known
     /\ client[u] # NoConn
     /\ wire' = [wire EXCEPT ![client[u]] = Append(@, n)]
     /\ UNCHANGED table
  \/ /\ u \in known
     /\ client[u] = NoConn
     /\ messages' = [messages EXCEPT ![u] = Append(@, n)]
     /\ UNCHANGED <<known, client, key, wire>>

\* client.on('stanza') with a <message to="u">.
OnMessage(c, u) ==
  /\ Live(c)
  /\ Len(handled) < MaxMsgs
  /\ HandleMessage(Len(handled) + 1, u)
  /\ handled' = Append(handled, u)
  /\ UNCHANGED <<streams, roster>>

\* client.on('stanza') with <iq id="public-key" key="k">; the from attribute is
\* the stanza's own connection, cut at the '/'.
OnPublicKey(c, k) ==
  /\ Live(c)
  /\ IF jid[c] \notin known
       THEN SetEntry(jid[c], NoConn, k)
       ELSE /\ key' = [key EXCEPT ![jid[c]] = k]
            /\ UNCHANGED <<known, client, messages>>
  /\ UNCHANGED <<streams, wire, roster, handled>>

\* client.on('stanza') with <iq id="get-active-users">: one value per key of
\* the HashMap.
OnActiveUsers(c) ==
  /\ Live(c)
  /\ roster' = {[jid |-> u, key |-> key[u]] : u \in known}
  /\ UNCHANGED <<table, streams, wire, handled>>

\* client.on('disconnect'): a connection that has a jid frees its entry.
OnDisconnect(c) ==
  /\ phase[c] \notin {"unused", "closed"}
  /\ phase' = [phase EXCEPT ![c] = "closed"]
  /\ client' = IF jid[c] \in known THEN [client EXCEPT ![jid[c]] = NoConn]
               ELSE client
  /\ UNCHANGED <<known, messages, key, jid, wire, roster, handled>>

Next ==
  \E c \in Conns :
    \/ OnConnection(c)
    \/ \E u \in Users : OnAuthenticate(c, u)
    \/ OnOnline(c)
    \/ \E u \in Users : OnMessage(c, u)
    \/ \E k \in Keys : OnPublicKey(c, k)
    \/ OnActiveUsers(c)
    \/ OnDisconnect(c)

Spec == Init /\ [][Next]_vars

-----------------------------------------------------------------------------
\* A session is unique: the live connection of a user is the one its table
\* entry points at, and an entry never points at a connection that is closed or
\* belongs to somebody else (authenticate and disconnect handlers together).
SessionTable ==
  /\ \A c \in Conns : Live(c) => jid[c] \in known /\ client[jid[c]] = c
  /\ \A u \in Users : client[u] # NoConn =>
       Live(client[u]) /\ jid[client[u]] = u

\* Nothing waits in the mailbox of a user whose connection is online: what was
\* stored has been flushed and what arrives is relayed at once.
OnlineMailboxEmpty ==
  \A c \in Conns : phase[c] = "online" => messages[jid[c]] = <<>>

\* The places a message stanza can be at: the i-th stanza of a connection, or
\* the i-th of a mailbox.
Places(n) ==
  {p \in Conns \X (1 .. MaxMsgs) : p[2] \in DOMAIN wire[p[1]] /\ wire[p[1]][p[2]] = n}
  \cup
  {p \in Users \X (1 .. MaxMsgs) : p[2] \in DOMAIN messages[p[1]] /\ messages[p[1]][p[2]] = n}

RelayedAtMostOnce ==
  \A n \in 1 .. Len(handled) : \A p, q \in Places(n) : p = q

RoutedToAddressee ==
  /\ \A c \in Conns : \A i \in DOMAIN wire[c] : handled[wire[c][i]] = jid[c]
  /\ \A u \in Users : \A i \in DOMAIN messages[u] : handled[messages[u][i]] = u

MailboxInOrder ==
  \A u \in Users : \A i, j \in DOMAIN messages[u] :
    i < j => messages[u][i] < messages[u][j]

\* However often users reconnect, a message is at one place, on a connection or in
\* the mailbox of the user it is addressed to, mailboxes keep the order in which
\* the server handled their messages, and that of a user online is empty.
InItsPlace ==
  /\ RelayedAtMostOnce
  /\ RoutedToAddressee
  /\ MailboxInOrder
  /\ OnlineMailboxEmpty

\* A published key is never forgotten: neither a reconnection nor a message to
\* its owner resets the table entry.  Whoever asks for the active users finds every
\* connected user on the list, itself included, with its key or without one.
KeysServed ==
  [][/\ \A u \in Users : key[u] # NoKey => key'[u] # NoKey
     /\ roster' # roster =>
          \A c \in Conns : Live(c) => [jid |-> jid[c], key |-> key[jid[c]]] \in roster']_vars

\* The handlers together implement a store-and-forward relay: a message is
\* stored or relayed when it is handled, only a flush moves it, and only the
\* first contact with its addressee loses it.
StoredNow  == {n \in 1 .. Len(handled) : \E u \in Users : \E i \in DOMAIN messages[u] : messages[u][i] = n}
RelayedNow == {n \in 1 .. Len(handled) : \E c \in Conns : \E i \in DOMAIN wire[c] : wire[c][i] = n}

Promise == INSTANCE StoreAndForward WITH
  to <- handled, seen <- known, stored <- StoredNow, relayed <- RelayedNow

StoresAndForwards == Promise!Spec

-----------------------------------------------------------------------------
(* What the repository says of the relay and the handlers do not do.         *)

\* Components/messenger/test/main.cpp:118-124 sends two messages to a user that is
\* not connected and asserts that "Message 1" comes before "Message 2": what one
\* connection is sent comes in the order in which the server handled it.
RelayInOrder ==
  \A c \in Conns : \A i, j \in DOMAIN wire[c] : i < j => wire[c][i] < wire[c][j]
=============================================================================
