-------------------------- MODULE PikeServerProofs --------------------------
(***************************************************************************)
(* Proofs about the relay, for any number of users, connections, keys and  *)
(* messages.                                                               *)
(***************************************************************************)
EXTENDS PikeServer, TLAPS

\* A connection that has not passed authentication has no jid, so that its
\* disconnect event frees nobody's entry.
NoJidBeforeAccept ==
  \A c \in Conns : phase[c] \in {"unused", "open", "refused"} => jid[c] = NoUser

IInv == TypeOK /\ SessionTable /\ NoJidBeforeAccept

-----------------------------------------------------------------------------
\* The inductive invariant holds on an empty table.
LEMMA InitIInv == Init => IInv
<1> SUFFICES ASSUME Init PROVE IInv
    OBVIOUS
<1>1. TypeOK
  BY DEF Init, TypeOK, Phases
<1>2. SessionTable /\ NoJidBeforeAccept
  BY DEF Init, SessionTable, NoJidBeforeAccept, Live
<1> QED
  BY <1>1, <1>2 DEF IInv

\* The connection whose mailbox is flushed is the live one of its user.
LEMMA FlushedUser ==
  ASSUME IInv, NEW c \in Conns, Live(c)
  PROVE  jid[c] \in known /\ jid[c] \in Users /\ client[jid[c]] = c
BY DEF IInv, SessionTable, TypeOK

\* Every handler keeps the inductive invariant.
LEMMA NextIInv == IInv /\ [Next]_vars => IInv'
<1> SUFFICES ASSUME IInv, [Next]_vars PROVE IInv'
    OBVIOUS
<1> USE ServerAssumption DEF IInv, Live
<1>1. ASSUME NEW c \in Conns, OnConnection(c) PROVE IInv'
  <2>1. TypeOK'
    BY <1>1 DEF OnConnection, TypeOK, table, Phases
  <2>2. SessionTable'
    BY <1>1 DEF OnConnection, TypeOK, SessionTable, table
  <2>3. NoJidBeforeAccept'
    BY <1>1 DEF OnConnection, TypeOK, NoJidBeforeAccept, table
  <2> QED
    BY <2>1, <2>2, <2>3
<1>2. ASSUME NEW c \in Conns, NEW u \in Users, OnAuthenticate(c, u) PROVE IInv'
  <2>1. CASE /\ u \notin known
             /\ SetEntry(u, c, NoKey)
             /\ Accept(c, u)
    <3>1. TypeOK'
      BY <1>2, <2>1 DEF OnAuthenticate, SetEntry, Accept, TypeOK, Phases
    <3>2. client[u] = NoConn
      BY <2>1 DEF TypeOK, SessionTable
    <3>3. SessionTable'
      BY <1>2, <2>1, <3>2 DEF OnAuthenticate, SetEntry, Accept, TypeOK, SessionTable
    <3>4. NoJidBeforeAccept'
      BY <1>2, <2>1 DEF OnAuthenticate, Accept, TypeOK, NoJidBeforeAccept
    <3> QED
      BY <3>1, <3>3, <3>4
  <2>2. CASE /\ u \in known
             /\ client[u] = NoConn
             /\ client' = [client EXCEPT ![u] = c]
             /\ UNCHANGED <<known, messages, key>>
             /\ Accept(c, u)
    <3>1. TypeOK'
      BY <1>2, <2>2 DEF OnAuthenticate, Accept, TypeOK, Phases
    <3>2. SessionTable'
      BY <1>2, <2>2 DEF OnAuthenticate, Accept, TypeOK, SessionTable
    <3>3. NoJidBeforeAccept'
      BY <1>2, <2>2 DEF OnAuthenticate, Accept, TypeOK, NoJidBeforeAccept
    <3> QED
      BY <3>1, <3>2, <3>3
  <2>3. CASE /\ u \in known
             /\ client[u] # NoConn
             /\ phase' = [phase EXCEPT ![c] = "refused"]
             /\ UNCHANGED <<table, jid>>
    <3>1. TypeOK'
      BY <1>2, <2>3 DEF OnAuthenticate, TypeOK, table, Phases
    <3>2. SessionTable'
      BY <1>2, <2>3 DEF OnAuthenticate, TypeOK, SessionTable, table
    <3>3. NoJidBeforeAccept'
      BY <1>2, <2>3 DEF OnAuthenticate, TypeOK, NoJidBeforeAccept, table
    <3> QED
      BY <3>1, <3>2, <3>3
  <2> QED
    BY <1>2, <2>1, <2>2, <2>3 DEF OnAuthenticate
<1>3. ASSUME NEW c \in Conns, OnOnline(c) PROVE IInv'
  <2>1. jid[c] \in Users /\ client[jid[c]] = c /\ c # NoConn
    BY <1>3, FlushedUser DEF OnOnline
  <2>2. TypeOK'
    BY <1>3, <2>1 DEF OnOnline, TypeOK, Phases
  <2>3. SessionTable'
    BY <1>3 DEF OnOnline, TypeOK, SessionTable
  <2>4. NoJidBeforeAccept'
    BY <1>3 DEF OnOnline, TypeOK, NoJidBeforeAccept
  <2> QED
    BY <2>2, <2>3, <2>4
<1>4. ASSUME NEW c \in Conns, NEW u \in Users, OnMessage(c, u) PROVE IInv'
  <2>1. Len(handled) + 1 \in Nat /\ Append(handled, u) \in Seq(Users)
    BY DEF TypeOK
  <2>2. TypeOK'
    <3>1. CASE u \notin known /\ SetEntry(u, NoConn, NoKey) /\ UNCHANGED wire
      BY <1>4, <2>1, <3>1 DEF OnMessage, SetEntry, TypeOK, streams
    <3>2. CASE /\ u \in known
               /\ client[u] # NoConn
               /\ wire' = [wire EXCEPT ![client[u]] = Append(@, Len(handled) + 1)]
               /\ UNCHANGED table
      <4>1. client[u] \in Conns /\ wire[client[u]] \in Seq(Nat)
        BY <3>2 DEF TypeOK
      <4>2. Append(wire[client[u]], Len(handled) + 1) \in Seq(Nat)
        BY <2>1, <4>1
      <4> QED
        BY <1>4, <2>1, <3>2, <4>1, <4>2 DEF OnMessage, TypeOK, table, streams
    <3>3. CASE /\ u \in known
               /\ client[u] = NoConn
               /\ messages' = [messages EXCEPT ![u] = Append(@, Len(handled) + 1)]
               /\ UNCHANGED <<known, client, key, wire>>
      <4>1. Append(messages[u], Len(handled) + 1) \in Seq(Nat)
        BY <2>1 DEF TypeOK
      <4> QED
        BY <1>4, <2>1, <3>3, <4>1 DEF OnMessage, TypeOK, streams
    <3> QED
      BY <1>4, <3>1, <3>2, <3>3 DEF OnMessage, HandleMessage
  <2>3. SessionTable'
    BY <1>4 DEF OnMessage, HandleMessage, SetEntry, TypeOK, SessionTable, table, streams
  <2>4. NoJidBeforeAccept'
    BY <1>4 DEF OnMessage, NoJidBeforeAccept, streams
  <2> QED
    BY <2>2, <2>3, <2>4
<1>5. ASSUME NEW c \in Conns, NEW k \in Keys, OnPublicKey(c, k) PROVE IInv'
  <2>1. jid[c] \in known /\ jid[c] \in Users
    BY <1>5, FlushedUser DEF OnPublicKey
  <2>2. TypeOK'
    BY <1>5, <2>1 DEF OnPublicKey, TypeOK, streams, Phases
  <2>3. SessionTable' /\ NoJidBeforeAccept'
    BY <1>5, <2>1 DEF OnPublicKey, SessionTable, NoJidBeforeAccept, streams
  <2> QED
    BY <2>2, <2>3
<1>6. ASSUME NEW c \in Conns, OnActiveUsers(c) PROVE IInv'
  <2>1. TypeOK'
    BY <1>6 DEF OnActiveUsers, TypeOK, Entry, table, streams
  <2>2. SessionTable' /\ NoJidBeforeAccept'
    BY <1>6 DEF OnActiveUsers, SessionTable, NoJidBeforeAccept, table, streams
  <2> QED
    BY <2>1, <2>2
<1>7. ASSUME NEW c \in Conns, OnDisconnect(c) PROVE IInv'
  <2>1. TypeOK'
    BY <1>7 DEF OnDisconnect, TypeOK, Phases
  <2>2. SessionTable'
    <3>1. CASE jid[c] \in known
      <4>1. jid[c] # NoUser
        BY <3>1 DEF TypeOK
      <4>2. phase[c] \notin {"unused", "open", "refused", "closed"}
        BY <1>7, <4>1 DEF OnDisconnect, NoJidBeforeAccept
      <4>3. phase[c] \in Phases
        BY DEF TypeOK
      <4>4. Live(c)
        BY <4>2, <4>3 DEF Phases
      <4>5. client[jid[c]] = c
        BY <4>4 DEF SessionTable
      <4>6. \A d \in Conns : Live(d) /\ d # c => jid[d] # jid[c]
        BY <4>5 DEF SessionTable
      <4> QED
        BY <1>7, <3>1, <4>4, <4>5, <4>6 DEF OnDisconnect, TypeOK, SessionTable
    <3>2. CASE jid[c] \notin known
      <4>1. ~Live(c)
        BY <3>2 DEF SessionTable
      <4> QED
        BY <1>7, <3>2, <4>1 DEF OnDisconnect, TypeOK, SessionTable
    <3> QED
      BY <3>1, <3>2
  <2>3. NoJidBeforeAccept'
    BY <1>7 DEF OnDisconnect, TypeOK, NoJidBeforeAccept
  <2> QED
    BY <2>1, <2>2, <2>3
<1>8. CASE UNCHANGED vars
  BY <1>8 DEF TypeOK, SessionTable, NoJidBeforeAccept, vars
<1> QED
  BY <1>1, <1>2, <1>3, <1>4, <1>5, <1>6, <1>7, <1>8 DEF Next

\* The inductive invariant is an invariant of the relay.
THEOREM Inductive == Spec => []IInv
BY InitIInv, NextIInv, PTL DEF Spec

\* The table, the streams and the mailboxes keep their types.
THEOREM TypeCorrect == Spec => []TypeOK
<1>1. IInv => TypeOK
  BY DEF IInv
<1> QED
  BY <1>1, Inductive, PTL

\* One session per user: an accepted, open connection is the one its user's
\* table entry points at, and no entry points anywhere else, whatever logins,
\* refusals and disconnections there were.
THEOREM OneSessionPerUser == Spec => []SessionTable
<1>1. IInv => SessionTable
  BY DEF IInv
<1> QED
  BY <1>1, Inductive, PTL

-----------------------------------------------------------------------------
\* A user the table does not have has neither a key nor a stored message, so
\* that setting a fresh entry for it forgets nothing.
AbsentEntryBlank ==
  \A u \in Users \ known : key[u] = NoKey /\ messages[u] = <<>>

BlankInv == AbsentEntryBlank /\ OnlineMailboxEmpty

\* The live connection of a known user is where HandleMessage relays to, so a
\* stored message never reaches the mailbox of a user that is online.
LEMMA NextBlankInv == IInv /\ BlankInv /\ [Next]_vars => BlankInv'
<1> SUFFICES ASSUME IInv, BlankInv, [Next]_vars PROVE BlankInv'
    OBVIOUS
<1> USE ServerAssumption DEF BlankInv, IInv, AbsentEntryBlank, OnlineMailboxEmpty, TypeOK
<1>1. ASSUME NEW c \in Conns, OnConnection(c) PROVE BlankInv'
  BY <1>1 DEF OnConnection, table
<1>2. ASSUME NEW c \in Conns, NEW u \in Users, OnAuthenticate(c, u) PROVE BlankInv'
  <2>1. \A d \in Conns : phase'[d] = "online" => phase[d] = "online" /\ jid'[d] = jid[d]
    BY <1>2 DEF OnAuthenticate, Accept
  <2>2. \A d \in Conns : phase[d] = "online" => jid[d] \in Users
    BY DEF SessionTable, Live
  <2>3. \A v \in Users : v \notin known' => v \notin known /\ key'[v] = key[v]
    BY <1>2 DEF OnAuthenticate, SetEntry, table
  <2>4. \A v \in Users : messages'[v] \in {messages[v], <<>>}
    BY <1>2 DEF OnAuthenticate, SetEntry, table
  <2> QED
    BY <2>1, <2>2, <2>3, <2>4
<1>3. ASSUME NEW c \in Conns, OnOnline(c) PROVE BlankInv'
  <2>1. jid[c] \in known
    BY <1>3, FlushedUser DEF OnOnline, Live
  <2> QED
    BY <1>3, <2>1 DEF OnOnline
<1>4. ASSUME NEW c \in Conns, NEW u \in Users, OnMessage(c, u) PROVE BlankInv'
  <2>1. CASE u \in known /\ client[u] = NoConn
    <3>1. \A d \in Conns : phase[d] = "online" => jid[d] # u /\ jid[d] \in Users
      BY <2>1 DEF SessionTable, Live
    <3>2. \A v \in Users \ {u} : messages'[v] = messages[v]
      BY <1>4, <2>1 DEF OnMessage, HandleMessage
    <3>3. UNCHANGED <<known, key, phase, jid>>
      BY <1>4, <2>1 DEF OnMessage, HandleMessage, streams
    <3> QED
      BY <2>1, <3>1, <3>2, <3>3
  <2>2. CASE ~(u \in known /\ client[u] = NoConn)
    BY <1>4, <2>2 DEF OnMessage, HandleMessage, SetEntry, table, streams
  <2> QED
    BY <2>1, <2>2
<1>5. ASSUME NEW c \in Conns, NEW k \in Keys, OnPublicKey(c, k) PROVE BlankInv'
  <2>1. jid[c] \in known
    BY <1>5, FlushedUser DEF OnPublicKey
  <2> QED
    BY <1>5, <2>1 DEF OnPublicKey, streams
<1>6. ASSUME NEW c \in Conns, OnActiveUsers(c) PROVE BlankInv'
  BY <1>6 DEF OnActiveUsers, table, streams
<1>7. ASSUME NEW c \in Conns, OnDisconnect(c) PROVE BlankInv'
  BY <1>7 DEF OnDisconnect
<1>8. CASE UNCHANGED vars
  BY <1>8 DEF vars
<1> QED
  BY <1>1, <1>2, <1>3, <1>4, <1>5, <1>6, <1>7, <1>8 DEF Next

\* Both invariants together hold of every reachable state.
LEMMA BlankInvariant == Spec => [](IInv /\ BlankInv)
<1>1. Init => BlankInv
  BY DEF Init, BlankInv, AbsentEntryBlank, OnlineMailboxEmpty
<1> QED
  BY <1>1, InitIInv, NextIInv, NextBlankInv, PTL DEF Spec

\* Nothing is left in the mailbox of a user whose connection is online: the
\* flush empties it and no later message is stored while the session lasts.
THEOREM FlushedWhileOnline == Spec => []OnlineMailboxEmpty
<1>1. BlankInv => OnlineMailboxEmpty
  BY DEF BlankInv
<1> QED
  BY <1>1, BlankInvariant, PTL

\* No step takes a published key back.
LEMMA StepKeepsKeys ==
  IInv /\ BlankInv /\ [Next]_vars => [\A u \in Users : key[u] # NoKey => key'[u] # NoKey]_vars
<1> SUFFICES ASSUME IInv, BlankInv, Next, NEW u \in Users, key[u] # NoKey
             PROVE  key'[u] # NoKey
    OBVIOUS
<1> USE ServerAssumption DEF IInv, TypeOK
<1>1. u \in known
  BY DEF BlankInv, AbsentEntryBlank
<1>2. ASSUME NEW c \in Conns, NEW v \in Users, OnAuthenticate(c, v) PROVE key'[u] # NoKey
  BY <1>1, <1>2 DEF OnAuthenticate, SetEntry, table
<1>3. ASSUME NEW c \in Conns, NEW v \in Users, OnMessage(c, v) PROVE key'[u] # NoKey
  BY <1>1, <1>3 DEF OnMessage, HandleMessage, SetEntry, table
<1>4. ASSUME NEW c \in Conns, NEW k \in Keys, OnPublicKey(c, k) PROVE key'[u] # NoKey
  BY <1>1, <1>4 DEF OnPublicKey, SetEntry
<1>5. ASSUME NEW c \in Conns,
             OnConnection(c) \/ OnOnline(c) \/ OnActiveUsers(c) \/ OnDisconnect(c)
      PROVE  key'[u] # NoKey
  BY <1>5 DEF OnConnection, OnOnline, OnActiveUsers, OnDisconnect, table
<1> QED
  BY <1>2, <1>3, <1>4, <1>5 DEF Next

\* Only a request for the active users changes the list, and it lists the user of
\* every live connection, since SessionTable puts all of them into the table.
LEMMA StepListsConnected ==
  IInv /\ [Next]_vars =>
    [roster' # roster =>
       \A c \in Conns : Live(c) => [jid |-> jid[c], key |-> key[jid[c]]] \in roster']_vars
<1> SUFFICES ASSUME IInv, Next, roster' # roster, NEW c \in Conns, Live(c)
             PROVE  [jid |-> jid[c], key |-> key[jid[c]]] \in roster'
    OBVIOUS
<1>1. jid[c] \in known
  BY DEF IInv, SessionTable
<1>2. PICK d \in Conns : OnActiveUsers(d)
  BY DEF Next, OnConnection, OnAuthenticate, OnOnline, OnMessage, OnPublicKey, OnDisconnect
<1> QED
  BY <1>1, <1>2 DEF OnActiveUsers

\* A key once published stays published: logins, messages to its owner and
\* reconnections never set the entry afresh; and the list of the active users has
\* every connected user on it, whatever its key.
THEOREM KeysKept == Spec => KeysServed
<1>1. IInv /\ BlankInv /\ [Next]_vars =>
        [/\ \A u \in Users : key[u] # NoKey => key'[u] # NoKey
         /\ roster' # roster =>
              \A c \in Conns : Live(c) => [jid |-> jid[c], key |-> key[jid[c]]] \in roster']_vars
  BY StepKeepsKeys, StepListsConnected
<1> QED
  BY <1>1, BlankInvariant, PTL DEF Spec, KeysServed
-----------------------------------------------------------------------------
\* Every number on a connection or in a mailbox is that of a message handled.
NumbersHandled ==
  /\ \A c \in Conns : \A i \in DOMAIN wire[c] : wire[c][i] \in 1 .. Len(handled)
  /\ \A u \in Users : \A i \in DOMAIN messages[u] : messages[u][i] \in 1 .. Len(handled)

\* What was sent was sent once, on one connection.
SentOnce ==
  \A c, d \in Conns : \A i \in DOMAIN wire[c], j \in DOMAIN wire[d] :
    wire[c][i] = wire[d][j] => c = d /\ i = j

\* What is stored has not been sent.
StoredUnsent ==
  \A u \in Users, c \in Conns : \A i \in DOMAIN messages[u], j \in DOMAIN wire[c] :
    messages[u][i] # wire[c][j]

PlaceInv == NumbersHandled /\ SentOnce /\ StoredUnsent /\ RoutedToAddressee /\ MailboxInOrder

\* A step that sends and handles nothing keeps every message in its place, if it
\* empties mailboxes only and gives a jid to connections only that had none.
LEMMA NothingMoves ==
  ASSUME TypeOK, PlaceInv, UNCHANGED <<wire, handled>>,
         \A u \in Users : messages'[u] \in {messages[u], <<>>},
         \A c \in Conns : jid[c] \in Users => jid'[c] = jid[c]
  PROVE  PlaceInv'
<1> USE DEF PlaceInv
<1>1. NumbersHandled' /\ SentOnce' /\ StoredUnsent' /\ MailboxInOrder'
  BY DEF NumbersHandled, SentOnce, StoredUnsent, MailboxInOrder
<1>2. RoutedToAddressee'
  <2>1. ASSUME NEW c \in Conns, NEW i \in DOMAIN wire[c] PROVE handled[wire[c][i]] = jid'[c]
    <3>1. wire[c][i] \in 1 .. Len(handled) /\ handled[wire[c][i]] = jid[c]
      BY DEF NumbersHandled, RoutedToAddressee
    <3>2. handled[wire[c][i]] \in Users
      BY <3>1 DEF TypeOK
    <3> QED
      BY <3>1, <3>2
  <2> QED
    BY <2>1 DEF RoutedToAddressee
<1> QED
  BY <1>1, <1>2

\* The flush moves the mailbox of a user to the end of its connection.
LEMMA FlushMoves ==
  ASSUME TypeOK, PlaceInv, NEW c \in Conns, NEW u \in Users, jid[c] = u,
         wire' = [wire EXCEPT ![c] = @ \o messages[u]],
         messages' = [messages EXCEPT ![u] = <<>>],
         UNCHANGED <<jid, handled>>
  PROVE  PlaceInv'
<1> USE DEF PlaceInv
<1> DEFINE n == Len(wire[c])
<1>1. /\ n \in Nat /\ Len(messages[u]) \in Nat
      /\ DOMAIN wire[c] = 1 .. n /\ DOMAIN messages[u] = 1 .. Len(messages[u])
  BY DEF TypeOK
<1>2. /\ \A d \in Conns \ {c} : wire'[d] = wire[d]
      /\ wire'[c] = wire[c] \o messages[u]
      /\ \A v \in Users \ {u} : messages'[v] = messages[v]
      /\ messages'[u] = <<>>
  BY DEF TypeOK
<1>3. ASSUME NEW i \in DOMAIN wire'[c]
      PROVE  \/ i \in DOMAIN wire[c] /\ wire'[c][i] = wire[c][i]
             \/ /\ i \notin DOMAIN wire[c] /\ i - n \in DOMAIN messages[u] /\ i \in Nat
                /\ wire'[c][i] = messages[u][i - n]
  <2>1. wire[c] \in Seq(Nat) /\ messages[u] \in Seq(Nat)
    BY DEF TypeOK
  <2>2. Len(wire[c] \o messages[u]) = n + Len(messages[u]) /\ wire[c] \o messages[u] \in Seq(Nat)
    BY <2>1
  <2>3. i \in 1 .. n + Len(messages[u])
    <3> DEFINE both == wire[c] \o messages[u]
    <3>1. i \in DOMAIN both
      BY <1>2
    <3>2. both \in Seq(Nat) /\ Len(both) = n + Len(messages[u])
      BY <2>2
    <3> HIDE DEF both, n
    <3>3. DOMAIN both = 1 .. Len(both)
      BY <3>2
    <3> QED
      BY <3>1, <3>2, <3>3
  <2>4. wire'[c][i] = IF i <= n THEN wire[c][i] ELSE messages[u][i - n]
    BY <1>2, <2>1, <2>3
  <2> HIDE DEF n
  <2> QED
    BY <1>1, <2>3, <2>4
<1> HIDE DEF n
<1>4. NumbersHandled'
  <2>1. ASSUME NEW d \in Conns, NEW i \in DOMAIN wire'[d] PROVE wire'[d][i] \in 1 .. Len(handled)
    <3>1. CASE d = c
      BY <1>3, <3>1 DEF NumbersHandled
    <3>2. CASE d # c
      BY <1>2, <3>2 DEF NumbersHandled
    <3> QED
      BY <3>1, <3>2
  <2>2. ASSUME NEW v \in Users, NEW i \in DOMAIN messages'[v] PROVE messages'[v][i] \in 1 .. Len(handled)
    <3>1. v # u
      BY <1>2
    <3> QED
      BY <1>2, <3>1 DEF NumbersHandled
  <2> QED
    BY <2>1, <2>2 DEF NumbersHandled
<1>5. SentOnce'
  <2> SUFFICES ASSUME NEW d \in Conns, NEW e \in Conns, NEW i \in DOMAIN wire'[d],
                      NEW j \in DOMAIN wire'[e], wire'[d][i] = wire'[e][j]
               PROVE  d = e /\ i = j
      BY DEF SentOnce
  <2>1. CASE d # c /\ e # c
    BY <1>2, <2>1 DEF SentOnce
  <2>2. CASE d = c /\ e # c
    BY <1>2, <1>3, <2>2 DEF SentOnce, StoredUnsent
  <2>3. CASE d # c /\ e = c
    BY <1>2, <1>3, <2>3 DEF SentOnce, StoredUnsent
  <2>4. CASE d = c /\ e = c
    <3>1. CASE i \in DOMAIN wire[c] \/ j \in DOMAIN wire[c]
      BY <1>3, <2>4, <3>1 DEF SentOnce, StoredUnsent
    <3>2. CASE i \notin DOMAIN wire[c] /\ j \notin DOMAIN wire[c]
      <4>1. /\ i - n \in DOMAIN messages[u] /\ j - n \in DOMAIN messages[u] /\ i \in Nat /\ j \in Nat
            /\ messages[u][i - n] = messages[u][j - n]
        BY <1>3, <2>4, <3>2
      <4>2. messages[u][i - n] \in Nat /\ messages[u][j - n] \in Nat
        BY <4>1 DEF NumbersHandled
      <4>3. ~(i - n < j - n) /\ ~(j - n < i - n)
        BY <4>1, <4>2 DEF MailboxInOrder
      <4> QED
        BY <1>1, <2>4, <4>1, <4>3
    <3> QED
      BY <3>1, <3>2
  <2> QED
    BY <2>1, <2>2, <2>3, <2>4
<1>6. StoredUnsent'
  <2> SUFFICES ASSUME NEW v \in Users, NEW d \in Conns, NEW i \in DOMAIN messages'[v],
                      NEW j \in DOMAIN wire'[d]
               PROVE  messages'[v][i] # wire'[d][j]
      BY DEF StoredUnsent
  <2>1. v # u /\ i \in DOMAIN messages[v] /\ messages'[v][i] = messages[v][i]
    BY <1>2
  <2>2. CASE d # c \/ j \in DOMAIN wire[c]
    <3>1. j \in DOMAIN wire[d] /\ wire'[d][j] = wire[d][j]
      BY <1>2, <1>3, <2>2
    <3> QED
      BY <2>1, <3>1 DEF StoredUnsent
  <2>3. CASE d = c /\ j \notin DOMAIN wire[c]
    BY <1>3, <2>1, <2>3 DEF RoutedToAddressee
  <2> QED
    BY <2>2, <2>3
<1>7. RoutedToAddressee'
  <2>1. ASSUME NEW d \in Conns, NEW i \in DOMAIN wire'[d] PROVE handled[wire'[d][i]] = jid[d]
    <3>1. CASE d = c
      BY <1>3, <3>1 DEF RoutedToAddressee
    <3>2. CASE d # c
      BY <1>2, <3>2 DEF RoutedToAddressee
    <3> QED
      BY <3>1, <3>2
  <2>2. ASSUME NEW v \in Users, NEW i \in DOMAIN messages'[v] PROVE handled[messages'[v][i]] = v
    <3>1. v # u
      BY <1>2
    <3> QED
      BY <1>2, <3>1 DEF RoutedToAddressee
  <2> QED
    BY <2>1, <2>2 DEF RoutedToAddressee
<1>8. MailboxInOrder'
  BY <1>2 DEF MailboxInOrder
<1> QED
  BY <1>4, <1>5, <1>6, <1>7, <1>8

\* What an entry appended to a sequence changes.
LEMMA AppendAt ==
  ASSUME NEW s \in Seq(Nat), NEW n \in Nat, NEW i \in DOMAIN Append(s, n)
  PROVE  \/ i \in DOMAIN s /\ Append(s, n)[i] = s[i]
         \/ i = Len(s) + 1 /\ i \notin DOMAIN s /\ Append(s, n)[i] = n
OBVIOUS

\* The message handled gets a number of its own, and the others keep theirs.
LEMMA HandledGrows ==
  ASSUME TypeOK, NEW u \in Users, handled' = Append(handled, u)
  PROVE  /\ Len(handled) \in Nat /\ Len(handled') = Len(handled) + 1
         /\ \A n \in 1 .. Len(handled) : handled'[n] = handled[n]
         /\ handled'[Len(handled) + 1] = u
BY DEF TypeOK

\* A message to a user with a connection goes to its end.
LEMMA RelayMoves ==
  ASSUME TypeOK, PlaceInv, NEW c \in Conns, NEW u \in Users, jid[c] = u,
         wire' = [wire EXCEPT ![c] = Append(@, Len(handled) + 1)],
         handled' = Append(handled, u),
         UNCHANGED <<jid, messages>>
  PROVE  PlaceInv'
<1> USE DEF PlaceInv
<1> DEFINE n == Len(handled) + 1
<1>1. n \in Nat /\ Len(handled') = n /\ (\A m \in 1 .. n - 1 : handled'[m] = handled[m]) /\ handled'[n] = u
      /\ Len(handled) = n - 1
  BY HandledGrows
<1>2. /\ \A d \in Conns \ {c} : wire'[d] = wire[d]
      /\ wire'[c] = Append(wire[c], n)
      /\ wire[c] \in Seq(Nat)
  BY DEF TypeOK
<1> HIDE DEF n
<1>3. ASSUME NEW d \in Conns, NEW i \in DOMAIN wire'[d]
      PROVE  \/ i \in DOMAIN wire[d] /\ wire'[d][i] = wire[d][i] /\ wire[d][i] \in 1 .. n - 1
             \/ d = c /\ i = Len(wire[c]) + 1 /\ wire'[d][i] = n
  <2>1. CASE d # c
    BY <1>1, <1>2, <2>1 DEF NumbersHandled
  <2>2. CASE d = c
    BY <1>1, <1>2, <2>2, AppendAt DEF NumbersHandled
  <2> QED
    BY <2>1, <2>2
<1>4. \A v \in Users : \A i \in DOMAIN messages[v] : messages[v][i] \in 1 .. n - 1
  BY <1>1 DEF NumbersHandled
<1>5. NumbersHandled'
  BY <1>1, <1>3, <1>4 DEF NumbersHandled
<1>6. SentOnce'
  BY <1>1, <1>3 DEF SentOnce
<1>7. StoredUnsent'
  BY <1>1, <1>3, <1>4 DEF StoredUnsent
<1>8. RoutedToAddressee'
  BY <1>1, <1>3, <1>4 DEF RoutedToAddressee
<1>9. MailboxInOrder'
  BY DEF MailboxInOrder
<1> QED
  BY <1>5, <1>6, <1>7, <1>8, <1>9

\* A message to a user without a connection goes to the end of its mailbox.
LEMMA StoreMoves ==
  ASSUME TypeOK, PlaceInv, NEW u \in Users,
         messages' = [messages EXCEPT ![u] = Append(@, Len(handled) + 1)],
         handled' = Append(handled, u),
         UNCHANGED <<jid, wire>>
  PROVE  PlaceInv'
<1> USE DEF PlaceInv
<1> DEFINE n == Len(handled) + 1
<1>1. n \in Nat /\ Len(handled') = n /\ (\A m \in 1 .. n - 1 : handled'[m] = handled[m]) /\ handled'[n] = u
      /\ Len(handled) = n - 1
  BY HandledGrows
<1>2. /\ \A v \in Users \ {u} : messages'[v] = messages[v]
      /\ messages'[u] = Append(messages[u], n)
      /\ messages[u] \in Seq(Nat)
  BY DEF TypeOK
<1> HIDE DEF n
<1>3. ASSUME NEW v \in Users, NEW i \in DOMAIN messages'[v]
      PROVE  \/ i \in DOMAIN messages[v] /\ messages'[v][i] = messages[v][i] /\ messages[v][i] \in 1 .. n - 1
             \/ /\ v = u /\ i = Len(messages[u]) + 1 /\ messages'[v][i] = n
                /\ DOMAIN messages[u] = 1 .. i - 1 /\ i \in Nat
  <2>1. CASE v # u
    BY <1>1, <1>2, <2>1 DEF NumbersHandled
  <2>2. CASE v = u
    <3>1. CASE i \in DOMAIN messages[u] /\ messages'[u][i] = messages[u][i]
      BY <1>1, <2>2, <3>1 DEF NumbersHandled
    <3>2. CASE i = Len(messages[u]) + 1 /\ messages'[u][i] = n
      BY <1>2, <2>2, <3>2
    <3> QED
      BY <1>1, <1>2, <2>2, <3>1, <3>2, AppendAt
  <2> QED
    BY <2>1, <2>2
<1>4. \A d \in Conns : \A i \in DOMAIN wire[d] : wire[d][i] \in 1 .. n - 1
  BY <1>1 DEF NumbersHandled
<1>5. NumbersHandled'
  BY <1>1, <1>3, <1>4 DEF NumbersHandled
<1>6. SentOnce'
  BY DEF SentOnce
<1>7. StoredUnsent'
  BY <1>1, <1>3, <1>4 DEF StoredUnsent
<1>8. RoutedToAddressee'
  BY <1>1, <1>3, <1>4 DEF RoutedToAddressee
<1>9. MailboxInOrder'
  <2> SUFFICES ASSUME NEW v \in Users, NEW i \in DOMAIN messages'[v], NEW j \in DOMAIN messages'[v], i < j
               PROVE  messages'[v][i] < messages'[v][j]
      BY DEF MailboxInOrder
  <2>1. messages[v] \in Seq(Nat)
    BY DEF TypeOK
  <2> QED
    BY <1>1, <1>3, <2>1 DEF MailboxInOrder
<1> QED
  BY <1>5, <1>6, <1>7, <1>8, <1>9

\* A message to a user the server does not know is dropped, but numbered.
LEMMA DropMoves ==
  ASSUME TypeOK, PlaceInv, NEW u \in Users,
         \A v \in Users : messages'[v] \in {messages[v], <<>>},
         handled' = Append(handled, u),
         UNCHANGED <<jid, wire>>
  PROVE  PlaceInv'
<1> USE DEF PlaceInv
<1>1. /\ Len(handled) \in Nat /\ Len(handled') = Len(handled) + 1
      /\ \A n \in 1 .. Len(handled) : handled'[n] = handled[n]
  BY HandledGrows
<1>2. NumbersHandled'
  BY <1>1 DEF NumbersHandled
<1>3. RoutedToAddressee'
  BY <1>1 DEF RoutedToAddressee, NumbersHandled
<1>4. SentOnce' /\ StoredUnsent' /\ MailboxInOrder'
  BY DEF SentOnce, StoredUnsent, MailboxInOrder
<1> QED
  BY <1>2, <1>3, <1>4

\* Every handler keeps the messages in their places.
LEMMA NextPlaceInv == IInv /\ PlaceInv /\ [Next]_vars => PlaceInv'
<1> SUFFICES ASSUME IInv, PlaceInv, [Next]_vars PROVE PlaceInv'
    OBVIOUS
<1> USE ServerAssumption DEF IInv
<1>1. ASSUME NEW c \in Conns, NEW u \in Users, OnAuthenticate(c, u) PROVE PlaceInv'
  <2>1. jid[c] = NoUser
    BY <1>1 DEF OnAuthenticate, NoJidBeforeAccept
  <2>2. \A d \in Conns : jid[d] \in Users => jid'[d] = jid[d]
    BY <1>1, <2>1 DEF OnAuthenticate, Accept, TypeOK
  <2>3. \A v \in Users : messages'[v] \in {messages[v], <<>>}
    BY <1>1 DEF OnAuthenticate, SetEntry, table, TypeOK
  <2>4. UNCHANGED <<wire, handled>>
    BY <1>1 DEF OnAuthenticate
  <2> QED
    BY <2>2, <2>3, <2>4, NothingMoves
<1>2. ASSUME NEW c \in Conns, OnOnline(c) PROVE PlaceInv'
  <2>1. jid[c] \in Users /\ client[jid[c]] = c /\ c # NoConn
    BY <1>2, FlushedUser DEF OnOnline, Live
  <2>2. /\ wire' = [wire EXCEPT ![c] = @ \o messages[jid[c]]]
        /\ messages' = [messages EXCEPT ![jid[c]] = <<>>]
        /\ UNCHANGED <<jid, handled>>
    BY <1>2, <2>1 DEF OnOnline
  <2> QED
    BY <2>1, <2>2, FlushMoves
<1>3. ASSUME NEW c \in Conns, NEW u \in Users, OnMessage(c, u) PROVE PlaceInv'
  <2>1. handled' = Append(handled, u) /\ UNCHANGED jid
    BY <1>3 DEF OnMessage, streams
  <2>2. CASE u \notin known /\ SetEntry(u, NoConn, NoKey) /\ UNCHANGED wire
    <3>1. \A v \in Users : messages'[v] \in {messages[v], <<>>}
      BY <2>2 DEF SetEntry, TypeOK
    <3> QED
      BY <2>1, <2>2, <3>1, DropMoves
  <2>3. CASE /\ u \in known
             /\ client[u] # NoConn
             /\ wire' = [wire EXCEPT ![client[u]] = Append(@, Len(handled) + 1)]
             /\ UNCHANGED table
    <3>1. client[u] \in Conns /\ jid[client[u]] = u
      BY <2>3 DEF TypeOK, SessionTable
    <3>2. UNCHANGED messages
      BY <2>3 DEF table
    <3> QED
      BY <2>1, <2>3, <3>1, <3>2, RelayMoves
  <2>4. CASE /\ u \in known
             /\ client[u] = NoConn
             /\ messages' = [messages EXCEPT ![u] = Append(@, Len(handled) + 1)]
             /\ UNCHANGED <<known, client, key, wire>>
    BY <2>1, <2>4, StoreMoves
  <2> QED
    BY <1>3, <2>2, <2>3, <2>4 DEF OnMessage, HandleMessage
<1>4. ASSUME NEW c \in Conns, NEW k \in Keys, OnPublicKey(c, k) PROVE PlaceInv'
  <2>1. jid[c] \in known
    BY <1>4, FlushedUser DEF OnPublicKey
  <2>2. UNCHANGED <<wire, handled, messages, jid>>
    BY <1>4, <2>1 DEF OnPublicKey, streams
  <2> QED
    BY <2>2, NothingMoves
<1>5. ASSUME NEW c \in Conns, OnConnection(c) \/ OnActiveUsers(c) \/ OnDisconnect(c) PROVE PlaceInv'
  <2>1. UNCHANGED <<wire, handled, messages, jid>>
    BY <1>5 DEF OnConnection, OnActiveUsers, OnDisconnect, table, streams
  <2> QED
    BY <2>1, NothingMoves
<1>6. CASE UNCHANGED vars
  BY <1>6, NothingMoves DEF vars
<1> QED
  BY <1>1, <1>2, <1>3, <1>4, <1>5, <1>6 DEF Next

\* A message is at one place, however many connections and mailboxes there are.
LEMMA OnePlace == TypeOK /\ PlaceInv => RelayedAtMostOnce
<1> SUFFICES ASSUME TypeOK, PlaceInv, NEW n \in 1 .. Len(handled), NEW p \in Places(n), NEW q \in Places(n)
             PROVE  p = q
    BY DEF RelayedAtMostOnce
<1> USE DEF PlaceInv
<1> DEFINE OnWire(x) == x \in Conns \X (1 .. MaxMsgs) /\ x[2] \in DOMAIN wire[x[1]] /\ wire[x[1]][x[2]] = n
           Stored(x) == x \in Users \X (1 .. MaxMsgs) /\ x[2] \in DOMAIN messages[x[1]] /\ messages[x[1]][x[2]] = n
<1>1. (OnWire(p) \/ Stored(p)) /\ (OnWire(q) \/ Stored(q))
  BY DEF Places
<1>2. CASE OnWire(p) /\ OnWire(q)
  <2>1. p[1] = q[1] /\ p[2] = q[2]
    BY <1>2 DEF SentOnce
  <2> QED
    BY <1>2, <2>1
<1>3. CASE Stored(p) /\ Stored(q)
  <2>1. p[1] = q[1]
    BY <1>3 DEF RoutedToAddressee
  <2>2. ~(p[2] < q[2]) /\ ~(q[2] < p[2])
    BY <1>3, <2>1 DEF MailboxInOrder
  <2>3. p[2] \in Nat /\ q[2] \in Nat
    BY <1>3
  <2>4. p[2] = q[2]
    BY <2>2, <2>3
  <2> QED
    BY <1>3, <2>1, <2>4
<1>4. ~(OnWire(p) /\ Stored(q)) /\ ~(Stored(p) /\ OnWire(q))
  BY DEF StoredUnsent
<1> QED
  BY <1>1, <1>2, <1>3, <1>4

\* However often users reconnect, are refused or are flushed, a message is at one
\* place at most, where its addressee finds it, and in the order of the server.
THEOREM MessagesInPlace == Spec => []InItsPlace
<1>1. Init => PlaceInv
  BY DEF Init, PlaceInv, NumbersHandled, SentOnce, StoredUnsent, RoutedToAddressee, MailboxInOrder
<1>2. IInv /\ BlankInv /\ PlaceInv => InItsPlace
  BY OnePlace DEF IInv, BlankInv, PlaceInv, InItsPlace
<1> QED
  BY <1>1, <1>2, NextPlaceInv, BlankInvariant, Inductive, PTL DEF Spec
-----------------------------------------------------------------------------
Has(s, n) == \E i \in DOMAIN s : s[i] = n

\* What is on two sequences joined, and on one with an entry appended.
LEMMA HasConcat ==
  ASSUME NEW s \in Seq(Nat), NEW t \in Seq(Nat), NEW n
  PROVE  Has(s \o t, n) <=> Has(s, n) \/ Has(t, n)
<1>1. /\ Len(s) \in Nat /\ Len(t) \in Nat /\ DOMAIN s = 1 .. Len(s) /\ DOMAIN t = 1 .. Len(t)
      /\ DOMAIN (s \o t) = 1 .. Len(s) + Len(t)
  <2> DEFINE both == s \o t
  <2>1. both \in Seq(Nat) /\ Len(both) = Len(s) + Len(t)
    OBVIOUS
  <2> HIDE DEF both
  <2>2. DOMAIN both = 1 .. Len(both)
    BY <2>1
  <2>3. DOMAIN both = 1 .. Len(s) + Len(t)
    BY <2>1, <2>2
  <2> QED
    BY <2>3 DEF both
<1>2. \A i \in 1 .. Len(s) + Len(t) : (s \o t)[i] = IF i <= Len(s) THEN s[i] ELSE t[i - Len(s)]
  OBVIOUS
<1>3. ASSUME Has(s \o t, n) PROVE Has(s, n) \/ Has(t, n)
  <2>1. PICK i \in 1 .. Len(s) + Len(t) : (s \o t)[i] = n
    BY <1>1, <1>3 DEF Has
  <2>2. CASE i <= Len(s)
    <3>1. i \in 1 .. Len(s) /\ s[i] = n
      BY <1>1, <1>2, <2>1, <2>2
    <3> QED
      BY <1>1, <3>1 DEF Has
  <2>3. CASE ~(i <= Len(s))
    <3>1. i - Len(s) \in 1 .. Len(t) /\ t[i - Len(s)] = n
      BY <1>1, <1>2, <2>1, <2>3
    <3> QED
      BY <1>1, <3>1 DEF Has
  <2> QED
    BY <2>2, <2>3
<1>4. ASSUME Has(s, n) PROVE Has(s \o t, n)
  <2>1. PICK i \in 1 .. Len(s) : s[i] = n
    BY <1>1, <1>4 DEF Has
  <2>2. i \in 1 .. Len(s) + Len(t) /\ (s \o t)[i] = n
    BY <1>1, <1>2, <2>1
  <2> QED
    BY <1>1, <2>2 DEF Has
<1>5. ASSUME Has(t, n) PROVE Has(s \o t, n)
  <2>1. PICK i \in 1 .. Len(t) : t[i] = n
    BY <1>1, <1>5 DEF Has
  <2>2. Len(s) + i \in 1 .. Len(s) + Len(t) /\ (s \o t)[Len(s) + i] = n
    <3>1. Len(s) + i \in 1 .. Len(s) + Len(t) /\ ~(Len(s) + i <= Len(s)) /\ (Len(s) + i) - Len(s) = i
      BY <1>1
    <3> QED
      BY <1>2, <2>1, <3>1
  <2> QED
    BY <1>1, <2>2 DEF Has
<1> QED
  BY <1>3, <1>4, <1>5

\* A sequence with one more number has that one too.
LEMMA HasAppend ==
  ASSUME NEW s \in Seq(Nat), NEW m \in Nat, NEW n
  PROVE  Has(Append(s, m), n) <=> Has(s, n) \/ n = m
<1>1. /\ DOMAIN s = 1 .. Len(s) /\ DOMAIN Append(s, m) = 1 .. Len(s) + 1 /\ Len(s) \in Nat
      /\ \A i \in 1 .. Len(s) : Append(s, m)[i] = s[i]
      /\ Append(s, m)[Len(s) + 1] = m
  OBVIOUS
<1>2. ASSUME Has(Append(s, m), n) PROVE Has(s, n) \/ n = m
  <2>1. PICK i \in 1 .. Len(s) + 1 : Append(s, m)[i] = n
    BY <1>1, <1>2 DEF Has
  <2>2. i \in 1 .. Len(s) \/ i = Len(s) + 1
    BY <1>1, <2>1
  <2> QED
    BY <1>1, <2>1, <2>2 DEF Has
<1>3. ASSUME Has(s, n) PROVE Has(Append(s, m), n)
  <2>1. PICK i \in 1 .. Len(s) : s[i] = n
    BY <1>1, <1>3 DEF Has
  <2>2. i \in 1 .. Len(s) + 1 /\ Append(s, m)[i] = n
    BY <1>1, <2>1
  <2> QED
    BY <1>1, <2>2 DEF Has
<1>4. ASSUME n = m PROVE Has(Append(s, m), n)
  <2>1. Len(s) + 1 \in 1 .. Len(s) + 1 /\ Append(s, m)[Len(s) + 1] = n
    BY <1>1, <1>4
  <2> QED
    BY <1>1, <2>1 DEF Has
<1> QED
  BY <1>2, <1>3, <1>4

\* The messages stored and relayed, by what mailboxes and connections have.
LEMMA StoredRelayed ==
  /\ StoredNow = {n \in 1 .. Len(handled) : \E u \in Users : Has(messages[u], n)}
  /\ RelayedNow = {n \in 1 .. Len(handled) : \E c \in Conns : Has(wire[c], n)}
  /\ StoredNow' = {n \in 1 .. Len(handled') : \E u \in Users : Has(messages'[u], n)}
  /\ RelayedNow' = {n \in 1 .. Len(handled') : \E c \in Conns : Has(wire'[c], n)}
BY DEF StoredNow, RelayedNow, Has

\* A handler that neither handles nor moves a message is a stutter of the promise.
LEMMA SameMail ==
  ASSUME UNCHANGED <<messages, wire, handled>>
  PROVE  UNCHANGED <<handled, StoredNow, RelayedNow>>
BY DEF StoredNow, RelayedNow

\* The flush of a mailbox forwards what is stored for its user, and nothing else.
LEMMA FlushForwards ==
  ASSUME TypeOK, PlaceInv, NEW c \in Conns, NEW u \in Users,
         wire' = [wire EXCEPT ![c] = @ \o messages[u]],
         messages' = [messages EXCEPT ![u] = <<>>],
         UNCHANGED <<known, handled>>
  PROVE  Promise!Forward(u)
<1> DEFINE S == {n \in StoredNow : handled[n] = u}
<1>1. /\ \A d \in Conns \ {c} : wire'[d] = wire[d]
      /\ wire'[c] = wire[c] \o messages[u]
      /\ \A v \in Users \ {u} : messages'[v] = messages[v]
      /\ messages'[u] = <<>>
      /\ wire[c] \in Seq(Nat) /\ messages[u] \in Seq(Nat)
  BY DEF TypeOK
<1>2. \A n : \A v \in Users : Has(messages[v], n) => n \in 1 .. Len(handled) /\ handled[n] = v
  BY DEF PlaceInv, NumbersHandled, RoutedToAddressee, Has
<1>3. \A n : Has(messages[u], n) <=> n \in S
  <2>1. \A n : Has(messages[u], n) => n \in S
    BY <1>2, StoredRelayed
  <2>2. \A n \in S : Has(messages[u], n)
    BY <1>2, StoredRelayed
  <2> QED
    BY <2>1, <2>2
<1>4. StoredNow' = StoredNow \ S
  <2>1. \A n : ~Has(messages'[u], n)
    BY <1>1 DEF Has
  <2>2. \A n : n \in StoredNow' => n \in StoredNow \ S
    <3> SUFFICES ASSUME NEW n \in StoredNow' PROVE n \in StoredNow \ S
        OBVIOUS
    <3>1. PICK v \in Users : n \in 1 .. Len(handled) /\ Has(messages'[v], n)
      BY StoredRelayed
    <3>2. v # u /\ Has(messages[v], n)
      BY <1>1, <2>1, <3>1
    <3> QED
      BY <1>2, <3>1, <3>2, StoredRelayed
  <2>3. \A n : n \in StoredNow \ S => n \in StoredNow'
    <3> SUFFICES ASSUME NEW n \in StoredNow \ S PROVE n \in StoredNow'
        OBVIOUS
    <3>1. PICK v \in Users : n \in 1 .. Len(handled) /\ Has(messages[v], n)
      BY StoredRelayed
    <3>2. v # u /\ Has(messages'[v], n)
      BY <1>1, <1>3, <3>1
    <3> QED
      BY <3>1, <3>2, StoredRelayed
  <2> QED
    BY <2>2, <2>3
<1>5. RelayedNow' = RelayedNow \cup S
  <2>1. \A n : Has(wire'[c], n) <=> Has(wire[c], n) \/ n \in S
    <3>1. \A n : Has(wire[c] \o messages[u], n) <=> Has(wire[c], n) \/ Has(messages[u], n)
      BY <1>1, HasConcat
    <3> QED
      BY <1>1, <1>3, <3>1
  <2>2. \A n \in S : n \in 1 .. Len(handled)
    BY <1>2, <1>3
  <2>3. \A n : n \in RelayedNow' => n \in RelayedNow \cup S
    <3> SUFFICES ASSUME NEW n \in RelayedNow' PROVE n \in RelayedNow \cup S
        OBVIOUS
    <3>1. PICK d \in Conns : n \in 1 .. Len(handled) /\ Has(wire'[d], n)
      BY StoredRelayed
    <3>2. Has(wire[d], n) \/ n \in S
      BY <1>1, <2>1, <3>1
    <3> QED
      BY <3>1, <3>2, StoredRelayed
  <2>4. \A n : n \in RelayedNow \cup S => n \in RelayedNow'
    <3> SUFFICES ASSUME NEW n \in RelayedNow \cup S PROVE n \in RelayedNow'
        OBVIOUS
    <3>1. CASE n \in S
      BY <2>1, <2>2, <3>1, StoredRelayed
    <3>2. CASE n \in RelayedNow
      <4>1. PICK d \in Conns : n \in 1 .. Len(handled) /\ Has(wire[d], n)
        BY <3>2, StoredRelayed
      <4>2. Has(wire'[d], n)
        BY <1>1, <2>1, <4>1
      <4> QED
        BY <4>1, <4>2, StoredRelayed
    <3> QED
      BY <3>1, <3>2
  <2> QED
    BY <2>3, <2>4
<1> QED
  BY <1>4, <1>5 DEF Promise!Forward

\* The message handled is relayed, stored or lost, and the others stay where they are.
LEMMA MessageSubmits ==
  ASSUME IInv, BlankInv, PlaceInv, NEW c \in Conns, NEW u \in Users, OnMessage(c, u)
  PROVE  Promise!Submit(u)
<1> USE ServerAssumption DEF IInv
<1> DEFINE n == Len(handled) + 1
<1>1. n \in Nat /\ Len(handled) = n - 1 /\ n <= MaxMsgs /\ handled' = Append(handled, u) /\ Len(handled') = n
  BY HandledGrows DEF OnMessage, TypeOK
<1>2. /\ \A d \in Conns : \A m : Has(wire[d], m) => m \in 1 .. n - 1
      /\ \A v \in Users : \A m : Has(messages[v], m) => m \in 1 .. n - 1
  BY <1>1 DEF PlaceInv, NumbersHandled, Has
<1>3. /\ StoredNow' = {m \in 1 .. n : \E v \in Users : Has(messages'[v], m)}
      /\ RelayedNow' = {m \in 1 .. n : \E d \in Conns : Has(wire'[d], m)}
  BY <1>1, StoredRelayed
<1>4. /\ StoredNow = {m \in 1 .. n : \E v \in Users : Has(messages[v], m)}
      /\ RelayedNow = {m \in 1 .. n : \E d \in Conns : Has(wire[d], m)}
  BY <1>1, <1>2, StoredRelayed
<1> HIDE DEF n
<1>5. CASE u \notin known /\ SetEntry(u, NoConn, NoKey) /\ UNCHANGED wire
  <2>1. messages' = messages /\ known' = known \cup {u}
    BY <1>5 DEF SetEntry, TypeOK, BlankInv, AbsentEntryBlank
  <2>2. UNCHANGED <<StoredNow, RelayedNow>>
    BY <1>3, <1>4, <1>5, <2>1
  <2> QED
    BY <1>1, <1>5, <2>1, <2>2 DEF Promise!Submit, n
<1>6. CASE /\ u \in known
           /\ client[u] # NoConn
           /\ wire' = [wire EXCEPT ![client[u]] = Append(@, n)]
           /\ UNCHANGED table
  <2> DEFINE d == client[u]
  <2>1. d \in Conns /\ known' = known /\ messages' = messages
    BY <1>6 DEF table, TypeOK
  <2>2. wire'[d] = Append(wire[d], n) /\ wire[d] \in Seq(Nat) /\ \A e \in Conns \ {d} : wire'[e] = wire[e]
    BY <1>6, <2>1 DEF TypeOK
  <2> HIDE DEF d
  <2>3. \A m : Has(wire'[d], m) <=> Has(wire[d], m) \/ m = n
    BY <1>1, <2>2, HasAppend
  <2>4. StoredNow' = StoredNow
    BY <1>3, <1>4, <2>1
  <2>5. RelayedNow' = RelayedNow \cup {n}
    <3>1. \A m \in 1 .. n : (\E e \in Conns : Has(wire'[e], m)) <=> (\E e \in Conns : Has(wire[e], m)) \/ m = n
      BY <2>1, <2>2, <2>3
    <3>2. n \in 1 .. n
      BY <1>1
    <3> QED
      BY <1>3, <1>4, <3>1, <3>2
  <2>6. known' = known \cup {u}
    BY <1>6, <2>1
  <2> QED
    BY <1>1, <1>6, <2>4, <2>5, <2>6 DEF Promise!Submit, n
<1>7. CASE /\ u \in known
           /\ client[u] = NoConn
           /\ messages' = [messages EXCEPT ![u] = Append(@, n)]
           /\ UNCHANGED <<known, client, key, wire>>
  <2>1. /\ messages'[u] = Append(messages[u], n) /\ messages[u] \in Seq(Nat)
        /\ \A v \in Users \ {u} : messages'[v] = messages[v]
    BY <1>7 DEF TypeOK
  <2>2. \A m : Has(messages'[u], m) <=> Has(messages[u], m) \/ m = n
    BY <1>1, <2>1, HasAppend
  <2>3. StoredNow' = StoredNow \cup {n}
    <3>1. \A m \in 1 .. n : (\E v \in Users : Has(messages'[v], m)) <=> (\E v \in Users : Has(messages[v], m)) \/ m = n
      BY <2>1, <2>2
    <3>2. n \in 1 .. n
      BY <1>1
    <3> QED
      BY <1>3, <1>4, <3>1, <3>2
  <2>4. RelayedNow' = RelayedNow
    BY <1>3, <1>4, <1>7
  <2>5. known' = known \cup {u}
    BY <1>7
  <2> QED
    BY <1>1, <1>7, <2>3, <2>4, <2>5 DEF Promise!Submit, n
<1> QED
  BY <1>5, <1>6, <1>7 DEF OnMessage, HandleMessage, n

\* Every handler is a step of the promise or none.
LEMMA StepKeepsPromise ==
  IInv /\ BlankInv /\ PlaceInv /\ [Next]_vars =>
    [Promise!Next]_<<handled, known, StoredNow, RelayedNow>>
<1> SUFFICES ASSUME IInv, BlankInv, PlaceInv, [Next]_vars
             PROVE  Promise!Next \/ UNCHANGED <<handled, known, StoredNow, RelayedNow>>
    OBVIOUS
<1> USE ServerAssumption DEF IInv
<1>1. ASSUME NEW c \in Conns, NEW u \in Users, OnAuthenticate(c, u)
      PROVE  Promise!Next \/ UNCHANGED <<handled, known, StoredNow, RelayedNow>>
  <2>1. messages' = messages
    BY <1>1 DEF OnAuthenticate, SetEntry, table, TypeOK, BlankInv, AbsentEntryBlank
  <2>2. UNCHANGED <<handled, StoredNow, RelayedNow>>
    BY <1>1, <2>1, SameMail DEF OnAuthenticate
  <2>3. known' = known \cup {u} \/ known' = known
    BY <1>1 DEF OnAuthenticate, SetEntry, table
  <2> QED
    BY <2>2, <2>3 DEF Promise!Next, Promise!Meet
<1>2. ASSUME NEW c \in Conns, OnOnline(c) PROVE Promise!Next
  <2>1. jid[c] \in Users /\ client[jid[c]] = c /\ c # NoConn
    BY <1>2, FlushedUser DEF OnOnline, Live
  <2>2. /\ wire' = [wire EXCEPT ![c] = @ \o messages[jid[c]]]
        /\ messages' = [messages EXCEPT ![jid[c]] = <<>>]
        /\ UNCHANGED <<known, handled>>
    BY <1>2, <2>1 DEF OnOnline
  <2> QED
    BY <2>1, <2>2, FlushForwards DEF Promise!Next
<1>3. ASSUME NEW c \in Conns, NEW u \in Users, OnMessage(c, u) PROVE Promise!Next
  BY <1>3, MessageSubmits DEF Promise!Next
<1>4. ASSUME NEW c \in Conns, NEW k \in Keys, OnPublicKey(c, k)
      PROVE  UNCHANGED <<handled, known, StoredNow, RelayedNow>>
  <2>1. jid[c] \in known
    BY <1>4, FlushedUser DEF OnPublicKey
  <2>2. UNCHANGED <<known, messages, wire, handled>>
    BY <1>4, <2>1 DEF OnPublicKey
  <2> QED
    BY <2>2, SameMail
<1>5. ASSUME NEW c \in Conns, OnConnection(c) \/ OnActiveUsers(c) \/ OnDisconnect(c)
      PROVE  UNCHANGED <<handled, known, StoredNow, RelayedNow>>
  <2>1. UNCHANGED <<known, messages, wire, handled>>
    BY <1>5 DEF OnConnection, OnActiveUsers, OnDisconnect, table
  <2> QED
    BY <2>1, SameMail
<1>6. CASE UNCHANGED vars
  BY <1>6, SameMail DEF vars
<1> QED
  BY <1>1, <1>2, <1>3, <1>4, <1>5, <1>6 DEF Next

\* The handlers together are a relay that stores and forwards: only a first contact
\* loses a message, and only a flush moves one, with all that its user has stored.
THEOREM Refinement == Spec => StoresAndForwards
<1>1. Init => PlaceInv
  BY DEF Init, PlaceInv, NumbersHandled, SentOnce, StoredUnsent, RoutedToAddressee, MailboxInOrder
<1>2. Init => Promise!Init
  <2> SUFFICES ASSUME Init PROVE Promise!Init
      OBVIOUS
  <2>1. StoredNow = {} /\ RelayedNow = {}
    BY DEF Init, StoredNow, RelayedNow
  <2> QED
    BY <2>1 DEF Init, Promise!Init
<1> QED
  BY <1>1, <1>2, NextPlaceInv, StepKeepsPromise, BlankInvariant, PTL DEF Spec, StoresAndForwards, Promise!Spec
=============================================================================
