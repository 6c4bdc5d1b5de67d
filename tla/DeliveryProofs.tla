--------------------------- MODULE DeliveryProofs ---------------------------
(***************************************************************************)
(* Messages end to end.  In the network the relay does what it may do       *)
(* alone, so its invariants carry over.                                    *)
(*                                                                         *)
(* SidesAgree ties the client's side of a connection to the relay's: a      *)
(* connected client is reachable, and a login is refused only because of    *)
(* an earlier connection of its user.  OnceInv, by which no message is on   *)
(* its way or handled twice, gives the promise of Mail.  And what is cared  *)
(* for stays so, step by step, so that every loss is one of those listed.   *)
(***************************************************************************)
EXTENDS Delivery, PikeServerProofs, SequenceTheorems, FiniteSetTheorems

\* A connection is the relay's to know once it was opened, and its user's; while the
\* link is up a client that was let in is in; and a user has one connection in use.
SidesAgree ==
  /\ \A c \in Conns : phase[c] # "unused" => session[c] # "none"
  /\ \A c \in Conns : session[c] # "none" => link[c] # "none"
  /\ \A c \in Conns : Live(c) => jid[c] = Owner[c]
  /\ \A c \in Conns : session[c] \in {"binding", "connected"} /\ link[c] = "up" => Live(c)
  /\ \A c, d \in Conns : Using(c) /\ Using(d) /\ Owner[c] = Owner[d] => c = d

SidesTyped ==
  /\ session \in [Conns -> {"none", "opening", "binding", "connected", "ended"}]
  /\ link \in [Conns -> {"none", "up", "cut"}]

DInv == IInv /\ SidesTyped /\ SidesAgree

-----------------------------------------------------------------------------
\* Whatever clients and network do, the relay does a step of its own or none.
LEMMA RelayStep == [DeliveryNext]_all => [Next]_vars
<1> SUFFICES ASSUME DeliveryNext PROVE Next \/ UNCHANGED vars
  BY DEF all, server, vars
<1> USE DeliveryAssumption
<1>1. ASSUME NEW c \in Conns, Succeed(c) \/ Established(c) \/ Read(c) \/ ReadSession(c)
      PROVE  UNCHANGED vars
  BY <1>1 DEF Succeed, Established, Read, ReadSession, server, vars
<1>2. ASSUME NEW c \in Conns, NEW u \in Users, SendMessage(c, u) PROVE UNCHANGED vars
  BY <1>2 DEF SendMessage, server, vars
<1>3. ASSUME NEW c \in Conns, Refused(c) \/ Disconnect(c) \/ Cut(c) \/ ClientNotices(c)
      PROVE  UNCHANGED vars
  BY <1>3 DEF Refused, Disconnect, Cut, ClientNotices, server, vars
<1>4. ASSUME NEW c \in Conns, Login(c) PROVE Next
  BY <1>4 DEF Login, Next
<1>5. ASSUME NEW c \in Conns, ReadAuth(c) PROVE Next
  BY <1>5 DEF ReadAuth, Next
<1>6. ASSUME NEW c \in Conns, Online(c) PROVE Next
  BY <1>6 DEF Online, Next
<1>7. ASSUME NEW c \in Conns, NEW u \in Users, ReadMessage(c, u) PROVE Next
  BY <1>7 DEF ReadMessage, Next
<1>8. ASSUME NEW c \in Conns, ReadClose(c) \/ ServerNotices(c) PROVE Next
  BY <1>8 DEF ReadClose, ServerNotices, Next
<1>9. QED
  BY <1>1, <1>2, <1>3, <1>4, <1>5, <1>6, <1>7, <1>8 DEF DeliveryNext, Carry

\* The relay in the network is the relay of PikeServer: everything that is proved of it
\* alone, with clients that may do anything, holds in the network.
THEOREM RelayInNetwork == DeliverySpec => Spec
<1>1. DeliveryInit => Init
  BY DEF DeliveryInit
<1>2. QED
  BY <1>1, RelayStep, PTL DEF DeliverySpec, Spec

\* Nothing is opened at the start.
LEMMA InitDInv == DeliveryInit => DInv
<1> SUFFICES ASSUME DeliveryInit PROVE DInv
  OBVIOUS
<1>1. IInv
  BY InitIInv DEF DeliveryInit
<1>2. SidesTyped /\ SidesAgree
  BY DEF DeliveryInit, Init, SidesTyped, SidesAgree, Live, Using
<1>3. QED
  BY <1>1, <1>2 DEF DInv

\* Each step keeps both sides of the connections in agreement.
LEMMA NextDInv == DInv /\ [DeliveryNext]_all => DInv'
<1> SUFFICES ASSUME DInv, [DeliveryNext]_all PROVE DInv'
  OBVIOUS
<1> USE DeliveryAssumption
<1>0. IInv'
  BY RelayStep, NextIInv DEF DInv
<1> USE DEF DInv, IInv, TypeOK, SidesTyped, SidesAgree, Live, Using
<1>1. ASSUME NEW c \in Conns, Login(c) PROVE SidesTyped' /\ SidesAgree'
  BY <1>1 DEF Login, OnConnection, table
<1>2. ASSUME NEW c \in Conns, Succeed(c) \/ Established(c) PROVE SidesTyped' /\ SidesAgree'
  <2>1. UNCHANGED <<phase, jid, link>>
    BY <1>2 DEF Succeed, Established, server, network
  <2>2. PICK s \in {"binding", "connected"} : session' = [session EXCEPT ![c] = s]
    BY <1>2 DEF Succeed, Established
  <2>3. link[c] = "up" /\ Live(c) /\ Using(c)
    BY <1>2 DEF Succeed, Established
  <2>4. QED
    BY <2>1, <2>2, <2>3
<1>3. ASSUME NEW c \in Conns, Read(c) \/ ReadSession(c) PROVE SidesTyped' /\ SidesAgree'
  BY <1>3 DEF Read, ReadSession, server
<1>4. ASSUME NEW c \in Conns, NEW u \in Users, SendMessage(c, u) PROVE SidesTyped' /\ SidesAgree'
  BY <1>4 DEF SendMessage, server
<1>5. ASSUME NEW c \in Conns, Refused(c) PROVE SidesTyped' /\ SidesAgree'
  <2>1. UNCHANGED <<phase, jid, link>> /\ session[c] = "opening" /\ link[c] = "up"
    BY <1>5 DEF Refused, server
  <2>2. session' = session \/ session' = [session EXCEPT ![c] = "ended"]
    BY <1>5 DEF Refused
  <2>3. CASE session' = session
    BY <2>1, <2>3
  <2>4. CASE session' = [session EXCEPT ![c] = "ended"]
    BY <2>1, <2>4
  <2>5. QED
    BY <2>2, <2>3, <2>4
<1>6. ASSUME NEW c \in Conns, Disconnect(c) PROVE SidesTyped' /\ SidesAgree'
  <2>1. UNCHANGED <<phase, jid, link>> /\ Using(c) /\ session' = [session EXCEPT ![c] = "ended"]
    BY <1>6 DEF Disconnect, server
  <2>2. QED
    BY <2>1
<1>7. ASSUME NEW c \in Conns, Cut(c) PROVE SidesTyped' /\ SidesAgree'
  BY <1>7 DEF Cut, server
<1>8. ASSUME NEW c \in Conns, ClientNotices(c) PROVE SidesTyped' /\ SidesAgree'
  BY <1>8 DEF ClientNotices, server, network
<1>9. ASSUME NEW c \in Conns, ServerNotices(c) PROVE SidesTyped' /\ SidesAgree'
  BY <1>9 DEF ServerNotices, OnDisconnect, network
<1>10. ASSUME NEW c \in Conns, ReadClose(c) PROVE SidesTyped' /\ SidesAgree'
  BY <1>10 DEF ReadClose, OnDisconnect
<1>11. ASSUME NEW c \in Conns, ReadAuth(c) PROVE SidesTyped' /\ SidesAgree'
  <2>1. UNCHANGED <<session, link>> /\ phase[c] \in {"open", "refused"}
    BY <1>11 DEF ReadAuth, OnAuthenticate
  <2>2. \/ phase' = [phase EXCEPT ![c] = "authenticated"] /\ jid' = [jid EXCEPT ![c] = Owner[c]]
        \/ phase' = [phase EXCEPT ![c] = "refused"] /\ jid' = jid
    BY <1>11 DEF ReadAuth, OnAuthenticate, Accept
  <2>3. phase \in [Conns -> Phases] /\ jid \in [Conns -> Users \cup {NoUser}] /\ Owner[c] \in Users
    OBVIOUS
  <2>4. SidesTyped'
    BY <2>1
  <2>5. \A d \in Conns : Live(d)' => jid'[d] = Owner[d]
    BY <2>2, <2>3
  <2>6. \A d \in Conns : session[d] \in {"binding", "connected"} /\ link[d] = "up" => Live(d)'
    BY <2>1, <2>2, <2>3
  <2>7. \A d \in Conns : phase'[d] # "unused" => session[d] # "none"
    BY <2>1, <2>2, <2>3
  <2>8. QED
    BY <2>1, <2>4, <2>5, <2>6, <2>7
<1>12. ASSUME NEW c \in Conns, Online(c) PROVE SidesTyped' /\ SidesAgree'
  BY <1>12 DEF Online, OnOnline, network
<1>13. ASSUME NEW c \in Conns, NEW u \in Users, ReadMessage(c, u) PROVE SidesTyped' /\ SidesAgree'
  BY <1>13 DEF ReadMessage, OnMessage, streams
<1>14. ASSUME UNCHANGED all PROVE SidesTyped' /\ SidesAgree'
  <2>1. UNCHANGED <<phase, jid, session, link>>
    BY <1>14 DEF all, server, network
  <2>2. QED
    BY <2>1
<1>15. SidesTyped' /\ SidesAgree'
  BY <1>1, <1>2, <1>3, <1>4, <1>5, <1>6, <1>7, <1>8, <1>9, <1>10, <1>11, <1>12, <1>13, <1>14
  DEF DeliveryNext, Carry
<1>16. QED
  BY <1>0, <1>15

\* So it holds always.
LEMMA Agreement == DeliverySpec => []DInv
BY InitDInv, NextDInv, PTL DEF DeliverySpec

-----------------------------------------------------------------------------
\* A client that takes itself for connected is the one the relay sends to, for any
\* number of users, connections and messages.
THEOREM Reachable == DeliverySpec => []ConnectedIsReachable
<1>1. DInv => ConnectedIsReachable
  BY DEF DInv, IInv, SessionTable, SidesAgree, SidesTyped, ConnectedIsReachable, Broken
<1>2. QED
  BY <1>1, Agreement, PTL

\* The step that refuses a login finds an earlier connection of the same user.
LEMMA RefusalStep ==
  ASSUME DInv, DeliveryNext, NEW c \in Conns, Using(c), phase[c] # "refused", phase'[c] = "refused"
  PROVE  \E d \in Conns \ {c} :
           Owner[d] = Owner[c] /\ client[Owner[c]] = d /\ Broken(d) /\ phase[d] # "closed"
<1> USE DeliveryAssumption, ServerAssumption
<1> DEFINE u == Owner[c]
           d == client[u]
<1>1. u \in Users /\ phase \in [Conns -> Phases] /\ client \in [Users -> Conns \cup {NoConn}]
  BY DEF DInv, IInv, TypeOK
<1>2. PICK b \in Conns : ReadAuth(b)
  <2>1. ASSUME NEW b \in Conns, ~ReadAuth(b),
               Carry(b) \/ Login(b) \/ (\E v \in Users : SendMessage(b, v)) \/ Refused(b)
               \/ Disconnect(b) \/ Cut(b) \/ ClientNotices(b) \/ ServerNotices(b)
        PROVE  FALSE
    BY <1>1, <2>1 DEF Carry, Login, SendMessage, Refused, Disconnect, Cut, ClientNotices, ServerNotices,
       Succeed, Established, Read, ReadSession, Online, ReadMessage, ReadClose,
       OnConnection, OnDisconnect, OnOnline, OnMessage, server, streams
  <2>2. QED
    BY <2>1 DEF DeliveryNext, Carry
<1>3. b = c /\ phase[c] \in {"open", "refused"} /\ d # NoConn
  BY <1>1, <1>2 DEF ReadAuth, OnAuthenticate, Accept
<1>4. d \in Conns /\ Live(d) /\ jid[d] = u
  BY <1>1, <1>3 DEF DInv, IInv, SessionTable
<1>5. d # c /\ Owner[d] = u /\ phase[d] # "closed" /\ phase[d] # "unused"
  BY <1>3, <1>4 DEF Live, DInv, SidesAgree
<1>6. ~Using(d)
  BY <1>4, <1>5 DEF DInv, SidesAgree
<1>7. session[d] = "ended"
  BY <1>4, <1>5, <1>6 DEF DInv, SidesAgree, SidesTyped, Using
<1>8. QED
  BY <1>4, <1>5, <1>7 DEF Broken

\* A login that is not given up is refused only because the relay has not yet noticed
\* the end of an earlier connection of the same user.
THEOREM GhostsOnly == DeliverySpec => RefusedByGhostOnly
<1>1. DInv /\ [DeliveryNext]_all =>
        [\A c \in Conns : Using(c) /\ phase[c] # "refused" /\ phase'[c] = "refused" =>
           \E d \in Conns \ {c} :
             Owner[d] = Owner[c] /\ client[Owner[c]] = d /\ Broken(d) /\ phase[d] # "closed"]_all
  BY RefusalStep
<1>2. QED
  BY <1>1, Agreement, PTL DEF DeliverySpec, RefusedByGhostOnly

-----------------------------------------------------------------------------
\* What the relay writes on a connection comes after what it wrote before.
Longer(s, t) == Len(s) <= Len(t) /\ \A p \in 1 .. Len(s) : t[p] = s[p]

\* One stanza more.
LEMMA LongerAppend ==
  ASSUME NEW S, NEW s \in Seq(S), NEW x \in S
  PROVE  Longer(s, Append(s, x)) /\ Append(s, x) \in Seq(S) /\ Len(Append(s, x)) = Len(s) + 1
         /\ Append(s, x)[Len(s) + 1] = x
BY DEF Longer

\* Several more: the stored stanzas of a user that comes online.
LEMMA LongerConcat ==
  ASSUME NEW S, NEW s \in Seq(S), NEW t \in Seq(S)
  PROVE  Longer(s, s \o t)
<1>1. s \o t \in Seq(S) /\ Len(s \o t) = Len(s) + Len(t) /\ Len(s) \in Nat /\ Len(t) \in Nat
  OBVIOUS
<1>2. \A p \in 1 .. Len(s) : (s \o t)[p] = s[p]
  <2> TAKE p \in 1 .. Len(s)
  <2>1. p \in 1 .. Len(s) + Len(t) /\ p <= Len(s)
    BY <1>1
  <2>2. QED
    BY <2>1
<1>3. QED
  BY <1>1, <1>2 DEF Longer

\* The relay only adds to what it has written on a connection.
LEMMA WireGrows == IInv /\ [Next]_vars => \A c \in Conns : Longer(wire[c], wire'[c])
<1> SUFFICES ASSUME IInv, [Next]_vars PROVE \A c \in Conns : Longer(wire[c], wire'[c])
  OBVIOUS
<1> USE ServerAssumption
<1>1. wire \in [Conns -> Seq(Nat)] /\ client \in [Users -> Conns \cup {NoConn}]
      /\ messages \in [Users -> Seq(Nat)] /\ Len(handled) \in Nat
  BY DEF IInv, TypeOK
<1>2. \A c \in Conns : Longer(wire[c], wire[c])
  BY <1>1 DEF Longer
<1>3. ASSUME NEW c \in Conns, OnOnline(c) PROVE \A d \in Conns : Longer(wire[d], wire'[d])
  <2>1. jid[c] \in Users /\ client[jid[c]] = c /\ c # NoConn
    BY <1>3, FlushedUser DEF OnOnline, Live
  <2>2. wire' = [wire EXCEPT ![c] = @ \o messages[jid[c]]]
    BY <1>3, <2>1 DEF OnOnline
  <2>3. wire'[c] = wire[c] \o messages[jid[c]] /\ \A d \in Conns \ {c} : wire'[d] = wire[d]
    BY <1>1, <2>2
  <2>4. Longer(wire[c], wire'[c])
    BY <1>1, <2>1, <2>3, LongerConcat
  <2>5. QED
    BY <1>2, <2>3, <2>4
<1>4. ASSUME NEW c \in Conns, NEW u \in Users, OnMessage(c, u) PROVE \A d \in Conns : Longer(wire[d], wire'[d])
  <2>1. wire' = wire \/ (client[u] # NoConn /\ wire' = [wire EXCEPT ![client[u]] = Append(@, Len(handled) + 1)])
    BY <1>4 DEF OnMessage, HandleMessage, table
  <2>2. CASE client[u] # NoConn /\ wire' = [wire EXCEPT ![client[u]] = Append(@, Len(handled) + 1)]
    <3>1. PICK e \in Conns : client[u] = e
      BY <1>1, <2>2
    <3>2. wire'[e] = Append(wire[e], Len(handled) + 1) /\ \A d \in Conns \ {e} : wire'[d] = wire[d]
      BY <1>1, <2>2, <3>1
    <3>3. Longer(wire[e], wire'[e])
      BY <1>1, <3>2, LongerAppend
    <3>4. QED
      BY <1>2, <3>2, <3>3
  <2>3. QED
    BY <1>2, <2>1, <2>2
<1>5. ASSUME NEW c \in Conns, NEW u \in Users, OnAuthenticate(c, u) PROVE wire' = wire
  BY <1>5 DEF OnAuthenticate
<1>6. ASSUME NEW c \in Conns, NEW k \in Keys, OnPublicKey(c, k) PROVE wire' = wire
  BY <1>6 DEF OnPublicKey
<1>7. ASSUME NEW c \in Conns, OnConnection(c) \/ OnActiveUsers(c) \/ OnDisconnect(c) PROVE wire' = wire
  BY <1>7 DEF OnConnection, OnActiveUsers, OnDisconnect
<1>8. CASE UNCHANGED vars
  BY <1>2, <1>8 DEF vars
<1>9. QED
  BY <1>2, <1>3, <1>4, <1>5, <1>6, <1>7, <1>8 DEF Next

\* A sequence that repeats none of h numbers has at most h of them.
LEMMA NoRepetition ==
  ASSUME NEW w \in Seq(Nat), NEW h \in Nat,
         \A i \in DOMAIN w : w[i] \in 1 .. h,
         \A i, j \in DOMAIN w : w[i] = w[j] => i = j
  PROVE  Len(w) <= h
<1> DEFINE n == Len(w)
           f == [i \in 1 .. n |-> w[i]]
<1>1. n \in Nat /\ DOMAIN w = 1 .. n
  OBVIOUS
<1>2. f \in [1 .. n -> 1 .. h] /\ \A i, j \in 1 .. n : f[i] = f[j] => i = j
  BY <1>1
<1> HIDE DEF n, f
<1>3. /\ IsFiniteSet(1 .. n) /\ Cardinality(1 .. n) = IF 1 > n THEN 0 ELSE n - 1 + 1
      /\ IsFiniteSet(1 .. h) /\ Cardinality(1 .. h) = IF 1 > h THEN 0 ELSE h - 1 + 1
  BY <1>1, FS_Interval
<1>4. Cardinality(1 .. n) = n /\ Cardinality(1 .. h) = h
  BY <1>1, <1>3
<1>5. ~(h < n)
  <2> SUFFICES ASSUME h < n PROVE FALSE
    OBVIOUS
  <2>1. IsFiniteSet(1 .. n) /\ IsFiniteSet(1 .. h) /\ Cardinality(1 .. h) < Cardinality(1 .. n)
    BY <1>3, <1>4
  <2>2. f \in [1 .. n -> 1 .. h]
    BY <1>2
  <2>3. \E i, j \in 1 .. n : i # j /\ f[i] = f[j]
    BY <2>1, <2>2, FS_PigeonHole
  <2>4. QED
    BY <1>2, <2>3
<1>6. QED
  BY <1>1, <1>5 DEF n

\* A connection is sent each stanza once, so no more than were handled.
LEMMA WireBounded ==
  ASSUME IInv, PlaceInv, Len(handled) <= MaxMsgs, NEW c \in Conns
  PROVE  Len(wire[c]) \in Nat /\ Len(wire[c]) <= MaxMsgs
<1>1. wire[c] \in Seq(Nat) /\ Len(wire[c]) \in Nat /\ Len(handled) \in Nat /\ MaxMsgs \in Nat
  BY ServerAssumption DEF IInv, TypeOK
<1>2. \A i \in DOMAIN wire[c] : wire[c][i] \in 1 .. Len(handled)
  BY DEF PlaceInv, NumbersHandled
<1>3. \A i, j \in DOMAIN wire[c] : wire[c][i] = wire[c][j] => i = j
  BY DEF PlaceInv, SentOnce
<1>4. Len(wire[c]) <= Len(handled)
  BY <1>1, <1>2, <1>3, NoRepetition
<1>5. QED
  BY <1>1, <1>4

-----------------------------------------------------------------------------
Items == Control \cup Content

\* A queue of stanzas of which the first was read, or the last are given up.
Shifted(s, t) == \E k \in {0, 1} : \A i \in DOMAIN t : i + k \in DOMAIN s /\ t[i] = s[i + k]

\* Every message and every acknowledgement of the one is on the other.
Keeps(s, t) == \A i \in DOMAIN s : s[i] \in Content => \E j \in DOMAIN t : t[j] = s[i]

\* Nothing read, nothing lost.
LEMMA SameQueue == ASSUME NEW s \in Seq(Items) PROVE Shifted(s, s) /\ Keeps(s, s)
BY DEF Shifted, Keeps

\* The first is read; nothing else is lost.
LEMMA TailQueue ==
  ASSUME NEW s \in Seq(Items), s # <<>>
  PROVE  /\ Tail(s) \in Seq(Items) /\ Shifted(s, Tail(s))
         /\ Head(s) \notin Content => Keeps(s, Tail(s))
         /\ \A i \in DOMAIN s : i = 1 \/ (i - 1 \in DOMAIN Tail(s) /\ Tail(s)[i - 1] = s[i])
         /\ Head(s) = s[1] /\ 1 \in DOMAIN s /\ Head(s) \in Items
         /\ \A i \in DOMAIN Tail(s) : i + 1 \in DOMAIN s /\ Tail(s)[i] = s[i + 1]
<1>1. /\ Len(s) \in Nat /\ Len(s) > 0 /\ DOMAIN s = 1 .. Len(s) /\ Tail(s) \in Seq(Items) /\ Len(Tail(s)) = Len(s) - 1
      /\ DOMAIN Tail(s) = 1 .. Len(s) - 1 /\ Head(s) = s[1] /\ Head(s) \in Items
      /\ \A i \in 1 .. Len(s) - 1 : Tail(s)[i] = s[i + 1]
  <2>1. Len(s) \in Nat /\ Len(s) > 0 /\ DOMAIN s = 1 .. Len(s) /\ Tail(s) \in Seq(Items) /\ Len(Tail(s)) = Len(s) - 1
    OBVIOUS
  <2> DEFINE t == Tail(s)
  <2>2. t \in Seq(Items) /\ Len(t) = Len(s) - 1
    BY <2>1
  <2> HIDE DEF t
  <2>3. DOMAIN t = 1 .. Len(s) - 1
    BY <2>2
  <2>4. DOMAIN Tail(s) = 1 .. Len(s) - 1
    BY <2>3 DEF t
  <2>5. Head(s) = s[1] /\ Head(s) \in Items /\ \A i \in 1 .. Len(s) - 1 : Tail(s)[i] = s[i + 1]
    OBVIOUS
  <2>6. QED
    BY <2>1, <2>4, <2>5
<1>2. \A i \in DOMAIN Tail(s) : i + 1 \in DOMAIN s /\ Tail(s)[i] = s[i + 1]
  BY <1>1
<1>3. \A i \in DOMAIN s : i = 1 \/ (i - 1 \in DOMAIN Tail(s) /\ Tail(s)[i - 1] = s[i])
  <2> TAKE i \in DOMAIN s
  <2>1. i # 1 => i - 1 \in 1 .. Len(s) - 1 /\ (i - 1) + 1 = i
    BY <1>1
  <2>2. QED
    BY <1>1, <2>1
<1>4. Shifted(s, Tail(s))
  BY <1>2 DEF Shifted
<1>5. Head(s) \notin Content => Keeps(s, Tail(s))
  BY <1>1, <1>3 DEF Keeps
<1>6. QED
  BY <1>1, <1>2, <1>3, <1>4, <1>5

\* A connection that is freed leaves some of the last unwritten.
LEMMA PrefixQueue ==
  ASSUME NEW s \in Seq(Items), NEW k \in 0 .. Len(s)
  PROVE  SubSeq(s, 1, k) \in Seq(Items) /\ Shifted(s, SubSeq(s, 1, k))
<1> DEFINE t == SubSeq(s, 1, k)
<1>1. t \in Seq(Items) /\ Len(t) = k /\ \A i \in 1 .. k : t[i] = s[i]
  OBVIOUS
<1> HIDE DEF t
<1>2. DOMAIN t = 1 .. k /\ DOMAIN s = 1 .. Len(s) /\ Len(s) \in Nat /\ k \in Nat
  BY <1>1
<1>3. \A i \in DOMAIN t : i + 0 \in DOMAIN s /\ t[i] = s[i + 0]
  BY <1>1, <1>2
<1>4. QED
  BY <1>1, <1>3 DEF t, Shifted

\* What the client c writes loses nothing but its head and, with the connection, its end.
Narrowed(c) ==
  \E s \in Seq(Items) : /\ up' = [up EXCEPT ![c] = s]
                        /\ Shifted(up[c], s)
                        /\ Broken(c)' \/ Keeps(up[c], s)

\* A step that moves no message.
Quiet(c) ==
  \/ Login(c) \/ Succeed(c) \/ Refused(c) \/ Established(c) \/ Disconnect(c)
  \/ Cut(c) \/ ClientNotices(c) \/ ServerNotices(c)
  \/ ReadAuth(c) \/ ReadSession(c) \/ Online(c) \/ ReadClose(c)

\* Every step is one of these four.
LEMMA StepKinds ==
  ASSUME DeliveryNext
  PROVE  \E c \in Conns : \/ Quiet(c) \/ Read(c)
                          \/ \E u \in Users : SendMessage(c, u) \/ ReadMessage(c, u)
BY DEF DeliveryNext, Carry, Quiet

\* What such a step changes: a control stanza is written, or what is on its way shrinks.
LEMMA QuietStep ==
  ASSUME DInv, up \in [Conns -> Seq(Items)], NEW c \in Conns, Quiet(c)
  PROVE  /\ UNCHANGED <<got, content, sent, told, confirmed, handled>>
         /\ (\E x \in Control : up' = [up EXCEPT ![c] = Append(@, x)]) \/ Narrowed(c)
         /\ ready' = ready \/ ready' = [ready EXCEPT ![c] = Len(wire[c])]
<1>1. UNCHANGED <<got, content, sent, told, confirmed, handled>>
  <2>1. ASSUME Login(c) \/ Succeed(c) \/ Refused(c) \/ Established(c) \/ Disconnect(c) \/ Cut(c)
        PROVE  UNCHANGED <<got, content, sent, told, confirmed, handled>>
    BY <2>1 DEF Login, Succeed, Refused, Established, Disconnect, Cut, OnConnection, server, network, history
  <2>2. ASSUME ClientNotices(c) \/ ServerNotices(c) \/ ReadAuth(c) \/ ReadSession(c) \/ Online(c) \/ ReadClose(c)
        PROVE  UNCHANGED <<got, content, sent, told, confirmed, handled>>
    BY <2>2 DEF ClientNotices, ServerNotices, ReadAuth, ReadSession, Online, ReadClose,
       OnDisconnect, OnAuthenticate, OnOnline, server, network, history
  <2>3. QED
    BY <2>1, <2>2 DEF Quiet
<1>2. ready' = ready \/ ready' = [ready EXCEPT ![c] = Len(wire[c])]
  BY DEF Quiet, Login, Succeed, Refused, Established, Disconnect, Cut, ClientNotices, ServerNotices,
     ReadAuth, ReadSession, Online, ReadClose, network
<1>3. (\E x \in Control : up' = [up EXCEPT ![c] = Append(@, x)]) \/ Narrowed(c)
  <2>1. ASSUME NEW k \in {"auth", "session", "close"}, Enqueue(c, k, 0)
        PROVE  \E x \in Control : up' = [up EXCEPT ![c] = Append(@, x)]
    <3>1. [kind |-> k, msg |-> 0] \in Control
      BY DEF Control
    <3>2. QED
      BY <2>1, <3>1 DEF Enqueue
  <2>2. ASSUME NEW k \in {"auth", "session", "close"}, Item(c, k), Dequeue(c) PROVE Narrowed(c)
    <3>1. up[c] \in Seq(Items) /\ up[c] # <<>> /\ Head(up[c]).kind = k /\ up' = [up EXCEPT ![c] = Tail(up[c])]
      BY <2>2 DEF Item, Dequeue
    <3>2. Head(up[c]) \notin Content
      BY <3>1 DEF Content
    <3>3. Tail(up[c]) \in Seq(Items) /\ Shifted(up[c], Tail(up[c])) /\ Keeps(up[c], Tail(up[c]))
      BY <3>1, <3>2, TailQueue
    <3>4. QED
      BY <3>1, <3>3 DEF Narrowed
  <2>3. ASSUME up' = up PROVE Narrowed(c)
    <3>1. up[c] \in Seq(Items) /\ up' = [up EXCEPT ![c] = up[c]]
      BY <2>3
    <3>2. QED
      BY <3>1, SameQueue DEF Narrowed
  <2>4. ASSUME Disconnect(c), ~Enqueue(c, "close", 0) PROVE Narrowed(c)
    <3>1. PICK k \in 0 .. Len(up[c]) : up' = [up EXCEPT ![c] = SubSeq(up[c], 1, k)]
      BY <2>4 DEF Disconnect
    <3>2. Broken(c)'
      BY <2>4 DEF Disconnect, Broken, DInv, SidesTyped
    <3>3. QED
      BY <3>1, <3>2, PrefixQueue DEF Narrowed
  <2>5. ASSUME Cut(c) PROVE Narrowed(c)
    <3>1. up' = [up EXCEPT ![c] = <<>>] /\ Broken(c)'
      BY <2>5 DEF Cut, Broken, DInv, SidesTyped
    <3>2. <<>> \in Seq(Items) /\ Shifted(up[c], <<>>)
      BY DEF Shifted
    <3>3. QED
      BY <3>1, <3>2 DEF Narrowed
  <2>6. ASSUME Login(c) \/ Succeed(c) \/ Refused(c)
        PROVE  \E k \in {"auth", "session", "close"} : Enqueue(c, k, 0)
    BY <2>6 DEF Login, Succeed, Refused
  <2>7. ASSUME ReadAuth(c) \/ ReadSession(c) \/ ReadClose(c)
        PROVE  \E k \in {"auth", "session", "close"} : Item(c, k) /\ Dequeue(c)
    BY <2>7 DEF ReadAuth, ReadSession, ReadClose
  <2>8. ASSUME Established(c) \/ ClientNotices(c) \/ ServerNotices(c) \/ Online(c) PROVE up' = up
    BY <2>8 DEF Established, ClientNotices, ServerNotices, Online, network
  <2>9. QED
    BY <2>1, <2>2, <2>3, <2>4, <2>5, <2>6, <2>7, <2>8 DEF Quiet
<1>4. QED
  BY <1>1, <1>2, <1>3

-----------------------------------------------------------------------------
\* The relay's invariants in the network.
RInv == DInv /\ BlankInv /\ PlaceInv

\* The relay starts with an empty table and empty mailboxes.
LEMMA InitRInv == DeliveryInit => RInv
<1>1. Init => PlaceInv
  BY DEF Init, PlaceInv, NumbersHandled, SentOnce, StoredUnsent, RoutedToAddressee, MailboxInOrder
<1>2. Init => BlankInv
  BY DEF Init, BlankInv, AbsentEntryBlank, OnlineMailboxEmpty
<1>3. QED
  BY <1>1, <1>2, InitDInv DEF DeliveryInit, RInv

\* A step of the network is one of the relay's, or leaves it alone.
LEMMA NextRInv == RInv /\ [DeliveryNext]_all => RInv'
BY NextDInv, RelayStep, NextBlankInv, NextPlaceInv DEF RInv, DInv

\* Every stanza handled is on record, and the bounds are kept.
Counted == Len(handled) = Len(content) /\ Len(handled) <= MaxMsgs /\ Len(sent) <= MaxChats

\* Every message and acknowledgement is one of a message of SendMessage, and the relay
\* addressed it as its client did.
Named ==
  /\ \A c \in Conns : \A i \in DOMAIN up[c] : up[c][i] \in Content => up[c][i].msg \in DOMAIN sent
  /\ \A n \in DOMAIN content : content[n].msg \in DOMAIN sent /\ handled[n] = Addressee(content[n])

QInv == DeliveryTypeOK /\ Counted /\ Named

\* Nothing is on its way at the start.
LEMMA InitQInv == DeliveryInit => QInv
<1> SUFFICES ASSUME DeliveryInit PROVE QInv
  OBVIOUS
<1> USE DeliveryAssumption, ServerAssumption
<1>1. DeliveryTypeOK
  BY DEF DeliveryInit, Init, DeliveryTypeOK, Unanswered, Chats
<1>2. Counted /\ Named
  BY DEF DeliveryInit, Init, Counted, Named
<1>3. QED
  BY <1>1, <1>2 DEF QInv

Stanzas == [kind : {"chat", "Delivered"}, msg : Chats, fresh : BOOLEAN]

\* What a stanza on the wire is.
LEMMA StanzaNamed ==
  ASSUME RInv, QInv, NEW c \in Conns, NEW p \in DOMAIN wire[c]
  PROVE  /\ wire[c][p] \in DOMAIN content /\ wire[c][p] \in 1 .. Len(handled)
         /\ content[wire[c][p]].kind \in {"chat", "Delivered"}
         /\ content[wire[c][p]].msg \in Chats /\ content[wire[c][p]].msg \in DOMAIN sent
         /\ Addressee(content[wire[c][p]]) = jid[c]
<1>1. PICK n \in 1 .. Len(handled) : n = wire[c][p]
  BY DEF RInv, PlaceInv, NumbersHandled
<1>2. content \in Seq(Stanzas) /\ Len(content) = Len(handled)
  BY DEF QInv, DeliveryTypeOK, Counted, Stanzas
<1>3. n \in DOMAIN content /\ content[n] \in Stanzas
  BY <1>1, <1>2
<1>4. content[n].msg \in DOMAIN sent /\ handled[n] = Addressee(content[n])
  BY <1>3 DEF QInv, Named
<1>5. handled[n] = jid[c]
  BY <1>1 DEF RInv, PlaceInv, RoutedToAddressee
<1>6. QED
  BY <1>1, <1>3, <1>4, <1>5 DEF Stanzas

\* Who reads it is the one it is meant for.
LEMMA ReaderIsAddressee ==
  ASSUME RInv, QInv, NEW c \in Conns, NEW p \in DOMAIN wire[c], link[c] = "up", session[c] = "connected"
  PROVE  Addressee(content[wire[c][p]]) = Owner[c]
<1>1. jid[c] = Owner[c]
  BY DEF RInv, DInv, SidesAgree
<1>2. QED
  BY <1>1, StanzaNamed

\* A quiet step writes no message.
LEMMA QuietQInv ==
  ASSUME RInv, QInv, [Next]_vars, SidesTyped', NEW c \in Conns, Quiet(c)
  PROVE  QInv'
<1> USE DeliveryAssumption, ServerAssumption
<1>1. up \in [Conns -> Seq(Items)] /\ DInv /\ IInv /\ PlaceInv /\ Len(handled) <= MaxMsgs
  BY DEF QInv, DeliveryTypeOK, Items, RInv, DInv, Counted
<1>2. /\ UNCHANGED <<got, content, sent, told, confirmed, handled>>
      /\ (\E x \in Control : up' = [up EXCEPT ![c] = Append(@, x)]) \/ Narrowed(c)
      /\ ready' = ready \/ ready' = [ready EXCEPT ![c] = Len(wire[c])]
  BY <1>1, QuietStep
<1>3. ready' \in [Conns -> 0 .. Unanswered]
  <2>1. Len(wire[c]) \in 0 .. Unanswered
    BY <1>1, WireBounded DEF Unanswered
  <2>2. QED
    BY <1>2, <2>1 DEF QInv, DeliveryTypeOK
<1>4. \A d \in Conns : got'[d] <= Len(wire'[d])
  <2> TAKE d \in Conns
  <2>1. got'[d] = got[d] /\ got[d] \in Nat /\ got[d] <= Len(wire[d])
    BY <1>2 DEF QInv, DeliveryTypeOK
  <2>2. Len(wire[d]) <= Len(wire'[d]) /\ Len(wire[d]) \in Nat /\ Len(wire'[d]) \in Nat
    <3>1. wire[d] \in Seq(Nat) /\ wire'[d] \in Seq(Nat)
      <4>1. IInv'
        BY <1>1, NextIInv
      <4>2. QED
        BY <1>1, <4>1 DEF IInv, TypeOK
    <3>2. QED
      BY <1>1, <3>1, WireGrows DEF Longer
  <2>3. QED
    BY <2>1, <2>2
<1>5. /\ up' \in [Conns -> Seq(Items)]
      /\ \A d \in Conns : \A i \in DOMAIN up'[d] : up'[d][i] \in Content => up'[d][i].msg \in DOMAIN sent
  <2>1. \A d \in Conns : \A i \in DOMAIN up[d] : up[d][i] \in Content => up[d][i].msg \in DOMAIN sent
    BY DEF QInv, Named
  <2>2. ASSUME NEW x \in Control, up' = [up EXCEPT ![c] = Append(@, x)]
        PROVE  /\ up' \in [Conns -> Seq(Items)]
               /\ \A d \in Conns : \A i \in DOMAIN up'[d] : up'[d][i] \in Content => up'[d][i].msg \in DOMAIN sent
    <3>1. x \in Items /\ x \notin Content
      BY DEF Items, Control, Content
    <3>2. up[c] \in Seq(Items) /\ up'[c] = Append(up[c], x) /\ Append(up[c], x) \in Seq(Items)
      BY <1>1, <2>2, <3>1
    <3>3. \A d \in Conns \ {c} : up'[d] = up[d]
      BY <1>1, <2>2
    <3>4. \A i \in DOMAIN up'[c] : (i \in DOMAIN up[c] /\ up'[c][i] = up[c][i]) \/ up'[c][i] = x
      BY <3>2
    <3>5. up' \in [Conns -> Seq(Items)]
      BY <1>1, <2>2, <3>2
    <3>6. QED
      BY <2>1, <3>1, <3>3, <3>4, <3>5
  <2>3. ASSUME Narrowed(c)
        PROVE  /\ up' \in [Conns -> Seq(Items)]
               /\ \A d \in Conns : \A i \in DOMAIN up'[d] : up'[d][i] \in Content => up'[d][i].msg \in DOMAIN sent
    <3>1. PICK s \in Seq(Items) : up' = [up EXCEPT ![c] = s] /\ Shifted(up[c], s)
      BY <2>3 DEF Narrowed
    <3>2. up'[c] = s /\ \A d \in Conns \ {c} : up'[d] = up[d]
      BY <1>1, <3>1
    <3>3. \A i \in DOMAIN s : \E j \in DOMAIN up[c] : s[i] = up[c][j]
      BY <3>1 DEF Shifted
    <3>4. up' \in [Conns -> Seq(Items)]
      BY <1>1, <3>1
    <3>5. \A i \in DOMAIN up'[c] : up'[c][i] \in Content => up'[c][i].msg \in DOMAIN sent
      BY <2>1, <3>2, <3>3
    <3>6. QED
      BY <2>1, <3>2, <3>4, <3>5
  <2>4. QED
    BY <1>2, <2>2, <2>3
<1>6. DeliveryTypeOK'
  BY <1>2, <1>3, <1>4, <1>5 DEF QInv, DeliveryTypeOK, SidesTyped, Items
<1>7. Counted' /\ Named'
  BY <1>2, <1>5 DEF QInv, Counted, Named, Addressee
<1>8. QED
  BY <1>6, <1>7 DEF QInv

\* What is written comes last.
LEMMA AddItem ==
  ASSUME up \in [Conns -> Seq(Items)], NEW c \in Conns, NEW x \in Items,
         up' = [up EXCEPT ![c] = Append(@, x)]
  PROVE  /\ up' \in [Conns -> Seq(Items)]
         /\ \A d \in Conns \ {c} : up'[d] = up[d]
         /\ \A i \in DOMAIN up'[c] : \/ i \in DOMAIN up[c] /\ up'[c][i] = up[c][i]
                                     \/ i = Len(up[c]) + 1 /\ i \notin DOMAIN up[c] /\ up'[c][i] = x
         /\ \A i \in DOMAIN up[c] : i \in DOMAIN up'[c] /\ up'[c][i] = up[c][i]
         /\ \E i \in DOMAIN up'[c] : up'[c][i] = x
<1> DEFINE s == up[c]
           t == up'[c]
<1>1. s \in Seq(Items) /\ t = Append(s, x) /\ (\A d \in Conns \ {c} : up'[d] = up[d])
      /\ up' \in [Conns -> Seq(Items)]
  BY LongerAppend
<1> HIDE DEF s, t
<1>2. Len(s) \in Nat /\ DOMAIN s = 1 .. Len(s) /\ DOMAIN t = 1 .. Len(s) + 1 /\ t[Len(s) + 1] = x
      /\ \A i \in 1 .. Len(s) : t[i] = s[i]
  BY <1>1
<1>3. Len(s) + 1 \in DOMAIN t
  BY <1>2
<1>4. \A i \in DOMAIN t : (i \in DOMAIN s /\ t[i] = s[i]) \/ (i = Len(s) + 1 /\ i \notin DOMAIN s /\ t[i] = x)
  BY <1>2
<1>5. \A i \in DOMAIN s : i \in DOMAIN t /\ t[i] = s[i]
  BY <1>2
<1>6. QED
  BY <1>1, <1>2, <1>3, <1>4, <1>5 DEF s, t

Submission == [from : Users, to : Users, conn : Conns]

\* What SendMessage does.
Sending(c, u) ==
  /\ UNCHANGED <<got, content, ready, told, confirmed, handled, wire, session, link, phase, messages>>
  /\ Len(sent) + 1 \in Chats /\ Len(sent) + 1 \in DOMAIN sent' /\ Len(sent) + 1 \notin DOMAIN sent
  /\ sent' \in Seq(Submission) /\ Len(sent') = Len(sent) + 1
  /\ sent'[Len(sent) + 1] = [from |-> Owner[c], to |-> u, conn |-> c]
  /\ \A m \in DOMAIN sent : m \in DOMAIN sent' /\ sent'[m] = sent[m]
  /\ \A m \in DOMAIN sent' : m \in DOMAIN sent \/ m = Len(sent) + 1
  /\ [kind |-> "chat", msg |-> Len(sent) + 1] \in Content
  /\ \/ up' = up /\ Broken(c)
     \/ up' = [up EXCEPT ![c] = Append(@, [kind |-> "chat", msg |-> Len(sent) + 1])]

\* SendMessage does that.
LEMMA SendStep ==
  ASSUME RInv, QInv, NEW c \in Conns, NEW u \in Users, SendMessage(c, u)
  PROVE  Sending(c, u)
<1> USE DeliveryAssumption
<1>1. sent \in Seq(Submission) /\ Len(sent) <= MaxChats /\ Len(sent) \in Nat /\ DOMAIN sent = 1 .. Len(sent)
  BY DEF QInv, DeliveryTypeOK, Counted, Submission
<1>2. UNCHANGED <<got, content, ready, told, confirmed, handled, wire, session, link, phase, messages>>
  BY DEF SendMessage, server
<1> DEFINE x == [from |-> Owner[c], to |-> u, conn |-> c]
<1>3. x \in Submission /\ Len(sent) < MaxChats /\ sent' = Append(sent, x)
  BY DEF SendMessage, Submission
<1> HIDE DEF x
<1> DEFINE t == Append(sent, x)
<1>4. t \in Seq(Submission) /\ Len(t) = Len(sent) + 1 /\ t[Len(sent) + 1] = x
      /\ \A m \in 1 .. Len(sent) : t[m] = sent[m]
  BY <1>1, <1>3
<1> HIDE DEF t
<1>5. DOMAIN t = 1 .. Len(sent) + 1
  BY <1>1, <1>4
<1>6. Len(sent) + 1 \in Chats
  BY <1>1, <1>3 DEF Chats
<1>7. Len(sent) + 1 \in DOMAIN t /\ Len(sent) + 1 \notin DOMAIN sent
      /\ (\A m \in DOMAIN sent : m \in DOMAIN t /\ t[m] = sent[m])
      /\ \A m \in DOMAIN t : m \in DOMAIN sent \/ m = Len(sent) + 1
  BY <1>1, <1>4, <1>5
<1>8. [kind |-> "chat", msg |-> Len(sent) + 1] \in Content
  BY <1>6 DEF Content
<1>9. \/ up' = up /\ Broken(c)
      \/ up' = [up EXCEPT ![c] = Append(@, [kind |-> "chat", msg |-> Len(sent) + 1])]
  BY DEF SendMessage, Broken, RInv, DInv, SidesAgree, SidesTyped
<1>10. sent' = t
  BY <1>3 DEF t
<1>11. QED
  BY <1>2, <1>4, <1>6, <1>7, <1>8, <1>9, <1>10 DEF x, Sending

\* What the client does with the stanza it reads.
Reading(c, n, m) ==
  /\ UNCHANGED <<content, ready, sent, handled, wire, session, link, phase, messages>>
  /\ got[c] \in Nat /\ got[c] + 1 \in DOMAIN wire[c] /\ got[c] + 1 <= Len(wire[c]) /\ got[c] < Len(wire[c])
  /\ got'[c] = got[c] + 1 /\ (\A d \in Conns \ {c} : got'[d] = got[d]) /\ got' \in [Conns -> Nat]
  /\ n \in DOMAIN content /\ m \in Chats /\ m \in DOMAIN sent
  /\ \/ session[c] = "binding" /\ got[c] # ready[c] /\ UNCHANGED <<up, told, confirmed>>
     \/ /\ session[c] = "connected" /\ content[n].kind = "chat" /\ sent[m].to = Owner[c]
        /\ [kind |-> "Delivered", msg |-> m] \in Content
        /\ up' = [up EXCEPT ![c] = Append(@, [kind |-> "Delivered", msg |-> m])]
        /\ told' = [told EXCEPT ![m] = Append(@, Owner[c])] /\ confirmed' = confirmed
     \/ /\ session[c] = "connected" /\ content[n].kind = "Delivered"
        /\ confirmed' = [confirmed EXCEPT ![m] = @ + 1] /\ UNCHANGED <<up, told>>

\* Read does that.
LEMMA ReadStep ==
  ASSUME RInv, QInv, NEW c \in Conns, Read(c),
         NEW n, n = wire[c][got[c] + 1], NEW m, m = content[n].msg
  PROVE  Reading(c, n, m)
<1> USE DeliveryAssumption
<1>1. UNCHANGED <<content, ready, sent, handled, wire, session, link, phase, messages>>
  BY DEF Read, server
<1>2. got[c] \in Nat /\ wire[c] \in Seq(Nat) /\ got \in [Conns -> Nat]
  BY DEF QInv, DeliveryTypeOK, RInv, DInv, IInv, TypeOK
<1>3. got[c] < Len(wire[c]) /\ got' = [got EXCEPT ![c] = @ + 1] /\ link[c] = "up"
  BY DEF Read
<1>4. got[c] + 1 \in DOMAIN wire[c] /\ got[c] + 1 <= Len(wire[c])
  BY <1>2, <1>3
<1>5. got'[c] = got[c] + 1 /\ (\A d \in Conns \ {c} : got'[d] = got[d]) /\ got' \in [Conns -> Nat]
  BY <1>2, <1>3
<1>6. n \in DOMAIN content /\ content[n].kind \in {"chat", "Delivered"} /\ m \in Chats /\ m \in DOMAIN sent
  BY <1>4, StanzaNamed
<1>7. session[c] = "connected" /\ content[n].kind = "chat" => sent[m].to = Owner[c]
  BY <1>3, <1>4, ReaderIsAddressee DEF Addressee
<1>8. [kind |-> "Delivered", msg |-> m] \in Content
  BY <1>6 DEF Content
<1>9. \/ session[c] = "binding" /\ got[c] # ready[c] /\ UNCHANGED <<up, told, confirmed>>
      \/ session[c] = "connected" /\ MessageHandler(c, content[n])
  BY DEF Read
<1>10. QED
  BY <1>1, <1>2, <1>3, <1>4, <1>5, <1>6, <1>7, <1>8, <1>9 DEF MessageHandler, Enqueue, Reading

\* What the relay does with the stanza it reads.
Handling(c, u, x, n) ==
  /\ x = Head(up[c]) /\ n = Len(content) + 1
  /\ UNCHANGED <<session, link, ready, got, sent, told, confirmed, phase>>
  /\ x \in Content /\ x.msg \in DOMAIN sent /\ x.msg \in Chats /\ x.kind \in {"chat", "Delivered"}
  /\ u = Addressee(x) /\ up[c] \in Seq(Items) /\ up[c] # <<>>
  /\ up' = [up EXCEPT ![c] = Tail(@)]
  /\ content' \in Seq(Stanzas) /\ Len(content') = n /\ n = Len(handled) + 1 /\ n <= MaxMsgs /\ n \in Nat
  /\ DOMAIN content' = DOMAIN content \cup {n} /\ n \notin DOMAIN content
  /\ content'[n] = [kind |-> x.kind, msg |-> x.msg, fresh |-> u \notin known]
  /\ \A k \in DOMAIN content : content'[k] = content[k]
  /\ handled' = Append(handled, u) /\ Len(handled') = n /\ handled'[n] = u
  /\ \A k \in DOMAIN content : handled'[k] = handled[k]

\* ReadMessage does that.
LEMMA HandleStep ==
  ASSUME RInv, QInv, NEW c \in Conns, NEW u \in Users, ReadMessage(c, u)
  PROVE  \E x \in Content, n \in Nat : Handling(c, u, x, n)
<1> USE DeliveryAssumption, ServerAssumption
<1> DEFINE x == Head(up[c])
           n == Len(content) + 1
<1>1. UNCHANGED <<session, link, ready, got, sent, told, confirmed, phase>>
  BY DEF ReadMessage, OnMessage, streams, history
<1>2. up[c] \in Seq(Items) /\ up[c] # <<>> /\ up' = [up EXCEPT ![c] = Tail(@)]
  BY DEF ReadMessage, Item, Dequeue, QInv, DeliveryTypeOK, Items
<1>3. x \in Items /\ x = up[c][1] /\ 1 \in DOMAIN up[c] /\ x.kind \in {"chat", "Delivered"}
  BY <1>2, TailQueue DEF ReadMessage, Item
<1>4. x \in Content
  BY <1>3 DEF Items, Control
<1>5. x.msg \in DOMAIN sent /\ x.msg \in Chats
  <2>1. x.msg \in DOMAIN sent
    BY <1>3, <1>4 DEF QInv, Named
  <2>2. x.msg \in Chats
    BY <1>4 DEF Content
  <2>3. QED
    BY <2>1, <2>2
<1>6. u = Addressee(x)
  BY DEF ReadMessage
<1> DEFINE y == [kind |-> x.kind, msg |-> x.msg, fresh |-> u \notin known]
<1>7. y \in Stanzas
  BY <1>3, <1>5 DEF Stanzas
<1>8. content' = Append(content, y) /\ handled' = Append(handled, u) /\ Len(handled) < MaxMsgs
  BY DEF ReadMessage, OnMessage
<1> HIDE DEF y
<1>9. content \in Seq(Stanzas) /\ handled \in Seq(Users) /\ Len(handled) = Len(content) /\ Len(content) \in Nat
  BY DEF QInv, DeliveryTypeOK, Counted, Stanzas, RInv, DInv, IInv, TypeOK
<1>10. content' \in Seq(Stanzas) /\ Len(content') = n /\ content'[n] = y /\ \A k \in 1 .. Len(content) : content'[k] = content[k]
  BY <1>7, <1>8, <1>9
<1>11. handled' \in Seq(Users) /\ Len(handled') = n /\ handled'[n] = u /\ \A k \in 1 .. Len(content) : handled'[k] = handled[k]
  BY <1>8, <1>9
<1>12. DOMAIN content = 1 .. Len(content) /\ DOMAIN content' = 1 .. Len(content) + 1
  BY <1>9, <1>10
<1>13. DOMAIN content' = DOMAIN content \cup {n} /\ n \notin DOMAIN content /\ n <= MaxMsgs /\ n \in Nat
  BY <1>8, <1>9, <1>12
<1> HIDE DEF x, n
<1>14. Handling(c, u, x, n)
  BY <1>1, <1>2, <1>3, <1>4, <1>5, <1>6, <1>8, <1>9, <1>10, <1>11, <1>12, <1>13 DEF x, n, y, Handling
<1>15. QED
  BY <1>4, <1>13, <1>14

\* What the client has read is on the wire, whatever the relay writes.
LEMMA WireKept ==
  ASSUME IInv, IInv', [Next]_vars, NEW c \in Conns
  PROVE  /\ DOMAIN wire[c] = 1 .. Len(wire[c]) /\ DOMAIN wire'[c] = 1 .. Len(wire'[c])
         /\ Len(wire[c]) \in Nat /\ Len(wire'[c]) \in Nat /\ Len(wire[c]) <= Len(wire'[c])
         /\ \A p \in DOMAIN wire[c] : p \in DOMAIN wire'[c] /\ wire'[c][p] = wire[c][p]
<1> DEFINE s == wire[c]
           t == wire'[c]
<1>1. s \in Seq(Nat) /\ t \in Seq(Nat)
  BY DEF IInv, TypeOK
<1>2. Longer(s, t)
  BY WireGrows
<1> HIDE DEF s, t
<1>3. Len(s) \in Nat /\ Len(t) \in Nat /\ DOMAIN s = 1 .. Len(s) /\ DOMAIN t = 1 .. Len(t)
  BY <1>1
<1>4. Len(s) <= Len(t) /\ \A p \in DOMAIN s : p \in DOMAIN t /\ t[p] = s[p]
  BY <1>2, <1>3 DEF Longer
<1>5. QED
  BY <1>3, <1>4 DEF s, t

\* The message that is written is on record.
LEMMA SendQInv ==
  ASSUME RInv, QInv, SidesTyped', NEW c \in Conns, NEW u \in Users, SendMessage(c, u)
  PROVE  QInv'
<1> USE DeliveryAssumption
<1> DEFINE m == Len(sent) + 1
           x == [kind |-> "chat", msg |-> m]
<1>0. up \in [Conns -> Seq(Items)]
  BY DEF QInv, DeliveryTypeOK, Items
<1>1. /\ UNCHANGED <<got, content, ready, told, confirmed, handled, wire>>
      /\ m \in Chats /\ m \in DOMAIN sent'
      /\ sent' \in Seq(Submission) /\ Len(sent') = m
      /\ \A k \in DOMAIN sent : k \in DOMAIN sent' /\ sent'[k] = sent[k]
      /\ x \in Content
      /\ up' = up \/ up' = [up EXCEPT ![c] = Append(@, x)]
  BY SendStep DEF Sending
<1>2. x \in Items /\ x.msg = m
  BY <1>1 DEF Items
<1>3. m <= MaxChats
  BY <1>1 DEF Chats
<1> HIDE DEF m, x
<1>4. \A d \in Conns : \A i \in DOMAIN up[d] : up[d][i] \in Content => up[d][i].msg \in DOMAIN sent'
  BY <1>1 DEF QInv, Named
<1>5. up' \in [Conns -> Seq(Items)] /\ \A d \in Conns : \A i \in DOMAIN up'[d] : up'[d][i] \in Content => up'[d][i].msg \in DOMAIN sent'
  <2>1. CASE up' = up
    BY <1>0, <1>4, <2>1
  <2>2. CASE up' = [up EXCEPT ![c] = Append(@, x)]
    <3>1. /\ up' \in [Conns -> Seq(Items)]
          /\ \A d \in Conns \ {c} : up'[d] = up[d]
          /\ \A i \in DOMAIN up'[c] : (i \in DOMAIN up[c] /\ up'[c][i] = up[c][i]) \/ up'[c][i] = x
      BY <1>0, <1>2, <2>2, AddItem
    <3>2. \A i \in DOMAIN up'[c] : up'[c][i] \in Content => up'[c][i].msg \in DOMAIN sent'
      BY <1>1, <1>2, <1>4, <3>1
    <3>3. QED
      BY <1>4, <3>1, <3>2
  <2>3. QED
    BY <1>1, <2>1, <2>2
<1>6. DeliveryTypeOK'
  BY <1>1, <1>5 DEF QInv, DeliveryTypeOK, SidesTyped, Items, Submission
<1>7. Counted'
  BY <1>1, <1>3 DEF QInv, Counted
<1>8. Named'
  BY <1>1, <1>5 DEF QInv, Named, Addressee
<1>9. QED
  BY <1>6, <1>7, <1>8 DEF QInv

\* Who reads a message acknowledges one that is on record.
LEMMA ReadQInv ==
  ASSUME RInv, QInv, SidesTyped', NEW c \in Conns, Read(c)
  PROVE  QInv'
<1> USE DeliveryAssumption
<1>0. up \in [Conns -> Seq(Items)] /\ told \in [Chats -> Seq(Users)] /\ confirmed \in [Chats -> Nat]
  BY DEF QInv, DeliveryTypeOK, Items
<1>1. PICK n : n = wire[c][got[c] + 1]
  OBVIOUS
<1>2. PICK m : m = content[n].msg
  OBVIOUS
<1> DEFINE x == [kind |-> "Delivered", msg |-> m]
<1>3. /\ UNCHANGED <<content, ready, sent, handled, wire>>
      /\ got[c] + 1 <= Len(wire[c])
      /\ got'[c] = got[c] + 1 /\ (\A d \in Conns \ {c} : got'[d] = got[d]) /\ got' \in [Conns -> Nat]
      /\ m \in Chats /\ m \in DOMAIN sent
      /\ \/ UNCHANGED <<up, told, confirmed>>
         \/ /\ x \in Content /\ up' = [up EXCEPT ![c] = Append(@, x)]
            /\ told' = [told EXCEPT ![m] = Append(@, Owner[c])] /\ confirmed' = confirmed
         \/ confirmed' = [confirmed EXCEPT ![m] = @ + 1] /\ UNCHANGED <<up, told>>
  <2>1. Reading(c, n, m)
    BY <1>1, <1>2, ReadStep
  <2>2. QED
    BY <2>1 DEF Reading
<1>4. x.msg = m
  OBVIOUS
<1> HIDE DEF x
<1>5. \A d \in Conns : got'[d] <= Len(wire'[d])
  BY <1>3 DEF QInv, DeliveryTypeOK
<1>6. told' \in [Chats -> Seq(Users)] /\ confirmed' \in [Chats -> Nat]
  <2>1. Append(told[m], Owner[c]) \in Seq(Users) /\ confirmed[m] + 1 \in Nat
    BY <1>0, <1>3
  <2>2. QED
    BY <1>0, <1>3, <2>1
<1>7. up' \in [Conns -> Seq(Items)] /\ \A d \in Conns : \A i \in DOMAIN up'[d] : up'[d][i] \in Content => up'[d][i].msg \in DOMAIN sent
  <2>0. \A d \in Conns : \A i \in DOMAIN up[d] : up[d][i] \in Content => up[d][i].msg \in DOMAIN sent
    BY DEF QInv, Named
  <2>1. CASE up' = up
    BY <1>0, <2>0, <2>1
  <2>2. CASE x \in Content /\ up' = [up EXCEPT ![c] = Append(@, x)]
    <3>1. /\ up' \in [Conns -> Seq(Items)]
          /\ \A d \in Conns \ {c} : up'[d] = up[d]
          /\ \A i \in DOMAIN up'[c] : (i \in DOMAIN up[c] /\ up'[c][i] = up[c][i]) \/ up'[c][i] = x
      BY <1>0, <2>2, AddItem DEF Items
    <3>2. \A i \in DOMAIN up'[c] : up'[c][i] \in Content => up'[c][i].msg \in DOMAIN sent
      BY <1>3, <1>4, <2>0, <3>1
    <3>3. QED
      BY <2>0, <3>1, <3>2
  <2>3. QED
    BY <1>3, <2>1, <2>2
<1>8. DeliveryTypeOK'
  BY <1>3, <1>5, <1>6, <1>7 DEF QInv, DeliveryTypeOK, SidesTyped, Items
<1>9. Counted' /\ Named'
  BY <1>3, <1>7 DEF QInv, Counted, Named, Addressee
<1>10. QED
  BY <1>8, <1>9 DEF QInv

\* What is handled was on its way, and is addressed as it says.
LEMMA HandleQInv ==
  ASSUME RInv, QInv, IInv', [Next]_vars, SidesTyped', NEW c \in Conns, NEW u \in Users, ReadMessage(c, u)
  PROVE  QInv'
<1> USE DeliveryAssumption, ServerAssumption
<1>0. up \in [Conns -> Seq(Items)] /\ got \in [Conns -> Nat] /\ ready \in [Conns -> 0 .. Unanswered]
  BY DEF QInv, DeliveryTypeOK, Items
<1>1. PICK x \in Content, n \in Nat : Handling(c, u, x, n)
  BY HandleStep
<1>3. /\ x = Head(up[c]) /\ n = Len(content) + 1
      /\ UNCHANGED <<session, link, ready, got, sent, told, confirmed, phase>>
      /\ x \in Content /\ x.msg \in DOMAIN sent /\ x.msg \in Chats /\ x.kind \in {"chat", "Delivered"}
      /\ u = Addressee(x) /\ up[c] \in Seq(Items) /\ up[c] # <<>>
      /\ up' = [up EXCEPT ![c] = Tail(@)]
      /\ content' \in Seq(Stanzas) /\ Len(content') = n /\ n = Len(handled) + 1 /\ n <= MaxMsgs /\ n \in Nat
      /\ DOMAIN content' = DOMAIN content \cup {n} /\ n \notin DOMAIN content
      /\ content'[n] = [kind |-> x.kind, msg |-> x.msg, fresh |-> u \notin known]
      /\ \A k \in DOMAIN content : content'[k] = content[k]
      /\ handled' = Append(handled, u) /\ Len(handled') = n /\ handled'[n] = u
      /\ \A k \in DOMAIN content : handled'[k] = handled[k]
  BY <1>1 DEF Handling
<1> DEFINE q == up[c]
           t == Tail(q)
<1>4. t \in Seq(Items) /\ \A i \in DOMAIN t : i + 1 \in DOMAIN q /\ t[i] = q[i + 1]
  BY <1>3, TailQueue
<1>5. up' \in [Conns -> Seq(Items)] /\ up'[c] = t /\ \A d \in Conns \ {c} : up'[d] = up[d]
  BY <1>0, <1>3, <1>4
<1> HIDE DEF t
<1>6. \A d \in Conns : \A i \in DOMAIN up'[d] : up'[d][i] \in Content => up'[d][i].msg \in DOMAIN sent
  <2>0. \A d \in Conns : \A i \in DOMAIN up[d] : up[d][i] \in Content => up[d][i].msg \in DOMAIN sent
    BY DEF QInv, Named
  <2>1. \A i \in DOMAIN q : q[i] \in Content => q[i].msg \in DOMAIN sent
    BY <2>0
  <2> HIDE DEF q
  <2>2. \A i \in DOMAIN t : t[i] \in Content => t[i].msg \in DOMAIN sent
    BY <1>4, <2>1
  <2>3. QED
    BY <1>5, <2>0, <2>2
<1>7. \A k \in DOMAIN content' : content'[k].msg \in DOMAIN sent /\ handled'[k] = Addressee(content'[k])
  <2>1. ASSUME NEW k \in DOMAIN content
        PROVE  content'[k].msg \in DOMAIN sent /\ handled'[k] = Addressee(content'[k])
    <3>1. content[k].msg \in DOMAIN sent /\ handled[k] = Addressee(content[k])
      BY DEF QInv, Named
    <3>2. QED
      BY <1>3, <3>1 DEF Addressee
  <2>2. content'[n].msg \in DOMAIN sent /\ handled'[n] = Addressee(content'[n])
    BY <1>3 DEF Addressee
  <2>3. QED
    BY <1>3, <2>1, <2>2
<1>8. \A d \in Conns : got[d] <= Len(wire'[d])
  <2> TAKE d \in Conns
  <2>1. Len(wire[d]) \in Nat /\ Len(wire'[d]) \in Nat /\ Len(wire[d]) <= Len(wire'[d])
    BY WireKept DEF RInv, DInv
  <2>2. got[d] \in Nat /\ got[d] <= Len(wire[d])
    BY DEF QInv, DeliveryTypeOK
  <2>3. QED
    BY <2>1, <2>2
<1>9. DeliveryTypeOK'
  BY <1>3, <1>5, <1>8 DEF QInv, DeliveryTypeOK, SidesTyped, Items, Stanzas
<1>10. Counted'
  BY <1>3 DEF QInv, Counted
<1>11. Named'
  BY <1>3, <1>6, <1>7 DEF Named, Addressee
<1>12. QED
  BY <1>9, <1>10, <1>11 DEF QInv

\* So every step keeps types, bounds and names.
LEMMA NextQInv == RInv /\ QInv /\ [DeliveryNext]_all => QInv'
<1> SUFFICES ASSUME RInv, QInv, [DeliveryNext]_all PROVE QInv'
  OBVIOUS
<1>1. RInv' /\ [Next]_vars
  BY NextRInv, RelayStep
<1>2. SidesTyped' /\ IInv'
  BY <1>1 DEF RInv, DInv
<1>3. CASE UNCHANGED all
  BY <1>3 DEF all, server, network, history, QInv, DeliveryTypeOK, Counted, Named, Addressee
<1>4. CASE DeliveryNext
  <2>1. PICK c \in Conns : Quiet(c) \/ Read(c) \/ \E u \in Users : SendMessage(c, u) \/ ReadMessage(c, u)
    BY <1>4, StepKinds
  <2>2. CASE Quiet(c)
    BY <1>1, <1>2, <2>2, QuietQInv
  <2>3. CASE Read(c)
    BY <1>2, <2>3, ReadQInv
  <2>4. ASSUME NEW u \in Users, SendMessage(c, u) PROVE QInv'
    BY <1>2, <2>4, SendQInv
  <2>5. ASSUME NEW u \in Users, ReadMessage(c, u) PROVE QInv'
    BY <1>1, <1>2, <2>5, HandleQInv
  <2>6. QED
    BY <2>1, <2>2, <2>3, <2>4, <2>5
<1>5. QED
  BY <1>3, <1>4

\* Both sides' bookkeeping has its types: no client reads what was not written, and the
\* bounds of the relay are enough for every message and its acknowledgement.
THEOREM DeliveryTyped == DeliverySpec => []DeliveryTypeOK
<1>1. QInv => DeliveryTypeOK
  BY DEF QInv
<1>2. QED
  BY <1>1, InitRInv, NextRInv, InitQInv, NextQInv, PTL DEF DeliverySpec

-----------------------------------------------------------------------------
Token(k, m) == [kind |-> k, msg |-> m]
TokenOf(n)  == Token(content[n].kind, content[n].msg)

\* A client has written it and the relay has not read it.
InUp(x) == \E c \in Conns : \E i \in DOMAIN up[c] : up[c][i] = x

\* A client has read it.
Taken(n) == \E c \in Conns : \E p \in 1 .. got[c] : wire[c][p] = n

\* A message, or an acknowledgement, is written once and handled once.
OnceUp ==
  \A c, d \in Conns : \A i \in DOMAIN up[c], j \in DOMAIN up[d] :
    up[c][i] = up[d][j] /\ up[c][i] \in Content => c = d /\ i = j
OnceHandled == \A n, k \in DOMAIN content : TokenOf(n) = TokenOf(k) => n = k
Apart == \A n \in DOMAIN content : ~InUp(TokenOf(n))

\* A message is acknowledged when it was told.
AckOfTold ==
  \A m \in Chats : InUp(Token("Delivered", m)) \/ (\E n \in DOMAIN content : TokenOf(n) = Token("Delivered", m)) =>
    told[m] # <<>>

\* Observers are told of what their client has read.
ToldTaken ==
  /\ \A m \in Chats : told[m] # <<>> => \E n \in DOMAIN content : TokenOf(n) = Token("chat", m) /\ Taken(n)
  /\ \A m \in Chats : confirmed[m] # 0 => \E n \in DOMAIN content : TokenOf(n) = Token("Delivered", m) /\ Taken(n)

OnceInv == OnceUp /\ OnceHandled /\ Apart /\ AckOfTold /\ ToldTaken

\* Nothing is written, handled or told at the start.
LEMMA InitOnceInv == DeliveryInit => OnceInv
BY DEF DeliveryInit, OnceInv, OnceUp, OnceHandled, Apart, AckOfTold, ToldTaken, InUp

\* A queue that is read or cut off has nothing new.
LEMMA DropItems ==
  ASSUME up \in [Conns -> Seq(Items)], OnceUp, NEW c \in Conns, NEW s \in Seq(Items),
         up' = [up EXCEPT ![c] = s], Shifted(up[c], s)
  PROVE  OnceUp' /\ \A x : InUp(x)' => InUp(x)
<1>1. up'[c] = s /\ \A d \in Conns \ {c} : up'[d] = up[d]
  OBVIOUS
<1>2. PICK k \in {0, 1} : \A i \in DOMAIN s : i + k \in DOMAIN up[c] /\ s[i] = up[c][i + k]
  BY DEF Shifted
<1>3. \A x : InUp(x)' => InUp(x)
  <2> SUFFICES ASSUME NEW x, NEW d \in Conns, NEW i \in DOMAIN up'[d], up'[d][i] = x PROVE InUp(x)
    BY DEF InUp
  <2>1. CASE d = c
    BY <1>1, <1>2, <2>1 DEF InUp
  <2>2. CASE d # c
    BY <1>1, <2>2 DEF InUp
  <2>3. QED
    BY <2>1, <2>2
<1>4. DOMAIN s = 1 .. Len(s) /\ Len(s) \in Nat
  OBVIOUS
<1>5. OnceUp'
  <2> SUFFICES ASSUME NEW d \in Conns, NEW e \in Conns, NEW i \in DOMAIN up'[d], NEW j \in DOMAIN up'[e],
                      up'[d][i] = up'[e][j], up'[d][i] \in Content
               PROVE  d = e /\ i = j
    BY DEF OnceUp
  <2>1. CASE d # c /\ e # c
    BY <1>1, <2>1 DEF OnceUp
  <2>2. CASE d = c /\ e # c
    BY <1>1, <1>2, <2>2 DEF OnceUp
  <2>3. CASE d # c /\ e = c
    BY <1>1, <1>2, <2>3 DEF OnceUp
  <2>4. CASE d = c /\ e = c
    <3>1. i \in DOMAIN s /\ j \in DOMAIN s /\ s[i] = s[j] /\ s[i] \in Content
      BY <1>1, <2>4
    <3>2. i + k = j + k
      BY <1>2, <3>1 DEF OnceUp
    <3>3. i \in Nat /\ j \in Nat
      BY <1>4, <3>1
    <3>4. QED
      BY <2>4, <3>2, <3>3
  <2>5. QED
    BY <2>1, <2>2, <2>3, <2>4
<1>6. QED
  BY <1>3, <1>5

\* What is written is the only new.
LEMMA NewItem ==
  ASSUME up \in [Conns -> Seq(Items)], OnceUp, NEW c \in Conns, NEW x \in Items,
         up' = [up EXCEPT ![c] = Append(@, x)], x \notin Content \/ ~InUp(x)
  PROVE  OnceUp' /\ \A y : InUp(y)' => InUp(y) \/ y = x
<1>1. /\ \A d \in Conns \ {c} : up'[d] = up[d]
      /\ \A i \in DOMAIN up'[c] : \/ i \in DOMAIN up[c] /\ up'[c][i] = up[c][i]
                                  \/ i = Len(up[c]) + 1 /\ i \notin DOMAIN up[c] /\ up'[c][i] = x
  BY AddItem
<1>2. ASSUME NEW d \in Conns, NEW i \in DOMAIN up'[d]
      PROVE  \/ i \in DOMAIN up[d] /\ up'[d][i] = up[d][i]
             \/ d = c /\ i = Len(up[c]) + 1 /\ up'[d][i] = x
  <2>1. CASE d = c
    BY <1>1, <2>1
  <2>2. CASE d # c
    BY <1>1, <2>2
  <2>3. QED
    BY <2>1, <2>2
<1>3. \A y : InUp(y)' => InUp(y) \/ y = x
  <2> SUFFICES ASSUME NEW y, NEW d \in Conns, NEW i \in DOMAIN up'[d], up'[d][i] = y PROVE InUp(y) \/ y = x
    BY DEF InUp
  <2>1. QED
    BY <1>2 DEF InUp
<1>4. OnceUp'
  <2> SUFFICES ASSUME NEW d \in Conns, NEW e \in Conns, NEW i \in DOMAIN up'[d], NEW j \in DOMAIN up'[e],
                      up'[d][i] = up'[e][j], up'[d][i] \in Content
               PROVE  d = e /\ i = j
    BY DEF OnceUp
  <2>1. CASE i \in DOMAIN up[d] /\ up'[d][i] = up[d][i] /\ j \in DOMAIN up[e] /\ up'[e][j] = up[e][j]
    BY <2>1 DEF OnceUp
  <2>2. CASE d = c /\ i = Len(up[c]) + 1 /\ up'[d][i] = x /\ j \in DOMAIN up[e] /\ up'[e][j] = up[e][j]
    BY <2>2 DEF InUp
  <2>3. CASE i \in DOMAIN up[d] /\ up'[d][i] = up[d][i] /\ e = c /\ j = Len(up[c]) + 1 /\ up'[e][j] = x
    BY <2>3 DEF InUp
  <2>4. CASE d = c /\ i = Len(up[c]) + 1 /\ e = c /\ j = Len(up[c]) + 1
    BY <2>4
  <2>5. QED
    BY <1>2, <2>1, <2>2, <2>3, <2>4
<1>5. QED
  BY <1>3, <1>4

\* What was read stays read.
LEMMA TakenKept ==
  ASSUME IInv, IInv', [Next]_vars, got \in [Conns -> Nat], \A c \in Conns : got[c] <= Len(wire[c]),
         got' \in [Conns -> Nat], \A c \in Conns : got[c] <= got'[c], NEW n, Taken(n)
  PROVE  Taken(n)'
<1>1. PICK c \in Conns : \E p \in 1 .. got[c] : wire[c][p] = n
  BY DEF Taken
<1>2. PICK p \in 1 .. got[c] : wire[c][p] = n
  BY <1>1
<1>3. Len(wire[c]) \in Nat /\ DOMAIN wire[c] = 1 .. Len(wire[c]) /\ \A q \in DOMAIN wire[c] : wire'[c][q] = wire[c][q]
  BY WireKept
<1>4. p \in DOMAIN wire[c] /\ p \in 1 .. got'[c]
  BY <1>2, <1>3
<1>5. QED
  BY <1>2, <1>3, <1>4 DEF Taken

\* The next stanza has not been read.
LEMMA NextUntaken ==
  ASSUME RInv, QInv, NEW c \in Conns, got[c] + 1 \in DOMAIN wire[c]
  PROVE  ~Taken(wire[c][got[c] + 1])
<1> SUFFICES ASSUME NEW d \in Conns, NEW p \in 1 .. got[d], wire[d][p] = wire[c][got[c] + 1] PROVE FALSE
  BY DEF Taken
<1>1. got[c] \in Nat /\ got[d] \in Nat /\ got[d] <= Len(wire[d]) /\ wire[d] \in Seq(Nat)
  BY DEF QInv, DeliveryTypeOK, RInv, DInv, IInv, TypeOK
<1>2. p \in DOMAIN wire[d]
  BY <1>1
<1>3. d = c /\ p = got[c] + 1
  BY <1>2 DEF RInv, PlaceInv, SentOnce
<1>4. QED
  BY <1>1, <1>3

\* A token on its way is one of a message that was sent.
LEMMA TokenSent ==
  ASSUME QInv, NEW k, NEW m, Token(k, m) \in Content,
         InUp(Token(k, m)) \/ \E n \in DOMAIN content : TokenOf(n) = Token(k, m)
  PROVE  m \in DOMAIN sent
<1>1. Token(k, m).msg = m
  BY DEF Token
<1>2. CASE InUp(Token(k, m))
  BY <1>1, <1>2 DEF QInv, Named, InUp
<1>3. ASSUME NEW n \in DOMAIN content, TokenOf(n) = Token(k, m) PROVE m \in DOMAIN sent
  <2>1. content[n].msg = m
    BY <1>3 DEF TokenOf, Token
  <2>2. QED
    BY <2>1 DEF QInv, Named
<1>4. QED
  BY <1>2, <1>3

\* A quiet step writes no message twice.
LEMMA QuietOnce ==
  ASSUME RInv, RInv', [Next]_vars, QInv, QInv', OnceInv, NEW c \in Conns, Quiet(c)
  PROVE  OnceInv'
<1>1. up \in [Conns -> Seq(Items)] /\ DInv /\ IInv /\ IInv' /\ got \in [Conns -> Nat] /\ \A d \in Conns : got[d] <= Len(wire[d])
  BY DEF QInv, DeliveryTypeOK, Items, RInv, DInv
<1>2. /\ UNCHANGED <<got, content, sent, told, confirmed, handled>>
      /\ (\E x \in Control : up' = [up EXCEPT ![c] = Append(@, x)]) \/ Narrowed(c)
  BY <1>1, QuietStep
<1>3. OnceUp' /\ \A y \in Content : InUp(y)' => InUp(y)
  <2>1. ASSUME NEW x \in Control, up' = [up EXCEPT ![c] = Append(@, x)]
        PROVE  OnceUp' /\ \A y \in Content : InUp(y)' => InUp(y)
    <3>1. x \in Items /\ x \notin Content
      BY DEF Items, Control, Content
    <3>2. OnceUp' /\ \A y : InUp(y)' => InUp(y) \/ y = x
      BY <1>1, <2>1, <3>1, NewItem DEF OnceInv
    <3>3. QED
      BY <3>1, <3>2
  <2>2. ASSUME Narrowed(c) PROVE OnceUp' /\ \A y \in Content : InUp(y)' => InUp(y)
    <3>1. PICK s \in Seq(Items) : up' = [up EXCEPT ![c] = s] /\ Shifted(up[c], s)
      BY <2>2 DEF Narrowed
    <3>2. OnceUp' /\ \A y : InUp(y)' => InUp(y)
      BY <1>1, <3>1, DropItems DEF OnceInv
    <3>3. QED
      BY <3>2
  <2>3. QED
    BY <1>2, <2>1, <2>2
<1>4. \A n : TokenOf(n)' = TokenOf(n)
  BY <1>2 DEF TokenOf
<1>5. \A n \in DOMAIN content : TokenOf(n) \in Content
  <2>1. \A n \in DOMAIN content : content[n] \in Stanzas
    <3>1. content \in Seq(Stanzas)
      BY DEF QInv, DeliveryTypeOK, Stanzas
    <3>2. QED
      BY <3>1
  <2>2. QED
    BY <2>1 DEF TokenOf, Token, Content, Stanzas
<1>6. \A m \in Chats : Token("Delivered", m) \in Content
  BY DEF Token, Content
<1>7. \A n : Taken(n) => Taken(n)'
  BY <1>1, <1>2, TakenKept
<1>8. OnceHandled'
  BY <1>2, <1>4 DEF OnceInv, OnceHandled
<1>9. Apart'
  BY <1>2, <1>3, <1>4, <1>5 DEF OnceInv, Apart
<1>10. AckOfTold'
  BY <1>2, <1>3, <1>4, <1>6 DEF OnceInv, AckOfTold
<1>11. ToldTaken'
  BY <1>2, <1>4, <1>7 DEF OnceInv, ToldTaken
<1>12. QED
  BY <1>3, <1>8, <1>9, <1>10, <1>11 DEF OnceInv

\* A new message has a number of its own.
LEMMA SendOnce ==
  ASSUME RInv, RInv', [Next]_vars, QInv, QInv', OnceInv, NEW c \in Conns, NEW u \in Users, SendMessage(c, u)
  PROVE  OnceInv'
<1> DEFINE m == Len(sent) + 1
           x == Token("chat", m)
<1>1. up \in [Conns -> Seq(Items)]
  BY DEF QInv, DeliveryTypeOK, Items
<1>2. /\ UNCHANGED <<got, content, told, confirmed, wire>>
      /\ m \in Chats /\ m \notin DOMAIN sent
      /\ x \in Content
      /\ up' = up \/ up' = [up EXCEPT ![c] = Append(@, x)]
  BY SendStep DEF Sending, Token
<1>3. ~InUp(x) /\ ~ \E n \in DOMAIN content : TokenOf(n) = x
  BY <1>2, TokenSent
<1> HIDE DEF m
<1>4. x \in Items /\ \A k : x # Token("Delivered", k)
  BY <1>2 DEF Items, Token
<1> HIDE DEF x
<1>5. OnceUp' /\ \A y : InUp(y)' => InUp(y) \/ y = x
  <2>1. CASE up' = up
    BY <2>1 DEF OnceInv, OnceUp, InUp
  <2>2. CASE up' = [up EXCEPT ![c] = Append(@, x)]
    BY <1>1, <1>3, <1>4, <2>2, NewItem DEF OnceInv
  <2>3. QED
    BY <1>2, <2>1, <2>2
<1>6. (\A n : TokenOf(n)' = TokenOf(n)) /\ (\A n : Taken(n)' <=> Taken(n))
  BY <1>2 DEF TokenOf, Taken
<1>7. OnceHandled'
  BY <1>2, <1>6 DEF OnceInv, OnceHandled
<1>8. Apart'
  BY <1>2, <1>3, <1>5, <1>6 DEF OnceInv, Apart
<1>9. AckOfTold'
  BY <1>2, <1>4, <1>5, <1>6 DEF OnceInv, AckOfTold
<1>10. ToldTaken'
  BY <1>2, <1>6 DEF OnceInv, ToldTaken
<1>11. QED
  BY <1>5, <1>7, <1>8, <1>9, <1>10 DEF OnceInv

\* The observers have not been told of a stanza that its addressee has not read.
LEMMA FirstTime ==
  ASSUME RInv, QInv, OnceInv, NEW c \in Conns, got[c] + 1 \in DOMAIN wire[c],
         NEW n, n = wire[c][got[c] + 1], NEW m, m = content[n].msg
  PROVE  /\ n \in DOMAIN content /\ m \in Chats /\ ~Taken(n)
         /\ content[n].kind = "chat" => told[m] = <<>>
         /\ content[n].kind = "Delivered" => confirmed[m] = 0 /\ told[m] # <<>>
<1>1. n \in DOMAIN content /\ m \in Chats
  BY StanzaNamed
<1>2. ~Taken(n)
  BY NextUntaken
<1>3. TokenOf(n) = Token(content[n].kind, m)
  BY DEF TokenOf
<1>4. ASSUME NEW k \in DOMAIN content, TokenOf(k) = TokenOf(n), Taken(k) PROVE FALSE
  <2>1. k = n
    BY <1>1, <1>4 DEF OnceInv, OnceHandled
  <2>2. QED
    BY <1>2, <1>4, <2>1
<1>5. content[n].kind = "chat" => told[m] = <<>>
  BY <1>1, <1>3, <1>4 DEF OnceInv, ToldTaken
<1>6. content[n].kind = "Delivered" => confirmed[m] = 0
  BY <1>1, <1>3, <1>4 DEF OnceInv, ToldTaken
<1>7. content[n].kind = "Delivered" => told[m] # <<>>
  BY <1>1, <1>3 DEF OnceInv, AckOfTold
<1>8. QED
  BY <1>1, <1>2, <1>5, <1>6, <1>7

\* A message is read once, so it is told once and acknowledged once.
LEMMA ReadOnce ==
  ASSUME RInv, RInv', [Next]_vars, QInv, QInv', OnceInv, NEW c \in Conns, Read(c)
  PROVE  OnceInv'
<1>1. up \in [Conns -> Seq(Items)] /\ IInv /\ IInv' /\ got \in [Conns -> Nat] /\ (\A d \in Conns : got[d] <= Len(wire[d]))
      /\ told \in [Chats -> Seq(Users)] /\ confirmed \in [Chats -> Nat]
  BY DEF QInv, DeliveryTypeOK, Items, RInv, DInv
<1>2. PICK n : n = wire[c][got[c] + 1]
  OBVIOUS
<1>3. PICK m : m = content[n].msg
  OBVIOUS
<1> DEFINE x == Token("Delivered", m)
<1>4. /\ UNCHANGED <<content, sent, handled, wire>>
      /\ got[c] \in Nat /\ got[c] + 1 \in DOMAIN wire[c]
      /\ got'[c] = got[c] + 1 /\ (\A d \in Conns \ {c} : got'[d] = got[d]) /\ got' \in [Conns -> Nat]
      /\ n \in DOMAIN content /\ m \in Chats
      /\ \/ UNCHANGED <<up, told, confirmed>>
         \/ /\ content[n].kind = "chat"
            /\ x \in Content
            /\ up' = [up EXCEPT ![c] = Append(@, x)]
            /\ told' = [told EXCEPT ![m] = Append(@, Owner[c])] /\ confirmed' = confirmed
         \/ /\ content[n].kind = "Delivered"
            /\ confirmed' = [confirmed EXCEPT ![m] = @ + 1] /\ UNCHANGED <<up, told>>
  <2>1. Reading(c, n, m)
    BY <1>2, <1>3, ReadStep
  <2>2. QED
    BY <2>1 DEF Reading, Token
<1>5. /\ content[n].kind = "chat" => told[m] = <<>>
      /\ content[n].kind = "Delivered" => confirmed[m] = 0 /\ told[m] # <<>>
  <2>1. got[c] + 1 \in DOMAIN wire[c]
    BY <1>4
  <2>2. QED
    BY <1>2, <1>3, <2>1, FirstTime
<1>6. \A k : TokenOf(k)' = TokenOf(k)
  BY <1>4 DEF TokenOf
<1>7. \A k : Taken(k) => Taken(k)'
  <2>1. \A d \in Conns : got[d] <= got'[d]
    <3> TAKE d \in Conns
    <3>1. CASE d = c
      BY <1>4, <3>1
    <3>2. CASE d # c
      BY <1>1, <1>4, <3>2
    <3>3. QED
      BY <3>1, <3>2
  <2>2. QED
    BY <1>1, <1>4, <2>1, TakenKept
<1>8. Taken(n)'
  <2>1. got[c] + 1 \in 1 .. got'[c] /\ wire'[c][got[c] + 1] = n
    BY <1>2, <1>4
  <2>2. QED
    BY <2>1 DEF Taken
<1>9. TokenOf(n) = Token(content[n].kind, m)
  BY <1>3 DEF TokenOf
<1>10. OnceHandled'
  BY <1>4, <1>6 DEF OnceInv, OnceHandled
<1>11. CASE UNCHANGED <<up, told, confirmed>>
  <2>1. OnceUp' /\ Apart' /\ AckOfTold'
    BY <1>4, <1>6, <1>11 DEF OnceInv, OnceUp, Apart, AckOfTold, InUp
  <2>2. ToldTaken'
    BY <1>4, <1>6, <1>7, <1>11 DEF OnceInv, ToldTaken
  <2>3. QED
    BY <1>10, <2>1, <2>2 DEF OnceInv
<1>12. CASE /\ content[n].kind = "chat"
            /\ x \in Content
            /\ up' = [up EXCEPT ![c] = Append(@, x)]
            /\ told' = [told EXCEPT ![m] = Append(@, Owner[c])] /\ confirmed' = confirmed
  <2>1. ~InUp(x) /\ ~ \E k \in DOMAIN content : TokenOf(k) = x
    BY <1>4, <1>5, <1>12 DEF OnceInv, AckOfTold
  <2>2. x \in Items /\ \A k : x = Token("Delivered", k) => k = m
    BY <1>12 DEF Items, Token
  <2>3. told'[m] # <<>> /\ \A k \in Chats \ {m} : told'[k] = told[k]
    <3>1. told'[m] = Append(told[m], Owner[c]) /\ told[m] \in Seq(Users)
      BY <1>1, <1>4, <1>12
    <3>2. told'[m] # <<>>
      BY <3>1
    <3>3. QED
      BY <1>1, <1>12, <3>2
  <2> HIDE DEF x
  <2>4. OnceUp' /\ \A y : InUp(y)' => InUp(y) \/ y = x
    BY <1>1, <1>12, <2>1, <2>2, NewItem DEF OnceInv
  <2>5. Apart'
    BY <1>4, <1>6, <2>1, <2>4 DEF OnceInv, Apart
  <2>6. AckOfTold'
    <3> SUFFICES ASSUME NEW k \in Chats, k # m,
                        InUp(Token("Delivered", k))' \/ \E j \in DOMAIN content : TokenOf(j) = Token("Delivered", k)
                 PROVE  told[k] # <<>>
      BY <1>4, <1>6, <2>3 DEF AckOfTold
    <3>1. InUp(Token("Delivered", k)) \/ \E j \in DOMAIN content : TokenOf(j) = Token("Delivered", k)
      BY <2>2, <2>4
    <3>2. QED
      BY <3>1 DEF OnceInv, AckOfTold
  <2>7. ToldTaken'
    <3>1. ASSUME NEW k \in Chats, told'[k] # <<>>
          PROVE  \E j \in DOMAIN content : TokenOf(j) = Token("chat", k) /\ Taken(j)'
      <4>1. CASE k = m
        BY <1>4, <1>8, <1>9, <1>12, <4>1
      <4>2. CASE k # m
        BY <1>7, <2>3, <3>1, <4>2 DEF OnceInv, ToldTaken
      <4>3. QED
        BY <4>1, <4>2
    <3>2. ASSUME NEW k \in Chats, confirmed'[k] # 0
          PROVE  \E j \in DOMAIN content : TokenOf(j) = Token("Delivered", k) /\ Taken(j)'
      BY <1>7, <1>12, <3>2 DEF OnceInv, ToldTaken
    <3>3. QED
      BY <1>4, <1>6, <3>1, <3>2 DEF ToldTaken
  <2>8. QED
    BY <1>10, <2>4, <2>5, <2>6, <2>7 DEF OnceInv
<1>13. CASE /\ content[n].kind = "Delivered"
            /\ confirmed' = [confirmed EXCEPT ![m] = @ + 1] /\ UNCHANGED <<up, told>>
  <2>1. OnceUp' /\ Apart' /\ AckOfTold'
    BY <1>4, <1>6, <1>13 DEF OnceInv, OnceUp, Apart, AckOfTold, InUp
  <2>2. ToldTaken'
    <3>1. ASSUME NEW k \in Chats, told'[k] # <<>>
          PROVE  \E j \in DOMAIN content : TokenOf(j) = Token("chat", k) /\ Taken(j)'
      BY <1>7, <1>13, <3>1 DEF OnceInv, ToldTaken
    <3>2. ASSUME NEW k \in Chats, confirmed'[k] # 0
          PROVE  \E j \in DOMAIN content : TokenOf(j) = Token("Delivered", k) /\ Taken(j)'
      <4>1. CASE k = m
        BY <1>4, <1>8, <1>9, <1>13, <4>1
      <4>2. CASE k # m
        <5>1. confirmed'[k] = confirmed[k]
          BY <1>1, <1>13, <4>2
        <5>2. QED
          BY <1>7, <3>2, <5>1 DEF OnceInv, ToldTaken
      <4>3. QED
        BY <4>1, <4>2
    <3>3. QED
      BY <1>4, <1>6, <3>1, <3>2 DEF ToldTaken
  <2>3. QED
    BY <1>10, <2>1, <2>2 DEF OnceInv
<1>14. QED
  BY <1>4, <1>11, <1>12, <1>13

\* What is handled is no longer on its way.
LEMMA HandleOnce ==
  ASSUME RInv, RInv', [Next]_vars, QInv, QInv', OnceInv, NEW c \in Conns, NEW u \in Users, ReadMessage(c, u)
  PROVE  OnceInv'
<1>1. up \in [Conns -> Seq(Items)] /\ IInv /\ IInv' /\ got \in [Conns -> Nat] /\ \A d \in Conns : got[d] <= Len(wire[d])
  BY DEF QInv, DeliveryTypeOK, Items, RInv, DInv
<1>2. PICK x \in Content, n \in Nat : Handling(c, u, x, n)
  BY HandleStep
<1>3. /\ UNCHANGED <<got, told, confirmed>>
      /\ x = Head(up[c]) /\ x = Token(x.kind, x.msg) /\ up[c] \in Seq(Items) /\ up[c] # <<>>
      /\ up' = [up EXCEPT ![c] = Tail(up[c])]
      /\ DOMAIN content' = DOMAIN content \cup {n} /\ n \notin DOMAIN content
      /\ TokenOf(n)' = Token(x.kind, x.msg)
      /\ \A k \in DOMAIN content : TokenOf(k)' = TokenOf(k)
  BY <1>2 DEF Handling, TokenOf, Token, Content
<1>4. /\ Tail(up[c]) \in Seq(Items) /\ Shifted(up[c], Tail(up[c])) /\ 1 \in DOMAIN up[c] /\ x = up[c][1]
      /\ \A i \in DOMAIN Tail(up[c]) : i + 1 \in DOMAIN up[c] /\ Tail(up[c])[i] = up[c][i + 1]
  BY <1>3, TailQueue
<1>5. OnceUp' /\ \A y : InUp(y)' => InUp(y)
  BY <1>1, <1>3, <1>4, DropItems DEF OnceInv
<1>6. InUp(x)
  BY <1>4 DEF InUp
<1>7. ~InUp(x)'
  <2> SUFFICES ASSUME NEW d \in Conns, NEW i \in DOMAIN up'[d], up'[d][i] = x PROVE FALSE
    BY DEF InUp
  <2>1. CASE d = c
    <3>1. up'[c] = Tail(up[c])
      BY <1>1, <1>3
    <3>2. i + 1 \in DOMAIN up[c] /\ up[c][i + 1] = up[c][1]
      BY <1>4, <2>1, <3>1
    <3>3. i + 1 = 1
      BY <1>2, <1>4, <3>2 DEF OnceInv, OnceUp
    <3>4. i \in Nat \ {0}
      <4> DEFINE t == Tail(up[c])
      <4>1. t \in Seq(Items) /\ i \in DOMAIN t
        BY <1>4, <2>1, <3>1
      <4> HIDE DEF t
      <4>2. DOMAIN t = 1 .. Len(t) /\ Len(t) \in Nat
        BY <4>1
      <4>3. QED
        BY <4>1, <4>2
    <3>5. QED
      BY <3>3, <3>4
  <2>2. CASE d # c
    <3>1. up'[d] = up[d]
      BY <1>1, <1>3, <2>2
    <3>2. i \in DOMAIN up[d] /\ up[d][i] = up[c][1]
      BY <1>4, <3>1
    <3>3. QED
      BY <1>2, <1>4, <2>2, <3>2 DEF OnceInv, OnceUp
  <2>3. QED
    BY <2>1, <2>2
<1>8. \A k : Taken(k) => Taken(k)'
  BY <1>1, <1>3, TakenKept
<1>9. \A k \in DOMAIN content : TokenOf(k) # x
  BY <1>6 DEF OnceInv, Apart
<1>10. OnceHandled'
  BY <1>3, <1>9 DEF OnceInv, OnceHandled
<1>11. Apart'
  BY <1>3, <1>5, <1>7 DEF OnceInv, Apart
<1>12. AckOfTold'
  <2> SUFFICES ASSUME NEW m \in Chats,
                      InUp(Token("Delivered", m))' \/ \E k \in DOMAIN content' : TokenOf(k)' = Token("Delivered", m)
               PROVE  told[m] # <<>>
    BY <1>3 DEF AckOfTold
  <2>1. InUp(Token("Delivered", m)) \/ \E k \in DOMAIN content : TokenOf(k) = Token("Delivered", m)
    BY <1>3, <1>5, <1>6
  <2>2. QED
    BY <2>1 DEF OnceInv, AckOfTold
<1>13. ToldTaken'
  BY <1>3, <1>8 DEF OnceInv, ToldTaken
<1>14. QED
  BY <1>5, <1>10, <1>11, <1>12, <1>13 DEF OnceInv

\* So nothing is written or handled twice.
LEMMA NextOnceInv == RInv /\ QInv /\ OnceInv /\ [DeliveryNext]_all => OnceInv'
<1> SUFFICES ASSUME RInv, QInv, OnceInv, [DeliveryNext]_all PROVE OnceInv'
  OBVIOUS
<1>1. RInv' /\ QInv' /\ [Next]_vars
  BY NextRInv, NextQInv, RelayStep
<1>2. CASE UNCHANGED all
  BY <1>2 DEF all, server, network, history, OnceInv, OnceUp, OnceHandled, Apart, AckOfTold, ToldTaken, InUp, Taken, TokenOf
<1>3. CASE DeliveryNext
  <2>1. PICK c \in Conns : Quiet(c) \/ Read(c) \/ \E u \in Users : SendMessage(c, u) \/ ReadMessage(c, u)
    BY <1>3, StepKinds
  <2>2. CASE Quiet(c)
    BY <1>1, <2>2, QuietOnce
  <2>3. CASE Read(c)
    BY <1>1, <2>3, ReadOnce
  <2>4. ASSUME NEW u \in Users, SendMessage(c, u) PROVE OnceInv'
    BY <1>1, <2>4, SendOnce
  <2>5. ASSUME NEW u \in Users, ReadMessage(c, u) PROVE OnceInv'
    BY <1>1, <2>5, HandleOnce
  <2>6. QED
    BY <2>1, <2>2, <2>3, <2>4, <2>5
<1>4. QED
  BY <1>2, <1>3

-----------------------------------------------------------------------------
\* The messages as the promise sees them.
Letters == [m \in DOMAIN sent |-> [from |-> sent[m].from, to |-> sent[m].to]]

Letter == [from : Users, to : Users]

\* There are as many as messages were sent.
LEMMA LettersTyped ==
  ASSUME NEW s \in Seq(Submission), NEW t, t = [m \in DOMAIN s |-> [from |-> s[m].from, to |-> s[m].to]]
  PROVE  /\ t \in Seq(Letter) /\ Len(t) = Len(s) /\ DOMAIN t = DOMAIN s /\ DOMAIN s = 1 .. Len(s) /\ Len(s) \in Nat
         /\ \A m \in DOMAIN s : t[m] = [from |-> s[m].from, to |-> s[m].to]
<1>1. DOMAIN s = 1 .. Len(s) /\ Len(s) \in Nat /\ \A m \in DOMAIN s : s[m] \in Submission
  OBVIOUS
<1>2. \A m \in DOMAIN s : [from |-> s[m].from, to |-> s[m].to] \in Letter
  BY <1>1 DEF Submission, Letter
<1>3. t \in [1 .. Len(s) -> Letter]
  BY <1>1, <1>2
<1>4. t \in Seq(Letter) /\ Len(t) = Len(s)
  <2> DEFINE n == Len(s)
  <2>1. n \in Nat /\ t \in [1 .. n -> Letter]
    BY <1>1, <1>3
  <2> HIDE DEF n
  <2>2. t \in Seq(Letter)
    BY <2>1
  <2>3. DOMAIN t = 1 .. n /\ DOMAIN t = 1 .. Len(t) /\ Len(t) \in Nat
    BY <2>1, <2>2
  <2>4. Len(t) = n
    BY <2>1, <2>3
  <2>5. QED
    BY <2>2, <2>4 DEF n
<1>5. QED
  BY <1>1, <1>4

\* SendMessage submits one.
LEMMA LettersSubmitted ==
  ASSUME RInv, QInv, NEW c \in Conns, NEW u \in Users, SendMessage(c, u)
  PROVE  /\ Letters' = Append(Letters, [from |-> Owner[c], to |-> u])
         /\ Len(Letters) < MaxChats
<1> USE DeliveryAssumption
<1>1. /\ sent \in Seq(Submission) /\ sent' \in Seq(Submission) /\ Len(sent') = Len(sent) + 1 /\ Len(sent) + 1 \in Chats
      /\ sent'[Len(sent) + 1] = [from |-> Owner[c], to |-> u, conn |-> c]
      /\ \A m \in DOMAIN sent : m \in DOMAIN sent' /\ sent'[m] = sent[m]
      /\ Len(sent) + 1 \in DOMAIN sent'
  <2>1. Sending(c, u)
    BY SendStep
  <2>2. sent \in Seq(Submission)
    BY DEF QInv, DeliveryTypeOK, Submission
  <2>3. QED
    BY <2>1, <2>2 DEF Sending
<1> DEFINE s == Letters
           t == Letters'
           l == [from |-> Owner[c], to |-> u]
<1>2. /\ s \in Seq(Letter) /\ Len(s) = Len(sent) /\ DOMAIN sent = 1 .. Len(sent) /\ Len(sent) \in Nat
      /\ \A m \in DOMAIN sent : s[m] = [from |-> sent[m].from, to |-> sent[m].to]
  <2>1. s = [m \in DOMAIN sent |-> [from |-> sent[m].from, to |-> sent[m].to]]
    BY DEF Letters
  <2> HIDE DEF s
  <2>2. QED
    BY <1>1, <2>1, LettersTyped
<1>3. /\ t \in Seq(Letter) /\ Len(t) = Len(sent')
      /\ \A m \in DOMAIN sent' : t[m] = [from |-> sent'[m].from, to |-> sent'[m].to]
  <2>1. t = [m \in DOMAIN sent' |-> [from |-> sent'[m].from, to |-> sent'[m].to]]
    BY DEF Letters
  <2> HIDE DEF t
  <2>2. QED
    BY <1>1, <2>1, LettersTyped
<1>4. l \in Letter
  BY DEF Letter
<1> HIDE DEF s, t
<1>5. t[Len(sent) + 1] = l
  BY <1>1, <1>3
<1>6. \A m \in 1 .. Len(sent) : t[m] = s[m]
  BY <1>1, <1>2, <1>3
<1> HIDE DEF l
<1> DEFINE a == Append(s, l)
<1>7. a \in Seq(Letter) /\ Len(a) = Len(s) + 1 /\ a[Len(s) + 1] = l /\ \A m \in 1 .. Len(s) : a[m] = s[m]
  BY <1>2, <1>4
<1> HIDE DEF a
<1>8. Len(t) = Len(a) /\ \A m \in 1 .. Len(t) : t[m] = a[m]
  BY <1>1, <1>2, <1>3, <1>5, <1>6, <1>7
<1>9. t = a
  BY <1>3, <1>7, <1>8, SeqEqual
<1>10. Len(s) < MaxChats
  BY <1>1, <1>2 DEF Chats
<1>11. QED
  BY <1>9, <1>10 DEF s, t, l, a

\* Every step is one of the promise, or none.
LEMMA StepKeepsMail ==
  RInv /\ QInv /\ OnceInv /\ [DeliveryNext]_all => [Promised!Next]_<<Letters, told, confirmed>>
<1> SUFFICES ASSUME RInv, QInv, OnceInv, [DeliveryNext]_all
             PROVE  Promised!Next \/ UNCHANGED <<Letters, told, confirmed>>
  OBVIOUS
<1> USE DeliveryAssumption
<1>1. ASSUME UNCHANGED <<sent, told, confirmed>> PROVE UNCHANGED <<Letters, told, confirmed>>
  BY <1>1 DEF Letters
<1>2. ASSUME NEW c \in Conns, NEW u \in Users, SendMessage(c, u) PROVE Promised!Next
  <2>1. Promised!Submit(Owner[c], u)
    BY <1>2, SendStep, LettersSubmitted DEF Promised!Submit, Letters, Sending
  <2>2. Owner[c] \in Users
    OBVIOUS
  <2>3. QED
    BY <2>1, <2>2 DEF Promised!Next
<1>3. ASSUME NEW c \in Conns, Read(c) PROVE Promised!Next \/ UNCHANGED <<Letters, told, confirmed>>
  <2>0. told \in [Chats -> Seq(Users)] /\ confirmed \in [Chats -> Nat] /\ Owner[c] \in Users
    BY DEF QInv, DeliveryTypeOK
  <2>1. PICK n : n = wire[c][got[c] + 1]
    OBVIOUS
  <2>2. PICK m : m = content[n].msg
    OBVIOUS
  <2>3. /\ sent' = sent /\ got[c] + 1 \in DOMAIN wire[c] /\ m \in DOMAIN sent /\ m \in Chats
        /\ \/ UNCHANGED <<told, confirmed>>
           \/ /\ content[n].kind = "chat" /\ sent[m].to = Owner[c]
              /\ told' = [told EXCEPT ![m] = Append(@, Owner[c])] /\ confirmed' = confirmed
           \/ /\ content[n].kind = "Delivered"
              /\ confirmed' = [confirmed EXCEPT ![m] = @ + 1] /\ told' = told
    <3>1. Reading(c, n, m)
      BY <1>3, <2>1, <2>2, ReadStep
    <3>2. QED
      BY <3>1 DEF Reading
  <2>4. got[c] + 1 \in DOMAIN wire[c]
    BY <2>3
  <2>5. /\ content[n].kind = "chat" => told[m] = <<>>
        /\ content[n].kind = "Delivered" => confirmed[m] = 0 /\ told[m] # <<>>
    BY <2>1, <2>2, <2>4, FirstTime
  <2>6. Letters' = Letters /\ m \in DOMAIN Letters /\ Letters[m].to = sent[m].to
    BY <2>3 DEF Letters
  <2>7. CASE UNCHANGED <<told, confirmed>>
    BY <2>6, <2>7
  <2>8. CASE /\ content[n].kind = "chat" /\ sent[m].to = Owner[c]
             /\ told' = [told EXCEPT ![m] = Append(@, Owner[c])] /\ confirmed' = confirmed
    <3>1. Append(<<>>, Owner[c]) = <<Owner[c]>>
      BY <2>0
    <3>2. told' = [told EXCEPT ![m] = <<Letters[m].to>>]
      BY <2>5, <2>6, <2>8, <3>1
    <3>3. Promised!Tell(m)
      BY <2>5, <2>6, <2>8, <3>2 DEF Promised!Tell, Letters
    <3>4. QED
      BY <2>6, <3>3 DEF Promised!Next, Letters
  <2>9. CASE /\ content[n].kind = "Delivered"
             /\ confirmed' = [confirmed EXCEPT ![m] = @ + 1] /\ told' = told
    <3>1. confirmed' = [confirmed EXCEPT ![m] = 1]
      <4>1. confirmed[m] + 1 = 1
        BY <2>5, <2>9
      <4>2. QED
        BY <2>9, <4>1
    <3>2. Promised!Confirm(m)
      BY <2>5, <2>6, <2>9, <3>1 DEF Promised!Confirm, Letters
    <3>3. QED
      BY <2>6, <3>2 DEF Promised!Next, Letters
  <2>10. QED
    BY <2>3, <2>7, <2>8, <2>9
<1>4. ASSUME NEW c \in Conns, Quiet(c) PROVE UNCHANGED <<sent, told, confirmed>>
  BY <1>4, QuietStep DEF RInv, QInv, DeliveryTypeOK, Items
<1>5. ASSUME NEW c \in Conns, NEW u \in Users, ReadMessage(c, u) PROVE UNCHANGED <<sent, told, confirmed>>
  BY <1>5 DEF ReadMessage, history
<1>6. CASE UNCHANGED all
  BY <1>1, <1>6 DEF all, history
<1>7. CASE DeliveryNext
  BY <1>1, <1>2, <1>3, <1>4, <1>5, <1>7, StepKinds
<1>8. QED
  BY <1>6, <1>7

\* Whatever connections break, are left or begun again, and whatever the relay stores,
\* flushes and loses: of each message nobody but the addressee is told, once at most, and
\* its sender at most once that it was delivered, and only when it was.
THEOREM KeptMail == DeliverySpec => MailIsKept
<1>1. DeliveryInit => Promised!Init
  <2> SUFFICES ASSUME DeliveryInit PROVE Promised!Init
    OBVIOUS
  <2>1. Letters = <<>>
    <3>1. sent = <<>> /\ <<>> \in Seq(Submission) /\ <<>> \in Seq(Letter) /\ Len(<<>>) = 0
      BY DEF DeliveryInit
    <3>2. Letters \in Seq(Letter) /\ Len(Letters) = 0
      BY <3>1, LettersTyped DEF Letters
    <3>3. QED
      BY <3>2, EmptySeq
  <2>2. QED
    BY <2>1 DEF DeliveryInit, Promised!Init, Letters, Chats
<1>2. QED
  BY <1>1, StepKeepsMail, InitRInv, NextRInv, InitQInv, NextQInv, InitOnceInv, NextOnceInv, PTL
  DEF DeliverySpec, MailIsKept, Promised!Spec, Letters

-----------------------------------------------------------------------------
\* A mailbox loses a stanza to the connection it is flushed to, and to nothing else.
LEMMA StoredKept ==
  ASSUME IInv, BlankInv, [Next]_vars, NEW u \in Users, NEW i \in DOMAIN messages[u]
  PROVE  \/ \E j \in DOMAIN messages'[u] : messages'[u][j] = messages[u][i]
         \/ \E c \in Conns : \E p \in DOMAIN wire'[c] : p > Len(wire[c]) /\ wire'[c][p] = messages[u][i]
<1> USE ServerAssumption
<1> DEFINE Stays == \E j \in DOMAIN messages'[u] : messages'[u][j] = messages[u][i]
<1>1. wire \in [Conns -> Seq(Nat)] /\ messages \in [Users -> Seq(Nat)] /\ Len(handled) \in Nat
  BY DEF IInv, TypeOK
<1>2. ASSUME messages'[u] = messages[u] PROVE Stays
  BY <1>2
<1>3. messages[u] # <<>>
  BY <1>1
<1>4. u \in known
  BY <1>3 DEF BlankInv, AbsentEntryBlank
<1>5. ASSUME NEW c \in Conns, OnConnection(c) \/ OnActiveUsers(c) \/ OnDisconnect(c) PROVE messages' = messages
  BY <1>5 DEF OnConnection, OnActiveUsers, OnDisconnect, table
<1>6. ASSUME NEW c \in Conns, NEW v \in Users, OnAuthenticate(c, v) PROVE messages'[u] = messages[u]
  BY <1>1, <1>4, <1>6 DEF OnAuthenticate, SetEntry, table
<1>7. ASSUME NEW c \in Conns, NEW k \in Keys, OnPublicKey(c, k) PROVE messages'[u] = messages[u]
  <2>1. jid[c] \in known
    BY <1>7, FlushedUser DEF OnPublicKey
  <2>2. QED
    BY <1>7, <2>1 DEF OnPublicKey
<1>8. ASSUME NEW c \in Conns, NEW v \in Users, OnMessage(c, v) PROVE Stays
  <2>1. CASE messages'[u] = messages[u]
    BY <1>2, <2>1
  <2>2. CASE messages'[u] # messages[u]
    <3>1. v = u /\ messages' = [messages EXCEPT ![u] = Append(@, Len(handled) + 1)]
      BY <1>1, <1>4, <1>8, <2>2 DEF OnMessage, HandleMessage, SetEntry, table
    <3> DEFINE s == messages[u]
               t == messages'[u]
    <3>2. s \in Seq(Nat) /\ t = Append(s, Len(handled) + 1) /\ i \in DOMAIN s
      BY <1>1, <3>1
    <3> HIDE DEF s, t
    <3>3. Longer(s, t) /\ t \in Seq(Nat)
      BY <1>1, <3>2, LongerAppend
    <3>4. i \in DOMAIN t /\ t[i] = s[i]
      BY <3>2, <3>3 DEF Longer
    <3>5. QED
      BY <3>4 DEF s, t
  <2>3. QED
    BY <2>1, <2>2
<1>9. ASSUME NEW c \in Conns, OnOnline(c)
      PROVE  Stays \/ \E p \in DOMAIN wire'[c] : p > Len(wire[c]) /\ wire'[c][p] = messages[u][i]
  <2>1. jid[c] \in Users /\ client[jid[c]] = c /\ c # NoConn
    BY <1>9, FlushedUser DEF OnOnline, Live
  <2>2. wire' = [wire EXCEPT ![c] = @ \o messages[jid[c]]] /\ messages' = [messages EXCEPT ![jid[c]] = <<>>]
    BY <1>9, <2>1 DEF OnOnline
  <2>3. CASE jid[c] # u
    BY <1>1, <1>2, <2>2, <2>3
  <2>4. CASE jid[c] = u
    <3> DEFINE s == wire[c]
               m == messages[u]
               t == wire'[c]
    <3>1. s \in Seq(Nat) /\ m \in Seq(Nat) /\ t = s \o m /\ i \in DOMAIN m
      BY <1>1, <2>2, <2>4
    <3> HIDE DEF s, m, t
    <3>2. /\ Len(s) \in Nat /\ Len(m) \in Nat /\ i \in 1 .. Len(m) /\ t \in Seq(Nat) /\ Len(t) = Len(s) + Len(m)
          /\ \A k \in 1 .. Len(s) + Len(m) : t[k] = IF k <= Len(s) THEN s[k] ELSE m[k - Len(s)]
      BY <3>1, ConcatProperties
    <3>3. DOMAIN t = 1 .. Len(s) + Len(m)
      BY <3>2
    <3>4. Len(s) + i \in DOMAIN t /\ Len(s) + i > Len(s) /\ t[Len(s) + i] = m[i]
      <4>1. Len(s) + i \in 1 .. Len(s) + Len(m) /\ ~(Len(s) + i <= Len(s)) /\ (Len(s) + i) - Len(s) = i
        BY <3>2
      <4>2. QED
        BY <3>2, <3>3, <4>1
    <3>5. QED
      BY <3>4 DEF s, m, t
  <2>5. QED
    BY <2>3, <2>4
<1>10. CASE UNCHANGED vars
  BY <1>2, <1>10 DEF vars
<1>11. QED
  BY <1>2, <1>5, <1>6, <1>7, <1>8, <1>9, <1>10 DEF Next

\* A stanza whose addressee is known is stored for it or written to it.
LEMMA HandledKept ==
  ASSUME IInv, IInv', NEW c \in Conns, NEW u \in Users, OnMessage(c, u), u \in known,
         NEW n, n = Len(handled) + 1
  PROVE  \/ \E j \in DOMAIN messages'[u] : messages'[u][j] = n
         \/ \E d \in Conns : \E p \in DOMAIN wire'[d] : p > Len(wire[d]) /\ wire'[d][p] = n
<1> USE ServerAssumption
<1>1. wire \in [Conns -> Seq(Nat)] /\ messages \in [Users -> Seq(Nat)] /\ client \in [Users -> Conns \cup {NoConn}]
      /\ n \in Nat
  BY DEF IInv, TypeOK
<1>2. ASSUME NEW s \in Seq(Nat) PROVE Len(s) + 1 \in DOMAIN Append(s, n) /\ Append(s, n)[Len(s) + 1] = n /\ Len(s) + 1 > Len(s)
  BY <1>1
<1>3. CASE client[u] # NoConn /\ wire' = [wire EXCEPT ![client[u]] = Append(@, n)]
  <2>1. PICK d \in Conns : d = client[u]
    BY <1>1, <1>3
  <2>2. wire'[d] = Append(wire[d], n)
    BY <1>1, <1>3, <2>1
  <2>3. QED
    BY <1>1, <1>2, <2>2
<1>4. CASE messages' = [messages EXCEPT ![u] = Append(@, n)]
  <2>1. messages'[u] = Append(messages[u], n)
    BY <1>1, <1>4
  <2>2. QED
    BY <1>1, <1>2, <2>1
<1>5. QED
  BY <1>3, <1>4 DEF OnMessage, HandleMessage

-----------------------------------------------------------------------------
\* A connection the relay does not know has not been opened; and before a session is
\* established its client has not read past the answer.
ClientInv ==
  /\ \A c \in Conns : phase[c] = "unused" => session[c] = "none" /\ link[c] = "none"
  /\ \A c \in Conns : session[c] \in {"none", "opening", "binding"} => ready[c] = Unanswered \/ got[c] <= ready[c]

\* No connection has been opened at the start.
LEMMA InitClientInv == DeliveryInit => ClientInv
BY DEF DeliveryInit, Init, ClientInv

\* What a quiet step makes of the session of its connection.
LEMMA QuietSession ==
  ASSUME DInv, ClientInv, NEW c \in Conns, Quiet(c)
  PROVE  /\ \A d \in Conns \ {c} : session'[d] = session[d] /\ link'[d] = link[d]
         /\ \A d \in Conns : phase'[d] = "unused" => phase[d] = "unused"
         /\ phase'[c] # "unused" \/ UNCHANGED <<session, link>>
         /\ session'[c] \in {"none", "opening", "binding"} => session[c] \in {"none", "opening", "binding"}
         /\ Broken(c) => Broken(c)'
<1> USE DEF DInv, IInv, TypeOK, SidesTyped, Phases, Broken
<1>1. CASE Login(c)
  BY <1>1 DEF Login, OnConnection, ClientInv
<1>2. CASE Succeed(c)
  BY <1>2 DEF Succeed, server, Live
<1>3. CASE Refused(c)
  <2>1. link[c] = "up" /\ session[c] = "opening" /\ phase[c] = "refused" /\ UNCHANGED <<phase, link>>
    BY <1>3 DEF Refused, server
  <2>2. session' = session \/ session' = [session EXCEPT ![c] = "ended"]
    BY <1>3 DEF Refused
  <2>3. QED
    BY <2>1, <2>2
<1>4. CASE Established(c)
  <2>1. link[c] = "up" /\ session[c] = "binding" /\ UNCHANGED <<phase, link>> /\ session' = [session EXCEPT ![c] = "connected"]
    BY <1>4 DEF Established, server, network
  <2>2. phase[c] # "unused"
    BY <2>1 DEF ClientInv
  <2>3. QED
    BY <2>1, <2>2
<1>5. CASE Disconnect(c)
  <2>1. Using(c) /\ UNCHANGED <<phase, link>> /\ session' = [session EXCEPT ![c] = "ended"]
    BY <1>5 DEF Disconnect, server
  <2>2. phase[c] # "unused"
    BY <2>1 DEF ClientInv, Using
  <2>3. QED
    BY <2>1, <2>2
<1>6. CASE Cut(c)
  <2>1. link[c] = "up" /\ UNCHANGED <<phase, session>> /\ link' = [link EXCEPT ![c] = "cut"]
    BY <1>6 DEF Cut, server
  <2>2. phase[c] # "unused"
    BY <2>1 DEF ClientInv
  <2>3. QED
    BY <2>1, <2>2
<1>7. CASE ClientNotices(c)
  <2>1. link[c] = "cut" /\ UNCHANGED <<phase, link>> /\ session' = [session EXCEPT ![c] = "ended"]
    BY <1>7 DEF ClientNotices, server, network
  <2>2. phase[c] # "unused"
    BY <2>1 DEF ClientInv
  <2>3. QED
    BY <2>1, <2>2
<1>8. CASE ServerNotices(c)
  BY <1>8 DEF ServerNotices, OnDisconnect, network
<1>9. CASE ReadAuth(c)
  <2>1. UNCHANGED <<session, link>>
    BY <1>9 DEF ReadAuth
  <2>2. phase' = [phase EXCEPT ![c] = "authenticated"] \/ phase' = [phase EXCEPT ![c] = "refused"]
    BY <1>9 DEF ReadAuth, OnAuthenticate, Accept
  <2>3. QED
    BY <2>1, <2>2
<1>10. CASE ReadSession(c)
  BY <1>10 DEF ReadSession, server
<1>11. CASE Online(c)
  BY <1>11 DEF Online, OnOnline, network
<1>12. CASE ReadClose(c)
  BY <1>12 DEF ReadClose, OnDisconnect
<1>13. QED
  BY <1>1, <1>2, <1>3, <1>4, <1>5, <1>6, <1>7, <1>8, <1>9, <1>10, <1>11, <1>12 DEF Quiet

\* No step mends a connection.
LEMMA BrokenKept ==
  ASSUME RInv, QInv, ClientInv, [DeliveryNext]_all, NEW c \in Conns, Broken(c)
  PROVE  Broken(c)'
<1>1. ASSUME UNCHANGED <<session, link>> PROVE Broken(c)'
  BY <1>1 DEF Broken
<1>2. ASSUME NEW d \in Conns, Quiet(d) PROVE Broken(c)'
  <2>1. CASE d = c
    BY <1>2, <2>1, QuietSession DEF RInv
  <2>2. CASE d # c
    <3>1. session'[c] = session[c] /\ link'[c] = link[c]
      BY <1>2, <2>2, QuietSession DEF RInv
    <3>2. QED
      BY <3>1 DEF Broken
  <2>3. QED
    BY <2>1, <2>2
<1>3. ASSUME NEW d \in Conns, Read(d) PROVE UNCHANGED <<session, link>>
  BY <1>3 DEF Read
<1>4. ASSUME NEW d \in Conns, NEW u \in Users, SendMessage(d, u) \/ ReadMessage(d, u) PROVE UNCHANGED <<session, link>>
  BY <1>4 DEF SendMessage, ReadMessage
<1>5. CASE UNCHANGED all
  BY <1>1, <1>5 DEF all, network
<1>6. QED
  BY <1>1, <1>2, <1>3, <1>4, <1>5, StepKinds

\* Every step keeps it: the answer is written after what came before it.
LEMMA NextClientInv == RInv /\ QInv /\ ClientInv /\ [DeliveryNext]_all => ClientInv'
<1> SUFFICES ASSUME RInv, QInv, ClientInv, [DeliveryNext]_all PROVE ClientInv'
  OBVIOUS
<1>0. /\ got \in [Conns -> Nat] /\ ready \in [Conns -> 0 .. Unanswered]
      /\ \A c \in Conns : got[c] <= Len(wire[c])
  BY DEF QInv, DeliveryTypeOK
<1>1. ASSUME UNCHANGED <<session, link, phase, ready, got>> PROVE ClientInv'
  BY <1>1 DEF ClientInv
<1>2. ASSUME NEW c \in Conns, Quiet(c) PROVE ClientInv'
  <2>1. /\ \A d \in Conns \ {c} : session'[d] = session[d] /\ link'[d] = link[d]
        /\ \A d \in Conns : phase'[d] = "unused" => phase[d] = "unused"
        /\ phase'[c] # "unused" \/ UNCHANGED <<session, link>>
        /\ session'[c] \in {"none", "opening", "binding"} => session[c] \in {"none", "opening", "binding"}
    BY <1>2, QuietSession DEF RInv
  <2>2. got' = got /\ (ready' = ready \/ ready' = [ready EXCEPT ![c] = Len(wire[c])])
    <3>1. DInv /\ up \in [Conns -> Seq(Items)]
      BY DEF RInv, QInv, DeliveryTypeOK, Items
    <3>2. QED
      BY <1>2, <3>1, QuietStep
  <2>3. \A d \in Conns : phase'[d] = "unused" => session'[d] = "none" /\ link'[d] = "none"
    BY <2>1 DEF ClientInv
  <2>4. \A d \in Conns : ready[d] = Unanswered \/ got[d] <= ready[d] => ready'[d] = Unanswered \/ got'[d] <= ready'[d]
    BY <1>0, <2>2
  <2>5. QED
    BY <2>1, <2>3, <2>4 DEF ClientInv
<1>3. ASSUME NEW c \in Conns, NEW u \in Users, SendMessage(c, u) \/ ReadMessage(c, u) PROVE ClientInv'
  <2>1. UNCHANGED <<session, link, phase, ready, got>>
    BY <1>3 DEF SendMessage, ReadMessage, OnMessage, server, streams
  <2>2. QED
    BY <1>1, <2>1
<1>4. ASSUME NEW c \in Conns, Read(c) PROVE ClientInv'
  <2>1. UNCHANGED <<session, link, phase, ready>> /\ got' = [got EXCEPT ![c] = @ + 1]
        /\ session[c] \in {"binding", "connected"} /\ (session[c] = "binding" => got[c] # ready[c])
    BY <1>4 DEF Read, server
  <2>2. ASSUME NEW d \in Conns, session[d] \in {"none", "opening", "binding"}
        PROVE  ready[d] = Unanswered \/ got'[d] <= ready[d]
    <3>1. ready[d] = Unanswered \/ got[d] <= ready[d]
      BY <2>2 DEF ClientInv
    <3>2. CASE d = c
      <4>1. session[c] = "binding"
        BY <2>1, <2>2, <3>2
      <4>2. got[c] # ready[c] /\ got'[c] = got[c] + 1 /\ got[c] \in Nat /\ ready[c] \in Nat
        BY <1>0, <2>1, <4>1
      <4>3. QED
        BY <3>1, <3>2, <4>2
    <3>3. CASE d # c
      BY <1>0, <2>1, <3>1, <3>3
    <3>4. QED
      BY <3>2, <3>3
  <2>3. QED
    BY <2>1, <2>2 DEF ClientInv
<1>5. CASE UNCHANGED all
  BY <1>1, <1>5 DEF all, server, network
<1>6. QED
  BY <1>2, <1>3, <1>4, <1>5, StepKinds

-----------------------------------------------------------------------------
\* The record of what was handled, and of what was told, only grows.
LEMMA HistoryKept ==
  ASSUME RInv, QInv, [DeliveryNext]_all, NEW n \in DOMAIN content
  PROVE  /\ n \in DOMAIN content' /\ content'[n] = content[n] /\ handled'[n] = handled[n]
         /\ Arrived(n) => Arrived(n)'
<1>0. told \in [Chats -> Seq(Users)] /\ confirmed \in [Chats -> Nat] /\ up \in [Conns -> Seq(Items)] /\ DInv
  BY DEF QInv, DeliveryTypeOK, Items, RInv
<1>1. ASSUME UNCHANGED <<content, handled, told, confirmed>>
      PROVE  /\ n \in DOMAIN content' /\ content'[n] = content[n] /\ handled'[n] = handled[n]
             /\ Arrived(n) => Arrived(n)'
  BY <1>1 DEF Arrived
<1>2. ASSUME NEW c \in Conns, Quiet(c) PROVE UNCHANGED <<content, handled, told, confirmed>>
  BY <1>0, <1>2, QuietStep
<1>3. ASSUME NEW c \in Conns, NEW u \in Users, SendMessage(c, u) PROVE UNCHANGED <<content, handled, told, confirmed>>
  BY <1>3 DEF SendMessage, server
<1>4. ASSUME NEW c \in Conns, NEW u \in Users, ReadMessage(c, u)
      PROVE  /\ n \in DOMAIN content' /\ content'[n] = content[n] /\ handled'[n] = handled[n]
             /\ Arrived(n) => Arrived(n)'
  <2>1. PICK x \in Content, k \in Nat : Handling(c, u, x, k)
    BY <1>4, HandleStep
  <2>2. n \in DOMAIN content' /\ content'[n] = content[n] /\ handled'[n] = handled[n] /\ UNCHANGED <<told, confirmed>>
    BY <2>1 DEF Handling
  <2>3. QED
    BY <2>2 DEF Arrived
<1>5. ASSUME NEW c \in Conns, Read(c)
      PROVE  /\ n \in DOMAIN content' /\ content'[n] = content[n] /\ handled'[n] = handled[n]
             /\ Arrived(n) => Arrived(n)'
  <2>1. PICK k : k = wire[c][got[c] + 1]
    OBVIOUS
  <2>2. PICK m : m = content[k].msg
    OBVIOUS
  <2>3. Reading(c, k, m)
    BY <1>5, <2>1, <2>2, ReadStep
  <2>4. /\ UNCHANGED <<content, handled>> /\ m \in Chats
        /\ \/ UNCHANGED <<told, confirmed>>
           \/ told' = [told EXCEPT ![m] = Append(@, Owner[c])] /\ confirmed' = confirmed
           \/ confirmed' = [confirmed EXCEPT ![m] = @ + 1] /\ told' = told
    BY <2>3 DEF Reading
  <2>5. PICK j : j = content[n].msg
    OBVIOUS
  <2>6. told[j] # <<>> => told'[j] # <<>>
    <3>1. CASE told' = [told EXCEPT ![m] = Append(@, Owner[c])] /\ j = m
      <4>1. told[m] \in Seq(Users) /\ told'[m] = Append(told[m], Owner[c])
        BY <1>0, <2>4, <3>1
      <4>2. QED
        BY <3>1, <4>1
    <3>2. CASE told' = [told EXCEPT ![m] = Append(@, Owner[c])] /\ j # m
      BY <1>0, <3>2
    <3>3. QED
      BY <2>4, <3>1, <3>2
  <2>7. confirmed[j] > 0 => confirmed'[j] > 0
    <3>1. CASE confirmed' = [confirmed EXCEPT ![m] = @ + 1] /\ j = m
      BY <1>0, <2>4, <3>1
    <3>2. CASE confirmed' = [confirmed EXCEPT ![m] = @ + 1] /\ j # m
      BY <1>0, <3>2
    <3>3. QED
      BY <2>4, <3>1, <3>2
  <2>8. QED
    BY <2>4, <2>5, <2>6, <2>7 DEF Arrived
<1>6. CASE UNCHANGED all
  BY <1>1, <1>6 DEF all, server, network, history
<1>7. QED
  BY <1>1, <1>2, <1>3, <1>4, <1>5, <1>6, StepKinds

\* What the relay wrote stays where it is, and a reason for its loss remains one.
LEMMA ExcusedKept ==
  ASSUME RInv, RInv', QInv, ClientInv, [DeliveryNext]_all, NEW n \in DOMAIN content, Excused(n)
  PROVE  Excused(n)'
<1>0. IInv /\ IInv' /\ [Next]_vars /\ got \in [Conns -> Nat] /\ ready \in [Conns -> 0 .. Unanswered]
  BY RelayStep DEF RInv, DInv, QInv, DeliveryTypeOK
<1>1. CASE content[n].fresh
  BY <1>1, HistoryKept DEF Excused
<1>2. ASSUME NEW c \in Conns, NEW p \in 1 .. MaxMsgs, OnWire(n, c, p),
             Broken(c) \/ ready[c] = Unanswered \/ p <= ready[c]
      PROVE  Excused(n)'
  <2>1. OnWire(n, c, p)'
    BY <1>0, <1>2, WireKept DEF OnWire
  <2>2. CASE Broken(c)
    BY <2>1, <2>2, BrokenKept DEF Excused
  <2>3. CASE ready[c] = Unanswered \/ p <= ready[c]
    <3>1. ready'[c] = ready[c] \/ ready'[c] = Len(wire[c])
      <4>1. ASSUME NEW d \in Conns, Quiet(d) PROVE ready'[c] = ready[c] \/ ready'[c] = Len(wire[c])
        <5>1. DInv /\ up \in [Conns -> Seq(Items)]
          BY DEF RInv, QInv, DeliveryTypeOK, Items
        <5>2. ready' = ready \/ ready' = [ready EXCEPT ![d] = Len(wire[d])]
          BY <4>1, <5>1, QuietStep
        <5>3. CASE d = c
          BY <1>0, <5>2, <5>3
        <5>4. CASE d # c
          BY <1>0, <5>2, <5>4
        <5>5. QED
          BY <5>3, <5>4
      <4>2. ASSUME NEW d \in Conns, NEW u \in Users, SendMessage(d, u) \/ ReadMessage(d, u) PROVE ready' = ready
        BY <4>2 DEF SendMessage, ReadMessage
      <4>3. ASSUME NEW d \in Conns, Read(d) PROVE ready' = ready
        BY <4>3 DEF Read
      <4>4. CASE UNCHANGED all
        BY <4>4 DEF all, network
      <4>5. QED
        BY <4>1, <4>2, <4>3, <4>4, StepKinds
    <3>2. p <= Len(wire[c])
      BY <1>0, <1>2, WireKept DEF OnWire
    <3>3. ready'[c] = Unanswered \/ p <= ready'[c]
      BY <2>3, <3>1, <3>2
    <3>4. QED
      BY <2>1, <3>3 DEF Excused
  <2>4. QED
    BY <1>2, <2>2, <2>3
<1>3. QED
  BY <1>1, <1>2 DEF Excused

\* What the relay writes is not read in the same step.
LEMMA WrittenKept ==
  ASSUME RInv, RInv', QInv, QInv', [DeliveryNext]_all, NEW c \in Conns, NEW p \in DOMAIN wire'[c], p > Len(wire[c]),
         NEW n, n = wire'[c][p]
  PROVE  Kept(n)'
<1>0. IInv /\ IInv' /\ PlaceInv' /\ Len(handled') <= MaxMsgs /\ [Next]_vars
      /\ got \in [Conns -> Nat] /\ up \in [Conns -> Seq(Items)] /\ DInv
      /\ got[c] <= Len(wire[c])
  BY RelayStep DEF RInv, DInv, QInv, DeliveryTypeOK, Counted, Items
<1>1. Len(wire'[c]) <= MaxMsgs /\ p \in 1 .. Len(wire'[c]) /\ Len(wire'[c]) \in Nat /\ Len(wire[c]) \in Nat
  <2>1. wire'[c] \in Seq(Nat) /\ Len(handled') \in Nat
    BY <1>0 DEF IInv, TypeOK
  <2>2. \A i \in DOMAIN wire'[c] : wire'[c][i] \in 1 .. Len(handled')
    BY <1>0 DEF PlaceInv, NumbersHandled
  <2>3. \A i, j \in DOMAIN wire'[c] : wire'[c][i] = wire'[c][j] => i = j
    BY <1>0 DEF PlaceInv, SentOnce
  <2>4. Len(wire'[c]) <= Len(handled')
    BY <2>1, <2>2, <2>3, NoRepetition
  <2>5. /\ Len(wire[c]) \in Nat /\ Len(wire'[c]) \in Nat /\ DOMAIN wire'[c] = 1 .. Len(wire'[c])
    BY <1>0, WireKept
  <2>6. QED
    BY <1>0, <2>1, <2>4, <2>5, ServerAssumption
<1>2. p \in 1 .. MaxMsgs
  BY <1>1, ServerAssumption
<1>3. wire' # wire
  BY <1>1
<1>4. got' = got
  <2>1. ASSUME NEW d \in Conns, Quiet(d) PROVE got' = got
    BY <1>0, <2>1, QuietStep
  <2>2. ASSUME NEW d \in Conns, NEW u \in Users, SendMessage(d, u) \/ ReadMessage(d, u) PROVE got' = got
    BY <2>2 DEF SendMessage, ReadMessage
  <2>3. ASSUME NEW d \in Conns, Read(d) PROVE FALSE
    BY <1>3, <2>3 DEF Read, server
  <2>4. CASE UNCHANGED all
    BY <2>4 DEF all, network
  <2>5. QED
    BY <2>1, <2>2, <2>3, <2>4, StepKinds
<1>5. got'[c] < p
  BY <1>0, <1>1, <1>4
<1>6. OnWire(n, c, p)'
  BY DEF OnWire
<1>7. QED
  BY <1>2, <1>5, <1>6 DEF Kept

\* Only reading moves what a client has read.
LEMMA GotMoves ==
  ASSUME RInv, QInv, [DeliveryNext]_all, NEW c \in Conns, got'[c] # got[c]
  PROVE  Read(c)
<1>1. ASSUME NEW d \in Conns, Quiet(d) PROVE FALSE
  <2>1. DInv /\ up \in [Conns -> Seq(Items)]
    BY DEF RInv, QInv, DeliveryTypeOK, Items
  <2>2. QED
    BY <1>1, <2>1, QuietStep
<1>2. ASSUME NEW d \in Conns, NEW u \in Users, SendMessage(d, u) \/ ReadMessage(d, u) PROVE FALSE
  BY <1>2 DEF SendMessage, ReadMessage
<1>3. ASSUME NEW d \in Conns, Read(d) PROVE d = c
  <2>1. got \in [Conns -> Nat] /\ got' = [got EXCEPT ![d] = @ + 1]
    BY <1>3 DEF Read, QInv, DeliveryTypeOK
  <2>2. QED
    BY <2>1
<1>4. ~UNCHANGED all
  BY DEF all, network
<1>5. QED
  BY <1>1, <1>2, <1>3, <1>4, StepKinds

Cared(n) == Arrived(n) \/ Excused(n) \/ Kept(n)

\* A stanza that is read is told, or its session was not established.
LEMMA ReadCared ==
  ASSUME RInv, RInv', QInv, ClientInv, [DeliveryNext]_all, NEW c \in Conns, Read(c),
         NEW n, n = wire[c][got[c] + 1]
  PROVE  Cared(n)'
<1>1. PICK m : m = content[n].msg
  OBVIOUS
<1>2. Reading(c, n, m)
  BY <1>1, ReadStep
<1>3. n \in DOMAIN content /\ content' = content /\ m \in Chats
  BY <1>2 DEF Reading
<1>4. CASE session[c] = "binding" /\ got[c] # ready[c]
  <2>1. got[c] \in Nat /\ ready[c] \in Nat /\ (ready[c] = Unanswered \/ got[c] <= ready[c])
    <3>1. ready[c] \in 0 .. Unanswered /\ got[c] \in Nat
      BY DEF QInv, DeliveryTypeOK
    <3>2. QED
      BY <1>4, <3>1 DEF ClientInv
  <2>2. PICK p \in Nat : p = got[c] + 1
    BY <2>1
  <2>3. ready[c] = Unanswered \/ p <= ready[c]
    BY <1>4, <2>1, <2>2
  <2>4. OnWire(n, c, p)
    BY <1>2, <2>2 DEF Reading, OnWire
  <2>5. p \in 1 .. MaxMsgs
    <3>1. Len(wire[c]) \in Nat /\ Len(wire[c]) <= MaxMsgs
      BY WireBounded DEF RInv, DInv, QInv, Counted
    <3>2. p <= Len(wire[c])
      BY <1>2, <2>2 DEF Reading
    <3>3. QED
      BY <2>1, <2>2, <3>1, <3>2, ServerAssumption
  <2>6. Excused(n)
    BY <2>3, <2>4, <2>5 DEF Excused
  <2>7. QED
    BY <1>3, <2>6, ExcusedKept DEF Cared
<1>5. CASE content[n].kind = "chat" /\ told' = [told EXCEPT ![m] = Append(@, Owner[c])]
  <2>1. told \in [Chats -> Seq(Users)] /\ Owner[c] \in Users
    BY DeliveryAssumption DEF QInv, DeliveryTypeOK
  <2>2. told'[m] = Append(told[m], Owner[c]) /\ told[m] \in Seq(Users)
    BY <1>3, <1>5, <2>1
  <2>3. told'[m] # <<>>
    BY <2>2
  <2>4. Arrived(n)'
    BY <1>1, <1>3, <1>5, <2>3 DEF Arrived
  <2>5. QED
    BY <2>4 DEF Cared
<1>6. CASE content[n].kind = "Delivered" /\ confirmed' = [confirmed EXCEPT ![m] = @ + 1]
  <2>1. confirmed \in [Chats -> Nat]
    BY DEF QInv, DeliveryTypeOK
  <2>2. confirmed'[m] > 0
    BY <1>3, <1>6, <2>1
  <2>3. Arrived(n)'
    BY <1>1, <1>3, <1>6, <2>2 DEF Arrived
  <2>4. QED
    BY <2>3 DEF Cared
<1>7. QED
  BY <1>2, <1>4, <1>5, <1>6 DEF Reading

\* What was accounted for stays so.
LEMMA CaredKept ==
  ASSUME RInv, RInv', QInv, QInv', ClientInv, [DeliveryNext]_all, NEW n \in DOMAIN content, Cared(n)
  PROVE  n \in DOMAIN content' /\ content'[n] = content[n] /\ Cared(n)'
<1>0. /\ n \in DOMAIN content' /\ content'[n] = content[n] /\ handled'[n] = handled[n]
      /\ Arrived(n) => Arrived(n)'
  BY HistoryKept
<1>1. IInv /\ IInv' /\ BlankInv /\ [Next]_vars
  BY RelayStep DEF RInv, DInv
<1>2. PICK u \in Users : u = handled[n]
  <2>1. content \in Seq(Stanzas) /\ Len(content) = Len(handled) /\ handled \in Seq(Users)
    BY <1>1 DEF QInv, DeliveryTypeOK, Counted, Stanzas, IInv, TypeOK
  <2>2. QED
    BY <2>1
<1>3. CASE Arrived(n)
  BY <1>0, <1>3 DEF Cared
<1>4. CASE Excused(n)
  BY <1>0, <1>4, ExcusedKept DEF Cared
<1>5. ASSUME NEW i \in DOMAIN messages[u], messages[u][i] = n PROVE Kept(n)'
  <2>1. \/ \E j \in DOMAIN messages'[u] : messages'[u][j] = messages[u][i]
        \/ \E c \in Conns : \E p \in DOMAIN wire'[c] : p > Len(wire[c]) /\ wire'[c][p] = messages[u][i]
    BY <1>1, StoredKept
  <2>2. CASE \E j \in DOMAIN messages'[u] : messages'[u][j] = messages[u][i]
    <3>1. \E j \in DOMAIN messages'[handled'[n]] : messages'[handled'[n]][j] = n
      BY <1>0, <1>2, <1>5, <2>2
    <3>2. QED
      BY <3>1 DEF Kept
  <2>3. ASSUME NEW c \in Conns, NEW p \in DOMAIN wire'[c], p > Len(wire[c]), wire'[c][p] = messages[u][i] PROVE Kept(n)'
    BY <1>5, <2>3, WrittenKept
  <2>4. QED
    BY <2>1, <2>2, <2>3
<1>6. ASSUME NEW c \in Conns, NEW p \in 1 .. MaxMsgs, OnWire(n, c, p), got[c] < p PROVE Cared(n)'
  <2>1. got[c] \in Nat
    BY DEF QInv, DeliveryTypeOK
  <2>2. OnWire(n, c, p)'
    BY <1>1, <1>6, WireKept DEF OnWire
  <2>3. CASE got'[c] < p
    <3>1. Kept(n)'
      BY <2>2, <2>3 DEF Kept
    <3>2. QED
      BY <3>1 DEF Cared
  <2>4. CASE ~(got'[c] < p)
    <3>1. Read(c)
      BY <1>6, <2>4, GotMoves
    <3>2. got'[c] = got[c] + 1
      BY <3>1 DEF Read, QInv, DeliveryTypeOK
    <3>3. p = got[c] + 1
      BY <1>6, <2>1, <2>4, <3>2
    <3>4. n = wire[c][got[c] + 1]
      BY <1>6, <3>3 DEF OnWire
    <3>5. QED
      BY <3>1, <3>4, ReadCared
  <2>5. QED
    BY <2>3, <2>4
<1>7. ASSUME Kept(n) PROVE Cared(n)'
  <2>1. \/ \E i \in DOMAIN messages[u] : messages[u][i] = n
        \/ \E c \in Conns, p \in 1 .. MaxMsgs : OnWire(n, c, p) /\ got[c] < p
    BY <1>2, <1>7 DEF Kept
  <2>2. Kept(n)' => Cared(n)'
    BY DEF Cared
  <2>3. QED
    BY <1>5, <1>6, <2>1, <2>2
<1>8. QED
  BY <1>0, <1>3, <1>4, <1>7 DEF Cared

\* A stanza the relay has just handled is accounted for.
LEMMA HandledCared ==
  ASSUME RInv, RInv', QInv, QInv', [DeliveryNext]_all, NEW c \in Conns, NEW u \in Users, ReadMessage(c, u),
         NEW x, NEW n, Handling(c, u, x, n)
  PROVE  Cared(n)'
<1>1. n = Len(handled) + 1 /\ handled'[n] = u
  BY DEF Handling
<1>2. CASE u \notin known
  <2>1. content'[n] = [kind |-> x.kind, msg |-> x.msg, fresh |-> TRUE]
    <3>1. content'[n] = [kind |-> x.kind, msg |-> x.msg, fresh |-> u \notin known]
      BY DEF Handling
    <3>2. (u \notin known) = TRUE
      BY <1>2
    <3>3. QED
      BY <3>1, <3>2, Zenon
  <2>2. Excused(n)'
    BY <2>1 DEF Excused
  <2>3. QED
    BY <2>2 DEF Cared
<1>3. CASE u \in known
  <2>1. IInv /\ IInv' /\ OnMessage(c, u)
    BY DEF RInv, DInv, ReadMessage
  <2>2. \/ \E j \in DOMAIN messages'[u] : messages'[u][j] = n
        \/ \E d \in Conns : \E p \in DOMAIN wire'[d] : p > Len(wire[d]) /\ wire'[d][p] = n
    BY <1>1, <1>3, <2>1, HandledKept
  <2>3. CASE \E j \in DOMAIN messages'[u] : messages'[u][j] = n
    <3>1. Kept(n)'
      BY <1>1, <2>3 DEF Kept
    <3>2. QED
      BY <3>1 DEF Cared
  <2>4. ASSUME NEW d \in Conns, NEW p \in DOMAIN wire'[d], p > Len(wire[d]), wire'[d][p] = n PROVE Cared(n)'
    BY <2>4, WrittenKept DEF Cared
  <2>5. QED
    BY <2>2, <2>3, <2>4
<1>4. QED
  BY <1>2, <1>3

-----------------------------------------------------------------------------
\* The client has written it and it is on its way to the relay.
Waiting(c, x) == \E i \in DOMAIN up[c] : up[c][i] = x

\* What a client wrote is lost with its connection only, until the relay handles it.
LEMMA WaitingKept ==
  ASSUME RInv, RInv', QInv, QInv', [DeliveryNext]_all, NEW c \in Conns, NEW x \in Content, Waiting(c, x)
  PROVE  \/ Broken(c)'
         \/ Waiting(c, x)'
         \/ \E n \in DOMAIN content' : content'[n].kind = x.kind /\ content'[n].msg = x.msg /\ Cared(n)'
<1>0. up \in [Conns -> Seq(Items)] /\ DInv
  BY DEF QInv, DeliveryTypeOK, Items, RInv
<1>1. PICK i \in DOMAIN up[c] : up[c][i] = x
  BY DEF Waiting
<1>2. ASSUME up'[c] = up[c] PROVE Waiting(c, x)'
  BY <1>1, <1>2 DEF Waiting
<1>3. ASSUME NEW d \in Conns, NEW y \in Items, up' = [up EXCEPT ![d] = Append(@, y)] PROVE Waiting(c, x)'
  <2>1. /\ \A e \in Conns \ {d} : up'[e] = up[e]
        /\ \A j \in DOMAIN up[d] : j \in DOMAIN up'[d] /\ up'[d][j] = up[d][j]
    BY <1>0, <1>3, AddItem
  <2>2. i \in DOMAIN up'[c] /\ up'[c][i] = x
    BY <1>1, <2>1
  <2>3. QED
    BY <2>2 DEF Waiting
<1>4. ASSUME NEW d \in Conns, Quiet(d) PROVE Broken(c)' \/ Waiting(c, x)'
  <2>1. (\E y \in Control : up' = [up EXCEPT ![d] = Append(@, y)]) \/ Narrowed(d)
    BY <1>0, <1>4, QuietStep
  <2>2. ASSUME NEW y \in Control, up' = [up EXCEPT ![d] = Append(@, y)] PROVE Waiting(c, x)'
    BY <1>3, <2>2 DEF Items
  <2>3. ASSUME Narrowed(d) PROVE Broken(c)' \/ Waiting(c, x)'
    <3>1. PICK s \in Seq(Items) : up' = [up EXCEPT ![d] = s] /\ (Broken(d)' \/ Keeps(up[d], s))
      BY <2>3 DEF Narrowed
    <3>2. CASE d = c
      <4>1. up'[c] = s
        BY <1>0, <3>1, <3>2
      <4>2. Keeps(up[c], s) => Waiting(c, x)'
        BY <1>1, <4>1 DEF Keeps, Waiting
      <4>3. QED
        BY <3>1, <3>2, <4>2
    <3>3. CASE d # c
      BY <1>0, <1>2, <3>1, <3>3
    <3>4. QED
      BY <3>2, <3>3
  <2>4. QED
    BY <2>1, <2>2, <2>3
<1>5. ASSUME NEW d \in Conns, NEW u \in Users, SendMessage(d, u) PROVE Waiting(c, x)'
  <2>1. Sending(d, u)
    BY <1>5, SendStep
  <2>2. CASE up' = up
    BY <1>2, <2>2
  <2>3. CASE up' = [up EXCEPT ![d] = Append(@, [kind |-> "chat", msg |-> Len(sent) + 1])]
    <3>1. [kind |-> "chat", msg |-> Len(sent) + 1] \in Items
      BY <2>1 DEF Sending, Items
    <3>2. QED
      BY <1>3, <2>3, <3>1
  <2>4. QED
    BY <2>1, <2>2, <2>3 DEF Sending
<1>6. ASSUME NEW d \in Conns, Read(d) PROVE Waiting(c, x)'
  <2>1. PICK n : n = wire[d][got[d] + 1]
    OBVIOUS
  <2>2. PICK m : m = content[n].msg
    OBVIOUS
  <2>3. Reading(d, n, m)
    BY <1>6, <2>1, <2>2, ReadStep
  <2>4. CASE up' = up
    BY <1>2, <2>4
  <2>5. CASE /\ [kind |-> "Delivered", msg |-> m] \in Content
             /\ up' = [up EXCEPT ![d] = Append(@, [kind |-> "Delivered", msg |-> m])]
    <3>1. [kind |-> "Delivered", msg |-> m] \in Items
      BY <2>5 DEF Items
    <3>2. QED
      BY <1>3, <2>5, <3>1
  <2>6. QED
    BY <2>3, <2>4, <2>5 DEF Reading
<1>7. ASSUME NEW d \in Conns, NEW u \in Users, ReadMessage(d, u)
      PROVE  \/ Waiting(c, x)'
             \/ \E n \in DOMAIN content' : content'[n].kind = x.kind /\ content'[n].msg = x.msg /\ Cared(n)'
  <2>1. PICK y \in Content, n \in Nat : Handling(d, u, y, n)
    BY <1>7, HandleStep
  <2>2. y = Head(up[d]) /\ up[d] \in Seq(Items) /\ up[d] # <<>> /\ up' = [up EXCEPT ![d] = Tail(up[d])]
        /\ n \in DOMAIN content' /\ content'[n].kind = y.kind /\ content'[n].msg = y.msg
    BY <2>1 DEF Handling
  <2>3. CASE d # c
    BY <1>0, <1>2, <2>2, <2>3
  <2>4. CASE d = c
    <3>1. i = 1 \/ (i - 1 \in DOMAIN Tail(up[c]) /\ Tail(up[c])[i - 1] = up[c][i])
      BY <1>1, <2>2, <2>4, TailQueue
    <3>2. CASE i = 1
      <4>1. x = y
        BY <1>1, <2>2, <2>4, <3>2, TailQueue
      <4>2. Cared(n)'
        BY <1>7, <2>1, HandledCared
      <4>3. QED
        BY <2>2, <4>1, <4>2
    <3>3. CASE i - 1 \in DOMAIN Tail(up[c]) /\ Tail(up[c])[i - 1] = up[c][i]
      <4>1. up'[c] = Tail(up[c])
        BY <1>0, <2>2, <2>4
      <4>2. QED
        BY <1>1, <3>3, <4>1 DEF Waiting
    <3>4. QED
      BY <3>1, <3>2, <3>3
  <2>5. QED
    BY <2>3, <2>4
<1>8. CASE UNCHANGED all
  BY <1>2, <1>8 DEF all, network
<1>9. QED
  BY <1>4, <1>5, <1>6, <1>7, <1>8, StepKinds

\* Where a message or an acknowledgement may be it still may be after the step.
LEMMA AccountedKept ==
  ASSUME RInv, RInv', QInv, QInv', ClientInv, [DeliveryNext]_all,
         NEW k, NEW m, Token(k, m) \in Content, NEW c \in Conns, Accounted(k, m, c)
  PROVE  Accounted(k, m, c)'
<1>1. CASE Broken(c)
  BY <1>1, BrokenKept DEF Accounted
<1>2. CASE \E i \in DOMAIN up[c] : up[c][i] = [kind |-> k, msg |-> m]
  <2>1. Waiting(c, Token(k, m))
    BY <1>2 DEF Waiting, Token
  <2>2. \/ Broken(c)'
        \/ Waiting(c, Token(k, m))'
        \/ \E n \in DOMAIN content' : content'[n].kind = Token(k, m).kind /\ content'[n].msg = Token(k, m).msg /\ Cared(n)'
    BY <2>1, WaitingKept
  <2>3. QED
    BY <2>2 DEF Accounted, Waiting, Token, Cared
<1>3. ASSUME NEW n \in DOMAIN content, content[n].kind = k, content[n].msg = m, Arrived(n) \/ Excused(n) \/ Kept(n)
      PROVE  Accounted(k, m, c)'
  <2>1. n \in DOMAIN content' /\ content'[n] = content[n] /\ Cared(n)'
    BY <1>3, CaredKept DEF Cared
  <2>2. QED
    BY <1>3, <2>1 DEF Accounted, Cared
<1>4. QED
  BY <1>1, <1>2, <1>3 DEF Accounted

-----------------------------------------------------------------------------
\* LossesExplained of one message.
Explained(m) ==
  /\ Accounted("chat", m, sent[m].conn)
  /\ told[m] # <<>> => \E c \in Conns : Owner[c] = sent[m].to /\ Accounted("Delivered", m, c)

\* No message was sent at the start.
LEMMA InitLosses == DeliveryInit => LossesExplained
BY DEF DeliveryInit, LossesExplained

\* An acknowledgement that was written is on its way.
LEMMA JustWritten ==
  ASSUME up \in [Conns -> Seq(Items)], NEW c \in Conns, NEW k, NEW m, Token(k, m) \in Content,
         up' = [up EXCEPT ![c] = Append(@, [kind |-> k, msg |-> m])]
  PROVE  Accounted(k, m, c)'
<1>1. [kind |-> k, msg |-> m] \in Items
  BY DEF Token, Items
<1>2. \E i \in DOMAIN up'[c] : up'[c][i] = [kind |-> k, msg |-> m]
  BY <1>1, AddItem
<1>3. QED
  BY <1>2 DEF Accounted

\* A message SendMessage has just written is on its way, or its connection is broken.
LEMMA SendLosses ==
  ASSUME RInv, RInv', QInv, QInv', ClientInv, [DeliveryNext]_all, NEW c \in Conns, NEW u \in Users,
         SendMessage(c, u), NEW m, m = Len(sent) + 1
  PROVE  Accounted("chat", m, c)'
<1>1. Sending(c, u)
  BY SendStep
<1>2. up \in [Conns -> Seq(Items)] /\ Token("chat", m) \in Content
  BY <1>1 DEF QInv, DeliveryTypeOK, Items, Sending, Token
<1>3. CASE Broken(c)
  BY <1>3, BrokenKept DEF Accounted
<1>4. CASE up' = [up EXCEPT ![c] = Append(@, [kind |-> "chat", msg |-> m])]
  BY <1>2, <1>4, JustWritten
<1>5. QED
  BY <1>1, <1>3, <1>4 DEF Sending

\* A message that is told has been acknowledged in the same step.
LEMMA ToldLosses ==
  ASSUME RInv, QInv, [DeliveryNext]_all, NEW m \in Chats, told[m] = <<>>, told'[m] # <<>>
  PROVE  \E c \in Conns : Owner[c] = sent[m].to /\ Accounted("Delivered", m, c)'
<1>0. up \in [Conns -> Seq(Items)] /\ DInv /\ told \in [Chats -> Seq(Users)]
  BY DEF QInv, DeliveryTypeOK, Items, RInv
<1>1. ASSUME NEW d \in Conns, Quiet(d) PROVE FALSE
  BY <1>0, <1>1, QuietStep
<1>2. ASSUME NEW d \in Conns, NEW u \in Users, SendMessage(d, u) PROVE FALSE
  BY <1>2 DEF SendMessage
<1>3. ASSUME NEW d \in Conns, NEW u \in Users, ReadMessage(d, u) PROVE FALSE
  BY <1>3 DEF ReadMessage, history
<1>4. ~UNCHANGED all
  BY DEF all, history
<1>5. ASSUME NEW d \in Conns, Read(d) PROVE Owner[d] = sent[m].to /\ Accounted("Delivered", m, d)'
  <2>1. PICK n : n = wire[d][got[d] + 1]
    OBVIOUS
  <2>2. PICK k : k = content[n].msg
    OBVIOUS
  <2>3. Reading(d, n, k)
    BY <1>5, <2>1, <2>2, ReadStep
  <2>4. /\ sent[k].to = Owner[d] /\ Token("Delivered", k) \in Content
        /\ up' = [up EXCEPT ![d] = Append(@, [kind |-> "Delivered", msg |-> k])]
        /\ told' = [told EXCEPT ![k] = Append(@, Owner[d])]
    BY <2>3 DEF Reading, Token
  <2>5. k = m
    BY <1>0, <2>4
  <2>6. QED
    BY <1>0, <2>4, <2>5, JustWritten
<1>6. QED
  BY <1>1, <1>2, <1>3, <1>4, <1>5, StepKinds

\* What SendMessage has recorded stays.
LEMMA SentKept ==
  ASSUME RInv, QInv, [DeliveryNext]_all
  PROVE  /\ \A m \in DOMAIN sent : m \in DOMAIN sent' /\ sent'[m] = sent[m]
         /\ \A m \in DOMAIN sent' : \/ m \in DOMAIN sent
                                    \/ \E c \in Conns, u \in Users :
                                         SendMessage(c, u) /\ m = Len(sent) + 1 /\ sent'[m].conn = c
<1>1. ASSUME sent' = sent
      PROVE  /\ \A m \in DOMAIN sent : m \in DOMAIN sent' /\ sent'[m] = sent[m]
             /\ \A m \in DOMAIN sent' : m \in DOMAIN sent
  BY <1>1
<1>2. ASSUME NEW d \in Conns, Quiet(d) PROVE sent' = sent
  <2>1. DInv /\ up \in [Conns -> Seq(Items)]
    BY DEF RInv, QInv, DeliveryTypeOK, Items
  <2>2. QED
    BY <1>2, <2>1, QuietStep
<1>3. ASSUME NEW d \in Conns, NEW u \in Users, SendMessage(d, u)
      PROVE  /\ \A m \in DOMAIN sent : m \in DOMAIN sent' /\ sent'[m] = sent[m]
             /\ \A m \in DOMAIN sent' : m \in DOMAIN sent \/ (m = Len(sent) + 1 /\ sent'[m].conn = d)
  <2>1. Sending(d, u)
    BY <1>3, SendStep
  <2>2. sent'[Len(sent) + 1].conn = d
    BY <2>1 DEF Sending
  <2>3. QED
    BY <2>1, <2>2 DEF Sending
<1>4. ASSUME NEW d \in Conns, Read(d) \/ \E u \in Users : ReadMessage(d, u) PROVE sent' = sent
  BY <1>4 DEF Read, ReadMessage, history
<1>5. CASE UNCHANGED all
  BY <1>1, <1>5 DEF all, history
<1>6. QED
  BY <1>1, <1>2, <1>3, <1>4, <1>5, StepKinds

\* Where each message and acknowledgement may be stays one of the places listed.
LEMMA NextLosses ==
  RInv /\ QInv /\ OnceInv /\ ClientInv /\ LossesExplained /\ [DeliveryNext]_all => LossesExplained'
<1> SUFFICES ASSUME RInv, QInv, OnceInv, ClientInv, LossesExplained, [DeliveryNext]_all,
                    NEW m \in DOMAIN sent'
             PROVE  Explained(m)'
  BY DEF LossesExplained, Explained
<1>0. RInv' /\ QInv' /\ OnceInv'
  BY NextRInv, NextQInv, NextOnceInv
<1>1. m \in Chats /\ sent'[m].conn \in Conns
  <2>1. sent' \in Seq(Submission) /\ Len(sent') <= MaxChats
    BY <1>0 DEF QInv, DeliveryTypeOK, Counted, Submission
  <2>2. Len(sent') \in Nat /\ DOMAIN sent' = 1 .. Len(sent') /\ sent'[m] \in Submission
    BY <2>1
  <2>3. m \in Chats
    BY <2>1, <2>2, DeliveryAssumption DEF Chats
  <2>4. sent'[m].conn \in Conns
    BY <2>2 DEF Submission
  <2>5. QED
    BY <2>3, <2>4
<1>2. Token("chat", m) \in Content /\ Token("Delivered", m) \in Content
  BY <1>1 DEF Token, Content
<1>3. PICK c \in Conns : c = sent'[m].conn
  BY <1>1
<1>4. ASSUME Accounted("chat", m, c)',
             \/ told'[m] = <<>>
             \/ \E d \in Conns : Owner[d] = sent'[m].to /\ Accounted("Delivered", m, d)'
      PROVE  Explained(m)'
  BY <1>3, <1>4 DEF Explained, Accounted, Broken
<1>5. CASE m \in DOMAIN sent
  <2>1. sent'[m] = sent[m]
    BY <1>5, SentKept
  <2>2. Accounted("chat", m, c) /\ (told[m] # <<>> => \E d \in Conns : Owner[d] = sent[m].to /\ Accounted("Delivered", m, d))
    BY <1>3, <1>5, <2>1 DEF LossesExplained
  <2>3. Accounted("chat", m, c)'
    BY <1>0, <1>2, <2>2, AccountedKept
  <2>4. CASE told[m] # <<>>
    <3>1. PICK d \in Conns : Owner[d] = sent[m].to /\ Accounted("Delivered", m, d)
      BY <2>2, <2>4
    <3>2. Accounted("Delivered", m, d)'
      BY <1>0, <1>2, <3>1, AccountedKept
    <3>3. QED
      BY <1>4, <2>1, <2>3, <3>1, <3>2
  <2>5. CASE told[m] = <<>> /\ told'[m] # <<>>
    <3>1. PICK d \in Conns : Owner[d] = sent[m].to /\ Accounted("Delivered", m, d)'
      BY <1>1, <2>5, ToldLosses
    <3>2. QED
      BY <1>4, <2>1, <2>3, <3>1
  <2>6. QED
    BY <1>4, <2>3, <2>4, <2>5
<1>6. CASE m \notin DOMAIN sent
  <2>1. PICK d \in Conns, u \in Users : SendMessage(d, u) /\ m = Len(sent) + 1 /\ sent'[m].conn = d
    BY <1>6, SentKept
  <2>2. SendMessage(c, u) /\ m = Len(sent) + 1
    BY <1>3, <2>1
  <2>3. Accounted("chat", m, c)'
    BY <1>0, <2>2, SendLosses
  <2>4. told'[m] = <<>>
    <3>1. told' = told
      BY <2>2 DEF SendMessage
    <3>2. told[m] # <<>> => \E n \in DOMAIN content : TokenOf(n) = Token("chat", m)
      BY <1>1 DEF OnceInv, ToldTaken
    <3>3. QED
      BY <1>2, <1>6, <3>1, <3>2, TokenSent
  <2>5. QED
    BY <1>4, <2>3, <2>4
<1>7. QED
  BY <1>5, <1>6

\* Every message and every acknowledgement that does not come to its observers is on its
\* way or stored, or was lost with a connection that broke or had no answer to its
\* session request yet, or because the relay did not know its addressee.
THEOREM LossesAccounted == DeliverySpec => []LossesExplained
BY InitRInv, NextRInv, InitQInv, NextQInv, InitOnceInv, NextOnceInv, InitClientInv, NextClientInv,
   InitLosses, NextLosses, PTL DEF DeliverySpec
=============================================================================
