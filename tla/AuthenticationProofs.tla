------------------------ MODULE AuthenticationProofs ------------------------
(***************************************************************************)
(* Proofs about Authentication, for any server and any mechanisms it may    *)
(* announce.  A handler is an operator from a connection to a connection,   *)
(* so that what a step preserves is shown handler by handler: each takes a  *)
(* sound connection to a sound one.                                        *)
(*                                                                         *)
(* What a login may ask for, and in which order, follows from turns: until  *)
(* a wait is given up, the client has asked for one thing and the server is *)
(* about to answer it, or its answer is on the way, or it is handled.  Who  *)
(* waits for what then tells how far the login is.  Once a wait other than  *)
(* that for the first features is given up the answers may come in late,    *)
(* but no handler is left that tries a mechanism.                           *)
(*                                                                         *)
(* That the messenger is told of one success at most holds even when the    *)
(* features are given up and come late, so that two logins go on at once.   *)
(* There, what is left of one acceptance by the server is followed: each    *)
(* thing that leads to a success exists once, and rules out the next ones.  *)
(***************************************************************************)
EXTENDS Authentication, SequenceTheorems, TLAPS

\* TimersMatchWaits of any connection.
Matched(c) ==
  /\ c.timed_handlers \subseteq c.handlers \cup c.id_handlers \cup {"cleanup"}
  /\ c.id_handlers \subseteq c.timed_handlers \cup c.fired

Sound(c) == c \in Connections /\ Matched(c)

-----------------------------------------------------------------------------
(* What the handlers are built from.                                         *)

\* A request is sent or dropped; the handlers and timers stay as they are.
LEMMA SendSound ==
  ASSUME NEW c, Sound(c), NEW r \in Requests
  PROVE  /\ Sound(Send(c, r))
         /\ Send(c, r).timed_handlers = c.timed_handlers
         /\ Send(c, r).handlers = c.handlers
         /\ Send(c, r).id_handlers = c.id_handlers
<1>1. Append(c.sent, r) \in Seq(Requests)
  <2>1. c.sent \in Seq(Requests)
    BY DEF Sound, Connections
  <2> QED
    BY <2>1
<1> DEFINE d == [c EXCEPT !.sent = Append(c.sent, r)]
<1>2. d \in Connections
  BY <1>1 DEF Sound, Connections
<1>3. /\ d.timed_handlers = c.timed_handlers
      /\ d.handlers = c.handlers
      /\ d.id_handlers = c.id_handlers
      /\ d.fired = c.fired
  BY DEF Sound, Connections
<1>4. Sound(d)
  BY <1>2, <1>3 DEF Sound, Matched
<1> QED
  BY <1>3, <1>4 DEF Send

\* The end of the stream is asked for, with a timer of its own.
LEMMA EndStreamSound ==
  ASSUME NEW c, Sound(c)
  PROVE  Sound(EndStream(c))
<1>1. Sound(Send(c, "close"))
  BY SendSound DEF Requests
<1> QED
  BY <1>1 DEF EndStream, Sound, Matched, Connections

\* The connection is closed, with its handlers as they are.
LEMMA DisconnectSound ==
  ASSUME NEW c, Sound(c)
  PROVE  Sound(Disconnect(c))
<1>1. Append(c.events, "DISCONNECT") \in Seq({"CONNECT", "DISCONNECT"})
  <2>1. c.events \in Seq({"CONNECT", "DISCONNECT"})
    BY DEF Sound, Connections
  <2> QED
    BY <2>1
<1>2. Disconnect(c) \in Connections
  BY <1>1 DEF Disconnect, Sound, Connections
<1> QED
  BY <1>2 DEF Disconnect, Sound, Matched, Connections

\* A wait for a reply by id is always one with a timer.
LEMMA AwaitSound ==
  ASSUME NEW c, Sound(c), NEW step \in Steps
  PROVE  Sound(Await(c, step))
<1> DEFINE d == [c EXCEPT !.id_handlers = @ \cup {step}, !.timed_handlers = @ \cup {step}]
<1>1. Sound(d)
  BY DEF Sound, Matched, Connections
<1>2. Sound(Send(d, step))
  BY <1>1, SendSound DEF Requests
<1> QED
  BY <1>2 DEF Await

\* The success is told.
LEMMA EstablishedSound ==
  ASSUME NEW c, Sound(c)
  PROVE  Sound(Established(c))
<1>1. Append(c.events, "CONNECT") \in Seq({"CONNECT", "DISCONNECT"})
  <2>1. c.events \in Seq({"CONNECT", "DISCONNECT"})
    BY DEF Sound, Connections
  <2> QED
    BY <2>1
<1>2. Established(c) \in Connections
  BY <1>1 DEF Established, Sound, Connections
<1> QED
  BY <1>2 DEF Established, Sound, Matched, Connections

\* Handlers that have no timer may be added.
LEMMA AddHandlerSound ==
  ASSUME NEW c, Sound(c), NEW h \in SaslHandlers \cup {"proceedtls"}
  PROVE  Sound([c EXCEPT !.handlers = @ \cup {h}])
BY DEF Sound, Matched, Connections

\* They may be removed, as none of the timers is theirs.
LEMMA RemoveHandlerSound ==
  ASSUME NEW c, Sound(c), NEW h \in SaslHandlers \cup {"proceedtls"}
  PROVE  Sound([c EXCEPT !.handlers = @ \ {h}])
<1>1. h \notin Waits \cup Steps \cup {"cleanup"}
  BY DEF SaslHandlers, Mechanisms, Waits, Steps
<1>2. h \notin c.timed_handlers
  BY <1>1 DEF Sound, Connections
<1> DEFINE d == [c EXCEPT !.handlers = @ \ {h}]
<1>3. d \in Connections
  BY DEF Sound, Connections
<1>4. /\ d.handlers = c.handlers \ {h}
      /\ d.timed_handlers = c.timed_handlers
      /\ d.id_handlers = c.id_handlers
      /\ d.fired = c.fired
  BY DEF Sound, Connections
<1> QED
  BY <1>2, <1>3, <1>4 DEF Sound, Matched

\* Whatever is a candidate, the strongest is one of them, and none of them is stronger.
LEMMA StrongestIsCandidate ==
  ASSUME NEW S \in SUBSET Mechanisms, S # {}
  PROVE  /\ Strongest(S) \in S
         /\ Strongest(S) = "ANONYMOUS" \/ \E i \in DOMAIN Strength :
              Strength[i] = Strongest(S) /\ \A j \in 1 .. i - 1 : Strength[j] \notin S
<1> DEFINE P(m) == m = "ANONYMOUS" \/ \E i \in DOMAIN Strength :
                     Strength[i] = m /\ \A j \in 1 .. i - 1 : Strength[j] \notin S
<1>1. \E m \in S : P(m)
  <2>1. Strength[1] = "SCRAM-SHA-1" /\ Strength[2] = "DIGEST-MD5" /\ Strength[3] = "PLAIN"
        /\ DOMAIN Strength = 1 .. 3
    BY DEF Strength
  <2>2. CASE "ANONYMOUS" \in S
    BY <2>2
  <2>3. CASE "SCRAM-SHA-1" \in S
    <3>1. 1 \in DOMAIN Strength /\ \A j \in 1 .. 1 - 1 : Strength[j] \notin S
      BY <2>1
    <3> QED
      BY <2>1, <2>3, <3>1
  <2>4. CASE "SCRAM-SHA-1" \notin S /\ "DIGEST-MD5" \in S
    <3>1. 2 \in DOMAIN Strength /\ \A j \in 1 .. 2 - 1 : Strength[j] \notin S
      BY <2>1, <2>4
    <3> QED
      BY <2>1, <2>4, <3>1
  <2>5. CASE "SCRAM-SHA-1" \notin S /\ "DIGEST-MD5" \notin S /\ "PLAIN" \in S
    <3>1. 3 \in DOMAIN Strength /\ \A j \in 1 .. 3 - 1 : Strength[j] \notin S
      BY <2>1, <2>5
    <3> QED
      BY <2>1, <2>5, <3>1
  <2> QED
    BY <2>2, <2>3, <2>4, <2>5 DEF Mechanisms
<1> QED
  BY <1>1 DEF Strongest

-----------------------------------------------------------------------------
(* The handlers.                                                             *)

\* _auth adds the handler of TLS or of a mechanism, or waits for the legacy
\* protocol, or ends the stream.
LEMMA AuthenticateSound ==
  ASSUME NEW c, Sound(c)
  PROVE  Sound(Authenticate(c))
<1> DEFINE d == [c EXCEPT !.tls_support = FALSE]
           m == Strongest(Candidates(c))
<1>1. Sound(d)
  BY DEF Sound, Matched, Connections
<1>2. CASE c.tls_support /\ tls_new
  <2> DEFINE e == [c EXCEPT !.handlers = @ \cup {"proceedtls"}, !.tls_support = FALSE]
  <2>1. Sound(e)
    BY DEF Sound, Matched, Connections
  <2>2. Sound(Send(e, "starttls"))
    BY <2>1, SendSound DEF Requests
  <2> QED
    BY <1>2, <2>2 DEF Authenticate
<1>3. CASE ~(c.tls_support /\ tls_new) /\ Candidates(c) # {}
  <2>1. m \in Mechanisms
    <3>1. Candidates(c) \in SUBSET Mechanisms
      BY DEF Sound, Connections, Candidates
    <3> QED
      BY <1>3, <3>1, StrongestIsCandidate
  <2> HIDE DEF m
  <2> DEFINE e == [d EXCEPT !.handlers = @ \cup {m}, !.sasl_support = @ \ {m}]
  <2>2. Sound(e)
    <3>1. c.sasl_support \ {m} \in SUBSET Mechanisms
      BY DEF Sound, Connections
    <3>2. c.handlers \cup {m} \in SUBSET (Waits \cup SaslHandlers \cup {"proceedtls"})
      BY <2>1 DEF Sound, Connections, SaslHandlers
    <3>3. d.handlers = c.handlers /\ d.sasl_support = c.sasl_support
      BY DEF Sound, Connections
    <3> HIDE DEF d
    <3>4. e \in Connections
      BY <1>1, <3>1, <3>2, <3>3 DEF Sound, Connections
    <3>5. /\ e.handlers = d.handlers \cup {m}
          /\ e.timed_handlers = d.timed_handlers
          /\ e.id_handlers = d.id_handlers
          /\ e.fired = d.fired
      BY <1>1 DEF Sound, Connections
    <3> QED
      BY <1>1, <3>4, <3>5 DEF Sound, Matched
  <2> HIDE DEF e
  <2>3. Sound(Send(e, m))
    BY <2>1, <2>2, SendSound DEF Requests
  <2> USE DEF e, m
  <2> QED
    BY <1>3, <2>3 DEF Authenticate
<1>4. CASE ~(c.tls_support /\ tls_new) /\ Candidates(c) = {}
  <2>1. Sound(Await(d, "legacy"))
    BY <1>1, AwaitSound DEF Steps
  <2>2. Sound(EndStream(d))
    BY <1>1, EndStreamSound
  <2> QED
    BY <1>4, <2>1, <2>2 DEF Authenticate
<1> QED
  BY <1>2, <1>3, <1>4

\* The handler of the features is added with its timer.
LEMMA AwaitFeaturesSound ==
  ASSUME NEW c, Sound(c)
  PROVE  Sound(AwaitFeatures(c))
<1> DEFINE Added(wait) == [c EXCEPT !.handlers = @ \cup {wait}, !.timed_handlers = @ \cup {wait}]
<1>1. ASSUME NEW wait \in Waits PROVE Sound(Added(wait))
  BY DEF Sound, Matched, Connections
<1> QED
  BY <1>1 DEF AwaitFeatures, Waits

\* At the start of the stream the features are awaited, or the connection is closed.
LEMMA HandleStreamStartSound ==
  ASSUME NEW c, Sound(c), NEW valid \in BOOLEAN
  PROVE  Sound(HandleStreamStart(c, valid))
BY DisconnectSound, AwaitFeaturesSound DEF HandleStreamStart

\* It is removed with its timer before _auth goes on.
LEMMA HandleFeaturesSound ==
  ASSUME NEW c, Sound(c), NEW f \in Features
  PROVE  Sound(HandleFeatures(c, f))
<1> DEFINE d == [c EXCEPT !.handlers = @ \ {"features"},
                          !.timed_handlers = @ \ {"features"},
                          !.tls_support = @ \/ (f.tls /\ ~c.secured),
                          !.sasl_support = @ \cup (f.mechanisms \cap Mechanisms)]
<1>1. d \in Connections
  <2>1. (c.tls_support \/ (f.tls /\ ~c.secured)) \in BOOLEAN
    OBVIOUS
  <2>2. c.sasl_support \cup (f.mechanisms \cap Mechanisms) \in SUBSET Mechanisms
    BY DEF Sound, Connections
  <2> QED
    BY <2>1, <2>2 DEF Sound, Connections
<1>2. /\ d.handlers = c.handlers \ {"features"}
      /\ d.timed_handlers = c.timed_handlers \ {"features"}
      /\ d.id_handlers = c.id_handlers
      /\ d.fired = c.fired
  BY DEF Sound, Connections
<1>3. "features" \notin c.id_handlers
  BY DEF Sound, Connections, Steps
<1>4. Sound(d)
  BY <1>1, <1>2, <1>3 DEF Sound, Matched
<1> QED
  BY <1>4, AuthenticateSound DEF HandleFeatures

\* The handler of "proceed" ends, renews or leaves the stream.
LEMMA HandleProceedtlsSound ==
  ASSUME NEW c, Sound(c), NEW kind, NEW handshake
  PROVE  Sound(HandleProceedtls(c, kind, handshake))
<1> DEFINE d == [c EXCEPT !.handlers = @ \ {"proceedtls"}]
           secure == [d EXCEPT !.secured = TRUE, !.open_handler = "auth_handle_open"]
           failed == [d EXCEPT !.error = @ \/ handshake = "fails"]
<1>1. Sound(d)
  BY RemoveHandlerSound
<1> HIDE DEF d
<1>2. Sound(Send(secure, "stream"))
  <2>1. Sound(secure)
    BY <1>1 DEF Sound, Matched, Connections
  <2> QED
    BY <2>1, SendSound DEF Requests
<1>3. Sound(EndStream(failed))
  <2>1. Sound(failed)
    BY <1>1 DEF Sound, Matched, Connections
  <2> QED
    BY <2>1, EndStreamSound
<1> QED
  BY <1>1, <1>2, <1>3 DEF HandleProceedtls, d

\* A new stream is opened under the other handler.
LEMMA HandleSaslResultSound ==
  ASSUME NEW c, Sound(c), NEW kind
  PROVE  Sound(HandleSaslResult(c, kind))
<1> DEFINE d == [c EXCEPT !.open_handler = "_handle_open_sasl"]
<1>1. Sound(Send(d, "stream"))
  <2>1. Sound(d)
    BY DEF Sound, Matched, Connections
  <2> QED
    BY <2>1, SendSound DEF Requests
<1> QED
  BY <1>1, AuthenticateSound, EndStreamSound DEF HandleSaslResult

\* A SASL handler stays, gives way to another, or is removed.
LEMMA HandleSaslSound ==
  ASSUME NEW c, Sound(c), NEW h \in SaslHandlers, NEW kind
  PROVE  Sound(HandleSasl(c, h, kind))
<1> DEFINE next == [c EXCEPT !.handlers = @ \cup {"rspauth"}]
           over == [next EXCEPT !.handlers = @ \ {h}]
           told == HandleSaslResult(c, kind)
<1>1. Sound(next)
  BY AddHandlerSound DEF SaslHandlers
<1>2. Sound(over)
  <2> HIDE DEF next
  <2> QED
    BY <1>1, RemoveHandlerSound
<1>3. over = [c EXCEPT !.handlers = (@ \cup {"rspauth"}) \ {h}]
  BY DEF Sound, Connections
<1> HIDE DEF over
<1>4. Sound(Send(over, "response")) /\ Sound(Send(c, "response"))
  BY <1>2, SendSound DEF Requests
<1>5. Sound([told EXCEPT !.handlers = @ \ {h}])
  <2>1. Sound(told)
    BY HandleSaslResultSound
  <2> HIDE DEF told
  <2> QED
    BY <2>1, RemoveHandlerSound
<1> QED
  BY <1>3, <1>4, <1>5 DEF HandleSasl

\* The handler of the features of the authenticated stream is removed with its timer.
LEMMA HandleFeaturesSaslSound ==
  ASSUME NEW c, Sound(c), NEW f \in Features
  PROVE  Sound(HandleFeaturesSasl(c, f))
<1> DEFINE d == [c EXCEPT !.handlers = @ \ {"features_sasl"},
                          !.timed_handlers = @ \ {"features_sasl"},
                          !.session_required = @ \/ f.session]
<1>1. d \in Connections
  BY DEF Sound, Connections, Features
<1>2. /\ d.handlers = c.handlers \ {"features_sasl"}
      /\ d.timed_handlers = c.timed_handlers \ {"features_sasl"}
      /\ d.id_handlers = c.id_handlers
      /\ d.fired = c.fired
  BY DEF Sound, Connections
<1>3. "features_sasl" \notin c.id_handlers
  BY DEF Sound, Connections, Steps
<1>4. Sound(d)
  BY <1>1, <1>2, <1>3 DEF Sound, Matched
<1> HIDE DEF d
<1>5. Sound(Await(d, "bind")) /\ Sound(EndStream(d))
  BY <1>4, AwaitSound, EndStreamSound DEF Steps
<1> QED
  BY <1>5 DEF HandleFeaturesSasl, d

\* A wait ends with its timer.
LEMMA HandleReplySound ==
  ASSUME NEW c, Sound(c), NEW step \in Steps, NEW type
  PROVE  Sound(HandleReply(c, step, type))
<1> DEFINE d == [c EXCEPT !.id_handlers = @ \ {step}, !.timed_handlers = @ \ {step}]
<1>1. d \in Connections
  BY DEF Sound, Connections
<1>2. /\ d.handlers = c.handlers
      /\ d.timed_handlers = c.timed_handlers \ {step}
      /\ d.id_handlers = c.id_handlers \ {step}
      /\ d.fired = c.fired
  BY DEF Sound, Connections
<1>3. Sound(d)
  BY <1>1, <1>2 DEF Sound, Matched
<1> HIDE DEF d
<1>4. Sound(Await(d, "session")) /\ Sound(EndStream(d)) /\ Sound(Established(d))
  BY <1>3, AwaitSound, EndStreamSound, EstablishedSound DEF Steps
<1> QED
  BY <1>4 DEF HandleReply, d

\* A timer that has fired is remembered: the wait it was for may be left without one.
LEMMA HandleMissingSound ==
  ASSUME NEW c, Sound(c), NEW t \in Waits \cup Steps \cup {"cleanup"}
  PROVE  Sound(HandleMissing(c, t))
<1> DEFINE d == CASE t = "features" -> Authenticate(c)
                  [] t = "cleanup"  -> Disconnect(c)
                  [] OTHER          -> EndStream(c)
           e == [d EXCEPT !.timed_handlers = @ \ {t}, !.fired = @ \cup {t}]
<1>1. Sound(d)
  BY AuthenticateSound, DisconnectSound, EndStreamSound
<1> HIDE DEF d
<1>2. e \in Connections
  BY <1>1 DEF Sound, Connections
<1>3. /\ e.handlers = d.handlers
      /\ e.timed_handlers = d.timed_handlers \ {t}
      /\ e.id_handlers = d.id_handlers
      /\ e.fired = d.fired \cup {t}
  BY <1>1 DEF Sound, Connections
<1>4. Sound(e)
  BY <1>1, <1>2, <1>3 DEF Sound, Matched
<1> QED
  BY <1>4 DEF HandleMissing, d

\* Any handler of the list; those of features are called for features only.
LEMMA HandleStanzaSound ==
  ASSUME NEW c, Sound(c), NEW h \in Waits \cup SaslHandlers \cup {"proceedtls"},
         NEW item, h \in Waits => item \in Features, NEW handshake
  PROVE  Sound(HandleStanza(c, h, item, handshake))
<1>1. h \in SaslHandlers \/ h \in {"features", "features_sasl", "proceedtls"}
  BY DEF Waits
<1> QED
  BY <1>1, HandleFeaturesSound, HandleFeaturesSaslSound, HandleProceedtlsSound, HandleSaslSound
     DEF HandleStanza, Waits

\* Anything else that is parsed.  The end of the stream takes the cleanup timer along.
LEMMA HandleItemSound ==
  ASSUME NEW c, Sound(c), NEW item \in Items
  PROVE  Sound(HandleItem(c, item))
<1>0. c.id_handlers \subseteq {"bind", "session", "legacy"}
  BY DEF Sound, Connections, Steps
<1>1. CASE item.kind \in {"header", "bad header"}
  <2>1. HandleItem(c, item) = HandleStreamStart(c, item.kind = "header")
    BY <1>0, <1>1 DEF HandleItem
  <2>2. (item.kind = "header") \in BOOLEAN
    OBVIOUS
  <2> QED
    BY <2>1, <2>2, HandleStreamStartSound
<1>2. CASE item.kind \notin {"header", "bad header"} /\ item.kind \in c.id_handlers
  <2>1. item.kind \in Steps
    BY <1>2 DEF Sound, Connections
  <2>2. HandleItem(c, item) = HandleReply(c, item.kind, item.type)
    BY <1>0, <1>2 DEF HandleItem
  <2> QED
    BY <2>1, <2>2, HandleReplySound
<1>3. CASE item.kind \notin {"header", "bad header"} \cup c.id_handlers
  <2> DEFINE d == [c EXCEPT !.timed_handlers = @ \ {"cleanup"}]
  <2>1. Sound(d)
    <3>1. d \in Connections
      BY DEF Sound, Connections
    <3>2. /\ d.handlers = c.handlers
          /\ d.timed_handlers = c.timed_handlers \ {"cleanup"}
          /\ d.id_handlers = c.id_handlers
          /\ d.fired = c.fired
      BY DEF Sound, Connections
    <3>3. "cleanup" \notin c.id_handlers
      BY DEF Sound, Connections, Steps
    <3> QED
      BY <3>1, <3>2, <3>3 DEF Sound, Matched
  <2>2. Sound(Disconnect(d)) /\ Sound(Disconnect(c))
    BY <2>1, DisconnectSound
  <2>3. HandleItem(c, item) \in {Disconnect(d), Disconnect(c), c}
    <3> HIDE DEF Disconnect
    <3> QED
      BY <1>3 DEF HandleItem
  <2> QED
    BY <2>2, <2>3
<1> QED
  BY <1>1, <1>2, <1>3

-----------------------------------------------------------------------------
(* The steps.                                                                *)

\* A handler of features is called for features only.
CallsFit == \A call \in calls : call.handler \in Waits => call.item \in Features

LoginInv == TypeOK /\ TimersMatchWaits /\ CallsFit

\* What LoginInv says of the connection.
LEMMA SoundConn == TypeOK /\ TimersMatchWaits <=> TypeOK /\ Sound(conn)
BY DEF TypeOK, TimersMatchWaits, Sound, Matched

\* At first nothing is waited for.
LEMMA InitLoginInv == Init => LoginInv
<1> SUFFICES ASSUME Init PROVE LoginInv
    OBVIOUS
<1>1. conn \in Connections
  BY DEF Init, Connections
<1>2. Sound(conn)
  BY <1>1 DEF Init, Sound, Matched
<1>3. buffer \in Seq(Items) /\ toClient \in Seq(Items)
  BY DEF Init
<1>4. server \in [answered : Nat, fresh : BOOLEAN, secured : BOOLEAN,
                  authenticated : BOOLEAN, done : BOOLEAN]
  BY DEF Init
<1>5. calls = {} /\ malformed \in BOOLEAN
  BY DEF Init
<1>6. jid \in {"anonymous", "bare", "full"} /\ tls_new \in BOOLEAN
  BY DEF Init
<1>7. TypeOK
  BY <1>1, <1>3, <1>4, <1>5, <1>6 DEF TypeOK
<1> QED
  BY <1>2, <1>5, <1>7, SoundConn DEF Init, CallsFit, LoginInv

\* What has the kind of features is a record of features.
LEMMA FeaturesByKind ==
  ASSUME NEW item \in Items, item.kind = "features"
  PROVE  item \in Features
BY DEF Items, Replies, Plain, Steps, TlsItems, SaslItems

\* What the server sends in answer to a request is one of the items.
LEMMA AnswersAreItems ==
  ASSUME LoginInv, NEW request \in Requests, NEW reply \in Answers(request)
  PROVE  reply \in Seq(Items) /\ reply # <<>>
<1>1. \A k : k \in {"header", "bad header", "error", "end"} \cup TlsItems \cup SaslItems
        => Item(k) \in Items
  BY DEF Item, Items, Plain
<1>2. \A f \in Features : f \in Items
  BY DEF Items
<1>3. \A r \in Replies : r \in Items
  BY DEF Items
<1>4. \A rest \in AfterHeader : rest \in Seq(Items)
  <2>1. Item("error") \in Items /\ Item("end") \in Items
    BY <1>1
  <2> SUFFICES ASSUME NEW rest \in AfterHeader PROVE rest \in Seq(Items)
      OBVIOUS
  <2>2. rest = <<>> \/ rest = <<Item("error"), Item("end")>> \/ \E f \in Features : rest = <<f>>
    BY DEF AfterHeader
  <2>3. <<>> \in Seq(Items)
    OBVIOUS
  <2>4. <<Item("error"), Item("end")>> \in Seq(Items)
    BY <2>1
  <2>5. \A f \in Features : <<f>> \in Seq(Items)
    BY <1>2
  <2> QED
    BY <2>2, <2>3, <2>4, <2>5
<1>5. Challenges \cup {"failure"} \cup Accepts \subseteq SaslItems
  BY DEF Challenges, Accepts, SaslItems
<1>6. ASSUME NEW a \in Items PROVE <<a>> \in Seq(Items) /\ <<a>> # <<>>
  OBVIOUS
<1>7. ASSUME NEW a \in Items, NEW b \in Items PROVE <<a, b>> \in Seq(Items) /\ <<a, b>> # <<>>
  OBVIOUS
<1>8. ASSUME NEW a \in Items, NEW rest \in Seq(Items)
      PROVE  <<a>> \o rest \in Seq(Items) /\ <<a>> \o rest # <<>>
  <2>1. <<a>> \in Seq(Items) /\ Len(<<a>>) = 1
    OBVIOUS
  <2>2. <<a>> \o rest \in Seq(Items) /\ Len(<<a>> \o rest) = 1 + Len(rest) /\ Len(rest) \in Nat
    BY <2>1
  <2> QED
    BY <2>2
<1>9. CASE request = "stream"
  <2>1. Item("end") \in Items /\ Item("header") \in Items /\ Item("bad header") \in Items
        /\ Item("error") \in Items
    BY <1>1
  <2>2. <<Item("end")>> \in Seq(Items)
    BY <2>1, <1>6
  <2>3. <<>> \in Seq(Items)
    OBVIOUS
  <2>4. server.fresh \in BOOLEAN
    BY DEF LoginInv, TypeOK
  <2>5. \/ \E rest \in AfterHeader : reply = <<Item("header")>> \o rest
        \/ \E rest \in {<<>>, <<Item("end")>>} : reply = <<Item("bad header")>> \o rest
        \/ reply = <<Item("error"), Item("end")>>
    <3>1. CASE server.fresh
      <4>1. Answers(request) =
              {<<Item("header")>> \o rest : rest \in AfterHeader} \cup
              {<<Item("bad header")>> \o rest : rest \in IF server.answered = 0 THEN {<<>>, <<Item("end")>>} ELSE {}}
        BY <1>9, <3>1 DEF Answers, Mechanisms, Steps
      <4> QED
        BY <4>1
    <3>2. CASE ~server.fresh
      <4>1. Answers(request) = {<<Item("error"), Item("end")>>}
        BY <1>9, <3>2 DEF Answers, Mechanisms, Steps
      <4> QED
        BY <4>1
    <3> QED
      BY <2>4, <3>1, <3>2
  <2>6. \E a \in Items, rest \in Seq(Items) :
          reply = <<a>> \o rest \/ reply = <<Item("error"), Item("end")>>
    BY <1>4, <2>1, <2>2, <2>3, <2>5
  <2> QED
    BY <1>7, <1>8, <2>1, <2>6
<1>10. CASE request = "starttls"
  <2>1. reply = <<Item("proceed")>> \/ reply = <<Item("tls failure"), Item("end")>>
    <3>1. Answers(request) = {<<Item("proceed")>>, <<Item("tls failure"), Item("end")>>}
      BY <1>10 DEF Answers, Mechanisms, Steps
    <3> QED
      BY <3>1
  <2>2. Item("proceed") \in Items /\ Item("tls failure") \in Items /\ Item("end") \in Items
    BY <1>1 DEF TlsItems
  <2> QED
    BY <1>6, <1>7, <2>1, <2>2
<1>11. CASE request \in Mechanisms \cup {"response"}
  <2>1. Answers(request) = {<<Item(k)>> : k \in {"failure"} \cup Accepts \cup Challenges}
    BY <1>11 DEF Answers, Mechanisms, Steps
  <2>2. PICK k \in SaslItems : reply = <<Item(k)>>
    BY <1>5, <2>1
  <2>3. Item(k) \in Items
    BY <1>1
  <2> QED
    BY <1>6, <2>2, <2>3
<1>12. CASE request \in Steps
  <2>1. PICK q \in Replies : reply = <<q>>
    BY <1>12 DEF Answers, Mechanisms, Steps
  <2> QED
    BY <1>3, <1>6, <2>1
<1>13. CASE request = "close"
  <2>1. Answers(request) = {<<Item("end")>>}
    BY <1>13 DEF Answers, Mechanisms, Steps
  <2>2. Item("end") \in Items
    BY <1>1
  <2> QED
    BY <1>6, <2>1, <2>2
<1> QED
  BY <1>9, <1>10, <1>11, <1>12, <1>13 DEF Requests

\* Whatever is read, it is a first part of what has been sent.
LEMMA Reads ==
  ASSUME TypeOK, Read \/ ReadMalformed
  PROVE  \E n \in 0 .. Len(toClient) : ReadUpTo(n)
<1>1. Len(toClient) \in Nat
  BY DEF TypeOK
<1>2. \A n \in 1 .. Len(toClient) : n \in 0 .. Len(toClient)
  BY <1>1
<1> QED
  BY <1>2 DEF Read, ReadMalformed

\* Each step leaves the connection sound, and items and calls of their kinds.
LEMMA NextLoginInv == LoginInv /\ [Next]_vars => LoginInv'
<1> SUFFICES ASSUME LoginInv, [Next]_vars PROVE LoginInv'
    OBVIOUS
<1> USE DEF LoginInv
<1>0. Sound(conn)
  BY SoundConn
<1>1. ASSUME Sound(conn'), UNCHANGED <<buffer, calls, Outside>> PROVE LoginInv'
  <2>1. TypeOK'
    BY <1>1 DEF TypeOK, Outside, Sound
  <2>2. TimersMatchWaits'
    BY <1>1 DEF TimersMatchWaits, Sound, Matched
  <2> QED
    BY <1>1, <2>1, <2>2 DEF CallsFit
<1>2. CASE Connect
  <2>1. Sound([conn EXCEPT !.state = "CONNECTED"])
    BY <1>0 DEF Sound, Matched, Connections
  <2>2. Sound(conn')
    BY <1>0, <1>2, <2>1, SendSound, DisconnectSound DEF Connect, Requests
  <2> QED
    BY <1>1, <1>2, <2>2 DEF Connect
<1>3. CASE Read \/ ReadMalformed
  <2>1. PICK n \in 0 .. Len(toClient) : ReadUpTo(n)
    BY <1>3, Reads
  <2>2. toClient \in Seq(Items)
    BY DEF TypeOK
  <2> HIDE DEF Items
  <2>3. buffer' \in Seq(Items) /\ toClient' \in Seq(Items)
    BY <2>1, <2>2 DEF ReadUpTo
  <2>4. malformed' \in BOOLEAN
    BY <1>3 DEF Read, ReadMalformed, TypeOK
  <2> QED
    BY <2>1, <2>3, <2>4 DEF ReadUpTo, TypeOK, TimersMatchWaits, CallsFit
<1>4. CASE Parse
  <2>1. buffer \in Seq(Items) /\ buffer # <<>>
    BY <1>4 DEF Parse, TypeOK
  <2>2. Head(buffer) \in Items /\ Tail(buffer) \in Seq(Items)
    BY <2>1
  <2>3. Sound(conn')
    BY <1>0, <1>4, <2>2, HandleItemSound DEF Parse
  <2>4. buffer' \in Seq(Items)
    BY <1>4, <2>2 DEF Parse
  <2>5. \A call \in calls' :
          /\ call \in [handler : Waits \cup SaslHandlers \cup {"proceedtls"}, item : Items]
          /\ call.handler \in Waits => call.item \in Features
    <3> SUFFICES ASSUME NEW h \in Waiting(conn, Head(buffer))
                 PROVE  /\ h \in Waits \cup SaslHandlers \cup {"proceedtls"}
                        /\ h \in Waits => Head(buffer) \in Features
      BY <1>4, <2>2 DEF Parse
    <3>1. h \in conn.handlers
      BY DEF Waiting
    <3>2. h \in Waits => Head(buffer).kind = "features"
      BY DEF Waiting, Waits, SaslHandlers, Mechanisms, TlsItems, SaslItems
    <3> QED
      BY <1>0, <2>2, <3>1, <3>2, FeaturesByKind DEF Sound, Connections
  <2>6. TypeOK'
    BY <1>4, <2>3, <2>4, <2>5 DEF Parse, TypeOK, Outside, Sound
  <2>7. TimersMatchWaits'
    BY <2>3 DEF TimersMatchWaits, Sound, Matched
  <2> QED
    BY <2>5, <2>6, <2>7 DEF CallsFit
<1>5. CASE Call
  <2>1. PICK call \in calls, handshake \in {"succeeds", "fails", "cannot begin"} :
          /\ conn' = HandleStanza(conn, call.handler, call.item, handshake)
          /\ calls' = calls \ {call}
    BY <1>5 DEF Call
  <2>2. call.handler \in Waits \cup SaslHandlers \cup {"proceedtls"}
    BY DEF TypeOK
  <2>3. call.handler \in Waits => call.item \in Features
    BY DEF CallsFit
  <2>4. Sound(conn')
    BY <1>0, <2>1, <2>2, <2>3, HandleStanzaSound
  <2>5. TypeOK'
    BY <1>5, <2>1, <2>4 DEF Call, TypeOK, Outside, Sound
  <2>6. TimersMatchWaits'
    BY <2>4 DEF TimersMatchWaits, Sound, Matched
  <2> QED
    BY <2>1, <2>5, <2>6 DEF CallsFit
<1>6. ASSUME NEW t \in Waits \cup Steps \cup {"cleanup"}, Fire(t) PROVE LoginInv'
  <2>1. Sound(conn')
    BY <1>0, <1>6, HandleMissingSound DEF Fire
  <2> QED
    BY <1>1, <1>6, <2>1 DEF Fire
<1>7. CASE TearDown
  BY <1>0, <1>1, <1>7, DisconnectSound DEF TearDown
<1>8. CASE Break
  <2>1. Sound([conn EXCEPT !.error = TRUE])
    BY <1>0 DEF Sound, Matched, Connections
  <2>2. Sound(conn')
    BY <1>8, <2>1, DisconnectSound DEF Break
  <2> QED
    BY <1>1, <1>8, <2>2 DEF Break
<1>9. CASE Answer
  <2>1. PICK reply \in Answers(conn.sent[server.answered + 1]) :
       /\ toClient' = toClient \o reply
       /\ server' = [answered      |-> server.answered + 1,
                     fresh         |-> reply[1] \in Renewal,
                     secured       |-> server.secured \/ reply = <<Item("proceed")>>,
                     authenticated |-> server.authenticated \/ reply[1] \in Acceptance,
                     done          |-> reply[Len(reply)].kind = "end"]
    BY <1>9 DEF Answer
  <2>2. conn.sent[server.answered + 1] \in Requests
    <3>1. conn.sent \in Seq(Requests) /\ server.answered \in Nat
      BY DEF TypeOK, Connections
    <3>2. server.answered < Len(conn.sent)
      BY <1>9 DEF Answer
    <3>3. server.answered + 1 \in 1 .. Len(conn.sent)
      BY <3>1, <3>2
    <3> QED
      BY <3>1, <3>3
  <2>3. reply \in Seq(Items)
    BY <2>1, <2>2, AnswersAreItems
  <2>4. toClient' \in Seq(Items)
    <3>1. toClient \in Seq(Items)
      BY DEF TypeOK
    <3> QED
      BY <2>1, <2>3, <3>1
  <2>5. server' \in [answered : Nat, fresh : BOOLEAN, secured : BOOLEAN,
                     authenticated : BOOLEAN, done : BOOLEAN]
    <3>1. server.answered + 1 \in Nat
      BY DEF TypeOK
    <3> QED
      BY <2>1, <3>1
  <2> QED
    BY <1>9, <2>4, <2>5 DEF Answer, TypeOK, TimersMatchWaits, CallsFit
<1>10. CASE ParseFails
  <2>1. Sound(conn') /\ malformed' \in BOOLEAN
    BY <1>0, <1>10, DisconnectSound DEF ParseFails
  <2>2. TypeOK'
    BY <1>10, <2>1 DEF ParseFails, TypeOK, Sound
  <2>3. TimersMatchWaits'
    BY <2>1 DEF TimersMatchWaits, Sound, Matched
  <2> QED
    BY <1>10, <2>2, <2>3 DEF ParseFails, CallsFit
<1>11. CASE UNCHANGED vars
  BY <1>11 DEF vars, TypeOK, TimersMatchWaits, CallsFit
<1> QED
  BY <1>2, <1>3, <1>4, <1>5, <1>6, <1>7, <1>8, <1>9, <1>10, <1>11 DEF Next

\* So it holds always.
LEMMA LoginInvariant == Spec => []LoginInv
BY InitLoginInv, NextLoginInv, PTL DEF Spec

\* The connection, what was read and what was sent keep their types, whatever the
\* server announces and answers.
THEOREM TypeCorrect == Spec => []TypeOK
<1>1. LoginInv => TypeOK
  BY DEF LoginInv
<1> QED
  BY <1>1, LoginInvariant, PTL

\* No timer of the login outlives the wait it is for, whichever handler, timer or end
\* of the stream comes first, and no request by id is waited for without one.
THEOREM NoTimerIsLeft == Spec => []TimersMatchWaits
<1>1. LoginInv => TimersMatchWaits
  BY DEF LoginInv
<1> QED
  BY <1>1, LoginInvariant, PTL

-----------------------------------------------------------------------------
(* The turns of a login: what is under way, and who waits for it.             *)

\* What the client has not parsed yet of what the server has sent.
Pipe == buffer \o toClient

LastSent == conn.sent[Len(conn.sent)]
Closed   == \E i \in DOMAIN conn.sent : conn.sent[i] = "close"
Untried  == \A i \in DOMAIN conn.sent : conn.sent[i] \notin Mechanisms \cup {"legacy"}

\* The only handlers are hs, the only requests waited for by id are ids.
Waited(hs, ids) == conn.handlers = hs /\ conn.id_handlers = ids

\* A request of R is the last one, and is to be answered, or one of the replies is to be parsed.
Exchange(R, replies) ==
  /\ calls = {} /\ conn.sent # <<>> /\ LastSent \in R
  /\ \/ Len(conn.sent) = server.answered + 1 /\ Pipe = <<>>
     \/ Len(conn.sent) = server.answered /\ Pipe \in replies

\* Everything is answered and parsed but for rest, and h is to be called for item.
Called(h, item, rest) ==
  /\ Len(conn.sent) = server.answered /\ Pipe = rest
  /\ calls = {[handler |-> h, item |-> item]}

\* What may follow the opening tag, and the replies to the requests, or more.
Follow == {<<>>, <<Item("error"), Item("end")>>} \cup {<<f>> : f \in Features}

StreamReplies ==
  {<<Item("error"), Item("end")>>, <<Item("bad header")>>, <<Item("bad header"), Item("end")>>}
  \cup {<<Item("header")>> \o s : s \in Follow}
TlsReplies     == {<<Item("proceed")>>, <<Item("tls failure"), Item("end")>>}
SaslReplies    == {<<Item(k)>> : k \in SaslItems}
StepReplies(s) == {<<r>> : r \in {q \in Replies : q.kind = s}}
EndReplies     == {<<Item("end")>>}

\* The situations of a login.
Opening ==
  /\ Waited({}, {})
  /\ Exchange({"stream"}, StreamReplies)
  /\ conn.open_handler = "auth_handle_open" => Untried

\* The features of the first stream (or of that after TLS), or of the authenticated one.
Announcing(w) ==
  /\ Waited({w}, {})
  /\ \/ calls = {} /\ Len(conn.sent) = server.answered /\ Pipe \in Follow \cup {<<Item("end")>>}
     \/ \E f \in Features : Called(w, f, <<>>)
  /\ IF w = "features" THEN Untried ELSE conn.open_handler = "_handle_open_sasl"

\* TLS was asked for.
Securing ==
  /\ Waited({"proceedtls"}, {})
  /\ \/ Exchange({"starttls"}, TlsReplies)
     \/ Called("proceedtls", Item("proceed"), <<>>)
     \/ Called("proceedtls", Item("tls failure"), <<Item("end")>>)
  /\ Untried

\* A mechanism is tried, not to be tried again, and h waits for what the server makes of it.
Trying(h) ==
  /\ Waited({h}, {}) /\ h \notin conn.sasl_support
  /\ \/ Exchange(Mechanisms \cup {"response"}, SaslReplies)
     \/ \E k \in SaslItems : Called(h, Item(k), <<>>)

\* The resource is to be bound, the session started, or the legacy login answered.
Requesting(s) == Waited({}, {s}) /\ Exchange({s}, StepReplies(s))

\* The stream is ended by the client.
Closing == Waited({}, {}) /\ Exchange({"close"}, EndReplies)

\* The login is over, or the server ends the stream.
Done ==
  /\ Waited({}, {})
  /\ calls = {} /\ Len(conn.sent) = server.answered /\ Pipe \in {<<>>, <<Item("end")>>}

\* The login goes on.
LoggingIn ==
  \/ Opening
  \/ \E w \in Waits : Announcing(w)
  \/ Securing
  \/ \E h \in SaslHandlers : Trying(h)
  \/ \E s \in Steps : Requesting(s)

\* Until a wait is given up, the client and the server take turns.
Turns ==
  /\ conn.state = "CONNECTING" =>
       Waited({}, {}) /\ calls = {} /\ Pipe = <<>> /\ conn.sent = <<>> /\ server.answered = 0
       /\ ~conn.authenticated
  /\ conn.state = "CONNECTED" =>
       \/ LoggingIn /\ ~conn.authenticated /\ ~Closed
       \/ Closing /\ ~conn.authenticated
       \/ Done /\ ~Closed
  /\ conn.state = "DISCONNECTED" => calls = {} /\ buffer \in {<<>>, <<Item("end")>>}
  /\ GivesUpForGood
  /\ \A h, g \in conn.handlers \cap SaslHandlers : h = g

\* A stream is to be opened: asked for and not answered, or the opening tag is on its way.
Headed(p) == \E i \in DOMAIN p : p[i].kind \in {"header", "bad header"}
Renewed   == \E i \in server.answered + 1 .. Len(conn.sent) : conn.sent[i] = "stream"

\* No mechanism is tried any more.
Past ==
  /\ conn.handlers \subseteq {"features_sasl"}
  /\ \A call \in calls : call.handler = "features_sasl"
  /\ conn.state # "CONNECTING"
  /\ Headed(Pipe) \/ Renewed => conn.open_handler = "_handle_open_sasl"

\* The mechanisms tried were in order and before those that are left, the legacy
\* protocol when none was left.
Ordered(c) ==
  /\ \A i, j \in DOMAIN c.sent : \A k, l \in DOMAIN Strength :
           i < j /\ c.sent[i] = Strength[k] /\ c.sent[j] = Strength[l] => k < l
  /\ \A i \in DOMAIN c.sent : \A k, l \in DOMAIN Strength :
           c.sent[i] = Strength[k] /\ Strength[l] \in c.sasl_support => k < l
  /\ (\E i \in DOMAIN c.sent : c.sent[i] = "legacy") => Candidates(c) = {}

\* The turns as long as nothing was given up, the order as long as the first features were
\* not, and no announcement of TLS is remembered: the handler that sets tls_support makes
\* _auth use and unset it.
TurnsInv == ~Late => Turns
OrderInv == ~FeaturesLate => Ordered(conn) /\ (Late => Past)
TlsInv   == conn.tls_support = FALSE

-----------------------------------------------------------------------------
(* What the handlers do to the fields the turns are about.                   *)

\* d has c's state, stream and outcome; its mechanisms; its handlers; and one request
\* more, if c is connected.
Kept(c, d) ==
  /\ d.state = c.state /\ d.open_handler = c.open_handler
  /\ d.authenticated = c.authenticated /\ d.fired = c.fired /\ d.events = c.events
SameSasl(c, d)  == d.sasl_support = c.sasl_support /\ d.tls_support = c.tls_support
SameWaits(c, d) == d.handlers = c.handlers /\ d.id_handlers = c.id_handlers
Adds(c, d, r)   == d.sent = IF c.state = "CONNECTED" THEN Append(c.sent, r) ELSE c.sent

\* A request is sent, if the connection is connected.
LEMMA SendEffect ==
  ASSUME NEW c \in Connections, NEW r, NEW d, d = Send(c, r)
  PROVE  Kept(c, d) /\ SameSasl(c, d) /\ SameWaits(c, d) /\ Adds(c, d, r)
<1>1. CASE c.state = "CONNECTED"
  <2>1. d = [c EXCEPT !.sent = Append(c.sent, r)]
    BY <1>1 DEF Send
  <2> QED
    BY <1>1, <2>1 DEF Connections, Kept, SameSasl, SameWaits, Adds
<1>2. CASE c.state # "CONNECTED"
  BY <1>2 DEF Send, Kept, SameSasl, SameWaits, Adds
<1> QED
  BY <1>1, <1>2

\* The stream is ended.
LEMMA EndStreamEffect ==
  ASSUME NEW c, Sound(c), NEW d, d = EndStream(c)
  PROVE  Kept(c, d) /\ SameSasl(c, d) /\ SameWaits(c, d) /\ Adds(c, d, "close")
<1>1. CASE c.state = "DISCONNECTED"
  BY <1>1 DEF EndStream, Kept, SameSasl, SameWaits, Adds
<1>2. CASE c.state # "DISCONNECTED"
  <2> DEFINE e == Send(c, "close")
  <2>1. Kept(c, e) /\ SameSasl(c, e) /\ SameWaits(c, e) /\ Adds(c, e, "close")
    BY SendEffect DEF Sound
  <2>2. Sound(e)
    BY SendSound DEF Requests
  <2>3. d = [e EXCEPT !.timed_handlers = @ \cup {"cleanup"}]
    BY <1>2 DEF EndStream
  <2> HIDE DEF e
  <2>4. Kept(e, d) /\ SameSasl(e, d) /\ SameWaits(e, d) /\ d.sent = e.sent
    BY <2>2, <2>3 DEF Sound, Connections, Kept, SameSasl, SameWaits
  <2> QED
    BY <2>1, <2>4 DEF Kept, SameSasl, SameWaits, Adds
<1> QED
  BY <1>1, <1>2

\* The connection is closed.
LEMMA DisconnectEffect ==
  ASSUME NEW c, Sound(c), NEW d, d = Disconnect(c)
  PROVE  /\ d.state = "DISCONNECTED" /\ d.open_handler = c.open_handler
         /\ d.authenticated = c.authenticated /\ d.fired = c.fired
         /\ d.events = Append(c.events, "DISCONNECT")
         /\ SameSasl(c, d) /\ SameWaits(c, d) /\ d.sent = c.sent
BY DEF Disconnect, Sound, Connections, SameSasl, SameWaits

\* A reply is waited for.
LEMMA AwaitEffect ==
  ASSUME NEW c, Sound(c), NEW step \in Steps, NEW d, d = Await(c, step)
  PROVE  /\ Kept(c, d) /\ SameSasl(c, d) /\ Adds(c, d, step)
         /\ d.handlers = c.handlers /\ d.id_handlers = c.id_handlers \cup {step}
<1> DEFINE e == [c EXCEPT !.id_handlers = @ \cup {step}, !.timed_handlers = @ \cup {step}]
<1>1. e \in Connections
  BY DEF Sound, Connections
<1>2. /\ Kept(c, e) /\ SameSasl(c, e) /\ e.sent = c.sent
      /\ e.handlers = c.handlers /\ e.id_handlers = c.id_handlers \cup {step}
  BY DEF Sound, Connections, Kept, SameSasl
<1>3. d = Send(e, step)
  BY DEF Await
<1> HIDE DEF e
<1>4. Kept(e, d) /\ SameSasl(e, d) /\ SameWaits(e, d) /\ Adds(e, d, step)
  BY <1>1, <1>3, SendEffect
<1> QED
  BY <1>2, <1>4 DEF Kept, SameSasl, SameWaits, Adds

\* The success is told.
LEMMA EstablishedEffect ==
  ASSUME NEW c, Sound(c), NEW d, d = Established(c)
  PROVE  /\ d.state = c.state /\ d.open_handler = c.open_handler /\ d.authenticated /\ d.fired = c.fired
         /\ SameSasl(c, d) /\ SameWaits(c, d) /\ d.sent = c.sent
         /\ d.events = Append(c.events, "CONNECT")
BY DEF Established, Sound, Connections, SameSasl, SameWaits

\* What _auth does to c.
Authenticates(c, d, r) ==
  /\ Kept(c, d) /\ Adds(c, d, r) /\ d.tls_support = FALSE
  /\ \/ /\ r = "starttls" /\ c.tls_support /\ tls_new
        /\ d.handlers = c.handlers \cup {"proceedtls"} /\ d.id_handlers = c.id_handlers
        /\ d.sasl_support = c.sasl_support
     \/ /\ Candidates(c) # {} /\ r = Strongest(Candidates(c))
        /\ d.handlers = c.handlers \cup {r} /\ d.id_handlers = c.id_handlers
        /\ d.sasl_support = c.sasl_support \ {r}
     \/ /\ Candidates(c) = {} /\ r = "legacy"
        /\ d.handlers = c.handlers /\ d.id_handlers = c.id_handlers \cup {"legacy"}
        /\ d.sasl_support = c.sasl_support
     \/ /\ r = "close" /\ SameWaits(c, d) /\ d.sasl_support = c.sasl_support

\* _auth tries one thing, or ends the stream.
LEMMA AuthenticateEffect ==
  ASSUME NEW c, Sound(c), NEW d, d = Authenticate(c)
  PROVE  \E r : Authenticates(c, d, r)
<1> DEFINE b == [c EXCEPT !.tls_support = FALSE]
           m == Strongest(Candidates(c))
<1>1. Sound(b)
  BY DEF Sound, Matched, Connections
<1>2. /\ Kept(c, b) /\ SameWaits(c, b) /\ b.sent = c.sent
      /\ b.sasl_support = c.sasl_support /\ b.tls_support = FALSE
  BY DEF Sound, Connections, Kept, SameWaits
<1>3. CASE c.tls_support /\ tls_new
  <2> DEFINE e == [c EXCEPT !.handlers = @ \cup {"proceedtls"}, !.tls_support = FALSE]
  <2>1. e \in Connections
    BY DEF Sound, Connections
  <2>2. /\ Kept(c, e) /\ e.sent = c.sent /\ e.sasl_support = c.sasl_support /\ e.tls_support = FALSE
        /\ e.handlers = c.handlers \cup {"proceedtls"} /\ e.id_handlers = c.id_handlers
    BY DEF Sound, Connections, Kept
  <2>3. d = Send(e, "starttls")
    BY <1>3 DEF Authenticate
  <2> HIDE DEF e
  <2>4. Kept(e, d) /\ SameSasl(e, d) /\ SameWaits(e, d) /\ Adds(e, d, "starttls")
    BY <2>1, <2>3, SendEffect
  <2>5. Authenticates(c, d, "starttls")
    BY <1>3, <2>2, <2>4 DEF Kept, SameSasl, SameWaits, Adds, Authenticates
  <2> QED
    BY <2>5
<1>4. CASE ~(c.tls_support /\ tls_new) /\ Candidates(c) # {}
  <2> DEFINE e == [b EXCEPT !.handlers = @ \cup {m}, !.sasl_support = @ \ {m}]
  <2>1. m \in SaslHandlers /\ m \in Mechanisms
    <3>1. Candidates(c) \in SUBSET Mechanisms
      BY DEF Sound, Connections, Candidates
    <3> QED
      BY <1>4, <3>1, StrongestIsCandidate DEF SaslHandlers
  <2>2. d = Send(e, m)
    BY <1>4 DEF Authenticate
  <2> HIDE DEF m, b
  <2>3. e \in Connections
    <3>1. b.sasl_support \ {m} \in SUBSET Mechanisms
      BY <1>1 DEF Sound, Connections
    <3>2. b.handlers \cup {m} \in SUBSET (Waits \cup SaslHandlers \cup {"proceedtls"})
      BY <1>1, <2>1 DEF Sound, Connections
    <3> QED
      BY <1>1, <3>1, <3>2 DEF Sound, Connections
  <2>4. /\ Kept(b, e) /\ e.sent = b.sent /\ e.sasl_support = b.sasl_support \ {m}
        /\ e.tls_support = b.tls_support
        /\ e.handlers = b.handlers \cup {m} /\ e.id_handlers = b.id_handlers
    BY <1>1 DEF Sound, Connections, Kept
  <2> HIDE DEF e
  <2>5. Kept(e, d) /\ SameSasl(e, d) /\ SameWaits(e, d) /\ Adds(e, d, m)
    BY <2>2, <2>3, SendEffect
  <2>6. Authenticates(c, d, m)
    <3>1. m = Strongest(Candidates(c))
      BY DEF m
    <3> QED
      BY <1>2, <1>4, <2>4, <2>5, <3>1 DEF Kept, SameSasl, SameWaits, Adds, Authenticates
  <2> QED
    BY <2>6
<1>5. CASE ~(c.tls_support /\ tls_new) /\ Candidates(c) = {}
  <2> HIDE DEF b
  <2>1. d = Await(b, "legacy") \/ d = EndStream(b)
    BY <1>5 DEF Authenticate, b
  <2>2. CASE d = Await(b, "legacy")
    <3>1. /\ Kept(b, d) /\ SameSasl(b, d) /\ Adds(b, d, "legacy")
          /\ d.handlers = b.handlers /\ d.id_handlers = b.id_handlers \cup {"legacy"}
      BY <1>1, <2>2, AwaitEffect DEF Steps
    <3>2. Authenticates(c, d, "legacy")
      BY <1>2, <1>5, <3>1 DEF Kept, SameSasl, SameWaits, Adds, Authenticates
    <3> QED
      BY <3>2
  <2>3. CASE d = EndStream(b)
    <3>1. Kept(b, d) /\ SameSasl(b, d) /\ SameWaits(b, d) /\ Adds(b, d, "close")
      BY <1>1, <2>3, EndStreamEffect
    <3>2. Authenticates(c, d, "close")
      BY <1>2, <3>1 DEF Kept, SameSasl, SameWaits, Adds, Authenticates
    <3> QED
      BY <3>2
  <2> QED
    BY <2>1, <2>2, <2>3
<1> QED
  BY <1>3, <1>4, <1>5

\* The opening tag: the features are waited for.
Wait(c) == IF c.open_handler = "auth_handle_open" THEN "features" ELSE "features_sasl"

\* The features are waited for.
LEMMA AwaitFeaturesEffect ==
  ASSUME NEW c, Sound(c), NEW d, d = AwaitFeatures(c)
  PROVE  /\ d.handlers = c.handlers \cup {Wait(c)}
         /\ d.id_handlers = c.id_handlers /\ SameSasl(c, d) /\ d.sent = c.sent /\ Kept(c, d)
BY DEF AwaitFeatures, Sound, Connections, SameSasl, Kept, Wait

\* The features of the first stream, and of that after TLS.
LEMMA FeaturesEffect ==
  ASSUME NEW c, Sound(c), NEW f \in Features, NEW d, d = HandleFeatures(c, f)
  PROVE  \E e, r : /\ Kept(c, e) /\ e.handlers = c.handlers \ {"features"}
                   /\ e.id_handlers = c.id_handlers /\ e.sent = c.sent /\ Sound(e)
                   /\ e.tls_support => c.tls_support \/ f.tls
                   /\ Authenticates(e, d, r)
<1> DEFINE e == [c EXCEPT !.handlers = @ \ {"features"},
                          !.timed_handlers = @ \ {"features"},
                          !.tls_support = @ \/ (f.tls /\ ~c.secured),
                          !.sasl_support = @ \cup (f.mechanisms \cap Mechanisms)]
<1>1. e \in Connections
  <2>1. (c.tls_support \/ (f.tls /\ ~c.secured)) \in BOOLEAN
    OBVIOUS
  <2>2. c.sasl_support \cup (f.mechanisms \cap Mechanisms) \in SUBSET Mechanisms
    BY DEF Sound, Connections
  <2> QED
    BY <2>1, <2>2 DEF Sound, Connections
<1>2. /\ Kept(c, e) /\ e.handlers = c.handlers \ {"features"}
      /\ e.id_handlers = c.id_handlers /\ e.sent = c.sent
      /\ e.timed_handlers = c.timed_handlers \ {"features"}
      /\ e.tls_support => c.tls_support \/ f.tls
  BY DEF Sound, Connections, Kept
<1>3. Sound(e)
  BY <1>1, <1>2 DEF Sound, Matched, Connections, Steps, Kept
<1>4. d = Authenticate(e)
  BY DEF HandleFeatures
<1> HIDE DEF e
<1>5. \E r : Authenticates(e, d, r)
  BY <1>3, <1>4, AuthenticateEffect
<1> QED
  BY <1>2, <1>3, <1>5

\* The answer to starttls.
Secures(c, d, kind) ==
  /\ SameSasl(c, d) /\ d.handlers = c.handlers \ {"proceedtls"} /\ d.id_handlers = c.id_handlers
  /\ d.state = c.state /\ d.authenticated = c.authenticated /\ d.fired = c.fired
  /\ d.events = c.events /\ d.open_handler \in {c.open_handler, "auth_handle_open"}
  /\ \/ kind # "proceed" /\ d.sent = c.sent
     \/ kind = "proceed" /\ Adds(c, d, "stream")
     \/ kind = "proceed" /\ Adds(c, d, "close")

\* The answer to starttls is handled.
LEMMA ProceedtlsEffect ==
  ASSUME NEW c, Sound(c), NEW kind, NEW handshake, NEW d, d = HandleProceedtls(c, kind, handshake)
  PROVE  Secures(c, d, kind)
<1> DEFINE b == [c EXCEPT !.handlers = @ \ {"proceedtls"}]
           secure == [b EXCEPT !.secured = TRUE, !.open_handler = "auth_handle_open"]
           failed == [b EXCEPT !.error = @ \/ handshake = "fails"]
<1>1. Sound(b)
  BY RemoveHandlerSound
<1>2. /\ b.handlers = c.handlers \ {"proceedtls"} /\ b.id_handlers = c.id_handlers
      /\ SameSasl(c, b) /\ Kept(c, b) /\ b.sent = c.sent
  BY DEF Sound, Connections, SameSasl, Kept
<1>4. kind # "proceed" => d = b
  BY DEF HandleProceedtls
<1>5. kind = "proceed" => d = Send(secure, "stream") \/ d = EndStream(failed)
  BY DEF HandleProceedtls
<1> HIDE DEF b
<1>6. CASE kind # "proceed"
  BY <1>2, <1>4, <1>6 DEF Kept, Secures
<1>7. CASE kind = "proceed" /\ d = Send(secure, "stream")
  <2>1. secure \in Connections
    BY <1>1 DEF Sound, Connections
  <2>2. /\ secure.state = b.state /\ secure.authenticated = b.authenticated /\ secure.fired = b.fired
        /\ secure.events = b.events /\ secure.open_handler = "auth_handle_open"
        /\ SameSasl(b, secure) /\ SameWaits(b, secure) /\ secure.sent = b.sent
    BY <1>1 DEF Sound, Connections, SameSasl, SameWaits
  <2> HIDE DEF secure
  <2>3. Kept(secure, d) /\ SameSasl(secure, d) /\ SameWaits(secure, d) /\ Adds(secure, d, "stream")
    BY <1>7, <2>1, SendEffect
  <2> QED
    BY <1>2, <1>7, <2>2, <2>3 DEF Kept, SameSasl, SameWaits, Adds, Secures
<1>8. CASE kind = "proceed" /\ d = EndStream(failed)
  <2>1. failed \in Connections
    BY <1>1 DEF Sound, Connections
  <2>2. /\ Kept(b, failed) /\ SameSasl(b, failed) /\ SameWaits(b, failed) /\ failed.sent = b.sent
        /\ failed.timed_handlers = b.timed_handlers
    BY <1>1 DEF Sound, Connections, Kept, SameSasl, SameWaits
  <2> HIDE DEF failed
  <2>3. Sound(failed)
    BY <1>1, <2>1, <2>2 DEF Sound, Matched, Kept, SameWaits
  <2>4. Kept(failed, d) /\ SameSasl(failed, d) /\ SameWaits(failed, d) /\ Adds(failed, d, "close")
    BY <1>8, <2>3, EndStreamEffect
  <2> QED
    BY <1>2, <1>8, <2>2, <2>4 DEF Kept, SameSasl, SameWaits, Adds, Secures
<1> QED
  BY <1>5, <1>6, <1>7, <1>8

\* h is taken off the list, and nothing else happens.
Removed(c, d, h) ==
  /\ Kept(c, d) /\ SameSasl(c, d) /\ d.handlers = c.handlers \ {h}
  /\ d.id_handlers = c.id_handlers /\ d.sent = c.sent

\* What a SASL stanza makes of c: another response, another try, the new stream, or the end.
Tries(c, d, h, kind) ==
  \/ /\ Kept(c, d) /\ SameSasl(c, d) /\ d.id_handlers = c.id_handlers /\ Adds(c, d, "response")
     /\ d.handlers = c.handlers \/ d.handlers = (c.handlers \ {h}) \cup {"rspauth"}
  \/ \E e, r : Authenticates(c, e, r) /\ Removed(e, d, h)
  \/ /\ d.handlers = c.handlers \ {h} /\ d.id_handlers = c.id_handlers /\ SameSasl(c, d)
     /\ d.state = c.state /\ d.authenticated = c.authenticated /\ d.fired = c.fired
     /\ d.events = c.events /\ kind = "success"
     /\ d.open_handler = "_handle_open_sasl" /\ Adds(c, d, "stream")
  \/ /\ d.handlers = c.handlers \ {h} /\ d.id_handlers = c.id_handlers /\ SameSasl(c, d)
     /\ Kept(c, d) /\ Adds(c, d, "close")

\* A SASL stanza is handled.
LEMMA SaslEffect ==
  ASSUME NEW c, Sound(c), NEW h \in SaslHandlers, NEW kind, NEW d, d = HandleSasl(c, h, kind)
  PROVE  Tries(c, d, h, kind)
<1> DEFINE told == HandleSaslResult(c, kind)
           next == [c EXCEPT !.handlers = (@ \cup {"rspauth"}) \ {h}]
           new  == [c EXCEPT !.open_handler = "_handle_open_sasl"]
<1>1. \/ d = Send(c, "response")
      \/ d = Send(next, "response") /\ h = "DIGEST-MD5"
      \/ d = [told EXCEPT !.handlers = @ \ {h}]
  BY DEF HandleSasl
<1>2. CASE d = Send(c, "response")
  BY <1>2, SendEffect DEF Sound, SameWaits, Tries
<1>3. CASE d = Send(next, "response") /\ h = "DIGEST-MD5"
  <2>1. next \in Connections
    BY DEF Sound, Connections, SaslHandlers
  <2>2. /\ Kept(c, next) /\ SameSasl(c, next) /\ next.sent = c.sent
        /\ next.handlers = (c.handlers \ {h}) \cup {"rspauth"} /\ next.id_handlers = c.id_handlers
    BY <1>3 DEF Sound, Connections, Kept, SameSasl
  <2> HIDE DEF next
  <2>3. Kept(next, d) /\ SameSasl(next, d) /\ SameWaits(next, d) /\ Adds(next, d, "response")
    BY <1>3, <2>1, SendEffect
  <2> QED
    BY <2>2, <2>3 DEF Kept, SameSasl, SameWaits, Adds, Tries
<1>4. CASE d = [told EXCEPT !.handlers = @ \ {h}]
  <2>1. told \in Connections
    BY HandleSaslResultSound DEF Sound
  <2>2. \/ told = Authenticate(c)
        \/ told = Send(new, "stream") /\ kind = "success"
        \/ told = EndStream(c)
    BY DEF HandleSaslResult
  <2> HIDE DEF told
  <2>3. Removed(told, d, h)
    BY <1>4, <2>1 DEF Connections, Kept, SameSasl, Removed
  <2>4. CASE told = Authenticate(c)
    <3>1. \E r : Authenticates(c, told, r)
      BY <2>4, AuthenticateEffect
    <3> QED
      BY <2>3, <3>1 DEF Tries
  <2>5. CASE told = Send(new, "stream") /\ kind = "success"
    <3>1. new \in Connections
      BY DEF Sound, Connections
    <3>2. /\ new.state = c.state /\ new.authenticated = c.authenticated /\ new.fired = c.fired
          /\ new.events = c.events
          /\ SameSasl(c, new) /\ SameWaits(c, new) /\ new.sent = c.sent
          /\ new.open_handler = "_handle_open_sasl"
      BY DEF Sound, Connections, SameSasl, SameWaits
    <3> HIDE DEF new
    <3>3. Kept(new, told) /\ SameSasl(new, told) /\ SameWaits(new, told) /\ Adds(new, told, "stream")
      BY <2>5, <3>1, SendEffect
    <3> QED
      BY <2>3, <2>5, <3>2, <3>3 DEF Kept, SameSasl, SameWaits, Adds, Removed, Tries
  <2>6. CASE told = EndStream(c)
    <3>1. Kept(c, told) /\ SameSasl(c, told) /\ SameWaits(c, told) /\ Adds(c, told, "close")
      BY <2>6, EndStreamEffect
    <3> QED
      BY <2>3, <3>1 DEF Kept, SameSasl, SameWaits, Adds, Removed, Tries
  <2> QED
    BY <2>2, <2>4, <2>5, <2>6
<1> QED
  BY <1>1, <1>2, <1>3, <1>4

\* A handler that is not to be added again may as well be taken off before.
LEMMA Retried ==
  ASSUME NEW c, Sound(c), NEW h \in SaslHandlers, h \notin c.sasl_support,
         NEW d, NEW b, NEW r, Authenticates(c, b, r), Removed(b, d, h)
  PROVE  \E e : /\ Kept(c, e) /\ e.handlers = c.handlers \ {h} /\ e.id_handlers = c.id_handlers
                 /\ e.sent = c.sent /\ SameSasl(c, e)
                 /\ Authenticates(e, d, r)
<1> DEFINE e == [c EXCEPT !.handlers = @ \ {h}]
<1>1. /\ Kept(c, e) /\ e.handlers = c.handlers \ {h} /\ e.id_handlers = c.id_handlers
      /\ e.sent = c.sent /\ SameSasl(c, e)
  BY DEF Sound, Connections, Kept, SameSasl
<1> HIDE DEF e
<1>2. Candidates(e) = Candidates(c)
  BY <1>1 DEF Candidates, SameSasl
<1>3. h # "proceedtls"
  BY DEF SaslHandlers, Mechanisms
<1>4. Candidates(c) # {} => h # Strongest(Candidates(c))
  <2>1. Candidates(c) \in SUBSET Mechanisms
    BY DEF Sound, Connections, Candidates
  <2>2. Candidates(c) # {} => Strongest(Candidates(c)) \in Candidates(c)
    BY <2>1, StrongestIsCandidate
  <2> QED
    BY <2>2 DEF Candidates
<1>5. /\ Kept(e, d) /\ Adds(e, d, r) /\ d.tls_support = FALSE
  BY <1>1 DEF Kept, Adds, SameSasl, Authenticates, Removed
<1>6. ASSUME /\ r = "starttls" /\ c.tls_support /\ tls_new
             /\ b.handlers = c.handlers \cup {"proceedtls"} /\ b.id_handlers = c.id_handlers
             /\ b.sasl_support = c.sasl_support
      PROVE  Authenticates(e, d, r)
  <2>1. d.handlers = e.handlers \cup {"proceedtls"}
    BY <1>1, <1>3, <1>6 DEF Removed
  <2> QED
    BY <1>1, <1>5, <1>6, <2>1 DEF SameSasl, Removed, Authenticates
<1>7. ASSUME /\ Candidates(c) # {} /\ r = Strongest(Candidates(c))
             /\ b.handlers = c.handlers \cup {r} /\ b.id_handlers = c.id_handlers
             /\ b.sasl_support = c.sasl_support \ {r}
      PROVE  Authenticates(e, d, r)
  <2>1. d.handlers = e.handlers \cup {r}
    BY <1>1, <1>4, <1>7 DEF Removed
  <2> QED
    BY <1>1, <1>2, <1>5, <1>7, <2>1 DEF SameSasl, Removed, Authenticates
<1>8. ASSUME /\ Candidates(c) = {} /\ r = "legacy"
             /\ b.handlers = c.handlers /\ b.id_handlers = c.id_handlers \cup {"legacy"}
             /\ b.sasl_support = c.sasl_support
      PROVE  Authenticates(e, d, r)
  BY <1>1, <1>2, <1>5, <1>8 DEF SameSasl, Removed, Authenticates
<1>9. ASSUME r = "close" /\ SameWaits(c, b) /\ b.sasl_support = c.sasl_support
      PROVE  Authenticates(e, d, r)
  BY <1>1, <1>5, <1>9 DEF SameSasl, SameWaits, Removed, Authenticates
<1>10. Authenticates(e, d, r)
  BY <1>6, <1>7, <1>8, <1>9 DEF Authenticates
<1> QED
  BY <1>1, <1>10

\* The features of the authenticated stream: a resource is bound, or the stream is ended.
LEMMA FeaturesSaslEffect ==
  ASSUME NEW c, Sound(c), NEW f \in Features, NEW d, d = HandleFeaturesSasl(c, f)
  PROVE  /\ Kept(c, d) /\ SameSasl(c, d) /\ d.handlers = c.handlers \ {"features_sasl"}
         /\ \/ d.id_handlers = c.id_handlers \cup {"bind"} /\ Adds(c, d, "bind")
            \/ d.id_handlers = c.id_handlers /\ Adds(c, d, "close")
<1> DEFINE e == [c EXCEPT !.handlers = @ \ {"features_sasl"},
                          !.timed_handlers = @ \ {"features_sasl"},
                          !.session_required = @ \/ f.session]
<1>1. e \in Connections
  BY DEF Sound, Connections, Features
<1>2. /\ e.handlers = c.handlers \ {"features_sasl"} /\ e.id_handlers = c.id_handlers
      /\ e.timed_handlers = c.timed_handlers \ {"features_sasl"}
      /\ Kept(c, e) /\ SameSasl(c, e) /\ e.sent = c.sent
  BY DEF Sound, Connections, Kept, SameSasl
<1>3. Sound(e)
  BY <1>1, <1>2 DEF Sound, Matched, Connections, Steps, Kept
<1>4. d = Await(e, "bind") \/ d = EndStream(e)
  BY DEF HandleFeaturesSasl
<1> HIDE DEF e
<1>5. CASE d = Await(e, "bind")
  <2>1. /\ Kept(e, d) /\ SameSasl(e, d) /\ Adds(e, d, "bind")
        /\ d.handlers = e.handlers /\ d.id_handlers = e.id_handlers \cup {"bind"}
    BY <1>3, <1>5, AwaitEffect DEF Steps
  <2> QED
    BY <1>2, <2>1 DEF Kept, SameSasl, Adds
<1>6. CASE d = EndStream(e)
  <2>1. Kept(e, d) /\ SameSasl(e, d) /\ SameWaits(e, d) /\ Adds(e, d, "close")
    BY <1>3, <1>6, EndStreamEffect
  <2> QED
    BY <1>2, <2>1 DEF Kept, SameSasl, SameWaits, Adds
<1> QED
  BY <1>4, <1>5, <1>6

\* A reply by id: the end, the request for a session, or the success.
LEMMA ReplyEffect ==
  ASSUME NEW c, Sound(c), NEW step \in Steps, NEW type, NEW d, d = HandleReply(c, step, type)
  PROVE  /\ d.handlers = c.handlers /\ SameSasl(c, d)
         /\ d.state = c.state /\ d.open_handler = c.open_handler /\ d.fired = c.fired
         /\ \/ /\ d.id_handlers = c.id_handlers \ {step} /\ Adds(c, d, "close")
               /\ d.authenticated = c.authenticated /\ d.events = c.events
            \/ /\ d.id_handlers = (c.id_handlers \ {step}) \cup {"session"} /\ Adds(c, d, "session")
               /\ d.authenticated = c.authenticated /\ d.events = c.events /\ step = "bind"
            \/ /\ d.id_handlers = c.id_handlers \ {step} /\ d.sent = c.sent /\ d.authenticated
               /\ d.events = Append(c.events, "CONNECT") /\ type = "result"
<1> DEFINE e == [c EXCEPT !.id_handlers = @ \ {step}, !.timed_handlers = @ \ {step}]
<1>1. e \in Connections
  BY DEF Sound, Connections
<1>2. /\ e.handlers = c.handlers /\ e.id_handlers = c.id_handlers \ {step}
      /\ e.timed_handlers = c.timed_handlers \ {step}
      /\ Kept(c, e) /\ SameSasl(c, e) /\ e.sent = c.sent
  BY DEF Sound, Connections, Kept, SameSasl
<1>3. Sound(e)
  BY <1>1, <1>2 DEF Sound, Matched, Kept
<1>4. d = EndStream(e) \/ (d = Await(e, "session") /\ step = "bind") \/ (d = Established(e) /\ type = "result")
  BY DEF HandleReply
<1> HIDE DEF e
<1>5. CASE d = EndStream(e)
  <2>1. Kept(e, d) /\ SameSasl(e, d) /\ SameWaits(e, d) /\ Adds(e, d, "close")
    BY <1>3, <1>5, EndStreamEffect
  <2> QED
    BY <1>2, <2>1 DEF Kept, SameSasl, SameWaits, Adds
<1>6. CASE d = Await(e, "session") /\ step = "bind"
  <2>1. /\ Kept(e, d) /\ SameSasl(e, d) /\ Adds(e, d, "session")
        /\ d.handlers = e.handlers /\ d.id_handlers = e.id_handlers \cup {"session"}
    BY <1>3, <1>6, AwaitEffect DEF Steps
  <2> QED
    BY <1>2, <1>6, <2>1 DEF Kept, SameSasl, Adds
<1>7. CASE d = Established(e) /\ type = "result"
  <2>1. /\ d.state = e.state /\ d.open_handler = e.open_handler /\ d.authenticated /\ d.fired = e.fired
        /\ SameSasl(e, d) /\ SameWaits(e, d) /\ d.sent = e.sent
        /\ d.events = Append(e.events, "CONNECT")
    BY <1>3, <1>7, EstablishedEffect
  <2> QED
    BY <1>2, <1>7, <2>1 DEF Kept, SameSasl, SameWaits
<1> QED
  BY <1>4, <1>5, <1>6, <1>7

\* A timer: the end, except for that of the features, or the connection is closed.
GivesUp(c, d, t) ==
  /\ d.fired = c.fired \cup {t}
  /\ c.tls_support = FALSE => d.tls_support = FALSE
  /\ t # "features" =>
       /\ d.authenticated = c.authenticated /\ d.open_handler = c.open_handler
       /\ SameSasl(c, d) /\ SameWaits(c, d)
  /\ t = "features" => \E b, r : /\ Authenticates(c, b, r)
                                 /\ d.state = b.state /\ d.open_handler = b.open_handler
                                 /\ SameSasl(b, d) /\ SameWaits(b, d)
                                 /\ d.sent = b.sent /\ d.events = b.events
  /\ t = "cleanup" => d.state = "DISCONNECTED" /\ d.sent = c.sent /\ d.events = Append(c.events, "DISCONNECT")
  /\ t \notin {"features", "cleanup"} => d.state = c.state /\ Adds(c, d, "close") /\ d.events = c.events

\* A wait is given up.
LEMMA MissingEffect ==
  ASSUME NEW c, Sound(c), NEW t \in Waits \cup Steps \cup {"cleanup"}, NEW d, d = HandleMissing(c, t)
  PROVE  GivesUp(c, d, t)
<1> DEFINE b == CASE t = "features" -> Authenticate(c)
                  [] t = "cleanup"  -> Disconnect(c)
                  [] OTHER          -> EndStream(c)
<1>1. Sound(b)
  BY AuthenticateSound, DisconnectSound, EndStreamSound
<1>2. /\ t = "features" => b = Authenticate(c)
      /\ t = "cleanup" => b = Disconnect(c)
      /\ t \notin {"features", "cleanup"} => b = EndStream(c)
  OBVIOUS
<1>3. d = [b EXCEPT !.timed_handlers = @ \ {t}, !.fired = @ \cup {t}]
  BY DEF HandleMissing
<1> HIDE DEF b
<1>4. /\ d.state = b.state /\ d.open_handler = b.open_handler /\ d.authenticated = b.authenticated
      /\ SameSasl(b, d) /\ SameWaits(b, d) /\ d.sent = b.sent /\ d.fired = b.fired \cup {t}
      /\ d.events = b.events
  BY <1>1, <1>3 DEF Sound, Connections, SameSasl, SameWaits
<1>5. CASE t = "features"
  <2>1. PICK r : Authenticates(c, b, r)
    BY <1>2, <1>5, AuthenticateEffect
  <2> QED
    BY <1>4, <1>5, <2>1 DEF GivesUp, Authenticates, Kept, SameSasl
<1>6. CASE t = "cleanup"
  <2>1. /\ b.state = "DISCONNECTED" /\ b.open_handler = c.open_handler
        /\ b.authenticated = c.authenticated /\ b.fired = c.fired
        /\ b.events = Append(c.events, "DISCONNECT")
        /\ SameSasl(c, b) /\ SameWaits(c, b) /\ b.sent = c.sent
    BY <1>2, <1>6, DisconnectEffect
  <2> QED
    BY <1>4, <1>6, <2>1 DEF GivesUp, SameSasl, SameWaits
<1>7. CASE t \notin {"features", "cleanup"}
  <2>1. Kept(c, b) /\ SameSasl(c, b) /\ SameWaits(c, b) /\ Adds(c, b, "close")
    BY <1>2, <1>7, EndStreamEffect
  <2> QED
    BY <1>4, <1>7, <2>1 DEF GivesUp, Kept, SameSasl, SameWaits, Adds
<1> QED
  BY <1>5, <1>6, <1>7

-----------------------------------------------------------------------------
(* The turns.                                                                *)

\* The requests sent once r was added.
LEMMA Added ==
  ASSUME NEW s \in Seq(Requests), NEW r, NEW u, u = Append(s, r)
  PROVE  /\ Len(u) = Len(s) + 1 /\ u # <<>> /\ u[Len(u)] = r
         /\ \A i \in DOMAIN u : \/ i \in DOMAIN s /\ u[i] = s[i]
                                \/ i = Len(u) /\ u[i] = r
         /\ \A i \in DOMAIN s : i \in DOMAIN u /\ u[i] = s[i] /\ i < Len(u)
<1>1. Len(s) \in Nat /\ DOMAIN s = 1 .. Len(s) /\ DOMAIN u = 1 .. Len(u) /\ Len(u) = Len(s) + 1
  OBVIOUS
<1>2. u[Len(u)] = r /\ \A i \in 1 .. Len(s) : u[i] = s[i]
  OBVIOUS
<1> QED
  BY <1>1, <1>2

\* A request is sent while nothing is under way.
Asks(r) ==
  /\ conn.state = "CONNECTED" /\ conn'.state = "CONNECTED"
  /\ conn'.sent = Append(conn.sent, r)
  /\ Len(conn.sent) = server.answered /\ server' = server
  /\ Pipe' = <<>> /\ calls' = {}
  /\ ~conn.authenticated /\ ~conn'.authenticated
  /\ ~Closed

\* After the request the exchange is about its answer.
LEMMA NowAsked ==
  ASSUME TypeOK, NEW r, Asks(r), NEW R, r \in R, NEW X
  PROVE  Exchange(R, X)'
<1>1. conn.sent \in Seq(Requests)
  BY DEF TypeOK, Connections
<1>2. Len(conn'.sent) = Len(conn.sent) + 1 /\ conn'.sent # <<>> /\ conn'.sent[Len(conn'.sent)] = r
  BY <1>1, Added DEF Asks
<1> QED
  BY <1>2 DEF Asks, Exchange, LastSent

\* The situation a request leaves.
LEMMA AskTurns ==
  ASSUME TypeOK, NEW r, Asks(r),
         \/ r = "stream" /\ Waited({}, {})' /\ (conn'.open_handler = "_handle_open_sasl" \/ Untried)
         \/ r = "starttls" /\ Waited({"proceedtls"}, {})' /\ Untried
         \/ /\ r \in Mechanisms \cup {"response"}
            /\ \E h \in SaslHandlers : Waited({h}, {})' /\ h \notin conn'.sasl_support
         \/ r \in Steps /\ Waited({}, {r})'
         \/ r = "close" /\ Waited({}, {})'
  PROVE  Turns'
<1>1. conn.sent \in Seq(Requests)
  BY DEF TypeOK, Connections
<1>2. /\ Len(conn'.sent) = Len(conn.sent) + 1
      /\ \A i \in DOMAIN conn'.sent : \/ i \in DOMAIN conn.sent /\ conn'.sent[i] = conn.sent[i]
                                      \/ i = Len(conn'.sent) /\ conn'.sent[i] = r
  BY <1>1, Added DEF Asks
<1>3. r # "close" => ~Closed'
  BY <1>2 DEF Asks, Closed
<1>4. GivesUpForGood'
  BY <1>2 DEF Asks, Closed, GivesUpForGood
<1>5. Untried /\ r \in {"stream", "starttls"} => Untried'
  BY <1>2 DEF Untried, Mechanisms
<1>6. \A h, g \in conn'.handlers \cap SaslHandlers : h = g
  BY DEF Waited
<1>7. \/ r # "close" /\ LoggingIn'
      \/ r = "close" /\ Closing'
  <2>1. CASE r = "stream" /\ Waited({}, {})' /\ (conn'.open_handler = "_handle_open_sasl" \/ Untried)
    <3>1. Exchange({"stream"}, StreamReplies)'
      <4> DEFINE X == StreamReplies
      <4> HIDE DEF X
      <4>1. Exchange({"stream"}, X)'
        BY <2>1, NowAsked
      <4> QED
        BY <4>1 DEF X
    <3>2. Opening'
      BY <2>1, <3>1, <1>5 DEF Opening
    <3>3. LoggingIn'
      BY <3>2 DEF LoggingIn
    <3> QED
      BY <2>1, <3>3
  <2>2. CASE r = "starttls" /\ Waited({"proceedtls"}, {})' /\ Untried
    <3>1. Exchange({"starttls"}, TlsReplies)'
      BY <2>2, NowAsked
    <3>2. Securing'
      BY <2>2, <3>1, <1>5 DEF Securing
    <3>3. LoggingIn'
      BY <3>2 DEF LoggingIn
    <3> QED
      BY <2>2, <3>3
  <2>3. CASE /\ r \in Mechanisms \cup {"response"}
             /\ \E h \in SaslHandlers : Waited({h}, {})' /\ h \notin conn'.sasl_support
    <3>1. PICK h \in SaslHandlers : Waited({h}, {})' /\ h \notin conn'.sasl_support
      BY <2>3
    <3>2. Exchange(Mechanisms \cup {"response"}, SaslReplies)'
      BY <2>3, NowAsked
    <3>3. Trying(h)'
      BY <3>1, <3>2 DEF Trying
    <3>4. LoggingIn'
      BY <3>1, <3>3 DEF LoggingIn
    <3> QED
      BY <2>3, <3>4 DEF Mechanisms
  <2>4. CASE r \in Steps /\ Waited({}, {r})'
    <3>1. Exchange({r}, StepReplies(r))'
      BY <2>4, NowAsked
    <3>2. Requesting(r)'
      BY <2>4, <3>1 DEF Requesting
    <3>3. LoggingIn'
      BY <2>4, <3>2 DEF LoggingIn
    <3> QED
      BY <2>4, <3>3 DEF Steps
  <2>5. CASE r = "close" /\ Waited({}, {})'
    <3>1. Exchange({"close"}, EndReplies)'
      BY <2>5, NowAsked
    <3> QED
      BY <2>5, <3>1 DEF Closing
  <2> QED
    BY <2>1, <2>2, <2>3, <2>4, <2>5
<1>8. \/ LoggingIn' /\ ~conn'.authenticated /\ ~Closed'
      \/ Closing' /\ ~conn'.authenticated
      \/ Done' /\ ~Closed'
  <2>1. ~conn'.authenticated
    BY DEF Asks
  <2> QED
    BY <1>3, <1>7, <2>1, Zenon
<1>9. conn'.state = "CONNECTED" /\ conn'.state # "CONNECTING" /\ conn'.state # "DISCONNECTED"
  BY DEF Asks
<1> QED
  BY <1>4, <1>6, <1>8, <1>9 DEF Turns

\* The situation that is left by _auth, called when no handler is left.
LEMMA AuthenticateTurns ==
  ASSUME TypeOK, NEW e, NEW r, Kept(conn, e), e.sent = conn.sent,
         e.handlers = {}, e.id_handlers = {}, Authenticates(e, conn', r),
         e.tls_support => Untried, Candidates(e) \in SUBSET Mechanisms,
         conn.state = "CONNECTED", Len(conn.sent) = server.answered, server' = server,
         Pipe' = <<>>, calls' = {}, ~conn.authenticated, ~Closed
  PROVE  Turns'
<1>1. Asks(r)
  BY DEF Asks, Kept, Authenticates, Adds
<1>2. CASE r = "starttls" /\ e.tls_support /\ conn'.handlers = e.handlers \cup {"proceedtls"} /\ conn'.id_handlers = e.id_handlers
  <2>1. Waited({"proceedtls"}, {})'
    BY <1>2 DEF Waited
  <2> QED
    BY <1>1, <1>2, <2>1, AskTurns
<1>3. CASE Candidates(e) # {} /\ r = Strongest(Candidates(e)) /\ conn'.handlers = e.handlers \cup {r} /\ conn'.id_handlers = e.id_handlers
           /\ conn'.sasl_support = e.sasl_support \ {r}
  <2>1. r \in Mechanisms /\ Waited({r}, {})' /\ r \notin conn'.sasl_support
    BY <1>3, StrongestIsCandidate DEF Waited
  <2> QED
    BY <1>1, <2>1, AskTurns DEF SaslHandlers
<1>4. CASE r = "legacy" /\ conn'.handlers = e.handlers /\ conn'.id_handlers = e.id_handlers \cup {"legacy"}
  <2>1. Waited({}, {r})' /\ r \in Steps
    BY <1>4 DEF Waited, Steps
  <2> QED
    BY <1>1, <2>1, AskTurns
<1>5. CASE r = "close" /\ SameWaits(e, conn')
  <2>1. Waited({}, {})'
    BY <1>5 DEF Waited, SameWaits
  <2> QED
    BY <1>1, <1>5, <2>1, AskTurns
<1> QED
  BY <1>2, <1>3, <1>4, <1>5 DEF Authenticates

\* The situation does not change.
LEMMA SameTurns ==
  ASSUME Turns, conn' = conn, calls' = calls, Pipe' = Pipe, server' = server,
         conn.state = "DISCONNECTED" => buffer' = buffer
  PROVE  Turns'
<1>1. \A R, X : Exchange(R, X) => Exchange(R, X)'
  BY DEF Exchange, LastSent
<1>2. \A h, i, p : Called(h, i, p) => Called(h, i, p)'
  BY DEF Called
<1>3. \A hs, ids : Waited(hs, ids) => Waited(hs, ids)'
  BY DEF Waited
<1>4. (Untried => Untried') /\ (Closed' <=> Closed) /\ (GivesUpForGood => GivesUpForGood')
  BY DEF Untried, Closed, GivesUpForGood, Late
<1>5. Opening => Opening'
  BY <1>1, <1>3, <1>4 DEF Opening
<1>6. \A w : Announcing(w) => Announcing(w)'
  BY <1>2, <1>3, <1>4 DEF Announcing
<1>7. Securing => Securing'
  BY <1>1, <1>2, <1>3, <1>4 DEF Securing
<1>8. \A h : Trying(h) => Trying(h)'
  BY <1>1, <1>2, <1>3 DEF Trying
<1>9. \A s : Requesting(s) => Requesting(s)'
  BY <1>1, <1>3 DEF Requesting
<1>10. (Closing => Closing') /\ (Done => Done')
  BY <1>1, <1>3 DEF Closing, Done
<1>11. LoggingIn => LoggingIn'
  BY <1>5, <1>6, <1>7, <1>8, <1>9 DEF LoggingIn
<1> QED
  BY <1>3, <1>4, <1>10, <1>11 DEF Turns

\* What is read goes from one half of the pipe to the other.
LEMMA ReadPipe ==
  ASSUME NEW s, s \in Seq(Items), NEW n \in 0 .. Len(s)
  PROVE  <<>> \o s = SubSeq(s, 1, n) \o SubSeq(s, n + 1, Len(s))
<1> DEFINE L == Len(s)
           a == SubSeq(s, 1, n)
           b == SubSeq(s, n + 1, L)
<1>1. L \in Nat /\ n \in Nat /\ n <= L
  OBVIOUS
<1>2. a \in Seq(Items) /\ Len(a) = n /\ \A i \in 1 .. n : a[i] = s[i]
  BY <1>1
<1>3. b \in Seq(Items) /\ Len(b) = L - n /\ \A i \in 1 .. L - n : b[i] = s[n + i]
  BY <1>1
<1> HIDE DEF a, b, Items
<1>4. a \o b \in Seq(Items) /\ Len(a \o b) = L
  BY <1>1, <1>2, <1>3
<1>5. \A i \in 1 .. L : (a \o b)[i] = s[i]
  <2> SUFFICES ASSUME NEW i \in 1 .. L PROVE (a \o b)[i] = s[i]
    OBVIOUS
  <2>1. CASE i <= n
    BY <2>1, <1>1, <1>2, <1>3
  <2>2. CASE i > n
    <3>1. i - n \in 1 .. L - n /\ n + (i - n) = i
      BY <2>2, <1>1
    <3>2. (a \o b)[i] = b[i - n]
      BY <2>2, <1>1, <1>2, <1>3
    <3> QED
      BY <3>1, <3>2, <1>3
  <2> QED
    <3>1. i \in Nat /\ n \in Nat
      BY <1>1
    <3>2. i <= n \/ i > n
      BY <3>1
    <3> QED
      BY <2>1, <2>2, <3>2
<1>6. <<>> \o s = s
  OBVIOUS
<1>7. a \o b = s
  BY <1>4, <1>5, SeqEqual
<1> QED
  BY <1>6, <1>7 DEF a, b

\* Reading moves what was sent on, and keeps the turns.
LEMMA ReadTurns ==
  ASSUME TypeOK, Turns, Read \/ ReadMalformed
  PROVE  Turns'
<1>1. PICK n \in 0 .. Len(toClient) : ReadUpTo(n)
  BY Reads
<1>2. Pipe' = Pipe
  <2>1. buffer = <<>> /\ toClient \in Seq(Items)
    BY <1>1 DEF ReadUpTo, AtRest, TypeOK
  <2> QED
    BY <1>1, <2>1, ReadPipe DEF ReadUpTo, Pipe
<1> QED
  BY <1>1, <1>2, SameTurns DEF ReadUpTo, AtRest

\* The connection is closed.
LEMMA CloseTurns ==
  ASSUME Turns, ~Late, conn'.state = "DISCONNECTED", conn'.sent = conn.sent,
         conn'.authenticated = conn.authenticated,
         conn'.handlers \cap SaslHandlers = conn.handlers \cap SaslHandlers,
         calls' = {}, buffer' \in {<<>>, <<Item("end")>>}
  PROVE  Turns'
<1>1. \A i \in DOMAIN conn.sent : conn.sent[i] = "close" => i = Len(conn.sent) /\ ~conn.authenticated
  BY DEF Turns, GivesUpForGood
<1>2. GivesUpForGood'
  <2>1. \A i \in DOMAIN conn'.sent : conn'.sent[i] = "close" => i = Len(conn'.sent) /\ ~conn.authenticated
    BY <1>1
  <2>2. \A i \in DOMAIN conn'.sent : conn'.sent[i] = "close" => i = Len(conn'.sent) /\ ~conn'.authenticated
    <3>1. conn'.authenticated <=> conn.authenticated
      OBVIOUS
    <3> QED
      BY <2>1, <3>1, Zenon
  <2> QED
    BY <2>2, Zenon DEF GivesUpForGood
<1>3. \A h, g \in conn'.handlers \cap SaslHandlers : h = g
  BY DEF Turns
<1>4. conn'.state # "CONNECTING" /\ conn'.state # "CONNECTED"
  OBVIOUS
<1>5. Item("end") = Item("end")'
  BY DEF Item
<1> QED
  BY <1>2, <1>3, <1>4, <1>5 DEF Turns

\* The end of an attempt to connect.
LEMMA ConnectTurns ==
  ASSUME TypeOK, Sound(conn), Turns, ~Late, Connect
  PROVE  Turns'
<1>1. /\ conn.state = "CONNECTING" /\ calls = {} /\ Pipe = <<>> /\ conn.sent = <<>>
      /\ server.answered = 0 /\ Waited({}, {}) /\ ~conn.authenticated
  BY DEF Connect, Turns
<1>2. calls' = calls /\ buffer' = buffer /\ Pipe' = Pipe /\ server' = server
  BY DEF Connect, Outside, Pipe
<1>3. CASE conn' = Disconnect(conn)
  <2>1. buffer = <<>>
    BY <1>1 DEF Pipe, TypeOK
  <2>2. /\ conn'.state = "DISCONNECTED" /\ conn'.sent = conn.sent
        /\ conn'.authenticated = conn.authenticated /\ conn'.handlers = conn.handlers
    BY <1>3, DisconnectEffect DEF SameWaits
  <2> QED
    BY <1>1, <1>2, <2>1, <2>2, CloseTurns
<1>4. CASE conn' = Send([conn EXCEPT !.state = "CONNECTED"], "stream")
  <2> DEFINE b == [conn EXCEPT !.state = "CONNECTED"]
  <2>1. /\ b \in Connections /\ b.state = "CONNECTED" /\ b.sent = conn.sent /\ SameWaits(conn, b)
        /\ b.authenticated = conn.authenticated
    BY DEF Sound, Connections, SameWaits
  <2>2. conn' = Send(b, "stream")
    BY <1>4
  <2> HIDE DEF b
  <2>3. Kept(b, conn') /\ SameWaits(b, conn') /\ Adds(b, conn', "stream")
    BY <2>1, <2>2, SendEffect
  <2>4. conn'.state = "CONNECTED" /\ conn'.sent = Append(<<>>, "stream") /\ Waited({}, {})'
    BY <1>1, <2>1, <2>3 DEF Kept, SameWaits, Adds, Waited
  <2>5. ~conn'.authenticated
    BY <1>1, <2>1, <2>3 DEF Kept
  <2>6. conn'.sent = <<"stream">> /\ Len(conn'.sent) = 1 /\ DOMAIN conn'.sent = {1} /\ conn'.sent[1] = "stream"
    BY <2>4
  <2>7. Untried' /\ ~Closed' /\ GivesUpForGood'
    BY <2>6 DEF Untried, Closed, GivesUpForGood, Mechanisms
  <2>8. Exchange({"stream"}, StreamReplies)'
    <3> DEFINE X == StreamReplies
    <3> HIDE DEF X
    <3>1. Exchange({"stream"}, X)'
      BY <1>1, <1>2, <2>6 DEF Exchange, LastSent
    <3> QED
      BY <3>1 DEF X
  <2>9. LoggingIn'
    BY <2>4, <2>7, <2>8 DEF LoggingIn, Opening
  <2>10. \A h, g \in conn'.handlers \cap SaslHandlers : h = g
    BY <2>4 DEF Waited
  <2>11. conn'.state # "CONNECTING" /\ conn'.state # "DISCONNECTED"
    BY <2>4
  <2> QED
    BY <2>5, <2>7, <2>9, <2>10, <2>11 DEF Turns
<1> QED
  BY <1>3, <1>4 DEF Connect

\* The connection breaks, is torn down, or closed for what is no XML.
LEMMA BreakTurns ==
  ASSUME Sound(conn), Turns, ~Late, TearDown \/ Break \/ ParseFails
  PROVE  Turns'
<1>1. \E b : /\ Sound(b) /\ conn' = Disconnect(b) /\ b.sent = conn.sent
             /\ b.authenticated = conn.authenticated /\ b.handlers = conn.handlers
  <2> DEFINE b == [conn EXCEPT !.error = TRUE]
  <2>1. /\ Sound(b) /\ b.sent = conn.sent
        /\ b.authenticated = conn.authenticated /\ b.handlers = conn.handlers
    BY DEF Sound, Matched, Connections
  <2> QED
    BY <2>1 DEF TearDown, Break, ParseFails
<1>2. /\ conn'.state = "DISCONNECTED" /\ conn'.sent = conn.sent
      /\ conn'.authenticated = conn.authenticated /\ conn'.handlers = conn.handlers
  BY <1>1, DisconnectEffect DEF SameWaits
<1>3. calls' = {} /\ buffer' = <<>>
  BY DEF TearDown, Break, ParseFails, AtRest
<1> QED
  BY <1>2, <1>3, CloseTurns

\* A timer fires: that of the end closes the connection, another gives up a wait.
LEMMA FireTurns ==
  ASSUME Sound(conn), Turns, ~Late, NEW t \in Waits \cup Steps \cup {"cleanup"}, Fire(t), ~Late'
  PROVE  Turns'
<1>1. conn' = HandleMissing(conn, t)
  BY DEF Fire
<1>2. GivesUp(conn, conn', t)
  BY <1>1, MissingEffect
<1>3. t = "cleanup"
  <2>1. conn'.fired = conn.fired \cup {t}
    BY <1>2 DEF GivesUp
  <2> QED
    BY <2>1 DEF Late
<1>4. /\ conn'.state = "DISCONNECTED" /\ conn'.sent = conn.sent
      /\ conn'.authenticated = conn.authenticated /\ conn'.handlers = conn.handlers
  BY <1>2, <1>3 DEF GivesUp, SameWaits
<1>5. calls' = {} /\ buffer' = <<>>
  BY DEF Fire, AtRest
<1> QED
  BY <1>4, <1>5, CloseTurns

\* A stanza and what follows it.
LEMMA Followed ==
  ASSUME NEW x, NEW y
  PROVE  <<x>> \o <<>> = <<x>> /\ <<x>> \o <<y>> = <<x, y>>
<1> DEFINE S == {x, y}
<1>1. <<x>> \in Seq(S) /\ <<y>> \in Seq(S) /\ <<x, y>> \in Seq(S) /\ <<>> \in Seq(S)
  OBVIOUS
<1>2. <<x>> \o <<>> = <<x>>
  BY <1>1
<1>3. <<x>> \o <<y>> = <<x, y>>
  <2>1. <<x>> \o <<y>> \in Seq(S) /\ Len(<<x>> \o <<y>>) = 2
    BY <1>1
  <2>2. (<<x>> \o <<y>>)[1] = x /\ (<<x>> \o <<y>>)[2] = y
    BY <1>1
  <2>3. Len(<<x, y>>) = 2 /\ <<x, y>>[1] = x /\ <<x, y>>[2] = y
    OBVIOUS
  <2>4. \A i \in 1 .. 2 : i = 1 \/ i = 2
    OBVIOUS
  <2> HIDE DEF S
  <2> QED
    BY <1>1, <2>1, <2>2, <2>3, <2>4, SeqEqual
<1> QED
  BY <1>2, <1>3

\* What the server answers is among the replies the turns know of.
LEMMA AnswersFit ==
  /\ Answers("stream") \subseteq StreamReplies
  /\ Answers("starttls") \subseteq TlsReplies
  /\ \A r \in Mechanisms \cup {"response"} : Answers(r) \subseteq SaslReplies
  /\ \A s \in Steps : Answers(s) \subseteq StepReplies(s)
  /\ Answers("close") \subseteq EndReplies
<1>1. Answers("stream") \subseteq StreamReplies
  <2>1. AfterHeader \subseteq Follow
    BY DEF AfterHeader, Follow
  <2>2. <<Item("bad header")>> \o <<>> = <<Item("bad header")>>
        /\ <<Item("bad header")>> \o <<Item("end")>> = <<Item("bad header"), Item("end")>>
    BY Followed
  <2>3. CASE server.fresh
    <3>1. Answers("stream") =
            {<<Item("header")>> \o rest : rest \in AfterHeader} \cup
            {<<Item("bad header")>> \o rest : rest \in IF server.answered = 0 THEN {<<>>, <<Item("end")>>} ELSE {}}
      BY <2>3 DEF Answers, Mechanisms, Steps
    <3> QED
      BY <2>1, <2>2, <3>1 DEF StreamReplies
  <2>4. CASE ~server.fresh
    <3>1. Answers("stream") = {<<Item("error"), Item("end")>>}
      BY <2>4 DEF Answers, Mechanisms, Steps
    <3> QED
      BY <3>1 DEF StreamReplies
  <2> QED
    BY <2>3, <2>4, Zenon
<1>2. Answers("starttls") \subseteq TlsReplies
  BY DEF Answers, TlsReplies, Mechanisms, Steps
<1>3. \A r \in Mechanisms \cup {"response"} : Answers(r) \subseteq SaslReplies
  <2> SUFFICES ASSUME NEW r \in Mechanisms \cup {"response"} PROVE Answers(r) \subseteq SaslReplies
    OBVIOUS
  <2>1. Answers(r) = {<<Item(k)>> : k \in {"failure"} \cup Accepts \cup Challenges}
    BY DEF Answers, Mechanisms, Steps
  <2>2. {"failure"} \cup Accepts \cup Challenges \subseteq SaslItems
    BY DEF Accepts, Challenges, SaslItems
  <2> QED
    BY <2>1, <2>2 DEF SaslReplies
<1>4. \A s \in Steps : Answers(s) \subseteq StepReplies(s)
  <2> SUFFICES ASSUME NEW s \in Steps PROVE Answers(s) \subseteq StepReplies(s)
    OBVIOUS
  <2>1. Answers(s) = {<<r>> : r \in {q \in Replies : q.kind = s
                                      /\ ~(s = "legacy" /\ server.authenticated /\ q.type = "result")}}
    BY DEF Answers, Mechanisms, Steps
  <2> QED
    BY <2>1 DEF StepReplies
<1>5. Answers("close") \subseteq EndReplies
  BY DEF Answers, EndReplies, Mechanisms, Steps
<1> QED
  BY <1>1, <1>2, <1>3, <1>4, <1>5

\* The last request is answered.
LEMMA AnswerExchange ==
  ASSUME LoginInv, Answer, NEW R, NEW X, Exchange(R, X), \A r \in R : Answers(r) \subseteq X
  PROVE  Exchange(R, X)'
<1>1. server.answered \in Nat /\ Len(conn.sent) \in Nat
  BY DEF LoginInv, TypeOK, Connections
<1>2. Len(conn.sent) = server.answered + 1 /\ Pipe = <<>> /\ LastSent \in R /\ calls = {} /\ conn.sent # <<>>
  BY <1>1 DEF Answer, Exchange
<1>3. PICK reply \in Answers(conn.sent[server.answered + 1]) :
        toClient' = toClient \o reply /\ server'.answered = server.answered + 1
  BY DEF Answer
<1>4. reply \in X
  BY <1>2, <1>3 DEF LastSent
<1>5. Pipe' = reply
  <2>1. buffer = <<>> /\ toClient = <<>>
    BY <1>2 DEF Pipe, LoginInv, TypeOK
  <2>2. buffer' = buffer
    BY DEF Answer
  <2>3. reply \in Seq(Items)
    <3>1. conn.sent[server.answered + 1] \in Requests
      BY <1>1, <1>2 DEF LoginInv, TypeOK, Connections
    <3> QED
      BY <1>3, <3>1, AnswersAreItems
  <2> QED
    BY <1>3, <2>1, <2>2, <2>3 DEF Pipe
<1>6. conn' = conn /\ calls' = calls
  BY DEF Answer
<1> QED
  BY <1>2, <1>3, <1>4, <1>5, <1>6 DEF Exchange, LastSent

\* The server answers the request whose turn it is.
LEMMA AnswerTurns ==
  ASSUME LoginInv, Turns, Answer
  PROVE  Turns'
<1>1. server.answered \in Nat /\ Len(conn.sent) \in Nat /\ server.answered < Len(conn.sent)
      /\ conn.state = "CONNECTED"
  BY DEF Answer, LoginInv, TypeOK, Connections
<1>2. conn' = conn /\ calls' = calls /\ buffer' = buffer
  BY DEF Answer
<1>3. \A hs, ids : Waited(hs, ids) => Waited(hs, ids)'
  BY <1>2 DEF Waited
<1>4. (Untried => Untried') /\ (Closed' <=> Closed) /\ (GivesUpForGood => GivesUpForGood')
  BY <1>2 DEF Untried, Closed, GivesUpForGood, Late
<1>5. \A h, i, p : ~Called(h, i, p)
  BY <1>1 DEF Called
<1>6. Opening => Opening'
  <2> DEFINE X == StreamReplies
  <2> HIDE DEF X
  <2>1. Exchange({"stream"}, X) => Exchange({"stream"}, X)'
    BY AnswersFit, AnswerExchange DEF X
  <2> QED
    BY <1>2, <1>3, <1>4, <2>1 DEF Opening, X
<1>7. \A w : ~Announcing(w)
  BY <1>1, <1>5 DEF Announcing
<1>8. Securing => Securing'
  <2>1. Exchange({"starttls"}, TlsReplies) => Exchange({"starttls"}, TlsReplies)'
    BY AnswersFit, AnswerExchange
  <2> QED
    BY <1>3, <1>4, <1>5, <2>1 DEF Securing
<1>9. \A h : Trying(h) => Trying(h)'
  <2>1. Exchange(Mechanisms \cup {"response"}, SaslReplies) => Exchange(Mechanisms \cup {"response"}, SaslReplies)'
    BY AnswersFit, AnswerExchange
  <2> QED
    BY <1>2, <1>3, <1>5, <2>1 DEF Trying
<1>10. \A s \in Steps : Requesting(s) => Requesting(s)'
  <2> SUFFICES ASSUME NEW s \in Steps, Requesting(s) PROVE Requesting(s)'
    OBVIOUS
  <2>1. Exchange({s}, StepReplies(s)) => Exchange({s}, StepReplies(s))'
    BY AnswersFit, AnswerExchange
  <2> QED
    BY <1>3, <2>1 DEF Requesting
<1>11. Closing => Closing'
  <2>1. Exchange({"close"}, EndReplies) => Exchange({"close"}, EndReplies)'
    BY AnswersFit, AnswerExchange
  <2> QED
    BY <1>3, <2>1 DEF Closing
<1>12. ~Done
  BY <1>1 DEF Done
<1>13. LoggingIn => LoggingIn'
  BY <1>6, <1>7, <1>8, <1>9, <1>10 DEF LoggingIn
<1>14. \/ LoggingIn' /\ ~conn.authenticated /\ ~Closed'
       \/ Closing' /\ ~conn.authenticated
  BY <1>1, <1>4, <1>11, <1>12, <1>13 DEF Turns
<1>15. conn'.state = "CONNECTED" /\ conn'.state # "CONNECTING" /\ conn'.state # "DISCONNECTED"
  BY <1>1, <1>2
<1>16. GivesUpForGood' /\ \A h, g \in conn'.handlers \cap SaslHandlers : h = g
  BY <1>2, <1>4 DEF Turns
<1> QED
  BY <1>2, <1>14, <1>15, <1>16 DEF Turns

-----------------------------------------------------------------------------
(* The turns, when a stanza is parsed.                                       *)

\* The first of a sequence that starts with b.
LEMMA FirstOfPipe ==
  ASSUME NEW S, NEW b \in Seq(S), NEW t \in Seq(S), b # <<>>
  PROVE  /\ b \o t # <<>> /\ Head(b \o t) = Head(b) /\ Head(b) \in S
         /\ Tail(b \o t) = Tail(b) \o t /\ Tail(b) \in Seq(S)
<1>1. Len(b) \in Nat /\ Len(t) \in Nat /\ Len(b) >= 1 /\ Head(b) \in S /\ Tail(b) \in Seq(S)
      /\ Len(Tail(b)) = Len(b) - 1
  OBVIOUS
<1>2. b \o t \in Seq(S) /\ Len(b \o t) = Len(b) + Len(t)
  OBVIOUS
<1>3. (b \o t)[1] = b[1] /\ b \o t # <<>>
  BY <1>1, <1>2
<1>4. Head(b \o t) = Head(b)
  BY <1>1, <1>2, <1>3
<1>5. Tail(b \o t) = Tail(b) \o t
  <2>1. Tail(b \o t) \in Seq(S) /\ Len(Tail(b \o t)) = Len(b) + Len(t) - 1
    BY <1>1, <1>2, <1>3
  <2>2. Tail(b) \o t \in Seq(S) /\ Len(Tail(b) \o t) = Len(b) + Len(t) - 1
    BY <1>1
  <2>3. \A i \in 1 .. Len(b) + Len(t) - 1 : Tail(b \o t)[i] = (Tail(b) \o t)[i]
    <3> SUFFICES ASSUME NEW i \in 1 .. Len(b) + Len(t) - 1
                 PROVE  Tail(b \o t)[i] = (Tail(b) \o t)[i]
      OBVIOUS
    <3>1. Tail(b \o t)[i] = (b \o t)[i + 1]
      BY <1>1, <1>2, <1>3
    <3>2. CASE i <= Len(b) - 1
      <4>1. (b \o t)[i + 1] = b[i + 1]
        BY <3>2, <1>1
      <4>2. (Tail(b) \o t)[i] = Tail(b)[i] /\ Tail(b)[i] = b[i + 1]
        BY <3>2, <1>1
      <4> QED
        BY <3>1, <4>1, <4>2
    <3>3. CASE i > Len(b) - 1
      <4>1. (b \o t)[i + 1] = t[i + 1 - Len(b)]
        BY <3>3, <1>1
      <4>2. (Tail(b) \o t)[i] = t[i - (Len(b) - 1)]
        BY <3>3, <1>1
      <4>3. i + 1 - Len(b) = i - (Len(b) - 1)
        BY <1>1
      <4> QED
        BY <3>1, <4>1, <4>2, <4>3
    <3> QED
      BY <3>2, <3>3, <1>1
  <2> QED
    BY <2>1, <2>2, <2>3, SeqEqual
<1> QED
  BY <1>1, <1>3, <1>4, <1>5

\* What has no item has no first part either, and what has one has it first or not.
LEMMA ShortPipe ==
  ASSUME NEW a \in Seq(Items), NEW t \in Seq(Items)
  PROVE  /\ a \o t = <<>> => a = <<>>
         /\ \A z : a \o t = <<z>> => a \in {<<>>, <<z>>}
<1> HIDE DEF Items
<1>1. Len(a) \in Nat /\ Len(t) \in Nat /\ Len(a \o t) = Len(a) + Len(t)
  OBVIOUS
<1>2. a \o t = <<>> => a = <<>>
  BY <1>1
<1>3. ASSUME NEW z, a \o t = <<z>> PROVE a \in {<<>>, <<z>>}
  <2>1. Len(a) + Len(t) = 1 /\ (a \o t)[1] = z
    BY <1>1, <1>3
  <2>2. CASE Len(a) = 0
    BY <2>2
  <2>3. CASE Len(a) = 1
    <3>1. a[1] = z
      BY <2>1, <2>3, <1>1
    <3>2. a = <<z>>
      BY <2>3, <3>1
    <3> QED
      BY <3>2
  <2>4. Len(a) = 0 \/ Len(a) = 1
    <3>1. \A m, n \in Nat : m + n = 1 => m = 0 \/ m = 1
      OBVIOUS
    <3> QED
      BY <1>1, <2>1, <3>1
  <2> QED
    BY <2>2, <2>3, <2>4
<1> QED
  BY <1>2, <1>3

\* What a step of the parser takes from the pipe.
Parses(item, rest) ==
  /\ item \in Items /\ conn' = HandleItem(conn, item)
  /\ calls' = {[handler |-> h, item |-> item] : h \in Waiting(conn, item)}
  /\ server' = server
  /\ Pipe' = rest
  /\ rest = <<>> => buffer' = <<>>
  /\ \A z : rest = <<z>> => buffer' \in {<<>>, <<z>>}

\* What is parsed is the first item of the pipe.
LEMMA ParseFirst ==
  ASSUME LoginInv, Parse
  PROVE  Pipe # <<>> /\ Parses(Head(Pipe), Tail(Pipe))
<1>1. buffer \in Seq(Items) /\ toClient \in Seq(Items) /\ buffer # <<>>
  BY DEF LoginInv, TypeOK, Parse
<1> HIDE DEF Items
<1>2. /\ Pipe # <<>> /\ Head(Pipe) = Head(buffer) /\ Head(buffer) \in Items
      /\ Tail(Pipe) = Tail(buffer) \o toClient /\ Tail(buffer) \in Seq(Items)
  BY <1>1, FirstOfPipe DEF Pipe
<1>3. buffer' = Tail(buffer) /\ toClient' = toClient
  BY DEF Parse, Outside
<1>4. Pipe' = Tail(Pipe)
  BY <1>2, <1>3 DEF Pipe
<1>5. /\ Tail(Pipe) = <<>> => buffer' = <<>>
      /\ \A z : Tail(Pipe) = <<z>> => buffer' \in {<<>>, <<z>>}
  BY <1>1, <1>2, <1>3, ShortPipe
<1> QED
  BY <1>2, <1>4, <1>5 DEF Parse, Parses, Outside

\* The connection is closed; nothing else of what the turns are about changes.
Closes(kind) ==
  /\ conn'.state = "DISCONNECTED" /\ conn'.sent = conn.sent
  /\ conn'.events = Append(conn.events, "DISCONNECT")
  /\ conn'.authenticated = conn.authenticated
  /\ conn'.handlers \cap SaslHandlers = conn.handlers \cap SaslHandlers
  /\ SameSasl(conn, conn') /\ conn'.fired = conn.fired /\ conn'.open_handler = conn.open_handler
  /\ conn'.handlers = conn.handlers \cup IF kind = "bad header" THEN {Wait(conn)} ELSE {}

\* What a stanza or an end does, by its kind.
LEMMA ItemEffect ==
  ASSUME Sound(conn), NEW item \in Items, conn' = HandleItem(conn, item)
  PROVE  /\ item.kind = "header" => conn' = AwaitFeatures(conn)
         /\ item.kind \in {"bad header", "end"} => Closes(item.kind)
         /\ item.kind \in conn.id_handlers => conn' = HandleReply(conn, item.kind, item.type)
         /\ item.kind \notin conn.id_handlers \cup {"header", "bad header", "end"} => conn' = conn
<1>1. conn.id_handlers \subseteq Steps
  BY DEF Sound, Connections
<1>2. item.kind = "header" => conn' = AwaitFeatures(conn)
  <2> SUFFICES ASSUME item.kind = "header" PROVE conn' = AwaitFeatures(conn)
    OBVIOUS
  <2>1. conn' = HandleStreamStart(conn, item.kind = "header")
    <3>1. /\ item.kind \in {"header", "bad header"} /\ item.kind \notin conn.id_handlers
          /\ item.kind # "end"
      BY <1>1 DEF Steps
    <3> QED
      BY <3>1, Zenon DEF HandleItem
  <2> QED
    BY <2>1, Zenon DEF HandleStreamStart
<1>3. item.kind = "bad header" => Closes("bad header")
  <2> SUFFICES ASSUME item.kind = "bad header" PROVE Closes("bad header")
    OBVIOUS
  <2> DEFINE b == Disconnect(conn)
  <2>1. conn' = AwaitFeatures(b)
    <3>1. item.kind # "header"
      OBVIOUS
    <3>2. /\ item.kind \in {"header", "bad header"} /\ item.kind \notin conn.id_handlers
          /\ item.kind # "end"
      BY <1>1 DEF Steps
    <3>3. conn' = HandleStreamStart(conn, item.kind = "header")
      BY <3>2, Zenon DEF HandleItem
    <3> QED
      BY <3>1, <3>3, Zenon DEF HandleStreamStart
  <2>2. /\ Sound(b) /\ b.state = "DISCONNECTED" /\ b.sent = conn.sent
        /\ b.authenticated = conn.authenticated /\ b.handlers = conn.handlers
    BY DisconnectSound, DisconnectEffect DEF SameWaits
  <2>3. /\ SameSasl(conn, b) /\ b.fired = conn.fired /\ b.open_handler = conn.open_handler
        /\ b.events = Append(conn.events, "DISCONNECT")
    BY DisconnectEffect
  <2> HIDE DEF b
  <2>4. conn'.handlers = b.handlers \cup {Wait(b)} /\ Wait(b) = Wait(conn) /\ Wait(conn) \in Waits
    BY <2>1, <2>2, <2>3, AwaitFeaturesEffect DEF Wait, Waits
  <2>5. Kept(b, conn') /\ SameSasl(b, conn') /\ conn'.sent = b.sent
    BY <2>1, <2>2, AwaitFeaturesEffect
  <2>6. {Wait(conn)} \cap SaslHandlers = {}
    BY <2>4 DEF Waits, SaslHandlers, Mechanisms
  <2> QED
    BY <2>2, <2>3, <2>4, <2>5, <2>6 DEF Closes, Kept, SameSasl
<1>4. item.kind = "end" => Closes("end")
  <2> SUFFICES ASSUME item.kind = "end" PROVE Closes("end")
    OBVIOUS
  <2> DEFINE b == [conn EXCEPT !.timed_handlers = @ \ {"cleanup"}]
  <2>1. conn' = Disconnect(b)
    BY <1>1 DEF HandleItem, Steps
  <2>2. /\ Sound(b) /\ b.sent = conn.sent
        /\ b.authenticated = conn.authenticated /\ b.handlers = conn.handlers
        /\ SameSasl(conn, b) /\ b.fired = conn.fired /\ b.open_handler = conn.open_handler
        /\ b.events = conn.events
    BY DEF Sound, Matched, Connections, Steps, SameSasl
  <2> HIDE DEF b
  <2> QED
    BY <2>1, <2>2, DisconnectEffect DEF Closes, SameWaits, SameSasl
<1>6. item.kind \in conn.id_handlers => conn' = HandleReply(conn, item.kind, item.type)
  BY <1>1 DEF HandleItem, Steps
<1>7. item.kind \notin conn.id_handlers \cup {"header", "bad header", "end"} => conn' = conn
  BY DEF HandleItem
<1> QED
  BY <1>2, <1>3, <1>4, <1>6, <1>7

\* An end, or an opening tag that is none, closes the connection.
LEMMA EndTurns ==
  ASSUME Sound(conn), Turns, ~Late, NEW item, NEW rest, Parses(item, rest),
         item.kind \in {"bad header", "end"}, rest \in {<<>>, <<Item("end")>>}
  PROVE  Turns'
<1>1. Closes(item.kind)
  BY ItemEffect DEF Parses
<1>2. calls' = {}
  BY DEF Parses, Waiting, TlsItems, SaslItems
<1>3. buffer' \in {<<>>, <<Item("end")>>}
  BY DEF Parses
<1> QED
  BY <1>1, <1>2, <1>3, CloseTurns DEF Closes

\* The first of the replies to a request.
LEMMA Firsts ==
  /\ \A x : Head(<<x>>) = x /\ Tail(<<x>>) = <<>>
  /\ \A x, y : Head(<<x, y>>) = x /\ Tail(<<x, y>>) = <<y>>
  /\ \A x : \A s \in Follow : Head(<<x>> \o s) = x /\ Tail(<<x>> \o s) = s
<1>1. \A x : Head(<<x>>) = x /\ Tail(<<x>>) = <<>>
  OBVIOUS
<1>2. \A x, y : Head(<<x, y>>) = x /\ Tail(<<x, y>>) = <<y>>
  OBVIOUS
<1>3. ASSUME NEW x, NEW s \in Follow PROVE Head(<<x>> \o s) = x /\ Tail(<<x>> \o s) = s
  <2>1. CASE s = <<>>
    BY <2>1, <1>1, Followed
  <2>2. CASE s \in {<<f>> : f \in Features}
    BY <2>2, <1>2, Followed
  <2>3. CASE s = <<Item("error"), Item("end")>>
    <3> DEFINE S == {x, Item("error"), Item("end")}
    <3>1. x \in S /\ Item("error") \in S /\ Item("end") \in S
      OBVIOUS
    <3> HIDE DEF S
    <3>2. <<x>> \in Seq(S) /\ s \in Seq(S) /\ <<x>> # <<>> /\ Len(<<x>>) = 1
      BY <3>1, <2>3
    <3>3. Head(<<x>>) = x /\ Tail(<<x>>) = <<>>
      BY <1>1
    <3>4. Head(<<x>> \o s) = x /\ Tail(<<x>> \o s) = <<>> \o s
      BY <3>2, <3>3, FirstOfPipe
    <3>5. <<>> \o s = s
      BY <3>2
    <3> QED
      BY <3>4, <3>5
  <2> QED
    BY <2>1, <2>2, <2>3 DEF Follow
<1> QED
  BY <1>1, <1>2, <1>3

\* Nothing is sent, and the login goes on or is over.
LEMMA KeepTurns ==
  ASSUME conn'.state = "CONNECTED", conn'.sent = conn.sent, ~Closed,
         (LoggingIn' /\ ~conn'.authenticated) \/ Done'
  PROVE  Turns'
<1>1. ~Closed' /\ GivesUpForGood'
  BY DEF Closed, GivesUpForGood
<1>2. \A h, g \in conn'.handlers \cap SaslHandlers : h = g
  <2>1. LoggingIn' => \E x : conn'.handlers \subseteq {x}
    BY DEF LoggingIn, Opening, Announcing, Securing, Trying, Requesting, Waited
  <2>2. Done' => conn'.handlers = {}
    BY DEF Done, Waited
  <2> QED
    BY <2>1, <2>2
<1>3. conn'.state # "CONNECTING" /\ conn'.state # "DISCONNECTED"
  OBVIOUS
<1> QED
  BY <1>1, <1>2, <1>3 DEF Turns

\* The handlers that a stanza goes to, by its kind.
LEMMA WaitingOf ==
  ASSUME NEW item
  PROVE  /\ item.kind = "features" =>
              /\ conn.handlers \cap Waits \subseteq Waiting(conn, item)
              /\ item.tls = FALSE => "proceedtls" \notin Waiting(conn, item)
         /\ item.kind \in TlsItems => Waiting(conn, item) = conn.handlers \cap {"proceedtls"}
         /\ item.kind \in SaslItems => Waiting(conn, item) = conn.handlers \cap SaslHandlers
         /\ item.kind \notin {"features"} \cup TlsItems \cup SaslItems => Waiting(conn, item) = {}
<1> DEFINE F == Waits \cup (IF item.tls THEN {"proceedtls"} ELSE {})
                      \cup (IF item.mechanisms # {} THEN SaslHandlers ELSE {})
<1>1. ASSUME item.kind = "features"
      PROVE  /\ conn.handlers \cap Waits \subseteq Waiting(conn, item)
             /\ item.tls = FALSE => "proceedtls" \notin Waiting(conn, item)
  <2>1. item.kind \notin TlsItems /\ item.kind \notin SaslItems
    BY <1>1 DEF TlsItems, SaslItems
  <2>2. Waiting(conn, item) = conn.handlers \cap F
    BY <1>1, <2>1, Zenon DEF Waiting
  <2>3. Waits \subseteq F
    BY Zenon
  <2>4. item.tls = FALSE => "proceedtls" \notin F
    <3> SUFFICES ASSUME item.tls = FALSE PROVE "proceedtls" \notin F
      OBVIOUS
    <3>1. ~item.tls
      BY Zenon
    <3>2. F = Waits \cup (IF item.mechanisms # {} THEN SaslHandlers ELSE {})
      BY <3>1, Zenon
    <3>3. "proceedtls" \notin Waits /\ "proceedtls" \notin SaslHandlers
      BY DEF Waits, SaslHandlers, Mechanisms
    <3> QED
      BY <3>2, <3>3, Zenon
  <2> QED
    BY <2>2, <2>3, <2>4, Zenon
<1>2. ASSUME item.kind \in TlsItems PROVE Waiting(conn, item) = conn.handlers \cap {"proceedtls"}
  <2>1. item.kind # "features" /\ item.kind \notin SaslItems
    BY <1>2 DEF TlsItems, SaslItems
  <2> QED
    BY <1>2, <2>1, Zenon DEF Waiting
<1>3. ASSUME item.kind \in SaslItems PROVE Waiting(conn, item) = conn.handlers \cap SaslHandlers
  <2>1. item.kind # "features" /\ item.kind \notin TlsItems
    BY <1>3 DEF TlsItems, SaslItems
  <2> QED
    BY <1>3, <2>1, Zenon DEF Waiting
<1>4. ASSUME item.kind \notin {"features"} \cup TlsItems \cup SaslItems PROVE Waiting(conn, item) = {}
  <2>1. item.kind # "features" /\ item.kind \notin TlsItems /\ item.kind \notin SaslItems
    BY <1>4
  <2>2. conn.handlers \cap {} = {}
    OBVIOUS
  <2> QED
    BY <2>1, <2>2, Zenon DEF Waiting
<1> QED
  BY <1>1, <1>2, <1>3, <1>4

\* The handlers that wait for a stanza, where there is one or none.
LEMMA CalledFor ==
  ASSUME NEW item, NEW h, conn.handlers \subseteq {h}
  PROVE  /\ item.kind \notin {"features"} \cup TlsItems \cup SaslItems => Waiting(conn, item) = {}
         /\ conn.handlers = {} => Waiting(conn, item) = {}
         /\ conn.handlers = {h} =>
              /\ item.kind = "features" /\ h \in Waits => Waiting(conn, item) = {h}
              /\ item.kind \in TlsItems /\ h = "proceedtls" => Waiting(conn, item) = {h}
              /\ item.kind \in SaslItems /\ h \in SaslHandlers => Waiting(conn, item) = {h}
<1>1. Waiting(conn, item) \subseteq conn.handlers
  BY Zenon DEF Waiting
<1>2. item.kind \notin {"features"} \cup TlsItems \cup SaslItems => Waiting(conn, item) = {}
  BY WaitingOf
<1>3. item.kind = "features" /\ conn.handlers = {h} /\ h \in Waits => h \in Waiting(conn, item)
  BY WaitingOf
<1>4. item.kind \in TlsItems /\ conn.handlers = {h} /\ h = "proceedtls" => Waiting(conn, item) = {h}
  BY WaitingOf
<1>5. item.kind \in SaslItems /\ conn.handlers = {h} /\ h \in SaslHandlers => Waiting(conn, item) = {h}
  BY WaitingOf
<1> QED
  BY <1>1, <1>2, <1>3, <1>4, <1>5

\* The stanzas of an answer, situation by situation: the opening tag and what follows it.
LEMMA ParseOpening ==
  ASSUME LoginInv, Turns, ~Late, conn.state = "CONNECTED", ~conn.authenticated, ~Closed, Opening,
         Pipe # <<>>, NEW item, item = Head(Pipe), NEW rest, rest = Tail(Pipe), Parses(item, rest)
  PROVE  Turns'
<1>1. /\ calls = {} /\ Len(conn.sent) = server.answered /\ Pipe \in StreamReplies
      /\ conn.handlers = {} /\ conn.id_handlers = {} /\ Sound(conn)
  BY SoundConn DEF Opening, Exchange, Waited, LoginInv
<1>2. \/ item = Item("bad header") /\ rest \in {<<>>, <<Item("end")>>}
      \/ item = Item("error") /\ rest = <<Item("end")>>
      \/ item = Item("header") /\ rest \in Follow
  <2>2. CASE Pipe \in {<<Item("header")>> \o s : s \in Follow}
    <3>1. PICK s \in Follow : Pipe = <<Item("header")>> \o s
      BY <2>2
    <3>2. item = Item("header") /\ rest = s
      BY <3>1, Firsts
    <3> QED
      BY <3>1, <3>2
  <2>3. CASE Pipe = <<Item("error"), Item("end")>>
    <3>1. item = Item("error") /\ rest = <<Item("end")>>
      BY <2>3, Firsts
    <3> QED
      BY <3>1
  <2>4. CASE Pipe = <<Item("bad header")>>
    <3>1. item = Item("bad header") /\ rest = <<>>
      BY <2>4, Firsts
    <3> QED
      BY <3>1
  <2>5. CASE Pipe = <<Item("bad header"), Item("end")>>
    <3>1. item = Item("bad header") /\ rest = <<Item("end")>>
      BY <2>5, Firsts
    <3> QED
      BY <3>1
  <2> QED
    BY <1>1, <2>2, <2>3, <2>4, <2>5 DEF StreamReplies
<1>3. Waiting(conn, item) = {} /\ calls' = {} /\ server' = server
  BY <1>1, CalledFor DEF Parses
<1>4. CASE item = Item("bad header") /\ rest \in {<<>>, <<Item("end")>>}
  BY <1>1, <1>4, EndTurns DEF Item
<1>5. CASE item = Item("error") /\ rest = <<Item("end")>>
  <2>1. item.kind = "error"
    BY <1>5 DEF Item
  <2>2. conn' = conn /\ Pipe' = <<Item("end")>>
    BY <1>1, <1>5, <2>1, ItemEffect DEF Parses
  <2>3. Done'
    BY <1>1, <1>3, <2>2 DEF Done, Waited, Item
  <2> QED
    BY <2>2, <2>3, KeepTurns
<1>6. CASE item = Item("header") /\ rest \in Follow
  <2>1. item.kind = "header"
    BY <1>6 DEF Item
  <2>2. Pipe' = rest /\ conn' = AwaitFeatures(conn)
    BY <1>1, <2>1, ItemEffect DEF Parses
  <2>3. conn.open_handler \in {"auth_handle_open", "_handle_open_sasl"}
    BY <1>1 DEF Sound, Connections
  <2>4. PICK w \in Waits : w = Wait(conn)
    BY DEF Waits, Wait
  <2>5. /\ conn'.handlers = {w} /\ conn'.id_handlers = {} /\ conn'.sent = conn.sent
        /\ conn'.state = conn.state /\ conn'.open_handler = conn.open_handler
    BY <1>1, <2>2, <2>4, AwaitFeaturesEffect DEF Kept
  <2>6. ~conn'.authenticated
    BY <1>1, <2>2, AwaitFeaturesEffect DEF Kept
  <2>7. IF w = "features" THEN Untried' ELSE conn'.open_handler = "_handle_open_sasl"
    BY <2>5, <2>3, <2>4 DEF Opening, Untried, Wait
  <2>8. Pipe' \in Follow
    BY <1>6, <2>2
  <2>9. Announcing(w)'
    BY <1>1, <1>3, <2>5, <2>7, <2>8 DEF Announcing, Waited, Follow, Item
  <2>10. LoggingIn'
    BY <2>4, <2>9 DEF LoggingIn
  <2> QED
    BY <2>5, <2>6, <2>10, KeepTurns
<1> QED
  BY <1>2, <1>4, <1>5, <1>6

\* The features, or what comes instead of them.
LEMMA ParseAnnouncing ==
  ASSUME LoginInv, Turns, ~Late, conn.state = "CONNECTED", ~conn.authenticated, ~Closed,
         NEW w \in Waits, Announcing(w), calls = {},
         Pipe # <<>>, NEW item, item = Head(Pipe), NEW rest, rest = Tail(Pipe), Parses(item, rest)
  PROVE  Turns'
<1>1. /\ Len(conn.sent) = server.answered /\ Pipe \in Follow \cup {<<Item("end")>>}
      /\ conn.handlers = {w} /\ conn.id_handlers = {} /\ Sound(conn)
  BY SoundConn DEF Announcing, Called, Waited, LoginInv
<1>2. \/ item = Item("end") /\ rest = <<>>
      \/ item = Item("error") /\ rest = <<Item("end")>>
      \/ item \in Features /\ rest = <<>>
  <2>1. CASE Pipe = <<Item("end")>>
    <3>1. item = Item("end") /\ rest = <<>>
      BY <2>1, Firsts
    <3> QED
      BY <3>1
  <2>2. CASE Pipe = <<Item("error"), Item("end")>>
    <3>1. item = Item("error") /\ rest = <<Item("end")>>
      BY <2>2, Firsts
    <3> QED
      BY <3>1
  <2>3. CASE Pipe \in {<<f>> : f \in Features}
    <3>1. PICK f \in Features : Pipe = <<f>>
      BY <2>3
    <3>2. item = f /\ rest = <<>>
      BY <3>1, Firsts
    <3> QED
      BY <3>1, <3>2
  <2> QED
    BY <1>1, <2>1, <2>2, <2>3 DEF Follow
<1>3. server' = server /\ calls' = {[handler |-> h, item |-> item] : h \in Waiting(conn, item)}
  BY DEF Parses
<1>4. CASE item = Item("end") /\ rest = <<>>
  BY <1>1, <1>4, EndTurns DEF Item
<1>5. CASE item = Item("error") /\ rest = <<Item("end")>>
  <2>1. item.kind = "error"
    BY <1>5 DEF Item
  <2>2. conn' = conn /\ Pipe' = <<Item("end")>>
    BY <1>1, <1>5, <2>1, ItemEffect DEF Parses
  <2>3. calls' = {}
    BY <1>1, <1>3, <2>1, CalledFor DEF TlsItems, SaslItems
  <2>4. (IF w = "features" THEN Untried ELSE conn.open_handler = "_handle_open_sasl")'
    BY <2>2 DEF Announcing, Untried
  <2>5. Announcing(w)'
    BY <1>1, <1>3, <2>2, <2>3, <2>4 DEF Announcing, Waited, Item
  <2>6. LoggingIn'
    BY <2>5 DEF LoggingIn
  <2> QED
    BY <2>2, <2>6, KeepTurns
<1>6. CASE item \in Features /\ rest = <<>>
  <2>1. item.kind = "features"
    BY <1>6 DEF Features
  <2>2. conn' = conn /\ Pipe' = <<>>
    BY <1>1, <1>6, <2>1, ItemEffect DEF Parses
  <2>3. calls' = {[handler |-> w, item |-> item]}
    BY <1>1, <1>3, <2>1, CalledFor
  <2>4. (IF w = "features" THEN Untried ELSE conn.open_handler = "_handle_open_sasl")'
    BY <2>2 DEF Announcing, Untried
  <2>5. Called(w, item, <<>>)'
    BY <1>1, <1>3, <2>2, <2>3 DEF Called
  <2>6. Announcing(w)'
    BY <1>1, <1>6, <2>2, <2>4, <2>5 DEF Announcing, Waited
  <2>7. LoggingIn'
    BY <2>6 DEF LoggingIn
  <2> QED
    BY <2>2, <2>7, KeepTurns
<1> QED
  BY <1>2, <1>4, <1>5, <1>6

\* The answer to starttls.
LEMMA ParseSecuring ==
  ASSUME LoginInv, Turns, ~Late, conn.state = "CONNECTED", ~conn.authenticated, ~Closed, Securing, calls = {},
         Pipe # <<>>, NEW item, item = Head(Pipe), NEW rest, rest = Tail(Pipe), Parses(item, rest)
  PROVE  Turns'
<1>1. /\ Len(conn.sent) = server.answered /\ Pipe \in TlsReplies
      /\ conn.handlers = {"proceedtls"} /\ conn.id_handlers = {} /\ Untried /\ Sound(conn)
  BY SoundConn DEF Securing, Exchange, Called, Waited, LoginInv
<1>2. \/ item = Item("proceed") /\ rest = <<>>
      \/ item = Item("tls failure") /\ rest = <<Item("end")>>
  <2>2. CASE Pipe = <<Item("proceed")>>
    <3>1. item = Item("proceed") /\ rest = <<>>
      BY <2>2, Firsts
    <3> QED
      BY <3>1
  <2>3. CASE Pipe = <<Item("tls failure"), Item("end")>>
    <3>1. item = Item("tls failure") /\ rest = <<Item("end")>>
      BY <2>3, Firsts
    <3> QED
      BY <3>1
  <2> QED
    BY <1>1, <2>2, <2>3 DEF TlsReplies
<1>3. server' = server /\ calls' = {[handler |-> h, item |-> item] : h \in Waiting(conn, item)}
  BY DEF Parses
<1>5. CASE \/ item = Item("proceed") /\ rest = <<>>
           \/ item = Item("tls failure") /\ rest = <<Item("end")>>
  <2>1. item.kind \in TlsItems
    <3>1. Item("proceed").kind = "proceed" /\ Item("tls failure").kind = "tls failure"
      BY DEF Item
    <3>2. item.kind = "proceed" \/ item.kind = "tls failure"
      BY <1>5, <3>1
    <3> QED
      BY <3>2 DEF TlsItems
  <2>2. conn' = conn /\ Pipe' = rest
    BY <1>1, <2>1, ItemEffect DEF Parses, TlsItems
  <2>3. calls' = {[handler |-> "proceedtls", item |-> item]}
    BY <1>1, <1>3, <2>1, CalledFor
  <2>4. Called("proceedtls", item, rest)'
    BY <1>1, <1>3, <2>2, <2>3 DEF Called
  <2>5. Untried' /\ Waited({"proceedtls"}, {})'
    BY <1>1, <2>2 DEF Untried, Waited
  <2>6. Called("proceedtls", Item("proceed"), <<>>)' \/ Called("proceedtls", Item("tls failure"), <<Item("end")>>)'
    BY <1>5, <2>4 DEF Called, Item
  <2>7. LoggingIn'
    BY <2>5, <2>6 DEF LoggingIn, Securing
  <2> QED
    BY <2>2, <2>7, KeepTurns
<1> QED
  BY <1>2, <1>5

\* The answer to a mechanism.
LEMMA ParseTrying ==
  ASSUME LoginInv, Turns, ~Late, conn.state = "CONNECTED", ~conn.authenticated, ~Closed,
         NEW h \in SaslHandlers, Trying(h), calls = {},
         Pipe # <<>>, NEW item, item = Head(Pipe), NEW rest, rest = Tail(Pipe), Parses(item, rest)
  PROVE  Turns'
<1>1. /\ Len(conn.sent) = server.answered /\ Pipe \in SaslReplies
      /\ conn.handlers = {h} /\ conn.id_handlers = {} /\ Sound(conn)
  BY SoundConn DEF Trying, Exchange, Called, Waited, LoginInv
<1>3. CASE Pipe \in SaslReplies
  <2>1. PICK k \in SaslItems : Pipe = <<Item(k)>>
    BY <1>3 DEF SaslReplies
  <2>2. item = Item(k) /\ rest = <<>>
    BY <2>1, Firsts
  <2>3. item.kind = k
    BY <2>2 DEF Item
  <2>4. conn' = conn /\ Pipe' = <<>> /\ server' = server
    BY <1>1, <2>2, <2>3, ItemEffect DEF Parses, SaslItems
  <2>5. calls' = {[handler |-> h, item |-> item]}
    BY <1>1, <2>3, CalledFor DEF Parses
  <2>6. Called(h, Item(k), <<>>)'
    BY <1>1, <2>2, <2>4, <2>5 DEF Called, Item
  <2>7. Waited({h}, {})' /\ h \notin conn'.sasl_support
    BY <1>1, <2>4 DEF Trying, Waited
  <2>8. LoggingIn'
    BY <2>6, <2>7 DEF LoggingIn, Trying
  <2> QED
    BY <2>4, <2>8, KeepTurns
<1> QED
  BY <1>1, <1>3

\* The answer to bind, session or the legacy login.
LEMMA ParseRequesting ==
  ASSUME LoginInv, Turns, ~Late, conn.state = "CONNECTED", ~conn.authenticated, ~Closed,
         NEW s \in Steps, Requesting(s),
         Pipe # <<>>, NEW item, item = Head(Pipe), NEW rest, rest = Tail(Pipe), Parses(item, rest)
  PROVE  Turns'
<1>1. /\ Len(conn.sent) = server.answered /\ Pipe \in StepReplies(s)
      /\ conn.handlers = {} /\ conn.id_handlers = {s} /\ calls = {} /\ Sound(conn)
  BY SoundConn DEF Requesting, Exchange, Waited, LoginInv
<1>3. CASE Pipe \in StepReplies(s)
  <2>1. PICK q \in Replies : Pipe = <<q>> /\ q.kind = s
    BY <1>3 DEF StepReplies
  <2>2. item = q /\ rest = <<>> /\ item.kind = s
    BY <2>1, Firsts
  <2>3. conn' = HandleReply(conn, s, item.type)
    BY <1>1, <2>2, ItemEffect DEF Parses
  <2>4. Pipe' = <<>> /\ server' = server /\ calls' = {}
    <3>1. Waiting(conn, item) = {}
      BY <1>1, CalledFor
    <3> QED
      BY <2>2, <3>1 DEF Parses, Steps
  <2>5. /\ conn'.handlers = {} /\ conn'.state = "CONNECTED"
        /\ \/ /\ conn'.id_handlers = {} /\ Adds(conn, conn', "close")
              /\ conn'.authenticated = conn.authenticated
           \/ /\ conn'.id_handlers = {"session"} /\ Adds(conn, conn', "session")
              /\ conn'.authenticated = conn.authenticated
           \/ /\ conn'.id_handlers = {} /\ conn'.sent = conn.sent
    <3>1. conn.id_handlers \ {s} = {} /\ (conn.id_handlers \ {s}) \cup {"session"} = {"session"}
      BY <1>1
    <3> QED
      BY <1>1, <2>3, <3>1, ReplyEffect
  <2>6. CASE /\ conn'.id_handlers = {} /\ Adds(conn, conn', "close")
             /\ conn'.authenticated = conn.authenticated
    <3>1. Asks("close")
      BY <1>1, <2>4, <2>5, <2>6 DEF Asks, Adds
    <3>2. Waited({}, {})'
      BY <2>5, <2>6 DEF Waited
    <3> QED
      BY <3>1, <3>2, AskTurns DEF LoginInv
  <2>7. CASE /\ conn'.id_handlers = {"session"} /\ Adds(conn, conn', "session")
             /\ conn'.authenticated = conn.authenticated
    <3>1. Asks("session")
      BY <1>1, <2>4, <2>5, <2>7 DEF Asks, Adds
    <3>2. Waited({}, {"session"})'
      BY <2>5, <2>7 DEF Waited
    <3> QED
      BY <3>1, <3>2, AskTurns DEF LoginInv, Steps
  <2>8. CASE conn'.id_handlers = {} /\ conn'.sent = conn.sent
    <3>1. Done'
      BY <1>1, <2>4, <2>5, <2>8 DEF Done, Waited
    <3> QED
      BY <2>5, <2>8, <3>1, KeepTurns
  <2> QED
    BY <2>5, <2>6, <2>7, <2>8
<1> QED
  BY <1>1, <1>3

\* All that is left is the end.
LEMMA ParseLast ==
  ASSUME LoginInv, Turns, ~Late, Closing \/ Done,
         Pipe # <<>>, NEW item, item = Head(Pipe), NEW rest, rest = Tail(Pipe), Parses(item, rest)
  PROVE  Turns'
<1>1. Pipe = <<Item("end")>>
  BY DEF Closing, Done, Exchange, EndReplies
<1>2. Sound(conn)
  BY SoundConn DEF LoginInv
<1>3. item.kind = "end" /\ rest = <<>>
  BY <1>1, Firsts DEF Item
<1> QED
  BY <1>2, <1>3, EndTurns

\* Whatever is parsed keeps the turns.
LEMMA ParseTurns ==
  ASSUME LoginInv, Turns, ~Late, Parse
  PROVE  Turns'
<1>1. PICK item, rest : item = Head(Pipe) /\ rest = Tail(Pipe) /\ Parses(item, rest) /\ Pipe # <<>>
  BY ParseFirst
<1>2. Sound(conn) /\ conn.state \in {"CONNECTING", "CONNECTED", "DISCONNECTED"} /\ calls = {}
  BY SoundConn DEF LoginInv, Sound, Connections, Parse
<1>3. conn.state # "CONNECTING"
  BY <1>1 DEF Turns
<1>4. CASE conn.state = "DISCONNECTED"
  <2>1. buffer = <<Item("end")>>
    BY <1>4 DEF Parse, Turns
  <2>2. Head(buffer) = Item("end") /\ Tail(buffer) = <<>>
    BY <2>1, Firsts
  <2>3. Item("end").kind = "end" /\ Item("end") \in Items
    BY DEF Item, Items, Plain
  <2>4. conn' = HandleItem(conn, Item("end")) /\ buffer' = <<>>
    BY <2>2, <2>3 DEF Parse
  <2>5. Closes("end")
    BY <1>2, <2>3, <2>4, ItemEffect
  <2>6. calls' = {}
    BY <2>2, <2>3 DEF Parse, Waiting, TlsItems, SaslItems
  <2> QED
    BY <2>4, <2>5, <2>6, CloseTurns DEF Closes
<1>5. CASE conn.state = "CONNECTED" /\ LoggingIn /\ ~conn.authenticated /\ ~Closed
  <2>1. CASE Opening
    BY <1>1, <1>5, <2>1, ParseOpening
  <2>2. CASE \E w \in Waits : Announcing(w)
    BY <1>1, <1>2, <1>5, <2>2, ParseAnnouncing
  <2>3. CASE Securing
    BY <1>1, <1>2, <1>5, <2>3, ParseSecuring
  <2>4. CASE \E h \in SaslHandlers : Trying(h)
    BY <1>1, <1>2, <1>5, <2>4, ParseTrying
  <2>5. CASE \E s \in Steps : Requesting(s)
    BY <1>1, <1>5, <2>5, ParseRequesting
  <2> QED
    BY <1>5, <2>1, <2>2, <2>3, <2>4, <2>5 DEF LoggingIn
<1>6. CASE Closing \/ Done
  BY <1>1, <1>6, ParseLast
<1> QED
  BY <1>2, <1>3, <1>4, <1>5, <1>6 DEF Turns

-----------------------------------------------------------------------------
(* The turns, when a handler is called.                                      *)

\* The only call there is.
Calls(h, item, rest) ==
  /\ Called(h, item, rest) /\ calls' = {} /\ Pipe' = rest /\ server' = server
  /\ \E handshake : conn' = HandleStanza(conn, h, item, handshake)

\* The only handler to be called is the one that is called.
LEMMA CallOnly ==
  ASSUME Call, NEW h, NEW item, NEW rest, Called(h, item, rest)
  PROVE  Calls(h, item, rest)
<1>1. PICK call \in calls, handshake \in {"succeeds", "fails", "cannot begin"} :
       /\ conn' = HandleStanza(conn, call.handler, call.item, handshake)
       /\ calls' = calls \ {call}
  BY DEF Call
<1>2. call = [handler |-> h, item |-> item] /\ calls' = {}
  BY <1>1 DEF Called
<1>3. Pipe' = Pipe /\ server' = server
  BY DEF Call, Outside, Pipe
<1> QED
  BY <1>1, <1>2, <1>3 DEF Calls, Called

\* The handler of the features, of either stream.
LEMMA CallAnnouncing ==
  ASSUME LoginInv, TlsInv, conn.state = "CONNECTED", ~conn.authenticated, ~Closed,
         NEW w \in Waits, Announcing(w), NEW f \in Features, Calls(w, f, <<>>)
  PROVE  Turns'
<1>1. /\ Len(conn.sent) = server.answered /\ conn.handlers = {w} /\ conn.id_handlers = {} /\ Sound(conn)
      /\ calls' = {} /\ Pipe' = <<>> /\ server' = server
  BY SoundConn DEF Announcing, Calls, Called, Waited, LoginInv
<1>2. CASE w = "features"
  <2>1. conn' = HandleFeatures(conn, f)
    BY <1>2 DEF Calls, HandleStanza
  <2>2. PICK e, r : /\ Kept(conn, e) /\ e.handlers = conn.handlers \ {"features"}
                    /\ e.id_handlers = conn.id_handlers /\ e.sent = conn.sent /\ Sound(e)
                    /\ Authenticates(e, conn', r)
    BY <1>1, <2>1, FeaturesEffect
  <2>3. e.handlers = {} /\ e.id_handlers = {} /\ Untried
    BY <1>1, <1>2, <2>2 DEF Announcing
  <2>4. Candidates(e) \in SUBSET Mechanisms
    BY <2>2 DEF Sound, Connections, Candidates
  <2> QED
    BY <1>1, <2>2, <2>3, <2>4, AuthenticateTurns DEF LoginInv
<1>3. CASE w = "features_sasl"
  <2>1. conn' = HandleFeaturesSasl(conn, f)
    BY <1>3 DEF Calls, HandleStanza
  <2>2. /\ Kept(conn, conn') /\ conn'.handlers = {}
        /\ \/ conn'.id_handlers = {"bind"} /\ Adds(conn, conn', "bind")
           \/ conn'.id_handlers = {} /\ Adds(conn, conn', "close")
    <3>1. conn.handlers \ {"features_sasl"} = {} /\ conn.id_handlers \cup {"bind"} = {"bind"}
      BY <1>1, <1>3
    <3> QED
      BY <1>1, <2>1, <3>1, FeaturesSaslEffect
  <2>3. \A r : Adds(conn, conn', r) => Asks(r)
    BY <1>1, <2>2 DEF Asks, Adds, Kept
  <2>4. CASE conn'.id_handlers = {"bind"} /\ Adds(conn, conn', "bind")
    <3>1. Waited({}, {"bind"})' /\ Asks("bind")
      BY <2>2, <2>3, <2>4 DEF Waited
    <3> QED
      BY <3>1, AskTurns DEF LoginInv, Steps
  <2>5. CASE conn'.id_handlers = {} /\ Adds(conn, conn', "close")
    <3>1. Waited({}, {})' /\ Asks("close")
      BY <2>2, <2>3, <2>5 DEF Waited
    <3> QED
      BY <3>1, AskTurns DEF LoginInv
  <2> QED
    BY <2>2, <2>4, <2>5
<1> QED
  BY <1>2, <1>3 DEF Waits

\* The handler of the answer to starttls.
LEMMA CallSecuring ==
  ASSUME LoginInv, conn.state = "CONNECTED", ~conn.authenticated, ~Closed, Securing,
         NEW kind, NEW rest, Calls("proceedtls", Item(kind), rest),
         \/ kind = "proceed" /\ rest = <<>>
         \/ kind = "tls failure" /\ rest = <<Item("end")>>
  PROVE  Turns'
<1>1. /\ Len(conn.sent) = server.answered /\ conn.handlers = {"proceedtls"} /\ conn.id_handlers = {}
      /\ Sound(conn) /\ Untried /\ calls' = {} /\ Pipe' = rest /\ server' = server
  BY SoundConn DEF Securing, Calls, Called, Waited, LoginInv
<1>2. PICK handshake : conn' = HandleProceedtls(conn, kind, handshake)
  BY DEF Calls, HandleStanza, Item
<1>3. /\ conn'.handlers = {} /\ conn'.id_handlers = {}
      /\ conn'.state = conn.state /\ conn'.authenticated = conn.authenticated
      /\ \/ kind # "proceed" /\ conn'.sent = conn.sent
         \/ kind = "proceed" /\ Adds(conn, conn', "stream")
         \/ kind = "proceed" /\ Adds(conn, conn', "close")
  <2>1. conn.handlers \ {"proceedtls"} = {}
    BY <1>1
  <2>2. Secures(conn, conn', kind)
    BY <1>1, <1>2, ProceedtlsEffect
  <2> QED
    BY <1>1, <2>1, <2>2 DEF Secures
<1>4. Waited({}, {})'
  BY <1>3 DEF Waited
<1>5. CASE kind # "proceed" /\ conn'.sent = conn.sent
  <2>1. Done'
    BY <1>1, <1>4, <1>5 DEF Done, Item
  <2> QED
    BY <1>3, <1>5, <2>1, KeepTurns
<1>6. ASSUME NEW r \in {"stream", "close"}, kind = "proceed", Adds(conn, conn', r) PROVE Turns'
  <2>1. Asks(r)
    BY <1>1, <1>3, <1>6 DEF Asks, Adds
  <2> QED
    BY <1>1, <1>4, <2>1, AskTurns DEF LoginInv
<1> QED
  BY <1>3, <1>5, <1>6

\* The handler of a SASL stanza.
LEMMA CallTrying ==
  ASSUME LoginInv, TlsInv, conn.state = "CONNECTED", ~conn.authenticated, ~Closed,
         NEW h \in SaslHandlers, Trying(h), NEW k \in SaslItems, Calls(h, Item(k), <<>>)
  PROVE  Turns'
<1>1. /\ Len(conn.sent) = server.answered /\ conn.handlers = {h} /\ conn.id_handlers = {} /\ Sound(conn)
      /\ calls' = {} /\ Pipe' = <<>> /\ server' = server /\ h \notin conn.sasl_support
  BY SoundConn DEF Trying, Calls, Called, Waited, LoginInv
<1>2. conn' = HandleSasl(conn, h, k)
  BY DEF Calls, HandleStanza, Item, SaslHandlers, Mechanisms
<1>3. conn.handlers \ {h} = {} /\ (conn.handlers \ {h}) \cup {"rspauth"} = {"rspauth"}
  BY <1>1
<1>4. \A r : Adds(conn, conn', r) /\ conn'.state = conn.state /\ conn'.authenticated = conn.authenticated => Asks(r)
  BY <1>1 DEF Asks, Adds
<1>5. CASE /\ Kept(conn, conn') /\ SameSasl(conn, conn')
           /\ conn'.id_handlers = conn.id_handlers /\ Adds(conn, conn', "response")
           /\ conn'.handlers = conn.handlers \/ conn'.handlers = (conn.handlers \ {h}) \cup {"rspauth"}
  <2>1. Asks("response") /\ (Waited({h}, {})' \/ Waited({"rspauth"}, {})')
    BY <1>1, <1>3, <1>4, <1>5 DEF Kept, Waited
  <2>2. "rspauth" \in SaslHandlers /\ "rspauth" \notin conn'.sasl_support /\ h \notin conn'.sasl_support
    BY <1>1, <1>5 DEF SaslHandlers, SameSasl, Sound, Connections, Mechanisms
  <2>3. \E g \in SaslHandlers : Waited({g}, {})' /\ g \notin conn'.sasl_support
    <3>1. CASE Waited({h}, {})'
      BY <2>2, <3>1
    <3>2. CASE Waited({"rspauth"}, {})'
      BY <2>2, <3>2
    <3> QED
      BY <2>1, <3>1, <3>2
  <2>4. "response" \in Mechanisms \cup {"response"} /\ TypeOK
    BY DEF LoginInv
  <2> QED
    BY <2>1, <2>3, <2>4, AskTurns
<1>6. CASE \E b, r : Authenticates(conn, b, r) /\ Removed(b, conn', h)
  <2>1. PICK e, r : /\ Kept(conn, e) /\ e.handlers = {} /\ e.id_handlers = {}
                    /\ e.sent = conn.sent /\ SameSasl(conn, e)
                    /\ Authenticates(e, conn', r)
    <3>1. PICK b, r : Authenticates(conn, b, r) /\ Removed(b, conn', h)
      BY <1>6
    <3>2. Sound(conn) /\ h \notin conn.sasl_support
      BY <1>1
    <3>3. PICK e : /\ Kept(conn, e) /\ e.handlers = conn.handlers \ {h}
                   /\ e.id_handlers = conn.id_handlers
                   /\ e.sent = conn.sent /\ SameSasl(conn, e)
                   /\ Authenticates(e, conn', r)
      BY <3>1, <3>2, Retried
    <3> QED
      BY <1>1, <1>3, <3>3
  <2>2. e.tls_support = FALSE
    BY <2>1 DEF SameSasl, TlsInv
  <2>3. Candidates(e) \in SUBSET Mechanisms
    BY <1>1, <2>1 DEF SameSasl, Sound, Connections, Candidates
  <2> QED
    BY <1>1, <2>1, <2>2, <2>3, AuthenticateTurns DEF LoginInv
<1>7. CASE /\ conn'.handlers = conn.handlers \ {h} /\ conn'.id_handlers = conn.id_handlers
           /\ conn'.state = conn.state /\ conn'.authenticated = conn.authenticated
           /\ conn'.open_handler = "_handle_open_sasl" /\ Adds(conn, conn', "stream")
  <2>1. Asks("stream") /\ Waited({}, {})'
    BY <1>1, <1>3, <1>4, <1>7 DEF Waited
  <2> QED
    BY <1>7, <2>1, AskTurns DEF LoginInv
<1>8. CASE /\ conn'.handlers = conn.handlers \ {h} /\ conn'.id_handlers = conn.id_handlers
           /\ Kept(conn, conn') /\ Adds(conn, conn', "close")
  <2>1. Asks("close") /\ Waited({}, {})'
    BY <1>1, <1>3, <1>4, <1>8 DEF Kept, Waited
  <2> QED
    BY <2>1, AskTurns DEF LoginInv
<1> QED
  <2>1. Tries(conn, conn', h, k)
    BY <1>1, <1>2, SaslEffect
  <2> QED
    BY <1>5, <1>6, <1>7, <1>8, <2>1 DEF Tries

\* Whichever handler is called keeps the turns.
LEMMA CallTurns ==
  ASSUME LoginInv, TlsInv, Turns, ~Late, Call
  PROVE  Turns'
<1>1. calls # {} /\ conn.state \in {"CONNECTING", "CONNECTED", "DISCONNECTED"}
  BY SoundConn DEF LoginInv, Sound, Connections, Call
<1>2. conn.state = "CONNECTED" /\ LoggingIn /\ ~conn.authenticated /\ ~Closed
  BY <1>1 DEF Turns, Closing, Done, Exchange
<1>3. ~Opening /\ \A s \in Steps : ~Requesting(s)
  BY <1>1 DEF Opening, Requesting, Exchange
<1>4. CASE \E w \in Waits : Announcing(w)
  <2>1. PICK w \in Waits : Announcing(w)
    BY <1>4
  <2>2. PICK f \in Features : Called(w, f, <<>>)
    BY <1>1, <2>1 DEF Announcing
  <2> QED
    BY <1>2, <2>1, <2>2, CallOnly, CallAnnouncing
<1>5. CASE Securing
  <2>1. \/ Called("proceedtls", Item("proceed"), <<>>)
        \/ Called("proceedtls", Item("tls failure"), <<Item("end")>>)
    BY <1>1, <1>5 DEF Securing, Exchange
  <2>2. \/ Calls("proceedtls", Item("proceed"), <<>>)
        \/ Calls("proceedtls", Item("tls failure"), <<Item("end")>>)
    BY <2>1, CallOnly
  <2> QED
    BY <1>2, <1>5, <2>2, CallSecuring
<1>6. CASE \E h \in SaslHandlers : Trying(h)
  <2>1. PICK h \in SaslHandlers : Trying(h)
    BY <1>6
  <2>2. PICK k \in SaslItems : Called(h, Item(k), <<>>)
    BY <1>1, <2>1 DEF Trying, Exchange
  <2> QED
    BY <1>2, <2>1, <2>2, CallOnly, CallTrying
<1> QED
  BY <1>2, <1>3, <1>4, <1>5, <1>6 DEF LoggingIn

-----------------------------------------------------------------------------
(* The turns, in every step.                                                 *)

\* No handler forgets a timer that fired, or leaves the flag of TLS set.
GrowsTo(c, d) == d.tls_support = FALSE /\ d.fired = c.fired

\* No handler of a stanza gives a wait up or finds TLS announced.
LEMMA StanzaGrows ==
  ASSUME NEW c, Sound(c), c.tls_support = FALSE, NEW h \in Waits \cup SaslHandlers \cup {"proceedtls"},
         NEW item, h \in Waits => item \in Features, NEW handshake,
         NEW d, d = HandleStanza(c, h, item, handshake)
  PROVE  GrowsTo(c, d)
<1>1. CASE h = "features"
  <2>1. d = HandleFeatures(c, item)
    BY <1>1 DEF HandleStanza
  <2>2. PICK e, r : Kept(c, e) /\ Authenticates(e, d, r)
    BY <1>1, <2>1, FeaturesEffect DEF Waits
  <2> QED
    BY <2>2 DEF Authenticates, Kept, GrowsTo
<1>2. CASE h = "features_sasl"
  <2>1. d = HandleFeaturesSasl(c, item)
    BY <1>2 DEF HandleStanza
  <2>2. Kept(c, d) /\ SameSasl(c, d)
    BY <1>2, <2>1, FeaturesSaslEffect DEF Waits
  <2> QED
    BY <2>2 DEF Kept, SameSasl, GrowsTo
<1>3. CASE h = "proceedtls"
  <2>1. d = HandleProceedtls(c, item.kind, handshake)
    BY <1>3 DEF HandleStanza
  <2>2. Secures(c, d, item.kind)
    BY <2>1, ProceedtlsEffect
  <2> QED
    BY <2>2 DEF Secures, SameSasl, GrowsTo
<1>4. CASE h \in SaslHandlers
  <2>1. d = HandleSasl(c, h, item.kind)
    BY <1>4 DEF HandleStanza, SaslHandlers, Mechanisms
  <2>2. Tries(c, d, h, item.kind)
    BY <1>4, <2>1, SaslEffect
  <2> QED
    BY <2>2 DEF Tries, Removed, Authenticates, Kept, SameSasl, GrowsTo
<1> QED
  BY <1>1, <1>2, <1>3, <1>4 DEF Waits

\* What comes in closes the connection or leaves its state, and asks for the end or
\* for a session only.
Proceeds(c, d, kind) ==
  /\ SameSasl(c, d) /\ d.fired = c.fired /\ d.open_handler = c.open_handler
  /\ d.state \in {c.state, "DISCONNECTED"}
  /\ d.sent = c.sent \/ Adds(c, d, "close") \/ Adds(c, d, "session")
  /\ d.handlers = c.handlers \cup IF kind \in {"header", "bad header"} THEN {Wait(c)} ELSE {}

\* An item that is parsed may add the wait for the features, ends a request by id, and
\* asks for a session or ends the stream at most.
LEMMA ItemProceeds ==
  ASSUME Sound(conn), NEW item \in Items, conn' = HandleItem(conn, item)
  PROVE  Proceeds(conn, conn', item.kind)
<1>1. conn.id_handlers \subseteq Steps
  BY DEF Sound, Connections
<1>2. CASE item.kind = "header"
  <2>1. conn' = AwaitFeatures(conn)
    BY <1>2, ItemEffect
  <2>2. SameSasl(conn, conn') /\ Kept(conn, conn') /\ conn'.sent = conn.sent /\ conn'.handlers = conn.handlers \cup {Wait(conn)}
    BY <2>1, AwaitFeaturesEffect
  <2> QED
    BY <1>2, <2>2 DEF Kept, Proceeds
<1>3. CASE item.kind \in conn.id_handlers
  <2>1. conn' = HandleReply(conn, item.kind, item.type)
    BY <1>3, ItemEffect
  <2>2. /\ conn'.handlers = conn.handlers /\ SameSasl(conn, conn')
        /\ conn'.state = conn.state /\ conn'.open_handler = conn.open_handler /\ conn'.fired = conn.fired
        /\ conn'.sent = conn.sent \/ Adds(conn, conn', "close") \/ Adds(conn, conn', "session")
    BY <1>1, <1>3, <2>1, ReplyEffect
  <2> QED
    BY <1>1, <1>3, <2>2 DEF Proceeds, Steps
<1>4. CASE item.kind \in {"bad header", "end"}
  BY <1>4, ItemEffect DEF Closes, Proceeds
<1>5. CASE item.kind \notin conn.id_handlers \cup {"header", "bad header", "end"}
  BY <1>5, ItemEffect DEF Proceeds, SameSasl
<1> QED
  BY <1>2, <1>3, <1>4, <1>5

\* A timer that fired is remembered, and nothing else.
Fired == conn'.fired = conn.fired \/ \E t \in Waits \cup Steps \cup {"cleanup"} : Fire(t) /\ conn'.fired = conn.fired \cup {t}

\* Only a timer gives a wait up, and nothing takes that back.
LEMMA Grows ==
  ASSUME LoginInv, TlsInv, [Next]_vars
  PROVE  TlsInv' /\ Fired
<1>1. Sound(conn)
  BY SoundConn DEF LoginInv
<1> USE DEF TlsInv, Fired
<1>2. ASSUME NEW b, Sound(b), b.tls_support = FALSE, b.fired = conn.fired, conn' = Disconnect(b)
      PROVE  TlsInv' /\ Fired
  BY <1>2, DisconnectEffect DEF SameSasl
<1>3. CASE Connect
  <2> DEFINE b == [conn EXCEPT !.state = "CONNECTED"]
  <2>1. b \in Connections /\ b.tls_support = FALSE /\ b.fired = conn.fired
    BY <1>1 DEF Sound, Connections
  <2>2. conn' = Send(b, "stream") \/ conn' = Disconnect(conn)
    BY <1>3 DEF Connect
  <2> HIDE DEF b
  <2>3. conn' = Send(b, "stream") => SameSasl(b, conn') /\ Kept(b, conn')
    BY <2>1, SendEffect
  <2> QED
    BY <1>1, <1>2, <2>1, <2>2, <2>3 DEF SameSasl, Kept
<1>4. CASE Read \/ ReadMalformed \/ Answer \/ UNCHANGED vars
  <2>1. conn' = conn
    BY <1>4 DEF Read, ReadMalformed, ReadUpTo, Answer, vars
  <2> QED
    BY <2>1
<1>5. CASE Parse
  <2>1. conn' = HandleItem(conn, Head(buffer)) /\ Head(buffer) \in Items
    <3>1. buffer \in Seq(Items) /\ buffer # <<>>
      BY <1>5 DEF LoginInv, TypeOK, Parse
    <3> HIDE DEF Items
    <3> QED
      BY <1>5, <3>1 DEF Parse
  <2>2. Proceeds(conn, conn', Head(buffer).kind)
    BY <1>1, <2>1, ItemProceeds
  <2> QED
    BY <2>2 DEF Proceeds, SameSasl
<1>6. CASE Call
  <2>1. PICK call \in calls, handshake \in {"succeeds", "fails", "cannot begin"} :
          conn' = HandleStanza(conn, call.handler, call.item, handshake)
    BY <1>6 DEF Call
  <2>2. /\ call.handler \in Waits \cup SaslHandlers \cup {"proceedtls"}
        /\ call.handler \in Waits => call.item \in Features
    BY DEF LoginInv, TypeOK, CallsFit
  <2>3. PICK h, item : /\ h \in Waits \cup SaslHandlers \cup {"proceedtls"} /\ (h \in Waits => item \in Features)
                       /\ conn' = HandleStanza(conn, h, item, handshake)
    BY <2>1, <2>2
  <2>4. conn.tls_support = FALSE
    OBVIOUS
  <2>5. GrowsTo(conn, conn')
    BY <1>1, <2>3, <2>4, StanzaGrows
  <2> QED
    BY <2>5 DEF GrowsTo
<1>7. ASSUME NEW t \in Waits \cup Steps \cup {"cleanup"}, Fire(t)
      PROVE  TlsInv' /\ Fired
  <2>1. GivesUp(conn, conn', t)
    BY <1>1, <1>7, MissingEffect DEF Fire
  <2>2. TlsInv' /\ conn'.fired = conn.fired \cup {t}
    BY <2>1 DEF GivesUp
  <2> QED
    BY <1>7, <2>2
<1>8. CASE TearDown \/ ParseFails
  BY <1>1, <1>2, <1>8 DEF TearDown, ParseFails
<1>9. CASE Break
  <2> DEFINE b == [conn EXCEPT !.error = TRUE]
  <2>1. Sound(b) /\ b.tls_support = FALSE /\ b.fired = conn.fired
    BY <1>1 DEF Sound, Matched, Connections
  <2> HIDE DEF b
  <2> QED
    BY <1>2, <1>9, <2>1 DEF Break, b
<1> QED
  BY <1>3, <1>4, <1>5, <1>6, <1>7, <1>8, <1>9 DEF Next

\* The turns from the start,
LEMMA InitTurns == Init => TlsInv /\ TurnsInv
<1> SUFFICES ASSUME Init PROVE TlsInv /\ Turns
  BY DEF TurnsInv
<1>1. Pipe = <<>>
  BY DEF Init, Pipe
<1>2. /\ conn.state = "CONNECTING" /\ conn.sent = <<>> /\ conn.handlers = {} /\ conn.id_handlers = {}
      /\ calls = {} /\ server.answered = 0 /\ conn.authenticated = FALSE /\ conn.tls_support = FALSE
  BY DEF Init
<1> QED
  BY <1>1, <1>2 DEF TlsInv, Turns, Waited, GivesUpForGood

\* in every step,
LEMMA NextTurns == LoginInv /\ TlsInv /\ TurnsInv /\ [Next]_vars => TlsInv' /\ TurnsInv'
<1> SUFFICES ASSUME LoginInv, TlsInv, TurnsInv, [Next]_vars PROVE TlsInv' /\ TurnsInv'
  OBVIOUS
<1>1. TlsInv' /\ conn.fired \subseteq conn'.fired
  BY Grows DEF Fired
<1> SUFFICES ASSUME ~Late' PROVE Turns'
  BY <1>1 DEF TurnsInv
<1>2. ~Late /\ Turns /\ TypeOK /\ Sound(conn)
  BY <1>1, SoundConn DEF TurnsInv, Late, LoginInv
<1>3. CASE Connect
  BY <1>2, <1>3, ConnectTurns
<1>4. CASE Read \/ ReadMalformed
  BY <1>2, <1>4, ReadTurns
<1>5. CASE Parse
  BY <1>2, <1>5, ParseTurns
<1>6. CASE Call
  BY <1>2, <1>6, CallTurns
<1>7. ASSUME NEW t \in Waits \cup Steps \cup {"cleanup"}, Fire(t) PROVE Turns'
  BY <1>2, <1>7, FireTurns
<1>8. CASE TearDown \/ Break \/ ParseFails
  BY <1>2, <1>8, BreakTurns
<1>9. CASE Answer
  BY <1>2, <1>9, AnswerTurns
<1>10. CASE UNCHANGED vars
  BY <1>2, <1>10, SameTurns DEF vars, Pipe
<1> QED
  BY <1>3, <1>4, <1>5, <1>6, <1>7, <1>8, <1>9, <1>10 DEF Next

\* and so always.
LEMMA TurnsInvariant == Spec => [](TlsInv /\ TurnsInv)
BY InitTurns, NextTurns, LoginInvariant, PTL DEF Spec

\* Once the client has ended its stream it asks for nothing more, and no login
\* succeeds, as long as no wait was given up: the client and the server take turns.
THEOREM GivenUp == Spec => []GivesUpForGood
<1>1. TurnsInv => GivesUpForGood
  BY DEF TurnsInv, Turns, GivesUpForGood
<1> QED
  BY <1>1, TurnsInvariant, PTL

-----------------------------------------------------------------------------
(* The order of the mechanisms.                                              *)

\* The mechanisms that have a strength.
LEMMA Strengths ==
  /\ DOMAIN Strength = 1 .. 3
  /\ \A i \in DOMAIN Strength : Strength[i] \in Mechanisms \ {"ANONYMOUS"}
  /\ \A i, j \in DOMAIN Strength : Strength[i] = Strength[j] => i = j
<1>1. Strength[1] = "SCRAM-SHA-1" /\ Strength[2] = "DIGEST-MD5" /\ Strength[3] = "PLAIN"
      /\ DOMAIN Strength = 1 .. 3
  BY DEF Strength
<1>2. \A i \in 1 .. 3 : i = 1 \/ i = 2 \/ i = 3
  OBVIOUS
<1> QED
  BY <1>1, <1>2 DEF Mechanisms

\* None of the candidates is stronger than the strongest.
LEMMA StrongestFirst ==
  ASSUME NEW S \in SUBSET Mechanisms, S # {},
         NEW k \in DOMAIN Strength, Strength[k] = Strongest(S)
  PROVE  \A l \in DOMAIN Strength : Strength[l] \in S => k <= l
<1>1. Strength[k] # "ANONYMOUS"
  BY Strengths
<1>2. PICK i \in DOMAIN Strength : Strength[i] = Strongest(S) /\ \A j \in 1 .. i - 1 : Strength[j] \notin S
  BY <1>1, StrongestIsCandidate
<1>3. i = k
  BY <1>2, Strengths
<1> QED
  BY <1>2, <1>3, Strengths

\* A request that is not for a login keeps the order.
LEMMA KeepOrder ==
  ASSUME NEW c, c.sent \in Seq(Requests), Ordered(c), NEW d, d.sasl_support = c.sasl_support,
         NEW r, r \notin Mechanisms \cup {"legacy"}, d.sent = c.sent \/ d.sent = Append(c.sent, r)
  PROVE  Ordered(d)
<1>1. \A i \in DOMAIN d.sent : (i \in DOMAIN c.sent /\ d.sent[i] = c.sent[i]) \/ d.sent[i] = r
  <2>1. CASE d.sent = c.sent
    BY <2>1
  <2>2. CASE d.sent = Append(c.sent, r)
    BY <2>2, Added
  <2> QED
    BY <2>1, <2>2
<1>2. \A k \in DOMAIN Strength : Strength[k] # r
  BY DEF Strength, Mechanisms
<1>3. Candidates(d) = Candidates(c)
  BY DEF Candidates
<1> QED
  BY <1>1, <1>2, <1>3 DEF Ordered

\* What _auth sends keeps the order.
LEMMA AuthenticateOrder ==
  ASSUME NEW c, c.sent \in Seq(Requests), c.sasl_support \in SUBSET Mechanisms, Ordered(c),
         NEW d, NEW r, Authenticates(c, d, r)
  PROVE  Ordered(d)
<1>1. d.sent = c.sent \/ d.sent = Append(c.sent, r)
  BY DEF Authenticates, Adds
<1>2. CASE r \in {"starttls", "close"} /\ d.sasl_support = c.sasl_support
  <2>1. r \notin Mechanisms \cup {"legacy"}
    BY <1>2 DEF Mechanisms
  <2> QED
    BY <1>1, <1>2, <2>1, KeepOrder
<1>3. CASE Candidates(c) # {} /\ r = Strongest(Candidates(c)) /\ d.sasl_support = c.sasl_support \ {r}
  <2>1. Candidates(c) \in SUBSET Mechanisms
    BY DEF Candidates
  <2>2. r \in Candidates(c)
    BY <1>3, <2>1, StrongestIsCandidate
  <2>3. \A i \in DOMAIN c.sent : c.sent[i] # "legacy"
    BY <1>3 DEF Ordered
  <2>4. ASSUME NEW k \in DOMAIN Strength, r = Strength[k], NEW l \in DOMAIN Strength, Strength[l] \in d.sasl_support
        PROVE  k < l
    <3>1. Strength[l] \in Candidates(c)
      <4>1. Strength[l] \in c.sasl_support /\ Strength[l] # "ANONYMOUS" /\ Strength[k] # "ANONYMOUS"
        BY <1>3, <2>4 DEF Strength
      <4> QED
        BY <2>2, <2>4, <4>1 DEF Candidates
    <3>2. k <= l
      BY <1>3, <2>1, <2>4, <3>1, StrongestFirst
    <3>3. k # l
      BY <1>3, <2>4
    <3>4. k \in Nat /\ l \in Nat
      BY DEF Strength
    <3> QED
      BY <3>2, <3>3, <3>4
  <2>5. \A i \in DOMAIN c.sent : \A k, l \in DOMAIN Strength :
          c.sent[i] = Strength[k] /\ (Strength[l] \in d.sasl_support \/ Strength[l] = r) => k < l
    BY <1>3, <2>2 DEF Ordered, Candidates
  <2>6. CASE d.sent = c.sent
    BY <2>3, <2>5, <2>6 DEF Ordered
  <2>7. CASE d.sent = Append(c.sent, r)
    <3>1. /\ \A i \in DOMAIN d.sent : \/ i \in DOMAIN c.sent /\ d.sent[i] = c.sent[i]
                                      \/ i = Len(d.sent) /\ d.sent[i] = r
          /\ \A i \in DOMAIN d.sent : i <= Len(d.sent) /\ i \in Nat
          /\ Len(d.sent) \in Nat
      BY <2>7, Added
    <3>2. r # "legacy"
      BY <2>1, <2>2 DEF Mechanisms
    <3>3. \A i \in DOMAIN d.sent : d.sent[i] # "legacy"
      BY <2>3, <3>1, <3>2
    <3>4. \A i \in DOMAIN d.sent : \A k, l \in DOMAIN Strength :
            d.sent[i] = Strength[k] /\ Strength[l] \in d.sasl_support => k < l
      BY <2>4, <2>5, <3>1
    <3>5. ASSUME NEW i \in DOMAIN d.sent, NEW j \in DOMAIN d.sent,
                 NEW k \in DOMAIN Strength, NEW l \in DOMAIN Strength,
                 i < j, d.sent[i] = Strength[k], d.sent[j] = Strength[l]
          PROVE  k < l
      <4>1. i # Len(d.sent)
        BY <3>1, <3>5
      <4>2. i \in DOMAIN c.sent /\ c.sent[i] = Strength[k]
        BY <3>1, <3>5, <4>1
      <4>3. CASE j \in DOMAIN c.sent /\ d.sent[j] = c.sent[j]
        BY <3>5, <4>2, <4>3 DEF Ordered
      <4>4. CASE d.sent[j] = r
        BY <2>5, <3>5, <4>2, <4>4
      <4> QED
        BY <3>1, <4>3, <4>4
    <3> QED
      BY <3>3, <3>4, <3>5 DEF Ordered
  <2> QED
    BY <1>1, <2>6, <2>7
<1>4. CASE Candidates(c) = {} /\ r = "legacy" /\ d.sasl_support = c.sasl_support
  <2>1. Candidates(d) = {}
    BY <1>4 DEF Candidates
  <2>2. \A i \in DOMAIN d.sent : (i \in DOMAIN c.sent /\ d.sent[i] = c.sent[i]) \/ d.sent[i] = "legacy"
    <3>1. CASE d.sent = c.sent
      BY <3>1
    <3>2. CASE d.sent = Append(c.sent, r)
      BY <1>4, <3>2, Added
    <3> QED
      BY <1>1, <3>1, <3>2
  <2>3. \A k \in DOMAIN Strength : Strength[k] # "legacy"
    BY DEF Strength
  <2> QED
    BY <1>4, <2>1, <2>2, <2>3 DEF Ordered
<1> QED
  BY <1>2, <1>3, <1>4 DEF Authenticates, SameWaits

\* The types of what was sent and answered.
LEMMA PickRequest ==
  ASSUME TypeOK
  PROVE  /\ conn.sent \in Seq(Requests) /\ conn.sasl_support \in SUBSET Mechanisms
         /\ server.answered \in Nat /\ DOMAIN conn.sent = 1 .. Len(conn.sent) /\ Len(conn.sent) \in Nat
BY DEF TypeOK, Connections

\* The features of the first stream come in before any mechanism was tried, or not at all.
LEMMA FeaturesUntried ==
  ASSUME LoginInv, TurnsInv, Late => Past, NEW call \in calls, call.handler = "features"
  PROVE  Untried
<1>1. ~Late
  BY DEF Past
<1>2. Turns
  BY <1>1 DEF TurnsInv
<1>3. \A h, i, rest : Called(h, i, rest) => h = "features"
  <2> SUFFICES ASSUME NEW h, NEW i, NEW rest, Called(h, i, rest) PROVE h = "features"
    OBVIOUS
  <2>1. call = [handler |-> h, item |-> i]
    BY DEF Called
  <2> QED
    BY <2>1
<1>4. conn.state = "CONNECTED" /\ LoggingIn
  <2>1. conn.state \in {"CONNECTING", "CONNECTED", "DISCONNECTED"}
    BY DEF LoginInv, TypeOK, Connections
  <2> QED
    BY <1>2, <2>1 DEF Turns, Closing, Done, Exchange
<1>5. ~Opening /\ ~Securing /\ (\A h \in SaslHandlers : ~Trying(h)) /\ (\A s \in Steps : ~Requesting(s))
  BY <1>3 DEF Opening, Securing, Trying, Requesting, Exchange, SaslHandlers, Mechanisms
<1>6. PICK w \in Waits : Announcing(w)
  BY <1>4, <1>5 DEF LoggingIn
<1>7. w = "features"
  BY <1>3, <1>6 DEF Announcing
<1> QED
  BY <1>6, <1>7 DEF Announcing

\* A handler that is called keeps the order: the features come in before any mechanism
\* was tried, and a SASL stanza ends the try before the next one.
LEMMA CallOrder ==
  ASSUME LoginInv, TurnsInv, Late => Past, Ordered(conn), Call
  PROVE  Ordered(conn')
<1>1. Sound(conn) /\ conn.sent \in Seq(Requests) /\ conn.sasl_support \in SUBSET Mechanisms
  BY SoundConn, PickRequest DEF LoginInv
<1>2. PICK call \in calls, handshake \in {"succeeds", "fails", "cannot begin"} :
        conn' = HandleStanza(conn, call.handler, call.item, handshake)
  BY DEF Call
<1>3. PICK h, item : /\ h = call.handler /\ h \in Waits \cup SaslHandlers \cup {"proceedtls"}
                     /\ h \in Waits => item \in Features
                     /\ conn' = HandleStanza(conn, h, item, handshake)
  BY <1>2 DEF LoginInv, TypeOK, CallsFit
<1>4. ASSUME NEW r \in Requests, r \notin Mechanisms \cup {"legacy"}, Adds(conn, conn', r), SameSasl(conn, conn')
      PROVE  Ordered(conn')
  BY <1>1, <1>4, KeepOrder DEF Adds, SameSasl
<1>5. CASE h = "features"
  <2>1. conn' = HandleFeatures(conn, item)
    BY <1>3, <1>5 DEF HandleStanza
  <2>2. PICK e, r : /\ e.sent = conn.sent /\ Sound(e) /\ Authenticates(e, conn', r)
    BY <1>1, <1>3, <1>5, <2>1, FeaturesEffect DEF Waits
  <2>3. Untried
    BY <1>3, <1>5, FeaturesUntried
  <2>4. Ordered(e)
    <3>1. \A k \in DOMAIN Strength : Strength[k] \in Mechanisms
      BY Strengths
    <3> QED
      BY <2>2, <2>3, <3>1 DEF Ordered, Untried
  <2>5. e.sasl_support \in SUBSET Mechanisms
    BY <2>2 DEF Sound, Connections
  <2> QED
    BY <1>1, <2>2, <2>4, <2>5, AuthenticateOrder
<1>6. CASE h = "features_sasl"
  <2>1. conn' = HandleFeaturesSasl(conn, item)
    BY <1>3, <1>6 DEF HandleStanza
  <2>2. SameSasl(conn, conn') /\ (Adds(conn, conn', "bind") \/ Adds(conn, conn', "close"))
    BY <1>1, <1>3, <1>6, <2>1, FeaturesSaslEffect DEF Waits
  <2> QED
    BY <1>4, <2>2 DEF Requests, Steps, Mechanisms
<1>7. CASE h = "proceedtls"
  <2>1. conn' = HandleProceedtls(conn, item.kind, handshake)
    BY <1>3, <1>7 DEF HandleStanza
  <2>2. Secures(conn, conn', item.kind)
    BY <1>1, <2>1, ProceedtlsEffect
  <2>3. SameSasl(conn, conn') /\ (conn'.sent = conn.sent \/ Adds(conn, conn', "stream") \/ Adds(conn, conn', "close"))
    BY <2>2 DEF Secures
  <2>4. CASE conn'.sent = conn.sent
    <3>1. "close" \notin Mechanisms \cup {"legacy"}
      BY DEF Mechanisms
    <3> QED
      BY <1>1, <2>3, <2>4, <3>1, KeepOrder DEF SameSasl
  <2> QED
    BY <1>4, <2>3, <2>4 DEF Requests, Mechanisms
<1>8. CASE h \in SaslHandlers
  <2>1. conn' = HandleSasl(conn, h, item.kind)
    BY <1>3, <1>8 DEF HandleStanza, SaslHandlers, Mechanisms
  <2>2. Tries(conn, conn', h, item.kind)
    BY <1>1, <1>8, <2>1, SaslEffect
  <2>3. \/ SameSasl(conn, conn') /\ \E r \in {"response", "stream", "close"} : Adds(conn, conn', r)
        \/ \E b, r : Authenticates(conn, b, r) /\ Removed(b, conn', h)
    BY <2>2 DEF Tries
  <2>4. CASE SameSasl(conn, conn') /\ \E r \in {"response", "stream", "close"} : Adds(conn, conn', r)
    BY <1>4, <2>4 DEF Requests, Mechanisms
  <2>5. CASE \E b, r : Authenticates(conn, b, r) /\ Removed(b, conn', h)
    <3>1. PICK b, r : Authenticates(conn, b, r) /\ Removed(b, conn', h)
      BY <2>5
    <3>2. Ordered(b)
      BY <1>1, <3>1, AuthenticateOrder
    <3> QED
      BY <3>1, <3>2 DEF Ordered, Candidates, Removed, SameSasl
  <2> QED
    BY <2>3, <2>4, <2>5
<1> QED
  BY <1>3, <1>5, <1>6, <1>7, <1>8 DEF Waits

\* Every step keeps the order, while the features were not given up.
LEMMA NextOrder ==
  ASSUME LoginInv, TurnsInv, Late => Past, Ordered(conn), [Next]_vars, ~FeaturesLate'
  PROVE  Ordered(conn')
<1>1. Sound(conn) /\ conn.sent \in Seq(Requests)
  BY SoundConn, PickRequest DEF LoginInv
<1>2. ASSUME conn'.sasl_support = conn.sasl_support,
             conn'.sent = conn.sent \/ \E r \in {"stream", "close", "session"} : conn'.sent = Append(conn.sent, r)
      PROVE  Ordered(conn')
  <2>1. \A r \in {"stream", "close", "session"} : r \notin Mechanisms \cup {"legacy"}
    BY DEF Mechanisms
  <2> QED
    BY <1>1, <1>2, <2>1, KeepOrder
<1>3. CASE Connect
  <2> DEFINE b == [conn EXCEPT !.state = "CONNECTED"]
  <2>1. b \in Connections /\ b.sasl_support = conn.sasl_support /\ b.sent = conn.sent
    BY <1>1 DEF Sound, Connections
  <2>2. conn' = Send(b, "stream") \/ conn' = Disconnect(conn)
    BY <1>3 DEF Connect
  <2> HIDE DEF b
  <2>3. conn' = Send(b, "stream") => SameSasl(b, conn') /\ Adds(b, conn', "stream")
    BY <2>1, SendEffect
  <2>4. conn' = Disconnect(conn) => SameSasl(conn, conn') /\ conn'.sent = conn.sent
    BY <1>1, DisconnectEffect
  <2> QED
    BY <1>2, <2>1, <2>2, <2>3, <2>4 DEF SameSasl, Adds
<1>4. CASE Read \/ ReadMalformed \/ Answer \/ UNCHANGED vars
  <2>1. conn' = conn
    BY <1>4 DEF Read, ReadMalformed, ReadUpTo, Answer, vars
  <2> QED
    BY <1>2, <2>1
<1>5. CASE Parse
  <2>1. PICK item : Parses(item, Tail(Pipe))
    BY <1>5, ParseFirst
  <2>2. Proceeds(conn, conn', item.kind)
    BY <1>1, <2>1, ItemProceeds DEF Parses
  <2> QED
    BY <1>2, <2>2 DEF Proceeds, SameSasl, Adds
<1>6. CASE Call
  BY <1>6, CallOrder
<1>7. ASSUME NEW t \in Waits \cup Steps \cup {"cleanup"}, Fire(t)
      PROVE  Ordered(conn')
  <2>1. GivesUp(conn, conn', t)
    BY <1>1, <1>7, MissingEffect DEF Fire
  <2>2. t # "features"
    BY <2>1 DEF GivesUp, FeaturesLate
  <2> QED
    BY <1>2, <2>1, <2>2 DEF GivesUp, SameSasl, Adds
<1>8. CASE TearDown \/ ParseFails
  BY <1>1, <1>2, <1>8, DisconnectEffect DEF TearDown, ParseFails, SameSasl
<1>9. CASE Break
  <2> DEFINE b == [conn EXCEPT !.error = TRUE]
  <2>1. Sound(b) /\ b.sasl_support = conn.sasl_support /\ b.sent = conn.sent
    BY <1>1 DEF Sound, Matched, Connections
  <2>2. conn' = Disconnect(b)
    BY <1>9 DEF Break
  <2> HIDE DEF b
  <2> QED
    BY <1>2, <2>1, <2>2, DisconnectEffect DEF SameSasl
<1> QED
  BY <1>3, <1>4, <1>5, <1>6, <1>7, <1>8, <1>9 DEF Next

\* The member of a sequence of one.
LEMMA OneMember == ASSUME NEW q PROVE \A i \in DOMAIN <<q>> : <<q>>[i] = q
<1>1. <<q>> \in Seq({q})
  OBVIOUS
<1> QED
  BY <1>1, ElementOfSeq

\* The same for two.
LEMMA TwoMembers == ASSUME NEW q, NEW r PROVE \A i \in DOMAIN <<q, r>> : <<q, r>>[i] \in {q, r}
<1>1. <<q, r>> \in Seq({q, r})
  OBVIOUS
<1> QED
  BY <1>1, ElementOfSeq

\* A stanza that is no opening tag.
LEMMA Unheaded ==
  ASSUME NEW q, q.kind \notin {"header", "bad header"}
  PROVE  ~Headed(<<q>>)
<1>1. \A i \in DOMAIN <<q>> : <<q>>[i] = q
  BY OneMember
<1> QED
  BY <1>1 DEF Headed

\* Nor two of them.
LEMMA UnheadedPair ==
  ASSUME NEW q, q.kind \notin {"header", "bad header"}, NEW r, r.kind \notin {"header", "bad header"}
  PROVE  ~Headed(<<q, r>>)
<1>1. \A i \in DOMAIN <<q, r>> : <<q, r>>[i] \in {q, r}
  BY TwoMembers
<1>2. \A i \in DOMAIN <<q, r>> : <<q, r>>[i].kind \notin {"header", "bad header"}
  BY <1>1
<1> QED
  BY <1>2 DEF Headed

\* A wait that is given up leaves nothing that could try a mechanism.
LEMMA FirePast ==
  ASSUME LoginInv, Turns, NEW t \in (Waits \cup Steps) \ {"features"}, Fire(t)
  PROVE  Past'
<1>1. /\ Sound(conn) /\ conn.state = "CONNECTED" /\ calls = {} /\ t \in conn.timed_handlers
      /\ conn' = HandleMissing(conn, t) /\ calls' = calls /\ Pipe' = Pipe /\ server' = server
  BY SoundConn DEF LoginInv, Fire, AtRest, Outside, Pipe
<1>2. /\ SameWaits(conn, conn') /\ conn'.open_handler = conn.open_handler
      /\ conn'.state = "CONNECTED" /\ conn'.sent = Append(conn.sent, "close")
  <2>1. GivesUp(conn, conn', t)
    BY <1>1, MissingEffect
  <2> QED
    BY <1>1, <2>1 DEF GivesUp, Adds, Steps, Waits
<1>3. t \in conn.handlers \cup conn.id_handlers /\ conn.id_handlers \subseteq Steps
  BY <1>1 DEF Sound, Matched, Connections, Steps, Waits
<1>4. \/ conn.handlers = {"features_sasl"} /\ conn.open_handler = "_handle_open_sasl"
      \/ conn.handlers = {} /\ \E s \in Steps : Requesting(s)
  <2>1. CASE \E w \in Waits : Announcing(w)
    <3>1. PICK w \in Waits : Announcing(w)
      BY <2>1
    <3>2. w = t
      BY <1>3, <3>1 DEF Announcing, Waited
    <3> QED
      BY <3>1, <3>2 DEF Announcing, Waited, Waits
  <2>2. CASE \E s \in Steps : Requesting(s)
    BY <2>2 DEF Requesting, Waited
  <2>3. CASE Opening \/ Closing \/ Done
    BY <1>3, <2>3 DEF Opening, Closing, Done, Waited
  <2>4. CASE Securing
    BY <1>3, <2>4 DEF Securing, Waited, Waits, Steps
  <2>5. CASE \E h \in SaslHandlers : Trying(h)
    <3>1. PICK h \in SaslHandlers : conn.handlers = {h} /\ conn.id_handlers = {}
      BY <2>5 DEF Trying, Waited
    <3> QED
      BY <1>3, <3>1 DEF SaslHandlers, Mechanisms, Waits, Steps
  <2> QED
    BY <1>1, <2>1, <2>2, <2>3, <2>4, <2>5 DEF Turns, LoggingIn
<1>5. CASE conn.handlers = {"features_sasl"} /\ conn.open_handler = "_handle_open_sasl"
  BY <1>1, <1>2, <1>5 DEF Past, SameWaits
<1>6. CASE conn.handlers = {} /\ \E s \in Steps : Requesting(s)
  <2>1. PICK s \in Steps : Requesting(s)
    BY <1>6
  <2>2. conn.sent \in Seq(Requests) /\ server.answered \in Nat /\ Len(conn.sent) \in Nat /\ DOMAIN conn.sent = 1 .. Len(conn.sent)
    BY PickRequest DEF LoginInv
  <2>3. ~Headed(Pipe)
    <3>1. CASE Pipe = <<>>
      BY <3>1 DEF Headed
    <3>2. CASE Pipe \in StepReplies(s)
      <4>1. PICK q : Pipe = <<q>> /\ q.kind = s
        BY <3>2 DEF StepReplies
      <4> QED
        BY <4>1, Unheaded DEF Steps
    <3> QED
      BY <2>1, <3>1, <3>2 DEF Requesting, Exchange
  <2>4. ~Renewed'
    <3>1. /\ Len(conn'.sent) = Len(conn.sent) + 1
          /\ \A i \in DOMAIN conn'.sent : \/ i \in DOMAIN conn.sent /\ conn'.sent[i] = conn.sent[i]
                                          \/ i = Len(conn'.sent) /\ conn'.sent[i] = "close"
          /\ DOMAIN conn'.sent = 1 .. Len(conn'.sent)
      BY <1>2, <2>2, Added
    <3>2. \A i \in DOMAIN conn.sent : i > server.answered => i = Len(conn.sent) /\ conn.sent[i] = s
      BY <2>1, <2>2 DEF Requesting, Exchange, LastSent
    <3>3. s # "stream"
      BY DEF Steps
    <3>4. ASSUME NEW i \in server.answered + 1 .. Len(conn'.sent) PROVE conn'.sent[i] # "stream"
      <4>1. i \in DOMAIN conn'.sent /\ i > server.answered
        BY <2>2, <3>1
      <4> QED
        BY <3>1, <3>2, <3>3, <4>1
    <3> QED
      BY <1>1, <3>4 DEF Renewed
  <2>5. ~Headed(Pipe)'
    BY <1>1, <2>3 DEF Headed
  <2> QED
    BY <1>1, <1>2, <1>6, <2>4, <2>5 DEF Past, SameWaits
<1> QED
  BY <1>4, <1>5, <1>6

\* A request that is none for a stream asks for none.
LEMMA RenewedKept ==
  ASSUME TypeOK, server' = server, NEW r, r # "stream",
         conn'.sent = conn.sent \/ conn'.sent = Append(conn.sent, r)
  PROVE  Renewed' => Renewed
<1>1. conn.sent \in Seq(Requests) /\ server.answered \in Nat /\ Len(conn.sent) \in Nat /\ DOMAIN conn.sent = 1 .. Len(conn.sent)
  BY PickRequest
<1>2. CASE conn'.sent = conn.sent
  BY <1>2 DEF Renewed
<1>3. CASE conn'.sent = Append(conn.sent, r)
  <2>1. /\ \A i \in DOMAIN conn'.sent : \/ i \in DOMAIN conn.sent /\ conn'.sent[i] = conn.sent[i]
                                        \/ i = Len(conn'.sent) /\ conn'.sent[i] = r
        /\ DOMAIN conn'.sent = 1 .. Len(conn'.sent)
    BY <1>1, <1>3, Added
  <2>2. ASSUME NEW i \in server.answered + 1 .. Len(conn'.sent), conn'.sent[i] = "stream"
        PROVE  i \in server.answered + 1 .. Len(conn.sent) /\ conn.sent[i] = "stream"
    <3>1. i \in DOMAIN conn'.sent /\ i > server.answered
      BY <1>1, <2>1
    <3> QED
      BY <1>1, <2>1, <2>2, <3>1
  <2> QED
    BY <2>2 DEF Renewed
<1> QED
  BY <1>2, <1>3

\* Where nothing but the features of an authenticated stream is waited for, nothing
\* else will be.
LEMMA KeepPast ==
  ASSUME LoginInv, Past, server' = server, Pipe' = Pipe,
         conn'.handlers \subseteq conn.handlers, calls' \subseteq calls, conn'.state # "CONNECTING",
         conn'.open_handler = conn.open_handler,
         NEW r, r # "stream", conn'.sent = conn.sent \/ conn'.sent = Append(conn.sent, r)
  PROVE  Past'
<1>1. Renewed' => Renewed
  BY RenewedKept DEF LoginInv
<1>2. Headed(Pipe)' => Headed(Pipe)
  BY DEF Headed
<1> QED
  BY <1>1, <1>2 DEF Past

\* What is parsed leaves the pipe with no more opening tags.
LEMMA ParsePast ==
  ASSUME LoginInv, Past, Parse
  PROVE  Past'
<1>1. PICK item : item = Head(Pipe) /\ Parses(item, Tail(Pipe)) /\ Pipe # <<>> /\ Sound(conn)
  BY ParseFirst, SoundConn DEF LoginInv
<1>2. Proceeds(conn, conn', item.kind)
  BY <1>1, ItemProceeds DEF Parses
<1>3. buffer \in Seq(Items) /\ toClient \in Seq(Items) /\ Pipe \in Seq(Items)
  BY DEF LoginInv, TypeOK, Pipe
<1>4. item.kind \in {"header", "bad header"} => Headed(Pipe)
  <2> HIDE DEF Items
  <2>1. 1 \in DOMAIN Pipe /\ Pipe[1] = item
    BY <1>1, <1>3
  <2> QED
    BY <2>1 DEF Headed
<1>5. conn'.handlers \subseteq {"features_sasl"}
  BY <1>2, <1>4 DEF Past, Proceeds, Wait
<1>6. calls' = {[handler |-> h, item |-> item] : h \in Waiting(conn, item)}
  BY <1>1 DEF Parses
<1>7. \A call \in calls' : call.handler = "features_sasl"
  <2>1. Waiting(conn, item) \subseteq conn.handlers
    BY Zenon DEF Waiting
  <2>2. Waiting(conn, item) \subseteq {"features_sasl"}
    BY <2>1 DEF Past
  <2> QED
    BY <1>6, <2>2
<1>8. Headed(Pipe)' => Headed(Pipe)
  <2> HIDE DEF Items
  <2>1. Pipe' = Tail(Pipe)
    BY <1>1 DEF Parses
  <2>2. \A i \in DOMAIN Tail(Pipe) : i + 1 \in DOMAIN Pipe /\ Pipe[i + 1] = Tail(Pipe)[i]
    BY <1>1, <1>3
  <2> QED
    BY <2>1, <2>2 DEF Headed
<1>9. Renewed' => Renewed
  <2>1. \E r \in {"close", "session"} : conn'.sent = conn.sent \/ conn'.sent = Append(conn.sent, r)
    BY <1>2 DEF Proceeds, Adds
  <2> QED
    BY <1>1, <2>1, RenewedKept DEF LoginInv, Parses
<1>10. conn'.open_handler = conn.open_handler /\ conn'.state # "CONNECTING"
  BY <1>2 DEF Proceeds, Past
<1> QED
  BY <1>5, <1>7, <1>8, <1>9, <1>10 DEF Past

\* An opening tag is sent to who asked for a stream.
LEMMA AnswerPast ==
  ASSUME LoginInv, Past, Answer
  PROVE  Past'
<1>1. conn.sent \in Seq(Requests) /\ server.answered \in Nat /\ Len(conn.sent) \in Nat /\ DOMAIN conn.sent = 1 .. Len(conn.sent)
  BY PickRequest DEF LoginInv
<1>2. PICK reply \in Answers(conn.sent[server.answered + 1]) :
        toClient' = toClient \o reply /\ server'.answered = server.answered + 1
  BY DEF Answer
<1>3. /\ conn' = conn /\ calls' = calls /\ buffer' = buffer
      /\ server.answered + 1 \in server.answered + 1 .. Len(conn.sent)
  BY <1>1 DEF Answer
<1> DEFINE asked == conn.sent[server.answered + 1]
<1>4. asked \in Requests
  BY <1>1, <1>3
<1>5. reply \in Seq(Items)
  BY <1>2, <1>4, AnswersAreItems
<1>6. Headed(reply) => asked = "stream"
  <2> SUFFICES ASSUME asked # "stream" PROVE ~Headed(reply)
    OBVIOUS
  <2>1. CASE asked = "starttls"
    <3>1. reply = <<Item("proceed")>> \/ reply = <<Item("tls failure"), Item("end")>>
      BY <1>2, <2>1, AnswersFit DEF TlsReplies
    <3>2. Item("tls failure").kind = "tls failure" /\ Item("end").kind = "end"
      BY DEF Item
    <3>3. ~Headed(<<Item("tls failure"), Item("end")>>)
      BY <3>2, UnheadedPair
    <3>4. ~Headed(<<Item("proceed")>>)
      BY Unheaded DEF Item
    <3> QED
      BY <3>1, <3>3, <3>4
  <2>2. CASE asked \in Mechanisms \cup {"response"}
    <3>1. PICK k \in SaslItems : reply = <<Item(k)>>
      BY <1>2, <2>2, AnswersFit DEF SaslReplies
    <3> QED
      BY <3>1, Unheaded DEF Item, SaslItems
  <2>3. CASE asked \in Steps
    <3>1. PICK q : reply = <<q>> /\ q.kind = asked
      BY <1>2, <2>3, AnswersFit DEF StepReplies
    <3> QED
      BY <2>3, <3>1, Unheaded DEF Steps
  <2>4. CASE asked = "close"
    <3>1. reply = <<Item("end")>>
      BY <1>2, <2>4, AnswersFit DEF EndReplies
    <3> QED
      BY <3>1, Unheaded DEF Item
  <2> QED
    BY <1>4, <2>1, <2>2, <2>3, <2>4 DEF Requests
<1> HIDE DEF Items
<1>7. Headed(Pipe)' => Headed(Pipe) \/ Headed(reply)
  <2>1. buffer \in Seq(Items) /\ toClient \in Seq(Items)
    BY DEF LoginInv, TypeOK
  <2>2. Pipe' = Pipe \o reply /\ Pipe \in Seq(Items)
    <3>1. (buffer \o toClient) \o reply = buffer \o (toClient \o reply)
      BY <1>5, <2>1, ConcatAssociative
    <3>2. Pipe' = buffer \o (toClient \o reply)
      BY <1>2, <1>3 DEF Pipe
    <3>3. Pipe \in Seq(Items)
      BY <2>1, ConcatProperties DEF Pipe
    <3> QED
      BY <3>1, <3>2, <3>3 DEF Pipe
  <2>3. ASSUME NEW p \in Seq(Items), NEW i \in DOMAIN (p \o reply)
        PROVE  \/ i \in DOMAIN p /\ (p \o reply)[i] = p[i]
               \/ i - Len(p) \in DOMAIN reply /\ (p \o reply)[i] = reply[i - Len(p)]
    BY <1>5, <2>3
  <2> QED
    BY <2>2, <2>3 DEF Headed
<1>8. Renewed' => Renewed
  <2>1. server'.answered + 1 .. Len(conn'.sent) \subseteq server.answered + 1 .. Len(conn.sent)
    BY <1>1, <1>2, <1>3
  <2> QED
    BY <1>3, <2>1 DEF Renewed
<1>9. Headed(reply) => Renewed
  BY <1>3, <1>6 DEF Renewed
<1> QED
  BY <1>3, <1>7, <1>8, <1>9 DEF Past

\* After a wait other than that for the first features is given up, no mechanism is tried
\* any more.
LEMMA NextPast ==
  ASSUME LoginInv, TlsInv, TurnsInv, Late => Past, [Next]_vars, ~FeaturesLate', Late'
  PROVE  Past'
<1>1. Sound(conn) /\ conn.state \in {"CONNECTING", "CONNECTED", "DISCONNECTED"}
  BY SoundConn DEF LoginInv, Sound, Connections
<1>2. ASSUME NEW t \in Waits \cup Steps \cup {"cleanup"}, Fire(t) PROVE Past'
  <2>1. GivesUp(conn, conn', t) /\ t # "features"
    <3>1. GivesUp(conn, conn', t)
      BY <1>1, <1>2, MissingEffect DEF Fire
    <3> QED
      BY <3>1 DEF GivesUp, FeaturesLate
  <2>2. CASE ~Late
    <3>1. t # "cleanup"
      BY <2>1, <2>2 DEF GivesUp, Late
    <3> QED
      BY <1>2, <2>1, <2>2, <3>1, FirePast DEF TurnsInv
  <2>3. CASE Late
    <3>1. conn'.open_handler = conn.open_handler /\ SameWaits(conn, conn') /\ conn'.state # "CONNECTING"
      BY <1>2, <2>1 DEF GivesUp, Fire, AtRest
    <3>2. conn'.sent = conn.sent \/ conn'.sent = Append(conn.sent, "close")
      BY <2>1 DEF GivesUp, Adds
    <3>3. calls' = calls /\ Pipe' = Pipe /\ server' = server
      BY <1>2 DEF Fire, Outside, Pipe
    <3> QED
      BY <2>3, <3>1, <3>2, <3>3, KeepPast DEF SameWaits
  <2> QED
    BY <2>2, <2>3
<1>3. ASSUME \A t \in Waits \cup Steps \cup {"cleanup"} : ~Fire(t) PROVE Past'
  <2>1. conn'.fired = conn.fired
    BY <1>3, Grows DEF Fired
  <2>2. Late /\ Past
    BY <2>1 DEF Late
  <2>3. ~Connect
    BY <2>2 DEF Connect, Past
  <2>4. CASE Read \/ ReadMalformed
    <3>0. PICK n \in 0 .. Len(toClient) : ReadUpTo(n)
      BY <2>4, Reads DEF LoginInv
    <3>1. Pipe' = Pipe
      <4>1. buffer = <<>> /\ toClient \in Seq(Items)
        BY <3>0 DEF ReadUpTo, AtRest, LoginInv, TypeOK
      <4> QED
        BY <3>0, <4>1, ReadPipe DEF ReadUpTo, Pipe
    <3>2. conn' = conn /\ calls' = calls /\ server' = server
      BY <3>0 DEF ReadUpTo
    <3>3. conn'.state # "CONNECTING" /\ "close" # "stream"
      BY <2>2, <3>2 DEF Past
    <3> QED
      BY <2>2, <3>1, <3>2, <3>3, KeepPast
  <2>5. CASE Parse
    BY <2>2, <2>5, ParsePast
  <2>6. CASE Call
    <3>1. PICK call \in calls, handshake \in {"succeeds", "fails", "cannot begin"} :
            /\ conn' = HandleStanza(conn, call.handler, call.item, handshake)
            /\ calls' = calls \ {call}
      BY <2>6 DEF Call
    <3>2. call.handler = "features_sasl" /\ call.item \in Features
      BY <2>2 DEF Past, LoginInv, CallsFit, Waits
    <3>3. conn' = HandleFeaturesSasl(conn, call.item)
      BY <3>1, <3>2 DEF HandleStanza
    <3>4. PICK f \in Features : conn' = HandleFeaturesSasl(conn, f)
      BY <3>2, <3>3
    <3>5. /\ Kept(conn, conn') /\ conn'.handlers = conn.handlers \ {"features_sasl"}
          /\ Adds(conn, conn', "bind") \/ Adds(conn, conn', "close")
      BY <1>1, <3>4, FeaturesSaslEffect
    <3>6. PICK r \in {"bind", "close"} : conn'.sent = conn.sent \/ conn'.sent = Append(conn.sent, r)
      BY <3>5 DEF Adds
    <3>7. Pipe' = Pipe /\ server' = server
      BY <2>6 DEF Call, Outside, Pipe
    <3>8. r # "stream" /\ conn'.state # "CONNECTING" /\ conn'.open_handler = conn.open_handler
      BY <2>2, <3>5 DEF Past, Kept
    <3>9. conn'.handlers \subseteq conn.handlers /\ calls' \subseteq calls
      BY <3>1, <3>5
    <3> QED
      BY <2>2, <3>6, <3>7, <3>8, <3>9, KeepPast
  <2>7. CASE TearDown \/ Break \/ ParseFails
    <3>1. \E b : /\ Sound(b) /\ conn' = Disconnect(b) /\ b.sent = conn.sent
                 /\ b.open_handler = conn.open_handler /\ b.handlers = conn.handlers
      <4> DEFINE b == [conn EXCEPT !.error = TRUE]
      <4>1. /\ Sound(b) /\ b.sent = conn.sent
            /\ b.open_handler = conn.open_handler /\ b.handlers = conn.handlers
        BY <1>1 DEF Sound, Matched, Connections
      <4> QED
        BY <1>1, <2>7, <4>1 DEF TearDown, Break, ParseFails
    <3>2. /\ conn'.state = "DISCONNECTED" /\ conn'.sent = conn.sent
          /\ conn'.open_handler = conn.open_handler /\ conn'.handlers = conn.handlers
      BY <3>1, DisconnectEffect DEF SameWaits
    <3>3. calls' = calls /\ Pipe' = Pipe /\ server' = server
      BY <2>7 DEF TearDown, Break, ParseFails, Outside, Pipe
    <3>4. conn'.state # "CONNECTING" /\ "close" # "stream"
      BY <3>2
    <3> QED
      BY <2>2, <3>2, <3>3, <3>4, KeepPast
  <2>8. CASE Answer
    BY <2>2, <2>8, AnswerPast
  <2>9. CASE UNCHANGED vars
    <3>1. conn' = conn /\ calls' = calls /\ Pipe' = Pipe /\ server' = server
      BY <2>9 DEF vars, Pipe
    <3>2. conn'.state # "CONNECTING" /\ "close" # "stream"
      BY <2>2, <3>1 DEF Past
    <3> QED
      BY <2>2, <3>1, <3>2, KeepPast
  <2> QED
    BY <1>3, <2>3, <2>4, <2>5, <2>6, <2>7, <2>8, <2>9 DEF Next
<1> QED
  BY <1>2, <1>3

\* The JID is that of the whole login.
LEMMA JidKept == [Next]_vars => jid' = jid
BY DEF Next, Connect, Read, ReadMalformed, ReadUpTo, Parse, Call, ParseFails, Fire, TearDown, Break,
       Answer, Outside, vars

\* The order from the start,
LEMMA InitOrder == Init => OrderInv
<1> SUFFICES ASSUME Init PROVE Ordered(conn) /\ ~Late
  BY DEF OrderInv
<1>1. conn.sent = <<>> /\ conn.fired = {}
  BY DEF Init
<1>2. DOMAIN conn.sent = {}
  BY <1>1
<1> QED
  BY <1>1, <1>2 DEF Ordered, Late

\* and in every step.
LEMMA NextOrderInv ==
  LoginInv /\ TlsInv /\ TurnsInv /\ OrderInv /\ [Next]_vars => OrderInv'
<1> SUFFICES ASSUME LoginInv, TlsInv, TurnsInv, OrderInv, [Next]_vars, ~FeaturesLate'
             PROVE  Ordered(conn)' /\ (Late' => Past')
  BY DEF OrderInv
<1>1. ~FeaturesLate
  <2>1. conn.fired \subseteq conn'.fired
    BY Grows DEF Fired
  <2> QED
    BY <2>1 DEF FeaturesLate
<1>2. Ordered(conn) /\ (Late => Past)
  BY <1>1 DEF OrderInv
<1>3. Ordered(conn)'
  <2>1. Ordered(conn')
    BY <1>2, NextOrder
  <2>2. jid' = jid
    BY JidKept
  <2> QED
    BY <2>1, <2>2 DEF Ordered, Candidates
<1>4. Late' => Past'
  BY <1>2, NextPast
<1> QED
  BY <1>3, <1>4

\* While the features of the first stream were not given up, each mechanism is tried
\* once, a weaker one after the stronger ones, the legacy protocol when none is left,
\* and a SASL stanza has one handler.
THEOREM TriedOnce == Spec => []TriedInOrder
<1>1. Init => OrderInv
  BY InitOrder
<1>2. LoginInv /\ TlsInv /\ TurnsInv /\ OrderInv /\ [Next]_vars => OrderInv'
  BY NextOrderInv
<1>3. TurnsInv /\ OrderInv => TriedInOrder
  <2> SUFFICES ASSUME TurnsInv, OrderInv, ~FeaturesLate PROVE TriedInOrder
    BY DEF TriedInOrder
  <2>1. Ordered(conn) /\ (Late => Past)
    BY DEF OrderInv
  <2>2. \A h, g \in conn.handlers \cap SaslHandlers : h = g
    <3>1. CASE Late
      <4>1. "features_sasl" \notin SaslHandlers
        BY DEF SaslHandlers, Mechanisms
      <4> QED
        BY <2>1, <3>1, <4>1 DEF Past
    <3>2. CASE ~Late
      BY <3>2 DEF TurnsInv, Turns
    <3> QED
      BY <3>1, <3>2
  <2> QED
    BY <2>1, <2>2 DEF TriedInOrder, Ordered
<1> QED
  BY <1>1, <1>2, <1>3, LoginInvariant, TurnsInvariant, PTL DEF Spec

-----------------------------------------------------------------------------
(* The events of a login.  Once the features were given up two logins may go  *)
(* on side by side, with any number of requests left to be answered; what     *)
(* holds the number of successes down is that the server opens one stream     *)
(* after what it accepts, and accepts once.                                   *)

\* A sequence of items has one of S; it does not have two.
Has(p, S) == \E i \in DOMAIN p : p[i] \in S
One(p, S) == \A i, j \in DOMAIN p : p[i] \in S /\ p[j] \in S => i = j

\* The items of a kind, and what they are to a login: TLS offered and answered, the end.
Of(k)     == {q \in Items : q.kind = k}
Openings  == Of("header")
BadOpenings == Of("bad header")
Successes == Of("success")
GoAheads  == Of("proceed")
Enders    == Of("end")
TlsOffers == {f \in Features : f.tls}
TlsReply  == GoAheads \cup Of("tls failure")
Result    == [kind |-> "legacy", type |-> "result"]

\* Nothing comes after the end.
Ended(p) == \A i \in DOMAIN p : p[i] \in Enders => i = Len(p)

\* A request r is still to be answered, and is not twice; requests of R were sent, r not twice.
Left(r)     == \E i \in server.answered + 1 .. Len(conn.sent) : conn.sent[i] = r
OneLeft(r)  == \A i, j \in server.answered + 1 .. Len(conn.sent) : conn.sent[i] = r /\ conn.sent[j] = r => i = j
Asked(R)    == \E i \in DOMAIN conn.sent : conn.sent[i] \in R
OneAsked(r) == \A i, j \in DOMAIN conn.sent : conn.sent[i] = r /\ conn.sent[j] = r => i = j

\* A mechanism was tried; the stream is the first, or that after TLS.
Tried == Asked(Mechanisms)
First == conn.open_handler = "auth_handle_open"

\* Before the first answer nothing is done, and after a stream that does not open as one
\* nothing but its end comes.
Start ==
  /\ server.answered <= Len(conn.sent)
  /\ server.answered = 0 =>
       /\ Waited({}, {}) /\ calls = {} /\ Pipe = <<>> /\ conn.sent \in {<<>>, <<"stream">>}
       /\ conn.sasl_support = {} /\ First /\ conn.events = <<>> /\ ~server.authenticated
  /\ conn.state = "CONNECTING" => server.answered = 0 /\ conn.sent = <<>>
  /\ Has(Pipe, BadOpenings) =>
       /\ Pipe \in {<<Item("bad header")>>, <<Item("bad header"), Item("end")>>}
       /\ server.answered = Len(conn.sent) /\ conn.events = <<>>
       /\ Waited({}, {}) /\ calls = {}
  /\ Ended(Pipe)
  /\ Has(Pipe, Enders) => server.done

\* The handlers to be called are those that wait for what was parsed.
CallsMatch ==
  \A call, other \in calls : call.item = other.item /\ call.handler \in Waiting(conn, call.item)

\* The first stream, or that after TLS, is opened once, and before a mechanism is tried.
OpensOnce ==
  First => /\ OneLeft("stream") /\ One(Pipe, Openings) /\ ~(Left("stream") /\ Has(Pipe, Openings))
           /\ "proceedtls" \in conn.handlers => ~Left("stream") /\ ~Has(Pipe, Openings)
Ready ==
  /\ "proceedtls" \notin conn.handlers
  /\ First => ~Left("stream") /\ ~Has(Pipe, Openings)
TriesReady ==
  /\ Tried \/ "features" \in conn.handlers => Ready
  /\ conn.handlers \cap SaslHandlers # {} \/ Asked({"response"}) => Tried

\* TLS is asked for once.
SecuredOnce ==
  /\ OneAsked("starttls")
  /\ Has(Pipe, TlsReply) => Asked({"starttls"}) /\ ~Left("starttls")
  /\ "proceedtls" \in conn.handlers => Asked({"starttls"})
  /\ (\E call \in calls : call.handler = "proceedtls") => ~Left("starttls")
  /\ Left("starttls") => "proceedtls" \in conn.handlers
  /\ server.fresh /\ server.answered > 0 => server.secured \/ server.authenticated

\* An offer of TLS that would be taken is that of the first features, before a mechanism.
Offered == Has(Pipe, TlsOffers) \/ \E call \in calls : call.item \in TlsOffers
OfferedFirst ==
  Offered => /\ ~Tried /\ ~Asked({"starttls"}) /\ conn.sasl_support = {} /\ ~server.fresh
             /\ One(Pipe, Features)
             /\ Has(Pipe, Features) => \A call \in calls : call.item \notin Features

\* The one acceptance of the client by the server leads to one success: of the legacy
\* login, or, by way of one opening tag, one wait for features, one bind and one session,
\* of the login with a mechanism.
Succeeds == Has(Pipe, Successes) \/ \E call \in calls : call.item \in Successes
Bare     == "features_sasl" \notin conn.handlers /\ conn.id_handlers \subseteq {"legacy"}
Once ==
  /\ ~server.authenticated => First /\ ~Succeeds /\ ~Has(Pipe, {Result}) /\ conn.events = <<>>
  /\ First => Bare
  /\ Succeeds \/ ~First => Tried /\ ~Has(Pipe, {Result})
  /\ Succeeds /\ First => conn.events = <<>>
  /\ One(Pipe, {Result}) /\ (Has(Pipe, {Result}) => conn.events = <<>>)
OnceBound ==
  ~First =>
    /\ One(Pipe, Openings)
    /\ Has(Pipe, Openings) => ~server.fresh
    /\ Has(Pipe, Openings) \/ server.fresh => Bare /\ conn.events = <<>>
    /\ "features_sasl" \in conn.handlers => conn.id_handlers \subseteq {"legacy"} /\ conn.events = <<>>
    /\ ~({"bind", "session"} \subseteq conn.id_handlers)
    /\ conn.id_handlers \subseteq {"legacy"} \/ conn.events = <<>>

Going ==
  /\ conn.events \in {<<>>, <<"CONNECT">>}
  /\ Start /\ CallsMatch /\ OpensOnce /\ TriesReady /\ SecuredOnce /\ OfferedFirst /\ Once /\ OnceBound

\* The end was told, and a success before it or never.
EndTold(s) ==
  /\ \A i \in DOMAIN s : s[i] = "CONNECT" => i = 1
  /\ \E i \in DOMAIN s : s[i] = "DISCONNECT"

\* How often what was read can still close the connection once it is closed.
RestOfRead == Len(buffer) + (IF malformed THEN 1 ELSE 0)

\* What the messenger was told, before and after the end.
Told ==
  /\ conn.state # "DISCONNECTED" => Going
  /\ conn.state = "DISCONNECTED" =>
       /\ calls = {} /\ buffer \in {<<>>, <<Item("end")>>}
       /\ EndTold(conn.events) /\ Len(conn.events) + RestOfRead <= 3

\* What is parsed leaves no more behind it.
LEMMA HasTail ==
  ASSUME NEW p \in Seq(Items), p # <<>>
  PROVE  /\ Head(p) \in Items /\ Tail(p) \in Seq(Items)
         /\ \A S : Head(p) \in S => Has(p, S)
         /\ \A S : Has(Tail(p), S) => Has(p, S)
         /\ \A S : One(p, S) => One(Tail(p), S)
         /\ \A S : One(p, S) /\ Head(p) \in S => ~Has(Tail(p), S)
         /\ Ended(p) => Ended(Tail(p))
         /\ Ended(p) /\ Head(p) \in Enders => Tail(p) = <<>>
<1> HIDE DEF Items
<1> DEFINE t == Tail(p)
<1>1. /\ Len(p) \in Nat /\ Len(p) >= 1 /\ DOMAIN p = 1 .. Len(p) /\ p[1] = Head(p) /\ Head(p) \in Items
  OBVIOUS
<1>2. /\ t \in Seq(Items) /\ Len(t) = Len(p) - 1 /\ DOMAIN t = 1 .. Len(t)
      /\ \A i \in DOMAIN t : i + 1 \in DOMAIN p /\ t[i] = p[i + 1]
  OBVIOUS
<1> HIDE DEF t
<1>3. \A S : Has(t, S) => Has(p, S)
  BY <1>2 DEF Has
<1>4. \A S : One(p, S) => One(t, S)
  BY <1>2 DEF One
<1>5. \A S : Head(p) \in S => Has(p, S)
  BY <1>1 DEF Has
<1>6. ASSUME NEW S, One(p, S), Head(p) \in S PROVE ~Has(t, S)
  <2>1. \A i \in DOMAIN t : i + 1 # 1
    BY <1>2
  <2> QED
    BY <1>1, <1>2, <1>6, <2>1 DEF Has, One
<1>7. ASSUME Ended(p) PROVE Ended(t)
  BY <1>1, <1>2, <1>7 DEF Ended
<1>8. ASSUME Ended(p), Head(p) \in Enders PROVE t = <<>>
  <2>1. Len(p) = 1
    BY <1>1, <1>8 DEF Ended
  <2> QED
    BY <1>2, <2>1
<1> QED
  BY <1>1, <1>2, <1>3, <1>4, <1>5, <1>6, <1>7, <1>8 DEF t

\* What is answered comes after what is on its way.
LEMMA HasJoin ==
  ASSUME NEW p \in Seq(Items), NEW q \in Seq(Items)
  PROVE  /\ \A S : Has(p \o q, S) => Has(p, S) \/ Has(q, S)
         /\ \A S : One(p, S) /\ One(q, S) /\ ~(Has(p, S) /\ Has(q, S)) => One(p \o q, S)
         /\ ~Has(p, Enders) /\ Ended(q) => Ended(p \o q)
<1> HIDE DEF Items
<1> DEFINE u == p \o q
<1>1. /\ Len(p) \in Nat /\ Len(q) \in Nat /\ Len(u) = Len(p) + Len(q) /\ DOMAIN u = 1 .. Len(u)
      /\ DOMAIN p = 1 .. Len(p) /\ DOMAIN q = 1 .. Len(q)
  OBVIOUS
<1>2. ASSUME NEW i \in DOMAIN u
      PROVE  \/ i \in DOMAIN p /\ u[i] = p[i]
             \/ i - Len(p) \in DOMAIN q /\ u[i] = q[i - Len(p)] /\ i \notin DOMAIN p
  BY <1>1, <1>2
<1> HIDE DEF u
<1>3. \A S : Has(u, S) => Has(p, S) \/ Has(q, S)
  BY <1>2 DEF Has
<1>4. ASSUME NEW S, One(p, S), One(q, S), ~(Has(p, S) /\ Has(q, S)) PROVE One(u, S)
  <2> SUFFICES ASSUME NEW i \in DOMAIN u, NEW j \in DOMAIN u, u[i] \in S, u[j] \in S PROVE i = j
    BY DEF One
  <2>1. i \in Nat /\ j \in Nat /\ Len(p) \in Nat
    BY <1>1
  <2>2. CASE i \in DOMAIN p /\ u[i] = p[i]
    <3>1. j \in DOMAIN p /\ u[j] = p[j]
      BY <1>2, <1>4, <2>2 DEF Has
    <3> QED
      BY <1>4, <2>2, <3>1 DEF One
  <2>3. CASE i - Len(p) \in DOMAIN q /\ u[i] = q[i - Len(p)]
    <3>1. j - Len(p) \in DOMAIN q /\ u[j] = q[j - Len(p)]
      BY <1>2, <1>4, <2>3 DEF Has
    <3>2. i - Len(p) = j - Len(p)
      BY <1>4, <2>3, <3>1 DEF One
    <3> QED
      BY <2>1, <3>2
  <2> QED
    BY <1>2, <2>2, <2>3
<1>5. ASSUME ~Has(p, Enders), Ended(q) PROVE Ended(u)
  <2> SUFFICES ASSUME NEW i \in DOMAIN u, u[i] \in Enders PROVE i = Len(u)
    BY DEF Ended
  <2>1. i - Len(p) \in DOMAIN q /\ u[i] = q[i - Len(p)]
    BY <1>2, <1>5 DEF Has
  <2>2. i - Len(p) = Len(q)
    BY <1>5, <2>1 DEF Ended
  <2> QED
    BY <1>1, <2>2
<1> QED
  BY <1>3, <1>4, <1>5 DEF u

\* Answers are of one item, two or three.
LEMMA HasOne ==
  ASSUME NEW x
  PROVE  /\ \A S : Has(<<x>>, S) <=> x \in S
         /\ \A S : One(<<x>>, S)
         /\ Ended(<<x>>)
<1>1. <<x>> \in Seq({x}) /\ Len(<<x>>) = 1
  OBVIOUS
<1>2. DOMAIN <<x>> = 1 .. 1 /\ \A i \in DOMAIN <<x>> : <<x>>[i] = x
  BY <1>1, ElementOfSeq
<1>3. \A i \in 1 .. 1 : i = 1
  OBVIOUS
<1>4. 1 \in 1 .. 1
  OBVIOUS
<1>5. \A S : Has(<<x>>, S) <=> x \in S
  BY <1>2, <1>4 DEF Has
<1>6. \A S : One(<<x>>, S)
  BY <1>2, <1>3 DEF One
<1>7. Ended(<<x>>)
  BY <1>1, <1>2, <1>3 DEF Ended
<1> QED
  BY <1>5, <1>6, <1>7

\* A sequence of two has what either of them is.
LEMMA HasTwo ==
  ASSUME NEW x, NEW y
  PROVE  /\ \A S : Has(<<x, y>>, S) <=> x \in S \/ y \in S
         /\ \A S : ~(x \in S /\ y \in S) => One(<<x, y>>, S)
         /\ x \notin Enders => Ended(<<x, y>>)
<1>1. <<x, y>> \in Seq({x, y}) /\ Len(<<x, y>>) = 2
  OBVIOUS
<1>2. DOMAIN <<x, y>> = 1 .. 2
  BY <1>1, LenProperties
<1>3. <<x, y>>[1] = x /\ <<x, y>>[2] = y
  OBVIOUS
<1>4. \A i \in 1 .. 2 : i = 1 \/ i = 2
  OBVIOUS
<1>5. 1 \in 1 .. 2 /\ 2 \in 1 .. 2
  OBVIOUS
<1>6. \A S : Has(<<x, y>>, S) <=> x \in S \/ y \in S
  BY <1>2, <1>3, <1>4, <1>5 DEF Has
<1>7. \A S : ~(x \in S /\ y \in S) => One(<<x, y>>, S)
  BY <1>2, <1>3, <1>4 DEF One
<1>8. x \notin Enders => Ended(<<x, y>>)
  BY <1>1, <1>2, <1>3, <1>4 DEF Ended
<1> QED
  BY <1>6, <1>7, <1>8

\* What a request more changes.
Sends(r) ==
  /\ \A x : Left(x)' => Left(x) \/ x = r
  /\ \A x : OneLeft(x) /\ (x = r => ~Left(x)) => OneLeft(x)'
  /\ \A R : Asked(R) => Asked(R)'
  /\ \A R : Asked(R)' => Asked(R) \/ r \in R
  /\ \A x : OneAsked(x) /\ (x = r => ~Asked({x})) => OneAsked(x)'
  /\ server.answered <= Len(conn.sent) => (server.answered <= Len(conn.sent))'

\* A request is sent, or none.
LEMMA SentOne ==
  ASSUME TypeOK, server' = server, NEW r, conn'.sent = conn.sent \/ conn'.sent = Append(conn.sent, r)
  PROVE  Sends(r) /\ (conn'.sent = Append(conn.sent, r) => \A R : r \in R => Asked(R)')
<1>1. conn.sent \in Seq(Requests) /\ server.answered \in Nat /\ Len(conn.sent) \in Nat /\ DOMAIN conn.sent = 1 .. Len(conn.sent)
  BY PickRequest
<1>2. CASE conn'.sent = conn.sent
  <2>1. Sends(r)
    BY <1>2 DEF Sends, Left, OneLeft, Asked, OneAsked
  <2>2. conn'.sent # Append(conn.sent, r)
    <3>1. Len(Append(conn.sent, r)) = Len(conn.sent) + 1
      BY <1>1
    <3> QED
      BY <1>1, <1>2, <3>1
  <2> QED
    BY <2>1, <2>2
<1>3. CASE conn'.sent = Append(conn.sent, r)
  <2> DEFINE m == Len(conn'.sent)
  <2>1. /\ m = Len(conn.sent) + 1 /\ conn'.sent[m] = r /\ DOMAIN conn'.sent = 1 .. m
        /\ \A i \in DOMAIN conn'.sent : \/ i \in DOMAIN conn.sent /\ conn'.sent[i] = conn.sent[i] /\ i # m
                                        \/ i = m /\ conn'.sent[i] = r
        /\ \A i \in DOMAIN conn.sent : i \in DOMAIN conn'.sent /\ conn'.sent[i] = conn.sent[i]
    BY <1>1, <1>3, Added
  <2>2. \A i \in server.answered + 1 .. m : /\ i \in DOMAIN conn'.sent
                                            /\ i \in DOMAIN conn.sent => i \in server.answered + 1 .. Len(conn.sent)
    BY <1>1, <2>1
  <2> HIDE DEF m
  <2>3. \A x : Left(x)' => Left(x) \/ x = r
    BY <2>1, <2>2 DEF Left, m
  <2>4. \A x : OneLeft(x) /\ (x = r => ~Left(x)) => OneLeft(x)'
    <3> SUFFICES ASSUME NEW x, OneLeft(x), x = r => ~Left(x),
                        NEW i \in server.answered + 1 .. m, NEW j \in server.answered + 1 .. m,
                        conn'.sent[i] = x, conn'.sent[j] = x
                 PROVE  i = j
      BY DEF OneLeft, m
    <3>1. CASE x = r
      BY <2>1, <2>2, <3>1 DEF Left
    <3>2. CASE x # r
      BY <2>1, <2>2, <3>2 DEF OneLeft
    <3> QED
      BY <3>1, <3>2
  <2>5. \A R : (Asked(R) => Asked(R)') /\ (Asked(R)' => Asked(R) \/ r \in R)
    BY <2>1 DEF Asked
  <2>6. \A x : OneAsked(x) /\ (x = r => ~Asked({x})) => OneAsked(x)'
    <3> SUFFICES ASSUME NEW x, OneAsked(x), x = r => ~Asked({x}),
                        NEW i \in DOMAIN conn'.sent, NEW j \in DOMAIN conn'.sent,
                        conn'.sent[i] = x, conn'.sent[j] = x
                 PROVE  i = j
      BY DEF OneAsked
    <3>1. CASE x = r
      BY <2>1, <3>1 DEF Asked
    <3>2. CASE x # r
      BY <2>1, <3>2 DEF OneAsked
    <3> QED
      BY <3>1, <3>2
  <2>7. server.answered <= Len(conn.sent) => server.answered <= m
    BY <1>1, <2>1
  <2>8. \A R : r \in R => Asked(R)'
    BY <1>1, <2>1 DEF Asked, m
  <2> QED
    BY <2>3, <2>4, <2>5, <2>6, <2>7, <2>8 DEF Sends, m
<1> QED
  BY <1>2, <1>3

\* What an answer to r changes.
Answers1(r) ==
  /\ \A x : Left(x)' => Left(x)
  /\ \A x : OneLeft(x) => OneLeft(x)'
  /\ \A x : (Asked(x)' <=> Asked(x)) /\ (OneAsked(x)' <=> OneAsked(x))
  /\ OneLeft(r) \/ OneAsked(r) => ~Left(r)'
  /\ Left(r) /\ Asked({r}) /\ (server.answered <= Len(conn.sent))'

\* The first of the requests that are left is answered.
LEMMA AnsweredOne ==
  ASSUME TypeOK, server.answered < Len(conn.sent), server'.answered = server.answered + 1, conn' = conn,
         NEW r, r = conn.sent[server.answered + 1]
  PROVE  Answers1(r)
<1> DEFINE n == server.answered
           m == Len(conn.sent)
<1>1. n \in Nat /\ m \in Nat /\ DOMAIN conn.sent = 1 .. m
  BY PickRequest
<1>2. /\ n + 1 \in n + 1 .. m /\ n + 1 \in DOMAIN conn.sent /\ n + 1 <= m
      /\ \A i \in (n + 1) + 1 .. m : i \in n + 1 .. m /\ i # n + 1
      /\ \A i \in n + 1 .. m : i \in DOMAIN conn.sent
  BY <1>1
<1> HIDE DEF n, m
<1>3. \A x : Left(x)' <=> \E i \in (n + 1) + 1 .. m : conn.sent[i] = x
  BY DEF Left, n, m
<1>4. \A x : OneLeft(x)' <=> \A i, j \in (n + 1) + 1 .. m : conn.sent[i] = x /\ conn.sent[j] = x => i = j
  BY DEF OneLeft, n, m
<1>5. \A x : (Left(x)' => Left(x)) /\ (OneLeft(x) => OneLeft(x)')
  BY <1>2, <1>3, <1>4 DEF Left, OneLeft, n, m
<1>6. \A x : (Asked(x)' <=> Asked(x)) /\ (OneAsked(x)' <=> OneAsked(x))
  BY DEF Asked, OneAsked
<1>7. conn.sent[n + 1] = r
  BY DEF n
<1>8. OneLeft(r) => ~Left(r)'
  BY <1>2, <1>3, <1>7 DEF OneLeft, n, m
<1>9. OneAsked(r) => ~Left(r)'
  BY <1>2, <1>3, <1>7 DEF OneAsked
<1>10. Left(r) /\ Asked({r})
  BY <1>2, <1>7 DEF Left, Asked, n, m
<1>11. (server.answered <= Len(conn.sent))'
  BY <1>2 DEF n, m
<1> QED
  BY <1>5, <1>6, <1>8, <1>9, <1>10, <1>11 DEF Answers1

\* What the server may answer r with, item by item.
Suits(r, x) ==
  /\ x \in BadOpenings => r = "stream" /\ server.answered = 0
  /\ x \in Openings => r = "stream" /\ server.fresh
  /\ x \in Features => r = "stream" /\ server.fresh
  /\ x \in TlsOffers => ~server.secured /\ ~server.authenticated
  /\ x \in TlsReply => r = "starttls"
  /\ x \in Successes => r \in Mechanisms \cup {"response"} /\ ~server.authenticated
  /\ x = Result => r = "legacy" /\ ~server.authenticated

\* Its answer as a whole.
Reply(r, q) ==
  /\ q \in Seq(Items) /\ q # <<>>
  /\ \A S : Has(q, S) => \E x \in S : x \in Items /\ Suits(r, x)
  /\ Ended(q) /\ One(q, Openings) /\ One(q, Features) /\ One(q, {Result})
  /\ Has(q, BadOpenings) => q \in {<<Item("bad header")>>, <<Item("bad header"), Item("end")>>}
  /\ Has(q, GoAheads) => q = <<Item("proceed")>>
  /\ Has(q, Successes) => q = <<Item("success")>>
  /\ Has(q, {Result}) => q = <<Result>>

\* An item is known by its kind.
LEMMA Kinds ==
  /\ \A k \in {"header", "bad header", "error", "end"} \cup TlsItems \cup SaslItems :
       Item(k) \in Items /\ Item(k).kind = k /\ Item(k) # Result /\ Item(k) \notin Features
       /\ \A x \in Of(k) : x = Item(k)
  /\ \A f \in Features : f \in Items /\ f.kind = "features" /\ f # Result
  /\ \A s \in Steps : \A x \in Of(s) : x \in Replies
  /\ \A x \in Replies : x \in Items /\ x.kind \in Steps /\ x.type \in {"result", "error"} /\ x \notin Features
  /\ Result \in Replies /\ Result.kind = "legacy" /\ Result.type = "result"
  /\ \A x \in Replies : x.kind = "legacy" /\ x.type = "result" => x = Result
  /\ Of("features") = Features
<1>1. \A k \in {"header", "bad header", "error", "end"} \cup TlsItems \cup SaslItems :
        /\ Item(k) \in Plain /\ Item(k).kind = k /\ k # "features" /\ k \notin Steps
        /\ \A x \in Plain : x.kind = k => x = Item(k)
  <2> DEFINE K == {"header", "bad header", "error", "end"} \cup TlsItems \cup SaslItems
  <2>1. \A k \in K : k # "features" /\ k \notin Steps
    BY DEF TlsItems, SaslItems, Steps
  <2> HIDE DEF K
  <2>2. Plain = [kind : K]
    BY DEF Plain, K
  <2>3. \A k \in K : Item(k) \in Plain /\ Item(k).kind = k
    BY <2>2 DEF Item
  <2>4. \A k \in K : \A x \in Plain : x.kind = k => x = Item(k)
    BY <2>2 DEF Item
  <2> QED
    BY <2>1, <2>3, <2>4 DEF K
<1>2. \A f \in Features : f.kind = "features" /\ f.kind \notin Steps
  BY DEF Features, Steps
<1>3. /\ \A x \in Replies : x.kind \in Steps /\ x.type \in {"result", "error"}
      /\ \A x \in Replies : x.kind = "legacy" /\ x.type = "result" => x = Result
      /\ Result \in Replies /\ Result.kind = "legacy" /\ Result.type = "result"
      /\ "legacy" \in Steps /\ "features" \notin Steps
  BY DEF Replies, Result, Steps
<1>4. \A x \in Plain : x.kind \notin Steps \cup {"features"}
  BY DEF Plain, TlsItems, SaslItems, Steps
<1>5. \A x : x \in Items <=> x \in Features \/ x \in Replies \/ x \in Plain
  BY DEF Items
<1> HIDE DEF Items, Features, Replies, Plain, Item, Result, Steps
<1>6. \A k \in {"header", "bad header", "error", "end"} \cup TlsItems \cup SaslItems :
        Item(k) \in Items /\ Item(k).kind = k /\ Item(k) # Result /\ Item(k) \notin Features
        /\ \A x \in Of(k) : x = Item(k)
  <2> SUFFICES ASSUME NEW k \in {"header", "bad header", "error", "end"} \cup TlsItems \cup SaslItems
               PROVE  Item(k) \in Items /\ Item(k).kind = k /\ Item(k) # Result /\ Item(k) \notin Features
                      /\ \A x \in Of(k) : x = Item(k)
    BY Zenon
  <2>1. Item(k) \in Plain /\ Item(k).kind = k /\ k # "features" /\ k \notin Steps
    BY <1>1, Zenon
  <2>2. Item(k) # Result /\ Item(k) \notin Features /\ Item(k) \in Items
    BY <1>2, <1>3, <1>5, <2>1, Zenon
  <2>3. ASSUME NEW x \in Of(k) PROVE x = Item(k)
    <3>1. x \in Items /\ x.kind = k
      BY <2>3, Zenon DEF Of
    <3>2. x \in Plain
      BY <1>2, <1>3, <1>5, <2>1, <3>1, Zenon
    <3> QED
      BY <1>1, <3>1, <3>2, Zenon
  <2> QED
    BY <2>1, <2>2, <2>3, Zenon
<1>7. \A f \in Features : f \in Items /\ f.kind = "features" /\ f # Result
  BY <1>2, <1>3, <1>5, Zenon
<1>8. \A s \in Steps : \A x \in Of(s) : x \in Replies
  <2> SUFFICES ASSUME NEW s \in Steps, NEW x \in Of(s) PROVE x \in Replies
    BY Zenon
  <2>1. x \in Items /\ x.kind \in Steps
    BY Zenon DEF Of
  <2> QED
    BY <1>2, <1>4, <1>5, <2>1, Zenon
<1>9. \A x \in Replies : x \in Items /\ x \notin Features
  BY <1>2, <1>3, <1>5, Zenon
<1>10. Of("features") = Features
  <2>1. \A x \in Of("features") : x \in Features
    <3> SUFFICES ASSUME NEW x \in Of("features") PROVE x \in Features
      BY Zenon
    <3>1. x \in Items /\ x.kind = "features"
      BY Zenon DEF Of
    <3> QED
      BY <1>3, <1>4, <1>5, <3>1, Zenon
  <2>2. \A x \in Features : x \in Of("features")
    BY <1>7, Zenon DEF Of
  <2> QED
    BY <2>1, <2>2
<1> QED
  BY <1>3, <1>6, <1>7, <1>8, <1>9, <1>10, Zenon

\* Items that suit a request.
LEMMA KindSuits ==
  ASSUME NEW k \in {"header", "bad header", "error", "end"} \cup TlsItems \cup SaslItems, NEW r,
         k = "bad header" => r = "stream" /\ server.answered = 0,
         k = "header" => r = "stream" /\ server.fresh,
         k \in TlsItems => r = "starttls",
         k = "success" => r \in Mechanisms \cup {"response"} /\ ~server.authenticated
  PROVE  Item(k) \in Items /\ Suits(r, Item(k))
<1>1. Item(k) \in Items /\ Item(k).kind = k /\ Item(k) # Result /\ Item(k) \notin Features
  BY Kinds, Zenon
<1>2. \A j : Item(k) \in Of(j) => j = k
  BY <1>1, Zenon DEF Of
<1>3. Item(k) \notin TlsOffers
  BY <1>1, Zenon DEF TlsOffers
<1>4. Item(k) \in TlsReply => k \in TlsItems
  BY <1>2 DEF TlsReply, TlsItems, GoAheads
<1> HIDE DEF Item, Items, Result, Of, Features
<1>5. Item(k) \in Openings => k = "header"
  BY <1>2 DEF Openings, BadOpenings, Successes, GoAheads
<1> QED
  BY <1>1, <1>2, <1>3, <1>4, <1>5 DEF Suits, BadOpenings, Successes, GoAheads

\* Features the server may announce suit a stream it opens afresh.
LEMMA FeaturesSuit ==
  ASSUME NEW f \in Features, server.fresh, f.tls => ~server.secured /\ ~server.authenticated
  PROVE  f \in Items /\ Suits("stream", f)
<1>1. f \in Items /\ f.kind = "features" /\ f # Result
  BY Kinds, Zenon
<1>2. \A j : f \in Of(j) => j = "features"
  BY <1>1, Zenon DEF Of
<1>3. f \in TlsOffers => f.tls
  BY DEF TlsOffers
<1> HIDE DEF Result, Of, Features, Items
<1>4. f \notin TlsReply /\ f \notin Openings
  BY <1>2 DEF TlsReply, Openings, BadOpenings, Successes, GoAheads
<1> QED
  BY <1>1, <1>2, <1>3, <1>4 DEF Suits, BadOpenings, Successes, GoAheads

\* A reply suits its request; the server accepts the legacy login only once.
LEMMA StepSuits ==
  ASSUME NEW s \in Steps, NEW x \in Replies, x.kind = s,
         ~(s = "legacy" /\ server.authenticated /\ x.type = "result")
  PROVE  x \in Items /\ Suits(s, x)
<1>1. x \in Items /\ x \notin Features /\ s \notin {"header", "bad header", "features", "success", "proceed", "tls failure"}
  BY Kinds DEF Steps
<1>2. \A j : x \in Of(j) => j = s
  BY Zenon DEF Of
<1>3. x = Result => x.kind = "legacy" /\ x.type = "result"
  BY Kinds, Zenon
<1>4. x \notin TlsOffers
  BY <1>1, Zenon DEF TlsOffers
<1> HIDE DEF Result, Of, Features, Items, Replies, Steps
<1>5. x \notin TlsReply /\ x \notin Openings /\ x \notin BadOpenings /\ x \notin Successes
  BY <1>1, <1>2 DEF TlsReply, Openings, BadOpenings, Successes, GoAheads
<1> QED
  BY <1>1, <1>3, <1>4, <1>5 DEF Suits, BadOpenings, Successes, GoAheads

\* An answer of one item,
LEMMA ReplyOne ==
  ASSUME NEW r, NEW x \in Items, Suits(r, x)
  PROVE  Reply(r, <<x>>)
<1> DEFINE q == <<x>>
<1>1. q \in Seq(Items) /\ q # <<>>
  OBVIOUS
<1>2. /\ \A S : Has(q, S) <=> x \in S
      /\ \A S : One(q, S)
      /\ Ended(q)
  BY HasOne, Zenon
<1>3. \A k \in {"bad header", "proceed", "success"} : x \in Of(k) => x = Item(k)
  BY Kinds DEF TlsItems, SaslItems
<1>4. x \in {Result} => q = <<Result>>
  OBVIOUS
<1>5. \A k \in {"bad header", "proceed", "success"} : x \in Of(k) => q = <<Item(k)>>
  BY <1>3
<1> HIDE DEF Items, q, Of, Item, Result, Features, Openings
<1>6. /\ x \in BadOpenings => q \in {<<Item("bad header")>>, <<Item("bad header"), Item("end")>>}
      /\ x \in GoAheads => q = <<Item("proceed")>>
      /\ x \in Successes => q = <<Item("success")>>
  BY <1>5 DEF BadOpenings, Successes, GoAheads
<1>7. \A S : Has(q, S) => \E y \in S : y \in Items /\ Suits(r, y)
  BY <1>2, Zenon
<1> QED
  BY <1>1, <1>2, <1>4, <1>6, <1>7 DEF Reply, q

\* Sequences of items.
LEMMA ItemPair ==
  ASSUME NEW a \in Items, NEW b \in Items
  PROVE  <<a, b>> \in Seq(Items) /\ <<a, b>> # <<>>
OBVIOUS

\* An item and what comes after it.
LEMMA ItemThen ==
  ASSUME NEW a \in Items, NEW rest \in Seq(Items)
  PROVE  <<a>> \in Seq(Items) /\ <<a>> \o rest \in Seq(Items) /\ <<a>> \o rest # <<>>
<1> HIDE DEF Items
<1>1. <<a>> \in Seq(Items) /\ Len(<<a>>) = 1
  OBVIOUS
<1>2. <<a>> \o rest \in Seq(Items) /\ Len(<<a>> \o rest) = 1 + Len(rest) /\ Len(rest) \in Nat
  BY <1>1
<1> QED
  BY <1>1, <1>2

\* one that is followed by the end,
LEMMA ReplyEnd ==
  ASSUME NEW r, NEW k \in {"bad header", "error", "tls failure"},
         k = "bad header" => r = "stream" /\ server.answered = 0, k = "tls failure" => r = "starttls"
  PROVE  Reply(r, <<Item(k), Item("end")>>)
<1> DEFINE e == Item("end")
           x == Item(k)
           q == <<x, e>>
<1>1. k \in {"header", "bad header", "error", "end"} \cup TlsItems \cup SaslItems
  BY DEF TlsItems
<1>2. x \in Items /\ x.kind = k /\ x # Result /\ x \notin Features /\ Suits(r, x)
  BY <1>1, KindSuits, Kinds DEF SaslItems, TlsItems
<1>3. e \in Items /\ e.kind = "end" /\ e # Result /\ e \notin Features /\ Suits(r, e)
  BY KindSuits, Kinds DEF SaslItems, TlsItems
<1>4. q \in Seq(Items) /\ q # <<>>
  BY <1>2, <1>3, ItemPair, Zenon
<1>5. x \notin Enders
  BY <1>2 DEF Enders, Of
<1> HIDE DEF x, e
<1>6. /\ \A S : Has(q, S) <=> x \in S \/ e \in S
      /\ \A S : ~(x \in S /\ e \in S) => One(q, S)
      /\ Ended(q)
  BY <1>5, HasTwo, Zenon
<1>7. /\ e \notin Openings /\ e \notin Features /\ e \notin {Result} /\ e \notin BadOpenings
      /\ e \notin GoAheads /\ e \notin Successes
  BY <1>3 DEF Openings, Of, BadOpenings, Successes, GoAheads
<1>8. x \notin GoAheads /\ x \notin Successes /\ x \notin {Result} /\ x \notin Features
  BY <1>2 DEF Of, Successes, GoAheads
<1>9. x \in BadOpenings => q = <<Item("bad header"), Item("end")>>
  <2>1. x \in BadOpenings => k = "bad header"
    BY <1>2, Zenon DEF Of, BadOpenings
  <2> QED
    BY <2>1 DEF x, e
<1> HIDE DEF Items, Of, Item, Result, Features, Openings, q, Enders
<1>10. \A S : Has(q, S) => \E y \in S : y \in Items /\ Suits(r, y)
  BY <1>2, <1>3, <1>6, Zenon
<1>11. One(q, Openings) /\ One(q, Features) /\ One(q, {Result})
  BY <1>6, <1>7
<1>12. Has(q, BadOpenings) => q \in {<<Item("bad header")>>, <<Item("bad header"), Item("end")>>}
  BY <1>6, <1>7, <1>9
<1>13. ~Has(q, GoAheads) /\ ~Has(q, Successes) /\ ~Has(q, {Result})
  BY <1>6, <1>7, <1>8
<1>14. Reply(r, q)
  BY <1>4, <1>6, <1>10, <1>11, <1>12, <1>13 DEF Reply
<1> QED
  BY <1>14 DEF q, x, e

\* and one that follows an opening tag.
LEMMA ReplyOpened ==
  ASSUME NEW r, Suits(r, Item("header")), NEW p, Reply(r, p), ~Has(p, Openings), ~Has(p, BadOpenings),
         ~Has(p, GoAheads), ~Has(p, Successes), ~Has(p, {Result})
  PROVE  Reply(r, <<Item("header")>> \o p)
<1> DEFINE h == Item("header")
           q == <<h>> \o p
<1>1. h \in Items /\ h.kind = "header" /\ h # Result /\ h \notin Features
  BY Kinds, Zenon
<1>2. <<h>> \in Seq(Items) /\ p \in Seq(Items) /\ q \in Seq(Items) /\ q # <<>>
  <2>1. p \in Seq(Items)
    BY Zenon DEF Reply
  <2> QED
    BY <1>1, <2>1, ItemThen, Zenon
<1>3. q \in Seq(Items) /\ q # <<>>
  BY <1>2
<1>4. /\ \A j : h \in Of(j) => j = "header"
      /\ h \notin Enders
  BY <1>1 DEF Of, Enders
<1> HIDE DEF h
<1>5. (\A S : Has(<<h>>, S) <=> h \in S) /\ \A S : One(<<h>>, S)
  BY HasOne, Zenon
<1>6. /\ \A S : Has(q, S) => h \in S \/ Has(p, S)
      /\ \A S : One(p, S) /\ ~(h \in S /\ Has(p, S)) => One(q, S)
      /\ Ended(p) => Ended(q)
  <2>1. /\ \A S : Has(q, S) => Has(<<h>>, S) \/ Has(p, S)
        /\ \A S : One(<<h>>, S) /\ One(p, S) /\ ~(Has(<<h>>, S) /\ Has(p, S)) => One(q, S)
        /\ ~Has(<<h>>, Enders) /\ Ended(p) => Ended(q)
    BY <1>2, HasJoin, Zenon
  <2> QED
    BY <1>4, <1>5, <2>1, Zenon
<1> HIDE DEF Items, Of, Item, Result, Features, Openings, q, Enders
<1>7. h \notin BadOpenings /\ h \notin GoAheads /\ h \notin Successes /\ h \notin {Result}
  BY <1>1, <1>4 DEF BadOpenings, Successes, GoAheads
<1>8. Suits(r, h) /\ h \in Items
  BY <1>1 DEF h
<1>9. \A S : Has(q, S) => \E y \in S : y \in Items /\ Suits(r, y)
  BY <1>6, <1>8, Zenon DEF Reply
<1>10. One(q, Openings) /\ One(q, Features) /\ One(q, {Result}) /\ Ended(q)
  BY <1>1, <1>6 DEF Reply
<1>11. ~Has(q, BadOpenings) /\ ~Has(q, GoAheads) /\ ~Has(q, Successes) /\ ~Has(q, {Result})
  BY <1>6, <1>7
<1>12. Reply(r, q)
  BY <1>3, <1>9, <1>10, <1>11 DEF Reply
<1> QED
  BY <1>12 DEF q, h

\* Whatever the server answers is such an answer.
LEMMA ServerReplies ==
  ASSUME LoginInv, NEW r \in Requests, NEW q \in Answers(r)
  PROVE  Reply(r, q)
<1> DEFINE K == {"header", "bad header", "error", "end"} \cup TlsItems \cup SaslItems
<1>1. /\ "end" \in K /\ "header" \in K /\ "bad header" \in K /\ "error" \in K
      /\ "proceed" \in K /\ \A k \in SaslItems : k \in K
      /\ "end" \notin {"header", "bad header", "success"} \cup TlsItems
  BY DEF TlsItems, SaslItems
<1> HIDE DEF K
<1> DEFINE Fine(k) == /\ k \in K
                      /\ k = "bad header" => r = "stream" /\ server.answered = 0
                      /\ k = "header" => r = "stream" /\ server.fresh
                      /\ k \in TlsItems => r = "starttls"
                      /\ k = "success" => r \in Mechanisms \cup {"response"} /\ ~server.authenticated
<1>2. ASSUME NEW k, Fine(k) PROVE Item(k) \in Items /\ Suits(r, Item(k)) /\ Reply(r, <<Item(k)>>)
  <2>1. Item(k) \in Items /\ Suits(r, Item(k))
    BY <1>2, KindSuits, Zenon DEF K
  <2> QED
    BY <2>1, ReplyOne, Zenon
<1> HIDE DEF Fine
<1>3. Fine("end")
  BY <1>1 DEF Fine
<1>5. CASE r = "stream" /\ server.fresh
  <2>1. Answers(r) =
          {<<Item("header")>> \o rest : rest \in AfterHeader} \cup
          {<<Item("bad header")>> \o rest : rest \in IF server.answered = 0 THEN {<<>>, <<Item("end")>>} ELSE {}}
    BY <1>5 DEF Answers, Mechanisms, Steps
  <2>2. CASE \E rest \in AfterHeader : q = <<Item("header")>> \o rest
    <3>1. PICK rest \in AfterHeader : q = <<Item("header")>> \o rest
      BY <2>2
    <3>2. Fine("header")
      BY <1>1, <1>5 DEF Fine, TlsItems
    <3>3. Reply(r, <<Item("header")>>) /\ Suits(r, Item("header"))
      BY <1>2, <3>2, Zenon
    <3>4. CASE rest = <<>>
      <4>1. q = <<Item("header")>>
        BY <3>1, <3>4, Followed, Zenon
      <4> QED
        BY <3>3, <4>1
    <3>5. CASE rest = <<Item("error"), Item("end")>>
      <4>1. Reply(r, rest)
        BY <3>5, ReplyEnd, Zenon
      <4>2. /\ ~Has(rest, Openings) /\ ~Has(rest, BadOpenings) /\ ~Has(rest, GoAheads)
            /\ ~Has(rest, Successes) /\ ~Has(rest, {Result})
        <5>1. \A S : Has(rest, S) <=> Item("error") \in S \/ Item("end") \in S
          BY <3>5, HasTwo, Zenon
        <5>2. \A k \in {"error", "end"} : Item(k).kind = k /\ Item(k) # Result
          BY Kinds
        <5>3. \A k \in {"error", "end"} : \A j : Item(k) \in Of(j) => j = k
          BY <5>2 DEF Of
        <5> HIDE DEF Item, Result, Of
        <5> QED
          BY <5>1, <5>2, <5>3 DEF Openings, BadOpenings, Successes, GoAheads
      <4> QED
        BY <3>1, <3>3, <4>1, <4>2, ReplyOpened, Zenon
    <3>6. CASE \E f \in Features : rest = <<f>> /\ (f.tls => ~server.secured /\ ~server.authenticated)
      <4>1. PICK f \in Features : rest = <<f>> /\ (f.tls => ~server.secured /\ ~server.authenticated)
        BY <3>6
      <4>2. f \in Items /\ Suits("stream", f) /\ f.kind = "features" /\ f # Result
        BY <1>5, <4>1, FeaturesSuit, Kinds, Zenon
      <4>3. Reply(r, rest)
        BY <1>5, <4>1, <4>2, ReplyOne, Zenon
      <4>4. \A S : Has(rest, S) <=> f \in S
        BY <4>1, HasOne, Zenon
      <4>5. \A j : f \in Of(j) => j = "features"
        BY <4>2, Zenon DEF Of
      <4> HIDE DEF Items, Features, Result, Of
      <4>6. /\ ~Has(rest, Openings) /\ ~Has(rest, BadOpenings) /\ ~Has(rest, GoAheads)
            /\ ~Has(rest, Successes) /\ ~Has(rest, {Result})
        BY <4>2, <4>4, <4>5 DEF Openings, BadOpenings, Successes, GoAheads
      <4> QED
        BY <3>1, <3>3, <4>3, <4>6, ReplyOpened, Zenon
    <3>7. rest \in {<<>>, <<Item("error"), Item("end")>>}
          \/ \E f \in Features : rest = <<f>> /\ (f.tls => ~server.secured /\ ~server.authenticated)
      BY <3>1 DEF AfterHeader
    <3> QED
      BY <3>4, <3>5, <3>6, <3>7
  <2>3. CASE \E rest \in {<<>>, <<Item("end")>>} : q = <<Item("bad header")>> \o rest /\ server.answered = 0
    <3>1. q = <<Item("bad header")>> \/ q = <<Item("bad header"), Item("end")>>
      BY <2>3, Followed
    <3>2. Fine("bad header")
      BY <1>1, <1>5, <2>3 DEF Fine, TlsItems
    <3>3. Reply(r, <<Item("bad header")>>)
      BY <1>2, <3>2, Zenon
    <3>4. Reply(r, <<Item("bad header"), Item("end")>>)
      BY <1>5, <2>3, ReplyEnd
    <3> QED
      BY <3>1, <3>3, <3>4
  <2> QED
    BY <1>5, <2>1, <2>2, <2>3
<1>6. CASE r = "stream" /\ ~server.fresh
  <2>1. Answers(r) = {<<Item("error"), Item("end")>>}
    BY <1>6 DEF Answers, Mechanisms, Steps
  <2>2. Reply(r, <<Item("error"), Item("end")>>)
    BY ReplyEnd, Zenon
  <2> QED
    BY <1>6, <2>1, <2>2
<1>7. CASE r = "starttls"
  <2>1. Answers(r) = {<<Item("proceed")>>, <<Item("tls failure"), Item("end")>>}
    BY <1>7 DEF Answers, Mechanisms, Steps
  <2>2. Fine("proceed")
    BY <1>1, <1>7 DEF Fine
  <2>3. Reply(r, <<Item("proceed")>>)
    BY <1>2, <2>2, Zenon
  <2>4. Reply(r, <<Item("tls failure"), Item("end")>>)
    BY <1>7, ReplyEnd
  <2> QED
    BY <1>7, <2>1, <2>3, <2>4
<1>8. CASE r \in Mechanisms \cup {"response"}
  <2>1. Answers(r) = {<<Item(k)>> : k \in {"failure"} \cup Accepts \cup Challenges}
    BY <1>8 DEF Answers, Mechanisms, Steps
  <2>2. PICK k \in {"failure"} \cup Accepts \cup Challenges : q = <<Item(k)>>
    BY <1>8, <2>1
  <2>3. k \in SaslItems /\ (k = "success" => ~server.authenticated)
    BY <2>2 DEF Accepts, Challenges, SaslItems
  <2>4. Fine(k)
    BY <1>1, <1>8, <2>3 DEF Fine, SaslItems, TlsItems
  <2> QED
    BY <1>2, <2>2, <2>4, Zenon
<1>9. CASE r \in Steps
  <2>1. Answers(r) = {<<x>> : x \in {y \in Replies : y.kind = r
                                      /\ ~(r = "legacy" /\ server.authenticated /\ y.type = "result")}}
    BY <1>9 DEF Answers, Mechanisms, Steps
  <2>2. PICK x \in Replies : /\ q = <<x>> /\ x.kind = r
                             /\ ~(r = "legacy" /\ server.authenticated /\ x.type = "result")
    BY <1>9, <2>1
  <2>3. x \in Items /\ Suits(r, x)
    BY <1>9, <2>2, StepSuits, Zenon
  <2> QED
    BY <2>2, <2>3, ReplyOne, Zenon
<1>10. CASE r = "close"
  <2>1. Answers(r) = {<<Item("end")>>}
    BY <1>10 DEF Answers, Mechanisms, Steps
  <2> QED
    BY <1>2, <1>3, <1>10, <2>1, Zenon
<1> QED
  BY <1>5, <1>6, <1>7, <1>8, <1>9, <1>10 DEF Requests

\* The answer of the server to r is q.
Replied(r, q) ==
  /\ conn.state = "CONNECTED" /\ ~server.done /\ server.answered < Len(conn.sent)
  /\ Reply(r, q) /\ r = conn.sent[server.answered + 1]
  /\ conn' = conn /\ calls' = calls /\ buffer' = buffer /\ tls_new' = tls_new
  /\ Pipe \in Seq(Items) /\ Pipe' = Pipe \o q
  /\ server'.answered = server.answered + 1
  /\ server'.fresh => Has(q, GoAheads) \/ Has(q, Successes)
  /\ server.secured \/ Has(q, GoAheads) => server'.secured
  /\ server.authenticated \/ Has(q, Successes) \/ Has(q, {Result}) => server'.authenticated
  /\ Has(q, Enders) => server'.done

\* An answer is a reply to the first request that is left.
LEMMA AnswerReplied ==
  ASSUME LoginInv, Answer
  PROVE  \E r, q : Replied(r, q)
<1> DEFINE r == conn.sent[server.answered + 1]
<1>1. PICK q \in Answers(r) :
        /\ toClient' = toClient \o q
        /\ server' = [answered      |-> server.answered + 1,
                      fresh         |-> q[1] \in Renewal,
                      secured       |-> server.secured \/ q = <<Item("proceed")>>,
                      authenticated |-> server.authenticated \/ q[1] \in Acceptance,
                      done          |-> q[Len(q)].kind = "end"]
  BY DEF Answer
<1>2. /\ server'.answered = server.answered + 1
      /\ server'.fresh = (q[1] \in Renewal)
      /\ server'.secured = (server.secured \/ q = <<Item("proceed")>>)
      /\ server'.authenticated = (server.authenticated \/ q[1] \in Acceptance)
      /\ server'.done = (q[Len(q)].kind = "end")
  BY <1>1
<1>3. r \in Requests
  <2>1. conn.sent \in Seq(Requests) /\ server.answered \in Nat /\ Len(conn.sent) \in Nat
    BY PickRequest DEF LoginInv
  <2>2. server.answered + 1 \in 1 .. Len(conn.sent)
    BY <2>1 DEF Answer
  <2> QED
    BY <2>1, <2>2
<1> HIDE DEF r
<1>4. Reply(r, q)
  BY <1>3, ServerReplies, Zenon
<1>5. buffer \in Seq(Items) /\ toClient \in Seq(Items) /\ q \in Seq(Items) /\ q # <<>>
  <2>1. q \in Seq(Items) /\ q # <<>>
    BY <1>4, Zenon DEF Reply
  <2> QED
    BY <2>1 DEF LoginInv, TypeOK
<1>6. buffer' = buffer /\ conn' = conn /\ calls' = calls /\ tls_new' = tls_new
  BY DEF Answer
<1> HIDE DEF Items
<1>7. Pipe \in Seq(Items) /\ Pipe' = Pipe \o q
  <2>1. (buffer \o toClient) \o q = buffer \o (toClient \o q)
    BY <1>5, ConcatAssociative
  <2>2. Pipe' = buffer \o (toClient \o q)
    BY <1>1, <1>6 DEF Pipe
  <2>3. Pipe \in Seq(Items)
    BY <1>5, ConcatProperties DEF Pipe
  <2> QED
    BY <2>1, <2>2, <2>3 DEF Pipe
<1>8. 1 \in DOMAIN q /\ Len(q) \in DOMAIN q /\ \A i \in DOMAIN q : q[i] \in Items
  BY <1>5
<1>9. q[1] \in Renewal => Has(q, GoAheads) \/ Has(q, Successes)
  <2>1. \A k \in {"proceed", "success"} : Item(k) \in Of(k)
    BY Kinds DEF TlsItems, SaslItems, Of
  <2>2. q[1] \in Renewal => q[1] = Item("proceed") \/ q[1] = Item("success")
    BY DEF Renewal
  <2> HIDE DEF Item, Of, Renewal
  <2> QED
    BY <1>8, <2>1, <2>2 DEF Has, Successes, GoAheads
<1>10. Has(q, GoAheads) => q = <<Item("proceed")>>
  BY <1>4, Zenon DEF Reply
<1>11. Has(q, Successes) \/ Has(q, {Result}) => q[1] \in Acceptance
  <2>1. \A x : <<x>>[1] = x
    OBVIOUS
  <2>2. Item("success") \in Acceptance /\ Result \in Acceptance
    BY DEF Acceptance, Result
  <2>3. Has(q, Successes) => q = <<Item("success")>>
    BY <1>4, Zenon DEF Reply
  <2>4. Has(q, {Result}) => q = <<Result>>
    BY <1>4, Zenon DEF Reply
  <2> HIDE DEF Item, Result, Acceptance
  <2> QED
    BY <2>1, <2>2, <2>3, <2>4
<1>12. Has(q, Enders) => q[Len(q)].kind = "end"
  <2>1. Ended(q)
    BY <1>4, Zenon DEF Reply
  <2>2. \A x \in Enders : x.kind = "end"
    BY DEF Enders, Of
  <2> HIDE DEF Enders
  <2> QED
    BY <2>1, <2>2 DEF Has, Ended
<1>13. conn.state = "CONNECTED" /\ ~server.done /\ server.answered < Len(conn.sent)
  BY DEF Answer
<1> HIDE DEF Item, Result, Of, Enders
<1>14. Replied(r, q)
  BY <1>2, <1>4, <1>6, <1>7, <1>9, <1>10, <1>11, <1>12, <1>13 DEF Replied, r
<1> QED
  BY <1>14

\* Going is kept by the answers of the server.
LEMMA AnswerGoing ==
  ASSUME LoginInv, Going, Answer
  PROVE  Going'
<1>1. PICK r, q : Replied(r, q)
  BY AnswerReplied
<1>2. TypeOK
  BY DEF LoginInv
<1>3. Answers1(r)
  BY <1>1, <1>2, AnsweredOne DEF Replied
<1>4. /\ \A S : Has(Pipe', S) => Has(Pipe, S) \/ Has(q, S)
      /\ \A S : One(Pipe, S) /\ One(q, S) /\ ~(Has(Pipe, S) /\ Has(q, S)) => One(Pipe', S)
      /\ ~Has(Pipe, Enders) /\ Ended(q) => Ended(Pipe')
  <2>1. Pipe \in Seq(Items) /\ q \in Seq(Items) /\ Pipe' = Pipe \o q
    BY <1>1 DEF Replied, Reply
  <2> DEFINE u == Pipe \o q
  <2>2. /\ \A S : Has(u, S) => Has(Pipe, S) \/ Has(q, S)
        /\ \A S : One(Pipe, S) /\ One(q, S) /\ ~(Has(Pipe, S) /\ Has(q, S)) => One(u, S)
        /\ ~Has(Pipe, Enders) /\ Ended(q) => Ended(u)
    BY <2>1, HasJoin
  <2> QED
    BY <2>1, <2>2
<1>5. /\ Has(q, BadOpenings) => r = "stream" /\ server.answered = 0
      /\ Has(q, Openings) => r = "stream" /\ server.fresh
      /\ Has(q, Features) => r = "stream" /\ server.fresh
      /\ Has(q, TlsOffers) => r = "stream" /\ server.fresh /\ ~server.secured /\ ~server.authenticated
      /\ Has(q, TlsReply) => r = "starttls"
      /\ Has(q, Successes) => r \in Mechanisms \cup {"response"} /\ ~server.authenticated
      /\ Has(q, {Result}) => r = "legacy" /\ ~server.authenticated
      /\ Has(q, GoAheads) => r = "starttls"
  <2>1. \A S : Has(q, S) => \E x \in S : x \in Items /\ Suits(r, x)
    BY <1>1, Zenon DEF Replied, Reply
  <2>2. TlsOffers \subseteq Features /\ GoAheads \subseteq TlsReply
    BY DEF TlsOffers, TlsReply
  <2>3. Has(q, {Result}) => Suits(r, Result)
    BY <2>1
  <2> QED
    BY <2>1, <2>2, <2>3 DEF Suits
<1>6. conn' = conn /\ calls' = calls /\ tls_new' = tls_new /\ ~server.done /\ conn.state = "CONNECTED"
      /\ server.answered \in Nat /\ server'.answered = server.answered + 1 /\ server.answered < Len(conn.sent)
      /\ Len(conn.sent) \in Nat
  BY <1>1, <1>2, PickRequest DEF Replied
<1>7. /\ server'.fresh => (Has(q, GoAheads) /\ server'.secured) \/ Has(q, Successes)
      /\ server.secured => server'.secured
      /\ server.authenticated \/ Has(q, Successes) \/ Has(q, {Result}) => server'.authenticated
      /\ Has(q, Enders) => server'.done
  BY <1>1 DEF Replied
<1>8. /\ Ended(q) /\ One(q, Openings) /\ One(q, Features) /\ One(q, {Result})
      /\ Has(q, BadOpenings) => q \in {<<Item("bad header")>>, <<Item("bad header"), Item("end")>>}
  BY <1>1 DEF Replied, Reply
<1>9. ~Has(Pipe, Enders)
  BY <1>6 DEF Going, Start
<1>10. (Tried' <=> Tried) /\ (First' <=> First) /\ (Asked({"response"}) => Tried)
       /\ (\A x : (Asked(x)' <=> Asked(x))) /\ (r \in Mechanisms \cup {"response"} => Tried)
       /\ (r = "starttls" => Asked({"starttls"}))
  <2>1. \A x : (Asked(x)' <=> Asked(x))
    BY <1>3 DEF Answers1
  <2>2. Tried' <=> Tried
    BY <2>1 DEF Tried
  <2>3. Asked({"response"}) => Tried
    BY DEF Going, TriesReady
  <2>4. Asked({r})
    BY <1>3 DEF Answers1
  <2>5. r \in Mechanisms => Tried
    BY <2>4 DEF Tried, Asked
  <2>6. First' <=> First
    BY <1>6 DEF First
  <2>7. (r = "response" => Asked({"response"})) /\ (r = "starttls" => Asked({"starttls"}))
    BY <2>4
  <2> QED
    BY <2>1, <2>2, <2>3, <2>5, <2>6, <2>7
<1>11. (server.answered = 0 => Pipe = <<>> /\ Waited({}, {}) /\ calls = {} /\ conn.sent = <<"stream">>
                               /\ conn.sasl_support = {} /\ First /\ conn.events = <<>> /\ ~server.authenticated)
  <2>1. conn.sent # <<>>
    BY <1>6
  <2> QED
    BY <2>1 DEF Going, Start
<1>12. (Left("starttls") => "proceedtls" \in conn.handlers) /\ ("proceedtls" \in conn.handlers => ~Tried)
  BY DEF Going, SecuredOnce, TriesReady, Ready
<1>13. (r = "starttls" => ~Tried) /\ (r = "starttls" => Left("starttls"))
  BY <1>3, <1>12 DEF Answers1
<1>14. Start'
  <2>1. (server.answered <= Len(conn.sent))' /\ server'.answered # 0
    BY <1>3, <1>6 DEF Answers1
  <2>2. conn'.state # "CONNECTING"
    BY <1>6
  <2>3. Has(Pipe, BadOpenings) => server.answered = Len(conn.sent)
    BY DEF Going, Start
  <2>4. ~Has(Pipe, BadOpenings)
    <3>1. server.answered # Len(conn.sent)
      BY <1>6
    <3> QED
      BY <2>3, <3>1, Zenon
  <2>5. Has(Pipe', BadOpenings) =>
          /\ Pipe' \in {<<Item("bad header")>>, <<Item("bad header"), Item("end")>>}
          /\ server'.answered = Len(conn'.sent) /\ conn'.events = <<>>
          /\ Waited({}, {})' /\ calls' = {}
    <3> SUFFICES ASSUME Has(Pipe', BadOpenings)
                 PROVE  /\ Pipe' \in {<<Item("bad header")>>, <<Item("bad header"), Item("end")>>}
                        /\ server'.answered = Len(conn'.sent) /\ conn'.events = <<>>
                        /\ Waited({}, {})' /\ calls' = {}
      OBVIOUS
    <3>1. Has(q, BadOpenings)
      BY <1>4, <2>4
    <3>2. server.answered = 0 /\ q \in {<<Item("bad header")>>, <<Item("bad header"), Item("end")>>}
      BY <1>5, <1>8, <3>1
    <3>3. Pipe = <<>> /\ Waited({}, {}) /\ calls = {} /\ conn.sent = <<"stream">> /\ conn.events = <<>>
      BY <1>11, <3>2
    <3>4. Pipe' = q
      <4>1. q \in Seq(Items) /\ Pipe' = Pipe \o q
        BY <1>1 DEF Replied, Reply
      <4>2. <<>> \o q = q
        BY <4>1, ConcatEmptySeq
      <4> QED
        BY <3>3, <4>1, <4>2, Zenon
    <3>5. server'.answered = Len(conn.sent)
      <4>1. Len(<<"stream">>) = 1
        OBVIOUS
      <4>2. server'.answered = 1
        <5>1. server.answered = 0
          BY <3>2, Zenon
        <5>2. server'.answered = server.answered + 1
          BY <1>6, Zenon
        <5>3. 0 + 1 = 1
          OBVIOUS
        <5> QED
          BY <5>1, <5>2, <5>3, Zenon
      <4> QED
        BY <3>3, <4>1, <4>2, Zenon
    <3>6. Pipe' \in {<<Item("bad header")>>, <<Item("bad header"), Item("end")>>}
      BY <3>2, <3>4, Zenon
    <3> QED
      BY <1>6, <3>3, <3>5, <3>6, Zenon DEF Waited
  <2>6. Ended(Pipe')
    BY <1>4, <1>8, <1>9
  <2>7. Has(Pipe', Enders) => server'.done
    BY <1>4, <1>7, <1>9
  <2>8. (server.answered = 0 =>
           /\ Waited({}, {}) /\ calls = {} /\ Pipe = <<>> /\ conn.sent \in {<<>>, <<"stream">>}
           /\ conn.sasl_support = {} /\ First /\ conn.events = <<>> /\ ~server.authenticated)'
    BY <2>1
  <2>9. (conn.state = "CONNECTING" => server.answered = 0 /\ conn.sent = <<>>)'
    BY <2>2
  <2>10. (Has(Pipe, BadOpenings) =>
            /\ Pipe \in {<<Item("bad header")>>, <<Item("bad header"), Item("end")>>}
            /\ server.answered = Len(conn.sent) /\ conn.events = <<>>
            /\ Waited({}, {}) /\ calls = {})'
    BY <2>5, Zenon
  <2>11. Ended(Pipe)' /\ (Has(Pipe, Enders) => server.done)'
    BY <2>6, <2>7
  <2> QED
    BY <2>1, <2>8, <2>9, <2>10, <2>11, Zenon DEF Start
<1>15. CallsMatch'
  BY <1>6 DEF Going, CallsMatch, Waiting
<1>16. OpensOnce' /\ TriesReady'
  <2>1. Left("stream")' => Left("stream")
    BY <1>3 DEF Answers1
  <2>2. OneLeft("stream") => OneLeft("stream")'
    BY <1>3 DEF Answers1
  <2>3. Has(q, Openings) /\ OneLeft("stream") => Left("stream") /\ ~Left("stream")'
    BY <1>3, <1>5 DEF Answers1
  <2>4. OpensOnce'
    BY <1>4, <1>6, <1>8, <1>10, <2>1, <2>2, <2>3 DEF Going, OpensOnce
  <2>5. Ready => Ready'
    <3>1. Has(q, Openings) => Left("stream")
      BY <1>3, <1>5 DEF Answers1
    <3> QED
      BY <1>4, <1>6, <1>10, <2>1, <3>1 DEF Ready
  <2>6. TriesReady'
    BY <1>6, <1>10, <2>5 DEF Going, TriesReady
  <2> QED
    BY <2>4, <2>6
<1>17. SecuredOnce'
  <2>1. Left("starttls")' => Left("starttls")
    BY <1>3 DEF Answers1
  <2>2. OneAsked("starttls")' <=> OneAsked("starttls")
    BY <1>3 DEF Answers1
  <2>3. OneAsked("starttls") /\ r = "starttls" => ~Left("starttls")'
    BY <1>3 DEF Answers1
  <2>4. server'.fresh => server'.secured \/ server'.authenticated
    BY <1>7
  <2> QED
    BY <1>4, <1>5, <1>6, <1>10, <2>1, <2>2, <2>3, <2>4 DEF Going, SecuredOnce
<1>18. OfferedFirst'
  <2> SUFFICES ASSUME Offered'
               PROVE  /\ ~Tried /\ ~Asked({"starttls"}) /\ conn.sasl_support = {} /\ ~server'.fresh
                      /\ One(Pipe', Features)
                      /\ Has(Pipe', Features) => \A call \in calls : call.item \notin Features
    BY <1>6, <1>10 DEF OfferedFirst
  <2>1. CASE Has(q, TlsOffers)
    <3>1. server.fresh /\ ~server.secured /\ ~server.authenticated /\ r = "stream"
      BY <1>5, <2>1
    <3>2. server.answered = 0
      <4>1. server.fresh /\ server.answered > 0 => server.secured \/ server.authenticated
        BY DEF Going, SecuredOnce
      <4> QED
        BY <1>6, <3>1, <4>1
    <3>3. /\ Pipe = <<>> /\ calls = {} /\ conn.sent = <<"stream">> /\ conn.sasl_support = {}
      BY <1>11, <3>2
    <3>4. ~Tried /\ ~Asked({"starttls"})
      <4>1. \A i \in DOMAIN conn.sent : conn.sent[i] = "stream"
        BY <3>3, OneMember
      <4>2. "stream" \notin Mechanisms
        BY DEF Mechanisms
      <4> QED
        BY <4>1, <4>2 DEF Tried, Asked
    <3>5. ~server'.fresh
      BY <1>5, <1>7, <1>10, <3>1, <3>4
    <3>6. One(Pipe', Features)
      <4>1. ~Has(Pipe, Features) /\ One(Pipe, Features)
        <5>1. DOMAIN Pipe = {}
          BY <3>3
        <5> QED
          BY <5>1 DEF Has, One
      <4> QED
        BY <1>4, <1>8, <4>1
    <3> QED
      BY <3>3, <3>4, <3>5, <3>6
  <2>2. CASE ~Has(q, TlsOffers)
    <3>1. Offered
      BY <1>4, <1>6, <2>2 DEF Offered
    <3>2. /\ ~Tried /\ ~Asked({"starttls"}) /\ conn.sasl_support = {} /\ ~server.fresh
          /\ One(Pipe, Features)
          /\ Has(Pipe, Features) => \A call \in calls : call.item \notin Features
      BY <3>1 DEF Going, OfferedFirst
    <3>3. ~Has(q, Features)
      BY <1>5, <3>2
    <3>4. ~server'.fresh
      BY <1>5, <1>7, <1>10, <3>2
    <3> QED
      BY <1>4, <1>8, <3>2, <3>3, <3>4
  <2> QED
    BY <2>1, <2>2
<1>19. Once'
  <2>1. Succeeds' => Succeeds \/ Has(q, Successes)
    BY <1>4, <1>6 DEF Succeeds
  <2>2. Bare' <=> Bare
    BY <1>6 DEF Bare
  <2>3. /\ ~server.authenticated => First /\ ~Succeeds /\ ~Has(Pipe, {Result}) /\ conn.events = <<>>
        /\ First => Bare
        /\ Succeeds \/ ~First => Tried /\ ~Has(Pipe, {Result})
        /\ Succeeds /\ First => conn.events = <<>>
        /\ One(Pipe, {Result}) /\ (Has(Pipe, {Result}) => conn.events = <<>>)
    BY DEF Going, Once
  <2>4. Has(q, Successes) => ~Has(q, {Result})
    BY <1>5 DEF Mechanisms
  <2>5. Has(Pipe', {Result}) => Has(Pipe, {Result}) \/ Has(q, {Result})
    BY <1>4
  <2>6. ~server'.authenticated => ~Has(q, Successes) /\ ~Has(q, {Result}) /\ ~server.authenticated
    BY <1>7
  <2>7. Succeeds' \/ ~First => Tried /\ ~Has(Pipe', {Result})
    BY <1>5, <1>10, <2>1, <2>3, <2>4, <2>5
  <2>8. Succeeds' /\ First => conn.events = <<>>
    BY <1>5, <2>1, <2>3
  <2>9. One(Pipe', {Result}) /\ (Has(Pipe', {Result}) => conn.events = <<>>)
    BY <1>4, <1>5, <1>8, <2>3, <2>5
  <2>10. Result' = Result
    BY DEF Result
  <2> QED
    BY <1>6, <1>10, <2>1, <2>2, <2>3, <2>5, <2>6, <2>7, <2>8, <2>9, <2>10 DEF Once
<1>20. OnceBound'
  <2> SUFFICES ASSUME ~First PROVE OnceBound'
    BY <1>10 DEF OnceBound
  <2>1. server.authenticated /\ Tried
    BY DEF Going, Once
  <2>2. ~server'.fresh
    BY <1>5, <1>7, <1>13, <2>1
  <2>3. Bare' <=> Bare
    BY <1>6 DEF Bare
  <2>4. /\ One(Pipe, Openings)
        /\ Has(Pipe, Openings) => ~server.fresh
        /\ Has(Pipe, Openings) \/ server.fresh => Bare /\ conn.events = <<>>
        /\ "features_sasl" \in conn.handlers => conn.id_handlers \subseteq {"legacy"} /\ conn.events = <<>>
        /\ ~({"bind", "session"} \subseteq conn.id_handlers)
        /\ conn.id_handlers \subseteq {"legacy"} \/ conn.events = <<>>
    BY DEF Going, OnceBound
  <2>5. One(Pipe', Openings) /\ (Has(Pipe', Openings) => Bare /\ conn.events = <<>>)
    BY <1>4, <1>5, <1>8, <2>4
  <2> QED
    BY <1>6, <2>2, <2>3, <2>4, <2>5 DEF OnceBound
<1>21. conn'.events \in {<<>>, <<"CONNECT">>}
  BY <1>6 DEF Going
<1> QED
  BY <1>14, <1>15, <1>16, <1>17, <1>18, <1>19, <1>20, <1>21 DEF Going

\* What is on its way does not grow.
Fewer ==
  /\ \A S : Has(Pipe', S) => Has(Pipe, S)
  /\ \A S : One(Pipe, S) => One(Pipe', S)
  /\ Ended(Pipe')

\* A step of the client that neither opens a stream nor asks for TLS, to bind or for a
\* session, and tells nothing, keeps all of it.
LEMMA CalmGoing ==
  ASSUME TypeOK, Going, conn.state = "CONNECTED", conn'.state = "CONNECTED", server' = server, tls_new' = tls_new,
         Fewer, ~Has(Pipe', BadOpenings), server.answered # 0,
         conn'.open_handler = conn.open_handler, conn'.events = conn.events,
         NEW r, r \notin {"stream", "starttls"}, conn'.sent = conn.sent \/ conn'.sent = Append(conn.sent, r),
         r \in Mechanisms \cup {"response"} => Tried \/ "features" \in conn.handlers,
         conn'.handlers \subseteq conn.handlers \cup SaslHandlers,
         conn'.id_handlers \subseteq conn.id_handlers \cup {"legacy"},
         calls' \subseteq calls, \A call \in calls' : call.handler \in conn'.handlers,
         conn'.handlers \cap SaslHandlers # {} \/ Asked({"response"})' => Tried',
         Left("starttls") => "proceedtls" \in conn'.handlers,
         Offered' => ~Tried' /\ conn'.sasl_support = {}
  PROVE  Going'
<1>1. Sends(r)
  BY SentOne
<1>2. /\ \A x : Left(x)' => Left(x) \/ x = r
      /\ \A x : OneLeft(x) /\ (x = r => ~Left(x)) => OneLeft(x)'
      /\ \A R : Asked(R) => Asked(R)'
      /\ \A R : Asked(R)' => Asked(R) \/ r \in R
      /\ \A x : OneAsked(x) /\ (x = r => ~Asked({x})) => OneAsked(x)'
      /\ (server.answered <= Len(conn.sent) => (server.answered <= Len(conn.sent))')
  BY <1>1 DEF Sends
<1>3. /\ \A S : Has(Pipe', S) => Has(Pipe, S)
      /\ \A S : One(Pipe, S) => One(Pipe', S)
      /\ Ended(Pipe')
  BY DEF Fewer
<1>4. (Tried => Tried') /\ (Tried' => Tried \/ r \in Mechanisms) /\ (First' <=> First)
  BY <1>2 DEF Tried, First
<1>5. Offered' => Offered
  BY <1>3 DEF Offered
<1>6. /\ "features" \in conn'.handlers => "features" \in conn.handlers
      /\ "proceedtls" \in conn'.handlers => "proceedtls" \in conn.handlers
      /\ "features_sasl" \in conn'.handlers => "features_sasl" \in conn.handlers
  BY DEF SaslHandlers, Mechanisms
<1>7. Start'
  <2>1. (server.answered <= Len(conn.sent))'
    BY <1>2 DEF Going, Start
  <2>2. (Has(Pipe, Enders) => server.done)'
    BY <1>3 DEF Going, Start
  <2>3. (server.answered = 0 =>
           /\ Waited({}, {}) /\ calls = {} /\ Pipe = <<>> /\ conn.sent \in {<<>>, <<"stream">>}
           /\ conn.sasl_support = {} /\ First /\ conn.events = <<>> /\ ~server.authenticated)'
    BY Zenon
  <2>4. (conn.state = "CONNECTING" => server.answered = 0 /\ conn.sent = <<>>)'
    OBVIOUS
  <2>5. (Has(Pipe, BadOpenings) =>
           /\ Pipe \in {<<Item("bad header")>>, <<Item("bad header"), Item("end")>>}
           /\ server.answered = Len(conn.sent) /\ conn.events = <<>>
           /\ Waited({}, {}) /\ calls = {})'
    BY Zenon
  <2> QED
    BY <1>3, <2>1, <2>2, <2>3, <2>4, <2>5, Zenon DEF Start
<1>8. CallsMatch'
  <2>1. \A call, other \in calls : call.item = other.item /\ call.handler \in Waiting(conn, call.item)
    BY DEF Going, CallsMatch
  <2>2. ASSUME NEW call \in calls, NEW other \in calls, call \in calls', other \in calls'
        PROVE  call.item = other.item /\ call.handler \in Waiting(conn', call.item)
    BY <2>1, <2>2 DEF Waiting
  <2>3. ASSUME NEW call, call \in calls', NEW other, other \in calls'
        PROVE  call.item = other.item /\ call.handler \in Waiting(conn', call.item)
    <3>1. call \in calls /\ other \in calls
      BY <2>3
    <3> QED
      BY <2>2, <2>3, <3>1
  <2> QED
    BY <2>3 DEF CallsMatch, Waiting
<1>9. Left("stream")' => Left("stream")
  BY <1>2
<1>10. OpensOnce' /\ TriesReady'
  <2>1. OneLeft("stream") => OneLeft("stream")'
    BY <1>2
  <2>2. OpensOnce'
    BY <1>3, <1>4, <1>6, <1>9, <2>1 DEF Going, OpensOnce
  <2>3. Ready => Ready'
    BY <1>3, <1>4, <1>6, <1>9 DEF Ready
  <2>4. Asked({"response"}) => Tried
    BY DEF Going, TriesReady
  <2>5. Tried' \/ "features" \in conn'.handlers => Ready
    BY <1>4, <1>6 DEF Going, TriesReady
  <2> QED
    BY <2>2, <2>3, <2>5 DEF TriesReady
<1>11. SecuredOnce'
  <2>1. OneAsked("starttls")'
    BY <1>2 DEF Going, SecuredOnce
  <2>2. Left("starttls")' => Left("starttls")
    BY <1>2
  <2>3. Asked({"starttls"}) => Asked({"starttls"})'
    BY <1>2
  <2>4. (\E call \in calls' : call.handler = "proceedtls") => \E call \in calls : call.handler = "proceedtls"
    OBVIOUS
  <2> QED
    BY <1>3, <1>6, <2>1, <2>2, <2>3, <2>4 DEF Going, SecuredOnce
<1>12. OfferedFirst'
  <2> SUFFICES ASSUME Offered'
               PROVE  /\ ~Tried' /\ ~Asked({"starttls"})' /\ conn'.sasl_support = {} /\ ~server.fresh
                      /\ One(Pipe', Features)
                      /\ Has(Pipe', Features) => \A call \in calls' : call.item \notin Features
    BY DEF OfferedFirst
  <2>1. /\ ~Asked({"starttls"}) /\ ~server.fresh
        /\ One(Pipe, Features)
        /\ Has(Pipe, Features) => \A call \in calls : call.item \notin Features
    BY <1>5 DEF Going, OfferedFirst
  <2>2. ~Asked({"starttls"})'
    BY <1>2, <2>1
  <2> QED
    BY <1>3, <2>1, <2>2
<1>13. Once' /\ OnceBound'
  <2>1. Succeeds' => Succeeds
    BY <1>3 DEF Succeeds
  <2>2. Bare => Bare'
    BY <1>6 DEF Bare
  <2>3. Once'
    BY <1>3, <1>4, <2>1, <2>2 DEF Going, Once
  <2>4. conn.id_handlers \subseteq {"legacy"} => conn'.id_handlers \subseteq {"legacy"}
    OBVIOUS
  <2>5. ~({"bind", "session"} \subseteq conn.id_handlers) => ~({"bind", "session"} \subseteq conn'.id_handlers)
    OBVIOUS
  <2>6. OnceBound'
    BY <1>3, <1>4, <1>6, <2>2, <2>4, <2>5 DEF Going, OnceBound
  <2> QED
    BY <2>3, <2>6
<1>14. conn'.events \in {<<>>, <<"CONNECT">>}
  BY DEF Going
<1> QED
  BY <1>7, <1>8, <1>10, <1>11, <1>12, <1>13, <1>14 DEF Going

\* The next item of the pipe, other than an end, is gone through.
Goes(item) ==
  /\ conn.state = "CONNECTED" /\ server.answered # 0
  /\ item \in Items /\ item.kind \notin {"bad header", "end"}
  /\ server' = server /\ tls_new' = tls_new
  /\ Fewer /\ ~Has(Pipe', BadOpenings)
  /\ \A S : item \in S => Has(Pipe, S)
  /\ \A S : One(Pipe, S) /\ item \in S => ~Has(Pipe', S)

\* An item that does not end the connection is gone through.
LEMMA ParseGoes ==
  ASSUME LoginInv, Going, Parse, conn.state # "DISCONNECTED",
         NEW item, item = Head(Pipe), item.kind \notin {"bad header", "end"}
  PROVE  Goes(item)
<1>1. Pipe # <<>> /\ Parses(item, Tail(Pipe))
  BY ParseFirst
<1>2. Pipe \in Seq(Items)
  <2>1. buffer \in Seq(Items) /\ toClient \in Seq(Items)
    BY DEF LoginInv, TypeOK
  <2> HIDE DEF Items
  <2> QED
    BY <2>1, ConcatProperties DEF Pipe
<1>3. Pipe' = Tail(Pipe) /\ server' = server /\ item \in Items
  BY <1>1 DEF Parses
<1>4. /\ \A S : item \in S => Has(Pipe, S)
      /\ \A S : Has(Tail(Pipe), S) => Has(Pipe, S)
      /\ \A S : One(Pipe, S) => One(Tail(Pipe), S)
      /\ \A S : One(Pipe, S) /\ item \in S => ~Has(Tail(Pipe), S)
      /\ Ended(Pipe) => Ended(Tail(Pipe))
  BY <1>1, <1>2, HasTail
<1>5. ~Has(Pipe, BadOpenings)
  <2>1. Has(Pipe, BadOpenings) => Pipe \in {<<Item("bad header")>>, <<Item("bad header"), Item("end")>>}
    BY DEF Going, Start
  <2>2. Pipe \in {<<Item("bad header")>>, <<Item("bad header"), Item("end")>>} => Head(Pipe) = Item("bad header")
    BY Firsts
  <2>3. Item("bad header").kind = "bad header"
    BY DEF Item
  <2> QED
    BY <2>1, <2>2, <2>3
<1>6. server.answered # 0 /\ conn.state = "CONNECTED"
  <2>1. server.answered = 0 => Pipe = <<>>
    BY DEF Going, Start
  <2>2. conn.state = "CONNECTING" => server.answered = 0
    BY DEF Going, Start
  <2>3. conn.state \in {"CONNECTING", "CONNECTED", "DISCONNECTED"}
    BY DEF LoginInv, TypeOK, Connections
  <2> QED
    BY <1>1, <2>1, <2>2, <2>3
<1>7. Ended(Pipe)
  BY DEF Going, Start
<1>8. Fewer /\ ~Has(Pipe', BadOpenings) /\ \A S : One(Pipe, S) /\ item \in S => ~Has(Pipe', S)
  BY <1>3, <1>4, <1>5, <1>7 DEF Fewer
<1>9. tls_new' = tls_new
  BY DEF Parse, Outside
<1> QED
  BY <1>3, <1>4, <1>6, <1>8, <1>9 DEF Goes

\* What all those steps keep: the beginning, for one.
LEMMA StartKept ==
  ASSUME Going, server' = server, conn'.state = "CONNECTED", server.answered # 0,
         Fewer, ~Has(Pipe', BadOpenings), (server.answered <= Len(conn.sent))'
  PROVE  Start'
<1>1. (Has(Pipe, Enders) => server.done)'
  BY DEF Going, Start, Fewer
<1>2. (server.answered = 0 =>
         /\ Waited({}, {}) /\ calls = {} /\ Pipe = <<>> /\ conn.sent \in {<<>>, <<"stream">>}
         /\ conn.sasl_support = {} /\ First /\ conn.events = <<>> /\ ~server.authenticated)'
  BY Zenon
<1>3. (conn.state = "CONNECTING" => server.answered = 0 /\ conn.sent = <<>>)'
  OBVIOUS
<1>4. (Has(Pipe, BadOpenings) =>
         /\ Pipe \in {<<Item("bad header")>>, <<Item("bad header"), Item("end")>>}
         /\ server.answered = Len(conn.sent) /\ conn.events = <<>>
         /\ Waited({}, {}) /\ calls = {})'
  BY Zenon
<1>5. Ended(Pipe)'
  BY DEF Fewer
<1> QED
  BY <1>1, <1>2, <1>3, <1>4, <1>5, Zenon DEF Start

\* The opening tag is waited for no more, the features are.
LEMMA HeaderGoing ==
  ASSUME LoginInv, Going, NEW item, Goes(item), item.kind = "header",
         conn' = AwaitFeatures(conn), calls' = {}
  PROVE  Going'
<1>1. /\ conn'.handlers = conn.handlers \cup {Wait(conn)}
      /\ conn'.id_handlers = conn.id_handlers /\ SameSasl(conn, conn') /\ conn'.sent = conn.sent /\ Kept(conn, conn')
  BY SoundConn, AwaitFeaturesEffect DEF LoginInv
<1>2. /\ conn.state = "CONNECTED" /\ server.answered # 0 /\ server' = server /\ tls_new' = tls_new
      /\ Fewer /\ ~Has(Pipe', BadOpenings)
  BY DEF Goes
<1>3. Has(Pipe, Openings) /\ (One(Pipe, Openings) => ~Has(Pipe', Openings))
  <2>1. item \in Openings
    BY DEF Openings, Of, Goes
  <2> QED
    BY <2>1 DEF Goes
<1>4. Sends("close")
  BY <1>1, <1>2, SentOne DEF LoginInv
<1>5. /\ conn'.state = "CONNECTED" /\ conn'.open_handler = conn.open_handler /\ conn'.events = conn.events
      /\ conn'.sasl_support = conn.sasl_support
  BY <1>1, <1>2 DEF Kept, SameSasl
<1>6. /\ \A S : Has(Pipe', S) => Has(Pipe, S)
      /\ \A S : One(Pipe, S) => One(Pipe', S)
  BY <1>2 DEF Fewer
<1>7. /\ \A x : Left(x)' <=> Left(x)
      /\ \A x : OneLeft(x)' <=> OneLeft(x)
      /\ \A R : Asked(R)' <=> Asked(R)
      /\ \A x : OneAsked(x)' <=> OneAsked(x)
      /\ (Tried' <=> Tried) /\ (First' <=> First)
  BY <1>1, <1>2, <1>5 DEF Left, OneLeft, Asked, OneAsked, Tried, First
<1>8. (server.answered <= Len(conn.sent))'
  BY <1>1, <1>2 DEF Going, Start
<1>9. Start'
  BY <1>2, <1>5, <1>8, StartKept
<1>10. CallsMatch'
  BY DEF CallsMatch
<1>11. Wait(conn) = IF First THEN "features" ELSE "features_sasl"
  BY DEF Wait, First
<1>12. First => ~Left("stream") /\ "proceedtls" \notin conn.handlers /\ ~Has(Pipe', Openings)
  BY <1>3 DEF Going, OpensOnce
<1>13. ~First => Tried /\ "proceedtls" \notin conn.handlers /\ ~Has(Pipe', Openings) /\ ~server.fresh
                 /\ Bare /\ conn.events = <<>>
  <2>1. ~First => Tried
    BY DEF Going, Once
  <2>2. Tried => Ready
    BY DEF Going, TriesReady
  <2>3. ~First => ~Has(Pipe', Openings) /\ ~server.fresh /\ Bare /\ conn.events = <<>>
    BY <1>3 DEF Going, OnceBound
  <2> QED
    BY <2>1, <2>2, <2>3 DEF Ready
<1>14. OpensOnce' /\ TriesReady'
  <2>1. OpensOnce'
    BY <1>6, <1>7, <1>12 DEF Going, OpensOnce
  <2>2. "proceedtls" \notin conn'.handlers
    BY <1>1, <1>11, <1>12, <1>13
  <2>3. Ready'
    BY <1>7, <1>12, <2>2 DEF Ready
  <2>4. conn'.handlers \cap SaslHandlers = conn.handlers \cap SaslHandlers
    BY <1>1, <1>11 DEF SaslHandlers, Mechanisms
  <2>5. conn.handlers \cap SaslHandlers # {} \/ Asked({"response"}) => Tried
    BY DEF Going, TriesReady
  <2> QED
    BY <1>7, <2>1, <2>3, <2>4, <2>5 DEF TriesReady
<1>15. SecuredOnce'
  <2>1. "proceedtls" \in conn'.handlers <=> "proceedtls" \in conn.handlers
    BY <1>1, <1>11
  <2> QED
    BY <1>2, <1>6, <1>7, <2>1 DEF Going, SecuredOnce
<1>16. OfferedFirst'
  <2>1. Offered' => Offered
    BY <1>2, <1>6 DEF Offered
  <2> QED
    BY <1>2, <1>5, <1>6, <1>7, <2>1 DEF Going, OfferedFirst
<1>17. Once'
  <2>1. Succeeds' => Succeeds
    BY <1>6 DEF Succeeds
  <2>2. First /\ Bare => Bare'
    BY <1>1, <1>11 DEF Bare
  <2> QED
    BY <1>2, <1>5, <1>6, <1>7, <2>1, <2>2 DEF Going, Once
<1>18. OnceBound'
  <2> SUFFICES ASSUME ~First PROVE OnceBound'
    BY <1>7 DEF OnceBound
  <2>1. ~Has(Pipe', Openings) /\ ~server.fresh /\ conn.events = <<>> /\ conn.id_handlers \subseteq {"legacy"}
    BY <1>13 DEF Bare
  <2>2. ~({"bind", "session"} \subseteq conn.id_handlers) /\ One(Pipe, Openings)
    BY DEF Going, OnceBound
  <2> QED
    BY <1>1, <1>2, <1>5, <1>6, <1>7, <2>1, <2>2 DEF OnceBound
<1>19. conn'.events \in {<<>>, <<"CONNECT">>}
  BY <1>5 DEF Going
<1> QED
  BY <1>9, <1>10, <1>14, <1>15, <1>16, <1>17, <1>18, <1>19 DEF Going

\* Nothing is sent.
LEMMA NoneSent ==
  ASSUME server' = server, conn'.sent = conn.sent, conn'.open_handler = conn.open_handler
  PROVE  /\ \A x : Left(x)' <=> Left(x)
         /\ \A x : OneLeft(x)' <=> OneLeft(x)
         /\ \A R : Asked(R)' <=> Asked(R)
         /\ \A x : OneAsked(x)' <=> OneAsked(x)
         /\ (Tried' <=> Tried) /\ (First' <=> First)
BY DEF Left, OneLeft, Asked, OneAsked, Tried, First

\* A stanza is passed on to the handlers that wait for it.
LEMMA PlainGoing ==
  ASSUME LoginInv, Going, NEW item, Goes(item), conn' = conn, calls = {},
         calls' = {[handler |-> h, item |-> item] : h \in Waiting(conn, item)}
  PROVE  Going'
<1>1. /\ conn.state = "CONNECTED" /\ server.answered # 0 /\ server' = server /\ tls_new' = tls_new
      /\ Fewer /\ ~Has(Pipe', BadOpenings)
      /\ \A S : item \in S => Has(Pipe, S)
      /\ \A S : One(Pipe, S) /\ item \in S => ~Has(Pipe', S)
      /\ item \in Items
  BY DEF Goes
<1>2. /\ \A x : Left(x)' <=> Left(x)
      /\ \A x : OneLeft(x)' <=> OneLeft(x)
      /\ \A R : Asked(R)' <=> Asked(R)
      /\ \A x : OneAsked(x)' <=> OneAsked(x)
      /\ (Tried' <=> Tried) /\ (First' <=> First)
  BY <1>1, NoneSent
<1>3. /\ \A S : Has(Pipe', S) => Has(Pipe, S)
      /\ \A S : One(Pipe, S) => One(Pipe', S)
  BY <1>1 DEF Fewer
<1>4. Start'
  <2>1. (server.answered <= Len(conn.sent))'
    BY <1>1 DEF Going, Start
  <2> QED
    BY <1>1, <2>1, StartKept
<1>5. \A call \in calls' : call.item = item /\ call.handler \in Waiting(conn, item)
  OBVIOUS
<1>6. CallsMatch'
  <2>1. \A call, other \in calls' : call.item = other.item /\ call.handler \in Waiting(conn, call.item)
    BY <1>5
  <2> QED
    BY <2>1 DEF CallsMatch, Waiting
<1>7. OpensOnce' /\ TriesReady'
  <2>1. Ready => Ready'
    BY <1>2, <1>3 DEF Ready
  <2> QED
    BY <1>2, <1>3, <2>1 DEF Going, OpensOnce, TriesReady
<1>8. SecuredOnce'
  <2>1. ASSUME NEW call \in calls', call.handler = "proceedtls" PROVE ~Left("starttls")
    <3>1. item.kind \in TlsItems
      <4>1. "proceedtls" \in Waiting(conn, item)
        BY <1>5, <2>1
      <4>2. "proceedtls" \notin SaslHandlers
        BY DEF SaslHandlers, Mechanisms
      <4>3. "proceedtls" \in conn.handlers
        BY <4>1, Zenon DEF Waiting
      <4>4. item.kind # "features"
        <5> SUFFICES ASSUME item.kind = "features" PROVE FALSE
          OBVIOUS
        <5>1. item \in Features
          BY <1>1, Kinds DEF Of
        <5>2. item.tls # FALSE
          BY <4>1, WaitingOf
        <5>3. item \in TlsOffers
          BY <5>1, <5>2 DEF TlsOffers, Features
        <5>4. Offered
          BY <1>1, <5>3 DEF Offered
        <5> QED
          BY <4>3, <5>4 DEF Going, OfferedFirst, SecuredOnce
      <4> QED
        BY <4>1, <4>2, <4>4, WaitingOf
    <3>2. item \in TlsReply
      BY <1>1, <3>1 DEF TlsReply, GoAheads, Of, TlsItems
    <3> QED
      BY <1>1, <3>2 DEF Going, SecuredOnce
  <2> QED
    BY <1>1, <1>2, <1>3, <2>1 DEF Going, SecuredOnce
<1>9. OfferedFirst'
  <2> SUFFICES ASSUME Offered'
               PROVE  /\ ~Tried /\ ~Asked({"starttls"}) /\ conn.sasl_support = {} /\ ~server.fresh
                      /\ One(Pipe', Features)
                      /\ Has(Pipe', Features) => \A call \in calls' : call.item \notin Features
    BY <1>1, <1>2 DEF OfferedFirst
  <2>1. Offered
    BY <1>1, <1>3, <1>5 DEF Offered
  <2>2. /\ ~Tried /\ ~Asked({"starttls"}) /\ conn.sasl_support = {} /\ ~server.fresh /\ One(Pipe, Features)
    BY <2>1 DEF Going, OfferedFirst
  <2>3. Has(Pipe', Features) => item \notin Features
    BY <1>1, <2>2
  <2> QED
    BY <1>3, <1>5, <2>2, <2>3
<1>10. Once'
  <2>1. Succeeds' => Succeeds
    BY <1>1, <1>3, <1>5 DEF Succeeds
  <2> QED
    BY <1>1, <1>2, <1>3, <2>1 DEF Going, Once, Bare
<1>11. OnceBound'
  BY <1>1, <1>2, <1>3 DEF Going, OnceBound, Bare
<1>12. conn'.events \in {<<>>, <<"CONNECT">>}
  BY DEF Going
<1> QED
  BY <1>4, <1>6, <1>7, <1>8, <1>9, <1>10, <1>11, <1>12 DEF Going

\* A reply comes in: the connection is to be closed, or a session is asked for, or the
\* login has succeeded.
LEMMA ReplyGoing ==
  ASSUME LoginInv, Going, NEW item, Goes(item), item.kind \in conn.id_handlers,
         conn' = HandleReply(conn, item.kind, item.type), calls' = {}
  PROVE  Going'
<1> DEFINE step == item.kind
<1>1. step \in Steps /\ Sound(conn) /\ TypeOK
  BY SoundConn DEF LoginInv, TypeOK, Connections
<1>2. /\ conn'.handlers = conn.handlers /\ SameSasl(conn, conn')
      /\ conn'.state = conn.state /\ conn'.open_handler = conn.open_handler
      /\ \/ /\ conn'.id_handlers = conn.id_handlers \ {step} /\ Adds(conn, conn', "close")
            /\ conn'.events = conn.events
         \/ /\ conn'.id_handlers = (conn.id_handlers \ {step}) \cup {"session"} /\ Adds(conn, conn', "session")
            /\ conn'.events = conn.events /\ step = "bind"
         \/ /\ conn'.id_handlers = conn.id_handlers \ {step} /\ conn'.sent = conn.sent
            /\ conn'.events = Append(conn.events, "CONNECT") /\ item.type = "result"
  BY <1>1, ReplyEffect
<1> HIDE DEF step
<1>3. /\ conn.state = "CONNECTED" /\ server.answered # 0 /\ server' = server /\ tls_new' = tls_new
      /\ Fewer /\ ~Has(Pipe', BadOpenings)
      /\ \A S : item \in S => Has(Pipe, S)
      /\ \A S : One(Pipe, S) /\ item \in S => ~Has(Pipe', S)
      /\ item \in Items
  BY DEF Goes
<1>4. /\ \A S : Has(Pipe', S) => Has(Pipe, S)
      /\ \A S : One(Pipe, S) => One(Pipe', S)
  BY <1>3 DEF Fewer
<1>5. /\ conn'.state = "CONNECTED" /\ conn'.sasl_support = conn.sasl_support
  BY <1>2, <1>3 DEF SameSasl
<1>6. Offered' => Offered
  BY <1>3, <1>4 DEF Offered
<1>7. Succeeds' => Succeeds
  BY <1>4 DEF Succeeds
<1>8. CallsMatch'
  BY DEF CallsMatch
<1>9. /\ step # "legacy" => ~First
      /\ step # "legacy" => ~Bare
      /\ ~First => server.authenticated /\ Tried /\ ~Has(Pipe, {Result})
  BY <1>1 DEF Going, Once, Bare, step
<1>10. CASE conn'.id_handlers = conn.id_handlers \ {step} /\ Adds(conn, conn', "close") /\ conn'.events = conn.events
  <2>1. Offered' => ~Tried' /\ conn'.sasl_support = {}
    <3>1. Tried' => Tried
      <4>1. Sends("close")
        BY <1>1, <1>3, <1>10, SentOne DEF Adds
      <4> QED
        BY <4>1 DEF Sends, Tried, Mechanisms
    <3> QED
      BY <1>5, <1>6, <3>1 DEF Going, OfferedFirst
  <2>2. conn'.handlers \cap SaslHandlers # {} \/ Asked({"response"})' => Tried'
    <3>1. Sends("close")
      BY <1>1, <1>3, <1>10, SentOne DEF Adds
    <3>2. (Asked({"response"})' => Asked({"response"})) /\ (Tried => Tried')
      BY <3>1 DEF Sends, Tried
    <3> QED
      BY <1>2, <3>2 DEF Going, TriesReady
  <2>3. Left("starttls") => "proceedtls" \in conn'.handlers
    BY <1>2 DEF Going, SecuredOnce
  <2>4. conn'.sent = conn.sent \/ conn'.sent = Append(conn.sent, "close")
    BY <1>10 DEF Adds
  <2>5. "close" \notin {"stream", "starttls"} /\ "close" \notin Mechanisms \cup {"response"}
    BY DEF Mechanisms
  <2>6. conn'.handlers \subseteq conn.handlers \cup SaslHandlers /\ conn'.id_handlers \subseteq conn.id_handlers \cup {"legacy"}
    BY <1>2, <1>10
  <2>7. calls' \subseteq calls /\ \A call \in calls' : call.handler \in conn'.handlers
    OBVIOUS
  <2> QED
    BY <1>1, <1>2, <1>3, <1>5, <1>10, <2>1, <2>2, <2>3, <2>4, <2>5, <2>6, <2>7, CalmGoing
<1>11. CASE /\ conn'.id_handlers = (conn.id_handlers \ {step}) \cup {"session"} /\ Adds(conn, conn', "session")
            /\ conn'.events = conn.events /\ step = "bind"
  <2>1. Sends("session")
    BY <1>1, <1>3, <1>11, SentOne DEF Adds
  <2>2. /\ \A x : Left(x)' => Left(x) \/ x = "session"
        /\ \A x : OneLeft(x) /\ (x = "session" => ~Left(x)) => OneLeft(x)'
        /\ \A R : Asked(R) => Asked(R)'
        /\ \A R : Asked(R)' => Asked(R) \/ "session" \in R
        /\ \A x : OneAsked(x) /\ (x = "session" => ~Asked({x})) => OneAsked(x)'
        /\ (server.answered <= Len(conn.sent) => (server.answered <= Len(conn.sent))')
    BY <2>1 DEF Sends
  <2>3. "session" \notin Mechanisms
    BY DEF Mechanisms
  <2>4. (Tried' <=> Tried) /\ (First' <=> First) /\ ~First
    BY <1>2, <1>9, <1>11, <2>2, <2>3 DEF Tried, First
  <2>5. Start'
    <3>1. (server.answered <= Len(conn.sent))'
      BY <2>2 DEF Going, Start
    <3> QED
      BY <1>3, <1>5, <3>1, StartKept
  <2>6. OpensOnce' /\ TriesReady'
    <3>1. OpensOnce'
      BY <2>4 DEF OpensOnce
    <3>2. Ready => Ready'
      BY <1>2, <2>4 DEF Ready
    <3>3. Asked({"response"})' => Asked({"response"})
      BY <2>2
    <3> QED
      BY <1>2, <2>4, <3>1, <3>2, <3>3 DEF Going, TriesReady
  <2>7. SecuredOnce'
    <3>1. (Left("starttls")' => Left("starttls")) /\ OneAsked("starttls")' /\ (Asked({"starttls"}) => Asked({"starttls"})')
      BY <2>2 DEF Going, SecuredOnce
    <3> QED
      BY <1>2, <1>3, <1>4, <3>1 DEF Going, SecuredOnce
  <2>8. OfferedFirst'
    <3>1. Asked({"starttls"})' => Asked({"starttls"})
      BY <2>2
    <3> QED
      BY <1>3, <1>4, <1>5, <1>6, <2>4, <3>1 DEF Going, OfferedFirst
  <2>9. Once'
    BY <1>3, <1>4, <1>7, <1>9, <1>11, <2>4 DEF Going, Once
  <2>10. OnceBound'
    <3>1. /\ One(Pipe, Openings) /\ ~Has(Pipe, Openings) /\ ~server.fresh
          /\ ~({"bind", "session"} \subseteq conn.id_handlers)
          /\ "features_sasl" \notin conn.handlers /\ conn.events = <<>>
      <4>1. "bind" \in conn.id_handlers /\ ~(conn.id_handlers \subseteq {"legacy"})
        BY <1>11 DEF step
      <4> QED
        BY <1>9, <1>11, <2>4, <4>1 DEF Going, OnceBound
    <3>2. ~({"bind", "session"} \subseteq conn'.id_handlers)
      BY <1>11
    <3> QED
      BY <1>2, <1>3, <1>4, <1>11, <3>1, <3>2 DEF OnceBound
  <2>11. conn'.events \in {<<>>, <<"CONNECT">>}
    BY <1>11 DEF Going
  <2> QED
    BY <1>8, <2>5, <2>6, <2>7, <2>8, <2>9, <2>10, <2>11 DEF Going
<1>12. CASE /\ conn'.id_handlers = conn.id_handlers \ {step} /\ conn'.sent = conn.sent
            /\ conn'.events = Append(conn.events, "CONNECT") /\ item.type = "result"
  <2>1. /\ \A x : Left(x)' <=> Left(x)
        /\ \A x : OneLeft(x)' <=> OneLeft(x)
        /\ \A R : Asked(R)' <=> Asked(R)
        /\ \A x : OneAsked(x)' <=> OneAsked(x)
        /\ (Tried' <=> Tried) /\ (First' <=> First)
    BY <1>2, <1>3, <1>12, NoneSent
  <2>2. step = "legacy" => item = Result
    <3>1. step = "legacy" => item \in Of("legacy")
      BY <1>3 DEF Of, step
    <3>2. item \in Of("legacy") => item \in Replies
      BY Kinds DEF Steps
    <3> QED
      BY <1>12, <3>1, <3>2, Kinds DEF step
  <2>3. step = "legacy" => /\ conn.events = <<>> /\ ~Has(Pipe', {Result}) /\ First /\ ~Succeeds
                           /\ server.authenticated
    <3>1. step = "legacy" => Has(Pipe, {Result}) /\ ~Has(Pipe', {Result})
      <4>1. One(Pipe, {Result})
        BY DEF Going, Once
      <4> QED
        BY <1>3, <2>2, <4>1
    <3> QED
      BY <3>1 DEF Going, Once
  <2>4. step # "legacy" => /\ conn.events = <<>> /\ ~Has(Pipe', {Result}) /\ ~First
                           /\ ~Has(Pipe, Openings) /\ ~server.fresh /\ "features_sasl" \notin conn.handlers
                           /\ conn'.id_handlers \subseteq {"legacy"}
    <3>1. step # "legacy" => ~(conn.id_handlers \subseteq {"legacy"})
      BY DEF step
    <3>2. step # "legacy" => ~First /\ ~Has(Pipe', {Result})
      BY <1>4, <1>9
    <3>3. step # "legacy" => ~({"bind", "session"} \subseteq conn.id_handlers)
      BY <3>2 DEF Going, OnceBound
    <3>4. step # "legacy" => conn'.id_handlers \subseteq {"legacy"}
      <4>1. conn.id_handlers \subseteq {"bind", "session", "legacy"} /\ step \in {"bind", "session", "legacy"}
            /\ step \in conn.id_handlers
        BY <1>1 DEF Sound, Connections, Steps, step
      <4> QED
        BY <1>12, <3>3, <4>1
    <3> QED
      BY <1>9, <3>1, <3>2, <3>4 DEF Going, OnceBound
  <2>5. conn'.events = <<"CONNECT">>
    <3>1. conn.events = <<>>
      BY <2>3, <2>4
    <3>2. Append(<<>>, "CONNECT") = <<"CONNECT">>
      OBVIOUS
    <3> QED
      BY <1>12, <3>1, <3>2, Zenon
  <2>6. Start'
    <3>1. (server.answered <= Len(conn.sent))'
      BY <1>3, <1>12 DEF Going, Start
    <3> QED
      BY <1>3, <1>5, <3>1, StartKept
  <2>7. OpensOnce' /\ TriesReady'
    <3>1. Ready => Ready'
      BY <1>2, <1>4, <2>1 DEF Ready
    <3> QED
      BY <1>2, <1>4, <2>1, <3>1 DEF Going, OpensOnce, TriesReady
  <2>8. SecuredOnce'
    BY <1>2, <1>3, <1>4, <2>1 DEF Going, SecuredOnce
  <2>9. OfferedFirst'
    BY <1>3, <1>4, <1>5, <1>6, <2>1 DEF Going, OfferedFirst
  <2>10. Once'
    <3>1. server.authenticated /\ ~Has(Pipe', {Result}) /\ (First => ~Succeeds')
      BY <1>7, <1>9, <2>3, <2>4
    <3>2. Bare => Bare'
      BY <1>2, <1>12 DEF Bare
    <3>3. One(Pipe', {Result})
      BY <1>4 DEF Going, Once
    <3> QED
      BY <1>3, <1>7, <2>1, <3>1, <3>2, <3>3 DEF Going, Once
  <2>11. OnceBound'
    <3>1. ~First => step # "legacy"
      BY <2>3
    <3>2. ~First => One(Pipe', Openings) /\ ~Has(Pipe', Openings)
      BY <1>4, <2>4, <3>1 DEF Going, OnceBound
    <3>3. conn'.id_handlers \subseteq {"legacy"} => ~({"bind", "session"} \subseteq conn'.id_handlers)
      OBVIOUS
    <3> QED
      BY <1>2, <1>3, <2>1, <2>4, <3>1, <3>2, <3>3 DEF OnceBound
  <2>12. conn'.events \in {<<>>, <<"CONNECT">>}
    BY <2>5, Zenon
  <2> QED
    BY <1>8, <2>6, <2>7, <2>8, <2>9, <2>10, <2>11, <2>12, Zenon DEF Going
<1> QED
  BY <1>2, <1>10, <1>11, <1>12

\* The next mechanism is tried, or the legacy protocol, or the connection is to be closed.
LEMMA TryGoing ==
  ASSUME TypeOK, Going, conn.state = "CONNECTED", server' = server, tls_new' = tls_new,
         Fewer, ~Has(Pipe', BadOpenings), server.answered # 0,
         NEW e, Kept(conn, e), e.sent = conn.sent, e.handlers \subseteq conn.handlers,
         conn.handlers \ e.handlers \subseteq SaslHandlers \cup {"features"}, e.id_handlers = conn.id_handlers,
         e.sasl_support \in SUBSET Mechanisms,
         NEW b, NEW r, Authenticates(e, b, r), r # "starttls",
         conn'.state = b.state, conn'.open_handler = b.open_handler, SameSasl(b, conn'), SameWaits(b, conn'),
         conn'.sent = b.sent, conn'.events = b.events,
         Tried \/ "features" \in conn.handlers,
         calls' \subseteq calls, \A call \in calls' : call.handler \in e.handlers,
         Offered' => ~Tried /\ e.sasl_support = {}
  PROVE  Going'
<1>1. /\ conn'.state = "CONNECTED" /\ conn'.open_handler = conn.open_handler /\ conn'.events = conn.events
      /\ conn'.sent = Append(conn.sent, r)
  BY DEF Authenticates, Kept, Adds
<1>2. Candidates(e) \subseteq e.sasl_support /\ Candidates(e) \in SUBSET Mechanisms
  BY DEF Candidates
<1>3. \/ /\ r \in Mechanisms /\ r \in e.sasl_support
         /\ conn'.handlers = e.handlers \cup {r} /\ conn'.id_handlers = e.id_handlers
      \/ /\ r = "legacy" /\ conn'.handlers = e.handlers /\ conn'.id_handlers = e.id_handlers \cup {"legacy"}
         /\ conn'.sasl_support = e.sasl_support
      \/ /\ r = "close" /\ conn'.handlers = e.handlers /\ conn'.id_handlers = e.id_handlers
         /\ conn'.sasl_support = e.sasl_support
  <2>1. \/ /\ Candidates(e) # {} /\ r = Strongest(Candidates(e))
           /\ b.handlers = e.handlers \cup {r} /\ b.id_handlers = e.id_handlers
        \/ /\ r = "legacy"
           /\ b.handlers = e.handlers /\ b.id_handlers = e.id_handlers \cup {"legacy"}
           /\ b.sasl_support = e.sasl_support
        \/ /\ r = "close" /\ b.handlers = e.handlers /\ b.id_handlers = e.id_handlers
           /\ b.sasl_support = e.sasl_support
    BY DEF Authenticates, SameWaits
  <2>2. Candidates(e) # {} => Strongest(Candidates(e)) \in Candidates(e)
    BY <1>2, StrongestIsCandidate
  <2> QED
    BY <1>2, <2>1, <2>2 DEF SameSasl, SameWaits
<1>4. Sends(r) /\ \A R : r \in R => Asked(R)'
  BY <1>1, SentOne
<1>5. /\ \A R : Asked(R) => Asked(R)'
      /\ \A R : Asked(R)' => Asked(R) \/ r \in R
  BY <1>4 DEF Sends
<1>6. r \notin {"stream", "starttls", "response"}
  BY <1>3 DEF Mechanisms
<1>7. (Tried => Tried') /\ (Tried' => Tried \/ r \in Mechanisms) /\ (r \in Mechanisms => Tried')
  BY <1>4, <1>5 DEF Tried
<1>8. r \in Mechanisms \cup {"response"} => Tried \/ "features" \in conn.handlers
  OBVIOUS
<1>9. /\ conn'.handlers \subseteq conn.handlers \cup SaslHandlers
      /\ conn'.id_handlers \subseteq conn.id_handlers \cup {"legacy"}
      /\ \A call \in calls' : call.handler \in conn'.handlers
  BY <1>3 DEF SaslHandlers
<1>10. conn'.handlers \cap SaslHandlers # {} \/ Asked({"response"})' => Tried'
  <2>1. Asked({"response"})' => Asked({"response"})
    BY <1>5, <1>6
  <2>2. conn.handlers \cap SaslHandlers # {} \/ Asked({"response"}) => Tried
    BY DEF Going, TriesReady
  <2>3. r \notin Mechanisms /\ conn'.handlers \cap SaslHandlers # {} => conn.handlers \cap SaslHandlers # {}
    BY <1>3
  <2> QED
    BY <1>7, <2>1, <2>2, <2>3
<1>11. Left("starttls") => "proceedtls" \in conn'.handlers
  <2>1. Left("starttls") => "proceedtls" \in conn.handlers
    BY DEF Going, SecuredOnce
  <2>2. "proceedtls" \notin SaslHandlers \cup {"features"}
    BY DEF SaslHandlers, Mechanisms
  <2> QED
    BY <1>3, <2>1, <2>2
<1>12. Offered' => ~Tried' /\ conn'.sasl_support = {}
  <2>1. Offered' => r = "legacy" \/ r = "close"
    BY <1>3
  <2>2. r = "legacy" \/ r = "close" => r \notin Mechanisms
    BY DEF Mechanisms
  <2> QED
    BY <1>3, <1>7, <2>1, <2>2
<1> QED
  BY <1>1, <1>6, <1>8, <1>9, <1>10, <1>11, <1>12, CalmGoing

\* A handler is called for a stanza.
Handles(h, item) ==
  /\ conn.state = "CONNECTED" /\ server.answered # 0
  /\ server' = server /\ tls_new' = tls_new
  /\ Fewer /\ ~Has(Pipe', BadOpenings) /\ Pipe' = Pipe
  /\ h \in conn.handlers /\ h \in Waiting(conn, item) /\ item \in Items
  /\ h \in Waits => item \in Features
  /\ \E call \in calls : call.handler = h /\ call.item = item
  /\ calls' \subseteq calls
  /\ \A other \in calls' : /\ other.item = item /\ other.handler # h
                           /\ other.handler \in conn.handlers /\ other.handler \in Waiting(conn, item)
  /\ \E handshake : conn' = HandleStanza(conn, h, item, handshake)

\* A call is its handler and its item.
LEMMA CallRecord ==
  ASSUME NEW H, NEW I
  PROVE  \A c \in [handler : H, item : I] : c = [handler |-> c.handler, item |-> c.item]
OBVIOUS

\* The next handler is one of those that wait for the stanza, and is called once.
LEMMA CallHandles ==
  ASSUME LoginInv, Going, Call, conn.state # "DISCONNECTED"
  PROVE  \E h \in Waits \cup SaslHandlers \cup {"proceedtls"}, item \in Items : Handles(h, item)
<1>1. PICK call \in calls, handshake \in {"succeeds", "fails", "cannot begin"} :
        /\ conn' = HandleStanza(conn, call.handler, call.item, handshake)
        /\ calls' = calls \ {call}
  BY DEF Call
<1>2. /\ buffer' = buffer /\ toClient' = toClient /\ server' = server /\ tls_new' = tls_new
  BY DEF Call, Outside
<1>3. Pipe' = Pipe
  BY <1>2 DEF Pipe
<1>4. \A one, other \in calls : one.item = other.item /\ one.handler \in Waiting(conn, one.item)
  BY DEF Going, CallsMatch
<1>5. calls \in SUBSET [handler : Waits \cup SaslHandlers \cup {"proceedtls"}, item : Items]
  BY DEF LoginInv, TypeOK
<1>6. PICK h, item : h = call.handler /\ item = call.item
  OBVIOUS
<1>7. h \in Waits \cup SaslHandlers \cup {"proceedtls"} /\ item \in Items /\ h \in Waiting(conn, item)
  BY <1>4, <1>5, <1>6
<1>8. h \in conn.handlers
  BY <1>7 DEF Waiting
<1>9. h \in Waits => item \in Features
  BY <1>6 DEF LoginInv, CallsFit
<1>10. ASSUME NEW other \in calls, other # call
       PROVE  /\ other.item = item /\ other.handler # h
              /\ other.handler \in conn.handlers /\ other.handler \in Waiting(conn, item)
  <2>1. other.item = item /\ other.handler \in Waiting(conn, item)
    BY <1>4, <1>6
  <2>2. other.handler # h
    <3> DEFINE H == Waits \cup SaslHandlers \cup {"proceedtls"}
    <3> HIDE DEF H
    <3>1. \A c \in [handler : H, item : Items] : c = [handler |-> c.handler, item |-> c.item]
      BY CallRecord
    <3>2. call \in [handler : H, item : Items] /\ other \in [handler : H, item : Items]
      BY <1>5 DEF H
    <3>3. call = [handler |-> call.handler, item |-> call.item] /\ other = [handler |-> other.handler, item |-> other.item]
      BY <3>1, <3>2
    <3> QED
      BY <1>6, <1>10, <2>1, <3>3
  <2>3. other.handler \in conn.handlers
    BY <2>1 DEF Waiting
  <2> QED
    BY <2>1, <2>2, <2>3
<1>11. server.answered # 0 /\ conn.state = "CONNECTED" /\ ~Has(Pipe, BadOpenings) /\ Ended(Pipe)
  <2>1. calls # {}
    OBVIOUS
  <2>2. conn.state \in {"CONNECTING", "CONNECTED", "DISCONNECTED"}
    BY DEF LoginInv, TypeOK, Connections
  <2> QED
    BY <2>1, <2>2 DEF Going, Start
<1>12. Fewer /\ ~Has(Pipe', BadOpenings)
  BY <1>3, <1>11 DEF Fewer
<1>13. Handles(h, item)
  <2>1. \A other \in calls' : /\ other.item = item /\ other.handler # h
                              /\ other.handler \in conn.handlers /\ other.handler \in Waiting(conn, item)
    BY <1>1, <1>10
  <2>2. conn' = HandleStanza(conn, h, item, handshake)
    BY <1>1, <1>6
  <2>3. calls' \subseteq calls /\ \E one \in calls : one.handler = h /\ one.item = item
    BY <1>1, <1>6
  <2> QED
    BY <1>2, <1>3, <1>7, <1>8, <1>9, <1>11, <1>12, <2>1, <2>2, <2>3, Zenon DEF Handles
<1> QED
  BY <1>7, <1>13

\* The features of the first stream: TLS is asked for, which is done once, or a mechanism
\* is tried.
LEMMA FeaturesGoing ==
  ASSUME LoginInv, TlsInv, Going, NEW item, Handles("features", item)
  PROVE  Going'
<1>1. /\ conn.state = "CONNECTED" /\ server.answered # 0 /\ server' = server /\ tls_new' = tls_new
      /\ Fewer /\ ~Has(Pipe', BadOpenings) /\ Pipe' = Pipe
      /\ "features" \in conn.handlers /\ item \in Items /\ calls' \subseteq calls
      /\ \E call \in calls : call.handler = "features" /\ call.item = item
      /\ \A other \in calls' : /\ other.item = item /\ other.handler # "features"
                               /\ other.handler \in conn.handlers /\ other.handler \in Waiting(conn, item)
  BY DEF Handles
<1>2. item \in Features
  BY DEF Handles, Waits
<1>3. conn' = HandleFeatures(conn, item)
  <2>1. PICK handshake : conn' = HandleStanza(conn, "features", item, handshake)
    BY DEF Handles
  <2> QED
    BY <2>1 DEF HandleStanza
<1>4. Sound(conn) /\ TypeOK
  BY SoundConn DEF LoginInv
<1>5. PICK e, r : /\ Kept(conn, e) /\ e.handlers = conn.handlers \ {"features"}
                  /\ e.id_handlers = conn.id_handlers /\ e.sent = conn.sent /\ Sound(e)
                  /\ e.tls_support => conn.tls_support \/ item.tls
                  /\ Authenticates(e, conn', r)
  BY <1>2, <1>3, <1>4, FeaturesEffect
<1>6. e.sasl_support \in SUBSET Mechanisms
  BY <1>5 DEF Sound, Connections
<1>7. Offered' => Offered
  BY <1>1 DEF Offered
<1>8. ~Offered'
  <2> SUFFICES ASSUME Offered' PROVE FALSE
    OBVIOUS
  <2>1. ~Tried /\ ~Has(Pipe, Features)
    BY <1>1, <1>2, <1>7 DEF Going, OfferedFirst
  <2>2. ~Has(Pipe, TlsOffers)
    BY <2>1 DEF Has, TlsOffers
  <2>3. PICK other \in calls' : other.item \in TlsOffers
    BY <1>1, <2>2 DEF Offered
  <2>4. other.handler = "features_sasl"
    <3>1. conn.handlers \cap SaslHandlers = {}
      BY <2>1 DEF Going, TriesReady
    <3>2. "proceedtls" \notin conn.handlers
      BY <1>7 DEF Going, OfferedFirst, SecuredOnce
    <3>3. conn.handlers \subseteq Waits \cup SaslHandlers \cup {"proceedtls"}
      BY <1>4 DEF Sound, Connections
    <3>4. other.handler \in Waits /\ other.handler # "features"
      BY <1>1, <3>1, <3>2, <3>3
    <3> QED
      BY <3>4 DEF Waits
  <2>5. First
    BY <2>1 DEF Going, Once
  <2>6. "features_sasl" \notin conn.handlers
    BY <2>5 DEF Going, Once, Bare
  <2> QED
    BY <1>1, <2>4, <2>6
<1>9. CASE r # "starttls"
  <2>1. \A call \in calls' : call.handler \in e.handlers
    BY <1>1, <1>5
  <2>2. e.handlers \subseteq conn.handlers /\ conn.handlers \ e.handlers \subseteq SaslHandlers \cup {"features"}
    BY <1>5
  <2>3. SameSasl(conn', conn') /\ SameWaits(conn', conn')
    BY DEF SameSasl, SameWaits
  <2> QED
    BY <1>1, <1>4, <1>5, <1>6, <1>8, <1>9, <2>1, <2>2, <2>3, TryGoing
<1>10. CASE r = "starttls"
  <2>1. /\ e.tls_support /\ tls_new
        /\ conn'.handlers = e.handlers \cup {"proceedtls"} /\ conn'.id_handlers = e.id_handlers
        /\ conn'.sasl_support = e.sasl_support
    <3>1. Candidates(e) # {} => Strongest(Candidates(e)) \in Mechanisms
      <4>1. Candidates(e) \in SUBSET Mechanisms
        BY <1>6 DEF Candidates
      <4> QED
        BY <4>1, StrongestIsCandidate
    <3>2. "starttls" \notin Mechanisms \cup {"legacy", "close"}
      BY DEF Mechanisms
    <3> QED
      BY <1>5, <1>10, <3>1, <3>2 DEF Authenticates
  <2>2. Offered
    <3>1. item.tls
      BY <1>5, <2>1 DEF TlsInv
    <3>2. item \in TlsOffers
      BY <1>2, <3>1 DEF TlsOffers
    <3> QED
      BY <1>1, <2>1, <3>2 DEF Offered
  <2>3. ~Tried /\ ~Asked({"starttls"}) /\ ~server.fresh
    BY <2>2 DEF Going, OfferedFirst
  <2>4. /\ conn'.state = "CONNECTED" /\ conn'.open_handler = conn.open_handler /\ conn'.events = conn.events
        /\ conn'.sent = Append(conn.sent, "starttls")
    BY <1>1, <1>5, <1>10 DEF Authenticates, Kept, Adds
  <2>5. Sends("starttls") /\ Asked({"starttls"})'
    BY <1>1, <1>4, <2>4, SentOne
  <2>6. /\ \A x : Left(x)' => Left(x) \/ x = "starttls"
        /\ \A x : OneLeft(x) /\ (x = "starttls" => ~Left(x)) => OneLeft(x)'
        /\ \A R : Asked(R)' => Asked(R) \/ "starttls" \in R
        /\ \A x : OneAsked(x) /\ (x = "starttls" => ~Asked({x})) => OneAsked(x)'
        /\ (server.answered <= Len(conn.sent) => (server.answered <= Len(conn.sent))')
    BY <2>5 DEF Sends
  <2>7. ~Tried' /\ (First' <=> First) /\ First /\ ~Asked({"response"})'
    <3>1. "starttls" \notin Mechanisms
      BY DEF Mechanisms
    <3>2. ~Tried'
      BY <2>3, <2>6, <3>1 DEF Tried
    <3>3. ~Asked({"response"})
      BY <2>3 DEF Going, TriesReady
    <3>4. First
      BY <2>3 DEF Going, Once
    <3> QED
      BY <2>4, <2>6, <3>2, <3>3, <3>4 DEF First
  <2>8. conn'.handlers = (conn.handlers \ {"features"}) \cup {"proceedtls"} /\ conn'.id_handlers = conn.id_handlers
    BY <1>5, <2>1
  <2>9. Start'
    <3>1. (server.answered <= Len(conn.sent))'
      BY <2>6 DEF Going, Start
    <3> QED
      BY <1>1, <2>4, <3>1, StartKept
  <2>10. CallsMatch'
    BY <1>1, <2>8 DEF CallsMatch, Waiting
  <2>11. OpensOnce' /\ TriesReady'
    <3>1. ~Left("stream") /\ ~Has(Pipe, Openings) /\ OneLeft("stream") /\ One(Pipe, Openings)
      BY <1>1, <2>7 DEF Going, TriesReady, Ready, OpensOnce
    <3>2. ~Left("stream")' /\ OneLeft("stream")'
      BY <2>6, <3>1
    <3>3. OpensOnce'
      BY <1>1, <3>1, <3>2 DEF OpensOnce
    <3>4. conn'.handlers \cap SaslHandlers = {}
      <4>1. conn.handlers \cap SaslHandlers = {}
        BY <2>3 DEF Going, TriesReady
      <4>2. "proceedtls" \notin SaslHandlers
        BY DEF SaslHandlers, Mechanisms
      <4> QED
        BY <2>8, <4>1, <4>2
    <3>5. "features" \notin conn'.handlers
      BY <2>8
    <3> QED
      BY <2>7, <3>3, <3>4, <3>5 DEF TriesReady
  <2>12. SecuredOnce'
    <3>1. OneAsked("starttls")'
      BY <2>3, <2>6 DEF Going, SecuredOnce
    <3>2. ~Has(Pipe, TlsReply)
      BY <2>3 DEF Going, SecuredOnce
    <3>3. "proceedtls" \in conn'.handlers
      BY <2>8
    <3>4. \A call \in calls' : call.handler # "proceedtls"
      <4>1. "proceedtls" \notin conn.handlers
        BY <2>3 DEF Going, SecuredOnce
      <4> QED
        BY <1>1, <4>1
    <3> QED
      BY <1>1, <2>3, <2>5, <3>1, <3>2, <3>3, <3>4 DEF SecuredOnce
  <2>13. OfferedFirst'
    BY <1>8 DEF OfferedFirst
  <2>14. Once' /\ OnceBound'
    <3>1. Succeeds' => Succeeds
      BY <1>1 DEF Succeeds
    <3>2. Bare => Bare'
      BY <2>8 DEF Bare
    <3>3. ~Succeeds
      BY <2>3 DEF Going, Once
    <3>4. Once'
      BY <1>1, <2>4, <2>7, <3>1, <3>2, <3>3 DEF Going, Once
    <3> QED
      BY <2>7, <3>4 DEF OnceBound
  <2>15. conn'.events \in {<<>>, <<"CONNECT">>}
    BY <2>4 DEF Going
  <2> QED
    BY <2>9, <2>10, <2>11, <2>12, <2>13, <2>14, <2>15 DEF Going
<1> QED
  BY <1>9, <1>10

\* The features of the authenticated stream: a resource is to be bound.
LEMMA FeaturesSaslGoing ==
  ASSUME LoginInv, Going, NEW item, Handles("features_sasl", item)
  PROVE  Going'
<1>1. /\ conn.state = "CONNECTED" /\ server.answered # 0 /\ server' = server /\ tls_new' = tls_new
      /\ Fewer /\ ~Has(Pipe', BadOpenings) /\ Pipe' = Pipe
      /\ "features_sasl" \in conn.handlers /\ calls' \subseteq calls
      /\ \A other \in calls' : /\ other.item = item /\ other.handler # "features_sasl"
                               /\ other.handler \in conn.handlers /\ other.handler \in Waiting(conn, item)
  BY DEF Handles
<1>2. item \in Features
  BY DEF Handles, Waits
<1>3. conn' = HandleFeaturesSasl(conn, item)
  <2>1. PICK handshake : conn' = HandleStanza(conn, "features_sasl", item, handshake)
    BY DEF Handles
  <2> QED
    BY <2>1 DEF HandleStanza
<1>4. Sound(conn) /\ TypeOK
  BY SoundConn DEF LoginInv
<1>5. /\ Kept(conn, conn') /\ SameSasl(conn, conn') /\ conn'.handlers = conn.handlers \ {"features_sasl"}
      /\ \/ conn'.id_handlers = conn.id_handlers \cup {"bind"} /\ Adds(conn, conn', "bind")
         \/ conn'.id_handlers = conn.id_handlers /\ Adds(conn, conn', "close")
  BY <1>2, <1>3, <1>4, FeaturesSaslEffect
<1>6. /\ ~First /\ Tried /\ server.authenticated /\ ~Has(Pipe, {Result})
      /\ conn.id_handlers \subseteq {"legacy"} /\ conn.events = <<>>
      /\ ~Has(Pipe, Openings) /\ ~server.fresh /\ One(Pipe, Openings)
  <2>1. ~Bare
    BY <1>1 DEF Bare
  <2>2. ~First
    BY <2>1 DEF Going, Once
  <2> QED
    BY <1>1, <2>1, <2>2 DEF Going, Once, OnceBound
<1>7. ~Offered'
  <2>1. ~Offered
    BY <1>6 DEF Going, OfferedFirst
  <2> QED
    BY <1>1, <2>1 DEF Offered
<1>8. /\ conn'.state = "CONNECTED" /\ conn'.open_handler = conn.open_handler /\ conn'.events = conn.events
  BY <1>1, <1>5 DEF Kept
<1>9. PICK r \in {"bind", "close"} : /\ conn'.sent = Append(conn.sent, r)
                                    /\ conn'.id_handlers = conn.id_handlers \cup ({r} \ {"close"})
  BY <1>1, <1>5 DEF Adds
<1>10. Sends(r)
  BY <1>1, <1>4, <1>9, SentOne
<1>11. /\ \A x : Left(x)' => Left(x) \/ x = r
       /\ \A x : OneLeft(x) /\ (x = r => ~Left(x)) => OneLeft(x)'
       /\ \A R : Asked(R) => Asked(R)'
       /\ \A R : Asked(R)' => Asked(R) \/ r \in R
       /\ \A x : OneAsked(x) /\ (x = r => ~Asked({x})) => OneAsked(x)'
       /\ (server.answered <= Len(conn.sent) => (server.answered <= Len(conn.sent))')
  BY <1>10 DEF Sends
<1>12. r \notin {"stream", "starttls", "response"} /\ r \notin Mechanisms
  BY DEF Mechanisms
<1>13. Tried' /\ (First' <=> First)
  BY <1>6, <1>8, <1>11 DEF Tried, First
<1>14. CASE r = "close"
  <2>1. Left("starttls") => "proceedtls" \in conn'.handlers
    BY <1>5 DEF Going, SecuredOnce
  <2>2. \A call \in calls' : call.handler \in conn'.handlers
    BY <1>1, <1>5
  <2>3. conn'.id_handlers \subseteq conn.id_handlers \cup {"legacy"}
    BY <1>9, <1>14
  <2> QED
    BY <1>1, <1>4, <1>5, <1>7, <1>8, <1>9, <1>12, <1>13, <2>1, <2>2, <2>3, CalmGoing
<1>15. CASE r = "bind"
  <2>1. conn'.id_handlers = conn.id_handlers \cup {"bind"}
    BY <1>9, <1>15
  <2>2. Start'
    <3>1. (server.answered <= Len(conn.sent))'
      BY <1>11 DEF Going, Start
    <3> QED
      BY <1>1, <1>8, <3>1, StartKept
  <2>3. CallsMatch'
    BY <1>1, <1>5 DEF CallsMatch, Waiting
  <2>4. OpensOnce' /\ TriesReady'
    <3>1. OpensOnce'
      BY <1>6, <1>13 DEF OpensOnce
    <3>2. Ready
      BY <1>6 DEF Going, TriesReady
    <3>3. Ready'
      BY <1>5, <1>6, <1>13, <3>2 DEF Ready
    <3> QED
      BY <1>13, <3>1, <3>3 DEF TriesReady
  <2>5. SecuredOnce'
    <3>1. (Left("starttls")' => Left("starttls")) /\ OneAsked("starttls")' /\ (Asked({"starttls"}) => Asked({"starttls"})')
      BY <1>11, <1>12 DEF Going, SecuredOnce
    <3>2. "proceedtls" \in conn'.handlers <=> "proceedtls" \in conn.handlers
      BY <1>5
    <3> QED
      BY <1>1, <3>1, <3>2 DEF Going, SecuredOnce
  <2>6. OfferedFirst'
    BY <1>7 DEF OfferedFirst
  <2>7. Once'
    <3>1. One(Pipe, {Result})
      BY DEF Going, Once
    <3> QED
      BY <1>1, <1>6, <1>13, <3>1 DEF Once
  <2>8. OnceBound'
    <3>1. "features_sasl" \notin conn'.handlers
      BY <1>5
    <3>2. ~({"bind", "session"} \subseteq conn'.id_handlers)
      BY <1>6, <2>1
    <3> QED
      BY <1>1, <1>6, <1>8, <3>1, <3>2 DEF OnceBound
  <2>9. conn'.events \in {<<>>, <<"CONNECT">>}
    BY <1>8 DEF Going
  <2> QED
    BY <2>2, <2>3, <2>4, <2>5, <2>6, <2>7, <2>8, <2>9 DEF Going
<1> QED
  BY <1>9, <1>14, <1>15

\* The answer to starttls: the stream is opened again, or the connection is to be closed.
LEMMA ProceedtlsGoing ==
  ASSUME LoginInv, Going, NEW item, Handles("proceedtls", item)
  PROVE  Going'
<1>1. /\ conn.state = "CONNECTED" /\ server.answered # 0 /\ server' = server /\ tls_new' = tls_new
      /\ Fewer /\ ~Has(Pipe', BadOpenings) /\ Pipe' = Pipe
      /\ "proceedtls" \in conn.handlers /\ calls' \subseteq calls
      /\ \E call \in calls : call.handler = "proceedtls" /\ call.item = item
      /\ \A other \in calls' : /\ other.item = item /\ other.handler # "proceedtls"
                               /\ other.handler \in conn.handlers /\ other.handler \in Waiting(conn, item)
  BY DEF Handles
<1>2. PICK handshake : conn' = HandleProceedtls(conn, item.kind, handshake)
  <2>1. PICK handshake : conn' = HandleStanza(conn, "proceedtls", item, handshake)
    BY DEF Handles
  <2>2. conn' = HandleProceedtls(conn, item.kind, handshake)
    BY <2>1 DEF HandleStanza
  <2> QED
    BY <2>2
<1>3. Sound(conn) /\ TypeOK
  BY SoundConn DEF LoginInv
<1>4. Secures(conn, conn', item.kind)
  BY <1>2, <1>3, ProceedtlsEffect
<1>5. ~Ready
  BY <1>1 DEF Ready
<1>6. /\ ~Tried /\ "features" \notin conn.handlers /\ conn.handlers \cap SaslHandlers = {}
      /\ ~Asked({"response"})
  BY <1>5 DEF Going, TriesReady
<1>7. First /\ ~Succeeds /\ Bare
  BY <1>6 DEF Going, Once
<1>8. Asked({"starttls"}) /\ ~Left("starttls")
  BY <1>1 DEF Going, SecuredOnce
<1>9. ~Left("stream") /\ ~Has(Pipe, Openings) /\ OneLeft("stream") /\ One(Pipe, Openings)
  BY <1>1, <1>7 DEF Going, OpensOnce
<1>10. ~Offered'
  <2>1. ~Offered
    BY <1>8 DEF Going, OfferedFirst
  <2> QED
    BY <1>1, <2>1 DEF Offered
<1>11. /\ conn'.state = "CONNECTED" /\ conn'.open_handler = conn.open_handler /\ conn'.events = conn.events
       /\ conn'.handlers = conn.handlers \ {"proceedtls"} /\ conn'.id_handlers = conn.id_handlers
       /\ conn'.sasl_support = conn.sasl_support
  BY <1>1, <1>4, <1>7 DEF Secures, First, SameSasl
<1>12. PICK r \in {"stream", "close"} : conn'.sent = Append(conn.sent, r) \/ (r = "close" /\ conn'.sent = conn.sent)
  BY <1>1, <1>4 DEF Secures, Adds
<1>13. Sends(r)
  BY <1>1, <1>3, <1>12, SentOne
<1>14. /\ \A x : Left(x)' => Left(x) \/ x = r
       /\ \A x : OneLeft(x) /\ (x = r => ~Left(x)) => OneLeft(x)'
       /\ \A R : Asked(R) => Asked(R)'
       /\ \A R : Asked(R)' => Asked(R) \/ r \in R
       /\ \A x : OneAsked(x) /\ (x = r => ~Asked({x})) => OneAsked(x)'
       /\ (server.answered <= Len(conn.sent) => (server.answered <= Len(conn.sent))')
  BY <1>13 DEF Sends
<1>15. r \notin {"starttls", "response"} /\ r \notin Mechanisms
  BY DEF Mechanisms
<1>16. ~Tried' /\ ~Asked({"response"})' /\ First'
  <2>1. ~Tried'
    BY <1>6, <1>14, <1>15 DEF Tried
  <2>2. ~Asked({"response"})'
    BY <1>6, <1>14, <1>15
  <2> QED
    BY <1>7, <1>11, <2>1, <2>2 DEF First
<1>17. conn'.handlers \cap SaslHandlers = {} /\ "features" \notin conn'.handlers /\ "proceedtls" \notin conn'.handlers
  BY <1>6, <1>11
<1>18. CASE r = "close"
  <2>1. r \notin {"stream", "starttls"} /\ r \notin Mechanisms \cup {"response"}
    BY <1>15, <1>18
  <2>2. \A call \in calls' : call.handler \in conn'.handlers
    BY <1>1, <1>11
  <2>3. /\ conn'.handlers \subseteq conn.handlers \cup SaslHandlers
        /\ conn'.id_handlers \subseteq conn.id_handlers \cup {"legacy"}
    BY <1>11
  <2>4. conn'.sent = conn.sent \/ conn'.sent = Append(conn.sent, r)
    BY <1>12
  <2>5. conn'.handlers \cap SaslHandlers # {} \/ Asked({"response"})' => Tried'
    BY <1>16, <1>17
  <2> QED
    BY <1>1, <1>3, <1>8, <1>10, <1>11, <2>1, <2>2, <2>3, <2>4, <2>5, CalmGoing
<1>19. CASE r = "stream"
  <2>1. Start'
    <3>1. (server.answered <= Len(conn.sent))'
      BY <1>14 DEF Going, Start
    <3> QED
      BY <1>1, <1>11, <3>1, StartKept
  <2>2. CallsMatch'
    BY <1>1, <1>11 DEF CallsMatch, Waiting
  <2>3. OpensOnce' /\ TriesReady'
    <3>1. OneLeft("stream")'
      BY <1>9, <1>14
    <3>2. OpensOnce'
      BY <1>1, <1>9, <1>17, <3>1 DEF OpensOnce
    <3> QED
      BY <1>16, <1>17, <3>2 DEF TriesReady
  <2>4. SecuredOnce'
    <3>1. ~Left("starttls")' /\ OneAsked("starttls")' /\ Asked({"starttls"})'
      BY <1>8, <1>14, <1>15 DEF Going, SecuredOnce
    <3> QED
      BY <1>1, <1>17, <3>1 DEF Going, SecuredOnce
  <2>5. OfferedFirst'
    BY <1>10 DEF OfferedFirst
  <2>6. Once' /\ OnceBound'
    <3>1. ~Succeeds'
      BY <1>1, <1>7 DEF Succeeds
    <3>2. Bare'
      BY <1>7, <1>11 DEF Bare
    <3>3. Once'
      BY <1>1, <1>7, <1>11, <1>16, <3>1, <3>2 DEF Going, Once
    <3> QED
      BY <1>16, <3>3 DEF OnceBound
  <2>7. conn'.events \in {<<>>, <<"CONNECT">>}
    BY <1>11 DEF Going
  <2> QED
    BY <2>1, <2>2, <2>3, <2>4, <2>5, <2>6, <2>7 DEF Going
<1> QED
  BY <1>12, <1>18, <1>19

\* A mechanism goes on, fails, so that the next is tried, or has succeeded, so that the
\* authenticated stream is opened.
LEMMA SaslGoing ==
  ASSUME LoginInv, TlsInv, Going, NEW h \in SaslHandlers, NEW item, Handles(h, item)
  PROVE  Going'
<1>1. /\ conn.state = "CONNECTED" /\ server.answered # 0 /\ server' = server /\ tls_new' = tls_new
      /\ Fewer /\ ~Has(Pipe', BadOpenings) /\ Pipe' = Pipe
      /\ h \in conn.handlers /\ item \in Items /\ calls' \subseteq calls
      /\ \E call \in calls : call.handler = h /\ call.item = item
      /\ \A other \in calls' : /\ other.item = item /\ other.handler # h
                               /\ other.handler \in conn.handlers /\ other.handler \in Waiting(conn, item)
  BY DEF Handles
<1>2. h \notin {"features", "features_sasl", "proceedtls"}
  BY DEF SaslHandlers, Mechanisms
<1>3. conn' = HandleSasl(conn, h, item.kind)
  <2>1. PICK handshake : conn' = HandleStanza(conn, h, item, handshake)
    BY DEF Handles
  <2> QED
    BY <1>2, <2>1 DEF HandleStanza
<1>4. Sound(conn) /\ TypeOK
  BY SoundConn DEF LoginInv
<1>5. Tries(conn, conn', h, item.kind)
  BY <1>3, <1>4, SaslEffect
<1>6. Tried /\ Ready
  BY <1>1 DEF Going, TriesReady
<1>7. ~Offered'
  <2>1. ~Offered
    BY <1>6 DEF Going, OfferedFirst
  <2> QED
    BY <1>1, <2>1 DEF Offered
<1>8. ~Left("starttls") /\ "proceedtls" \notin conn.handlers
  BY <1>6 DEF Ready, Going, SecuredOnce
<1>9. ASSUME NEW r \in {"response", "close"}, Kept(conn, conn'), conn'.id_handlers = conn.id_handlers,
             Adds(conn, conn', r), conn'.handlers \subseteq conn.handlers \cup SaslHandlers,
             conn.handlers \ {h} \subseteq conn'.handlers
      PROVE  Going'
  <2>1. /\ conn'.state = "CONNECTED" /\ conn'.open_handler = conn.open_handler /\ conn'.events = conn.events
        /\ conn'.sent = Append(conn.sent, r)
    BY <1>1, <1>9 DEF Kept, Adds
  <2>2. Tried'
    <3>1. Sends(r)
      BY <1>1, <1>4, <2>1, SentOne
    <3> QED
      BY <1>6, <3>1 DEF Sends, Tried
  <2>3. r \notin {"stream", "starttls"}
    OBVIOUS
  <2>4. \A call \in calls' : call.handler \in conn'.handlers
    BY <1>1, <1>9
  <2> QED
    BY <1>1, <1>4, <1>6, <1>7, <1>8, <1>9, <2>1, <2>2, <2>3, <2>4, CalmGoing
<1>10. CASE /\ Kept(conn, conn') /\ conn'.id_handlers = conn.id_handlers /\ Adds(conn, conn', "response")
            /\ conn'.handlers = conn.handlers \/ conn'.handlers = (conn.handlers \ {h}) \cup {"rspauth"}
  <2>1. conn'.handlers \subseteq conn.handlers \cup SaslHandlers /\ conn.handlers \ {h} \subseteq conn'.handlers
    BY <1>10 DEF SaslHandlers
  <2> QED
    BY <1>9, <1>10, <2>1
<1>11. CASE /\ conn'.handlers = conn.handlers \ {h} /\ conn'.id_handlers = conn.id_handlers
            /\ Kept(conn, conn') /\ Adds(conn, conn', "close")
  <2>1. conn'.handlers \subseteq conn.handlers \cup SaslHandlers /\ conn.handlers \ {h} \subseteq conn'.handlers
    BY <1>11
  <2> QED
    BY <1>9, <1>11, <2>1
<1>12. ASSUME NEW e, NEW r, Authenticates(conn, e, r), Removed(e, conn', h)
       PROVE  Going'
  <2>1. conn.sasl_support \in SUBSET Mechanisms /\ conn.tls_support = FALSE
    BY <1>4 DEF Sound, Connections, TlsInv
  <2>2. Candidates(conn) # {} => Strongest(Candidates(conn)) \in Mechanisms
    <3>1. Candidates(conn) \in SUBSET Mechanisms
      BY <2>1 DEF Candidates
    <3> QED
      BY <3>1, StrongestIsCandidate
  <2>3. /\ r \in Mechanisms \cup {"legacy", "close"}
        /\ e.handlers = conn.handlers \/ (r \in Mechanisms /\ e.handlers = conn.handlers \cup {r})
        /\ e.id_handlers \subseteq conn.id_handlers \cup {"legacy"}
    BY <1>12, <2>1, <2>2 DEF Authenticates, SameWaits
  <2>4. /\ conn'.state = "CONNECTED" /\ conn'.open_handler = conn.open_handler /\ conn'.events = conn.events
        /\ conn'.sent = Append(conn.sent, r)
        /\ conn'.handlers = e.handlers \ {h} /\ conn'.id_handlers = e.id_handlers
    BY <1>1, <1>12 DEF Authenticates, Removed, Kept, Adds
  <2>5. r \notin {"stream", "starttls"}
    BY <2>3 DEF Mechanisms
  <2>6. Tried'
    <3>1. Sends(r)
      BY <1>1, <1>4, <2>4, SentOne
    <3> QED
      BY <1>6, <3>1 DEF Sends, Tried
  <2>7. /\ conn'.handlers \subseteq conn.handlers \cup SaslHandlers
        /\ conn'.id_handlers \subseteq conn.id_handlers \cup {"legacy"}
        /\ \A call \in calls' : call.handler \in conn'.handlers
    BY <1>1, <2>3, <2>4 DEF SaslHandlers
  <2> QED
    BY <1>1, <1>4, <1>6, <1>7, <1>8, <2>4, <2>5, <2>6, <2>7, CalmGoing
<1>13. CASE /\ conn'.handlers = conn.handlers \ {h} /\ conn'.id_handlers = conn.id_handlers
            /\ SameSasl(conn, conn') /\ conn'.state = conn.state
            /\ conn'.events = conn.events /\ item.kind = "success"
            /\ conn'.open_handler = "_handle_open_sasl" /\ Adds(conn, conn', "stream")
  <2>1. Succeeds
    <3>1. item \in Successes
      BY <1>1, <1>13 DEF Successes, Of
    <3> QED
      BY <1>1, <3>1 DEF Succeeds
  <2>2. /\ server.authenticated /\ ~Has(Pipe, {Result}) /\ One(Pipe, {Result})
        /\ First => Bare /\ conn.events = <<>> /\ ~Has(Pipe, Openings)
    <3>1. server.authenticated /\ ~Has(Pipe, {Result}) /\ One(Pipe, {Result})
      BY <2>1 DEF Going, Once
    <3>2. First => Bare /\ conn.events = <<>>
      BY <2>1 DEF Going, Once
    <3> QED
      BY <1>6, <3>1, <3>2 DEF Ready
  <2>3. conn'.sent = Append(conn.sent, "stream") /\ conn'.state = "CONNECTED"
    BY <1>1, <1>13 DEF Adds
  <2>4. Sends("stream")
    BY <1>1, <1>4, <2>3, SentOne
  <2>5. /\ \A x : Left(x)' => Left(x) \/ x = "stream"
        /\ \A R : Asked(R) => Asked(R)'
        /\ \A x : OneAsked(x) /\ (x = "stream" => ~Asked({x})) => OneAsked(x)'
        /\ (server.answered <= Len(conn.sent) => (server.answered <= Len(conn.sent))')
    BY <2>4 DEF Sends
  <2>6. Tried' /\ ~First'
    BY <1>6, <1>13, <2>5 DEF Tried, First
  <2>7. Bare => Bare'
    BY <1>13 DEF Bare
  <2>8. Start'
    <3>1. (server.answered <= Len(conn.sent))'
      BY <2>5 DEF Going, Start
    <3> QED
      BY <1>1, <2>3, <3>1, StartKept
  <2>9. CallsMatch'
    BY <1>1, <1>13 DEF CallsMatch, Waiting
  <2>10. OpensOnce' /\ TriesReady'
    <3>1. Ready'
      BY <1>8, <1>13, <2>6 DEF Ready
    <3> QED
      BY <2>6, <3>1 DEF OpensOnce, TriesReady
  <2>11. SecuredOnce'
    <3>1. ~Left("starttls")' /\ OneAsked("starttls")' /\ (Asked({"starttls"}) => Asked({"starttls"})')
      BY <1>8, <2>5 DEF Going, SecuredOnce
    <3>2. "proceedtls" \notin conn'.handlers
      BY <1>8, <1>13
    <3> QED
      BY <1>1, <3>1, <3>2 DEF Going, SecuredOnce
  <2>12. OfferedFirst'
    BY <1>7 DEF OfferedFirst
  <2>13. Once'
    BY <1>1, <2>2, <2>6 DEF Once
  <2>14. OnceBound'
    <3>1. CASE First
      <4>1. One(Pipe, Openings)
        BY <3>1 DEF Going, OpensOnce
      <4>2. conn.id_handlers \subseteq {"legacy"} /\ "features_sasl" \notin conn.handlers
        BY <2>2, <3>1 DEF Bare
      <4>3. Bare'
        BY <2>2, <2>7, <3>1
      <4>4. ~({"bind", "session"} \subseteq conn'.id_handlers)
        BY <1>13, <4>2
      <4> QED
        BY <1>1, <1>13, <2>2, <3>1, <4>1, <4>2, <4>3, <4>4 DEF OnceBound
    <3>2. CASE ~First
      BY <1>1, <1>13, <2>7, <3>2 DEF Going, OnceBound
    <3> QED
      BY <3>1, <3>2
  <2>15. conn'.events \in {<<>>, <<"CONNECT">>}
    BY <1>13 DEF Going
  <2> QED
    BY <2>8, <2>9, <2>10, <2>11, <2>12, <2>13, <2>14, <2>15 DEF Going
<1> QED
  BY <1>5, <1>10, <1>11, <1>12, <1>13 DEF Tries

\* Every handler of a stanza.
LEMMA CallGoing ==
  ASSUME LoginInv, TlsInv, Going, Call, conn.state # "DISCONNECTED"
  PROVE  Going'
<1>1. PICK h \in Waits \cup SaslHandlers \cup {"proceedtls"}, item \in Items : Handles(h, item)
  BY CallHandles
<1>2. h \in SaslHandlers \/ h = "features" \/ h = "features_sasl" \/ h = "proceedtls"
  BY DEF Waits
<1> QED
  BY <1>1, <1>2, FeaturesGoing, FeaturesSaslGoing, ProceedtlsGoing, SaslGoing

\* The same again.
LEMMA SameGoing ==
  ASSUME Going, conn' = conn, calls' = calls, server' = server, tls_new' = tls_new, Pipe' = Pipe
  PROVE  Going'
<1>1. /\ \A x : Left(x)' <=> Left(x)
      /\ \A x : OneLeft(x)' <=> OneLeft(x)
      /\ \A R : Asked(R)' <=> Asked(R)
      /\ \A x : OneAsked(x)' <=> OneAsked(x)
      /\ (Tried' <=> Tried) /\ (First' <=> First)
  BY NoneSent
<1>2. Start'
  BY <1>1 DEF Going, Start, Waited
<1>3. CallsMatch'
  BY DEF Going, CallsMatch, Waiting
<1>4. OpensOnce' /\ TriesReady'
  BY <1>1 DEF Going, OpensOnce, TriesReady, Ready
<1>5. SecuredOnce'
  BY <1>1 DEF Going, SecuredOnce
<1>6. OfferedFirst'
  BY <1>1 DEF Going, OfferedFirst, Offered
<1>7. Once' /\ OnceBound'
  BY <1>1 DEF Going, Once, OnceBound, Succeeds, Bare
<1>8. conn'.events \in {<<>>, <<"CONNECT">>}
  BY DEF Going
<1> QED
  BY <1>2, <1>3, <1>4, <1>5, <1>6, <1>7, <1>8 DEF Going

\* What is read has been on its way.
LEMMA ReadGoing ==
  ASSUME LoginInv, Going, Read \/ ReadMalformed
  PROVE  Going'
<1>1. PICK n \in 0 .. Len(toClient) : ReadUpTo(n)
  BY Reads DEF LoginInv
<1>2. buffer = <<>> /\ toClient \in Seq(Items)
  BY <1>1 DEF ReadUpTo, AtRest, LoginInv, TypeOK
<1>3. Pipe' = Pipe
  BY <1>1, <1>2, ReadPipe DEF ReadUpTo, Pipe
<1>4. conn' = conn /\ calls' = calls /\ server' = server /\ tls_new' = tls_new
  BY <1>1 DEF ReadUpTo
<1> QED
  BY <1>3, <1>4, SameGoing

\* A wait is given up: a mechanism is tried without the features, or the connection is to
\* be closed.
LEMMA FireGoing ==
  ASSUME LoginInv, TlsInv, Going, NEW t \in Waits \cup Steps, Fire(t)
  PROVE  Going' /\ conn'.state = "CONNECTED"
<1>1. Sound(conn) /\ TypeOK
  BY SoundConn DEF LoginInv
<1>2. /\ conn.state = "CONNECTED" /\ buffer = <<>> /\ calls = {} /\ calls' = {} /\ t \in conn.timed_handlers
      /\ buffer' = buffer /\ toClient' = toClient /\ server' = server /\ tls_new' = tls_new
      /\ conn' = HandleMissing(conn, t)
  BY DEF Fire, AtRest, Outside
<1>3. Pipe' = Pipe
  BY <1>2 DEF Pipe
<1>4. GivesUp(conn, conn', t)
  BY <1>1, <1>2, MissingEffect
<1>5. t \in conn.handlers \cup conn.id_handlers
  <2>1. t # "cleanup"
    BY DEF Waits, Steps
  <2> QED
    BY <1>1, <1>2, <2>1 DEF Sound, Matched
<1>6. server.answered # 0 /\ ~Has(Pipe, BadOpenings) /\ Ended(Pipe)
  <2>1. ~Waited({}, {})
    BY <1>5 DEF Waited
  <2> QED
    BY <2>1 DEF Going, Start
<1>7. Fewer /\ ~Has(Pipe', BadOpenings)
  BY <1>3, <1>6 DEF Fewer
<1>8. Offered' => ~Tried /\ conn.sasl_support = {}
  <2>1. Offered' => Offered
    BY <1>2, <1>3 DEF Offered
  <2> QED
    BY <2>1 DEF Going, OfferedFirst
<1>9. \A call \in calls' : call.handler \in conn.handlers
  BY <1>2
<1>10. CASE t = "features"
  <2>1. "features" \in conn.handlers
    <3>1. "features" \notin conn.id_handlers
      BY <1>1 DEF Sound, Connections, Steps
    <3> QED
      BY <1>5, <1>10, <3>1
  <2>2. PICK b, r : /\ Authenticates(conn, b, r)
                    /\ conn'.state = b.state /\ conn'.open_handler = b.open_handler
                    /\ SameSasl(b, conn') /\ SameWaits(b, conn')
                    /\ conn'.sent = b.sent /\ conn'.events = b.events
    BY <1>4, <1>10 DEF GivesUp
  <2>3. conn.sasl_support \in SUBSET Mechanisms /\ conn.tls_support = FALSE
    BY <1>1 DEF Sound, Connections, TlsInv
  <2>4. r # "starttls"
    <3>1. Candidates(conn) # {} => Strongest(Candidates(conn)) \in Mechanisms
      <4>1. Candidates(conn) \in SUBSET Mechanisms
        BY <2>3 DEF Candidates
      <4> QED
        BY <4>1, StrongestIsCandidate
    <3>2. "starttls" \notin Mechanisms \cup {"legacy", "close"}
      BY DEF Mechanisms
    <3> QED
      BY <2>2, <2>3, <3>1, <3>2 DEF Authenticates
  <2>5. Kept(conn, conn)
    BY DEF Kept
  <2>6. conn'.state = "CONNECTED"
    BY <1>2, <2>2 DEF Authenticates, Kept
  <2>7. PICK e : e = conn
    OBVIOUS
  <2>8. /\ Kept(conn, e) /\ e.sent = conn.sent /\ e.handlers \subseteq conn.handlers
        /\ conn.handlers \ e.handlers \subseteq SaslHandlers \cup {"features"} /\ e.id_handlers = conn.id_handlers
        /\ e.sasl_support \in SUBSET Mechanisms /\ Authenticates(e, b, r)
        /\ \A call \in calls' : call.handler \in e.handlers
        /\ Offered' => ~Tried /\ e.sasl_support = {}
    BY <1>2, <1>8, <1>9, <2>2, <2>3, <2>5, <2>7
  <2>9. Going'
    BY <1>1, <1>2, <1>6, <1>7, <2>1, <2>2, <2>4, <2>8, TryGoing
  <2> QED
    BY <2>6, <2>9
<1>11. CASE t # "features"
  <2>1. /\ conn'.state = conn.state /\ conn'.events = conn.events /\ Adds(conn, conn', "close")
        /\ conn'.open_handler = conn.open_handler /\ SameSasl(conn, conn') /\ SameWaits(conn, conn')
    BY <1>4, <1>11 DEF GivesUp, Waits, Steps
  <2>2. conn'.state = "CONNECTED" /\ conn'.sent = Append(conn.sent, "close")
    BY <1>2, <2>1 DEF Adds
  <2>3. Sends("close")
    BY <1>1, <1>2, <2>2, SentOne
  <2>4. "close" \notin {"stream", "starttls"} /\ "close" \notin Mechanisms \cup {"response"}
    BY DEF Mechanisms
  <2>5. (Tried' <=> Tried) /\ (Asked({"response"})' => Asked({"response"}))
    BY <2>3, <2>4 DEF Sends, Tried
  <2>6. conn'.handlers \cap SaslHandlers # {} \/ Asked({"response"})' => Tried'
    BY <2>1, <2>5 DEF SameWaits, Going, TriesReady
  <2>7. Left("starttls") => "proceedtls" \in conn'.handlers
    BY <2>1 DEF SameWaits, Going, SecuredOnce
  <2>8. /\ conn'.handlers \subseteq conn.handlers \cup SaslHandlers
        /\ conn'.id_handlers \subseteq conn.id_handlers \cup {"legacy"}
        /\ calls' \subseteq calls /\ \A call \in calls' : call.handler \in conn'.handlers
    BY <1>2, <2>1 DEF SameWaits
  <2>9. Offered' => ~Tried' /\ conn'.sasl_support = {}
    BY <1>8, <2>1, <2>5 DEF SameSasl
  <2>10. Going'
    BY <1>1, <1>2, <1>6, <1>7, <2>1, <2>2, <2>4, <2>6, <2>7, <2>8, <2>9, CalmGoing
  <2> QED
    BY <2>2, <2>10
<1> QED
  BY <1>10, <1>11

\* Nothing has been sent or answered.
LEMMA NothingAsked ==
  ASSUME server.answered = 0, conn.sent = <<>>
  PROVE  /\ \A x : ~Left(x) /\ OneLeft(x) /\ OneAsked(x)
         /\ \A R : ~Asked(R)
         /\ ~Tried
<1>1. DOMAIN conn.sent = {} /\ server.answered + 1 .. Len(conn.sent) = {}
  OBVIOUS
<1> QED
  BY <1>1 DEF Left, OneLeft, OneAsked, Asked, Tried

\* An empty sequence has nothing.
LEMMA HasNone ==
  /\ \A S : ~Has(<<>>, S) /\ One(<<>>, S)
  /\ Ended(<<>>)
BY DEF Has, One, Ended

\* The messenger knows of nothing before the socket has connected.
LEMMA InitTold ==
  ASSUME Init
  PROVE  Told
<1>1. /\ conn.state = "CONNECTING" /\ conn.open_handler = "auth_handle_open"
      /\ conn.handlers = {} /\ conn.id_handlers = {}
      /\ conn.sasl_support = {} /\ conn.sent = <<>> /\ conn.events = <<>>
      /\ calls = {} /\ Pipe = <<>>
      /\ server.answered = 0 /\ ~server.authenticated
  BY DEF Init, Pipe
<1>2. /\ \A x : ~Left(x) /\ OneLeft(x) /\ OneAsked(x)
      /\ \A R : ~Asked(R)
      /\ ~Tried
  BY <1>1, NothingAsked
<1>3. /\ \A S : ~Has(Pipe, S) /\ One(Pipe, S)
      /\ Ended(Pipe)
  BY <1>1, HasNone
<1>4. First /\ Bare /\ ~Succeeds /\ ~Offered
  BY <1>1, <1>3 DEF First, Bare, Succeeds, Offered
<1>5. Start
  <2>1. server.answered <= Len(conn.sent)
    BY <1>1
  <2> QED
    BY <1>1, <1>3, <1>4, <2>1 DEF Start, Waited
<1>6. CallsMatch /\ OpensOnce /\ TriesReady
  BY <1>1, <1>2, <1>3 DEF CallsMatch, OpensOnce, TriesReady
<1>7. SecuredOnce
  BY <1>1, <1>2, <1>3 DEF SecuredOnce
<1>8. OfferedFirst /\ Once /\ OnceBound
  BY <1>1, <1>3, <1>4 DEF OfferedFirst, Once, OnceBound
<1>9. Going
  BY <1>1, <1>5, <1>6, <1>7, <1>8 DEF Going
<1> QED
  BY <1>1, <1>9 DEF Told

\* The end is told, after a success, after an end or first.
LEMMA EndIsTold ==
  ASSUME NEW s \in Seq({"CONNECT", "DISCONNECT"}), \A i \in DOMAIN s : s[i] = "CONNECT" => i = 1,
         NEW u, u = Append(s, "DISCONNECT")
  PROVE  EndTold(u) /\ Len(u) = Len(s) + 1
<1>1. Len(s) \in Nat /\ DOMAIN s = 1 .. Len(s) /\ DOMAIN u = 1 .. Len(u) /\ Len(u) = Len(s) + 1
  OBVIOUS
<1>2. u[Len(u)] = "DISCONNECT" /\ \A i \in 1 .. Len(s) : u[i] = s[i]
  OBVIOUS
<1>3. \A i \in 1 .. Len(u) : i \in 1 .. Len(s) \/ i = Len(u)
  BY <1>1
<1>4. Len(u) \in 1 .. Len(u)
  BY <1>1
<1> QED
  BY <1>1, <1>2, <1>3, <1>4 DEF EndTold

\* Nothing, or a success, was told.
LEMMA OneAtMost ==
  ASSUME NEW s, s \in {<<>>, <<"CONNECT">>}
  PROVE  /\ s \in Seq({"CONNECT", "DISCONNECT"}) /\ Len(s) \in {0, 1} /\ (s = <<>> => Len(s) = 0)
         /\ \A i \in DOMAIN s : s[i] = "CONNECT" => i = 1
         /\ \A i \in DOMAIN s : s[i] # "DISCONNECT"
<1>1. CASE s = <<>>
  BY <1>1
<1>2. CASE s = <<"CONNECT">>
  <2>1. s \in Seq({"CONNECT", "DISCONNECT"}) /\ s # <<>>
    BY <1>2
  <2>2. Len(s) = 1
    BY <1>2
  <2>3. DOMAIN s = {1} /\ s[1] = "CONNECT"
    BY <1>2
  <2> QED
    BY <2>1, <2>2, <2>3
<1> QED
  BY <1>1, <1>2

\* A closing told, after a success that leaves nothing of the read but what is no XML.
LEMMA ThreeAtMost ==
  ASSUME NEW a \in {0, 1}, NEW b \in {0, 1}, NEW d \in {0, 1}, a = 0 \/ b = 0,
         NEW m, m = a + 1, NEW n, n = b + d
  PROVE  m + n <= 3
OBVIOUS

\* Nothing, or one, and what is part of three, is no more than three.
LEMMA FewAtMost ==
  /\ \A n \in {0, 1} : n <= 3
  /\ \A n, k, d \in Nat : n + (k + d) <= 3 => n <= 3
OBVIOUS

\* One more told for one less of the rest.
LEMMA NoMore ==
  ASSUME NEW k \in Nat, NEW a \in Nat, NEW b \in Nat, k + a <= 3, b + 1 <= a, NEW m, m = k + 1
  PROVE  m + b <= 3
OBVIOUS

\* The connection is closed, which is told.
LEMMA CloseTold ==
  ASSUME Going, conn'.state = "DISCONNECTED", conn'.events = Append(conn.events, "DISCONNECT"), calls' = {},
         buffer' \in {<<>>, <<Item("end")>>}, buffer' = <<>> \/ conn.events = <<>>
  PROVE  Told'
<1>1. /\ conn.events \in Seq({"CONNECT", "DISCONNECT"}) /\ Len(conn.events) \in {0, 1}
      /\ \A i \in DOMAIN conn.events : conn.events[i] = "CONNECT" => i = 1
      /\ conn.events = <<>> => Len(conn.events) = 0
  <2>1. conn.events \in {<<>>, <<"CONNECT">>}
    BY DEF Going
  <2> QED
    BY <2>1, OneAtMost, Zenon
<1>2. EndTold(conn'.events) /\ Len(conn'.events) = Len(conn.events) + 1
  BY <1>1, EndIsTold
<1> DEFINE d == IF malformed' THEN 1 ELSE 0
<1>3. d \in {0, 1}
  OBVIOUS
<1>4. RestOfRead' = Len(buffer') + d
  BY DEF RestOfRead
<1> HIDE DEF d
<1>5. Len(buffer') \in {0, 1} /\ (buffer' = <<>> => Len(buffer') = 0)
  <2>1. \A x : Len(<<x>>) = 1
    OBVIOUS
  <2>2. Len(<<>>) = 0
    OBVIOUS
  <2> HIDE DEF Item
  <2> QED
    BY <2>1, <2>2
<1>6. Len(conn.events) = 0 \/ Len(buffer') = 0
  BY <1>1, <1>5, Zenon
<1>7. Len(conn'.events) + RestOfRead' <= 3
  BY <1>1, <1>2, <1>3, <1>4, <1>5, <1>6, ThreeAtMost, Zenon
<1> QED
  BY <1>2, <1>7 DEF Told

\* The stream is opened, or the attempt to connect fails.
LEMMA ConnectTold ==
  ASSUME LoginInv, Going, Connect
  PROVE  Told'
<1>1. /\ conn.state = "CONNECTING" /\ buffer' = buffer /\ calls' = calls
      /\ server' = server /\ tls_new' = tls_new /\ toClient' = toClient
  BY DEF Connect, Outside
<1>2. /\ server.answered = 0 /\ conn.sent = <<>> /\ calls = {} /\ Pipe = <<>>
      /\ conn.handlers = {} /\ conn.id_handlers = {}
      /\ conn.sasl_support = {} /\ First /\ conn.events = <<>> /\ ~server.authenticated
  BY <1>1 DEF Going, Start, Waited
<1>3. Sound(conn) /\ TypeOK
  BY SoundConn DEF LoginInv
<1>4. Pipe' = <<>>
  BY <1>1, <1>2 DEF Pipe
<1>5. CASE conn' = Disconnect(conn)
  <2>1. conn'.state = "DISCONNECTED" /\ conn'.events = Append(conn.events, "DISCONNECT")
    BY <1>3, <1>5, DisconnectEffect
  <2>2. buffer = <<>>
    <3>1. buffer \in Seq(Items) /\ toClient \in Seq(Items)
      BY <1>3 DEF TypeOK
    <3> HIDE DEF Items
    <3> QED
      BY <1>2, <3>1 DEF Pipe
  <2> QED
    BY <1>1, <1>2, <2>1, <2>2, CloseTold
<1>6. CASE conn' = Send([conn EXCEPT !.state = "CONNECTED"], "stream")
  <2> DEFINE c == [conn EXCEPT !.state = "CONNECTED"]
  <2>1. /\ c \in Connections /\ c.state = "CONNECTED" /\ c.open_handler = conn.open_handler
        /\ SameWaits(conn, c) /\ c.sent = conn.sent /\ c.events = conn.events /\ c.sasl_support = conn.sasl_support
    BY <1>3 DEF Sound, Connections, SameWaits
  <2> HIDE DEF c
  <2>2. Kept(c, conn') /\ SameSasl(c, conn') /\ SameWaits(c, conn') /\ Adds(c, conn', "stream")
    <3>1. conn' = Send(c, "stream")
      BY <1>6 DEF c
    <3> QED
      BY <2>1, <3>1, SendEffect
  <2>3. /\ conn'.state = "CONNECTED" /\ conn'.open_handler = conn.open_handler /\ conn'.events = <<>>
        /\ conn'.handlers = {} /\ conn'.id_handlers = {} /\ conn'.sasl_support = {}
        /\ conn'.sent = Append(conn.sent, "stream")
    BY <1>2, <2>1, <2>2 DEF Kept, SameSasl, SameWaits, Adds
  <2>4. /\ \A x : ~Left(x) /\ OneLeft(x) /\ OneAsked(x)
        /\ \A R : ~Asked(R)
        /\ ~Tried
    BY <1>2, NothingAsked
  <2>5. Sends("stream")
    BY <1>1, <1>3, <2>3, SentOne
  <2>6. "stream" \notin Mechanisms
    BY DEF Mechanisms
  <2>7. /\ \A x : Left(x)' => x = "stream"
        /\ OneLeft("stream")' /\ OneAsked("starttls")'
        /\ ~Asked({"response"})' /\ ~Tried'
    BY <2>4, <2>5, <2>6 DEF Sends, Tried
  <2>8. /\ \A S : ~Has(Pipe', S) /\ One(Pipe', S)
        /\ Ended(Pipe')
    BY <1>4, HasNone
  <2>9. First' /\ Bare' /\ ~Succeeds' /\ ~Offered'
    BY <1>1, <1>2, <2>3, <2>8 DEF First, Bare, Succeeds, Offered
  <2>10. Start'
    <3>1. conn'.sent = <<"stream">>
      <4>1. Append(<<>>, "stream") = <<"stream">>
        OBVIOUS
      <4> QED
        BY <1>2, <2>3, <4>1, Zenon
    <3>2. (server.answered <= Len(conn.sent))'
      BY <1>1, <1>2, <3>1
    <3>3. (server.answered = 0 =>
             /\ Waited({}, {}) /\ calls = {} /\ Pipe = <<>> /\ conn.sent \in {<<>>, <<"stream">>}
             /\ conn.sasl_support = {} /\ First /\ conn.events = <<>> /\ ~server.authenticated)'
      BY <1>1, <1>2, <1>4, <2>3, <2>9, <3>1 DEF Waited
    <3>4. (conn.state = "CONNECTING" => server.answered = 0 /\ conn.sent = <<>>)'
      BY <2>3
    <3>5. (Has(Pipe, BadOpenings) =>
             /\ Pipe \in {<<Item("bad header")>>, <<Item("bad header"), Item("end")>>}
             /\ server.answered = Len(conn.sent) /\ conn.events = <<>>
             /\ Waited({}, {}) /\ calls = {})'
      BY <2>8, Zenon
    <3>6. (Has(Pipe, Enders) => server.done)' /\ Ended(Pipe)'
      BY <2>8, Zenon
    <3> QED
      BY <3>2, <3>3, <3>4, <3>5, <3>6, Zenon DEF Start
  <2>11. CallsMatch' /\ OpensOnce' /\ TriesReady'
    BY <1>1, <1>2, <2>3, <2>7, <2>8 DEF CallsMatch, OpensOnce, TriesReady
  <2>12. SecuredOnce'
    BY <1>1, <1>2, <2>3, <2>7, <2>8 DEF SecuredOnce
  <2>13. OfferedFirst' /\ Once' /\ OnceBound'
    BY <2>3, <2>8, <2>9 DEF OfferedFirst, Once, OnceBound
  <2>14. Going'
    BY <2>3, <2>10, <2>11, <2>12, <2>13 DEF Going
  <2> QED
    BY <2>3, <2>14 DEF Told
<1> QED
  BY <1>5, <1>6 DEF Connect

\* No handler of a stanza closes the connection.
LEMMA CallStays ==
  ASSUME LoginInv, NEW h \in Waits \cup SaslHandlers \cup {"proceedtls"}, NEW item, Handles(h, item)
  PROVE  conn'.state = "CONNECTED"
<1>1. Sound(conn) /\ conn.state = "CONNECTED" /\ (h \in Waits => item \in Features)
  BY SoundConn DEF LoginInv, Handles
<1>2. PICK handshake : conn' = HandleStanza(conn, h, item, handshake)
  BY DEF Handles
<1>3. CASE h = "features"
  <2>1. conn' = HandleFeatures(conn, item) /\ item \in Features
    BY <1>1, <1>2, <1>3 DEF HandleStanza, Waits
  <2>2. PICK e, r : Kept(conn, e) /\ Authenticates(e, conn', r)
    BY <1>1, <2>1, FeaturesEffect
  <2> QED
    BY <1>1, <2>2 DEF Authenticates, Kept
<1>4. CASE h = "features_sasl"
  <2>1. conn' = HandleFeaturesSasl(conn, item) /\ item \in Features
    BY <1>1, <1>2, <1>4 DEF HandleStanza, Waits
  <2>2. Kept(conn, conn')
    BY <1>1, <2>1, FeaturesSaslEffect
  <2> QED
    BY <1>1, <2>2 DEF Kept
<1>5. CASE h = "proceedtls"
  <2>1. conn' = HandleProceedtls(conn, item.kind, handshake)
    BY <1>2, <1>5 DEF HandleStanza
  <2>2. Secures(conn, conn', item.kind)
    BY <1>1, <2>1, ProceedtlsEffect
  <2> QED
    BY <1>1, <2>2 DEF Secures
<1>6. CASE h \in SaslHandlers
  <2>1. h \notin {"features", "features_sasl", "proceedtls"}
    BY <1>6 DEF SaslHandlers, Mechanisms
  <2>2. conn' = HandleSasl(conn, h, item.kind)
    BY <1>2, <2>1 DEF HandleStanza
  <2>3. Tries(conn, conn', h, item.kind)
    BY <1>1, <1>6, <2>2, SaslEffect
  <2>4. ASSUME NEW e, NEW r, Authenticates(conn, e, r), Removed(e, conn', h) PROVE conn'.state = conn.state
    BY <2>4 DEF Authenticates, Removed, Kept
  <2> QED
    BY <1>1, <2>3, <2>4 DEF Tries, Kept
<1> QED
  BY <1>3, <1>4, <1>5, <1>6 DEF Waits

\* What is parsed of what the server sent.
LEMMA ParseTold ==
  ASSUME LoginInv, Going, Parse, conn.state # "DISCONNECTED"
  PROVE  Told'
<1>1. PICK item : item = Head(Pipe) /\ Pipe # <<>> /\ Parses(item, Tail(Pipe))
  BY ParseFirst
<1>2. /\ item \in Items /\ conn' = HandleItem(conn, item)
      /\ calls' = {[handler |-> h, item |-> item] : h \in Waiting(conn, item)}
      /\ server' = server
  BY <1>1 DEF Parses
<1>3. Sound(conn) /\ TypeOK
  BY SoundConn DEF LoginInv
<1>4. Pipe \in Seq(Items)
  <2>1. buffer \in Seq(Items) /\ toClient \in Seq(Items)
    BY <1>3 DEF TypeOK
  <2> HIDE DEF Items
  <2> QED
    BY <2>1, ConcatProperties DEF Pipe
<1>5. conn.id_handlers \subseteq Steps
  BY <1>3 DEF Sound, Connections
<1>6. item.kind \notin {"features"} \cup TlsItems \cup SaslItems => calls' = {}
  <2>1. item.kind \notin {"features"} \cup TlsItems \cup SaslItems => Waiting(conn, item) = {}
    BY DEF Waiting
  <2> QED
    BY <1>2, <2>1
<1>7. /\ item.kind = "header" => conn' = AwaitFeatures(conn)
      /\ item.kind \in {"bad header", "end"} => Closes(item.kind)
      /\ item.kind \in conn.id_handlers => conn' = HandleReply(conn, item.kind, item.type)
      /\ item.kind \notin conn.id_handlers \cup {"header", "bad header", "end"} => conn' = conn
  BY <1>2, <1>3, ItemEffect
<1>8. CASE item.kind \in {"bad header", "end"}
  <2>1. conn'.state = "DISCONNECTED" /\ conn'.events = Append(conn.events, "DISCONNECT")
    BY <1>7, <1>8 DEF Closes
  <2>2. calls' = {}
    BY <1>6, <1>8 DEF TlsItems, SaslItems
  <2>3. CASE item.kind = "end"
    <3>1. item \in Enders
      BY <1>2, <2>3 DEF Enders, Of
    <3>2. Tail(Pipe) = <<>>
      <4>1. Ended(Pipe)
        BY DEF Going, Start
      <4>2. 1 \in DOMAIN Pipe /\ Pipe[1] = item /\ Len(Pipe) \in Nat /\ Len(Tail(Pipe)) = Len(Pipe) - 1
            /\ Tail(Pipe) \in Seq(Items)
        <5> HIDE DEF Items
        <5> QED
          BY <1>1, <1>4
      <4>3. Len(Pipe) = 1
        BY <3>1, <4>1, <4>2 DEF Ended
      <4>4. Len(Tail(Pipe)) = 0
        BY <4>2, <4>3
      <4> QED
        BY <4>2, <4>4, EmptySeq
    <3>3. buffer' = <<>>
      BY <1>1, <3>2 DEF Parses
    <3> QED
      BY <2>1, <2>2, <3>3, CloseTold
  <2>4. CASE item.kind = "bad header"
    <3>1. Has(Pipe, BadOpenings)
      <4>1. item \in BadOpenings
        BY <1>2, <2>4 DEF BadOpenings, Of
      <4>2. \A S : Head(Pipe) \in S => Has(Pipe, S)
        BY <1>1, <1>4, HasTail
      <4> QED
        BY <1>1, <4>1, <4>2
    <3>2. Pipe \in {<<Item("bad header")>>, <<Item("bad header"), Item("end")>>} /\ conn.events = <<>>
      BY <3>1 DEF Going, Start
    <3>3. Tail(Pipe) = <<>> \/ Tail(Pipe) = <<Item("end")>>
      <4>1. Tail(<<Item("bad header")>>) = <<>> /\ Tail(<<Item("bad header"), Item("end")>>) = <<Item("end")>>
        BY Firsts, Zenon
      <4>2. Pipe = <<Item("bad header")>> \/ Pipe = <<Item("bad header"), Item("end")>>
        BY <3>2, Zenon
      <4> QED
        BY <4>1, <4>2, Zenon
    <3>4. buffer' \in {<<>>, <<Item("end")>>}
      BY <1>1, <3>3 DEF Parses
    <3> QED
      BY <2>1, <2>2, <3>2, <3>4, CloseTold
  <2> QED
    BY <1>8, <2>3, <2>4
<1>9. CASE item.kind \notin {"bad header", "end"}
  <2>1. Goes(item)
    BY <1>1, <1>9, ParseGoes
  <2>2. conn.state = "CONNECTED"
    BY <2>1 DEF Goes
  <2>3. CASE item.kind = "header"
    <3>1. calls' = {} /\ conn' = AwaitFeatures(conn)
      BY <1>6, <1>7, <2>3 DEF TlsItems, SaslItems
    <3>2. Going'
      BY <2>1, <2>3, <3>1, HeaderGoing
    <3>3. conn'.state = "CONNECTED"
      BY <1>3, <2>2, <3>1, AwaitFeaturesEffect DEF Kept
    <3> QED
      BY <3>2, <3>3 DEF Told
  <2>4. CASE item.kind \in conn.id_handlers
    <3>1. item.kind \in Steps
      BY <1>5, <2>4
    <3>2. calls' = {} /\ conn' = HandleReply(conn, item.kind, item.type)
      BY <1>6, <1>7, <2>4, <3>1 DEF Steps, TlsItems, SaslItems
    <3>3. Going'
      BY <2>1, <2>4, <3>2, ReplyGoing
    <3>4. conn'.state = "CONNECTED"
      BY <1>3, <2>2, <3>1, <3>2, ReplyEffect
    <3> QED
      BY <3>3, <3>4 DEF Told
  <2>5. CASE item.kind \notin conn.id_handlers \cup {"header", "bad header", "end"}
    <3>1. conn' = conn /\ calls = {}
      BY <1>7, <2>5 DEF Parse
    <3>2. Going'
      BY <1>2, <2>1, <3>1, PlainGoing
    <3> QED
      BY <2>2, <3>1, <3>2 DEF Told
  <2> QED
    BY <1>9, <2>3, <2>4, <2>5
<1> QED
  BY <1>8, <1>9

\* After the end the rest of the read may tell it again.
LEMMA AgainTold ==
  ASSUME TypeOK, Told, conn.state = "DISCONNECTED", conn'.state = "DISCONNECTED",
         conn'.events = Append(conn.events, "DISCONNECT"), calls' = {}, buffer' = <<>>,
         RestOfRead' + 1 <= RestOfRead
  PROVE  Told'
<1>1. conn.events \in Seq({"CONNECT", "DISCONNECT"})
  BY DEF TypeOK, Connections
<1>2. EndTold(conn'.events) /\ Len(conn'.events) = Len(conn.events) + 1
  <2>1. \A i \in DOMAIN conn.events : conn.events[i] = "CONNECT" => i = 1
    BY DEF Told, EndTold
  <2> QED
    BY <1>1, <2>1, EndIsTold
<1>3. Len(conn.events) \in Nat /\ RestOfRead \in Nat /\ RestOfRead' \in Nat
  <2> DEFINE b == Len(buffer)
             d == IF malformed THEN 1 ELSE 0
             f == IF malformed' THEN 1 ELSE 0
  <2>1. b \in Nat
    <3>1. buffer \in Seq(Items)
      BY DEF TypeOK
    <3> HIDE DEF Items
    <3> QED
      BY <3>1
  <2>2. d \in Nat /\ f \in Nat
    OBVIOUS
  <2>3. Len(buffer') = 0
    OBVIOUS
  <2>4. RestOfRead = b + d /\ RestOfRead' = Len(buffer') + f
    BY DEF RestOfRead
  <2> HIDE DEF b, d, f
  <2> QED
    BY <1>1, <2>1, <2>2, <2>3, <2>4
<1>4. Len(conn.events) + RestOfRead <= 3
  BY DEF Told
<1>5. Len(conn'.events) + RestOfRead' <= 3
  BY <1>2, <1>3, <1>4, NoMore, Zenon
<1> QED
  BY <1>2, <1>5 DEF Told

\* The end that follows an opening tag that does not open a stream is parsed.
LEMMA DownTold ==
  ASSUME LoginInv, Told, Parse, conn.state = "DISCONNECTED"
  PROVE  Told'
<1>1. buffer # <<>>
  BY DEF Parse
<1>2. buffer = <<Item("end")>>
  BY <1>1 DEF Told
<1>3. Head(buffer) = Item("end") /\ Tail(buffer) = <<>>
  BY <1>2, Firsts
<1>4. PICK item : item = Item("end")
  OBVIOUS
<1>5. item.kind = "end" /\ item \in Items
  BY <1>4, Kinds, Zenon
<1>6. Sound(conn) /\ TypeOK
  BY SoundConn DEF LoginInv
<1>7. /\ conn' = HandleItem(conn, item) /\ calls' = {[handler |-> h, item |-> item] : h \in Waiting(conn, item)}
      /\ buffer' = <<>> /\ malformed' = malformed
  BY <1>3, <1>4, <1>5 DEF Parse, Outside
<1>8. Closes("end")
  BY <1>5, <1>6, <1>7, ItemEffect
<1>9. calls' = {}
  <2>1. Waiting(conn, item) = {}
    BY <1>5 DEF Waiting, TlsItems, SaslItems
  <2> QED
    BY <1>7, <2>1
<1>10. conn'.state = "DISCONNECTED" /\ conn'.events = Append(conn.events, "DISCONNECT")
  BY <1>8 DEF Closes
<1>11. RestOfRead' + 1 <= RestOfRead
  <2> DEFINE d == IF malformed THEN 1 ELSE 0
  <2>1. d \in Nat
    OBVIOUS
  <2>2. Len(buffer) = 1 /\ Len(buffer') = 0
    <3>1. \A x : Len(<<x>>) = 1
      OBVIOUS
    <3>2. Len(<<>>) = 0
      OBVIOUS
    <3> HIDE DEF Item
    <3> QED
      BY <1>2, <1>7, <3>1, <3>2
  <2>3. RestOfRead = Len(buffer) + d /\ RestOfRead' = Len(buffer') + d
    BY <1>7 DEF RestOfRead
  <2> HIDE DEF d
  <2> QED
    BY <2>1, <2>2, <2>3
<1> QED
  BY <1>6, <1>7, <1>9, <1>10, <1>11, AgainTold

\* What is no XML is come to, which closes the connection, once more if need be.
LEMMA FailsTold ==
  ASSUME LoginInv, Told, ParseFails
  PROVE  Told'
<1>1. /\ malformed /\ malformed' = FALSE /\ buffer = <<>> /\ buffer' = <<>> /\ calls' = {}
      /\ conn' = Disconnect(conn)
  BY DEF ParseFails
<1>2. Sound(conn) /\ TypeOK
  BY SoundConn DEF LoginInv
<1>3. conn'.state = "DISCONNECTED" /\ conn'.events = Append(conn.events, "DISCONNECT")
  BY <1>1, <1>2, DisconnectEffect
<1>4. CASE conn.state # "DISCONNECTED"
  <2>1. Going
    BY <1>4 DEF Told
  <2> QED
    BY <1>1, <1>3, <2>1, CloseTold
<1>5. CASE conn.state = "DISCONNECTED"
  <2>1. RestOfRead = Len(buffer) + 1 /\ RestOfRead' = Len(buffer') + 0
    BY <1>1 DEF RestOfRead
  <2>2. Len(buffer) = 0 /\ Len(buffer') = 0
    BY <1>1
  <2>3. RestOfRead' + 1 <= RestOfRead
    BY <2>1, <2>2
  <2> QED
    BY <1>1, <1>2, <1>3, <1>5, <2>3, AgainTold
<1> QED
  BY <1>4, <1>5

\* What the messenger is told, in every step.
LEMMA NextTold ==
  ASSUME LoginInv, TlsInv, Told, [Next]_vars
  PROVE  Told'
<1>1. Sound(conn) /\ TypeOK
  BY SoundConn DEF LoginInv
<1>2. conn.state # "DISCONNECTED" => Going
  BY DEF Told
<1>3. CASE Connect
  BY <1>2, <1>3, ConnectTold DEF Connect
<1>4. CASE Read \/ ReadMalformed
  <2>1. conn.state = "CONNECTED" /\ conn' = conn
    BY <1>1, <1>4, Reads DEF ReadUpTo, AtRest
  <2>2. Going'
    BY <1>2, <1>4, <2>1, ReadGoing
  <2> QED
    BY <2>1, <2>2 DEF Told
<1>5. CASE Parse
  BY <1>2, <1>5, ParseTold, DownTold
<1>6. CASE Call
  <2>1. conn.state # "DISCONNECTED"
    BY <1>6 DEF Told, Call
  <2>2. Going'
    BY <1>2, <1>6, <2>1, CallGoing
  <2>3. PICK h \in Waits \cup SaslHandlers \cup {"proceedtls"}, item \in Items : Handles(h, item)
    BY <1>2, <1>6, <2>1, CallHandles
  <2>4. conn'.state = "CONNECTED"
    BY <2>3, CallStays
  <2> QED
    BY <2>2, <2>4 DEF Told
<1>7. ASSUME NEW t \in Waits \cup Steps \cup {"cleanup"}, Fire(t) PROVE Told'
  <2>1. Going /\ conn.state = "CONNECTED" /\ buffer' = <<>> /\ calls' = {}
    BY <1>2, <1>7 DEF Fire, AtRest
  <2>2. CASE t # "cleanup"
    <3>1. t \in Waits \cup Steps
      BY <2>2
    <3>2. Going' /\ conn'.state = "CONNECTED"
      BY <1>7, <2>1, <3>1, FireGoing
    <3> QED
      BY <3>2 DEF Told
  <2>3. CASE t = "cleanup"
    <3>1. GivesUp(conn, conn', t)
      BY <1>1, <1>7, MissingEffect DEF Fire
    <3>2. conn'.state = "DISCONNECTED" /\ conn'.events = Append(conn.events, "DISCONNECT")
      BY <2>3, <3>1 DEF GivesUp
    <3> QED
      BY <2>1, <3>2, CloseTold
  <2> QED
    BY <2>2, <2>3
<1>8. CASE TearDown \/ Break
  <2>1. Going /\ buffer' = <<>> /\ calls' = {}
    BY <1>2, <1>8 DEF TearDown, Break, AtRest
  <2>2. PICK b : Sound(b) /\ b.events = conn.events /\ conn' = Disconnect(b)
    <3> DEFINE c == [conn EXCEPT !.error = TRUE]
    <3>1. Sound(c) /\ c.events = conn.events
      BY <1>1 DEF Sound, Matched, Connections
    <3> QED
      BY <1>1, <1>8, <3>1 DEF TearDown, Break
  <2>3. conn'.state = "DISCONNECTED" /\ conn'.events = Append(conn.events, "DISCONNECT")
    BY <2>2, DisconnectEffect
  <2> QED
    BY <2>1, <2>3, CloseTold
<1>9. CASE Answer
  <2>1. conn.state = "CONNECTED" /\ conn' = conn
    BY <1>9 DEF Answer
  <2>2. Going'
    BY <1>2, <1>9, <2>1, AnswerGoing
  <2> QED
    BY <2>1, <2>2 DEF Told
<1>10. CASE UNCHANGED vars
  <2>1. /\ conn' = conn /\ calls' = calls /\ server' = server /\ tls_new' = tls_new
        /\ buffer' = buffer /\ malformed' = malformed /\ Pipe' = Pipe
    BY <1>10 DEF vars, Pipe
  <2>2. conn.state # "DISCONNECTED" => Going'
    BY <1>2, <2>1, SameGoing
  <2> QED
    BY <2>1, <2>2 DEF Told, RestOfRead
<1>11. CASE ParseFails
  BY <1>11, FailsTold
<1> QED
  BY <1>3, <1>4, <1>5, <1>6, <1>7, <1>8, <1>9, <1>10, <1>11 DEF Next

\* The messenger is told of a success first or never, so at most once and never after the
\* end, which it is told of whenever the connection is closed, three times at most.
THEOREM EventsOrdered == Spec => []EventsInOrder
<1>1. Init => Told
  BY InitTold
<1>2. LoginInv /\ TlsInv /\ Told /\ [Next]_vars => Told'
  BY NextTold
<1>3. LoginInv /\ Told => EventsInOrder
  <2> SUFFICES ASSUME LoginInv, Told PROVE EventsInOrder
    OBVIOUS
  <2>1. CASE conn.state # "DISCONNECTED"
    <3>1. /\ \A i \in DOMAIN conn.events : conn.events[i] = "CONNECT" => i = 1
          /\ \A i \in DOMAIN conn.events : conn.events[i] # "DISCONNECT"
          /\ Len(conn.events) \in {0, 1}
      BY <2>1, OneAtMost, Zenon DEF Told, Going
    <3>2. Len(conn.events) <= 3
      BY <3>1, FewAtMost, Zenon
    <3> QED
      BY <2>1, <3>1, <3>2, Zenon DEF EventsInOrder
  <2>2. CASE conn.state = "DISCONNECTED"
    <3>1. EndTold(conn.events) /\ Len(conn.events) + RestOfRead <= 3
      BY <2>2 DEF Told
    <3>2. Len(conn.events) \in Nat /\ Len(buffer) \in Nat
      <4>1. conn.events \in Seq({"CONNECT", "DISCONNECT"}) /\ buffer \in Seq(Items)
        BY DEF LoginInv, TypeOK, Connections
      <4> HIDE DEF Items
      <4> QED
        BY <4>1
    <3>3. Len(conn.events) <= 3
      <4> DEFINE d == IF malformed THEN 1 ELSE 0
      <4>1. d \in Nat /\ RestOfRead = Len(buffer) + d
        BY DEF RestOfRead
      <4> HIDE DEF d
      <4>2. Len(conn.events) + (Len(buffer) + d) <= 3
        BY <3>1, <4>1, Zenon
      <4> QED
        BY <3>2, <4>1, <4>2, FewAtMost, Zenon
    <3> QED
      BY <2>2, <3>1, <3>3, Zenon DEF EndTold, EventsInOrder
  <2> QED
    BY <2>1, <2>2
<1> QED
  BY <1>1, <1>2, <1>3, LoginInvariant, TurnsInvariant, PTL DEF Spec
=============================================================================
