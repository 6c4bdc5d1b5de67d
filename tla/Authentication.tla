--------------------------- MODULE Authentication ---------------------------
(***************************************************************************)
(* The login of one connection: the handlers of libstrophe's auth.c, called *)
(* by its event loop for what the server sends and for the timers they set, *)
(* from the connect to the event that MessengerImpl::ConnectionHandler is  *)
(* told, and on until the connection is closed.                            *)
(*                                                                         *)
(* A handler is an operator from a connection to the connection it leaves. *)
(* A connection is the record of the fields of xmpp_conn_t the login uses.  *)
(* A handler, its timer and its request bear the name of their step: "bind" *)
(* is _handle_bind, _handle_missing_bind and the request _xmpp_bind1.  The   *)
(* server may answer any request with anything the protocol lets it answer, *)
(* late or never; the socket may break.  Time is not counted: a timer that  *)
(* is set may fire whenever the loop looks at it.  Allocations succeed.      *)
(***************************************************************************)
EXTENDS Naturals, Sequences

CONSTANTS
  Offers,        \* the sets of SASL mechanisms the server may announce
  MaxResponses   \* bound: how many challenges the server asks to be answered

Strength   == <<"SCRAM-SHA-1", "DIGEST-MD5", "PLAIN">>
Mechanisms == {"SCRAM-SHA-1", "DIGEST-MD5", "PLAIN", "ANONYMOUS"}
Announced  == Mechanisms \cup {"other"}     \* "other" is one the client does not know

ASSUME LoginAssumption == Offers \subseteq SUBSET Announced /\ MaxResponses \in Nat

SaslHandlers == Mechanisms \cup {"rspauth"}
Steps        == {"bind", "session", "legacy"}
Waits        == {"features", "features_sasl"}
Requests     == {"stream", "starttls", "response", "close"} \cup Steps \cup Mechanisms

VARIABLES
  jid,       \* what the JID has: no node, a node, or a node and a resource
  tls_new,   \* whether the TLS library can be set up
  conn,      \* the connection
  buffer,    \* what the loop has read and not yet parsed
  malformed, \* whether what it has read ends in what is no XML
  calls,     \* the handlers still to be called for the stanza just parsed
  toClient,  \* what the server has sent and the loop has not read
  server     \* what the server has done: requests answered, and how far it is

vars == <<jid, tls_new, conn, buffer, malformed, calls, toClient, server>>

Connections ==
  [state : {"CONNECTING", "CONNECTED", "DISCONNECTED"},
   open_handler : {"auth_handle_open", "_handle_open_sasl"},
   handlers : SUBSET (Waits \cup SaslHandlers \cup {"proceedtls"}),
   id_handlers : SUBSET Steps,
   timed_handlers : SUBSET (Waits \cup Steps \cup {"cleanup"}),
   tls_support : BOOLEAN,
   secured : BOOLEAN,
   sasl_support : SUBSET Mechanisms,
   session_required : BOOLEAN,
   authenticated : BOOLEAN,
   error : BOOLEAN,
   sent : Seq(Requests),                       \* history: what was sent
   events : Seq({"CONNECT", "DISCONNECT"}),    \* history: what the messenger was told
   fired : SUBSET (Waits \cup Steps \cup {"cleanup"})]   \* history: the timers that fired

\* What the server sends.  A reply that is no result, and a challenge that cannot
\* be answered, stand for whatever else the handlers take for a failure.
Features == [kind : {"features"}, tls : BOOLEAN, mechanisms : SUBSET Announced,
             bind : BOOLEAN, session : BOOLEAN]
Replies  == [kind : Steps, type : {"result", "error"}]
TlsItems  == {"proceed", "tls failure"}
SaslItems == {"challenge", "bad challenge", "success", "failure"}
Plain     == [kind : {"header", "bad header", "error", "end"} \cup TlsItems \cup SaslItems]
Items     == Features \cup Replies \cup Plain

TypeOK ==
  /\ jid \in {"anonymous", "bare", "full"}
  /\ tls_new \in BOOLEAN
  /\ conn \in Connections
  /\ buffer \in Seq(Items)
  /\ malformed \in BOOLEAN
  /\ calls \in SUBSET [handler : Waits \cup SaslHandlers \cup {"proceedtls"}, item : Items]
  /\ toClient \in Seq(Items)
  /\ server \in [answered : Nat, fresh : BOOLEAN, secured : BOOLEAN,
                authenticated : BOOLEAN, done : BOOLEAN]

\* xmpp_connect_client has returned.
Init ==
  /\ jid \in {"anonymous", "bare", "full"}
  /\ tls_new \in BOOLEAN
  /\ conn = [state |-> "CONNECTING", open_handler |-> "auth_handle_open",
             handlers |-> {}, id_handlers |-> {}, timed_handlers |-> {},
             tls_support |-> FALSE, secured |-> FALSE, sasl_support |-> {},
             session_required |-> FALSE, authenticated |-> FALSE, error |-> FALSE,
             sent |-> <<>>, events |-> <<>>, fired |-> {}]
  /\ buffer = <<>>
  /\ malformed = FALSE
  /\ calls = {}
  /\ toClient = <<>>
  /\ server = [answered |-> 0, fresh |-> TRUE, secured |-> FALSE,
               authenticated |-> FALSE, done |-> FALSE]

-----------------------------------------------------------------------------
(* The connection, conn.c.                                                   *)

\* xmpp_send
Send(c, request) ==
  IF c.state = "CONNECTED" THEN [c EXCEPT !.sent = Append(@, request)] ELSE c

\* Variants with a plausible bug in each; no specification uses them.
EndStreamClosing(c) ==
  IF c.state = "DISCONNECTED" THEN c
  ELSE [Send(c, "close") EXCEPT !.timed_handlers = @ \cup {"cleanup"}, !.state = "CLOSING"]
EndStreamNoTimer(c) == Send(c, "close")

\* xmpp_disconnect
EndStream(c) ==
  IF c.state = "DISCONNECTED" THEN c
  ELSE [Send(c, "close") EXCEPT !.timed_handlers = @ \cup {"cleanup"}]

\* conn_disconnect
Disconnect(c) ==
  [c EXCEPT !.state = "DISCONNECTED", !.events = Append(@, "DISCONNECT")]

\* Variant: a wait that nothing ends.
AwaitForever(c, step) == Send([c EXCEPT !.id_handlers = @ \cup {step}], step)

\* A request that is answered by id, with a timer for the answer.
Await(c, step) ==
  Send([c EXCEPT !.id_handlers = @ \cup {step}, !.timed_handlers = @ \cup {step}], step)

\* The login has succeeded.
Established(c) == [c EXCEPT !.authenticated = TRUE, !.events = Append(@, "CONNECT")]

-----------------------------------------------------------------------------
(* The handlers, auth.c.                                                     *)

\* The mechanism _auth tries next, if there is one.
Candidates(c) == c.sasl_support \cap (IF jid = "anonymous" THEN {"ANONYMOUS"} ELSE Mechanisms \ {"ANONYMOUS"})
Strongest(S) ==
  CHOOSE m \in S : m = "ANONYMOUS" \/ \E i \in DOMAIN Strength :
                     Strength[i] = m /\ \A j \in 1 .. i - 1 : Strength[j] \notin S

\* Variant: the flag of a mechanism is not unset once it was tried.
AuthenticateKeepsFlag(c) ==
  LET d == [c EXCEPT !.tls_support = FALSE] IN
  IF c.tls_support /\ tls_new
  THEN Send([d EXCEPT !.handlers = @ \cup {"proceedtls"}], "starttls")
  ELSE IF Candidates(c) # {}
    THEN Send([d EXCEPT !.handlers = @ \cup {Strongest(Candidates(c))}], Strongest(Candidates(c)))
  ELSE IF jid = "full" THEN Await(d, "legacy") ELSE EndStream(d)

\* _auth: TLS first, then the mechanisms from the strongest on, then the legacy
\* protocol, which needs a resource.
Authenticate(c) ==
  IF c.tls_support /\ tls_new
  THEN Send([c EXCEPT !.handlers = @ \cup {"proceedtls"}, !.tls_support = FALSE], "starttls")
  ELSE LET d == [c EXCEPT !.tls_support = FALSE]
           m == Strongest(Candidates(c))
       IN  IF Candidates(c) # {}
             THEN Send([d EXCEPT !.handlers = @ \cup {m}, !.sasl_support = @ \ {m}], m)
           ELSE IF jid = "full" THEN Await(d, "legacy")
           ELSE EndStream(d)

\* auth_handle_open, _handle_open_sasl
AwaitFeatures(c) ==
  LET wait == IF c.open_handler = "auth_handle_open" THEN "features" ELSE "features_sasl"
  IN  [c EXCEPT !.handlers = @ \cup {wait}, !.timed_handlers = @ \cup {wait}]

\* _handle_stream_start: the open handler is called either way.
HandleStreamStart(c, valid) == AwaitFeatures(IF valid THEN c ELSE Disconnect(c))

\* _handle_features
HandleFeatures(c, f) ==
  Authenticate([c EXCEPT !.handlers = @ \ {"features"},
                         !.timed_handlers = @ \ {"features"},
                         !.tls_support = @ \/ (f.tls /\ ~c.secured),
                         !.sasl_support = @ \cup (f.mechanisms \cap Mechanisms)])

\* _handle_proceedtls_default and conn_tls_start: an answer other than "proceed"
\* is dropped; the handshake succeeds, fails, or cannot be begun.
HandleProceedtls(c, kind, handshake) ==
  LET d == [c EXCEPT !.handlers = @ \ {"proceedtls"}]
  IN  IF kind # "proceed" THEN d
      ELSE IF handshake = "succeeds"
        THEN Send([d EXCEPT !.secured = TRUE, !.open_handler = "auth_handle_open"], "stream")
        ELSE EndStream([d EXCEPT !.error = @ \/ handshake = "fails"])

\* Variant: a failure is not followed by the next mechanism.
HandleSaslResultStops(c, kind) ==
  IF kind = "success" THEN Send([c EXCEPT !.open_handler = "_handle_open_sasl"], "stream") ELSE c

\* _handle_sasl_result
HandleSaslResult(c, kind) ==
  CASE kind = "failure" -> Authenticate(c)
    [] kind = "success" -> Send([c EXCEPT !.open_handler = "_handle_open_sasl"], "stream")
    [] OTHER            -> EndStream(c)

\* Variant: the handler of the challenge stays when that of rspauth is added.
HandleSaslStays(c, h, kind) ==
  CASE h \in {"SCRAM-SHA-1", "rspauth"} /\ kind = "challenge" -> Send(c, "response")
    [] h = "DIGEST-MD5" /\ kind = "challenge" ->
         Send([c EXCEPT !.handlers = @ \cup {"rspauth"}], "response")
    [] OTHER -> [HandleSaslResult(c, kind) EXCEPT !.handlers = @ \ {h}]

\* The four handlers of SASL stanzas.  SCRAM-SHA-1 and rspauth stay for the next
\* stanza after a challenge; DIGEST-MD5 gives way to rspauth, which does not look at what
\* the challenge says; the others know of none.  A handler that is done is taken off
\* the list once it has returned: until then adding it again adds nothing.
HandleSasl(c, h, kind) ==
  CASE h = "SCRAM-SHA-1" /\ kind = "challenge" -> Send(c, "response")
    [] h = "rspauth" /\ kind \in {"challenge", "bad challenge"} -> Send(c, "response")
    [] h = "DIGEST-MD5" /\ kind = "challenge" ->
         Send([c EXCEPT !.handlers = (@ \cup {"rspauth"}) \ {h}], "response")
    [] OTHER -> [HandleSaslResult(c, kind) EXCEPT !.handlers = @ \ {h}]

\* _handle_features_sasl
HandleFeaturesSasl(c, f) ==
  LET d == [c EXCEPT !.handlers = @ \ {"features_sasl"},
                     !.timed_handlers = @ \ {"features_sasl"},
                     !.session_required = @ \/ f.session]
  IN  IF f.bind THEN Await(d, "bind") ELSE EndStream(d)

\* Variants: the timer outlives the reply; a bind ends the login although a session
\* is needed; an error does not.
HandleReplyKeepsTimer(c, step, type) ==
  LET d == [c EXCEPT !.id_handlers = @ \ {step}]
  IN  IF type # "result" THEN EndStream(d) ELSE Established(d)
HandleReplyEager(c, step, type) ==
  LET d == [c EXCEPT !.id_handlers = @ \ {step}, !.timed_handlers = @ \ {step}]
      e == IF step = "bind" /\ d.session_required THEN Await(d, "session") ELSE d
  IN  IF type # "result" THEN EndStream(d) ELSE Established(e)
HandleReplyFallsThrough(c, step, type) ==
  LET d == [c EXCEPT !.id_handlers = @ \ {step}, !.timed_handlers = @ \ {step}]
  IN  Established(IF type # "result" THEN EndStream(d) ELSE d)

\* _handle_bind, _handle_session, _handle_legacy
HandleReply(c, step, type) ==
  LET d == [c EXCEPT !.id_handlers = @ \ {step}, !.timed_handlers = @ \ {step}]
  IN  IF type # "result" THEN EndStream(d)
      ELSE IF step = "bind" /\ d.session_required THEN Await(d, "session")
      ELSE Established(d)

\* The _handle_missing_... handlers and _disconnect_cleanup, with what
\* handler_fire_timed does once they have returned.
HandleMissing(c, t) ==
  LET d == CASE t = "features" -> Authenticate(c)
             [] t = "cleanup"  -> Disconnect(c)
             [] OTHER          -> EndStream(c)
  IN  [d EXCEPT !.timed_handlers = @ \ {t}, !.fired = @ \cup {t}]

\* The handlers a stanza goes to: those for the features have their namespace and
\* name; those of TLS and of SASL, which ask for no name, have the namespace of the
\* stanza or of a child, as <starttls> and <mechanisms> are of the features.
Waiting(c, item) ==
  c.handlers \cap
    (CASE item.kind = "features"   -> Waits
                                      \cup (IF item.tls THEN {"proceedtls"} ELSE {})
                                      \cup (IF item.mechanisms # {} THEN SaslHandlers ELSE {})
       [] item.kind \in TlsItems  -> {"proceedtls"}
       [] item.kind \in SaslItems -> SaslHandlers
       [] OTHER                   -> {})

\* A handler of the list is called.
HandleStanza(c, h, item, handshake) ==
  CASE h = "features"      -> HandleFeatures(c, item)
    [] h = "features_sasl" -> HandleFeaturesSasl(c, item)
    [] h = "proceedtls"    -> HandleProceedtls(c, item.kind, handshake)
    [] OTHER               -> HandleSasl(c, h, item.kind)

\* What is no stanza, and a reply, which has an id: one handler at most.
HandleItem(c, item) ==
  CASE item.kind \in {"header", "bad header"} -> HandleStreamStart(c, item.kind = "header")
    [] item.kind \in c.id_handlers -> HandleReply(c, item.kind, item.type)
    [] item.kind = "end" -> Disconnect([c EXCEPT !.timed_handlers = @ \ {"cleanup"}])
    [] OTHER -> c

-----------------------------------------------------------------------------
(* The event loop, event.c.                                                  *)

Outside == <<jid, tls_new, malformed, toClient, server>>

\* The socket connects and the stream is opened, or the attempt fails or times out.
Connect ==
  /\ conn.state = "CONNECTING"
  /\ \/ conn' = Send([conn EXCEPT !.state = "CONNECTED"], "stream")
     \/ conn' = Disconnect(conn)
  /\ UNCHANGED <<buffer, calls, Outside>>

\* The loop is where it looks at the timers and the sockets.
AtRest == conn.state = "CONNECTED" /\ buffer = <<>> /\ ~malformed /\ calls = {}

\* sock_read: n of the items that have been sent are there.
ReadUpTo(n) ==
  /\ AtRest
  /\ ~conn.error
  /\ buffer' = SubSeq(toClient, 1, n)
  /\ toClient' = SubSeq(toClient, n + 1, Len(toClient))
  /\ UNCHANGED <<jid, tls_new, conn, calls, server>>

Read == (\E n \in 1 .. Len(toClient) : ReadUpTo(n)) /\ UNCHANGED malformed

\* What is no XML may come at any time, and after the end of the stream.
ReadMalformed == (\E n \in 0 .. Len(toClient) : ReadUpTo(n)) /\ malformed' = TRUE

\* parser_feed goes through what was read, even once the connection is closed.
\* The handlers that wait for a stanza are all called for it, and those they add
\* are not.
Parse ==
  /\ buffer # <<>>
  /\ calls = {}
  /\ conn' = HandleItem(conn, Head(buffer))
  /\ calls' = {[handler |-> h, item |-> Head(buffer)] : h \in Waiting(conn, Head(buffer))}
  /\ buffer' = Tail(buffer)
  /\ UNCHANGED Outside

\* handler_fire_stanza calls the next handler (in the order they were added in,
\* which is left open here).
Call ==
  /\ \E call \in calls, handshake \in {"succeeds", "fails", "cannot begin"} :
       /\ conn' = HandleStanza(conn, call.handler, call.item, handshake)
       /\ calls' = calls \ {call}
  /\ UNCHANGED <<buffer, Outside>>

\* parser_feed returns an error when it gets to what is no XML: the connection is
\* closed, once more if what came before it has closed it.
ParseFails ==
  /\ malformed
  /\ buffer = <<>>
  /\ calls = {}
  /\ conn' = Disconnect(conn)
  /\ malformed' = FALSE
  /\ UNCHANGED <<jid, tls_new, buffer, calls, toClient, server>>

\* handler_fire_timed
Fire(t) ==
  /\ AtRest
  /\ t \in conn.timed_handlers
  /\ conn' = HandleMissing(conn, t)
  /\ UNCHANGED <<buffer, calls, Outside>>

\* An error that was kept tears the connection down in the next iteration.
TearDown ==
  /\ AtRest
  /\ conn.error
  /\ conn' = Disconnect(conn)
  /\ UNCHANGED <<buffer, calls, Outside>>

\* A write or a read fails.
Break ==
  /\ AtRest
  /\ conn' = Disconnect([conn EXCEPT !.error = TRUE])
  /\ UNCHANGED <<buffer, calls, Outside>>

-----------------------------------------------------------------------------
(* The server.                                                               *)

Item(kind) == [kind |-> kind]

\* Those that get another challenge have not answered too many.
Challenges ==
  IF Len(SelectSeq(conn.sent, LAMBDA r : r = "response")) < MaxResponses
    THEN {"challenge", "bad challenge"} ELSE {}

\* What may come after the opening tag: the features this stream can have by
\* now, none (a server older than XMPP 1.0), or an error.
AfterHeader ==
  {<<>>, <<Item("error"), Item("end")>>} \cup
  {<<f>> : f \in IF server.authenticated
                 THEN {g \in Features : ~g.tls /\ g.mechanisms = {}}
                 ELSE {g \in Features : ~g.bind /\ ~g.session /\ g.mechanisms \in Offers
                                        /\ (server.secured => ~g.tls)}}

\* What a new stream is expected after, and what accepts a client, which is done once.
Renewal    == {Item("proceed"), Item("success")}
Acceptance == {Item("success"), [kind |-> "legacy", type |-> "result"]}
Accepts == IF server.authenticated THEN {} ELSE {"success"}

\* The answers to a request.
Answers(request) ==
  CASE request = "stream" /\ server.fresh ->
         {<<Item("header")>> \o rest : rest \in AfterHeader} \cup
         {<<Item("bad header")>> \o rest : rest \in IF server.answered = 0 THEN {<<>>, <<Item("end")>>} ELSE {}}
    [] request = "stream" /\ ~server.fresh -> {<<Item("error"), Item("end")>>}
    [] request = "starttls" -> {<<Item("proceed")>>, <<Item("tls failure"), Item("end")>>}
    [] request \in Mechanisms \cup {"response"} ->
         {<<Item(k)>> : k \in {"failure"} \cup Accepts \cup Challenges}
    [] request \in Steps -> {<<r>> : r \in {q \in Replies : q.kind = request
                                      /\ ~(request = "legacy" /\ server.authenticated /\ q.type = "result")}}
    [] request = "close" -> {<<Item("end")>>}

\* The server answers the next request.
Answer ==
  /\ conn.state = "CONNECTED"
  /\ ~server.done
  /\ server.answered < Len(conn.sent)
  /\ \E reply \in Answers(conn.sent[server.answered + 1]) :
       /\ toClient' = toClient \o reply
       /\ server' = [answered      |-> server.answered + 1,
                     fresh         |-> reply[1] \in Renewal,
                     secured       |-> server.secured \/ reply = <<Item("proceed")>>,
                     authenticated |-> server.authenticated \/ reply[1] \in Acceptance,
                     done          |-> reply[Len(reply)].kind = "end"]
  /\ UNCHANGED <<jid, tls_new, conn, buffer, malformed, calls>>

Next ==
  \/ Connect
  \/ Read
  \/ ReadMalformed
  \/ Parse
  \/ Call
  \/ ParseFails
  \/ \E t \in Waits \cup Steps \cup {"cleanup"} : Fire(t)
  \/ TearDown
  \/ Break
  \/ Answer

Spec == Init /\ [][Next]_vars

\* The loop goes on: an attempt to connect ends, what was read is parsed, what has
\* arrived is read, a timer fires once it is due.  The server need not answer.
FairSpec ==
  /\ Spec
  /\ WF_vars(Connect)
  /\ WF_vars(Read)
  /\ WF_vars(Parse)
  /\ WF_vars(Call)
  /\ WF_vars(ParseFails)
  /\ WF_vars(TearDown)
  /\ \A t \in Waits \cup Steps \cup {"cleanup"} : WF_vars(Fire(t))

-----------------------------------------------------------------------------
\* A wait was given up: what was waited for may still come.
Late == conn.fired \ {"cleanup"} # {}

\* The features were given up: if they come, two logins go on side by side.
FeaturesLate == "features" \in conn.fired

\* A success is told first or never, so at most once and never after the end, and the
\* messenger is told of the end whenever the connection is closed, also if the features
\* come late and two logins go on side by side.  It may be told of the end again, twice
\* after a failure and once after a success, by what is left of the read that ended it.
EventsInOrder ==
  /\ \A i \in DOMAIN conn.events : conn.events[i] = "CONNECT" => i = 1
  /\ conn.state = "DISCONNECTED" <=> \E i \in DOMAIN conn.events : conn.events[i] = "DISCONNECT"
  /\ Len(conn.events) <= 3

\* Until the features are given up (auth.c:208: if they come late, two logins go on
\* side by side) each mechanism is tried once, a weaker one after the stronger ones,
\* the legacy protocol when none is left, and a SASL stanza has one handler.
TriedInOrder ==
  \/ FeaturesLate
  \/ /\ \A i, j \in DOMAIN conn.sent : \A k, l \in DOMAIN Strength :
           i < j /\ conn.sent[i] = Strength[k] /\ conn.sent[j] = Strength[l] => k < l
     /\ (\E i \in DOMAIN conn.sent : conn.sent[i] = "legacy") => Candidates(conn) = {}
     /\ \A h, g \in conn.handlers \cap SaslHandlers : h = g

\* A timer never outlives the wait it is for, and a request that is answered by
\* id is never waited for without one, until the client gives up.
TimersMatchWaits ==
  /\ conn.timed_handlers \subseteq conn.handlers \cup conn.id_handlers \cup {"cleanup"}
  /\ conn.id_handlers \subseteq conn.timed_handlers \cup conn.fired

\* Once the client has ended its stream it asks for nothing more, and no login
\* succeeds, unless an answer it had stopped waiting for comes in.
GivesUpForGood ==
  Late \/ \A i \in DOMAIN conn.sent :
            conn.sent[i] = "close" => i = Len(conn.sent) /\ ~conn.authenticated

Over == conn.authenticated \/ conn.state = "DISCONNECTED"

TimedWaitEnds == conn.id_handlers # {} ~> Over

EndedIsClosed ==
  (\E i \in DOMAIN conn.sent : conn.sent[i] = "close") ~> conn.state = "DISCONNECTED"

\* Whatever the server does, binding, the session and the legacy protocol end in a
\* success or in the end of the connection, and a connection whose stream the client
\* has ended is closed.  The waits for the opening tag, for "proceed" and for the
\* answers of SASL have no timer: there a login ends if the server answers.
LoginEnds ==
  /\ TimedWaitEnds
  /\ EndedIsClosed
  /\ WF_vars(Answer) => <>Over
=============================================================================
