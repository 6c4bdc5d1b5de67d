--------------------------- MODULE ClientSession ---------------------------
(***************************************************************************)
(* The life of a client's session: MessengerImpl::Login, Disconnect and    *)
(* ConnectionHandler, with the event loop of libstrophe they drive.        *)
(*                                                                         *)
(* Three threads: the application ("user"), the run loop started by Login, *)
(* and the thread of the operation queue ("worker"), whose steps are those *)
(* of OperationQueue.  No lock protects the members of MessengerImpl.  An  *)
(* action goes up to the next access another thread can interfere with.    *)
(*                                                                         *)
(* The n-th successful or failed Login makes the n-th xmpp_ctx_t and the   *)
(* n-th xmpp_conn_t; 0 is the null pointer.  The process may end on a use   *)
(* of freed memory (crashed = "freed"), or in std::terminate or the use of *)
(* a null or destroyed object ("fatal").  A join of a thread already       *)
(* joined, or being joined, throws.                                        *)
(***************************************************************************)
EXTENDS Naturals, Sequences

CONSTANTS
  MaxLogins,  \* bound: how often the application calls Login
  NoOp        \* the empty std::function

Logins == 1 .. MaxLogins

\* The operations ConnectionHandler queues: Disconnect, and a login's callback
\* bound to an error.
Teardown  == [kind |-> "teardown", login |-> 0]
Report(n) == [kind |-> "report", login |-> n]
Ops       == {Teardown} \cup {Report(n) : n \in Logins}

ASSUME SessionAssumption == MaxLogins \in Nat /\ NoOp \notin Ops

VARIABLES
  isRunning, operations, worker, func, caller, arg, owner, added, executed,
  connection,   \* m_connection
  context,      \* m_context
  params,       \* m_loginParams, as the number of the login
  joinable,     \* m_runLoop.joinable()
  conn,         \* the state of each xmpp_conn_t
  closing,      \* whether </stream:stream> is in its send queue
  socket,       \* its socket, as the server sees it
  status,       \* loop_status of each xmpp_ctx_t
  loop,         \* where the run loop's thread is
  runner,       \* the context it runs
  disc,         \* where each thread is in MessengerImpl::Disconnect
  leaving,      \* whether ~MessengerImpl has been entered
  crashed,      \* what has ended the process
  logins,       \* history: the number of calls of Login that passed the test
  results,      \* history: the results given to login callbacks
  overlap       \* history: the application and the worker have been in Login or
                \*          Disconnect at once

queue   == <<isRunning, operations, worker, func, caller, arg, owner, added, executed>>
members == <<connection, context, params, joinable>>
strophe == <<conn, closing, socket, status>>
thread  == <<loop, runner>>
history == <<logins, results, overlap>>
vars    == <<queue, members, strophe, thread, disc, leaving, crashed, history>>

Q == INSTANCE OperationQueue WITH MaxOps <- 2 * MaxLogins

TypeOK ==
  /\ Q!TypeOK
  /\ connection \in 0 .. MaxLogins
  /\ context \in 0 .. MaxLogins
  /\ params \in 0 .. MaxLogins
  /\ joinable \in BOOLEAN
  /\ conn \in [Logins -> {"none", "connecting", "connected", "disconnected", "freed"}]
  /\ closing \in [Logins -> BOOLEAN]
  /\ socket \in [Logins -> {"none", "open", "closed"}]
  /\ status \in [Logins -> {"NOTSTARTED", "RUNNING", "QUIT"}]
  /\ loop \in {"none", "start", "check", "once", "mark", "body",
               "teardown", "report", "clear", "ended"}
  /\ runner \in 0 .. MaxLogins
  /\ disc \in [{"user", "worker"} -> {"idle", "release", "stop", "join", "reset"}]
  /\ leaving \in BOOLEAN
  /\ crashed \in {"no", "freed", "fatal"}
  /\ logins \in 0 .. MaxLogins
  /\ results \in Seq([login : Logins, ok : BOOLEAN])
  /\ overlap \in BOOLEAN

Init ==
  /\ Q!Init
  /\ connection = 0
  /\ context = 0
  /\ params = 0
  /\ joinable = FALSE
  /\ conn = [n \in Logins |-> "none"]
  /\ closing = [n \in Logins |-> FALSE]
  /\ socket = [n \in Logins |-> "none"]
  /\ status = [n \in Logins |-> "NOTSTARTED"]
  /\ loop = "none"
  /\ runner = 0
  /\ disc = [d \in {"user", "worker"} |-> "idle"]
  /\ leaving = FALSE
  /\ crashed = "no"
  /\ logins = 0
  /\ results = <<>>
  /\ overlap = FALSE

-----------------------------------------------------------------------------
\* The worker is executing Disconnect.
InTeardown == worker = "run" /\ func = Teardown

\* The application may call.
UserIdle == disc["user"] = "idle" /\ ~leaving /\ crashed = "no"

\* The run loop's thread goes from one place to the next.
Loop(from, to) == crashed = "no" /\ loop = from /\ loop' = to

\* What most steps of the run loop have no part in.
outside == <<members, disc, leaving, history>>

-----------------------------------------------------------------------------
\* Variants of the steps with a plausible bug in each, for showing that the
\* properties at the end of the module can fail.  No specification uses them.

\* Login does not test m_connection
BeginLoginUntested(n) ==
  /\ UserIdle
  /\ n = logins + 1
  /\ logins' = n
  /\ params' = n
  /\ context' = n
  /\ connection' = n
  /\ overlap' = (overlap \/ InTeardown)

\* detach() in place of join()
JoinLoopDetached(d) ==
  /\ crashed = "no"
  /\ disc[d] = "join"
  /\ joinable' = FALSE
  /\ disc' = [disc EXCEPT ![d] = "reset"]
  /\ UNCHANGED <<queue, connection, context, params, strophe, thread, leaving, crashed, history>>

\* xmpp_run_once does not look at the status
LoopOnceAlways ==
  /\ Loop("once", "mark")
  /\ UNCHANGED <<queue, strophe, runner, crashed, outside>>

\* the result is given, m_loginParams stays
EstablishedKeepsParams ==
  /\ Loop("body", "check")
  /\ conn[runner] = "connected"
  /\ socket[runner] = "open"
  /\ params # 0
  /\ results' = Append(results, [login |-> params, ok |-> TRUE])
  /\ UNCHANGED <<queue, members, strophe, runner, disc, leaving, crashed, logins, overlap>>

\* m_loginParams is dereferenced untested
EstablishedUntested ==
  /\ Loop("body", "check")
  /\ conn[runner] = "connected"
  /\ socket[runner] = "open"
  /\ results' = Append(results, [login |-> params, ok |-> TRUE])
  /\ params' = 0
  /\ UNCHANGED <<queue, connection, context, joinable, strophe, runner, disc, leaving,
                 crashed, logins, overlap>>

\* the error is reported without a Disconnect
AddTeardownSkipped ==
  /\ Loop("teardown", "report")
  /\ UNCHANGED <<queue, strophe, runner, crashed, outside>>

-----------------------------------------------------------------------------
(* The application.                                                          *)

\* Login up to Connect: the members are filled in.  (With a connection it
\* throws and changes nothing.)
BeginLogin(n) ==
  /\ UserIdle
  /\ connection = 0
  /\ n = logins + 1
  /\ logins' = n
  /\ params' = n
  /\ context' = n
  /\ connection' = n
  /\ overlap' = (overlap \/ InTeardown)

\* Connect succeeds and the thread of the run loop is started; the thread that
\* m_runLoop held is destroyed, which terminates unless it has been joined.
Login(n) ==
  /\ BeginLogin(n)
  /\ conn' = [conn EXCEPT ![n] = "connecting"]
  /\ joinable' = TRUE
  /\ IF joinable
       THEN crashed' = "fatal" /\ UNCHANGED thread
       ELSE loop' = "start" /\ runner' = 0 /\ UNCHANGED crashed
  /\ UNCHANGED <<queue, closing, socket, status, disc, leaving, results>>

\* Connect fails and Login throws; the members stay set.
LoginThrows(n) ==
  /\ BeginLogin(n)
  /\ conn' = [conn EXCEPT ![n] = "disconnected"]
  /\ UNCHANGED <<queue, joinable, closing, socket, status, thread, disc, leaving,
                 crashed, results>>

-----------------------------------------------------------------------------
(* Disconnect, called by the application, by its destructor, or by the       *)
(* worker as an operation of the queue.                                      *)

Enters(d) ==
  /\ disc[d] = "idle"
  /\ IF d = "worker" THEN InTeardown ELSE owner = "using"

Returns(d) ==
  /\ disc' = [disc EXCEPT ![d] = "idle"]
  /\ IF d = "worker" THEN Q!Run ELSE UNCHANGED queue

\* DeleteHandler, XmppConnection::Disconnect: </stream:stream> is queued on a
\* connected xmpp_conn_t.
EndStream(d) ==
  /\ crashed = "no"
  /\ Enters(d)
  /\ IF connection # 0
       THEN /\ closing' = [closing EXCEPT ![connection] = @ \/ conn[connection] = "connected"]
            /\ disc' = [disc EXCEPT ![d] = "release"]
       ELSE /\ disc' = [disc EXCEPT ![d] = "stop"]
            /\ UNCHANGED closing
  /\ overlap' = (overlap \/ (IF d = "worker" THEN disc["user"] # "idle" ELSE InTeardown))
  /\ UNCHANGED <<queue, members, conn, socket, status, thread, crashed, logins, results>>

\* The calls of Disconnect: by the application, at any time, or by ~MessengerImpl.
CallDisconnect == UserIdle /\ EndStream("user") /\ UNCHANGED leaving
Destroy        == UserIdle /\ EndStream("user") /\ leaving' = TRUE
RunTeardown    == EndStream("worker") /\ UNCHANGED leaving

\* The run loop is between its first look at the connections of its context and
\* the end of the iteration.
InIteration == loop \in {"body", "teardown", "report", "clear"}

\* m_connection.reset(): the xmpp_conn_t is taken off the list of its context
\* and freed, its socket is not closed.  A loop in the middle of an iteration
\* goes on with the freed item of the list; two threads that have both seen the
\* pointer set race on it.
Release(d) ==
  /\ crashed = "no"
  /\ disc[d] = "release"
  /\ conn' = IF connection = 0 THEN conn ELSE [conn EXCEPT ![connection] = "freed"]
  /\ connection' = 0
  /\ disc' = [disc EXCEPT ![d] = "stop"]
  /\ \/ UNCHANGED crashed
     \/ connection = 0 /\ crashed' = "fatal"
     \/ InIteration /\ connection = runner /\ crashed' = "freed"
  /\ UNCHANGED <<queue, context, params, joinable, closing, socket, status, thread,
                 leaving, history>>

\* xmpp_stop, which only stops a loop that is running.
Stop(n) ==
  status' = IF status[n] = "RUNNING" THEN [status EXCEPT ![n] = "QUIT"] ELSE status

\* if (!!m_context): the loop is stopped and join() is entered, which throws when
\* there is nothing to join, or when the other thread is already at it.
StopLoop(d) ==
  /\ crashed = "no"
  /\ disc[d] = "stop"
  /\ \/ context = 0 /\ Returns(d) /\ UNCHANGED status
     \/ /\ context # 0
        /\ Stop(context)
        /\ \/ /\ joinable
              /\ \A e \in DOMAIN disc : disc[e] # "join"
              /\ disc' = [disc EXCEPT ![d] = "join"]
              /\ UNCHANGED queue
           \/ /\ ~joinable \/ \E e \in DOMAIN disc : disc[e] = "join"
              /\ Returns(d)
  /\ UNCHANGED <<members, conn, closing, socket, thread, leaving, crashed, history>>

\* m_runLoop.join() returns.
JoinLoop(d) ==
  /\ crashed = "no"
  /\ disc[d] = "join"
  /\ loop = "ended"
  /\ joinable' = FALSE
  /\ disc' = [disc EXCEPT ![d] = "reset"]
  /\ UNCHANGED <<queue, connection, context, params, strophe, thread, leaving, crashed, history>>

\* m_context.reset()
ResetContext(d) ==
  /\ crashed = "no"
  /\ disc[d] = "reset"
  /\ context' = 0
  /\ Returns(d)
  /\ UNCHANGED <<connection, params, joinable, strophe, thread, leaving, crashed, history>>

\* The members are destroyed after ~MessengerImpl, m_operationQueue before
\* m_runLoop; a call of AddOperation in progress has lost its object.
DestroyMembers ==
  /\ crashed = "no"
  /\ leaving
  /\ disc["user"] = "idle"
  /\ owner = "using"
  /\ IF caller = "idle" THEN Q!StopProcessing /\ UNCHANGED crashed
                        ELSE crashed' = "fatal" /\ UNCHANGED queue
  /\ UNCHANGED <<members, strophe, thread, disc, leaving, history>>

\* ~thread of m_runLoop terminates if it is joinable.
DestroyThread ==
  /\ crashed = "no"
  /\ owner = "destroyed"
  /\ joinable
  /\ crashed' = "fatal"
  /\ UNCHANGED <<queue, members, strophe, thread, disc, leaving, history>>

-----------------------------------------------------------------------------
(* The run loop.                                                             *)

\* The thread starts: m_xmpp->Run(m_context) reads the member, and xmpp_run
\* begins to run.
LoopStart ==
  /\ context # 0
  /\ Loop("start", "check")
  /\ runner' = context
  /\ status' = [status EXCEPT ![context] = "RUNNING"]
  /\ UNCHANGED <<queue, conn, closing, socket, crashed, outside>>

\* The member has been reset in the meantime.
LoopStartNull ==
  /\ context = 0
  /\ Loop("start", "start")
  /\ crashed' = "fatal"
  /\ UNCHANGED <<queue, strophe, runner, outside>>

\* while (ctx->loop_status == XMPP_LOOP_RUNNING)
LoopCheck ==
  /\ Loop("check", IF status[runner] = "RUNNING" THEN "once" ELSE "ended")
  /\ UNCHANGED <<queue, strophe, runner, crashed, outside>>

\* xmpp_run_once returns at once if the loop has been stopped...
LoopOnce ==
  /\ Loop("once", IF status[runner] = "QUIT" THEN "check" ELSE "mark")
  /\ UNCHANGED <<queue, strophe, runner, crashed, outside>>

\* ...and otherwise sets the status, whatever it is by now.
LoopMark ==
  /\ Loop("mark", "body")
  /\ status' = [status EXCEPT ![runner] = "RUNNING"]
  /\ UNCHANGED <<queue, conn, closing, socket, runner, crashed, outside>>

\* An iteration in which nothing happens to the connection, which may have been
\* taken off the list of the context.
NothingHappens ==
  /\ Loop("body", "check")
  /\ UNCHANGED <<queue, strophe, runner, crashed, outside>>

\* The socket connects and the stream is opened.
StreamOpens ==
  /\ Loop("body", "check")
  /\ conn[runner] = "connecting"
  /\ conn' = [conn EXCEPT ![runner] = "connected"]
  /\ socket' = [socket EXCEPT ![runner] = "open"]
  /\ UNCHANGED <<queue, closing, status, runner, crashed, outside>>

\* The send queue is written out; the server closes a stream that was ended.
FlushEnd ==
  /\ Loop("body", "check")
  /\ conn[runner] = "connected"
  /\ closing[runner]
  /\ socket' = [socket EXCEPT ![runner] = "closed"]
  /\ UNCHANGED <<queue, conn, closing, status, runner, crashed, outside>>

\* The session is established: ConnectionHandler(XMPP_CONN_CONNECT) gives the
\* pending login its result.
Established ==
  /\ Loop("body", "check")
  /\ conn[runner] = "connected"
  /\ socket[runner] = "open"
  /\ params # 0
  /\ results' = Append(results, [login |-> params, ok |-> TRUE])
  /\ params' = 0
  /\ UNCHANGED <<queue, connection, context, joinable, strophe, runner, disc, leaving,
                 crashed, logins, overlap>>

\* The connection attempt fails or times out, the login is refused, the server
\* closes the stream or the socket breaks: conn_disconnect closes the socket and
\* calls ConnectionHandler(XMPP_CONN_DISCONNECT).
ConnectionLost ==
  /\ Loop("body", "teardown")
  /\ conn[runner] \in {"connecting", "connected"}
  /\ conn' = [conn EXCEPT ![runner] = "disconnected"]
  /\ socket' = [socket EXCEPT ![runner] = "closed"]
  /\ UNCHANGED <<queue, closing, status, runner, crashed, outside>>

\* AddOperation(Disconnect)
AddTeardown ==
  /\ Loop("teardown", "report")
  /\ Q!StartProcessing(Teardown)
  /\ UNCHANGED <<strophe, runner, crashed, outside>>

\* The callback, if there is one by now, is queued with its error.
AddReport ==
  /\ Loop("report", "clear")
  /\ caller = "idle"
  /\ IF params = 0 THEN UNCHANGED queue ELSE Q!StartProcessing(Report(params))
  /\ UNCHANGED <<strophe, runner, crashed, outside>>

\* AddOperation on a queue whose destructor has begun.
AddToDestroyed ==
  /\ crashed = "no"
  /\ loop = "teardown" \/ (loop = "report" /\ params # 0)
  /\ owner # "using"
  /\ crashed' = "fatal"
  /\ UNCHANGED <<queue, members, strophe, thread, disc, leaving, history>>

\* m_loginParams.reset(), and the handler returns into xmpp_run_once.
ClearParams ==
  /\ Loop("clear", "check")
  /\ caller = "idle"
  /\ params' = 0
  /\ UNCHANGED <<queue, connection, context, joinable, strophe, runner, disc, leaving,
                 crashed, history>>

LoopStep ==
  \/ LoopStart \/ LoopStartNull \/ LoopCheck \/ LoopOnce \/ LoopMark
  \/ NothingHappens \/ StreamOpens \/ FlushEnd \/ Established \/ ConnectionLost
  \/ AddTeardown \/ AddReport \/ AddToDestroyed \/ ClearParams

-----------------------------------------------------------------------------
(* The operation queue.                                                      *)

AroundQueue == crashed = "no" /\ UNCHANGED <<members, strophe, thread, disc, leaving, crashed>>

\* AddOperation goes on, in the thread of the run loop.
CallerStep == AroundQueue /\ (Q!Push \/ Q!Notify) /\ UNCHANGED history

\* ProcessingThread goes on to its next operation.
WorkerStep == AroundQueue /\ (Q!CheckRunning \/ Q!Take \/ Q!Wait) /\ UNCHANGED history

\* The error of a login is given to its callback.
RunReport ==
  /\ AroundQueue
  /\ worker = "run"
  /\ func # Teardown
  /\ results' = Append(results, [login |-> func.login, ok |-> FALSE])
  /\ Q!Run
  /\ UNCHANGED <<logins, overlap>>

SpuriousWake == AroundQueue /\ Q!SpuriousWake /\ UNCHANGED history

\* ~OperationQueue returns.
JoinWorker == AroundQueue /\ Q!Join /\ UNCHANGED history

DisconnectStep(d) == Release(d) \/ StopLoop(d) \/ JoinLoop(d) \/ ResetContext(d)

Next ==
  \/ \E n \in Logins : Login(n) \/ LoginThrows(n)
  \/ CallDisconnect
  \/ Destroy
  \/ RunTeardown
  \/ \E d \in {"user", "worker"} : DisconnectStep(d)
  \/ DestroyMembers
  \/ JoinWorker
  \/ DestroyThread
  \/ LoopStep
  \/ CallerStep
  \/ WorkerStep
  \/ RunReport
  \/ SpuriousWake

Spec == Init /\ [][Next]_vars

\* A thread that can take a step eventually does.  The application need not call
\* anything, nothing need arrive from the network and a wait need not return on
\* its own.
FairSpec ==
  /\ Spec
  /\ WF_vars(LoopStep)
  /\ WF_vars(CallerStep)
  /\ WF_vars(WorkerStep \/ RunReport \/ RunTeardown \/ DisconnectStep("worker"))
  /\ WF_vars(DisconnectStep("user") \/ DestroyMembers \/ JoinWorker \/ DestroyThread)

-----------------------------------------------------------------------------
\* Whatever the result, however the connection ends and whoever disconnects, the
\* callback of a login is called at most once.
OneResultPerLogin ==
  \A i, j \in DOMAIN results : results[i].login = results[j].login => i = j

FatalOnlyByOverlap == crashed = "fatal" => overlap

LoopRunsContext ==
  (crashed = "no" /\ ~overlap /\ loop \notin {"none", "ended"})
    => joinable /\ context # 0 /\ (loop # "start" => runner = context)

\* As long as the application stays out of Login and Disconnect while the worker
\* tears a session down, no thread object is destroyed unjoined, no pointer is
\* dereferenced null and nothing is added to a destroyed queue; and m_runLoop and
\* m_context belong together: the thread that exists can be joined, and the context
\* Disconnect stops is the one it runs.
SoundWithoutOverlap == FatalOnlyByOverlap /\ LoopRunsContext

\* Under the same condition the error of a login is reported once its session is
\* gone, so that the callback finds the messenger ready for another Login.
ErrorAfterTeardown ==
  [][\A n \in Logins :
       ~overlap /\ results' = Append(results, [login |-> n, ok |-> FALSE])
         => conn[n] = "freed" /\ context # n /\ (runner = n => loop = "ended")]_vars

\* xmpp_stop takes effect if it comes after xmpp_run_once has set the status:
\* Disconnect then comes back from the join.
StopInTimeReturns ==
  \A d \in {"user", "worker"} :
    (disc[d] = "join" /\ context # 0 /\ runner = context /\ status[runner] = "QUIT" /\ loop # "mark")
      ~> (disc[d] # "join" \/ crashed # "no")

-----------------------------------------------------------------------------
(* What the repository says of the session and the code does not do.         *)

\* External/libstrophe/src/event.c:354-355: "This will stop the event loop after
\* the current iteration and cause xmpp_run to exit", so that the join that
\* follows xmpp_stop in Disconnect returns.
StopEndsLoop ==
  \A d \in {"user", "worker"} : disc[d] = "join" ~> (disc[d] # "join" \/ crashed # "no")
=============================================================================
