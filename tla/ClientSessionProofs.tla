------------------------ MODULE ClientSessionProofs ------------------------
(***************************************************************************)
(* Proofs about the session, for any number of logins.  The session's       *)
(* queue is the one of OperationQueue, so that what OperationQueueProofs    *)
(* shows of any use of the queue is taken from there.                      *)
(***************************************************************************)
EXTENDS ClientSession, SequenceTheorems, TLAPS

QP == INSTANCE OperationQueueProofs WITH MaxOps <- 2 * MaxLogins

QueueInv == QP!IInv /\ QP!Conserved

\* The threads that call Disconnect.
Callers == {"user", "worker"}

-----------------------------------------------------------------------------
(* The queue.                                                                *)

\* What AddOperation has been called with so far; what has been executed is at its front.
Called  == IF caller = "push" THEN Append(added, arg) ELSE added
Pending == Len(executed) + 1 .. Len(Called)

\* The constants are those the proofs about the queue ask for.
LEMMA QueueConstants == QP!QueueAssumption
BY SessionAssumption DEF QP!QueueAssumption, Ops, Teardown, Report, Logins

\* An operation is the teardown or the report of one login.
LEMMA OpsAre ==
  /\ Teardown \in Ops
  /\ \A n \in Logins : Report(n) \in Ops /\ Report(n) # Teardown /\ Report(n).login = n
  /\ \A n, m \in Logins : Report(n) = Report(m) => n = m
  /\ \A op \in Ops : op # Teardown => op.login \in Logins /\ op = Report(op.login)
<1>1. Teardown \in Ops /\ Teardown.kind = "teardown"
  BY DEF Ops, Teardown
<1>2. \A n \in Logins : Report(n) \in Ops /\ Report(n).login = n /\ Report(n).kind = "report"
  BY DEF Ops, Report
<1>3. \A op \in Ops : op # Teardown => \E n \in Logins : op = Report(n)
  BY DEF Ops
<1> QED
  BY <1>1, <1>2, <1>3

\* What the queue's invariant says of the operations called and ended.
LEMMA QueueTypes ==
  ASSUME QueueInv
  PROVE  /\ Q!TypeOK
         /\ added \in Seq(Ops) /\ executed \in Seq(Ops) /\ Called \in Seq(Ops)
         /\ Len(executed) \in Nat /\ Len(Called) \in Nat /\ Len(executed) <= Len(Called)
         /\ caller = "idle" => Called = added
<1>1. Q!TypeOK
  BY DEF QueueInv, QP!IInv, QP!TypeOK, Q!TypeOK
<1>2. added \in Seq(Ops) /\ executed \in Seq(Ops) /\ operations \in Seq(Ops)
  BY <1>1 DEF Q!TypeOK
<1>3. Called \in Seq(Ops) /\ Len(added) <= Len(Called)
  BY <1>2 DEF Called, QueueInv, QP!IInv, QP!ThreadInv
<1>4. Len(executed) <= Len(added)
  <2>1. QP!Current \in Seq(Ops)
    BY <1>1 DEF QP!Current, Q!TypeOK
  <2>2. added = (executed \o QP!Current) \o operations
    BY DEF QueueInv, QP!Conserved
  <2>3. executed \o QP!Current \in Seq(Ops) /\ Len(executed \o QP!Current) = Len(executed) + Len(QP!Current)
    BY <1>2, <2>1, ConcatProperties
  <2>4. Len(added) = Len(executed \o QP!Current) + Len(operations)
    BY <1>2, <2>2, <2>3, ConcatProperties
  <2> QED
    BY <1>2, <2>1, <2>3, <2>4
<1> QED
  BY <1>1, <1>2, <1>3, <1>4 DEF Called

\* Steps of the queue between an addition and the end of an operation leave what was
\* called for and what was executed alone.
QuietStep ==
  \/ Q!Push \/ Q!Notify \/ Q!CheckRunning \/ Q!Take \/ Q!Wait \/ Q!SpuriousWake
  \/ Q!StopProcessing \/ Q!Join \/ UNCHANGED queue

\* Such a step calls and ends no operation.
LEMMA QuietStepQuiet ==
  ASSUME QueueInv, QuietStep
  PROVE  UNCHANGED <<Called, executed>>
<1>1. CASE Q!Push
  BY <1>1 DEF Q!Push, Called
<1>2. CASE Q!Notify
  BY <1>2 DEF Q!Notify, Called
<1>3. CASE Q!CheckRunning \/ Q!Take \/ Q!Wait \/ Q!SpuriousWake \/ Q!StopProcessing \/ Q!Join \/ UNCHANGED queue
  BY <1>3 DEF Q!CheckRunning, Q!Take, Q!Wait, Q!SpuriousWake, Q!StopProcessing, Q!Join, queue,
              Q!callerVars, Q!threadVars, Called
<1> QED
  BY <1>1, <1>2, <1>3 DEF QuietStep

\* A call of StartProcessing adds its operation at the end.
LEMMA AdditionAppends ==
  ASSUME QueueInv, NEW op \in Ops, Q!StartProcessing(op)
  PROVE  Called' = Append(Called, op) /\ UNCHANGED executed
BY DEF Q!StartProcessing, Called

\* What ends is the oldest operation pending.
LEMMA RunEndsOldest ==
  ASSUME QueueInv, Q!Run
  PROVE  /\ UNCHANGED Called
         /\ executed' \in Seq(Ops)
         /\ Len(executed') = Len(executed) + 1
         /\ Len(executed) + 1 \in Pending
         /\ Called[Len(executed) + 1] = func
<1>1. func \in Ops /\ func # NoOp /\ arg \in Ops \cup {NoOp} /\ (caller = "push" => arg \in Ops)
  BY DEF Q!Run, QueueInv, QP!IInv, QP!TypeOK, QP!ThreadInv
<1>2. added \in Seq(Ops) /\ executed \in Seq(Ops) /\ operations \in Seq(Ops)
  BY QueueTypes DEF Q!TypeOK
<1>3. added = (executed \o <<func>>) \o operations
  BY <1>1 DEF QueueInv, QP!Conserved, QP!Current
<1>4. /\ executed \o <<func>> \in Seq(Ops) /\ Len(executed \o <<func>>) = Len(executed) + 1
      /\ (executed \o <<func>>)[Len(executed) + 1] = func
  <2>1. <<func>> \in Seq(Ops) /\ Len(<<func>>) = 1 /\ <<func>>[1] = func
    BY <1>1
  <2> QED
    BY <1>2, <2>1, ConcatProperties
<1>5. Len(executed) + 1 \in 1 .. Len(added) /\ added[Len(executed) + 1] = func
  BY <1>2, <1>3, <1>4, ConcatProperties
<1>6. Len(executed) + 1 \in 1 .. Len(Called) /\ Called[Len(executed) + 1] = func
  <2>1. CASE caller = "push"
    <3>1. Called = Append(added, arg) /\ arg \in Ops
      BY <1>1, <2>1 DEF Called
    <3> QED
      BY <1>2, <1>5, <3>1
  <2>2. CASE caller # "push"
    BY <1>5, <2>2 DEF Called
  <2> QED
    BY <2>1, <2>2
<1>7. UNCHANGED Called /\ executed' = Append(executed, func)
  BY DEF Q!Run, Called, Q!callerVars
<1> QED
  BY <1>1, <1>2, <1>6, <1>7 DEF Pending

-----------------------------------------------------------------------------
(* The session's steps as steps of the queue.                                *)

\* A step of the session adds the teardown, adds the report of the pending login, ends
\* an operation, or leaves what is pending alone.
AddsTeardown == loop = "teardown" /\ Q!StartProcessing(Teardown)
AddsReport   == loop = "report" /\ params # 0 /\ Q!StartProcessing(Report(params))

\* Every step is quiet, or adds a teardown or a report, or is the return of an operation.
LEMMA SessionStep ==
  ASSUME [Next]_vars
  PROVE  QuietStep \/ AddsTeardown \/ AddsReport \/ Q!Run
<1>1. CASE UNCHANGED vars
  BY <1>1 DEF vars, queue, QuietStep
<1>2. ASSUME NEW n \in Logins, Login(n) \/ LoginThrows(n) PROVE QuietStep
  BY <1>2 DEF Login, LoginThrows, QuietStep
<1>3. CASE CallDisconnect \/ Destroy \/ RunTeardown
  BY <1>3 DEF CallDisconnect, Destroy, RunTeardown, EndStream, QuietStep
<1>4. ASSUME NEW d \in {"user", "worker"}, DisconnectStep(d) PROVE QuietStep \/ Q!Run
  BY <1>4 DEF DisconnectStep, Release, StopLoop, JoinLoop, ResetContext, Returns, QuietStep
<1>5. CASE DestroyMembers \/ JoinWorker \/ DestroyThread
  BY <1>5 DEF DestroyMembers, JoinWorker, DestroyThread, QuietStep
<1>6. CASE LoopStep
  <2>1. CASE AddTeardown
    BY <2>1 DEF AddTeardown, Loop, AddsTeardown
  <2>2. CASE AddReport
    BY <2>2 DEF AddReport, Loop, AddsReport, QuietStep
  <2>3. CASE LoopStart \/ LoopStartNull \/ LoopCheck \/ LoopOnce \/ LoopMark \/ NothingHappens
    BY <2>3 DEF LoopStart, LoopStartNull, LoopCheck, LoopOnce, LoopMark, NothingHappens, QuietStep
  <2>4. CASE StreamOpens \/ FlushEnd \/ Established \/ ConnectionLost \/ AddToDestroyed \/ ClearParams
    BY <2>4 DEF StreamOpens, FlushEnd, Established, ConnectionLost, AddToDestroyed, ClearParams, QuietStep
  <2> QED
    BY <1>6, <2>1, <2>2, <2>3, <2>4 DEF LoopStep
<1>7. CASE CallerStep \/ WorkerStep \/ SpuriousWake
  BY <1>7 DEF CallerStep, WorkerStep, SpuriousWake, QuietStep
<1>8. CASE RunReport
  BY <1>8 DEF RunReport
<1> QED
  BY <1>1, <1>2, <1>3, <1>4, <1>5, <1>6, <1>7, <1>8 DEF Next

\* What OperationQueueProofs calls a step.
LEMMA QueueStep ==
  ASSUME TypeOK, QuietStep \/ AddsTeardown \/ AddsReport \/ Q!Run
  PROVE  QP!Step
<1>1. CASE QuietStep
  <2>1. CASE Q!Push \/ Q!Notify
    BY <2>1 DEF Q!Push, Q!Notify, QP!Push, QP!Notify, QP!Step, Q!threadVars, QP!threadVars
  <2>2. CASE Q!CheckRunning \/ Q!Take \/ Q!Wait
    BY <2>2 DEF Q!CheckRunning, Q!Take, Q!Wait, QP!CheckRunning, QP!Take, QP!Wait, QP!Step,
                QP!WorkerStep, Q!callerVars, QP!callerVars
  <2>3. CASE Q!SpuriousWake \/ Q!StopProcessing \/ Q!Join
    BY <2>3 DEF Q!SpuriousWake, Q!StopProcessing, Q!Join, QP!SpuriousWake, QP!StopProcessing,
                QP!Join, QP!Step, Q!callerVars, QP!callerVars, Q!threadVars, QP!threadVars
  <2>4. CASE UNCHANGED queue
    BY <2>4 DEF queue, QP!Step, QP!vars
  <2> QED
    BY <1>1, <2>1, <2>2, <2>3, <2>4 DEF QuietStep
<1>2. ASSUME NEW op \in Ops, Q!StartProcessing(op) PROVE QP!Step
  BY <1>2 DEF Q!StartProcessing, QP!StartProcessing, QP!Step
<1>3. CASE Q!Run
  BY <1>3 DEF Q!Run, QP!Run, QP!Step, QP!WorkerStep, Q!callerVars, QP!callerVars
<1>4. params # 0 => params \in Logins
  BY SessionAssumption DEF TypeOK, Logins
<1> QED
  BY <1>1, <1>2, <1>3, <1>4, OpsAre DEF AddsTeardown, AddsReport

\* The queue's invariant is kept by the session.
LEMMA SessionQueueInv == TypeOK /\ QueueInv /\ [Next]_vars => QueueInv'
<1> SUFFICES ASSUME TypeOK, QueueInv, [Next]_vars PROVE QueueInv'
    OBVIOUS
<1>1. QP!Step
  BY SessionStep, QueueStep
<1> QED
  BY <1>1, QueueConstants, QP!StepIInv, QP!StepConserved DEF QueueInv

\* The queue is idle at the start.
LEMMA InitQueueInv == Init => QueueInv
<1> SUFFICES ASSUME Init PROVE QueueInv
    OBVIOUS
<1>1. QP!Init
  BY DEF Init, Q!Init, QP!Init
<1>2. QP!IInv
  BY <1>1, QueueConstants, QP!InitIInv
<1>3. QP!Conserved
  BY <1>1, ConcatEmptySeq DEF QP!Init, QP!Conserved, QP!Current
<1> QED
  BY <1>2, <1>3 DEF QueueInv

-----------------------------------------------------------------------------
(* Types.                                                                    *)

\* So is the session.
LEMMA InitTypeOK == Init => TypeOK
<1> SUFFICES ASSUME Init PROVE TypeOK
    OBVIOUS
<1>1. Q!TypeOK
  BY InitQueueInv, QueueTypes
<1>2. results \in Seq([login : Logins, ok : BOOLEAN])
  BY EmptySeq DEF Init
<1>3. 0 \in 0 .. MaxLogins
  BY SessionAssumption
<1>4. /\ conn \in [Logins -> {"none", "connecting", "connected", "disconnected", "freed"}]
      /\ closing \in [Logins -> BOOLEAN]
      /\ socket \in [Logins -> {"none", "open", "closed"}]
      /\ status \in [Logins -> {"NOTSTARTED", "RUNNING", "QUIT"}]
      /\ disc \in [{"user", "worker"} -> {"idle", "release", "stop", "join", "reset"}]
  BY DEF Init
<1> QED
  BY <1>1, <1>2, <1>3, <1>4 DEF Init, TypeOK

\* A record of a result has the type of one.
LEMMA ResultsGrow ==
  ASSUME results \in Seq([login : Logins, ok : BOOLEAN]), NEW n \in Logins, NEW b \in BOOLEAN
  PROVE  LET r == Append(results, [login |-> n, ok |-> b]) IN
         /\ r \in Seq([login : Logins, ok : BOOLEAN])
         /\ Len(r) = Len(results) + 1
         /\ \A i \in 1 .. Len(results) : r[i] = results[i]
         /\ r[Len(results) + 1] = [login |-> n, ok |-> b]
<1> DEFINE x == [login |-> n, ok |-> b]
           S == [login : Logins, ok : BOOLEAN]
<1>1. x \in S /\ results \in Seq(S)
  OBVIOUS
<1> HIDE DEF x, S
<1>2. /\ Append(results, x) \in Seq(S)
      /\ Len(Append(results, x)) = Len(results) + 1
      /\ \A i \in 1 .. Len(results) : Append(results, x)[i] = results[i]
      /\ Append(results, x)[Len(results) + 1] = x
  BY <1>1, AppendProperties
<1> QED
  BY <1>2 DEF x, S

\* Every step keeps the types of the session's own variables, given those of the queue.
LEMMA NextTypeOK == TypeOK /\ QueueInv /\ [Next]_vars => TypeOK'
<1> SUFFICES ASSUME TypeOK, QueueInv, [Next]_vars PROVE TypeOK'
    OBVIOUS
<1>1. Q!TypeOK'
  BY SessionQueueInv, QueueTypes DEF QueueInv, QP!IInv, QP!TypeOK, Q!TypeOK
<1>2. CASE UNCHANGED vars
  BY <1>1, <1>2 DEF TypeOK, vars, members, strophe, thread, history
<1>3. ASSUME NEW n \in Logins, BeginLogin(n)
      PROVE  /\ n \in 0 .. MaxLogins
             /\ (connection \in 0 .. MaxLogins /\ context \in 0 .. MaxLogins /\ params \in 0 .. MaxLogins)'
             /\ (logins \in 0 .. MaxLogins /\ overlap \in BOOLEAN)'
  BY <1>3, SessionAssumption DEF BeginLogin, TypeOK, Logins
<1>4. ASSUME NEW n \in Logins, Login(n) PROVE TypeOK'
  <2>1. BeginLogin(n)
    BY <1>4 DEF Login
  <2>2. UNCHANGED <<closing, socket, status, disc, leaving, results>>
    BY <1>4 DEF Login
  <2>3. (conn \in [Logins -> {"none", "connecting", "connected", "disconnected", "freed"}])'
    BY <1>4 DEF Login, TypeOK
  <2>4. (joinable \in BOOLEAN /\ crashed \in {"no", "freed", "fatal"} /\ runner \in 0 .. MaxLogins
         /\ loop \in {"none", "start", "check", "once", "mark", "body", "teardown", "report", "clear", "ended"})'
    BY <1>4, SessionAssumption DEF Login, TypeOK, thread
  <2> QED
    BY <1>1, <1>3, <2>1, <2>2, <2>3, <2>4 DEF TypeOK
<1>5. ASSUME NEW n \in Logins, LoginThrows(n) PROVE TypeOK'
  <2>1. BeginLogin(n)
    BY <1>5 DEF LoginThrows
  <2>2. UNCHANGED <<joinable, closing, socket, status, thread, disc, leaving, crashed, results>>
    BY <1>5 DEF LoginThrows
  <2>3. (conn \in [Logins -> {"none", "connecting", "connected", "disconnected", "freed"}])'
    BY <1>5 DEF LoginThrows, TypeOK
  <2> QED
    BY <1>1, <1>3, <2>1, <2>2, <2>3 DEF TypeOK, thread
<1>6. ASSUME NEW d \in {"user", "worker"}, EndStream(d), leaving' \in BOOLEAN PROVE TypeOK'
  <2>1. UNCHANGED <<members, conn, socket, status, thread, crashed, logins, results>>
    BY <1>6 DEF EndStream
  <2>2. overlap' \in BOOLEAN
    BY <1>6 DEF EndStream, TypeOK, InTeardown
  <2>3. closing' \in [Logins -> BOOLEAN]
    BY <1>6 DEF EndStream, TypeOK
  <2>4. disc' \in [{"user", "worker"} -> {"idle", "release", "stop", "join", "reset"}]
    BY <1>6 DEF EndStream, TypeOK
  <2> QED
    BY <1>1, <1>6, <2>1, <2>2, <2>3, <2>4 DEF TypeOK, members, thread
<1>7. CASE CallDisconnect \/ Destroy \/ RunTeardown
  BY <1>6, <1>7 DEF CallDisconnect, Destroy, RunTeardown, TypeOK
<1>8. ASSUME NEW d \in {"user", "worker"}, DisconnectStep(d) PROVE TypeOK'
  <2>1. CASE Release(d)
    <3>1. UNCHANGED <<context, params, joinable, closing, socket, status, thread, leaving, history>>
      BY <2>1 DEF Release
    <3>2. disc' \in [{"user", "worker"} -> {"idle", "release", "stop", "join", "reset"}]
      BY <2>1 DEF Release, TypeOK
    <3>3. conn' \in [Logins -> {"none", "connecting", "connected", "disconnected", "freed"}]
      BY <2>1 DEF Release, TypeOK
    <3>4. connection' \in 0 .. MaxLogins /\ crashed' \in {"no", "freed", "fatal"}
      BY <2>1, SessionAssumption DEF Release, TypeOK
    <3> QED
      BY <1>1, <3>1, <3>2, <3>3, <3>4 DEF TypeOK, thread, history
  <2>2. CASE StopLoop(d)
    <3>1. UNCHANGED <<members, conn, closing, socket, thread, leaving, crashed, history>>
      BY <2>2 DEF StopLoop
    <3>2. disc' \in [{"user", "worker"} -> {"idle", "release", "stop", "join", "reset"}]
      BY <2>2 DEF StopLoop, Returns, TypeOK
    <3>3. status' \in [Logins -> {"NOTSTARTED", "RUNNING", "QUIT"}]
      BY <2>2 DEF StopLoop, Stop, TypeOK
    <3> QED
      BY <1>1, <3>1, <3>2, <3>3 DEF TypeOK, members, thread, history
  <2>3. CASE JoinLoop(d)
    <3>1. UNCHANGED <<connection, context, params, strophe, thread, leaving, crashed, history>>
      BY <2>3 DEF JoinLoop
    <3>2. disc' \in [{"user", "worker"} -> {"idle", "release", "stop", "join", "reset"}]
      BY <2>3 DEF JoinLoop, TypeOK
    <3>3. joinable' \in BOOLEAN
      BY <2>3 DEF JoinLoop
    <3> QED
      BY <1>1, <3>1, <3>2, <3>3 DEF TypeOK, strophe, thread, history
  <2>4. CASE ResetContext(d)
    <3>1. UNCHANGED <<connection, params, joinable, strophe, thread, leaving, crashed, history>>
      BY <2>4 DEF ResetContext
    <3>2. disc' \in [{"user", "worker"} -> {"idle", "release", "stop", "join", "reset"}]
      BY <2>4 DEF ResetContext, Returns, TypeOK
    <3>3. context' \in 0 .. MaxLogins
      BY <2>4, SessionAssumption DEF ResetContext
    <3> QED
      BY <1>1, <3>1, <3>2, <3>3 DEF TypeOK, strophe, thread, history
  <2> QED
    BY <1>8, <2>1, <2>2, <2>3, <2>4 DEF DisconnectStep
<1>9. CASE DestroyMembers \/ DestroyThread \/ AddToDestroyed
  <2>1. UNCHANGED <<members, strophe, thread, disc, leaving, history>> /\ crashed' \in {"no", "freed", "fatal"}
    BY <1>9 DEF DestroyMembers, DestroyThread, AddToDestroyed, TypeOK
  <2> QED
    BY <1>1, <2>1 DEF TypeOK, members, strophe, thread, history
<1>10. CASE JoinWorker \/ CallerStep \/ WorkerStep \/ SpuriousWake
  <2>1. UNCHANGED <<members, strophe, thread, disc, leaving, crashed, history>>
    BY <1>10 DEF JoinWorker, CallerStep, WorkerStep, SpuriousWake, AroundQueue
  <2> QED
    BY <1>1, <2>1 DEF TypeOK, members, strophe, thread, history
<1>11. CASE RunReport
  <2>1. UNCHANGED <<members, strophe, thread, disc, leaving, crashed, logins, overlap>>
    BY <1>11 DEF RunReport, AroundQueue
  <2>2. func.login \in Logins /\ results' = Append(results, [login |-> func.login, ok |-> FALSE])
    <3>1. func \in Ops
      BY <1>11 DEF RunReport, QueueInv, QP!IInv, QP!TypeOK, QP!ThreadInv
    <3> QED
      BY <1>11, <3>1, OpsAre DEF RunReport
  <2>3. results' \in Seq([login : Logins, ok : BOOLEAN])
    BY <2>2, ResultsGrow DEF TypeOK
  <2> QED
    BY <1>1, <2>1, <2>3 DEF TypeOK, members, strophe, thread
<1>12. CASE LoopStart \/ LoopStartNull \/ LoopCheck \/ LoopOnce \/ LoopMark \/ NothingHappens
  <2>1. UNCHANGED <<conn, closing, socket, outside>>
    BY <1>12 DEF LoopStart, LoopStartNull, LoopCheck, LoopOnce, LoopMark, NothingHappens, strophe
  <2>2. loop' \in {"start", "check", "once", "mark", "body", "ended"}
    BY <1>12 DEF LoopStart, LoopStartNull, LoopCheck, LoopOnce, LoopMark, NothingHappens, Loop
  <2>3. crashed' \in {"no", "freed", "fatal"} /\ runner' \in 0 .. MaxLogins
    BY <1>12 DEF LoopStart, LoopStartNull, LoopCheck, LoopOnce, LoopMark, NothingHappens, TypeOK
  <2>4. status' \in [Logins -> {"NOTSTARTED", "RUNNING", "QUIT"}]
    BY <1>12 DEF LoopStart, LoopStartNull, LoopCheck, LoopOnce, LoopMark, NothingHappens, strophe, TypeOK
  <2> QED
    BY <1>1, <2>1, <2>2, <2>3, <2>4 DEF TypeOK, outside, members, history
<1>13. CASE StreamOpens \/ FlushEnd \/ ConnectionLost \/ AddTeardown \/ AddReport
  <2>1. UNCHANGED <<closing, status, runner, crashed, outside>>
    BY <1>13 DEF StreamOpens, FlushEnd, ConnectionLost, AddTeardown, AddReport, strophe
  <2>2. loop' \in {"check", "teardown", "report", "clear"}
    BY <1>13 DEF StreamOpens, FlushEnd, ConnectionLost, AddTeardown, AddReport, Loop
  <2>3. conn' \in [Logins -> {"none", "connecting", "connected", "disconnected", "freed"}]
    BY <1>13 DEF StreamOpens, FlushEnd, ConnectionLost, AddTeardown, AddReport, strophe, TypeOK
  <2>4. socket' \in [Logins -> {"none", "open", "closed"}]
    BY <1>13 DEF StreamOpens, FlushEnd, ConnectionLost, AddTeardown, AddReport, strophe, TypeOK
  <2> QED
    BY <1>1, <2>1, <2>2, <2>3, <2>4 DEF TypeOK, outside, members, history
<1>14. CASE Established \/ ClearParams
  <2>1. UNCHANGED <<connection, context, joinable, strophe, runner, disc, leaving, crashed, logins, overlap>>
    BY <1>14 DEF Established, ClearParams, history
  <2>2. loop' = "check" /\ params' = 0
    BY <1>14 DEF Established, ClearParams, Loop
  <2>3. results' \in Seq([login : Logins, ok : BOOLEAN])
    <3>1. CASE Established
      <4>1. params \in Logins /\ results' = Append(results, [login |-> params, ok |-> TRUE])
        BY <3>1, SessionAssumption DEF Established, TypeOK, Logins
      <4> QED
        BY <4>1, ResultsGrow DEF TypeOK
    <3>2. CASE ClearParams
      BY <3>2 DEF ClearParams, TypeOK, history
    <3> QED
      BY <1>14, <3>1, <3>2
  <2> QED
    BY <1>1, <2>1, <2>2, <2>3, SessionAssumption DEF TypeOK, strophe
<1> QED
  BY <1>2, <1>4, <1>5, <1>7, <1>8, <1>9, <1>10, <1>11, <1>12, <1>13, <1>14 DEF Next, LoopStep

\* While the worker is in Disconnect, Disconnect is the operation it executes.
WorkerInv == disc["worker"] # "idle" => InTeardown

\* The operation that runs goes on running until the worker ends it.
LEMMA RunningStays ==
  ASSUME QueueInv, worker = "run", QuietStep \/ AddsTeardown \/ AddsReport
  PROVE  worker' = "run" /\ func' = func
<1>1. owner = "using" => isRunning
  BY DEF QueueInv, QP!IInv, QP!ThreadInv
<1>2. CASE AddsTeardown \/ AddsReport
  BY <1>1, <1>2 DEF AddsTeardown, AddsReport, Q!StartProcessing
<1>3. CASE QuietStep
  BY <1>3 DEF QuietStep, Q!Push, Q!Notify, Q!CheckRunning, Q!Take, Q!Wait, Q!SpuriousWake,
              Q!StopProcessing, Q!Join, queue, Q!threadVars
<1> QED
  BY <1>2, <1>3

\* An operation ends with the report of a login or with a Disconnect that returns.
LEMMA OperationEnds ==
  ASSUME TypeOK, QueueInv, [Next]_vars, Q!Run
  PROVE  /\ ~QuietStep
         /\ \/ RunReport
            \/ DisconnectStep("worker") /\ disc'["worker"] = "idle"
<1>0. disc \in [Callers -> {"idle", "release", "stop", "join", "reset"}]
  BY DEF TypeOK, Callers
<1>1. worker = "run" /\ worker' = "loop"
  BY DEF Q!Run
<1>2. ~QuietStep
  BY <1>1 DEF QuietStep, Q!Push, Q!Notify, Q!CheckRunning, Q!Take, Q!Wait, Q!SpuriousWake,
              Q!StopProcessing, Q!Join, queue, Q!threadVars
<1>3. ASSUME NEW d \in {"user", "worker"}, DisconnectStep(d) PROVE d = "worker" /\ disc'["worker"] = "idle"
  BY <1>0, <1>2, <1>3 DEF DisconnectStep, Release, StopLoop, JoinLoop, ResetContext, Returns, QuietStep, Callers
<1>4. ~ (CallDisconnect \/ Destroy \/ RunTeardown) /\ ~UNCHANGED vars
  BY <1>2 DEF CallDisconnect, Destroy, RunTeardown, EndStream, QuietStep, vars
<1>5. ~ \E n \in Logins : Login(n) \/ LoginThrows(n)
  BY <1>2 DEF Login, LoginThrows, QuietStep
<1>6. ~ (DestroyMembers \/ JoinWorker \/ DestroyThread)
  BY <1>2 DEF DestroyMembers, JoinWorker, DestroyThread, QuietStep
<1>7. ~ (CallerStep \/ WorkerStep \/ SpuriousWake)
  BY <1>2 DEF CallerStep, WorkerStep, SpuriousWake, QuietStep
<1>8. ~LoopStep
  <2>1. ~AddsTeardown /\ ~AddsReport
    BY <1>1, RunningStays
  <2>2. ~AddTeardown /\ ~AddReport
    BY <1>2, <2>1 DEF AddTeardown, AddReport, Loop, AddsTeardown, AddsReport, QuietStep
  <2>3. ~ (LoopStart \/ LoopStartNull \/ LoopCheck \/ LoopOnce \/ LoopMark \/ NothingHappens)
    BY <1>2 DEF LoopStart, LoopStartNull, LoopCheck, LoopOnce, LoopMark, NothingHappens, QuietStep
  <2>4. ~ (StreamOpens \/ FlushEnd \/ Established \/ ConnectionLost \/ AddToDestroyed \/ ClearParams)
    BY <1>2 DEF StreamOpens, FlushEnd, Established, ConnectionLost, AddToDestroyed, ClearParams, QuietStep
  <2> QED
    BY <2>2, <2>3, <2>4 DEF LoopStep
<1> QED
  BY <1>2, <1>3, <1>4, <1>5, <1>6, <1>7, <1>8 DEF Next

\* The worker is in Disconnect or in a callback only while an operation runs.
LEMMA NextWorkerInv == TypeOK /\ QueueInv /\ WorkerInv /\ [Next]_vars => WorkerInv'
<1> SUFFICES ASSUME TypeOK, QueueInv, WorkerInv, [Next]_vars, disc'["worker"] # "idle" PROVE InTeardown'
    BY DEF WorkerInv
<1>0. disc \in [Callers -> {"idle", "release", "stop", "join", "reset"}]
  BY DEF TypeOK, Callers
<1>1. CASE disc["worker"] # "idle" /\ (QuietStep \/ AddsTeardown \/ AddsReport)
  BY <1>1, RunningStays DEF WorkerInv, InTeardown
<1>2. CASE disc["worker"] # "idle" /\ Q!Run
  <2>1. ~RunReport
    BY <1>2 DEF RunReport, WorkerInv, InTeardown
  <2>2. disc'["worker"] = "idle"
    BY <1>0, <1>2, <2>1, OperationEnds DEF DisconnectStep, Release, StopLoop, JoinLoop, ResetContext, Returns, Callers
  <2> QED
    BY <2>2
<1>3. CASE disc["worker"] = "idle"
  <2>1. CASE EndStream("worker")
    BY <2>1 DEF EndStream, Enters, InTeardown, queue
  <2>2. CASE UNCHANGED disc
    BY <1>3, <2>2
  <2>3. CASE EndStream("user")
    BY <1>0, <1>3, <2>3 DEF EndStream, Callers
  <2>4. ASSUME NEW d \in {"user", "worker"}, DisconnectStep(d) PROVE FALSE
    BY <1>0, <1>3, <2>4 DEF DisconnectStep, Release, StopLoop, JoinLoop, ResetContext, Returns, Callers
  <2>5. ASSUME NEW n \in Logins, Login(n) \/ LoginThrows(n) PROVE UNCHANGED disc
    BY <2>5 DEF Login, LoginThrows
  <2>6. CASE DestroyMembers \/ JoinWorker \/ DestroyThread \/ CallerStep \/ WorkerStep \/ RunReport \/ SpuriousWake
    BY <2>2, <2>6 DEF DestroyMembers, JoinWorker, DestroyThread, CallerStep, WorkerStep, RunReport, SpuriousWake, AroundQueue
  <2>7. CASE LoopStep
    <3>1. UNCHANGED disc
      BY <2>7 DEF LoopStep, LoopStart, LoopStartNull, LoopCheck, LoopOnce, LoopMark, NothingHappens, StreamOpens,
                  FlushEnd, Established, ConnectionLost, AddTeardown, AddReport, AddToDestroyed, ClearParams, outside
    <3> QED
      BY <2>2, <3>1
  <2>8. CASE UNCHANGED vars
    BY <2>2, <2>8 DEF vars
  <2> QED
    BY <2>1, <2>2, <2>3, <2>4, <2>5, <2>6, <2>7, <2>8 DEF Next, CallDisconnect, Destroy, RunTeardown
<1> QED
  BY <1>1, <1>2, <1>3, SessionStep

\* What holds of every state by the types, the queue and the worker alone.
Base == TypeOK /\ QueueInv /\ WorkerInv

\* The three of them hold at the start.
LEMMA InitBase == Init => Base
<1>1. Init => WorkerInv
  BY DEF Init, WorkerInv
<1> QED
  BY <1>1, InitTypeOK, InitQueueInv DEF Base

\* And every step keeps them.
LEMMA NextBase == Base /\ [Next]_vars => Base'
BY NextTypeOK, SessionQueueInv, NextWorkerInv DEF Base

\* The members, the threads, the state of libstrophe and the histories keep their
\* types, and so does the queue the session uses.
THEOREM TypeCorrect == Spec => []TypeOK
<1>1. Base => TypeOK
  BY DEF Base
<1> QED
  BY <1>1, InitBase, NextBase, PTL DEF Spec

-----------------------------------------------------------------------------
(* One result per login.                                                     *)

\* No member and no run loop knows a login that has not been begun.
Numbers == /\ connection <= logins
           /\ context <= logins
           /\ params <= logins
           /\ runner <= logins

\* A number is that of a login that was called, in every place it can be.
LEMMA NextNumbers == Base /\ Numbers /\ [Next]_vars => Numbers'
<1> SUFFICES ASSUME Base, Numbers, [Next]_vars PROVE Numbers'
    OBVIOUS
<1>0. /\ connection \in Nat /\ context \in Nat /\ params \in Nat /\ runner \in Nat /\ logins \in Nat
      /\ 0 <= logins
  BY SessionAssumption DEF Base, TypeOK
<1>1. ASSUME NEW n \in Logins, Login(n) \/ LoginThrows(n) PROVE Numbers'
  <2>1. /\ logins' = logins + 1 /\ params' = logins' /\ context' = logins' /\ connection' = logins'
        /\ runner' = runner \/ runner' = 0
    BY <1>0, <1>1 DEF Login, LoginThrows, BeginLogin, thread
  <2> QED
    BY <1>0, <2>1 DEF Numbers
<1>2. CASE CallDisconnect \/ Destroy \/ RunTeardown
  BY <1>2 DEF CallDisconnect, Destroy, RunTeardown, EndStream, Numbers, members, thread
<1>3. ASSUME NEW d \in {"user", "worker"}, DisconnectStep(d) PROVE Numbers'
  BY <1>0, <1>3 DEF DisconnectStep, Release, StopLoop, JoinLoop, ResetContext, Numbers, members, thread, history
<1>4. CASE DestroyMembers \/ JoinWorker \/ DestroyThread \/ CallerStep \/ WorkerStep \/ RunReport \/ SpuriousWake
  BY <1>4 DEF DestroyMembers, JoinWorker, DestroyThread, CallerStep, WorkerStep, RunReport, SpuriousWake,
              AroundQueue, Numbers, members, thread, history
<1>5. CASE LoopStep
  <2>1. CASE LoopStart \/ LoopStartNull \/ LoopCheck \/ LoopOnce \/ LoopMark \/ NothingHappens
    BY <2>1 DEF LoopStart, LoopStartNull, LoopCheck, LoopOnce, LoopMark, NothingHappens, Numbers, outside,
                members, history
  <2>2. CASE StreamOpens \/ FlushEnd \/ ConnectionLost \/ AddTeardown \/ AddReport \/ AddToDestroyed
    BY <2>2 DEF StreamOpens, FlushEnd, ConnectionLost, AddTeardown, AddReport, AddToDestroyed, Numbers,
                outside, members, thread, history
  <2>3. CASE Established \/ ClearParams
    BY <1>0, <2>3 DEF Established, ClearParams, Numbers, history
  <2> QED
    BY <1>5, <2>1, <2>2, <2>3 DEF LoopStep
<1>6. CASE UNCHANGED vars
  BY <1>6 DEF vars, members, thread, history, Numbers
<1> QED
  BY <1>1, <1>2, <1>3, <1>4, <1>5, <1>6 DEF Next

\* How a step moves results: one that reports an error, one that reports success, and
\* the others.  A login becomes the pending one only by being begun.
Told(n, b) == results' = Append(results, [login |-> n, ok |-> b])
NewPending ==
  /\ logins' \in {logins, logins + 1}
  /\ params' # 0 /\ loop' # "clear"
       => \/ params' = params /\ loop # "clear"
          \/ params' = logins + 1 /\ logins' = logins + 1

QuietMove    == QuietStep /\ UNCHANGED results
TeardownMove == AddsTeardown /\ UNCHANGED results
ReportMove   == AddsReport /\ loop' = "clear" /\ UNCHANGED <<results, logins, overlap>>
ReturnMove   == Q!Run /\ func = Teardown /\ UNCHANGED results
FailureMove  == Q!Run /\ func # Teardown /\ Told(func.login, FALSE) /\ UNCHANGED <<logins, overlap>>
SuccessMove  == /\ UNCHANGED <<queue, logins, overlap>>
                /\ loop = "body" /\ params # 0 /\ params' = 0 /\ Told(params, TRUE)

\* What a step does with the numbers of the logins, whatever else it does.
LEMMA SessionMoves ==
  ASSUME Base, [Next]_vars
  PROVE  /\ NewPending
         /\ QuietMove \/ TeardownMove \/ ReportMove \/ ReturnMove \/ FailureMove \/ SuccessMove
<1>0. logins \in Nat
  BY SessionAssumption DEF Base, TypeOK
<1>1. CASE UNCHANGED vars
  BY <1>1 DEF vars, queue, QuietStep, members, thread, history, NewPending, QuietMove
<1>2. ASSUME NEW n \in Logins, Login(n) \/ LoginThrows(n) PROVE QuietMove /\ NewPending
  BY <1>0, <1>2 DEF Login, LoginThrows, BeginLogin, QuietStep, QuietMove, NewPending, thread
<1>3. CASE CallDisconnect \/ Destroy \/ RunTeardown
  BY <1>3 DEF CallDisconnect, Destroy, RunTeardown, EndStream, QuietStep, QuietMove, NewPending, members, thread
<1>4. ASSUME NEW d \in {"user", "worker"}, DisconnectStep(d) PROVE (QuietMove \/ ReturnMove) /\ NewPending
  <2>1. UNCHANGED <<params, loop, results, logins>>
    BY <1>4 DEF DisconnectStep, Release, StopLoop, JoinLoop, ResetContext, members, thread, history
  <2>2. QuietStep \/ (Q!Run /\ disc["worker"] # "idle")
    BY <1>4 DEF DisconnectStep, Release, StopLoop, JoinLoop, ResetContext, Returns, QuietStep
  <2>3. disc["worker"] # "idle" => func = Teardown
    BY DEF Base, WorkerInv, InTeardown
  <2> QED
    BY <2>1, <2>2, <2>3 DEF QuietMove, ReturnMove, NewPending
<1>5. CASE DestroyMembers \/ JoinWorker \/ DestroyThread \/ CallerStep \/ WorkerStep \/ SpuriousWake
  <2>1. QuietStep /\ UNCHANGED <<params, loop, results, logins>>
    BY <1>5 DEF DestroyMembers, JoinWorker, DestroyThread, CallerStep, WorkerStep, SpuriousWake, AroundQueue,
                QuietStep, members, thread, history
  <2> QED
    BY <2>1 DEF QuietMove, NewPending
<1>6. CASE RunReport
  <2>1. UNCHANGED <<params, loop, logins, overlap>>
    BY <1>6 DEF RunReport, AroundQueue, members, thread
  <2> QED
    BY <1>6, <2>1 DEF RunReport, FailureMove, Told, NewPending
<1>7. CASE LoopStep
  <2>1. CASE LoopStart \/ LoopStartNull \/ LoopCheck \/ LoopOnce \/ LoopMark \/ NothingHappens
             \/ StreamOpens \/ FlushEnd \/ ConnectionLost
    <3>1. QuietStep /\ UNCHANGED <<params, results, logins>> /\ loop # "clear"
      BY <2>1 DEF LoopStart, LoopStartNull, LoopCheck, LoopOnce, LoopMark, NothingHappens, StreamOpens, FlushEnd,
                  ConnectionLost, Loop, QuietStep, outside, members, history
    <3> QED
      BY <3>1 DEF QuietMove, NewPending
  <2>2. CASE AddToDestroyed
    <3>1. QuietStep /\ UNCHANGED <<params, results, logins, loop>>
      BY <2>2 DEF AddToDestroyed, QuietStep, members, thread, history
    <3> QED
      BY <3>1 DEF QuietMove, NewPending
  <2>3. CASE ClearParams
    BY <2>3 DEF ClearParams, QuietStep, QuietMove, NewPending, history
  <2>4. CASE Established
    <3>1. UNCHANGED <<queue, logins, overlap>> /\ loop = "body" /\ params # 0 /\ params' = 0 /\ Told(params, TRUE)
      BY <2>4 DEF Established, Loop, Told
    <3> QED
      BY <3>1 DEF SuccessMove, NewPending
  <2>5. CASE AddTeardown
    <3>1. AddsTeardown /\ UNCHANGED <<params, results, logins>> /\ loop # "clear"
      BY <2>5 DEF AddTeardown, Loop, AddsTeardown, outside, members, history
    <3> QED
      BY <3>1 DEF TeardownMove, NewPending
  <2>6. CASE AddReport
    <3>1. loop = "report" /\ loop' = "clear" /\ UNCHANGED <<results, logins, overlap>>
      BY <2>6 DEF AddReport, Loop, outside, history
    <3>2. CASE params = 0
      BY <2>6, <3>1, <3>2 DEF AddReport, QuietStep, QuietMove, NewPending
    <3>3. CASE params # 0
      BY <2>6, <3>1, <3>3 DEF AddReport, AddsReport, ReportMove, NewPending
    <3> QED
      BY <3>2, <3>3
  <2> QED
    BY <1>7, <2>1, <2>2, <2>3, <2>4, <2>5, <2>6 DEF LoopStep
<1> QED
  BY <1>1, <1>2, <1>3, <1>4, <1>5, <1>6, <1>7 DEF Next

\* How a step of the queue moves what is pending.
LEMMA PendingMoves ==
  ASSUME QueueInv
  PROVE  /\ \A k \in Pending : k \in Nat /\ k > Len(executed) /\ k <= Len(Called)
         /\ QuietStep => Called' = Called /\ Pending' = Pending
         /\ \A op \in Ops : Q!StartProcessing(op) =>
              /\ Pending' = Pending \cup {Len(Called) + 1}
              /\ Len(Called) + 1 \notin Pending
              /\ \A k \in Pending : Called'[k] = Called[k] /\ k < Len(Called) + 1
              /\ Called'[Len(Called) + 1] = op
         /\ Q!Run =>
              /\ Called' = Called
              /\ Pending' = Pending \ {Len(executed) + 1}
              /\ Len(executed) + 1 \in Pending
              /\ Called[Len(executed) + 1] = func
<1>1. /\ Called \in Seq(Ops) /\ Len(executed) \in Nat /\ Len(Called) \in Nat
      /\ Len(executed) <= Len(Called)
  BY QueueTypes
<1>2. \A k \in Pending : k \in Nat /\ k > Len(executed) /\ k <= Len(Called)
  BY <1>1 DEF Pending
<1>3. QuietStep => Called' = Called /\ Pending' = Pending
  <2> SUFFICES ASSUME QuietStep PROVE Called' = Called /\ Pending' = Pending
      OBVIOUS
  <2>1. Called' = Called /\ executed' = executed
    BY QuietStepQuiet
  <2> QED
    BY <2>1 DEF Pending
<1>4. ASSUME NEW op \in Ops, Q!StartProcessing(op)
      PROVE  /\ Pending' = Pending \cup {Len(Called) + 1}
             /\ Len(Called) + 1 \notin Pending
             /\ \A k \in Pending : Called'[k] = Called[k] /\ k < Len(Called) + 1
             /\ Called'[Len(Called) + 1] = op
  <2>1. Called' = Append(Called, op) /\ executed' = executed
    BY <1>4, AdditionAppends
  <2>2. /\ Len(Called') = Len(Called) + 1
        /\ \A k \in 1 .. Len(Called) : Called'[k] = Called[k]
        /\ Called'[Len(Called) + 1] = op
    BY <1>1, <2>1, AppendProperties
  <2>3. Pending' = Len(executed) + 1 .. Len(Called) + 1
    BY <2>1, <2>2 DEF Pending
  <2>4. Pending' = Pending \cup {Len(Called) + 1} /\ Len(Called) + 1 \notin Pending
    BY <1>1, <2>3 DEF Pending
  <2>5. \A k \in Pending : k \in 1 .. Len(Called) /\ k < Len(Called) + 1
    BY <1>1 DEF Pending
  <2> QED
    BY <2>2, <2>4, <2>5
<1>5. ASSUME Q!Run
      PROVE  /\ Called' = Called
             /\ Pending' = Pending \ {Len(executed) + 1}
             /\ Len(executed) + 1 \in Pending
             /\ Called[Len(executed) + 1] = func
  <2>1. /\ Called' = Called /\ Len(executed') = Len(executed) + 1
        /\ Len(executed) + 1 \in Pending /\ Called[Len(executed) + 1] = func
    BY <1>5, RunEndsOldest
  <2>2. Pending' = Len(executed) + 2 .. Len(Called)
    BY <1>1, <2>1 DEF Pending
  <2> QED
    BY <1>1, <2>1, <2>2 DEF Pending
<1> QED
  BY <1>2, <1>3, <1>4, <1>5

\* A login has its result still to come in at most one place: as the pending login, as
\* one report among the operations pending, or already given.
OnceInv ==
  /\ OneResultPerLogin
  /\ \A i \in DOMAIN results, k \in Pending : Called[k] # Report(results[i].login)
  /\ \A k, l \in Pending : Called[k] = Called[l] => k = l \/ Called[k] = Teardown
  /\ params # 0 /\ loop # "clear" =>
       /\ \A k \in Pending : Called[k] # Report(params)
       /\ \A i \in DOMAIN results : results[i].login # params
  /\ \A k \in Pending, n \in Logins : Called[k] = Report(n) => n <= logins
  /\ \A i \in DOMAIN results : results[i].login <= logins

\* No report is the teardown.
LEMMA ReportIsNone == \A n : Report(n) # Teardown
<1>1. \A n : Report(n).kind = "report" /\ Teardown.kind = "teardown"
  BY DEF Report, Teardown
<1> QED
  BY <1>1

\* What is on record is of a login, and what is pending is an operation.
LEMMA HistoryTypes ==
  ASSUME Base
  PROVE  /\ Len(results) \in Nat /\ DOMAIN results = 1 .. Len(results)
         /\ \A i \in DOMAIN results : results[i].login \in Logins
         /\ \A k \in Pending : Called[k] \in Ops
<1> DEFINE S == [login : Logins, ok : BOOLEAN]
<1>1. results \in Seq(S)
  BY DEF Base, TypeOK
<1>2. \A r \in S : r.login \in Logins
  OBVIOUS
<1> HIDE DEF S
<1>4. Len(results) \in Nat /\ DOMAIN results = 1 .. Len(results) /\ \A i \in DOMAIN results : results[i] \in S
  BY <1>1
<1>3. ASSUME NEW k \in Pending PROVE Called[k] \in Ops
  <2>1. k \in 1 .. Len(Called) /\ Called \in Seq(Ops)
    BY <1>3, QueueTypes DEF Base, Pending
  <2> QED
    BY <2>1
<1> QED
  BY <1>2, <1>3, <1>4

\* Nothing of a login that has not been begun is pending or has been given.
LEMMA NewPendingIsFresh ==
  ASSUME Base, OnceInv, NewPending, results' = results, 
         \A k \in Pending' : Called'[k] = Teardown \/ (k \in Pending /\ Called'[k] = Called[k])
  PROVE  OnceInv'
<1>0. /\ logins \in Nat /\ params \in Nat /\ logins' \in {logins, logins + 1}
      /\ \A i \in DOMAIN results : results[i].login \in Logins
      /\ \A n \in Logins : n \in Nat
      /\ \A k \in Pending : Called[k] \in Ops
  <2>1. logins \in Nat /\ params \in Nat /\ \A n \in Logins : n \in Nat
    BY SessionAssumption DEF Base, TypeOK, Logins
  <2> QED
    BY <2>1, HistoryTypes DEF NewPending
<1>1. (\A k \in Pending, n \in Logins : Called[k] = Report(n) => n <= logins)'
  <2> SUFFICES ASSUME NEW k \in Pending', NEW n \in Logins, Called'[k] = Report(n) PROVE n <= logins'
      OBVIOUS
  <2>1. n <= logins /\ n \in Nat
    BY <1>0, ReportIsNone DEF OnceInv
  <2> QED
    BY <1>0, <2>1
<1>2. (\A i \in DOMAIN results : results[i].login <= logins)'
  <2> SUFFICES ASSUME NEW i \in DOMAIN results PROVE results[i].login <= logins'
      OBVIOUS
  <2>1. results[i].login <= logins /\ results[i].login \in Nat
    BY <1>0 DEF OnceInv
  <2> QED
    BY <1>0, <2>1
<1>3. (params # 0 /\ loop # "clear" =>
         /\ \A k \in Pending : Called[k] # Report(params)
         /\ \A i \in DOMAIN results : results[i].login # params)'
  <2> SUFFICES ASSUME params' # 0, loop' # "clear"
               PROVE  /\ \A k \in Pending' : Called'[k] # Report(params')
                      /\ \A i \in DOMAIN results : results[i].login # params'
      OBVIOUS
  <2>1. CASE params' = params /\ loop # "clear"
    BY <2>1, ReportIsNone DEF OnceInv
  <2>2. CASE params' = logins + 1
    <3>1. ASSUME NEW k \in Pending, Called[k] = Report(logins + 1) PROVE FALSE
      <4>1. Called[k].login = logins + 1 /\ Called[k].kind = "report"
        BY <3>1 DEF Report
      <4>2. Called[k] # Teardown
        BY <4>1 DEF Teardown
      <4>3. Called[k].login \in Logins /\ Called[k] = Report(Called[k].login)
        BY <1>0, <4>2, OpsAre
      <4>4. logins + 1 <= logins
        BY <4>1, <4>3 DEF OnceInv
      <4> QED
        BY <1>0, <4>4
    <3>2. ASSUME NEW i \in DOMAIN results, results[i].login = logins + 1 PROVE FALSE
      BY <1>0, <3>2 DEF OnceInv
    <3> QED
      BY <2>2, <3>1, <3>2, ReportIsNone
  <2> QED
    BY <2>1, <2>2 DEF NewPending
<1>4. (\A i \in DOMAIN results, k \in Pending : Called[k] # Report(results[i].login))'
  BY <1>0, ReportIsNone DEF OnceInv
<1>5. (\A k, l \in Pending : Called[k] = Called[l] => k = l \/ Called[k] = Teardown)'
  BY DEF OnceInv
<1> QED
  BY <1>1, <1>2, <1>3, <1>4, <1>5 DEF OnceInv, OneResultPerLogin

\* A result of a login with nothing else to come is its only one.
LEMMA ToldOnce ==
  ASSUME Base, OnceInv, NEW n \in Logins, NEW b \in BOOLEAN, Told(n, b), UNCHANGED logins, n <= logins,
         \A i \in DOMAIN results : results[i].login # n,
         Called' = Called, Pending' \subseteq Pending, \A k \in Pending' : Called[k] # Report(n),
         params' # 0 /\ loop' # "clear" => params' = params /\ loop # "clear" /\ params # n
  PROVE  OnceInv'
<1>1. /\ Len(results') = Len(results) + 1
      /\ \A i \in 1 .. Len(results) : results'[i] = results[i]
      /\ results'[Len(results) + 1].login = n
      /\ DOMAIN results' = 1 .. Len(results')
  <2>1. results \in Seq([login : Logins, ok : BOOLEAN])
    BY DEF Base, TypeOK
  <2> QED
    BY <2>1, ResultsGrow DEF Told
<1>2. Len(results) \in Nat /\ DOMAIN results = 1 .. Len(results)
  BY HistoryTypes
<1>3. \A i \in DOMAIN results' :
        \/ i \in DOMAIN results /\ results'[i] = results[i]
        \/ i = Len(results) + 1 /\ i \notin DOMAIN results /\ results'[i].login = n
  BY <1>1, <1>2
<1>4. OneResultPerLogin'
  BY <1>3 DEF OnceInv, OneResultPerLogin
<1>5. (\A i \in DOMAIN results, k \in Pending : Called[k] # Report(results[i].login))'
  BY <1>3 DEF OnceInv
<1>6. (params # 0 /\ loop # "clear" =>
         /\ \A k \in Pending : Called[k] # Report(params)
         /\ \A i \in DOMAIN results : results[i].login # params)'
  BY <1>3 DEF OnceInv
<1>7. (\A i \in DOMAIN results : results[i].login <= logins)'
  BY <1>3 DEF OnceInv
<1> QED
  BY <1>4, <1>5, <1>6, <1>7 DEF OnceInv

\* Each move keeps the result of a login in one place.
LEMMA NextOnce == Base /\ Numbers /\ OnceInv /\ [Next]_vars => OnceInv'
<1> SUFFICES ASSUME Base, Numbers, OnceInv, [Next]_vars PROVE OnceInv'
    OBVIOUS
<1>0. /\ NewPending
      /\ QuietMove \/ TeardownMove \/ ReportMove \/ ReturnMove \/ FailureMove \/ SuccessMove
  BY SessionMoves
<1>t. /\ params \in Nat /\ logins \in Nat /\ params <= logins
      /\ params # 0 => params \in Logins
      /\ func \in Ops \cup {NoOp}
  BY SessionAssumption DEF Base, TypeOK, Logins, Numbers, QueueInv, QP!IInv, QP!TypeOK
<1>1. CASE QuietMove \/ ReturnMove
  <2>1. Called' = Called /\ Pending' \subseteq Pending /\ results' = results
    BY <1>1, PendingMoves DEF QuietMove, ReturnMove, Base
  <2> QED
    BY <1>0, <2>1, NewPendingIsFresh
<1>2. CASE TeardownMove
  <2>1. \A k \in Pending' : Called'[k] = Teardown \/ (k \in Pending /\ Called'[k] = Called[k])
    BY <1>2, PendingMoves, OpsAre DEF TeardownMove, AddsTeardown, Base
  <2> QED
    BY <1>0, <1>2, <2>1, NewPendingIsFresh DEF TeardownMove
<1>3. CASE ReportMove
  <2>1. /\ params # 0 /\ loop = "report" /\ loop' = "clear" /\ results' = results /\ logins' = logins
        /\ Q!StartProcessing(Report(params)) /\ params \in Logins /\ Report(params) \in Ops
    BY <1>t, <1>3, OpsAre DEF ReportMove, AddsReport
  <2>2. /\ Pending' = Pending \cup {Len(Called) + 1}
        /\ Len(Called) + 1 \notin Pending
        /\ \A k \in Pending : Called'[k] = Called[k]
        /\ Called'[Len(Called) + 1] = Report(params)
    BY <2>1, PendingMoves DEF Base
  <2>3. (\A i \in DOMAIN results, k \in Pending : Called[k] # Report(results[i].login))'
    <3>1. \A i \in DOMAIN results : Report(results[i].login) # Report(params)
      BY <2>1, HistoryTypes, OpsAre DEF OnceInv
    <3> QED
      BY <2>1, <2>2, <3>1 DEF OnceInv
  <2>4. (\A k, l \in Pending : Called[k] = Called[l] => k = l \/ Called[k] = Teardown)'
    BY <2>1, <2>2 DEF OnceInv
  <2>5. (\A k \in Pending, n \in Logins : Called[k] = Report(n) => n <= logins)'
    BY <1>t, <2>1, <2>2, OpsAre DEF OnceInv
  <2> QED
    BY <2>1, <2>3, <2>4, <2>5 DEF OnceInv, OneResultPerLogin
<1>4. CASE FailureMove
  <2>1. /\ Q!Run /\ func # Teardown /\ Told(func.login, FALSE) /\ logins' = logins
        /\ func # NoOp /\ func \in Ops
    BY <1>t, <1>4 DEF FailureMove, Base, QueueInv, QP!IInv, QP!ThreadInv, Q!Run
  <2>2. func.login \in Logins /\ func = Report(func.login)
    BY <2>1, OpsAre
  <2>3. /\ Called' = Called /\ Len(executed) + 1 \in Pending
        /\ Pending' = Pending \ {Len(executed) + 1}
        /\ Called[Len(executed) + 1] = Report(func.login)
    BY <2>1, <2>2, PendingMoves DEF Base
  <2>4. func.login <= logins /\ \A i \in DOMAIN results : results[i].login # func.login
    BY <2>2, <2>3 DEF OnceInv
  <2>5. \A k \in Pending' : Called[k] # Report(func.login)
    BY <2>3, ReportIsNone DEF OnceInv
  <2>6. params' # 0 /\ loop' # "clear" => params' = params /\ loop # "clear" /\ params # func.login
    <3>1. params # 0 /\ loop # "clear" => params # func.login
      BY <2>3 DEF OnceInv
    <3> QED
      BY <1>0, <1>t, <2>1, <3>1 DEF NewPending
  <2> QED
    BY <2>1, <2>2, <2>3, <2>4, <2>5, <2>6, ToldOnce
<1>5. CASE SuccessMove
  <2>1. /\ params # 0 /\ params' = 0 /\ loop = "body" /\ Told(params, TRUE) /\ UNCHANGED queue
        /\ logins' = logins /\ params \in Logins
    BY <1>t, <1>5 DEF SuccessMove
  <2>2. Called' = Called /\ Pending' = Pending
    BY <2>1, PendingMoves DEF Base, QuietStep
  <2>3. /\ \A i \in DOMAIN results : results[i].login # params
        /\ \A k \in Pending : Called[k] # Report(params)
    BY <2>1 DEF OnceInv
  <2> QED
    BY <1>t, <2>1, <2>2, <2>3, ToldOnce
<1> QED
  BY <1>0, <1>1, <1>2, <1>3, <1>4, <1>5

\* No login has been called at the start.
LEMMA InitOnce == Init => Numbers /\ OnceInv
<1> SUFFICES ASSUME Init PROVE Numbers /\ OnceInv
    OBVIOUS
<1>1. Pending = {} /\ results = <<>> /\ params = 0
  BY DEF Init, Q!Init, Pending, Called
<1> QED
  BY <1>1, EmptySeq DEF Init, Numbers, OnceInv, OneResultPerLogin

\* Whatever the order of Login, Disconnect, the events of the connection and the
\* operations of the queue, the callback of a login is called at most once.
THEOREM OneResult == Spec => []OneResultPerLogin
<1>1. OnceInv => OneResultPerLogin
  BY DEF OnceInv
<1> QED
  BY <1>1, InitBase, NextBase, InitOnce, NextNumbers, NextOnce, PTL DEF Spec

-----------------------------------------------------------------------------
(* The members while the application and the worker stay out of each other's *)
(* way.                                                                      *)

Calm == ~overlap /\ crashed = "no"

\* Where Disconnect is tells what it has done already.
DisconnectInv ==
  /\ disc["worker"] # "idle" => disc["user"] = "idle"
  /\ \A d \in Callers :
       /\ disc[d] = "release" => connection # 0
       /\ disc[d] \in {"stop", "join", "reset"} => connection = 0
       /\ disc[d] = "join" => joinable
       /\ disc[d] = "reset" => ~joinable /\ loop = "ended"

\* m_runLoop can be joined as long as a Disconnect that will join it is still to come,
\* or on its way, and the thread that runs is the one it holds.
LoopInv ==
  /\ joinable => context # 0 /\ (connection # 0 \/ \E d \in Callers : disc[d] \in {"stop", "join"})
  /\ loop \notin {"none", "ended"} => joinable /\ (loop # "start" => runner = context)

\* m_connection, m_context and m_loginParams are those of the last login, or reset;
\* m_connection goes first.
MembersInv ==
  /\ connection # 0 => context = connection
  /\ context # 0 /\ connection = 0 => conn[context] = "freed"
  /\ params # 0 => context \in {0, params}

\* The destructor leaves nothing to tear down, and the queue goes after it; only the
\* run loop's handler of a lost connection adds operations.
EndInv ==
  /\ leaving /\ disc["user"] = "idle" => connection = 0 /\ ~joinable
  /\ owner # "using" => leaving /\ disc["user"] = "idle"
  /\ caller # "idle" => loop \in {"report", "clear"}

MemberInv == DisconnectInv /\ LoopInv /\ MembersInv /\ EndInv
CalmInv   == Calm => MemberInv

\* Neither an overlap nor the end of the process is ever undone.
LEMMA CalmBefore ==
  ASSUME [Next]_vars
  PROVE  /\ ~overlap' => ~overlap
         /\ ~UNCHANGED vars => crashed = "no"
<1>1. ASSUME NEW n \in Logins, Login(n) \/ LoginThrows(n) PROVE (~overlap' => ~overlap) /\ crashed = "no"
  BY <1>1 DEF Login, LoginThrows, BeginLogin, UserIdle
<1>2. CASE CallDisconnect \/ Destroy \/ RunTeardown
  BY <1>2 DEF CallDisconnect, Destroy, RunTeardown, EndStream
<1>3. ASSUME NEW d \in {"user", "worker"}, DisconnectStep(d) PROVE (~overlap' => ~overlap) /\ crashed = "no"
  BY <1>3 DEF DisconnectStep, Release, StopLoop, JoinLoop, ResetContext, history
<1>4. CASE DestroyMembers \/ JoinWorker \/ DestroyThread \/ CallerStep \/ WorkerStep \/ RunReport \/ SpuriousWake
  BY <1>4 DEF DestroyMembers, JoinWorker, DestroyThread, CallerStep, WorkerStep, RunReport, SpuriousWake, AroundQueue, history
<1>5. CASE LoopStep
  BY <1>5 DEF LoopStep, LoopStart, LoopStartNull, LoopCheck, LoopOnce, LoopMark, NothingHappens, StreamOpens,
              FlushEnd, Established, ConnectionLost, AddTeardown, AddReport, AddToDestroyed, ClearParams,
              Loop, outside, history
<1>6. CASE UNCHANGED vars
  BY <1>6 DEF vars, history
<1> QED
  BY <1>1, <1>2, <1>3, <1>4, <1>5, <1>6 DEF Next

\* What a step of the queue may change of what the session's invariant mentions.
LEMMA QueueFrame ==
  ASSUME QueueInv
  PROVE  /\ Q!Push => caller # "idle" /\ UNCHANGED owner
         /\ Q!Notify => caller' = "idle" /\ UNCHANGED owner
         /\ Q!Run => UNCHANGED <<caller, owner>>
         /\ Q!CheckRunning \/ Q!Take \/ Q!Wait \/ Q!SpuriousWake => UNCHANGED <<caller, owner>>
         /\ Q!Join => UNCHANGED caller /\ owner # "using"
BY DEF Q!Push, Q!Notify, Q!Run, Q!CheckRunning, Q!Take, Q!Wait, Q!SpuriousWake, Q!Join, Q!callerVars,
       QueueInv, QP!IInv, QP!ThreadInv

\* As long as they do, every step keeps the members consistent.
LEMMA NextMemberInv ==
  ASSUME Base, Calm, MemberInv, Calm', [Next]_vars
  PROVE  MemberInv'
<1>0. /\ disc \in [Callers -> {"idle", "release", "stop", "join", "reset"}]
      /\ conn \in [Logins -> {"none", "connecting", "connected", "disconnected", "freed"}]
      /\ \A n \in Logins : n # 0
      /\ connection # 0 => connection \in Logins
      /\ context # 0 => context \in Logins
  BY SessionAssumption DEF Base, TypeOK, Callers, Logins
<1> USE DEF MemberInv, DisconnectInv, LoopInv, MembersInv, EndInv
<1>1. ASSUME NEW n \in Logins, Login(n) PROVE MemberInv'
  <2>1. /\ connection = 0 /\ disc["user"] = "idle" /\ ~InTeardown /\ ~joinable /\ ~leaving
        /\ connection' = n /\ context' = n /\ params' = n /\ joinable' /\ loop' = "start"
        /\ UNCHANGED <<disc, leaving, caller, owner>>
    BY <1>1 DEF Login, BeginLogin, UserIdle, Calm, queue
  <2>2. disc["worker"] = "idle"
    BY <2>1 DEF Base, WorkerInv
  <2>3. caller = "idle"
    BY <2>1
  <2> QED
    BY <1>0, <2>1, <2>2, <2>3 DEF Callers
<1>2. ASSUME NEW n \in Logins, LoginThrows(n) PROVE MemberInv'
  <2>1. /\ connection = 0 /\ disc["user"] = "idle" /\ ~InTeardown /\ ~leaving
        /\ connection' = n /\ context' = n /\ params' = n
        /\ UNCHANGED <<disc, leaving, caller, owner, joinable, loop, runner>>
    BY <1>2 DEF LoginThrows, BeginLogin, UserIdle, Calm, queue, thread
  <2>2. disc["worker"] = "idle"
    BY <2>1 DEF Base, WorkerInv
  <2>3. ~joinable
    BY <2>1, <2>2 DEF Callers
  <2> QED
    BY <1>0, <2>1, <2>2, <2>3 DEF Callers
<1>3. CASE EndStream("user") /\ UserIdle
  <2>1. /\ owner = "using" /\ ~InTeardown /\ disc["user"] = "idle" /\ UNCHANGED <<members, conn, thread, caller, owner>>
        /\ disc' = [disc EXCEPT !["user"] = IF connection # 0 THEN "release" ELSE "stop"]
    BY <1>3 DEF EndStream, Enters, Calm, queue
  <2>2. disc["worker"] = "idle"
    BY <2>1 DEF Base, WorkerInv
  <2>3. disc'["worker"] = "idle" /\ disc'["user"] = IF connection # 0 THEN "release" ELSE "stop"
    BY <1>0, <2>1, <2>2 DEF Callers
  <2> QED
    BY <2>1, <2>2, <2>3 DEF members, thread, Callers
<1>4. CASE RunTeardown
  <2>1. /\ disc["user"] = "idle" /\ disc["worker"] = "idle" /\ UNCHANGED <<members, conn, thread, caller, owner, leaving>>
        /\ disc' = [disc EXCEPT !["worker"] = IF connection # 0 THEN "release" ELSE "stop"]
    BY <1>4 DEF RunTeardown, EndStream, Enters, Calm, queue
  <2>2. disc'["user"] = "idle" /\ disc'["worker"] = IF connection # 0 THEN "release" ELSE "stop"
    BY <1>0, <2>1 DEF Callers
  <2> QED
    BY <2>1, <2>2 DEF members, thread, Callers
<1>5. ASSUME NEW d \in Callers, disc[d] # "idle" PROVE \A e \in Callers : e # d => disc[e] = "idle"
  BY <1>5 DEF Callers
<1>6. ASSUME NEW d \in Callers, Release(d) PROVE MemberInv'
  <2>1. /\ disc[d] = "release" /\ connection # 0 /\ connection' = 0
        /\ disc'[d] = "stop" /\ \A e \in Callers : e # d => disc'[e] = "idle"
        /\ conn' = [conn EXCEPT ![connection] = "freed"]
        /\ UNCHANGED <<caller, owner, context, params, joinable, loop, runner, leaving>>
    BY <1>0, <1>5, <1>6 DEF Release, queue, thread
  <2>2. context' # 0 => conn'[context'] = "freed"
    BY <1>0, <2>1
  <2> QED
    BY <2>1, <2>2 DEF Callers
<1>7. ASSUME NEW d \in Callers, StopLoop(d) PROVE MemberInv'
  <2>1. /\ disc[d] = "stop" /\ connection = 0 /\ \A e \in Callers : e # d => disc[e] = "idle" /\ disc'[e] = "idle"
        /\ UNCHANGED <<members, conn, loop, runner, leaving>>
    BY <1>0, <1>5, <1>7 DEF StopLoop, thread, Returns
  <2>2. \/ disc'[d] = "join" /\ joinable
        \/ disc'[d] = "idle" /\ ~joinable
    BY <1>0, <1>7, <2>1 DEF StopLoop, Returns
  <2>3. UNCHANGED <<caller, owner>>
    BY <1>7, QueueFrame DEF StopLoop, Returns, queue, Base
  <2> QED
    BY <2>1, <2>2, <2>3 DEF Callers, members
<1>8. ASSUME NEW d \in Callers, JoinLoop(d) PROVE MemberInv'
  <2>1. /\ disc[d] = "join" /\ connection = 0 /\ loop = "ended" /\ ~joinable' /\ disc'[d] = "reset"
        /\ \A e \in Callers : e # d => disc'[e] = "idle"
        /\ UNCHANGED <<connection, context, params, conn, loop, runner, leaving, caller, owner>>
    BY <1>0, <1>5, <1>8 DEF JoinLoop, queue, thread, strophe
  <2> QED
    BY <2>1 DEF Callers
<1>9. ASSUME NEW d \in Callers, ResetContext(d) PROVE MemberInv'
  <2>1. /\ disc[d] = "reset" /\ connection = 0 /\ loop = "ended" /\ ~joinable /\ disc'[d] = "idle" /\ context' = 0
        /\ \A e \in Callers : e # d => disc'[e] = "idle"
        /\ UNCHANGED <<connection, params, joinable, loop, runner, leaving>>
    BY <1>0, <1>5, <1>9 DEF ResetContext, Returns, thread
  <2>2. UNCHANGED <<caller, owner>>
    BY <1>9, QueueFrame DEF ResetContext, Returns, queue, Base
  <2> QED
    BY <2>1, <2>2 DEF Callers
<1>10. CASE DestroyMembers
  <2>1. /\ leaving /\ disc["user"] = "idle" /\ UNCHANGED <<members, conn, loop, runner, disc, leaving, caller>>
    BY <1>10 DEF DestroyMembers, strophe, thread, Q!StopProcessing, queue, Q!callerVars
  <2> QED
    BY <2>1 DEF members
<1>11. CASE DestroyThread \/ AddToDestroyed \/ LoopStartNull
  BY <1>11 DEF DestroyThread, AddToDestroyed, LoopStartNull, Calm
<1>12. CASE JoinWorker \/ CallerStep \/ WorkerStep \/ RunReport \/ SpuriousWake
  <2>1. UNCHANGED <<members, conn, loop, runner, disc, leaving>>
    BY <1>12 DEF JoinWorker, CallerStep, WorkerStep, RunReport, SpuriousWake, AroundQueue, strophe, thread
  <2>2. /\ owner' # "using" => owner # "using"
        /\ caller' # "idle" => caller # "idle"
    BY <1>12, QueueFrame DEF JoinWorker, CallerStep, WorkerStep, RunReport, SpuriousWake, Base
  <2> QED
    BY <2>1, <2>2 DEF members
<1>13. CASE LoopStart \/ LoopCheck \/ LoopOnce \/ LoopMark \/ NothingHappens \/ FlushEnd
  <2>1. /\ UNCHANGED <<members, conn, disc, leaving, caller, owner>>
        /\ loop \notin {"none", "ended", "report", "clear"}
        /\ loop' # "start"
        /\ runner' = IF loop = "start" THEN context ELSE runner
    BY <1>13 DEF LoopStart, LoopCheck, LoopOnce, LoopMark, NothingHappens, FlushEnd, Loop, outside, queue, strophe
  <2> QED
    BY <2>1 DEF members
<1>14. CASE StreamOpens \/ ConnectionLost
  <2>1. /\ UNCHANGED <<members, disc, leaving, caller, owner, runner>>
        /\ loop = "body" /\ loop' # "start" /\ conn[runner] # "freed"
        /\ \A n \in Logins : n # runner => conn'[n] = conn[n]
    BY <1>0, <1>14 DEF StreamOpens, ConnectionLost, Loop, outside, queue
  <2>2. runner = context /\ context # 0
    BY <2>1
  <2> QED
    BY <1>0, <2>1, <2>2 DEF members
<1>15. CASE Established \/ ClearParams
  <2>1. /\ UNCHANGED <<connection, context, joinable, conn, disc, leaving, caller, owner, runner>> /\ params' = 0
        /\ loop \in {"body", "clear"} /\ loop' = "check" /\ (loop = "clear" => caller = "idle")
    BY <1>15 DEF Established, ClearParams, Loop, queue, strophe
  <2> QED
    BY <2>1
<1>16. CASE AddTeardown \/ AddReport
  <2>1. /\ UNCHANGED <<members, conn, disc, leaving, owner, runner>>
        /\ loop \in {"teardown", "report"} /\ loop' \in {"report", "clear"}
    BY <1>16 DEF AddTeardown, AddReport, Loop, outside, strophe, queue, Q!StartProcessing
  <2> QED
    BY <2>1 DEF members
<1>17. CASE UNCHANGED vars
  BY <1>17 DEF vars, members, strophe, thread, queue
<1>18. ASSUME NEW d \in {"user", "worker"}, DisconnectStep(d) PROVE MemberInv'
  BY <1>6, <1>7, <1>8, <1>9, <1>18 DEF DisconnectStep, Callers
<1> HIDE DEF MemberInv
<1> QED
  BY <1>1, <1>2, <1>3, <1>4, <1>10, <1>11, <1>12, <1>13, <1>14, <1>15, <1>16, <1>17, <1>18
     DEF Next, LoopStep, CallDisconnect, Destroy

\* Without overlapping calls every step keeps the order of the teardown.
LEMMA NextCalmInv == Base /\ CalmInv /\ [Next]_vars => CalmInv'
<1> SUFFICES ASSUME Base, CalmInv, [Next]_vars, Calm' PROVE MemberInv'
    BY DEF CalmInv
<1>1. Calm
  BY CalmBefore DEF Calm, vars, history
<1> QED
  BY <1>1, NextMemberInv DEF CalmInv

\* No call has overlapped another at the start.
LEMMA InitCalmInv == Init => CalmInv /\ FatalOnlyByOverlap
BY DEF Init, Q!Init, CalmInv, MemberInv, DisconnectInv, LoopInv, MembersInv, EndInv, Callers, FatalOnlyByOverlap

\* While the members are consistent no step ends the process fatally.
LEMMA NextFatal == Base /\ CalmInv /\ FatalOnlyByOverlap /\ [Next]_vars => FatalOnlyByOverlap'
<1> SUFFICES ASSUME Base, CalmInv, FatalOnlyByOverlap, [Next]_vars, crashed' = "fatal", ~overlap' PROVE FALSE
    BY DEF FatalOnlyByOverlap
<1>1. ~overlap
  BY CalmBefore
<1>2. crashed = "no" /\ crashed' # crashed
  BY <1>1, CalmBefore DEF FatalOnlyByOverlap, vars
<1>3. MemberInv
  BY <1>1, <1>2 DEF CalmInv, Calm
<1> USE <1>1, <1>2, <1>3 DEF MemberInv, DisconnectInv, LoopInv, MembersInv, EndInv, Callers
<1>4. ASSUME NEW n \in Logins, Login(n) PROVE FALSE
  <2>1. joinable /\ connection = 0 /\ disc["user"] = "idle" /\ ~InTeardown
    BY <1>4 DEF Login, BeginLogin, UserIdle
  <2>2. disc["worker"] = "idle"
    BY <2>1 DEF Base, WorkerInv
  <2> QED
    BY <2>1, <2>2
<1>5. ASSUME NEW d \in {"user", "worker"}, Release(d) PROVE FALSE
  BY <1>5 DEF Release
<1>6. ~DestroyMembers
  BY DEF DestroyMembers
<1>7. ~DestroyThread
  BY DEF DestroyThread
<1>8. ~LoopStartNull
  BY DEF LoopStartNull, Loop
<1>9. ~AddToDestroyed
  BY DEF AddToDestroyed
<1>10. ~ \E n \in Logins : LoginThrows(n)
  BY DEF LoginThrows
<1>11. ~ (CallDisconnect \/ Destroy \/ RunTeardown)
  BY DEF CallDisconnect, Destroy, RunTeardown, EndStream
<1>12. ASSUME NEW d \in {"user", "worker"}, StopLoop(d) \/ JoinLoop(d) \/ ResetContext(d) PROVE FALSE
  BY <1>12 DEF StopLoop, JoinLoop, ResetContext
<1>13. ~ (JoinWorker \/ CallerStep \/ WorkerStep \/ RunReport \/ SpuriousWake)
  BY DEF JoinWorker, CallerStep, WorkerStep, RunReport, SpuriousWake, AroundQueue
<1>14. ~ (LoopStart \/ LoopCheck \/ LoopOnce \/ LoopMark \/ NothingHappens \/ StreamOpens \/ FlushEnd
          \/ Established \/ ConnectionLost \/ AddTeardown \/ AddReport \/ ClearParams)
  BY DEF LoopStart, LoopCheck, LoopOnce, LoopMark, NothingHappens, StreamOpens, FlushEnd, Established,
         ConnectionLost, AddTeardown, AddReport, ClearParams
<1>15. ~UNCHANGED vars
  BY DEF vars
<1> QED
  BY <1>4, <1>5, <1>6, <1>7, <1>8, <1>9, <1>10, <1>11, <1>12, <1>13, <1>14, <1>15
     DEF Next, LoopStep, DisconnectStep

\* As long as the application stays out of Login and Disconnect while the worker tears a
\* session down, nothing ends the process fatally, and the run loop's thread and its
\* context are those the members hold.
THEOREM SoundAlone == Spec => []SoundWithoutOverlap
<1>1. CalmInv /\ FatalOnlyByOverlap => SoundWithoutOverlap
  BY DEF CalmInv, Calm, MemberInv, LoopInv, SoundWithoutOverlap, LoopRunsContext
<1> QED
  BY <1>1, InitBase, NextBase, InitCalmInv, NextCalmInv, NextFatal, PTL DEF Spec

-----------------------------------------------------------------------------
(* The error after the teardown.                                             *)

\* The session of the login is gone: its connection is freed, its context is not the
\* one held any more, and its run loop is over.
Gone(n) == conn[n] = "freed" /\ context # n /\ (runner = n => loop = "ended")

\* It is the one the next Disconnect will end, or has just ended.
Ending(n) == context = n /\ (joinable \/ \E d \in Callers : disc[d] = "reset")

\* Before the report of a login stands the teardown of its session, or that is over.
ReportInv ==
  /\ \A k \in Pending, n \in Logins :
       Called[k] = Report(n) =>
         Gone(n) \/ (Ending(n) /\ \E j \in Pending : j < k /\ Called[j] = Teardown)
  /\ loop = "report" => \E j \in Pending : Called[j] = Teardown

\* What is gone stays gone.
LEMMA GoneStays ==
  ASSUME Base, Numbers, Calm, MemberInv, Calm', [Next]_vars, NEW n \in Logins, n <= logins, Gone(n)
  PROVE  Gone(n)'
<1>0. /\ logins \in Nat /\ n # 0 /\ n \in Nat /\ connection \in Nat /\ context \in Nat
      /\ conn \in [Logins -> {"none", "connecting", "connected", "disconnected", "freed"}]
  BY SessionAssumption DEF Base, TypeOK, Logins
<1> USE DEF Gone
<1>1. ASSUME NEW m \in Logins, Login(m) \/ LoginThrows(m) PROVE Gone(n)'
  <2>1. m # n /\ conn'[n] = conn[n] /\ context' = m
    BY <1>0, <1>1 DEF Login, LoginThrows, BeginLogin
  <2>2. CASE UNCHANGED thread
    BY <2>1, <2>2 DEF thread
  <2>3. CASE runner' = 0
    BY <1>0, <2>1, <2>3
  <2> QED
    BY <1>1, <2>1, <2>2, <2>3 DEF Login, LoginThrows
<1>2. CASE CallDisconnect \/ Destroy \/ RunTeardown
  BY <1>2 DEF CallDisconnect, Destroy, RunTeardown, EndStream, members, thread
<1>3. ASSUME NEW d \in {"user", "worker"}, DisconnectStep(d) PROVE Gone(n)'
  <2>1. UNCHANGED thread /\ context' \in {context, 0}
    BY <1>3 DEF DisconnectStep, Release, StopLoop, JoinLoop, ResetContext, members
  <2>2. conn'[n] = "freed"
    BY <1>0, <1>3 DEF DisconnectStep, Release, StopLoop, JoinLoop, ResetContext, strophe
  <2> QED
    BY <1>0, <2>1, <2>2 DEF thread
<1>4. CASE DestroyMembers \/ JoinWorker \/ DestroyThread \/ CallerStep \/ WorkerStep \/ RunReport \/ SpuriousWake \/ AddToDestroyed
  BY <1>4 DEF DestroyMembers, JoinWorker, DestroyThread, CallerStep, WorkerStep, RunReport, SpuriousWake, AddToDestroyed,
              AroundQueue, members, strophe, thread
<1>5. CASE LoopStart \/ LoopStartNull
  BY <1>5 DEF LoopStart, LoopStartNull, Loop, outside, members, strophe
<1>6. CASE LoopCheck \/ LoopOnce \/ LoopMark \/ NothingHappens \/ FlushEnd \/ Established \/ AddTeardown \/ AddReport \/ ClearParams
  <2>1. UNCHANGED <<conn, context, runner>> /\ loop # "ended"
    BY <1>6 DEF LoopCheck, LoopOnce, LoopMark, NothingHappens, FlushEnd, Established, AddTeardown, AddReport, ClearParams,
                Loop, outside, members, strophe
  <2> QED
    BY <2>1
<1>7. CASE StreamOpens \/ ConnectionLost
  <2>1. UNCHANGED <<context, runner>> /\ loop # "ended" /\ \A m \in Logins : m # runner => conn'[m] = conn[m]
    BY <1>0, <1>7 DEF StreamOpens, ConnectionLost, Loop, outside, members
  <2> QED
    BY <2>1
<1>8. CASE UNCHANGED vars
  BY <1>8 DEF vars, members, strophe, thread
<1> QED
  BY <1>1, <1>2, <1>3, <1>4, <1>5, <1>6, <1>7, <1>8 DEF Next, LoopStep

\* The session the next Disconnect ends stays that, or is gone; when Disconnect returns
\* it is gone.
LEMMA EndingStays ==
  ASSUME Base, Calm, MemberInv, Calm', [Next]_vars, NEW n \in Logins, Ending(n)
  PROVE  Ending(n)' \/ Gone(n)'
<1>0. /\ n # 0 /\ context = n
      /\ disc \in [Callers -> {"idle", "release", "stop", "join", "reset"}]
  BY SessionAssumption DEF Base, TypeOK, Logins, Callers, Ending
<1>1. ASSUME NEW m \in Logins, Login(m) \/ LoginThrows(m) PROVE FALSE
  <2>1. connection = 0 /\ disc["user"] = "idle" /\ ~InTeardown
    BY <1>1 DEF Login, LoginThrows, BeginLogin, UserIdle, Calm
  <2>2. disc["worker"] = "idle"
    BY <2>1 DEF Base, WorkerInv
  <2> QED
    BY <2>1, <2>2 DEF Ending, MemberInv, LoopInv, Callers
<1>2. ASSUME EndStream("user") \/ EndStream("worker") PROVE Ending(n)'
  <2>1. UNCHANGED <<context, joinable>> /\ \A d \in Callers : disc[d] = "reset" => disc'[d] = "reset"
    BY <1>0, <1>2 DEF EndStream, Enters, members, Callers
  <2> QED
    BY <2>1 DEF Ending
<1>3. ASSUME NEW d \in Callers, Release(d) \/ StopLoop(d) PROVE Ending(n)'
  <2>1. UNCHANGED <<context, joinable>> /\ \A e \in Callers : disc[e] = "reset" => disc'[e] = "reset"
    BY <1>0, <1>3 DEF Release, StopLoop, Returns, members
  <2> QED
    BY <2>1 DEF Ending
<1>4. ASSUME NEW d \in Callers, JoinLoop(d) PROVE Ending(n)'
  BY <1>0, <1>4 DEF JoinLoop, Ending
<1>5. ASSUME NEW d \in Callers, ResetContext(d) PROVE Gone(n)'
  <2>1. context' = 0 /\ conn[n] = "freed" /\ loop = "ended" /\ UNCHANGED <<strophe, thread>>
    BY <1>0, <1>5 DEF ResetContext, MemberInv, DisconnectInv, MembersInv
  <2> QED
    BY <1>0, <2>1 DEF Gone, strophe, thread
<1>6. ASSUME NEW d \in {"user", "worker"}, DisconnectStep(d) PROVE Ending(n)' \/ Gone(n)'
  BY <1>3, <1>4, <1>5, <1>6 DEF DisconnectStep, Callers
<1>7. CASE DestroyMembers \/ JoinWorker \/ DestroyThread \/ CallerStep \/ WorkerStep \/ RunReport \/ SpuriousWake
  BY <1>7 DEF DestroyMembers, JoinWorker, DestroyThread, CallerStep, WorkerStep, RunReport, SpuriousWake,
              AroundQueue, members, Ending
<1>8. CASE LoopStep
  BY <1>8 DEF LoopStep, LoopStart, LoopStartNull, LoopCheck, LoopOnce, LoopMark, NothingHappens, StreamOpens,
              FlushEnd, Established, ConnectionLost, AddTeardown, AddReport, AddToDestroyed, ClearParams,
              outside, members, Ending
<1>9. CASE UNCHANGED vars
  BY <1>9 DEF vars, members, Ending
<1> QED
  BY <1>1, <1>2, <1>6, <1>7, <1>8, <1>9 DEF Next, CallDisconnect, Destroy, RunTeardown

\* When a teardown has run, the loop it has joined is gone for good.
LEMMA TeardownReturns ==
  ASSUME Base, Calm, MemberInv, [Next]_vars, Q!Run, func = Teardown
  PROVE  /\ loop \in {"none", "ended"}
         /\ \A n \in Logins : Ending(n) => Gone(n)'
<1>0. disc \in [Callers -> {"idle", "release", "stop", "join", "reset"}] /\ \A n \in Logins : n # 0
  BY SessionAssumption DEF Base, TypeOK, Logins, Callers
<1>1. DisconnectStep("worker") /\ disc'["worker"] = "idle"
  BY OperationEnds DEF Base, RunReport
<1>2. CASE StopLoop("worker")
  <2>1. disc["worker"] = "stop" /\ disc["user"] = "idle" /\ (context = 0 \/ ~joinable \/ \E e \in Callers : disc[e] = "join")
    BY <1>0, <1>1, <1>2 DEF StopLoop, Callers, MemberInv, DisconnectInv
  <2>2. ~joinable
    BY <2>1 DEF MemberInv, LoopInv, Callers
  <2> QED
    BY <1>0, <2>1, <2>2 DEF MemberInv, LoopInv, Ending, Callers
<1>3. CASE ResetContext("worker")
  <2>1. /\ loop = "ended" /\ connection = 0 /\ context' = 0 /\ UNCHANGED <<strophe, thread>>
    BY <1>3 DEF ResetContext, MemberInv, DisconnectInv, Callers
  <2> QED
    BY <1>0, <2>1 DEF MemberInv, MembersInv, Ending, Gone, strophe, thread
<1>4. ~Release("worker") /\ ~JoinLoop("worker")
  BY <1>0, <1>1 DEF Release, JoinLoop, Callers
<1> QED
  BY <1>1, <1>2, <1>3, <1>4 DEF DisconnectStep

CalmReport == Calm => ReportInv

\* An operation stays pending until it is the one that ends, and only the run loop adds
\* to what is pending.
LEMMA PendingStays ==
  ASSUME Base, [Next]_vars
  PROVE  /\ \A j \in Pending : /\ Called'[j] = Called[j]
                               /\ j \in Pending' \/ (Q!Run /\ Called[j] = func)
         /\ \A k \in Pending' :
              \/ k \in Pending
              \/ AddsTeardown /\ Called'[k] = Teardown
              \/ ReportMove /\ Called'[k] = Report(params) /\ \A j \in Pending : j < k
         /\ AddsTeardown => \E j \in Pending' : Called'[j] = Teardown
<1>0. params # 0 => Report(params) \in Ops
  <2>1. params # 0 => params \in Logins
    BY SessionAssumption DEF Base, TypeOK, Logins
  <2> QED
    BY <2>1, OpsAre
<1>1. CASE QuietMove \/ SuccessMove
  <2>1. QuietStep
    BY <1>1 DEF QuietMove, SuccessMove, QuietStep
  <2>2. Called' = Called /\ Pending' = Pending
    BY <2>1, PendingMoves DEF Base
  <2>3. ~AddsTeardown
    BY <1>0, <2>1, <2>2, PendingMoves, OpsAre DEF AddsTeardown, Base
  <2> QED
    BY <2>2, <2>3
<1>2. CASE TeardownMove
  BY <1>2, PendingMoves, OpsAre DEF TeardownMove, AddsTeardown, Base
<1>3. CASE ReportMove
  BY <1>0, <1>3, PendingMoves DEF ReportMove, AddsReport, AddsTeardown, Base
<1>4. CASE ReturnMove \/ FailureMove
  <2>1. Q!Run
    BY <1>4 DEF ReturnMove, FailureMove
  <2>2. /\ Called' = Called /\ Pending' = Pending \ {Len(executed) + 1}
        /\ Called[Len(executed) + 1] = func
    BY <2>1, PendingMoves DEF Base
  <2>3. ~AddsTeardown
    BY <2>1, RunningStays DEF Base, Q!Run
  <2> QED
    BY <2>1, <2>2, <2>3
<1> QED
  BY <1>1, <1>2, <1>3, <1>4, SessionMoves

\* The run loop comes to the report by way of the teardown.
LEMMA ReportFollows == [Next]_vars /\ loop' = "report" => loop = "report" \/ AddsTeardown
<1> SUFFICES ASSUME [Next]_vars, loop' = "report", loop # "report" PROVE AddsTeardown
    OBVIOUS
<1>1. CASE LoopStep
  BY <1>1 DEF LoopStep, LoopStart, LoopStartNull, LoopCheck, LoopOnce, LoopMark, NothingHappens, StreamOpens,
              FlushEnd, Established, ConnectionLost, AddTeardown, AddReport, AddToDestroyed, ClearParams,
              Loop, thread, AddsTeardown
<1>2. ~ \E n \in Logins : Login(n) \/ LoginThrows(n)
  BY DEF Login, LoginThrows, thread
<1>3. ~ (CallDisconnect \/ Destroy \/ RunTeardown) /\ ~ \E d \in {"user", "worker"} : DisconnectStep(d)
  BY DEF CallDisconnect, Destroy, RunTeardown, EndStream, DisconnectStep, Release, StopLoop, JoinLoop, ResetContext, thread
<1>4. ~ (DestroyMembers \/ JoinWorker \/ DestroyThread \/ CallerStep \/ WorkerStep \/ RunReport \/ SpuriousWake \/ UNCHANGED vars)
  BY DEF DestroyMembers, JoinWorker, DestroyThread, CallerStep, WorkerStep, RunReport, SpuriousWake, AroundQueue, thread, vars
<1> QED
  BY <1>1, <1>2, <1>3, <1>4 DEF Next

\* Without overlapping calls an error is reported after its teardown.
LEMMA NextReportInv ==
  ASSUME Base, Numbers, OnceInv, Calm, MemberInv, ReportInv, Calm', [Next]_vars
  PROVE  ReportInv'
<1>0. \A k \in Pending : k \in Nat /\ Called[k] \in Ops
  BY HistoryTypes, PendingMoves DEF Base
<1>1. loop \notin {"none", "ended"} => \A j \in Pending : Called[j] = Teardown => j \in Pending'
  <2>1. Q!Run /\ func = Teardown => loop \in {"none", "ended"}
    BY TeardownReturns
  <2> QED
    BY <2>1, PendingStays
<1>2. (loop = "report" => \E j \in Pending : Called[j] = Teardown)'
  <2> SUFFICES ASSUME loop' = "report" PROVE \E j \in Pending' : Called'[j] = Teardown
      OBVIOUS
  <2>1. CASE AddsTeardown
    BY <2>1, PendingStays
  <2>2. CASE loop = "report"
    <3>1. PICK j \in Pending : Called[j] = Teardown
      BY <2>2 DEF ReportInv
    <3> QED
      BY <1>1, <2>2, <3>1, PendingStays
  <2> QED
    BY <2>1, <2>2, ReportFollows
<1>3. ASSUME NEW k \in Pending', NEW n \in Logins, Called'[k] = Report(n)
      PROVE  Gone(n)' \/ (Ending(n)' /\ \E j \in Pending' : j < k /\ Called'[j] = Teardown)
  <2>1. CASE k \in Pending
    <3>1. Called[k] = Report(n)
      BY <1>3, <2>1, PendingStays
    <3>2. n <= logins
      BY <2>1, <3>1 DEF OnceInv
    <3>3. CASE Gone(n)
      BY <3>2, <3>3, GoneStays
    <3>4. CASE Ending(n) /\ \E j \in Pending : j < k /\ Called[j] = Teardown
      <4>1. PICK j \in Pending : j < k /\ Called[j] = Teardown
        BY <3>4
      <4>2. Called'[j] = Teardown
        BY <4>1, PendingStays
      <4>3. CASE j \in Pending'
        BY <3>4, <4>1, <4>2, <4>3, EndingStays
      <4>4. CASE j \notin Pending'
        <5>1. Q!Run /\ func = Teardown
          BY <4>1, <4>4, PendingStays
        <5> QED
          BY <3>4, <5>1, TeardownReturns
      <4> QED
        BY <4>3, <4>4
    <3> QED
      BY <2>1, <3>1, <3>3, <3>4 DEF ReportInv
  <2>2. CASE k \notin Pending
    <3>1. ReportMove /\ Called'[k] = Report(params) /\ \A j \in Pending : j < k
      BY <1>3, <2>2, PendingStays, ReportIsNone
    <3>2. loop = "report" /\ params # 0
      BY <3>1 DEF ReportMove, AddsReport
    <3>3. n = params
      <4>1. params \in Logins
        BY <3>2, SessionAssumption DEF Base, TypeOK, Logins
      <4> QED
        BY <1>3, <3>1, <4>1, OpsAre
    <3>4. Ending(n)
      BY <3>2, <3>3 DEF MemberInv, LoopInv, MembersInv, Ending
    <3>5. PICK j \in Pending : Called[j] = Teardown
      BY <3>2 DEF ReportInv
    <3>6. j \in Pending' /\ Called'[j] = Teardown /\ j < k
      BY <1>1, <3>1, <3>2, <3>5, PendingStays
    <3> QED
      BY <3>4, <3>6, EndingStays
  <2> QED
    BY <2>1, <2>2
<1> QED
  BY <1>2, <1>3 DEF ReportInv

\* Every step keeps that, also the one that first overlaps.
LEMMA NextCalmReport ==
  Base /\ Numbers /\ OnceInv /\ CalmInv /\ CalmReport /\ [Next]_vars => CalmReport'
<1> SUFFICES ASSUME Base, Numbers, OnceInv, CalmInv, CalmReport, [Next]_vars, Calm' PROVE ReportInv'
    BY DEF CalmReport
<1>1. Calm
  BY CalmBefore DEF Calm, vars, history
<1> QED
  BY <1>1, NextReportInv DEF CalmInv, CalmReport

\* Nothing is reported at the start.
LEMMA InitCalmReport == Init => CalmReport
<1> SUFFICES ASSUME Init PROVE ReportInv
    BY DEF CalmReport
<1>1. Pending = {} /\ loop = "none"
  BY DEF Init, Q!Init, Pending, Called
<1> QED
  BY <1>1 DEF ReportInv

\* The report that ends is the oldest operation pending, so no teardown stands before it.
LEMMA StepErrorAfterTeardown ==
  ASSUME Base, CalmReport, [Next]_vars, NEW n \in Logins, ~overlap,
         results' = Append(results, [login |-> n, ok |-> FALSE])
  PROVE  Gone(n)
<1>1. Len(results) \in Nat /\ results' # results /\ results'[Len(results) + 1] = [login |-> n, ok |-> FALSE]
  BY ResultsGrow, HistoryTypes DEF Base, TypeOK
<1>2. Calm
  BY <1>1, CalmBefore DEF Calm, vars, history
<1>3. FailureMove /\ func.login = n
  <2>1. ~ (QuietMove \/ TeardownMove \/ ReportMove \/ ReturnMove)
    BY <1>1 DEF QuietMove, TeardownMove, ReportMove, ReturnMove
  <2>2. ~SuccessMove
    <3>1. ASSUME SuccessMove PROVE FALSE
      <4>0. params \in 0 .. MaxLogins /\ params # 0 /\ Told(params, TRUE)
        BY <3>1 DEF SuccessMove, Base, TypeOK
      <4>1. params \in Logins
        BY <4>0, SessionAssumption DEF Logins
      <4>2. results'[Len(results) + 1] = [login |-> params, ok |-> TRUE]
        BY <4>0, <4>1, ResultsGrow DEF Told, Base, TypeOK
      <4> QED
        BY <1>1, <4>2
    <3> QED
      BY <3>1
  <2>3. FailureMove
    BY <2>1, <2>2, SessionMoves
  <2>4. func.login \in Logins
    BY <2>3, OpsAre DEF FailureMove, Q!Run, Base, QueueInv, QP!IInv, QP!TypeOK, QP!ThreadInv
  <2>5. results'[Len(results) + 1] = [login |-> func.login, ok |-> FALSE]
    BY <2>3, <2>4, ResultsGrow DEF FailureMove, Told, Base, TypeOK
  <2> QED
    BY <1>1, <2>3, <2>5
<1>4. Len(executed) + 1 \in Pending /\ Called[Len(executed) + 1] = func
  BY <1>3, PendingMoves DEF FailureMove, Base
<1>5. func = Report(n)
  BY <1>3, OpsAre DEF FailureMove, Q!Run, Base, QueueInv, QP!IInv, QP!TypeOK, QP!ThreadInv
<1>6. \A j \in Pending : ~ (j < Len(executed) + 1)
  BY QueueTypes DEF Pending, Base
<1> QED
  BY <1>2, <1>4, <1>5, <1>6 DEF CalmReport, ReportInv

\* Under the same condition a login's error reaches its callback when its connection is
\* freed, its context let go and its run loop over.
THEOREM ErrorsAfterTeardown == Spec => ErrorAfterTeardown
<1>1. Base /\ CalmReport /\ [Next]_vars =>
        [\A n \in Logins :
           ~overlap /\ results' = Append(results, [login |-> n, ok |-> FALSE])
             => conn[n] = "freed" /\ context # n /\ (runner = n => loop = "ended")]_vars
  BY StepErrorAfterTeardown DEF Gone
<1> QED
  BY <1>1, InitBase, NextBase, InitOnce, NextNumbers, NextOnce, InitCalmInv, NextCalmInv, InitCalmReport,
     NextCalmReport, PTL DEF Spec, ErrorAfterTeardown
=============================================================================
