--------------------------- MODULE OperationQueue ---------------------------
(***************************************************************************)
(* The operation queue of the client,                                      *)
(* Components/messenger/source/detail/operation_queue.cpp, with its three  *)
(* threads: the caller of AddOperation (the run loop of libstrophe), the   *)
(* processing thread it starts, and the owner, which destroys the queue    *)
(* once no call of AddOperation is in progress.  An action is a critical   *)
(* section, or one access to the atomic m_isRunning.                       *)
(***************************************************************************)
EXTENDS Naturals, Sequences

CONSTANTS
  Ops,      \* the operations, std::function objects
  NoOp,     \* the empty std::function
  MaxOps    \* bound: how many operations are added

ASSUME QueueAssumption ==
  /\ NoOp \notin Ops
  /\ MaxOps \in Nat

VARIABLES
  isRunning,    \* m_isRunning
  operations,   \* m_operations
  worker,       \* where ProcessingThread is
  func,         \* its local func
  caller,       \* where AddOperation is
  arg,          \* the argument of the call in progress
  owner,        \* where ~OperationQueue is
  added,        \* history: every operation pushed
  executed      \* history: every operation that has returned

threadVars == <<worker, func>>
callerVars == <<caller, arg>>
vars == <<isRunning, operations, worker, func, caller, arg, owner, added, executed>>

TypeOK ==
  /\ isRunning \in BOOLEAN
  /\ operations \in Seq(Ops)
  /\ worker \in {"none", "loop", "take", "run", "sleep", "waiting", "done"}
  /\ func \in Ops \cup {NoOp}
  /\ caller \in {"idle", "push", "notify"}
  /\ arg \in Ops \cup {NoOp}
  /\ owner \in {"using", "joining", "destroyed"}
  /\ added \in Seq(Ops)
  /\ executed \in Seq(Ops)

Init ==
  /\ isRunning = FALSE
  /\ operations = <<>>
  /\ worker = "none"
  /\ func = NoOp
  /\ caller = "idle"
  /\ arg = NoOp
  /\ owner = "using"
  /\ added = <<>>
  /\ executed = <<>>

-----------------------------------------------------------------------------
\* Variants of the steps with a plausible bug in each, for showing that the
\* properties at the end of the module can fail.  No specification uses them.

\* the thread calls func() without testing it
TakeUntested ==
  /\ worker = "take"
  /\ func' = IF operations = <<>> THEN NoOp ELSE Head(operations)
  /\ operations' = IF operations = <<>> THEN <<>> ELSE Tail(operations)
  /\ worker' = "run"
  /\ UNCHANGED <<isRunning, callerVars, owner, added, executed>>

\* a stack in place of the queue
PushFront ==
  /\ caller = "push"
  /\ operations' = <<arg>> \o operations
  /\ added' = Append(added, arg)
  /\ caller' = "notify"
  /\ UNCHANGED <<isRunning, threadVars, arg, owner, executed>>

\* no notification
NotifyNobody ==
  /\ caller = "notify"
  /\ caller' = "idle"
  /\ arg' = NoOp
  /\ UNCHANGED <<isRunning, operations, threadVars, owner, added, executed>>

\* a loop that never looks at the flag
CheckNothing ==
  /\ worker = "loop"
  /\ worker' = "take"
  /\ UNCHANGED <<isRunning, operations, func, callerVars, owner, added, executed>>

\* one operation per notification
RunThenWait ==
  /\ worker = "run"
  /\ executed' = Append(executed, func)
  /\ func' = NoOp
  /\ worker' = "sleep"
  /\ UNCHANGED <<isRunning, operations, callerVars, owner, added>>

\* detach() in place of join()
Detach ==
  /\ owner = "joining"
  /\ owner' = "destroyed"
  /\ UNCHANGED <<isRunning, operations, threadVars, callerVars, added, executed>>

-----------------------------------------------------------------------------
\* AddOperation is called and goes through StartProcessing.  The flag has no
\* other writer while calls are made, so testing it, setting it and starting the
\* thread are one step.
StartProcessing(op) ==
  /\ owner = "using"
  /\ caller = "idle"
  /\ caller' = "push"
  /\ arg' = op
  /\ isRunning' = TRUE
  /\ worker' = IF isRunning THEN worker ELSE "loop"
  /\ UNCHANGED <<operations, func, owner, added, executed>>

\* m_operations.push(func), under m_operationsMutex.
Push ==
  /\ caller = "push"
  /\ operations' = Append(operations, arg)
  /\ added' = Append(added, arg)
  /\ caller' = "notify"
  /\ UNCHANGED <<isRunning, threadVars, arg, owner, executed>>

\* notify_all, under m_newOperationMutex: only a thread that waits by now wakes.
Notify ==
  /\ caller = "notify"
  /\ caller' = "idle"
  /\ arg' = NoOp
  /\ worker' = IF worker = "waiting" THEN "loop" ELSE worker
  /\ UNCHANGED <<isRunning, operations, func, owner, added, executed>>

\* while (m_isRunning)
CheckRunning ==
  /\ worker = "loop"
  /\ worker' = IF isRunning THEN "take" ELSE "done"
  /\ UNCHANGED <<isRunning, operations, func, callerVars, owner, added, executed>>

\* The front of the queue is taken under m_operationsMutex; the mutex is
\* released before the thread decides to wait.
Take ==
  /\ worker = "take"
  /\ \/ /\ operations # <<>>
        /\ func' = Head(operations)
        /\ operations' = Tail(operations)
        /\ worker' = "run"
     \/ /\ operations = <<>>
        /\ worker' = "sleep"
        /\ UNCHANGED <<func, operations>>
  /\ UNCHANGED <<isRunning, callerVars, owner, added, executed>>

\* func() returns, and its last reference goes away with the loop's body.
Run ==
  /\ worker = "run"
  /\ executed' = Append(executed, func)
  /\ func' = NoOp
  /\ worker' = "loop"
  /\ UNCHANGED <<isRunning, operations, callerVars, owner, added>>

\* m_newOperationCondition.wait(lock): no predicate is tested before waiting.
Wait ==
  /\ worker = "sleep"
  /\ worker' = "waiting"
  /\ UNCHANGED <<isRunning, operations, func, callerVars, owner, added, executed>>

\* A wait may return without a notification, and need not.
SpuriousWake ==
  /\ worker = "waiting"
  /\ worker' = "loop"
  /\ UNCHANGED <<isRunning, operations, func, callerVars, owner, added, executed>>

\* ~OperationQueue, StopProcessing: the flag is cleared, nobody is notified.
StopProcessing ==
  /\ owner = "using"
  /\ caller = "idle"
  /\ isRunning' = FALSE
  /\ owner' = IF isRunning THEN "joining" ELSE "destroyed"
  /\ UNCHANGED <<operations, threadVars, callerVars, added, executed>>

\* m_processingThread.join() returns; operations left in the queue are dropped.
Join ==
  /\ owner = "joining"
  /\ worker = "done"
  /\ owner' = "destroyed"
  /\ UNCHANGED <<isRunning, operations, threadVars, callerVars, added, executed>>

WorkerStep == CheckRunning \/ Take \/ Run \/ Wait

Next ==
  \/ Len(added) < MaxOps /\ \E op \in Ops : StartProcessing(op)
  \/ Push
  \/ Notify
  \/ WorkerStep
  \/ SpuriousWake
  \/ StopProcessing
  \/ Join

Spec == Init /\ [][Next]_vars

\* Every thread that can take a step eventually does.  Nobody has to call
\* AddOperation or the destructor, and a wait need not return on its own.
FairSpec ==
  Spec /\ WF_vars(Push) /\ WF_vars(Notify) /\ WF_vars(WorkerStep) /\ WF_vars(Join)

-----------------------------------------------------------------------------
Current == IF func = NoOp THEN <<>> ELSE <<func>>

\* However AddOperation and the thread interleave, every operation pushed is at
\* exactly one place: returned, running, or queued, in the order of the pushes.
Conserved == added = executed \o Current \o operations

\* The queue implements a serial first-in first-out executor.
Executor == INSTANCE FifoExecutor WITH current <- func
ExecutesInOrder == Executor!Spec

\* Once the destructor has returned no operation begins, runs on or returns.
QuietAfterDestroy == [][owner = "destroyed" => UNCHANGED <<executed, func>>]_vars

\* The thread is not about to wait: it will look at the queue, or at the flag,
\* again before it does.
Awake == worker \in {"loop", "run"} \/ (worker = "take" /\ operations # <<>>)

BusyWorkerDrains ==
  \A n \in 1 .. MaxOps :
    (Len(added) >= n /\ Awake) ~> (Len(executed) >= n \/ owner # "using")

NextCallRescues ==
  \A n \in 1 .. MaxOps :
    (Len(added) >= n /\ worker = "waiting" /\ caller = "notify")
      ~> (Len(executed) >= n \/ owner # "using")

BusyWorkerStops == (owner = "joining" /\ Awake) ~> owner = "destroyed"

\* Only a wait entered too late can hold anything up.  An operation queued while the
\* thread is awake is executed, unless the owner destroys the queue first; the
\* notification of a later call also rescues the operations whose own came before
\* the thread waited; and a thread that is awake sees the cleared flag, so that the
\* destructor returns (one that waits is not woken, and the join does not return).
AwakeWorkerServes == BusyWorkerDrains /\ NextCallRescues /\ BusyWorkerStops

-----------------------------------------------------------------------------
(* What the repository expects of the queue and the code does not do.        *)

\* The result of a failed login is an operation of this queue, and
\* Components/messenger/test/main.cpp:23-27 waits for it without a timeout: an
\* operation added is executed unless the queue is destroyed.
EveryOperationRuns ==
  \A n \in 1 .. MaxOps :
    Len(added) >= n ~> (Len(executed) >= n \/ owner # "using")
=============================================================================
