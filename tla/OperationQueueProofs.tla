------------------------ MODULE OperationQueueProofs ------------------------
(***************************************************************************)
(* Proofs about the operation queue, for any operations and any number of  *)
(* calls of AddOperation.                                                  *)
(***************************************************************************)
EXTENDS OperationQueue, SequenceTheorems, TLAPS

\* How the three threads depend on each other: a function is held exactly while
\* it runs, a call in progress has its argument and a started thread, and the
\* thread is alive as long as the flag is set and gone when the queue is.
ThreadInv ==
  /\ func # NoOp <=> worker = "run"
  /\ caller # "idle" => arg \in Ops /\ isRunning
  /\ owner # "using" => caller = "idle" /\ ~isRunning
  /\ owner = "using" => (isRunning <=> worker \notin {"none", "done"})
  /\ owner = "using" /\ ~isRunning => worker = "none"
  /\ owner = "destroyed" => worker \in {"none", "done"}

IInv == TypeOK /\ ThreadInv

\* What the threads can do, however many calls there have been, so that what is shown
\* of it holds wherever the queue is used.
Step ==
  \/ \E op \in Ops : StartProcessing(op)
  \/ Push \/ Notify \/ WorkerStep \/ SpuriousWake \/ StopProcessing \/ Join
  \/ UNCHANGED vars

\* A bound on the calls is only a guard.
LEMMA NextIsStep == [Next]_vars => Step
BY DEF Next, Step

-----------------------------------------------------------------------------
\* The head of the right operand can be moved to the left one.
LEMMA MoveHead ==
  ASSUME NEW S, NEW s \in Seq(S), NEW t \in Seq(S), t # <<>>
  PROVE  s \o t = (s \o <<Head(t)>>) \o Tail(t)
<1>1. Head(t) \in S /\ Tail(t) \in Seq(S) /\ <<Head(t)>> \in Seq(S)
  BY HeadTailProperties
<1>2. t = <<Head(t)>> \o Tail(t)
  <2>1. <<Head(t)>> \o Tail(t) \in Seq(S)
    BY <1>1, ConcatProperties
  <2>2. Len(<<Head(t)>> \o Tail(t)) = Len(t)
    BY <1>1, ConcatProperties, HeadTailProperties
  <2>3. \A i \in 1 .. Len(t) : t[i] = (<<Head(t)>> \o Tail(t))[i]
    BY <1>1, ConcatProperties, HeadTailProperties
  <2> QED
    BY <2>1, <2>2, <2>3, SeqEqual
<1> QED
  BY <1>1, <1>2, ConcatAssociative

-----------------------------------------------------------------------------
\* The inductive invariant holds of a new queue.
LEMMA InitIInv == Init => IInv
<1> SUFFICES ASSUME Init PROVE IInv
    OBVIOUS
<1>1. TypeOK
  BY EmptySeq DEF Init, TypeOK
<1>2. ThreadInv
  BY DEF Init, ThreadInv
<1> QED
  BY <1>1, <1>2 DEF IInv

\* Every step of the three threads keeps the inductive invariant.
LEMMA StepIInv == IInv /\ Step => IInv'
<1> SUFFICES ASSUME IInv, Step PROVE IInv'
    OBVIOUS
<1> USE QueueAssumption DEF IInv, TypeOK, ThreadInv, threadVars, callerVars
<1>1. ASSUME NEW op \in Ops, StartProcessing(op) PROVE IInv'
  BY <1>1 DEF StartProcessing
<1>2. CASE Push
  BY <1>2 DEF Push
<1>3. CASE Notify
  BY <1>3 DEF Notify
<1>4. CASE CheckRunning
  BY <1>4 DEF CheckRunning
<1>5. CASE Take
  <2>1. CASE operations # <<>>
    <3>1. Head(operations) \in Ops /\ Tail(operations) \in Seq(Ops)
      BY <2>1, HeadTailProperties
    <3> QED
      BY <1>5, <2>1, <3>1 DEF Take
  <2>2. CASE operations = <<>>
    BY <1>5, <2>2 DEF Take
  <2> QED
    BY <2>1, <2>2
<1>6. CASE Run
  BY <1>6 DEF Run
<1>7. CASE Wait
  BY <1>7 DEF Wait
<1>8. CASE SpuriousWake
  BY <1>8 DEF SpuriousWake
<1>9. CASE StopProcessing
  BY <1>9 DEF StopProcessing
<1>10. CASE Join
  BY <1>10 DEF Join
<1>11. CASE UNCHANGED vars
  BY <1>11 DEF vars
<1> QED
  BY <1>1, <1>2, <1>3, <1>4, <1>5, <1>6, <1>7, <1>8, <1>9, <1>10, <1>11 DEF Step, WorkerStep

\* The inductive invariant is an invariant of the queue.
THEOREM Inductive == Spec => []IInv
BY InitIInv, StepIInv, NextIsStep, PTL DEF Spec

\* The queue, the threads and the histories keep their types.
THEOREM TypeCorrect == Spec => []TypeOK
<1>1. IInv => TypeOK
  BY DEF IInv
<1> QED
  BY <1>1, Inductive, PTL

-----------------------------------------------------------------------------
\* A push adds at the end and Take and Run move the first operation left by one
\* place, so that the three places together always read as the calls did.
LEMMA StepConserved == IInv /\ Conserved /\ Step => Conserved'
<1> SUFFICES ASSUME IInv, Conserved, Step PROVE Conserved'
    OBVIOUS
<1> USE QueueAssumption DEF IInv, TypeOK, ThreadInv, Conserved
<1>1. Current \in Seq(Ops)
  BY DEF Current
<1>2. CASE Push
  <2>1. arg \in Ops /\ executed \o Current \in Seq(Ops)
    BY <1>1, <1>2, ConcatProperties DEF Push
  <2> DEFINE s == executed \o Current
  <2>2. Append(s \o operations, arg) = s \o Append(operations, arg)
    <3>1. s \in Seq(Ops) /\ operations \in Seq(Ops) /\ arg \in Ops
      BY <2>1
    <3> HIDE DEF s, IInv, TypeOK, ThreadInv, Conserved
    <3> QED
      BY <3>1
  <2> QED
    BY <1>2, <2>2 DEF Push, Current, threadVars
<1>3. CASE Take
  <2>1. CASE operations # <<>>
    <3>1. func = NoOp /\ func' = Head(operations) /\ operations' = Tail(operations)
      BY <1>3, <2>1 DEF Take
    <3>2. Head(operations) \in Ops
      BY <2>1, HeadTailProperties
    <3>3. Current = <<>> /\ Current' = <<Head(operations)>>
      BY <3>1, <3>2 DEF Current
    <3>4. executed \o operations = (executed \o <<Head(operations)>>) \o Tail(operations)
      BY <2>1, MoveHead
    <3>5. executed \o Current = executed
      BY <3>3, ConcatEmptySeq
    <3>6. added' = added /\ executed' = executed
      BY <1>3 DEF Take
    <3> QED
      BY <3>1, <3>3, <3>4, <3>5, <3>6
  <2>2. CASE operations = <<>>
    BY <1>3, <2>2 DEF Take, Current
  <2> QED
    BY <2>1, <2>2
<1>4. CASE Run
  <2>1. func # NoOp /\ func \in Ops /\ Current = <<func>> /\ Current' = <<>>
    BY <1>4 DEF Run, Current
  <2>2. executed' = executed \o Current
    BY <1>4, <2>1 DEF Run
  <2>3. executed' \in Seq(Ops)
    BY <1>1, <2>2, ConcatProperties
  <2>4. executed' \o Current' = executed'
    BY <2>1, <2>3, ConcatEmptySeq
  <2> QED
    BY <1>4, <2>2, <2>4 DEF Run
<1>5. CASE UNCHANGED <<added, executed, func, operations>>
  BY <1>5 DEF Current
<1>6. ASSUME NEW op \in Ops, StartProcessing(op) PROVE Conserved'
  BY <1>5, <1>6 DEF StartProcessing
<1>7. CASE Notify \/ CheckRunning \/ Wait \/ SpuriousWake
  BY <1>5, <1>7 DEF Notify, CheckRunning, Wait, SpuriousWake
<1>8. CASE StopProcessing \/ Join
  BY <1>5, <1>8 DEF StopProcessing, Join, threadVars
<1>9. CASE UNCHANGED vars
  BY <1>5, <1>9 DEF vars
<1> QED
  BY <1>2, <1>3, <1>4, <1>6, <1>7, <1>8, <1>9 DEF Step, WorkerStep

\* No operation is lost, duplicated or overtaken between AddOperation and the
\* processing thread.
THEOREM NothingLostInTheQueue == Spec => []Conserved
<1>1. Init => Conserved
  BY ConcatEmptySeq DEF Init, Conserved, Current
<1> QED
  BY <1>1, InitIInv, StepIInv, StepConserved, NextIsStep, PTL DEF Spec

\* After the destructor has returned the processing thread is over.
LEMMA StepQuiet == IInv /\ [Next]_vars => [owner = "destroyed" => UNCHANGED <<executed, func>>]_vars
<1> SUFFICES ASSUME IInv, Next, owner = "destroyed" PROVE UNCHANGED <<executed, func>>
    OBVIOUS
<1>1. worker \notin {"take", "run"} /\ caller = "idle"
  BY DEF IInv, ThreadInv
<1> QED
  BY <1>1 DEF Next, WorkerStep, StartProcessing, Push, Notify, CheckRunning, Take, Run, Wait,
              SpuriousWake, StopProcessing, Join, threadVars

\* Destroying the queue waits for the operation that runs: none begins, or is
\* still running, once the destructor has returned.
THEOREM QuietOnceDestroyed == Spec => QuietAfterDestroy
BY Inductive, StepQuiet, PTL DEF Spec, QuietAfterDestroy

-----------------------------------------------------------------------------
\* A step of the queue is a step of the serial executor or leaves it alone: Push
\* submits, Take begins the oldest operation not yet begun, Run ends it.
LEMMA StepRefines ==
  IInv /\ Conserved /\ [Next]_vars => [Executor!Next]_<<added, executed, func>>
<1> SUFFICES ASSUME IInv, Conserved, [Next]_vars, ~UNCHANGED <<added, executed, func>>
             PROVE  Executor!Next
    OBVIOUS
<1> USE DEF IInv, TypeOK, ThreadInv
<1>1. CASE Push
  <2>1. arg \in Ops /\ Executor!Submit(arg)
    BY <1>1 DEF Push, Executor!Submit, threadVars
  <2> QED
    BY <2>1 DEF Executor!Next
<1>2. CASE Take
  <2>1. /\ operations # <<>>
        /\ func = NoOp
        /\ func' = Head(operations)
        /\ UNCHANGED <<added, executed>>
    BY <1>2 DEF Take
  <2>2. added = executed \o operations
    BY <2>1, ConcatEmptySeq DEF Conserved, Current
  <2>3. Len(operations) > 0 /\ Head(operations) = operations[1]
    BY <2>1, EmptySeq
  <2>4. Len(executed) < Len(added) /\ added[Len(executed) + 1] = operations[1]
    BY <2>2, <2>3, ConcatProperties
  <2>5. Executor!Begin
    BY <2>1, <2>3, <2>4 DEF Executor!Begin
  <2> QED
    BY <2>5 DEF Executor!Next
<1>3. CASE Run
  <2>1. Executor!End
    BY <1>3 DEF Run, Executor!End
  <2> QED
    BY <2>1 DEF Executor!Next
<1>4. ~ \E op \in Ops : StartProcessing(op)
  BY DEF StartProcessing
<1>5. ~ (Notify \/ CheckRunning \/ Wait \/ SpuriousWake \/ StopProcessing \/ Join \/ UNCHANGED vars)
  BY DEF Notify, CheckRunning, Wait, SpuriousWake, StopProcessing, Join, vars, threadVars
<1> QED
  BY <1>1, <1>2, <1>3, <1>4, <1>5 DEF Next, WorkerStep

\* The queue implements a serial executor that begins operations in the order in
\* which they were added, each once and one at a time.
THEOREM Refinement == Spec => ExecutesInOrder
<1>1. Init => Executor!Init
  BY DEF Init, Executor!Init
<1> QED
  BY <1>1, Inductive, NothingLostInTheQueue, StepRefines, PTL
  DEF Spec, ExecutesInOrder, Executor!Spec
=============================================================================
