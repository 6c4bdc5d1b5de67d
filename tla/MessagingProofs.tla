-------------------------- MODULE MessagingProofs --------------------------
(***************************************************************************)
(* Proofs about the notification of observers and the order of what they   *)
(* are told, for any clients, observers and messages: messages stay in     *)
(* order from SendMessage to the observers, and a message is acknowledged  *)
(* before its sender can hear that it was seen.                            *)
(***************************************************************************)
EXTENDS Messaging, SequenceTheorems, TLAPS

\* What the threads know where they are: a stanza to send, an event to tell.
Carries ==
  \A c \in Clients : \A t \in Threads :
    /\ pc[c][t] = "send" => out[c][t] \in Stanzas
    /\ pc[c][t] = "lock" => note[c][t] \in Events
    /\ holder[c] = t => note[c][t] \in Events

\* The mutex is held by whoever tells, and nobody is left to be told otherwise.
MutexHeld ==
  \A c \in Clients :
    /\ \A t \in Threads : pc[c][t] \in {"tell", "stuck"} => holder[c] = t
    /\ \A t \in Threads : holder[c] = t => pc[c][t] \in {"tell", "send", "stuck"}
    /\ holder[c] = "none" => left[c] = {}
    /\ left[c] \subseteq observers[c]

IInv == TypeOK /\ Carries /\ MutexHeld

-----------------------------------------------------------------------------
\* What the stanzas and the events are made of.
LEMMA MessageType ==
  ASSUME NEW m \in Messages PROVE m[1] \in Clients
BY DEF Messages

\* A status is a stanza.
LEMMA StatusType ==
  ASSUME NEW m \in Messages, NEW s \in {"Delivered", "Seen"} PROVE Status(m, s) \in Stanzas
BY MessageType DEF Status, Stanzas

\* An event is one of those told, and not the empty one.
LEMMA EventType ==
  ASSUME NEW m \in Messages, NEW k \in {"received", "Sending", "Delivered", "Seen", "FailedToSend"}
  PROVE  Event(k, m) \in Events /\ Event(k, m) # NoEvent
BY DEF Event, Events, NoEvent

\* MessageHandler makes an event of every stanza.
LEMMA EventOfType ==
  ASSUME NEW stanza \in Stanzas PROVE EventOf(stanza) \in Events
<1>1. stanza.msg \in Messages /\ stanza.type \in {"chat", "Delivered", "Seen", "error"}
  BY DEF Stanzas
<1> QED
  BY <1>1, EventType DEF EventOf

\* The messenger is idle when Login has returned.
LEMMA InitIInv == Init => IInv
<1> SUFFICES ASSUME Init PROVE IInv
    OBVIOUS
<1> USE DEF Init
<1>1. TypeOK
  <2>1. /\ observers \in [Clients -> SUBSET Observers]
        /\ holder \in [Clients -> Threads \cup {"none"}]
        /\ left \in [Clients -> SUBSET Observers]
    OBVIOUS
  <2>2. pc \in [Clients -> [Threads -> {"idle", "send", "lock", "tell", "stuck"}]]
    OBVIOUS
  <2>3. /\ out \in [Clients -> [Threads -> Stanzas \cup {NoStanza}]]
        /\ note \in [Clients -> [Threads -> Events \cup {NoEvent}]]
    OBVIOUS
  <2>4. queue \in [Clients -> Seq(Stanzas)] /\ net \in [Clients -> Seq(Stanzas)]
    OBVIOUS
  <2>5. /\ sent \in [Clients -> Nat]
        /\ seen \in [Clients -> SUBSET Messages]
        /\ regs \in [Clients -> Nat]
        /\ raced \in [Clients -> BOOLEAN]
    OBVIOUS
  <2>6. told \in [Clients -> [Observers -> Seq(Events)]] /\ heard \in [Clients -> Seq(Events)]
    OBVIOUS
  <2> QED
    BY <2>1, <2>2, <2>3, <2>4, <2>5, <2>6 DEF TypeOK
<1>2. Carries /\ MutexHeld
  BY DEF Carries, MutexHeld, Threads
<1> QED
  BY <1>1, <1>2 DEF IInv

-----------------------------------------------------------------------------
\* Every step preserves the inductive invariant.
LEMMA NextIInv == IInv /\ [Next]_vars => IInv'
<1> SUFFICES ASSUME IInv, [Next]_vars PROVE IInv'
    OBVIOUS
<1>0. TypeOK /\ Carries /\ MutexHeld
  BY DEF IInv
<1>1. ASSUME NEW c \in Clients, NEW d \in Clients, SendMessage(c, d) PROVE IInv'
  <2> DEFINE m == <<c, sent[c] + 1>>
  <2>1. m \in Messages
    <3>1. sent[c] + 1 \in 1 .. MaxSent[c]
      <4>1. sent[c] \in Nat /\ MaxSent[c] \in Nat /\ sent[c] < MaxSent[c]
        BY <1>0, <1>1, MessagingAssumption DEF TypeOK, SendMessage
      <4> QED
        BY <4>1
    <3>2. m \in {c} \X (1 .. MaxSent[c])
      BY <3>1
    <3> QED
      BY <3>2 DEF Messages
  <2>2. Chat(d, m) \in Stanzas /\ Event("Sending", m) \in Events
    BY <2>1, EventType DEF Chat, Stanzas
  <2> HIDE DEF m
  <2> USE <1>1, <2>2 DEF SendMessage, EnterSend, ToTell, Goto, lock
  <2>3. TypeOK'
    <3>1. sent' \in [Clients -> Nat] /\ raced' \in [Clients -> BOOLEAN]
      BY <1>0 DEF TypeOK
    <3>2. pc' \in [Clients -> [Threads -> {"idle", "send", "lock", "tell", "stuck"}]]
      BY <1>0 DEF TypeOK, Threads
    <3>3. out' \in [Clients -> [Threads -> Stanzas \cup {NoStanza}]]
      BY <1>0 DEF TypeOK, Threads, m
    <3>4. note' \in [Clients -> [Threads -> Events \cup {NoEvent}]]
      BY <1>0 DEF TypeOK, Threads, m
    <3> QED
      BY <1>0, <3>1, <3>2, <3>3, <3>4 DEF TypeOK
  <2>4. Carries'
    BY <1>0 DEF TypeOK, Carries, Threads, m
  <2>5. MutexHeld'
    BY <1>0 DEF TypeOK, MutexHeld, Threads
  <2> QED
    BY <2>3, <2>4, <2>5 DEF IInv
<1>2. ASSUME NEW c \in Clients, NEW m \in Messages, SendMessageSeen(c, m) PROVE IInv'
  <2> USE <1>2, StatusType DEF SendMessageSeen, EnterSend, Goto, lock
  <2>1. TypeOK'
    <3>1. seen' \in [Clients -> SUBSET Messages] /\ raced' \in [Clients -> BOOLEAN]
      BY <1>0 DEF TypeOK
    <3>2. pc' \in [Clients -> [Threads -> {"idle", "send", "lock", "tell", "stuck"}]]
      BY <1>0 DEF TypeOK, Threads
    <3>3. out' \in [Clients -> [Threads -> Stanzas \cup {NoStanza}]]
      BY <1>0 DEF TypeOK, Threads
    <3> QED
      BY <1>0, <3>1, <3>2, <3>3 DEF TypeOK
  <2>2. Carries'
    BY <1>0 DEF TypeOK, Carries, Threads
  <2>3. MutexHeld'
    BY <1>0 DEF TypeOK, MutexHeld, Threads
  <2> QED
    BY <2>1, <2>2, <2>3 DEF IInv
<1>3. ASSUME NEW c \in Clients, NEW set \in SUBSET Observers, ChangeObservers(c, set) PROVE IInv'
  <2> USE <1>3 DEF ChangeObservers, thread
  <2>1. TypeOK'
    BY <1>0 DEF TypeOK
  <2>2. Carries'
    BY <1>0 DEF Carries
  <2>3. MutexHeld'
    BY <1>0 DEF TypeOK, MutexHeld
  <2> QED
    BY <2>1, <2>2, <2>3 DEF IInv
<1>4. ASSUME NEW c \in Clients, NEW t \in Threads, EndSend(c, t) PROVE IInv'
  <2> USE <1>4 DEF EndSend, Goto, lock, calls
  <2>1. TypeOK'
    <3>1. pc' \in [Clients -> [Threads -> {"idle", "send", "lock", "tell", "stuck"}]]
      BY <1>0 DEF TypeOK, Threads, AfterSend
    <3>2. out' \in [Clients -> [Threads -> Stanzas \cup {NoStanza}]]
      BY <1>0 DEF TypeOK, Threads
    <3>3. queue' \in [Clients -> Seq(Stanzas)]
      <4>1. out[c][t] \in Stanzas
        BY <1>0 DEF Carries
      <4>2. <<out[c][t]>> \in Seq(Stanzas) /\ Append(queue[c], out[c][t]) \in Seq(Stanzas)
        BY <1>0, <4>1 DEF TypeOK
      <4> QED
        BY <1>0, <4>2 DEF TypeOK
    <3> QED
      BY <1>0, <3>1, <3>2, <3>3 DEF TypeOK
  <2>2. Carries'
    BY <1>0 DEF TypeOK, Carries, Threads, AfterSend
  <2>3. MutexHeld'
    BY <1>0 DEF TypeOK, MutexHeld, Threads, AfterSend
  <2> QED
    BY <2>1, <2>2, <2>3 DEF IInv
<1>5. ASSUME NEW c \in Clients, NEW t \in Threads, Lock(c, t) PROVE IInv'
  <2> USE <1>5 DEF Lock, Goto, calls
  <2>1. TypeOK'
    <3>1. pc' \in [Clients -> [Threads -> {"idle", "send", "lock", "tell", "stuck"}]]
      BY <1>0 DEF TypeOK, Threads
    <3>2. left' \in [Clients -> SUBSET Observers] /\ holder' \in [Clients -> Threads \cup {"none"}]
      BY <1>0 DEF TypeOK, Threads
    <3>3. heard' \in [Clients -> Seq(Events)]
      BY <1>0 DEF TypeOK, Threads, Carries
    <3> QED
      BY <1>0, <3>1, <3>2, <3>3 DEF TypeOK
  <2>2. Carries'
    BY <1>0 DEF TypeOK, Carries, Threads
  <2>3. MutexHeld'
    BY <1>0 DEF TypeOK, MutexHeld, Threads
  <2> QED
    BY <2>1, <2>2, <2>3 DEF IInv
<1>6. ASSUME NEW c \in Clients, NEW t \in Threads, NEW o \in Observers, CallObserver(c, t, o) PROVE IInv'
  <2> USE <1>6 DEF CallObserver, Tell, thread, calls
  <2>0. note[c][t] \in Events
    BY <1>0 DEF Carries, MutexHeld, Tell
  <2>1. TypeOK'
    <3>1. left' \in [Clients -> SUBSET Observers]
      BY <1>0 DEF TypeOK, Threads
    <3>2. told' \in [Clients -> [Observers -> Seq(Events)]]
      BY <1>0, <2>0 DEF TypeOK
    <3> QED
      BY <1>0, <3>1, <3>2 DEF TypeOK
  <2>2. Carries'
    BY <1>0 DEF TypeOK, Carries, Threads
  <2>3. MutexHeld'
    BY <1>0 DEF TypeOK, MutexHeld, Threads
  <2> QED
    BY <2>1, <2>2, <2>3 DEF IInv
<1>7. ASSUME NEW c \in Clients, NEW t \in Threads, NEW o \in Observers, CallbackSeen(c, t, o) PROVE IInv'
  <2> USE <1>7 DEF CallbackSeen, Tell, EnterSend, Goto
  <2>0. note[c][t] \in Events
    BY <1>0 DEF Carries, MutexHeld, Tell
  <2>4. note[c][t].msg \in Messages /\ Status(note[c][t].msg, "Seen") \in Stanzas
    BY <2>0, StatusType DEF Events
  <2>1. TypeOK'
    <3>1. left' \in [Clients -> SUBSET Observers]
      BY <1>0 DEF TypeOK, Threads
    <3>2. told' \in [Clients -> [Observers -> Seq(Events)]]
      BY <1>0, <2>0 DEF TypeOK
    <3>3. pc' \in [Clients -> [Threads -> {"idle", "send", "lock", "tell", "stuck"}]]
      BY <1>0 DEF TypeOK, Threads
    <3>4. out' \in [Clients -> [Threads -> Stanzas \cup {NoStanza}]]
      BY <1>0, <2>4 DEF TypeOK, Threads
    <3>5. seen' \in [Clients -> SUBSET Messages] /\ raced' \in [Clients -> BOOLEAN]
      BY <1>0, <2>4 DEF TypeOK
    <3> QED
      BY <1>0, <3>1, <3>2, <3>3, <3>4, <3>5 DEF TypeOK
  <2>2. Carries'
    BY <1>0, <2>4 DEF TypeOK, Carries, Threads
  <2>3. MutexHeld'
    BY <1>0 DEF TypeOK, MutexHeld, Threads
  <2> QED
    BY <2>1, <2>2, <2>3 DEF IInv
<1>8. ASSUME NEW c \in Clients, NEW t \in Threads, NEW o \in Observers, CallbackLocks(c, t, o) PROVE IInv'
  <2> USE <1>8 DEF CallbackLocks, Tell, Goto, calls
  <2>0. note[c][t] \in Events
    BY <1>0 DEF Carries, MutexHeld, Tell
  <2>1. TypeOK'
    <3>1. left' \in [Clients -> SUBSET Observers]
      BY <1>0 DEF TypeOK, Threads
    <3>2. told' \in [Clients -> [Observers -> Seq(Events)]]
      BY <1>0, <2>0 DEF TypeOK
    <3>3. pc' \in [Clients -> [Threads -> {"idle", "send", "lock", "tell", "stuck"}]]
      BY <1>0 DEF TypeOK, Threads
    <3> QED
      BY <1>0, <3>1, <3>2, <3>3 DEF TypeOK
  <2>2. Carries'
    BY <1>0 DEF TypeOK, Carries, Threads
  <2>3. MutexHeld'
    <3>1. holder[c] = t /\ \A u \in Threads : pc'[c][u] = IF u = t THEN "stuck" ELSE pc[c][u]
      BY <1>0 DEF TypeOK, MutexHeld
    <3>2. \A e \in Clients \ {c} : pc'[e] = pc[e] /\ left'[e] = left[e]
      BY <1>0 DEF TypeOK
    <3>3. left'[c] \subseteq left[c]
      BY <1>0 DEF TypeOK
    <3> QED
      BY <1>0, <3>1, <3>2, <3>3 DEF MutexHeld, Threads
  <2> QED
    BY <2>1, <2>2, <2>3 DEF IInv
<1>9. ASSUME NEW c \in Clients, NEW t \in Threads, Unlock(c, t) PROVE IInv'
  <2> USE <1>9 DEF Unlock, ToTell, Goto, calls
  <2>1. TypeOK'
    <3>1. holder' \in [Clients -> Threads \cup {"none"}]
      BY <1>0 DEF TypeOK, Threads
    <3>2. note' \in [Clients -> [Threads -> Events \cup {NoEvent}]]
      BY <1>0 DEF TypeOK, Threads
    <3>3. pc' \in [Clients -> [Threads -> {"idle", "send", "lock", "tell", "stuck"}]]
      BY <1>0 DEF TypeOK, Threads
    <3> QED
      BY <1>0, <3>1, <3>2, <3>3 DEF TypeOK
  <2>2. Carries'
    BY <1>0 DEF TypeOK, Carries, Threads
  <2>3. MutexHeld'
    BY <1>0 DEF TypeOK, MutexHeld, Threads
  <2> QED
    BY <2>1, <2>2, <2>3 DEF IInv
<1>10. ASSUME NEW c \in Clients, Receive(c) PROVE IInv'
  <2> DEFINE event == EventOf(Head(net[c]))
             ack   == Status(Head(net[c]).msg, "Delivered")
  <2>1. Head(net[c]) \in Stanzas /\ Tail(net[c]) \in Seq(Stanzas)
    BY <1>0, <1>10 DEF TypeOK, Receive
  <2>2. event \in Events
    BY <2>1, EventOfType
  <2>3. ack \in Stanzas
    BY <2>1, StatusType DEF Stanzas
  <2>4. /\ pc[c]["loop"] = "idle"
        /\ net' = [net EXCEPT ![c] = Tail(@)]
        /\ note' = [note EXCEPT ![c]["loop"] = event]
        /\ UNCHANGED <<observers, holder, left, queue, sent, seen, regs, told, heard>>
    BY <1>10 DEF Receive, ToTell, lock, calls
  <2>5. \/ /\ pc' = [pc EXCEPT ![c]["loop"] = "send"]
           /\ out' = [out EXCEPT ![c]["loop"] = ack]
           /\ raced' = [raced EXCEPT ![c] = @ \/ \E u \in Threads \ {"loop"} : pc[c][u] = "send"]
        \/ /\ pc' = [pc EXCEPT ![c]["loop"] = "lock"]
           /\ UNCHANGED <<out, raced>>
    BY <1>10 DEF Receive, EnterSend, Goto
  <2> HIDE DEF event, ack
  <2>6. TypeOK'
    <3>1. pc' \in [Clients -> [Threads -> {"idle", "send", "lock", "tell", "stuck"}]]
      <4>1. CASE pc' = [pc EXCEPT ![c]["loop"] = "send"]
        BY <1>0, <4>1 DEF TypeOK, Threads
      <4>2. CASE pc' = [pc EXCEPT ![c]["loop"] = "lock"]
        BY <1>0, <4>2 DEF TypeOK, Threads
      <4> QED
        BY <2>5, <4>1, <4>2
    <3>2. out' \in [Clients -> [Threads -> Stanzas \cup {NoStanza}]]
      <4>1. CASE out' = [out EXCEPT ![c]["loop"] = ack]
        BY <1>0, <2>3, <4>1 DEF TypeOK, Threads
      <4>2. CASE out' = out
        BY <1>0, <4>2 DEF TypeOK
      <4> QED
        BY <2>5, <4>1, <4>2
    <3>3. note' \in [Clients -> [Threads -> Events \cup {NoEvent}]]
      BY <1>0, <2>2, <2>4 DEF TypeOK
    <3>4. net' \in [Clients -> Seq(Stanzas)] /\ raced' \in [Clients -> BOOLEAN]
      BY <1>0, <2>1, <2>4, <2>5 DEF TypeOK
    <3> QED
      BY <1>0, <2>4, <3>1, <3>2, <3>3, <3>4 DEF TypeOK
  <2>7. Carries'
    BY <1>0, <2>2, <2>3, <2>4, <2>5 DEF TypeOK, Carries, Threads
  <2>8. MutexHeld'
    <3>1. CASE pc' = [pc EXCEPT ![c]["loop"] = "send"]
      BY <1>0, <2>4, <3>1 DEF TypeOK, MutexHeld, Threads
    <3>2. CASE pc' = [pc EXCEPT ![c]["loop"] = "lock"]
      BY <1>0, <2>4, <3>2 DEF TypeOK, MutexHeld, Threads
    <3> QED
      BY <2>5, <3>1, <3>2
  <2> QED
    BY <2>6, <2>7, <2>8 DEF IInv
<1>11. ASSUME NEW c \in Clients, Flush(c) PROVE IInv'
  <2> USE <1>11 DEF Flush, Dequeue, lock, thread, calls
  <2>4. Head(queue[c]) \in Stanzas /\ Tail(queue[c]) \in Seq(Stanzas)
    BY <1>0 DEF TypeOK
  <2>1. TypeOK'
    <3>1. queue' \in [Clients -> Seq(Stanzas)] /\ raced' \in [Clients -> BOOLEAN]
      BY <1>0, <2>4 DEF TypeOK
    <3>2. \A d \in Clients : Append(net[d], Head(queue[c])) \in Seq(Stanzas)
      BY <1>0, <2>4 DEF TypeOK
    <3>3. net' \in [Clients -> Seq(Stanzas)]
      BY <1>0, <3>2 DEF TypeOK
    <3> QED
      BY <1>0, <3>1, <3>3 DEF TypeOK
  <2>2. Carries'
    BY <1>0 DEF Carries
  <2>3. MutexHeld'
    BY <1>0 DEF MutexHeld
  <2> QED
    BY <2>1, <2>2, <2>3 DEF IInv
<1>12. ASSUME NEW c \in Clients, Bounce(c) PROVE IInv'
  <2> USE <1>12 DEF Bounce, Dequeue, lock, thread, calls
  <2>4. Head(queue[c]) \in Stanzas /\ Tail(queue[c]) \in Seq(Stanzas)
    BY <1>0 DEF TypeOK
  <2>5. [Head(queue[c]) EXCEPT !.type = "error", !.to = c] \in Stanzas
    BY <2>4 DEF Stanzas
  <2>1. TypeOK'
    <3>1. queue' \in [Clients -> Seq(Stanzas)] /\ raced' \in [Clients -> BOOLEAN]
      BY <1>0, <2>4 DEF TypeOK
    <3>2. net' \in [Clients -> Seq(Stanzas)]
      BY <1>0, <2>5 DEF TypeOK
    <3> QED
      BY <1>0, <3>1, <3>2 DEF TypeOK
  <2>2. Carries'
    BY <1>0 DEF Carries
  <2>3. MutexHeld'
    BY <1>0 DEF MutexHeld
  <2> QED
    BY <2>1, <2>2, <2>3 DEF IInv
<1>13. CASE UNCHANGED vars
  <2> USE <1>0, <1>13 DEF vars, lock, thread, calls
  <2>1. TypeOK'
    BY DEF TypeOK
  <2>2. Carries' /\ MutexHeld'
    BY DEF Carries, MutexHeld
  <2> QED
    BY <2>1, <2>2 DEF IInv
<1>14. ASSUME NEW c \in Clients, NEW o \in Observers, RegisterObserver(c, o) \/ UnregisterObserver(c, o)
       PROVE  IInv'
  <2>1. observers[c] \cup {o} \in SUBSET Observers /\ observers[c] \ {o} \in SUBSET Observers
    BY <1>0 DEF TypeOK
  <2> QED
    BY <1>3, <1>14, <2>1 DEF RegisterObserver, UnregisterObserver
<1>15. ASSUME NEW c \in Clients, Application(c) PROVE IInv'
  BY <1>1, <1>2, <1>14, <1>15 DEF Application
<1>16. ASSUME NEW c \in Clients, NEW t \in Threads, Notify(c, t) PROVE IInv'
  BY <1>5, <1>6, <1>7, <1>9, <1>16 DEF Notify
<1> QED
  BY <1>4, <1>8, <1>10, <1>11, <1>12, <1>13, <1>15, <1>16 DEF Next

\* The messenger's variables keep their types.
THEOREM TypeCorrect == Spec => []TypeOK
<1>1. IInv => TypeOK
  BY DEF IInv
<1> QED
  BY <1>1, InitIInv, NextIInv, PTL DEF Spec

-----------------------------------------------------------------------------
\* Only the loop over the observers calls one, and it calls one that is registered
\* before and after the call.
LEMMA StepTellsRegistered ==
  IInv /\ [Next]_vars =>
    \A c \in Clients : \A o \in Observers :
      told'[c][o] # told[c][o] => o \in observers[c] /\ o \in observers'[c]
<1> SUFFICES ASSUME IInv, [Next]_vars,
                    NEW c \in Clients, NEW o \in Observers, told'[c][o] # told[c][o]
             PROVE  o \in observers[c] /\ o \in observers'[c]
    OBVIOUS
<1>1. TypeOK /\ MutexHeld
  BY DEF IInv
<1>2. ASSUME NEW d \in Clients, NEW t \in Threads, NEW p \in Observers, Tell(d, t, p),
             observers' = observers
      PROVE  o \in observers[c] /\ o \in observers'[c]
  BY <1>1, <1>2 DEF Tell, TypeOK, MutexHeld
<1>3. ASSUME NEW d \in Clients, Application(d) PROVE told' = told
  BY <1>3 DEF Application, SendMessage, SendMessageSeen, RegisterObserver, UnregisterObserver,
              ChangeObservers
<1>4. ASSUME NEW d \in Clients, Receive(d) \/ Flush(d) \/ Bounce(d) PROVE told' = told
  BY <1>4 DEF Receive, Flush, Bounce, Dequeue
<1>5. ASSUME NEW d \in Clients, NEW t \in Threads, EndSend(d, t) \/ Lock(d, t) \/ Unlock(d, t)
      PROVE  told' = told
  BY <1>5 DEF EndSend, Lock, Unlock
<1>6. ASSUME NEW d \in Clients, NEW t \in Threads, NEW p \in Observers,
             CallObserver(d, t, p) \/ CallbackSeen(d, t, p) \/ CallbackLocks(d, t, p)
      PROVE  Tell(d, t, p) /\ observers' = observers
  BY <1>6 DEF CallObserver, CallbackSeen, CallbackLocks
<1>7. UNCHANGED vars => told' = told
  BY DEF vars
<1> QED
  BY <1>2, <1>3, <1>4, <1>5, <1>6, <1>7 DEF Next, Notify

\* Once UnregisterObserver has returned, the observer is not called again, and not
\* while it is called: whatever the observers, clients and messages.
THEOREM UnregisteredIsSafe == Spec => OnlyRegisteredAreTold
BY InitIInv, NextIInv, StepTellsRegistered, PTL DEF Spec, OnlyRegisteredAreTold

-----------------------------------------------------------------------------
\* Nothing is told as long as the observers left, the histories and the event
\* being told stay the same.
LEMMA SameTold ==
  ASSUME told' = told, left' = left,
         \A c \in Clients : left[c] # {} => note'[c][holder'[c]] = note[c][holder[c]]
  PROVE  ToldAtOnce' = ToldAtOnce
BY DEF ToldAtOnce

\* A thread with the mutex is not idle, so what the idle one takes up next is not
\* the event being told.
LEMMA HolderKeepsNote ==
  ASSUME IInv, NEW c \in Clients, NEW t \in Threads, pc[c][t] = "idle",
         \E e : note' = [note EXCEPT ![c][t] = e], UNCHANGED <<told, left, holder>>
  PROVE  ToldAtOnce' = ToldAtOnce
<1>1. TypeOK /\ MutexHeld
  BY DEF IInv
<1>2. holder[c] # t
  BY <1>1 DEF MutexHeld
<1>3. ASSUME NEW d \in Clients, left[d] # {} PROVE note'[d][holder'[d]] = note[d][holder[d]]
  <2>1. holder[d] \in Threads
    BY <1>1, <1>3 DEF TypeOK, MutexHeld
  <2> QED
    BY <1>1, <1>2, <2>1 DEF TypeOK
<1> QED
  BY <1>3, SameTold

\* Locking the mutex broadcasts the event.
LEMMA LockBroadcasts ==
  ASSUME IInv, NEW c \in Clients, NEW t \in Threads, Lock(c, t)
  PROVE  B!Tell(c, note[c][t]) /\ note[c][t] \in Events
<1>1. TypeOK /\ Carries /\ MutexHeld
  BY DEF IInv
<1>2. left[c] = {} /\ note[c][t] \in Events
  BY <1>1 DEF Lock, MutexHeld, Carries
<1>3. /\ left' = [left EXCEPT ![c] = observers[c]]
      /\ holder' = [holder EXCEPT ![c] = t]
      /\ UNCHANGED <<told, note, observers>>
  BY DEF Lock
<1>4. ToldAtOnce' = [ToldAtOnce EXCEPT ![c] =
        [o \in Observers |-> IF o \in observers[c] THEN Append(@[o], note[c][t]) ELSE @[o]]]
  BY <1>1, <1>2, <1>3 DEF ToldAtOnce, TypeOK
<1> QED
  BY <1>2, <1>3, <1>4 DEF B!Tell

\* Calling an observer is part of a broadcast that has taken place.
LEMMA TellIsToldAtOnce ==
  ASSUME IInv, NEW c \in Clients, NEW t \in Threads, NEW o \in Observers, Tell(c, t, o),
         UNCHANGED <<holder, note>>
  PROVE  ToldAtOnce' = ToldAtOnce
<1>1. TypeOK /\ MutexHeld
  BY DEF IInv
<1>2. holder[c] = t
  BY <1>1 DEF Tell, MutexHeld
<1> QED
  BY <1>1, <1>2 DEF Tell, ToldAtOnce, TypeOK

\* A step of the messenger is a step of the broadcast or leaves it alone.
LEMMA StepRefines == IInv /\ [Next]_vars => [B!Next]_<<observers, ToldAtOnce>>
<1> SUFFICES ASSUME IInv, [Next]_vars PROVE B!Next \/ UNCHANGED <<observers, ToldAtOnce>>
    OBVIOUS
<1>0. TypeOK /\ MutexHeld
  BY DEF IInv
<1>1. ASSUME NEW c \in Clients, NEW d \in Clients, SendMessage(c, d)
      PROVE  UNCHANGED <<observers, ToldAtOnce>>
  BY <1>1, HolderKeepsNote DEF SendMessage, ToTell, lock, Threads
<1>2. ASSUME NEW c \in Clients, Receive(c) PROVE UNCHANGED <<observers, ToldAtOnce>>
  BY <1>2, HolderKeepsNote DEF Receive, ToTell, lock, Threads
<1>3. ASSUME NEW c \in Clients,
             \/ \E m \in Messages : SendMessageSeen(c, m)
             \/ \E t \in Threads : EndSend(c, t)
             \/ Flush(c) \/ Bounce(c)
      PROVE  UNCHANGED <<observers, ToldAtOnce>>
  BY <1>3, SameTold DEF SendMessageSeen, EndSend, Flush, Bounce, Dequeue, lock, thread
<1>4. ASSUME NEW c \in Clients, NEW o \in Observers, RegisterObserver(c, o)
      PROVE  B!Register(c, o)
  BY <1>4, SameTold DEF RegisterObserver, ChangeObservers, thread, B!Register
<1>5. ASSUME NEW c \in Clients, NEW o \in Observers, UnregisterObserver(c, o)
      PROVE  B!Unregister(c, o)
  BY <1>5, SameTold DEF UnregisterObserver, ChangeObservers, thread, B!Unregister
<1>6. ASSUME NEW c \in Clients, NEW t \in Threads, NEW o \in Observers,
             CallObserver(c, t, o) \/ CallbackSeen(c, t, o) \/ CallbackLocks(c, t, o)
      PROVE  UNCHANGED <<observers, ToldAtOnce>>
  BY <1>6, TellIsToldAtOnce DEF CallObserver, CallbackSeen, CallbackLocks, thread
<1>7. ASSUME NEW c \in Clients, NEW t \in Threads, Unlock(c, t)
      PROVE  UNCHANGED <<observers, ToldAtOnce>>
  <2>1. /\ left[c] = {} /\ holder[c] = t
        /\ holder' = [holder EXCEPT ![c] = "none"]
        /\ note' = [note EXCEPT ![c][t] = NoEvent]
        /\ UNCHANGED <<observers, told, left>>
    BY <1>0, <1>7 DEF Unlock, ToTell, MutexHeld
  <2>2. \A d \in Clients : left[d] # {} => note'[d][holder'[d]] = note[d][holder[d]]
    BY <1>0, <2>1 DEF TypeOK
  <2> QED
    BY <2>1, <2>2, SameTold
<1>8. CASE UNCHANGED vars
  BY <1>8, SameTold DEF vars, lock, thread
<1>9. ASSUME NEW c \in Clients, NEW t \in Threads, Lock(c, t) PROVE B!Next
  BY <1>9, LockBroadcasts DEF B!Next
<1>10. ASSUME NEW c \in Clients, Application(c) PROVE B!Next \/ UNCHANGED <<observers, ToldAtOnce>>
  BY <1>1, <1>3, <1>4, <1>5, <1>10 DEF Application, B!Next
<1>11. ASSUME NEW c \in Clients, NEW t \in Threads, Notify(c, t)
       PROVE  B!Next \/ UNCHANGED <<observers, ToldAtOnce>>
  BY <1>6, <1>7, <1>9, <1>11 DEF Notify
<1> QED
  BY <1>2, <1>3, <1>6, <1>8, <1>10, <1>11 DEF Next

\* NotifyMessageStatus and NotifyNewMessage implement an atomic broadcast to the
\* observers registered at the time.
THEOREM Refinement == Spec => EventsAreBroadcast
<1>1. Init => B!Init
  BY DEF Init, B!Init, ToldAtOnce
<1> QED
  BY <1>1, InitIInv, NextIInv, StepRefines, PTL DEF Spec, EventsAreBroadcast, B!Spec

-----------------------------------------------------------------------------
(* Sequences that are appended to and shortened at the head.                 *)

\* Of two elements the earlier is related to the later one.
InOrder(s, R) == \A i, j \in 1 .. Len(s) : i < j => <<s[i], s[j]>> \in R

\* An element of W comes after one that is related to it.
Covered(s, W, R) ==
  \A i \in 1 .. Len(s) : s[i] \in W => \E j \in 1 .. Len(s) : j < i /\ <<s[j], s[i]>> \in R

\* The elements of a sequence.
LEMMA RangeOf ==
  ASSUME NEW S, NEW s \in Seq(S)
  PROVE  /\ Range(s) = {s[i] : i \in 1 .. Len(s)}
         /\ \A i \in 1 .. Len(s) : s[i] \in Range(s)
         /\ \A x \in Range(s) : x \in S /\ \E i \in 1 .. Len(s) : s[i] = x
<1>1. Range(s) = {s[i] : i \in 1 .. Len(s)}
  BY LenProperties DEF Range
<1>2. \A i \in 1 .. Len(s) : s[i] \in S
  BY LenProperties
<1>3. QED
  BY <1>1, <1>2

\* What is appended comes last and is one of the elements.
LEMMA AppendElements ==
  ASSUME NEW S, NEW s \in Seq(S), NEW x \in S
  PROVE  /\ Len(Append(s, x)) = Len(s) + 1 /\ Len(s) \in Nat
         /\ Append(s, x)[Len(s) + 1] = x
         /\ \A i \in 1 .. Len(s) : Append(s, x)[i] = s[i]
         /\ Range(Append(s, x)) = Range(s) \cup {x}
<1> DEFINE n == Len(s)
           a == Append(s, x)
<1>1. a \in Seq(S) /\ Len(a) = n + 1 /\ n \in Nat /\ a[n + 1] = x /\ \A i \in 1 .. n : a[i] = s[i]
  BY AppendProperties
<1>2. Range(a) = {a[i] : i \in 1 .. n + 1} /\ Range(s) = {s[i] : i \in 1 .. n}
  BY <1>1, RangeOf
<1> HIDE DEF n, a
<1>3. \A i \in 1 .. n + 1 : i \in 1 .. n \/ i = n + 1
  BY <1>1
<1>4. 1 .. n \subseteq 1 .. n + 1 /\ n + 1 \in 1 .. n + 1
  BY <1>1
<1>5. Range(a) = Range(s) \cup {x}
  BY <1>1, <1>2, <1>3, <1>4
<1>6. QED
  BY <1>1, <1>5 DEF n, a

\* The first element taken off, the others move up.
LEMMA TailElements ==
  ASSUME NEW S, NEW s \in Seq(S), s # <<>>
  PROVE  /\ Len(s) = Len(Tail(s)) + 1 /\ Len(Tail(s)) \in Nat
         /\ Head(s) = s[1] /\ Head(s) \in Range(s) /\ Head(s) \in S
         /\ \A i \in 1 .. Len(Tail(s)) : Tail(s)[i] = s[i + 1] /\ i + 1 \in 1 .. Len(s)
         /\ Range(Tail(s)) \subseteq Range(s)
         /\ Range(s) = {Head(s)} \cup Range(Tail(s))
<1> DEFINE n == Len(Tail(s))
           r == Tail(s)
<1>1. /\ r \in Seq(S) /\ Len(s) = n + 1 /\ n \in Nat /\ \A i \in 1 .. n : r[i] = s[i + 1]
      /\ Head(s) = s[1] /\ Head(s) \in S
  BY HeadTailProperties
<1>2. Range(r) = {r[i] : i \in 1 .. n} /\ Range(s) = {s[i] : i \in 1 .. n + 1}
  BY <1>1, RangeOf
<1> HIDE DEF n, r
<1>3. \A i \in 1 .. n : i + 1 \in 1 .. n + 1
  BY <1>1
<1>4. \A i \in 1 .. n + 1 : i = 1 \/ (i - 1 \in 1 .. n /\ (i - 1) + 1 = i)
  BY <1>1
<1>5. 1 \in 1 .. n + 1
  BY <1>1
<1>6. Range(r) \subseteq Range(s) /\ Head(s) \in Range(s)
  BY <1>1, <1>2, <1>3, <1>5
<1>7. Range(s) \subseteq {Head(s)} \cup Range(r)
  <2> SUFFICES ASSUME NEW i \in 1 .. n + 1 PROVE s[i] \in {Head(s)} \cup Range(r)
    BY <1>2
  <2>1. CASE i = 1
    BY <1>1, <2>1
  <2>2. CASE i # 1
    <3>1. i - 1 \in 1 .. n /\ (i - 1) + 1 = i
      BY <1>4, <2>2
    <3>2. r[i - 1] = s[i]
      BY <1>1, <3>1
    <3>3. QED
      BY <1>2, <3>1, <3>2
  <2>3. QED
    BY <2>1, <2>2
<1>8. QED
  BY <1>1, <1>3, <1>6, <1>7 DEF n, r

\* A sequence of one element, and of none.
LEMMA OneElement ==
  ASSUME NEW S, NEW x \in S
  PROVE  /\ <<x>> \in Seq(S) /\ Len(<<x>>) = 1 /\ <<x>>[1] = x /\ Range(<<x>>) = {x}
         /\ Range(<<>>) = {}
<1>1. <<x>> \in Seq(S) /\ Len(<<x>>) = 1 /\ <<x>>[1] = x
  OBVIOUS
<1>2. Range(<<x>>) = {x}
  <2>1. Range(<<x>>) = {<<x>>[i] : i \in 1 .. 1}
    BY <1>1, RangeOf
  <2>2. 1 .. 1 = {1}
    OBVIOUS
  <2>3. QED
    BY <1>1, <2>1, <2>2
<1>3. <<>> \in Seq(S) /\ Len(<<>>) = 0
  BY EmptySeq
<1>4. Range(<<>>) = {<<>>[i] : i \in 1 .. 0}
  BY <1>3, RangeOf
<1>5. QED
  BY <1>1, <1>2, <1>4

\* What is in order stays so.
LEMMA OrderKept ==
  ASSUME NEW S, NEW R, NEW s \in Seq(S), InOrder(s, R)
  PROVE  /\ \A x \in S : (\A y \in Range(s) : <<y, x>> \in R) => InOrder(Append(s, x), R)
         /\ s # <<>> => InOrder(Tail(s), R) /\ \A y \in Range(Tail(s)) : <<Head(s), y>> \in R
         /\ \A x \in S : InOrder(<<x>>, R)
<1>1. ASSUME NEW x \in S, \A y \in Range(s) : <<y, x>> \in R PROVE InOrder(Append(s, x), R)
  <2> DEFINE n == Len(s)
             a == Append(s, x)
  <2>1. n \in Nat /\ Len(a) = n + 1 /\ a[n + 1] = x /\ \A i \in 1 .. n : a[i] = s[i]
    BY AppendElements
  <2>2. \A i \in 1 .. n : <<s[i], x>> \in R
    BY <1>1, RangeOf
  <2>3. \A i, j \in 1 .. n : i < j => <<s[i], s[j]>> \in R
    BY DEF InOrder
  <2> HIDE DEF n, a
  <2>4. ASSUME NEW i \in 1 .. n + 1, NEW j \in 1 .. n + 1, i < j PROVE <<a[i], a[j]>> \in R
    <3>1. i \in 1 .. n /\ (j \in 1 .. n \/ j = n + 1)
      BY <2>1, <2>4
    <3>2. QED
      BY <2>1, <2>2, <2>3, <2>4, <3>1
  <2>5. QED
    BY <2>1, <2>4 DEF InOrder, a
<1>2. ASSUME s # <<>> PROVE InOrder(Tail(s), R) /\ \A y \in Range(Tail(s)) : <<Head(s), y>> \in R
  <2> DEFINE n == Len(Tail(s))
             r == Tail(s)
  <2>1. /\ Len(s) = n + 1 /\ n \in Nat /\ Head(s) = s[1]
        /\ \A i \in 1 .. n : r[i] = s[i + 1] /\ i + 1 \in 1 .. Len(s)
    BY <1>2, TailElements
  <2>2. Range(r) = {r[i] : i \in 1 .. n}
    BY <1>2, HeadTailProperties, RangeOf
  <2>3. \A i, j \in 1 .. Len(s) : i < j => <<s[i], s[j]>> \in R
    BY DEF InOrder
  <2> HIDE DEF n, r
  <2>4. ASSUME NEW i \in 1 .. n, NEW j \in 1 .. n, i < j PROVE <<r[i], r[j]>> \in R
    <3>1. i + 1 < j + 1 /\ i + 1 \in 1 .. Len(s) /\ j + 1 \in 1 .. Len(s)
      BY <2>1, <2>4
    <3>2. QED
      BY <2>1, <2>3, <3>1
  <2>5. ASSUME NEW i \in 1 .. n PROVE <<Head(s), r[i]>> \in R
    <3>1. 1 < i + 1 /\ i + 1 \in 1 .. Len(s) /\ 1 \in 1 .. Len(s)
      BY <2>1
    <3>2. QED
      BY <2>1, <2>3, <3>1
  <2>6. QED
    BY <2>2, <2>4, <2>5 DEF InOrder, n, r
<1>3. ASSUME NEW x \in S PROVE InOrder(<<x>>, R)
  <2>1. Len(<<x>>) = 1
    OBVIOUS
  <2>2. \A i, j \in 1 .. 1 : ~(i < j)
    OBVIOUS
  <2>3. QED
    BY <2>1, <2>2 DEF InOrder
<1>4. QED
  BY <1>1, <1>2, <1>3

\* What is covered stays so, as long as what loses its cover needs it no more.
LEMMA CoverKept ==
  ASSUME NEW S, NEW R, NEW W, NEW s \in Seq(S), Covered(s, W, R)
  PROVE  /\ \A x \in S : (x \in W => \E y \in Range(s) : <<y, x>> \in R) => Covered(Append(s, x), W, R)
         /\ s # <<>> => \A V \in SUBSET W : (\A y \in V : <<Head(s), y>> \notin R) => Covered(Tail(s), V, R)
         /\ \A V \in SUBSET W : Covered(s, V, R)
<1>1. ASSUME NEW x \in S, x \in W => \E y \in Range(s) : <<y, x>> \in R PROVE Covered(Append(s, x), W, R)
  <2> DEFINE n == Len(s)
             a == Append(s, x)
  <2>1. n \in Nat /\ Len(a) = n + 1 /\ a[n + 1] = x /\ \A i \in 1 .. n : a[i] = s[i]
    BY AppendElements
  <2>2. ASSUME x \in W PROVE \E i \in 1 .. n : <<s[i], x>> \in R
    <3>1. PICK y \in Range(s) : <<y, x>> \in R
      BY <1>1, <2>2
    <3>2. PICK i \in 1 .. n : s[i] = y
      BY <3>1, RangeOf
    <3>3. QED
      BY <3>1, <3>2
  <2>3. \A i \in 1 .. n : s[i] \in W => \E j \in 1 .. n : j < i /\ <<s[j], s[i]>> \in R
    BY DEF Covered
  <2> HIDE DEF n, a
  <2>4. ASSUME NEW i \in 1 .. n + 1, a[i] \in W
        PROVE  \E j \in 1 .. n + 1 : j < i /\ <<a[j], a[i]>> \in R
    <3>1. CASE i \in 1 .. n
      <4>1. PICK j \in 1 .. n : j < i /\ <<s[j], s[i]>> \in R
        BY <2>1, <2>3, <2>4, <3>1
      <4>2. j \in 1 .. n + 1 /\ a[j] = s[j] /\ a[i] = s[i]
        BY <2>1, <3>1
      <4>3. QED
        BY <4>1, <4>2
    <3>2. CASE i = n + 1
      <4>1. PICK j \in 1 .. n : <<s[j], x>> \in R
        BY <2>1, <2>2, <2>4, <3>2
      <4>2. j \in 1 .. n + 1 /\ j < i
        BY <2>1, <3>2
      <4>3. a[j] = s[j] /\ a[i] = x
        BY <2>1, <3>2
      <4>4. QED
        BY <4>1, <4>2, <4>3
    <3>3. QED
      BY <2>1, <3>1, <3>2
  <2>5. QED
    BY <2>1, <2>4 DEF Covered, a, n
<1>2. ASSUME s # <<>>, NEW V \in SUBSET W, \A y \in V : <<Head(s), y>> \notin R
      PROVE  Covered(Tail(s), V, R)
  <2> DEFINE n == Len(Tail(s))
             r == Tail(s)
  <2>1. /\ Len(s) = n + 1 /\ n \in Nat /\ Head(s) = s[1]
        /\ \A i \in 1 .. n : r[i] = s[i + 1] /\ i + 1 \in 1 .. Len(s)
    BY <1>2, TailElements
  <2>3. \A i \in 1 .. Len(s) : s[i] \in W => \E j \in 1 .. Len(s) : j < i /\ <<s[j], s[i]>> \in R
    BY DEF Covered
  <2> HIDE DEF n, r
  <2>4. ASSUME NEW i \in 1 .. n, r[i] \in V PROVE \E j \in 1 .. n : j < i /\ <<r[j], r[i]>> \in R
    <3>1. r[i] = s[i + 1] /\ i + 1 \in 1 .. Len(s) /\ s[i + 1] \in W
      BY <2>1, <2>4
    <3>2. PICK j \in 1 .. Len(s) : j < i + 1 /\ <<s[j], s[i + 1]>> \in R
      BY <2>3, <3>1
    <3>3. j # 1
      BY <1>2, <2>1, <2>4, <3>1, <3>2
    <3>4. j - 1 \in 1 .. n /\ j - 1 < i /\ (j - 1) + 1 = j
      BY <2>1, <3>2, <3>3
    <3>5. r[j - 1] = s[j]
      BY <2>1, <3>4
    <3>6. QED
      BY <3>1, <3>2, <3>4, <3>5
  <2>5. QED
    BY <2>4 DEF Covered, n, r
<1>3. ASSUME NEW V \in SUBSET W PROVE Covered(s, V, R)
  BY DEF Covered
<1>4. QED
  BY <1>1, <1>2, <1>3

-----------------------------------------------------------------------------
(* The order of a sender's messages, from SendMessage to the observers.      *)

\* Of two messages of one sender, the second is the later one.
Later ==
  {p \in Stanzas \X Stanzas :
     p[1].type = "chat" /\ p[2].type = "chat" /\ p[1].msg[1] = p[2].msg[1] =>
       p[1].msg[2] < p[2].msg[2]}

LaterEvents ==
  {p \in Events \X Events :
     p[1].kind = "received" /\ p[2].kind = "received" /\ p[1].msg[1] = p[2].msg[1] =>
       p[1].msg[2] < p[2].msg[2]}

\* What client c has yet to write out was sent in order, and last what it is sending.
SentInOrder(c) ==
  /\ out[c]["loop"].type # "chat"
  /\ out[c]["app"].type = "chat" => out[c]["app"].msg = <<c, sent[c]>>
  /\ \A x \in Range(queue[c]) : x.type = "chat" =>
       /\ x.msg[1] = c /\ x.msg[2] <= sent[c]
       /\ out[c]["app"].type = "chat" => x.msg[2] < sent[c]
  /\ InOrder(queue[c], Later)

\* A message that has left its sender: what the sender has yet to write out is later.
Gone(m) ==
  LET c == m[1] IN
    /\ m[2] <= sent[c]
    /\ out[c]["app"].type = "chat" => m[2] < sent[c]
    /\ \A x \in Range(queue[c]) : x.type = "chat" => m[2] < x.msg[2]

\* What is on its way to client d has left its sender, in order.
CarriedInOrder(d) ==
  /\ \A x \in Range(net[d]) : x.type = "chat" => Gone(x.msg)
  /\ InOrder(net[d], Later)

\* A message that has arrived: what the sender has on its way is later, too.
Arrived(d, m) ==
  /\ Gone(m)
  /\ \A x \in Range(net[d]) : x.type = "chat" /\ x.msg[1] = m[1] => m[2] < x.msg[2]

\* The run loop has yet to tell an observer of the message.
Telling(d, o) ==
  note[d]["loop"].kind = "received" /\ (holder[d] # "loop" \/ o \in left[d])

\* Observers are told of messages that have arrived, in order.
ToldInOrder(d) ==
  /\ note[d]["app"].kind # "received"
  /\ note[d]["loop"].kind = "received" => Arrived(d, note[d]["loop"].msg)
  /\ \A o \in Observers :
       /\ InOrder(told[d][o], LaterEvents)
       /\ \A e \in Range(told[d][o]) : e.kind = "received" =>
            /\ Arrived(d, e.msg)
            /\ Telling(d, o) /\ e.msg[1] = note[d]["loop"].msg[1] => e.msg[2] < note[d]["loop"].msg[2]

OrderInv ==
  /\ \A c \in Clients : SentInOrder(c)
  /\ \A d \in Clients : CarriedInOrder(d)
  /\ \A d \in Clients : ToldInOrder(d)

\* Senders are clients, and messages have numbers.
LEMMA MessageTypes ==
  ASSUME NEW m \in Messages PROVE m[1] \in Clients /\ m[2] \in Nat
<1>1. PICK c \in Clients : m \in {c} \X (1 .. MaxSent[c])
  BY DEF Messages
<1>2. m[1] = c /\ m[2] \in 1 .. MaxSent[c]
  BY <1>1
<1>3. QED
  BY <1>2, MessagingAssumption

\* Stanzas and events that are in order.
LEMMA LaterFacts ==
  /\ \A x, y \in Stanzas : <<x, y>> \in Later <=>
       (x.type = "chat" /\ y.type = "chat" /\ x.msg[1] = y.msg[1] => x.msg[2] < y.msg[2])
  /\ \A x, y \in Events : <<x, y>> \in LaterEvents <=>
       (x.kind = "received" /\ y.kind = "received" /\ x.msg[1] = y.msg[1] => x.msg[2] < y.msg[2])
  /\ \A x \in Stanzas : x.msg \in Messages /\ x.to \in Clients /\ x.type \in {"chat", "Delivered", "Seen", "error"}
  /\ \A x \in Events : x.msg \in Messages
<1>1. \A x, y \in Stanzas : <<x, y>> \in Later <=>
       (x.type = "chat" /\ y.type = "chat" /\ x.msg[1] = y.msg[1] => x.msg[2] < y.msg[2])
  BY DEF Later
<1>2. \A x, y \in Events : <<x, y>> \in LaterEvents <=>
       (x.kind = "received" /\ y.kind = "received" /\ x.msg[1] = y.msg[1] => x.msg[2] < y.msg[2])
  BY DEF LaterEvents
<1>3. \A x \in Stanzas : x.msg \in Messages /\ x.to \in Clients /\ x.type \in {"chat", "Delivered", "Seen", "error"}
  BY DEF Stanzas
<1>4. \A x \in Events : x.msg \in Messages
  BY DEF Events
<1>5. QED
  BY <1>1, <1>2, <1>3, <1>4

\* What a step does to the stanzas of a client: a message is sent, a status is, or
\* nothing; a stanza gets to the queue, or is lost when two uses of it have overlapped;
\* the first is taken from it.
SendsMessage(c) ==
  /\ sent'[c] = sent[c] + 1 /\ UNCHANGED <<queue[c], out[c]["loop"]>>
  /\ <<c, sent[c] + 1>> \in Messages
  /\ pc[c]["app"] = "idle"
  /\ \E d \in Clients \ {c} : out'[c]["app"] = Chat(d, <<c, sent[c] + 1>>)

SendsStatus(c) ==
  /\ UNCHANGED <<sent[c], queue[c]>>
  /\ \A t \in Threads : out'[c][t] = out[c][t] \/ out'[c][t].type \in {"Delivered", "Seen"}

Queues(c) ==
  /\ UNCHANGED sent[c]
  /\ \E t \in Threads :
       /\ pc[c][t] = "send" /\ out[c][t] \in Stanzas
       /\ \A u \in Threads : out'[c][u] = IF u = t THEN NoStanza ELSE out[c][u]
       /\ \/ queue'[c] = Append(queue[c], out[c][t])
          \/ raced[c] /\ queue'[c] = <<out[c][t]>>
          \/ raced[c] /\ queue'[c] = queue[c]

Dequeues(c) ==
  /\ Flush(c) \/ Bounce(c)
  /\ UNCHANGED <<sent[c], out[c]>>
  /\ queue[c] # <<>> /\ queue'[c] = Tail(queue[c])

\* What a step does with the messages a client has sent and queued.
LEMMA SenderStep ==
  ASSUME IInv, [Next]_vars, NEW c \in Clients
  PROVE  SendsMessage(c) \/ SendsStatus(c) \/ Queues(c) \/ Dequeues(c)
<1>0. /\ TypeOK /\ Carries
      /\ sent \in [Clients -> Nat] /\ queue \in [Clients -> Seq(Stanzas)]
      /\ out \in [Clients -> [Threads -> Stanzas \cup {NoStanza}]]
      /\ "app" \in Threads /\ "loop" \in Threads
  BY DEF IInv, TypeOK, Threads
<1>1. UNCHANGED <<sent, out, queue>> => SendsStatus(c)
  BY DEF SendsStatus
<1>2. ASSUME NEW e \in Clients, NEW d \in Clients \ {e}, SendMessage(e, d)
      PROVE  SendsMessage(c) \/ SendsStatus(c)
  <2> DEFINE m == <<e, sent[e] + 1>>
  <2>1. /\ sent' = [sent EXCEPT ![e] = @ + 1] /\ queue' = queue /\ pc[e]["app"] = "idle"
        /\ out' = [out EXCEPT ![e]["app"] = Chat(d, m)] /\ sent[e] < MaxSent[e]
    BY <1>2 DEF SendMessage, EnterSend
  <2>2. m \in Messages
    <3>1. sent[e] + 1 \in 1 .. MaxSent[e]
      <4>1. sent[e] \in Nat /\ MaxSent[e] \in Nat /\ sent[e] < MaxSent[e]
        BY <1>0, <2>1, MessagingAssumption
      <4>2. QED
        BY <4>1
    <3>2. QED
      BY <3>1 DEF Messages
  <2>3. CASE c = e
    <3>1. sent'[c] = sent[c] + 1 /\ queue'[c] = queue[c]
      BY <1>0, <2>1, <2>3
    <3>2. out'[c]["app"] = Chat(d, m) /\ out'[c]["loop"] = out[c]["loop"]
      BY <1>0, <2>1, <2>3 DEF Threads
    <3>3. QED
      BY <2>1, <2>2, <2>3, <3>1, <3>2 DEF SendsMessage
  <2>4. CASE c # e
    BY <1>0, <2>1, <2>4 DEF SendsStatus
  <2>5. QED
    BY <2>3, <2>4
<1>3. ASSUME NEW e \in Clients, NEW t \in Threads, NEW m, NEW k \in {"Delivered", "Seen"},
             EnterSend(e, t, Status(m, k)), UNCHANGED <<sent, queue>>
      PROVE  SendsStatus(c)
  <2>1. out' = [out EXCEPT ![e][t] = Status(m, k)] /\ Status(m, k).type = k
    BY <1>3 DEF EnterSend, Status
  <2>2. \A u \in Threads : out'[c][u] = out[c][u] \/ out'[c][u].type \in {"Delivered", "Seen"}
    BY <1>0, <2>1
  <2>3. QED
    BY <1>3, <2>2 DEF SendsStatus
<1>4. ASSUME NEW e \in Clients, NEW t \in Threads, EndSend(e, t)
      PROVE  SendsStatus(c) \/ Queues(c)
  <2> DEFINE x == out[e][t]
  <2>1. /\ sent' = sent /\ out' = [out EXCEPT ![e][t] = NoStanza] /\ pc[e][t] = "send"
        /\ \/ queue' = [queue EXCEPT ![e] = Append(@, x)]
           \/ raced[e] /\ queue' = [queue EXCEPT ![e] = <<x>>]
           \/ raced[e] /\ queue' = queue
    BY <1>4 DEF EndSend, calls
  <2>2. x \in Stanzas
    BY <1>0, <2>1 DEF Carries
  <2>3. CASE c = e
    <3>1. \A u \in Threads : out'[c][u] = IF u = t THEN NoStanza ELSE out[c][u]
      BY <1>0, <2>1, <2>3
    <3> HIDE DEF x
    <3>2. \/ queue'[c] = Append(queue[c], x)
          \/ raced[c] /\ queue'[c] = <<x>>
          \/ raced[c] /\ queue'[c] = queue[c]
      BY <1>0, <2>1, <2>3
    <3>3. QED
      BY <2>1, <2>2, <2>3, <3>1, <3>2 DEF Queues, x
  <2>4. CASE c # e
    BY <1>0, <2>1, <2>4 DEF SendsStatus
  <2>5. QED
    BY <2>3, <2>4
<1>5. ASSUME NEW e \in Clients, Flush(e) \/ Bounce(e) PROVE SendsStatus(c) \/ Dequeues(c)
  <2>1. UNCHANGED <<sent, out>> /\ queue' = [queue EXCEPT ![e] = Tail(@)] /\ queue[e] # <<>>
    BY <1>5 DEF Flush, Bounce, Dequeue, calls, thread
  <2>2. QED
    BY <1>0, <1>5, <2>1 DEF SendsStatus, Dequeues
<1>6. ASSUME NEW e \in Clients, Application(e)
      PROVE  SendsMessage(c) \/ SendsStatus(c)
  <2>1. ASSUME NEW m \in Messages, SendMessageSeen(e, m) PROVE SendsStatus(c)
    <3>1. EnterSend(e, "app", Status(m, "Seen")) /\ UNCHANGED <<sent, queue>>
      BY <2>1 DEF SendMessageSeen
    <3>2. QED
      BY <1>0, <1>3, <3>1
  <2>2. ASSUME NEW set, ChangeObservers(e, set) PROVE SendsStatus(c)
    BY <1>1, <2>2 DEF ChangeObservers, thread, SendsStatus
  <2>3. QED
    BY <1>2, <1>6, <2>1, <2>2 DEF Application, RegisterObserver, UnregisterObserver
<1>7. ASSUME NEW e \in Clients, NEW t \in Threads, NEW o \in Observers,
             CallObserver(e, t, o) \/ CallbackLocks(e, t, o)
      PROVE  SendsStatus(c)
  BY <1>7 DEF CallObserver, CallbackLocks, calls, thread, SendsStatus
<1>8. ASSUME NEW e \in Clients, NEW t \in Threads, NEW o \in Observers, CallbackSeen(e, t, o)
      PROVE  SendsStatus(c)
  BY <1>3, <1>8 DEF CallbackSeen
<1>9. ASSUME NEW e \in Clients, Receive(e) PROVE SendsStatus(c)
  <2>1. UNCHANGED <<sent, queue>>
    BY <1>9 DEF Receive, calls
  <2>2. UNCHANGED out \/ EnterSend(e, "loop", Status(Head(net[e]).msg, "Delivered"))
    BY <1>9 DEF Receive
  <2>3. QED
    BY <1>0, <1>3, <2>1, <2>2 DEF SendsStatus
<1>10. ASSUME NEW e \in Clients, NEW t \in Threads, Lock(e, t) \/ Unlock(e, t) PROVE SendsStatus(c)
  BY <1>10 DEF Lock, Unlock, calls, thread, SendsStatus
<1>11. UNCHANGED vars => SendsStatus(c)
  BY DEF vars, calls, thread, SendsStatus
<1>12. ASSUME NEW e \in Clients, NEW t \in Threads, Notify(e, t) PROVE SendsStatus(c)
  BY <1>7, <1>8, <1>10, <1>12 DEF Notify
<1>13. QED
  BY <1>4, <1>5, <1>6, <1>7, <1>9, <1>11, <1>12 DEF Next

\* What a client sends stays in order, and what has left stays before the rest.
LEMMA SentStays ==
  ASSUME IInv, [Next]_vars, NEW c \in Clients, SentInOrder(c)
  PROVE  /\ SentInOrder(c)'
         /\ \A m \in Messages : m[1] = c /\ Gone(m) => Gone(m)'
<1> DEFINE q == queue[c]
           n == sent[c]
<1>0. /\ q \in Seq(Stanzas) /\ n \in Nat /\ "app" \in Threads /\ "loop" \in Threads
      /\ \A x \in Range(q) : x \in Stanzas
      /\ out[c] \in [Threads -> Stanzas \cup {NoStanza}]
  <2>1. queue \in [Clients -> Seq(Stanzas)] /\ sent \in [Clients -> Nat] /\ TypeOK
    BY DEF IInv, TypeOK
  <2>2. q \in Seq(Stanzas) /\ n \in Nat
    BY <2>1
  <2>3. \A x \in Range(q) : x \in Stanzas
    BY <2>2, RangeOf
  <2>4. QED
    BY <2>1, <2>2, <2>3 DEF TypeOK, Threads
<1>1. \A x \in Stanzas : x.msg \in Messages /\ x.msg[1] \in Clients /\ x.msg[2] \in Nat
  BY LaterFacts, MessageTypes
<1>2. \A m \in Messages : m[2] \in Nat
  BY MessageTypes
<1>3. CASE SendsMessage(c)
  <2> DEFINE k == <<c, n + 1>>
  <2>1. PICK d \in Clients : out'[c]["app"] = Chat(d, k)
    BY <1>3 DEF SendsMessage
  <2>2. out'[c]["app"].type = "chat" /\ out'[c]["app"].msg = k
    BY <2>1 DEF Chat
  <2>3. sent'[c] = n + 1 /\ queue'[c] = q /\ out'[c]["loop"] = out[c]["loop"]
    BY <1>3 DEF SendsMessage
  <2> HIDE DEF k, n, q
  <2>4. SentInOrder(c)'
    <3>1. out'[c]["loop"].type # "chat" /\ InOrder(queue'[c], Later)
      BY <2>3 DEF SentInOrder, q
    <3>2. out'[c]["app"].msg = <<c, sent'[c]>>
      BY <2>2, <2>3 DEF k
    <3>3. ASSUME NEW x \in Range(q), x.type = "chat"
          PROVE  x.msg[1] = c /\ x.msg[2] <= sent'[c] /\ x.msg[2] < sent'[c]
      <4>1. x.msg[1] = c /\ x.msg[2] <= n
        BY <3>3 DEF SentInOrder, q, n
      <4>2. x.msg[2] \in Nat
        BY <1>0, <1>1
      <4>3. QED
        BY <1>0, <2>3, <4>1, <4>2
    <3>4. QED
      BY <2>3, <3>1, <3>2, <3>3 DEF SentInOrder
  <2>5. ASSUME NEW m \in Messages, m[1] = c, Gone(m) PROVE Gone(m)'
    <3>1. m[2] <= n /\ m[2] \in Nat
      BY <1>2, <2>5 DEF Gone, n
    <3>2. m[2] <= sent'[c] /\ m[2] < sent'[c]
      BY <1>0, <2>3, <3>1
    <3>3. \A x \in Range(q) : x.type = "chat" => m[2] < x.msg[2]
      BY <2>5 DEF Gone, q
    <3>4. QED
      BY <2>3, <2>5, <3>2, <3>3 DEF Gone
  <2>6. QED
    BY <2>4, <2>5
<1>4. CASE SendsStatus(c)
  <2>1. sent'[c] = sent[c] /\ queue'[c] = queue[c]
    BY <1>4 DEF SendsStatus
  <2>2. \A t \in Threads : out'[c][t].type = "chat" => out'[c][t] = out[c][t]
    BY <1>4 DEF SendsStatus
  <2>3. SentInOrder(c)'
    BY <1>0, <2>1, <2>2 DEF SentInOrder
  <2>4. QED
    BY <1>0, <2>1, <2>2, <2>3 DEF Gone
<1>5. CASE Queues(c)
  <2>1. PICK t \in Threads :
          /\ pc[c][t] = "send" /\ out[c][t] \in Stanzas
          /\ \A u \in Threads : out'[c][u] = IF u = t THEN NoStanza ELSE out[c][u]
          /\ \/ queue'[c] = Append(queue[c], out[c][t])
             \/ raced[c] /\ queue'[c] = <<out[c][t]>>
             \/ raced[c] /\ queue'[c] = queue[c]
    BY <1>5 DEF Queues
  <2> DEFINE x == out[c][t]
  <2>2. x \in Stanzas /\ sent'[c] = n
    BY <1>5, <2>1 DEF Queues
  <2>3. \A u \in Threads : out'[c][u].type = "chat" => u # t /\ out'[c][u] = out[c][u]
    <3>1. NoStanza.type # "chat"
      BY DEF NoStanza
    <3>2. QED
      BY <2>1, <3>1
  <2>4. x.type = "chat" => x.msg = <<c, n>> /\ t = "app" /\ x.msg[1] = c /\ x.msg[2] = n
    BY <1>0, <2>1 DEF SentInOrder, Threads
  <2>a. x.type = "chat" => out'[c]["app"].type # "chat"
    BY <1>0, <2>3, <2>4
  <2>5. \A y \in Range(q) : <<y, x>> \in Later
    <3> SUFFICES ASSUME NEW y \in Range(q), x.type = "chat", y.type = "chat" PROVE y.msg[2] < x.msg[2]
      BY <1>0, <2>2, LaterFacts
    <3>1. y.msg[2] < n
      BY <2>4 DEF SentInOrder
    <3>2. QED
      BY <2>4, <3>1
  <2>6. /\ Range(queue'[c]) \subseteq Range(q) \cup {x}
        /\ InOrder(queue'[c], Later)
    <3>1. InOrder(q, Later)
      BY DEF SentInOrder
    <3> HIDE DEF x, q
    <3>a. InOrder(Append(q, x), Later) /\ InOrder(<<x>>, Later)
      BY <1>0, <2>2, <2>5, <3>1, OrderKept
    <3>b. Range(Append(q, x)) = Range(q) \cup {x}
      BY <1>0, <2>2, AppendElements
    <3>c. Range(<<x>>) = {x}
      BY <2>2, OneElement
    <3>2. CASE queue'[c] = Append(q, x)
      BY <3>2, <3>a, <3>b
    <3>3. CASE queue'[c] = <<x>>
      BY <3>3, <3>a, <3>c
    <3>4. CASE queue'[c] = q
      BY <3>1, <3>4
    <3>5. QED
      BY <2>1, <3>2, <3>3, <3>4 DEF q, x
  <2> HIDE DEF x, q, n
  <2>7. SentInOrder(c)'
    <3>1. out'[c]["loop"].type # "chat"
      BY <1>0, <2>3 DEF SentInOrder
    <3>2. out'[c]["app"].type = "chat" => out'[c]["app"].msg = <<c, sent'[c]>>
      BY <1>0, <2>2, <2>3 DEF SentInOrder, n
    <3>3. ASSUME NEW y \in Range(queue'[c]), y.type = "chat"
          PROVE  y.msg[1] = c /\ y.msg[2] <= sent'[c] /\ (out'[c]["app"].type = "chat" => y.msg[2] < sent'[c])
      <4>1. CASE y = x
        <5>1. x.msg[1] = c /\ x.msg[2] = n /\ out'[c]["app"].type # "chat"
          BY <2>4, <2>a, <3>3, <4>1
        <5>2. n <= n
          BY <1>0
        <5>3. QED
          BY <2>2, <4>1, <5>1, <5>2
      <4>2. CASE y \in Range(q)
        BY <1>0, <2>2, <2>3, <3>3, <4>2 DEF SentInOrder, q, n
      <4>3. QED
        BY <2>6, <4>1, <4>2
    <3>4. QED
      BY <2>6, <3>1, <3>2, <3>3 DEF SentInOrder
  <2>8. ASSUME NEW m \in Messages, m[1] = c, Gone(m) PROVE Gone(m)'
    <3>1. m[2] <= sent'[c]
      BY <2>2, <2>8 DEF Gone, n
    <3>2. out'[c]["app"].type = "chat" => m[2] < sent'[c]
      BY <1>0, <2>2, <2>3, <2>8 DEF Gone, n
    <3>3. ASSUME NEW y \in Range(queue'[c]), y.type = "chat" PROVE m[2] < y.msg[2]
      <4>1. CASE y = x
        <5>1. x.type = "chat" /\ t = "app" /\ x.msg[2] = n
          BY <2>4, <3>3, <4>1
        <5>2. m[2] < n
          BY <2>8, <5>1 DEF Gone, x, n
        <5>3. QED
          BY <4>1, <5>1, <5>2
      <4>2. CASE y \in Range(q)
        BY <2>8, <3>3, <4>2 DEF Gone, q
      <4>3. QED
        BY <2>6, <4>1, <4>2
    <3>4. QED
      BY <2>8, <3>1, <3>2, <3>3 DEF Gone
  <2>9. QED
    BY <2>7, <2>8
<1>6. CASE Dequeues(c)
  <2>1. sent'[c] = sent[c] /\ out'[c] = out[c] /\ q # <<>> /\ queue'[c] = Tail(q)
    BY <1>6 DEF Dequeues
  <2>2. Range(Tail(q)) \subseteq Range(q)
    <3> HIDE DEF q
    <3>1. QED
      BY <1>0, <2>1, TailElements
  <2>3. InOrder(Tail(q), Later)
    <3>1. InOrder(q, Later)
      BY DEF SentInOrder
    <3> HIDE DEF q
    <3>2. QED
      BY <1>0, <2>1, <3>1, OrderKept
  <2>4. SentInOrder(c)'
    BY <2>1, <2>2, <2>3 DEF SentInOrder
  <2>5. QED
    BY <2>1, <2>2, <2>4 DEF Gone
<1>7. QED
  BY <1>3, <1>4, <1>5, <1>6, SenderStep

\* The first of the queue leaves before the rest.
LEMMA HeadGoes ==
  ASSUME IInv, [Next]_vars, NEW c \in Clients, SentInOrder(c), Dequeue(c), Head(queue[c]).type = "chat"
  PROVE  \A m \in Messages : m = Head(queue[c]).msg => Gone(m)' /\ m[1] = c
<1> DEFINE q == queue[c]
           h == Head(queue[c])
<1>1. q \in Seq(Stanzas) /\ q # <<>> /\ queue'[c] = Tail(q) /\ UNCHANGED <<sent, out>>
  BY DEF IInv, TypeOK, Dequeue, calls, thread
<1>2. InOrder(q, Later)
  BY DEF SentInOrder
<1> HIDE DEF q
<1>3. h \in Range(q) /\ h \in Stanzas /\ \A y \in Range(Tail(q)) : <<h, y>> \in Later
  BY <1>1, <1>2, TailElements, OrderKept DEF q
<1>a. \A y \in Range(Tail(q)) : y \in Stanzas /\ y \in Range(q)
  BY <1>1, TailElements, RangeOf
<1>4. /\ h.msg[1] = c /\ h.msg[2] <= sent[c]
      /\ out[c]["app"].type = "chat" => h.msg[2] < sent[c]
      /\ \A y \in Range(Tail(q)) : y.type = "chat" => y.msg[1] = c
  BY <1>3, <1>a DEF SentInOrder, q
<1>5. \A y \in Range(Tail(q)) : y.type = "chat" => h.msg[2] < y.msg[2]
  BY <1>3, <1>a, <1>4, LaterFacts
<1> HIDE DEF h
<1>6. ASSUME NEW m \in Messages, m = h.msg PROVE Gone(m)' /\ m[1] = c
  BY <1>1, <1>4, <1>5, <1>6 DEF Gone, q
<1>7. QED
  BY <1>6 DEF h

\* What a step does to the stanzas on their way to a client: the run loop takes the
\* first, or one is added, which was the first of a queue or is an error.
IsCarried(c, d, x) ==
  /\ Dequeue(c) /\ net'[d] = Append(net[d], x)
  /\ \/ x = Head(queue[c]) /\ x.to = d
     \/ x.type = "error" /\ Head(queue[c]).type = "chat" /\ d = c

\* What comes to a client was at the head of the queue of another.
LEMMA NetStep ==
  ASSUME IInv, [Next]_vars, NEW d \in Clients
  PROVE  net'[d] = net[d] \/ Receive(d) \/ \E c \in Clients : \E x \in Stanzas : IsCarried(c, d, x)
<1>0. net \in [Clients -> Seq(Stanzas)] /\ queue \in [Clients -> Seq(Stanzas)]
  BY DEF IInv, TypeOK
<1>1. ASSUME NEW c \in Clients, Flush(c)
      PROVE  net'[d] = net[d] \/ \E x \in Stanzas : IsCarried(c, d, x)
  <2> DEFINE h == Head(queue[c])
  <2>1. Dequeue(c) /\ net' = [net EXCEPT ![h.to] = Append(@, h)] /\ h \in Stanzas
    BY <1>0, <1>1 DEF Flush, Dequeue
  <2>2. h.to \in Clients
    BY <2>1, LaterFacts
  <2> HIDE DEF h
  <2>3. CASE h.to = d
    <3>1. net'[d] = Append(net[d], h)
      BY <1>0, <2>1, <2>3
    <3>2. QED
      BY <2>1, <2>3, <3>1 DEF IsCarried, h
  <2>4. CASE h.to # d
    BY <1>0, <2>1, <2>4
  <2>5. QED
    BY <2>3, <2>4
<1>2. ASSUME NEW c \in Clients, Bounce(c)
      PROVE  net'[d] = net[d] \/ \E x \in Stanzas : IsCarried(c, d, x)
  <2> DEFINE h == Head(queue[c])
             x == [h EXCEPT !.type = "error", !.to = c]
  <2>1. Dequeue(c) /\ net' = [net EXCEPT ![c] = Append(@, x)] /\ h \in Stanzas /\ h.type = "chat"
    BY <1>0, <1>2 DEF Bounce, Dequeue
  <2>2. x \in Stanzas /\ x.type = "error"
    BY <2>1 DEF Stanzas
  <2> HIDE DEF x
  <2>3. CASE c = d
    <3>1. net'[d] = Append(net[d], x)
      BY <1>0, <2>1, <2>3
    <3>2. QED
      BY <2>1, <2>2, <2>3, <3>1 DEF IsCarried
  <2>4. CASE c # d
    BY <1>0, <2>1, <2>4
  <2>5. QED
    BY <2>3, <2>4
<1>3. ASSUME NEW c \in Clients, Receive(c) PROVE net'[d] = net[d] \/ Receive(d)
  <2>1. net' = [net EXCEPT ![c] = Tail(@)]
    BY <1>3 DEF Receive
  <2>2. CASE c = d
    BY <1>3, <2>2
  <2>3. CASE c # d
    BY <1>0, <2>1, <2>3
  <2>4. QED
    BY <2>2, <2>3
<1>4. ASSUME NEW c \in Clients, Application(c) PROVE UNCHANGED net
  BY <1>4 DEF Application, SendMessage, SendMessageSeen, RegisterObserver, UnregisterObserver, ChangeObservers
<1>5. ASSUME NEW c \in Clients, NEW t \in Threads,
             EndSend(c, t) \/ Notify(c, t) \/ \E o \in Observers : CallbackLocks(c, t, o)
      PROVE  UNCHANGED net
  BY <1>5 DEF EndSend, Notify, CallbackLocks, Lock, Unlock, CallObserver, CallbackSeen
<1>6. UNCHANGED vars => UNCHANGED net
  BY DEF vars
<1>7. QED
  BY <1>1, <1>2, <1>3, <1>4, <1>5, <1>6 DEF Next

\* What is on its way to a client stays in order, and after what has arrived.
LEMMA CarriedStays ==
  ASSUME IInv, [Next]_vars, NEW d \in Clients, \A c \in Clients : SentInOrder(c), CarriedInOrder(d)
  PROVE  /\ CarriedInOrder(d)'
         /\ \A m \in Messages : Arrived(d, m) => Arrived(d, m)'
<1> DEFINE n == net[d]
<1>0. n \in Seq(Stanzas) /\ \A y \in Range(n) : y \in Stanzas
  <2>1. n \in Seq(Stanzas)
    BY DEF IInv, TypeOK
  <2>2. QED
    BY <2>1, RangeOf
<1>1. \A m \in Messages : Gone(m) => Gone(m)'
  BY SentStays, MessageTypes
<1>2. \A y \in Stanzas : y.msg \in Messages
  BY LaterFacts
<1>3. InOrder(n, Later) /\ \A y \in Range(n) : y.type = "chat" => Gone(y.msg)
  BY DEF CarriedInOrder
<1>4. CASE net'[d] = n
  <2>1. CarriedInOrder(d)'
    BY <1>0, <1>1, <1>2, <1>3, <1>4 DEF CarriedInOrder
  <2>2. QED
    BY <1>1, <1>4, <2>1 DEF Arrived
<1>5. CASE Receive(d)
  <2>1. n # <<>> /\ net'[d] = Tail(n)
    BY <1>5 DEF Receive, IInv, TypeOK
  <2> HIDE DEF n
  <2>2. Range(Tail(n)) \subseteq Range(n) /\ InOrder(Tail(n), Later)
    BY <1>0, <1>3, <2>1, TailElements, OrderKept
  <2>3. CarriedInOrder(d)'
    BY <1>0, <1>1, <1>2, <1>3, <2>1, <2>2 DEF CarriedInOrder
  <2>4. QED
    BY <1>1, <2>1, <2>2, <2>3 DEF Arrived, n
<1>6. ASSUME NEW c \in Clients, NEW x \in Stanzas, IsCarried(c, d, x)
      PROVE  /\ CarriedInOrder(d)'
             /\ \A m \in Messages : Arrived(d, m) => Arrived(d, m)'
  <2>1. Dequeue(c) /\ net'[d] = Append(n, x) /\ (x.type = "chat" => x = Head(queue[c]))
    BY <1>6 DEF IsCarried
  <2> HIDE DEF n
  <2>2. Range(Append(n, x)) = Range(n) \cup {x}
    BY <1>0, AppendElements
  <2>3. x.type = "chat" => Gone(x.msg)' /\ x.msg[1] = c /\ x \in Range(queue[c])
    <3>1. x.msg \in Messages
      BY <1>2
    <3>2. queue[c] \in Seq(Stanzas) /\ queue[c] # <<>>
      BY <2>1 DEF IInv, TypeOK, Dequeue
    <3>3. Head(queue[c]) \in Range(queue[c])
      BY <3>2, TailElements
    <3>4. QED
      BY <2>1, <3>1, <3>3, HeadGoes
  <2>4. \A m \in Messages : Gone(m) /\ x.type = "chat" /\ x.msg[1] = m[1] => m[2] < x.msg[2]
    BY <2>3 DEF Gone
  <2>5. \A y \in Range(n) : <<y, x>> \in Later
    BY <1>0, <1>2, <1>3, <2>4, LaterFacts
  <2>6. InOrder(Append(n, x), Later)
    BY <1>0, <1>3, <2>5, OrderKept
  <2>7. CarriedInOrder(d)'
    BY <1>0, <1>1, <1>2, <1>3, <2>1, <2>2, <2>3, <2>6 DEF CarriedInOrder
  <2>8. ASSUME NEW m \in Messages, Arrived(d, m) PROVE Arrived(d, m)'
    BY <1>1, <2>1, <2>2, <2>4, <2>8 DEF Arrived, n
  <2>9. QED
    BY <2>7, <2>8
<1>7. QED
  BY <1>4, <1>5, <1>6, NetStep

\* What a step does to what the observers of a client are told.
LEMMA ToldStep ==
  ASSUME IInv, [Next]_vars, NEW d \in Clients
  PROVE  \/ /\ told'[d] = told[d]
            /\ note'[d]["app"] = note[d]["app"] \/ note'[d]["app"].kind \in {"Sending", "none"}
            /\ note'[d]["loop"] = note[d]["loop"] \/ note'[d]["loop"].kind = "none"
            /\ \A o \in Observers : Telling(d, o)' => Telling(d, o)
         \/ Receive(d)
         \/ \E t \in Threads : \E o \in Observers : Tell(d, t, o) /\ UNCHANGED <<holder, note>>
<1> DEFINE Quiet == /\ told'[d] = told[d]
                    /\ note'[d]["app"] = note[d]["app"] \/ note'[d]["app"].kind \in {"Sending", "none"}
                    /\ note'[d]["loop"] = note[d]["loop"] \/ note'[d]["loop"].kind = "none"
                    /\ \A o \in Observers : Telling(d, o)' => Telling(d, o)
           Tells == \E t \in Threads : \E o \in Observers : Tell(d, t, o) /\ UNCHANGED <<holder, note>>
<1>0. /\ TypeOK /\ MutexHeld /\ "app" \in Threads /\ "loop" \in Threads
      /\ note \in [Clients -> [Threads -> Events \cup {NoEvent}]]
      /\ holder \in [Clients -> Threads \cup {"none"}] /\ left \in [Clients -> SUBSET Observers]
      /\ told \in [Clients -> [Observers -> Seq(Events)]]
  BY DEF IInv, TypeOK, Threads
<1>1. UNCHANGED <<told, note, holder, left>> => Quiet
  BY DEF Telling
<1>2. ASSUME NEW c \in Clients, NEW e \in Clients, SendMessage(c, e) PROVE Quiet
  <2> DEFINE ev == Event("Sending", <<c, sent[c] + 1>>)
  <2>1. note' = [note EXCEPT ![c]["app"] = ev] /\ UNCHANGED <<told, holder, left>> /\ ev.kind = "Sending"
    BY <1>2 DEF SendMessage, ToTell, lock, Event
  <2> HIDE DEF ev
  <2>2. note'[d]["loop"] = note[d]["loop"] /\ (note'[d]["app"] = note[d]["app"] \/ note'[d]["app"] = ev)
    BY <1>0, <2>1 DEF Threads
  <2>3. QED
    BY <2>1, <2>2 DEF Telling
<1>3. ASSUME NEW c \in Clients, NEW t \in Threads, Lock(c, t) PROVE Quiet
  <2>1. /\ holder[c] = "none" /\ holder' = [holder EXCEPT ![c] = t]
        /\ left' = [left EXCEPT ![c] = observers[c]] /\ UNCHANGED <<note, told>>
    BY <1>3 DEF Lock
  <2>2. d # c => holder'[d] = holder[d] /\ left'[d] = left[d]
    BY <1>0, <2>1
  <2>3. \A o \in Observers : Telling(d, o)' => Telling(d, o)
    BY <2>1, <2>2 DEF Telling
  <2>4. QED
    BY <2>1, <2>3
<1>4. ASSUME NEW c \in Clients, NEW t \in Threads, Unlock(c, t) PROVE Quiet
  <2>1. /\ holder[c] = t /\ holder' = [holder EXCEPT ![c] = "none"]
        /\ note' = [note EXCEPT ![c][t] = NoEvent] /\ UNCHANGED <<left, told>>
    BY <1>0, <1>4 DEF Unlock, ToTell, MutexHeld
  <2>2. NoEvent.kind = "none"
    BY DEF NoEvent, Event
  <2>3. CASE d = c /\ t = "loop"
    <3>1. note'[d]["loop"] = NoEvent /\ note'[d]["app"] = note[d]["app"]
      BY <1>0, <2>1, <2>3 DEF Threads
    <3>2. QED
      BY <2>1, <2>2, <3>1 DEF Telling
  <2>4. CASE d = c /\ t = "app"
    <3>1. note'[d]["app"] = NoEvent /\ note'[d]["loop"] = note[d]["loop"] /\ holder[d] # "loop"
      BY <1>0, <2>1, <2>4 DEF Threads
    <3>2. QED
      BY <2>1, <2>2, <3>1 DEF Telling
  <2>5. CASE d # c
    <3>1. note'[d] = note[d] /\ holder'[d] = holder[d]
      BY <1>0, <2>1, <2>5
    <3>2. QED
      BY <2>1, <3>1 DEF Telling
  <2>6. QED
    BY <2>3, <2>4, <2>5 DEF Threads
<1>5. ASSUME NEW c \in Clients, NEW t \in Threads, NEW o \in Observers,
             Tell(c, t, o), UNCHANGED <<holder, note>>
      PROVE  Quiet \/ Tells
  <2>1. CASE d = c
    BY <1>5, <2>1
  <2>2. CASE d # c
    <3>1. told'[d] = told[d] /\ left'[d] = left[d]
      BY <1>0, <1>5, <2>2 DEF Tell
    <3>2. QED
      BY <1>5, <3>1 DEF Telling
  <2>3. QED
    BY <2>1, <2>2
<1>6. ASSUME NEW c \in Clients, Receive(c) PROVE Quiet \/ Receive(d)
  <2>1. CASE d = c
    BY <1>6, <2>1
  <2>2. CASE d # c
    <3>1. note'[d] = note[d] /\ UNCHANGED <<told, holder, left>>
      BY <1>0, <1>6, <2>2 DEF Receive, ToTell, lock
    <3>2. QED
      BY <3>1 DEF Telling
  <2>3. QED
    BY <2>1, <2>2
<1>7. ASSUME NEW c \in Clients, NEW set, ChangeObservers(c, set) PROVE Quiet
  BY <1>1, <1>7 DEF ChangeObservers, thread
<1>8. ASSUME NEW c \in Clients, NEW m \in Messages, SendMessageSeen(c, m) PROVE Quiet
  BY <1>1, <1>8 DEF SendMessageSeen, lock
<1>9. ASSUME NEW c \in Clients, NEW t \in Threads, EndSend(c, t) PROVE Quiet
  BY <1>1, <1>9 DEF EndSend, lock
<1>10. ASSUME NEW c \in Clients, Flush(c) \/ Bounce(c) PROVE Quiet
  BY <1>1, <1>10 DEF Flush, Bounce, Dequeue, lock, thread
<1>11. UNCHANGED vars => Quiet
  BY <1>1 DEF vars, lock, thread
<1>12. ASSUME NEW c \in Clients, NEW t \in Threads, NEW o \in Observers,
              CallObserver(c, t, o) \/ CallbackSeen(c, t, o) \/ CallbackLocks(c, t, o)
       PROVE  Quiet \/ Tells
  BY <1>5, <1>12 DEF CallObserver, CallbackSeen, CallbackLocks, thread
<1> HIDE DEF Quiet, Tells
<1>13. Quiet \/ Receive(d) \/ Tells
  BY <1>2, <1>3, <1>4, <1>6, <1>7, <1>8, <1>9, <1>10, <1>11, <1>12 DEF Next, Application, Notify,
     RegisterObserver, UnregisterObserver
<1>14. QED
  BY <1>13 DEF Quiet, Tells

\* What the observers of a client are told stays in order.
LEMMA ToldStays ==
  ASSUME IInv, [Next]_vars, NEW d \in Clients, \A c \in Clients : SentInOrder(c), CarriedInOrder(d),
         ToldInOrder(d)
  PROVE  ToldInOrder(d)'
<1>0. /\ TypeOK /\ MutexHeld /\ "app" \in Threads /\ "loop" \in Threads
      /\ note \in [Clients -> [Threads -> Events \cup {NoEvent}]]
      /\ told \in [Clients -> [Observers -> Seq(Events)]] /\ left \in [Clients -> SUBSET Observers]
      /\ NoEvent.kind # "received"
  BY DEF IInv, TypeOK, Threads, NoEvent, Event
<1>1. \A m \in Messages : Arrived(d, m) => Arrived(d, m)'
  BY CarriedStays
<1>2. PICK event : event = note[d]["loop"]
  OBVIOUS
<1>3. /\ event.kind = "received" => event \in Events /\ event.msg \in Messages
      /\ \A o \in Observers : told[d][o] \in Seq(Events)
      /\ \A o \in Observers : \A e \in Range(told[d][o]) : e \in Events /\ e.msg \in Messages
  <2>1. event.kind = "received" => event \in Events
    BY <1>0, <1>2
  <2>2. \A o \in Observers : told[d][o] \in Seq(Events)
    BY <1>0
  <2>3. \A o \in Observers : \A e \in Range(told[d][o]) : e \in Events
    BY <2>2, RangeOf
  <2>4. QED
    BY <2>1, <2>2, <2>3, LaterFacts
<1>4. /\ event.kind = "received" => Arrived(d, event.msg)
      /\ \A o \in Observers :
           /\ InOrder(told[d][o], LaterEvents)
           /\ \A e \in Range(told[d][o]) : e.kind = "received" =>
                /\ Arrived(d, e.msg)
                /\ Telling(d, o) /\ e.msg[1] = event.msg[1] => e.msg[2] < event.msg[2]
      /\ note[d]["app"].kind # "received"
  BY <1>2 DEF ToldInOrder
<1>5. /\ event.kind = "received" => Arrived(d, event.msg)'
      /\ \A o \in Observers : \A e \in Range(told[d][o]) : e.kind = "received" => Arrived(d, e.msg)'
  BY <1>1, <1>3, <1>4
<1>6. CASE /\ told'[d] = told[d] /\ note'[d]["app"].kind # "received"
           /\ note'[d]["loop"] = note[d]["loop"] \/ note'[d]["loop"].kind = "none"
           /\ \A o \in Observers : Telling(d, o)' => Telling(d, o)
  <2>1. \A o \in Observers : Telling(d, o)' => note'[d]["loop"] = event
    BY <1>2, <1>6 DEF Telling
  <2>2. note'[d]["loop"].kind = "received" => note'[d]["loop"] = event
    BY <1>2, <1>6
  <2>3. QED
    BY <1>4, <1>5, <1>6, <2>1, <2>2 DEF ToldInOrder
<1>7. CASE Receive(d)
  <2>1. PICK h : h = Head(net[d])
    OBVIOUS
  <2>2. /\ net[d] \in Seq(Stanzas) /\ net[d] # <<>> /\ net'[d] = Tail(net[d]) /\ told' = told
        /\ note' = [note EXCEPT ![d]["loop"] = EventOf(h)]
    BY <1>7, <2>1 DEF Receive, ToTell, IInv, TypeOK
  <2>3. note'[d]["loop"] = EventOf(h) /\ note'[d]["app"] = note[d]["app"]
    BY <1>0, <2>2
  <2>4. h \in Stanzas /\ h \in Range(net[d]) /\ h.msg \in Messages
    BY <2>1, <2>2, TailElements, LaterFacts
  <2>5. EventOf(h).msg = h.msg /\ (EventOf(h).kind = "received" => h.type = "chat")
    BY <2>4, LaterFacts DEF EventOf, Event
  <2>6. InOrder(net[d], Later)
    BY DEF CarriedInOrder
  <2>7. \A y \in Range(Tail(net[d])) : <<h, y>> \in Later /\ y \in Stanzas
    <3>1. Tail(net[d]) \in Seq(Stanzas)
      BY <2>2, HeadTailProperties
    <3>2. QED
      BY <2>1, <2>2, <2>6, <3>1, OrderKept, RangeOf
  <2>8. h.type = "chat" => Arrived(d, h.msg)'
    <3>1. ASSUME h.type = "chat" PROVE Gone(h.msg)'
      BY <2>4, <3>1, SentStays, MessageTypes DEF CarriedInOrder
    <3>2. ASSUME h.type = "chat", NEW y \in Range(Tail(net[d])), y.type = "chat", y.msg[1] = h.msg[1]
          PROVE  h.msg[2] < y.msg[2]
      BY <2>4, <2>7, <3>2, LaterFacts
    <3>3. QED
      BY <2>2, <3>1, <3>2 DEF Arrived
  <2>9. \A o \in Observers : \A e \in Range(told[d][o]) :
          e.kind = "received" /\ h.type = "chat" /\ e.msg[1] = h.msg[1] => e.msg[2] < h.msg[2]
    BY <1>4, <2>4 DEF Arrived
  <2>10. QED
    BY <1>4, <1>5, <2>2, <2>3, <2>5, <2>8, <2>9 DEF ToldInOrder, Telling
<1>8. ASSUME NEW t \in Threads, NEW o \in Observers, Tell(d, t, o), UNCHANGED <<holder, note>>
      PROVE  ToldInOrder(d)'
  <2>1. PICK new : new = note[d][t]
    OBVIOUS
  <2>2. /\ holder[d] = t /\ o \in left[d] /\ left' = [left EXCEPT ![d] = @ \ {o}]
        /\ told' = [told EXCEPT ![d][o] = Append(@, new)]
    BY <1>0, <1>8, <2>1 DEF Tell, MutexHeld
  <2>3. /\ \A p \in Observers : told'[d][p] = IF p = o THEN Append(told[d][o], new) ELSE told[d][p]
        /\ left'[d] = left[d] \ {o}
    BY <1>0, <2>2
  <2>4. new \in Events
    BY <1>0, <2>1, <2>2 DEF IInv, Carries
  <2>5. /\ new.kind = "received" => t = "loop" /\ new = event /\ Telling(d, o)
        /\ \A p \in Observers : Telling(d, p)' => Telling(d, p)
        /\ new.kind = "received" => ~Telling(d, o)'
    <3>1. new.kind = "received" => t = "loop"
      BY <1>4, <2>1 DEF Threads
    <3>2. QED
      BY <1>2, <1>8, <2>1, <2>2, <2>3, <3>1 DEF Telling
  <2>6. Range(Append(told[d][o], new)) = Range(told[d][o]) \cup {new}
    BY <1>3, <2>4, AppendElements
  <2>7. InOrder(Append(told[d][o], new), LaterEvents)
    <3>1. \A e \in Range(told[d][o]) : <<e, new>> \in LaterEvents
      BY <1>3, <1>4, <2>4, <2>5, LaterFacts
    <3>2. InOrder(told[d][o], LaterEvents) /\ told[d][o] \in Seq(Events)
      BY <1>3, <1>4
    <3>3. QED
      BY <2>4, <3>1, <3>2, OrderKept
  <2>8. note' = note
    BY <1>8
  <2>9. ASSUME NEW p \in Observers
        PROVE  /\ InOrder(told'[d][p], LaterEvents)
               /\ \A e \in Range(told'[d][p]) : e.kind = "received" =>
                    /\ Arrived(d, e.msg)'
                    /\ Telling(d, p)' /\ e.msg[1] = event.msg[1] => e.msg[2] < event.msg[2]
    <3>1. CASE p = o
      <4>1. ASSUME NEW e \in Range(told[d][o]) \cup {new}, e.kind = "received"
            PROVE  /\ Arrived(d, e.msg)'
                   /\ Telling(d, p)' /\ e.msg[1] = event.msg[1] => e.msg[2] < event.msg[2]
        BY <1>4, <1>5, <2>5, <3>1, <4>1
      <4>2. QED
        BY <2>3, <2>6, <2>7, <3>1, <4>1
    <3>2. CASE p # o
      BY <1>4, <1>5, <2>3, <2>5, <3>2
    <3>3. QED
      BY <3>1, <3>2
  <2>10. QED
    BY <1>2, <1>4, <1>5, <2>8, <2>9 DEF ToldInOrder
<1>9. note'[d]["app"] = note[d]["app"] \/ note'[d]["app"].kind \in {"Sending", "none"}
        => note'[d]["app"].kind # "received"
  BY <1>4
<1>10. QED
  BY <1>6, <1>7, <1>8, <1>9, ToldStep

\* Nothing was sent at first.
LEMMA InitOrderInv == Init => OrderInv
<1> SUFFICES ASSUME Init PROVE OrderInv
  OBVIOUS
<1>1. Range(<<>>) = {} /\ \A R : InOrder(<<>>, R)
  <2>1. Len(<<>>) = 0
    OBVIOUS
  <2>2. \A i \in 1 .. 0 : FALSE
    OBVIOUS
  <2>3. QED
    BY <2>1, <2>2, OneElement DEF InOrder
<1>2. \A c \in Clients : /\ queue[c] = <<>> /\ net[c] = <<>> /\ \A o \in Observers : told[c][o] = <<>>
                         /\ \A t \in Threads : out[c][t] = NoStanza /\ note[c][t] = NoEvent
  BY DEF Init
<1>3. NoStanza.type = "none" /\ NoEvent.kind = "none" /\ "app" \in Threads /\ "loop" \in Threads
  BY DEF NoStanza, NoEvent, Event, Threads
<1>4. QED
  BY <1>1, <1>2, <1>3 DEF OrderInv, SentInOrder, CarriedInOrder, ToldInOrder

\* Every step keeps the messages in order.
LEMMA NextOrderInv == IInv /\ OrderInv /\ [Next]_vars => OrderInv'
<1>1. ASSUME IInv, OrderInv, [Next]_vars PROVE OrderInv'
  <2>1. \A c \in Clients : SentInOrder(c)'
    BY <1>1, SentStays DEF OrderInv
  <2>2. \A d \in Clients : CarriedInOrder(d)'
    BY <1>1, CarriedStays DEF OrderInv
  <2>3. \A d \in Clients : ToldInOrder(d)'
    BY <1>1, ToldStays DEF OrderInv
  <2>4. QED
    BY <2>1, <2>2, <2>3 DEF OrderInv
<1>2. QED
  BY <1>1

\* An observer is told of the messages of a sender in the order in which they were
\* sent, and once of each, also when the send queue has lost some.
THEOREM InOrderToObservers == Spec => []MessagesInOrder
<1>1. ASSUME IInv, OrderInv PROVE MessagesInOrder
  <2> SUFFICES ASSUME NEW c \in Clients, NEW o \in Observers,
                      NEW i \in DOMAIN told[c][o], NEW j \in DOMAIN told[c][o], i < j,
                      told[c][o][i].kind = "received", told[c][o][j].kind = "received",
                      told[c][o][i].msg[1] = told[c][o][j].msg[1]
               PROVE  told[c][o][i].msg[2] < told[c][o][j].msg[2]
    BY DEF MessagesInOrder
  <2>1. told[c][o] \in Seq(Events) /\ InOrder(told[c][o], LaterEvents)
    BY <1>1 DEF IInv, TypeOK, OrderInv, ToldInOrder
  <2>2. DOMAIN told[c][o] = 1 .. Len(told[c][o]) /\ told[c][o][i] \in Events /\ told[c][o][j] \in Events
    BY <2>1, LenProperties
  <2>3. <<told[c][o][i], told[c][o][j]>> \in LaterEvents
    BY <2>1, <2>2 DEF InOrder
  <2>4. QED
    BY <2>2, <2>3, LaterFacts
<1>2. QED
  BY <1>1, InitIInv, NextIInv, InitOrderInv, NextOrderInv, PTL DEF Spec

-----------------------------------------------------------------------------
(* A message is acknowledged before its sender can hear that it was seen.    *)

\* The receiver has confirmed the message of the other stanza, or event.
Confirms ==
  {p \in Stanzas \X Stanzas : p[1].type = "Delivered" /\ p[1].msg = p[2].msg}
HeardBefore ==
  {p \in Events \X Events : p[1] = Event("Delivered", p[2].msg)}

\* Two uses of the send queue of another client have overlapped.
Raced(c) == \E d \in Clients \ {c} : raced[d]

\* The sender has heard that the message was delivered, is about to, or will.
Heard(m) == Event("Delivered", m) \in Range(heard[m[1]])
Noted(m) == note[m[1]]["loop"] = Event("Delivered", m) /\ pc[m[1]]["loop"] = "lock"
Past(m) ==
  \/ Raced(m[1]) \/ Heard(m) \/ Noted(m)
  \/ \E x \in Range(net[m[1]]) : x.type = "Delivered" /\ x.msg = m

\* The receiver has acknowledged it, unless the acknowledgement may be lost.
Acked(d, m) == Past(m) \/ \E x \in Range(queue[d]) : x.type = "Delivered" /\ x.msg = m

\* A stanza client d sends, and one it is sent; no client sends itself anything.
Outgoing(d, x) ==
  /\ x.type \in {"Delivered", "Seen"} => x.to = x.msg[1] /\ x.msg[1] # d
  /\ x.type = "chat" => x.to # d /\ x.msg[1] = d
Incoming(d, x) ==
  /\ x.type \in {"Delivered", "Seen"} => x.msg[1] = d
  /\ x.type = "chat" => x.msg[1] # d

\* What was sent goes to the client it is for.
Addressed(d) ==
  /\ \A t \in Threads : Outgoing(d, out[d][t])
  /\ \A x \in Range(queue[d]) : Outgoing(d, x)
  /\ \A x \in Range(net[d]) : Incoming(d, x)
  /\ note[d]["loop"].kind = "received" => note[d]["loop"].msg[1] # d
  /\ note[d]["loop"].kind \in {"Delivered", "Seen"} => note[d]["loop"].msg[1] = d
  /\ note[d]["app"].kind \in {"Sending", "none"}
  /\ \A o \in Observers : \A e \in Range(told[d][o]) : e.kind = "received" => e.msg[1] # d

\* Seen, as a stanza or an event, that an acknowledgement has to come before.
NotPast       == {x \in Stanzas : x.type = "Seen" /\ ~Past(x.msg)}
NotHeard(c)   == {x \in Stanzas : x.type = "Seen" /\ ~(Raced(c) \/ Heard(x.msg) \/ Noted(x.msg))}
SeenEvents(c) == {e \in Events : e.kind = "Seen" /\ ~Raced(c)}

\* A client acknowledges a message before its application knows of it, and what it sends
\* after the acknowledgement follows it.
AckedFirst(d) ==
  /\ note[d]["loop"].kind = "received" =>
       \/ /\ pc[d]["loop"] = "send" /\ holder[d] # "loop"
          /\ out[d]["loop"].type = "Delivered" /\ out[d]["loop"].msg = note[d]["loop"].msg
       \/ Acked(d, note[d]["loop"].msg)
  /\ \A o \in Observers : \A e \in Range(told[d][o]) : e.kind = "received" => Acked(d, e.msg)
  /\ \A t \in Threads : out[d][t].type = "Seen" => Acked(d, out[d][t].msg)
  /\ Covered(queue[d], NotPast, Confirms)

\* The sender hears of the acknowledgement first, then of what followed it.
HeardFirst(c) ==
  /\ Covered(net[c], NotHeard(c), Confirms)
  /\ pc[c]["loop"] = "send" => note[c]["loop"].kind = "received"
  /\ note[c]["loop"].kind = "Seen" /\ pc[c]["loop"] = "lock" => Raced(c) \/ Heard(note[c]["loop"].msg)
  /\ Covered(heard[c], SeenEvents(c), HeardBefore)

AckInv == \A d \in Clients : Addressed(d) /\ AckedFirst(d) /\ HeardFirst(d)

\* What client e does in a step.
Acts(e) ==
  \/ Application(e)
  \/ \E t \in Threads :
       EndSend(e, t) \/ Notify(e, t) \/ \E o \in Observers : CallbackLocks(e, t, o)
  \/ Receive(e) \/ Flush(e) \/ Bounce(e)

\* A client changes the threads and the queue of no other.
LEMMA OthersStay ==
  ASSUME IInv, NEW e \in Clients, Acts(e), NEW c \in Clients, c # e
  PROVE  UNCHANGED <<pc[c], out[c], note[c], holder[c], heard[c], raced[c]>>
<1>0. TypeOK
  BY DEF IInv
<1>1. /\ pc' = [pc EXCEPT ![e] = pc'[e]] /\ out' = [out EXCEPT ![e] = out'[e]]
      /\ note' = [note EXCEPT ![e] = note'[e]] /\ holder' = [holder EXCEPT ![e] = holder'[e]]
      /\ heard' = [heard EXCEPT ![e] = heard'[e]] /\ raced' = [raced EXCEPT ![e] = raced'[e]]
      => UNCHANGED <<pc[c], out[c], note[c], holder[c], heard[c], raced[c]>>
  BY <1>0 DEF TypeOK
<1> DEFINE Quiet == UNCHANGED <<pc[c], out[c], note[c], holder[c], heard[c], raced[c]>>
<1> USE DEF EnterSend, Goto, ToTell, lock, thread, calls
<1>2. ASSUME NEW d \in Clients, SendMessage(e, d) PROVE Quiet
  BY <1>0, <1>2 DEF SendMessage, TypeOK
<1>3. ASSUME NEW m \in Messages, SendMessageSeen(e, m) PROVE Quiet
  BY <1>0, <1>3 DEF SendMessageSeen, TypeOK
<1>4. ASSUME NEW set, ChangeObservers(e, set) PROVE Quiet
  BY <1>0, <1>4 DEF ChangeObservers, TypeOK
<1>5. ASSUME NEW t \in Threads, EndSend(e, t) PROVE Quiet
  BY <1>0, <1>5 DEF EndSend, TypeOK
<1>6. ASSUME NEW t \in Threads, Lock(e, t) PROVE Quiet
  BY <1>0, <1>6 DEF Lock, TypeOK
<1>7. ASSUME NEW t \in Threads, Unlock(e, t) PROVE Quiet
  BY <1>0, <1>7 DEF Unlock, TypeOK
<1>8. ASSUME NEW t \in Threads, NEW o \in Observers, CallObserver(e, t, o) PROVE Quiet
  BY <1>0, <1>8 DEF CallObserver, TypeOK
<1>9. ASSUME NEW t \in Threads, NEW o \in Observers, CallbackSeen(e, t, o) PROVE Quiet
  BY <1>0, <1>9 DEF CallbackSeen, TypeOK
<1>10. ASSUME NEW t \in Threads, NEW o \in Observers, CallbackLocks(e, t, o) PROVE Quiet
  BY <1>0, <1>10 DEF CallbackLocks, TypeOK
<1>11. ASSUME Receive(e) PROVE Quiet
  BY <1>0, <1>11 DEF Receive, TypeOK
<1>12. ASSUME Flush(e) \/ Bounce(e) PROVE Quiet
  BY <1>0, <1>12 DEF Flush, Bounce, Dequeue, TypeOK
<1> HIDE DEF Quiet
<1>13. Quiet
  BY <1>2, <1>3, <1>4, <1>5, <1>6, <1>7, <1>8, <1>9, <1>10, <1>11, <1>12
     DEF Acts, Application, Notify, RegisterObserver, UnregisterObserver
<1>14. QED
  BY <1>13 DEF Quiet

\* What a step does to the run loop of a client.
LoopStays(c) ==
  /\ UNCHANGED <<pc[c]["loop"], note[c]["loop"], out[c]["loop"]>>
  /\ holder'[c] = "loop" => holder[c] = "loop"

LoopMoves(c) ==
  \/ EndSend(c, "loop") \/ Lock(c, "loop") \/ Unlock(c, "loop") \/ Receive(c)
  \/ \E o \in Observers : CallbackSeen(c, "loop", o) \/ CallbackLocks(c, "loop", o)

\* A step is one of the loop of a client, or leaves that loop where it is.
LEMMA LoopStep ==
  ASSUME IInv, [Next]_vars, NEW c \in Clients
  PROVE  LoopStays(c) \/ LoopMoves(c)
<1>0. TypeOK /\ "app" \in Threads /\ "loop" \in Threads
  BY DEF IInv, Threads
<1>1. CASE UNCHANGED vars
  BY <1>1 DEF vars, thread, lock, LoopStays
<1>2. ASSUME NEW e \in Clients, Acts(e), c # e PROVE LoopStays(c)
  BY <1>2, OthersStay DEF LoopStays
<1>3. ASSUME Acts(c) PROVE LoopStays(c) \/ LoopMoves(c)
  <2> USE DEF EnterSend, Goto, ToTell, lock, thread, calls
  <2>1. ASSUME NEW d \in Clients, SendMessage(c, d) PROVE LoopStays(c)
    BY <1>0, <2>1 DEF SendMessage, TypeOK, LoopStays, Threads
  <2>2. ASSUME NEW m \in Messages, SendMessageSeen(c, m) PROVE LoopStays(c)
    BY <1>0, <2>2 DEF SendMessageSeen, TypeOK, LoopStays, Threads
  <2>3. ASSUME NEW set, ChangeObservers(c, set) PROVE LoopStays(c)
    BY <2>3 DEF ChangeObservers, LoopStays
  <2>4. ASSUME EndSend(c, "app") PROVE LoopStays(c)
    BY <1>0, <2>4 DEF EndSend, TypeOK, LoopStays, Threads
  <2>5. ASSUME Lock(c, "app") PROVE LoopStays(c)
    BY <1>0, <2>5 DEF Lock, TypeOK, LoopStays, Threads
  <2>6. ASSUME Unlock(c, "app") PROVE LoopStays(c)
    BY <1>0, <2>6 DEF Unlock, TypeOK, LoopStays, Threads
  <2>7. ASSUME NEW t \in Threads, NEW o \in Observers, CallObserver(c, t, o) PROVE LoopStays(c)
    BY <2>7 DEF CallObserver, LoopStays
  <2>8. ASSUME NEW o \in Observers, CallbackSeen(c, "app", o) \/ CallbackLocks(c, "app", o) PROVE LoopStays(c)
    BY <1>0, <2>8 DEF CallbackSeen, CallbackLocks, TypeOK, LoopStays, Threads
  <2>9. ASSUME Flush(c) \/ Bounce(c) PROVE LoopStays(c)
    BY <2>9 DEF Flush, Bounce, Dequeue, LoopStays
  <2>10. \A t \in Threads : t = "app" \/ t = "loop"
    BY DEF Threads
  <2>11. QED
    BY <1>3, <2>1, <2>2, <2>3, <2>4, <2>5, <2>6, <2>7, <2>8, <2>9, <2>10
       DEF Acts, Application, Notify, RegisterObserver, UnregisterObserver, LoopMoves
<1>4. QED
  BY <1>1, <1>2, <1>3 DEF Next, Acts

\* What a step does to the events of a client: one is added by a thread that locks the mutex.
LEMMA HeardStep ==
  ASSUME IInv, [Next]_vars, NEW c \in Clients
  PROVE  \/ heard'[c] = heard[c]
         \/ \E t \in Threads : Lock(c, t) /\ heard'[c] = Append(heard[c], note[c][t])
<1>0. heard \in [Clients -> Seq(Events)]
  BY DEF IInv, TypeOK
<1>1. CASE UNCHANGED vars
  BY <1>1 DEF vars
<1>2. ASSUME NEW e \in Clients, Acts(e), c # e PROVE heard'[c] = heard[c]
  BY <1>2, OthersStay
<1>3. ASSUME NEW t \in Threads, Lock(c, t) PROVE heard'[c] = Append(heard[c], note[c][t])
  BY <1>0, <1>3 DEF Lock
<1>4. Acts(c) => UNCHANGED heard \/ \E t \in Threads : Lock(c, t)
  BY DEF Acts, Application, Notify, RegisterObserver, UnregisterObserver, SendMessage, SendMessageSeen,
     ChangeObservers, EndSend, Unlock, CallObserver, CallbackSeen, CallbackLocks, Receive, Flush, Bounce, Dequeue
<1>5. QED
  BY <1>1, <1>2, <1>3, <1>4 DEF Next, Acts

\* Once two uses of a queue have overlapped, they have.
LEMMA RacedStays ==
  ASSUME IInv, [Next]_vars, NEW c \in Clients, raced[c] PROVE raced'[c]
<1>0. raced \in [Clients -> BOOLEAN]
  BY DEF IInv, TypeOK
<1>1. \A e \in Clients : \A t \in Threads : \A x : EnterSend(e, t, x) => raced'[c]
  BY <1>0 DEF EnterSend
<1>2. \A e \in Clients : Dequeue(e) => raced'[c]
  BY <1>0 DEF Dequeue
<1>3. "app" \in Threads /\ "loop" \in Threads
  BY DEF Threads
<1>4. UNCHANGED raced => raced'[c]
  OBVIOUS
<1>5. ASSUME NEW e \in Clients, Application(e) PROVE raced'[c]
  BY <1>1, <1>3, <1>4, <1>5 DEF Application, RegisterObserver, UnregisterObserver, SendMessage,
     SendMessageSeen, ChangeObservers
<1>6. ASSUME NEW e \in Clients, NEW t \in Threads,
             EndSend(e, t) \/ Notify(e, t) \/ \E o \in Observers : CallbackLocks(e, t, o)
      PROVE  raced'[c]
  BY <1>1, <1>4, <1>6 DEF Notify, EndSend, Lock, Unlock, CallObserver, CallbackSeen, CallbackLocks
<1>7. ASSUME NEW e \in Clients, Receive(e) PROVE raced'[c]
  BY <1>1, <1>3, <1>4, <1>7 DEF Receive
<1>8. ASSUME NEW e \in Clients, Flush(e) \/ Bounce(e) PROVE raced'[c]
  BY <1>2, <1>8 DEF Flush, Bounce
<1>9. UNCHANGED vars => raced'[c]
  BY <1>4 DEF vars
<1>10. QED
  BY <1>5, <1>6, <1>7, <1>8, <1>9 DEF Next

\* What a thread of a client sends: a message, the acknowledgement of one that has
\* come, or Seen for one that an observer has been told of, or is being told of.
LEMMA StatusStep ==
  ASSUME IInv, [Next]_vars, NEW c \in Clients, NEW t \in Threads
  PROVE  \/ out'[c][t] = out[c][t]
         \/ out'[c][t] = NoStanza
         \/ \E d \in Clients \ {c} : \E n \in Nat : out'[c][t] = Chat(d, <<c, n>>)
         \/ /\ Receive(c) /\ Head(net[c]).type = "chat"
            /\ out'[c][t] = Status(Head(net[c]).msg, "Delivered")
         \/ \E m \in Messages :
              /\ out'[c][t] = Status(m, "Seen")
              /\ Knows(c, m) \/ (holder[c] = t /\ note[c][t].kind = "received" /\ note[c][t].msg = m)
<1>0. TypeOK /\ "app" \in Threads /\ "loop" \in Threads /\ out \in [Clients -> [Threads -> Stanzas \cup {NoStanza}]]
  BY DEF IInv, TypeOK, Threads
<1> DEFINE Goal == \/ out'[c][t] = out[c][t]
                   \/ out'[c][t] = NoStanza
                   \/ \E d \in Clients \ {c} : \E n \in Nat : out'[c][t] = Chat(d, <<c, n>>)
                   \/ /\ Receive(c) /\ Head(net[c]).type = "chat"
                      /\ out'[c][t] = Status(Head(net[c]).msg, "Delivered")
                   \/ \E m \in Messages :
                        /\ out'[c][t] = Status(m, "Seen")
                        /\ Knows(c, m) \/ (holder[c] = t /\ note[c][t].kind = "received" /\ note[c][t].msg = m)
<1>1. UNCHANGED out => Goal
  OBVIOUS
<1>2. ASSUME NEW u \in Threads, NEW x, EnterSend(c, u, x)
      PROVE  out'[c][t] = out[c][t] \/ (u = t /\ out'[c][t] = x)
  BY <1>0, <1>2 DEF EnterSend
<1>3. ASSUME NEW e \in Clients, Acts(e), c # e PROVE Goal
  BY <1>3, OthersStay
<1>4. ASSUME NEW d \in Clients \ {c}, SendMessage(c, d) PROVE Goal
  <2>1. EnterSend(c, "app", Chat(d, <<c, sent[c] + 1>>)) /\ sent[c] + 1 \in Nat
    BY <1>0, <1>4 DEF SendMessage, TypeOK
  <2>2. QED
    BY <1>0, <1>2, <2>1
<1>5. ASSUME NEW m \in Messages, SendMessageSeen(c, m) PROVE Goal
  <2>1. EnterSend(c, "app", Status(m, "Seen")) /\ Knows(c, m)
    BY <1>5 DEF SendMessageSeen
  <2>2. QED
    BY <1>0, <1>2, <2>1
<1>6. ASSUME NEW u \in Threads, EndSend(c, u) PROVE Goal
  BY <1>0, <1>6 DEF EndSend
<1>7. ASSUME NEW u \in Threads, NEW o \in Observers, CallbackSeen(c, u, o) PROVE Goal
  <2>1. /\ EnterSend(c, u, Status(note[c][u].msg, "Seen")) /\ pc[c][u] = "tell" /\ note[c][u].kind = "received"
    BY <1>7 DEF CallbackSeen, Tell
  <2>2. holder[c] = u
    BY <1>0, <2>1 DEF IInv, MutexHeld
  <2>3. note[c][u] \in Events
    BY <1>0, <2>2 DEF IInv, Carries
  <2>4. note[c][u].msg \in Messages
    BY <2>3, LaterFacts
  <2>5. QED
    BY <1>2, <2>1, <2>2, <2>4
<1>8. ASSUME Receive(c) PROVE Goal
  <2>1. UNCHANGED out \/ (Head(net[c]).type = "chat" /\ EnterSend(c, "loop", Status(Head(net[c]).msg, "Delivered")))
    BY <1>8 DEF Receive
  <2>2. QED
    BY <1>0, <1>2, <1>8, <2>1
<1>9. ASSUME NEW u \in Threads, NEW o \in Observers, CallObserver(c, u, o) \/ CallbackLocks(c, u, o) PROVE Goal
  BY <1>1, <1>9 DEF CallObserver, CallbackLocks, thread
<1>10. ASSUME NEW u \in Threads, Lock(c, u) \/ Unlock(c, u) PROVE Goal
  BY <1>1, <1>10 DEF Lock, Unlock
<1>11. ASSUME NEW set, ChangeObservers(c, set) PROVE Goal
  BY <1>1, <1>11 DEF ChangeObservers, thread
<1>12. Flush(c) \/ Bounce(c) => Goal
  BY <1>1 DEF Flush, Bounce, Dequeue, thread
<1>13. UNCHANGED vars => Goal
  BY <1>1 DEF vars, thread
<1> HIDE DEF Goal
<1>14. Acts(c) => Goal
  BY <1>4, <1>5, <1>6, <1>7, <1>8, <1>9, <1>10, <1>11, <1>12 DEF Acts, Application, Notify,
     RegisterObserver, UnregisterObserver
<1>15. Goal
  BY <1>3, <1>13, <1>14 DEF Next, Acts
<1>16. QED
  BY <1>15 DEF Goal

\* What the sender of a message has heard of it, or is about to, it keeps.
LEMMA HeardStays ==
  ASSUME IInv, [Next]_vars
  PROVE  /\ \A c \in Clients : Raced(c) => Raced(c)'
         /\ \A m \in Messages : Heard(m) => Heard(m)'
         /\ \A m \in Messages : Heard(m) \/ Noted(m) => Heard(m)' \/ Noted(m)'
<1>1. \A c \in Clients : Raced(c) => Raced(c)'
  BY RacedStays DEF Raced
<1>2. ASSUME NEW m \in Messages PROVE m[1] \in Clients /\ heard[m[1]] \in Seq(Events)
  <2>1. m[1] \in Clients
    BY MessageTypes
  <2>2. QED
    BY <2>1 DEF IInv, TypeOK
<1>3. ASSUME NEW c \in Clients, NEW t \in Threads, Lock(c, t)
      PROVE  /\ heard[c] \in Seq(Events) /\ note[c][t] \in Events
             /\ Range(Append(heard[c], note[c][t])) = Range(heard[c]) \cup {note[c][t]}
             /\ heard'[c] = Append(heard[c], note[c][t])
  <2>1. heard[c] \in Seq(Events) /\ note[c][t] \in Events
    BY <1>3 DEF IInv, TypeOK, Carries, Lock
  <2>2. Range(Append(heard[c], note[c][t])) = Range(heard[c]) \cup {note[c][t]}
    BY <2>1, AppendElements
  <2>3. heard'[c] = Append(heard[c], note[c][t])
    BY <1>3 DEF Lock, IInv, TypeOK
  <2>4. QED
    BY <2>1, <2>2, <2>3
<1>4. ASSUME NEW m \in Messages, Heard(m) PROVE Heard(m)'
  BY <1>2, <1>3, <1>4, HeardStep DEF Heard
<1>5. ASSUME NEW m \in Messages, Noted(m) PROVE Heard(m)' \/ Noted(m)'
  <2> DEFINE c == m[1]
  <2>0. c \in Clients /\ pc[c]["loop"] = "lock" /\ note[c]["loop"] = Event("Delivered", m) /\ "loop" \in Threads
    BY <1>2, <1>5 DEF Noted, Threads
  <2>1. LoopStays(c) => Noted(m)'
    BY <2>0 DEF LoopStays, Noted
  <2>2. ASSUME Lock(c, "loop") PROVE Heard(m)'
    BY <1>3, <2>0, <2>2 DEF Heard
  <2>3. LoopMoves(c) => Lock(c, "loop")
    BY <2>0 DEF LoopMoves, EndSend, Unlock, Receive, CallbackSeen, CallbackLocks, Tell
  <2>4. QED
    BY <2>0, <2>1, <2>2, <2>3, LoopStep
<1>6. QED
  BY <1>1, <1>4, <1>5

\* The run loop that takes Delivered from the network is about to tell it.
LEMMA DeliveredIsNoted ==
  ASSUME IInv, NEW c \in Clients, Receive(c), NEW m \in Messages, m[1] = c,
         Head(net[c]).type = "Delivered", Head(net[c]).msg = m
  PROVE  Noted(m)'
<1>1. EventOf(Head(net[c])) = Event("Delivered", m)
  BY DEF EventOf
<1>2. /\ note' = [note EXCEPT ![c]["loop"] = EventOf(Head(net[c]))] /\ pc' = [pc EXCEPT ![c]["loop"] = "lock"]
  BY DEF Receive, ToTell, Goto
<1>3. note'[c]["loop"] = Event("Delivered", m) /\ pc'[c]["loop"] = "lock"
  BY <1>1, <1>2 DEF IInv, TypeOK, Threads
<1>4. QED
  BY <1>3 DEF Noted

\* What is past stays past.
LEMMA PastStays ==
  ASSUME IInv, [Next]_vars
  PROVE  \A m \in Messages : Past(m) => Past(m)'
<1> SUFFICES ASSUME NEW m \in Messages, Past(m) PROVE Past(m)'
  OBVIOUS
<1> DEFINE c == m[1]
           n == net[c]
<1>0. c \in Clients /\ n \in Seq(Stanzas)
  <2>1. c \in Clients
    BY MessageTypes
  <2>2. QED
    BY <2>1 DEF IInv, TypeOK
<1>1. Raced(c) \/ Heard(m) \/ Noted(m) => Past(m)'
  BY <1>0, HeardStays DEF Past
<1>2. ASSUME NEW x \in Range(n), x.type = "Delivered", x.msg = m PROVE Past(m)'
  <2>1. CASE net'[c] = n
    BY <1>2, <2>1 DEF Past
  <2>2. CASE Receive(c)
    <3>1. n # <<>> /\ net'[c] = Tail(n)
      BY <1>0, <2>2 DEF Receive, IInv, TypeOK
    <3>2. Range(n) = {Head(n)} \cup Range(Tail(n))
      <4> HIDE DEF n
      <4>1. QED
        BY <1>0, <3>1, TailElements
    <3>3. CASE x \in Range(Tail(n))
      BY <1>2, <3>1, <3>3 DEF Past
    <3>4. CASE x = Head(n)
      <4>1. Noted(m)'
        BY <1>0, <1>2, <2>2, <3>4, DeliveredIsNoted
      <4>2. QED
        BY <4>1 DEF Past
    <3>5. QED
      BY <1>2, <3>2, <3>3, <3>4
  <2>3. ASSUME NEW e \in Clients, NEW y \in Stanzas, IsCarried(e, c, y) PROVE Past(m)'
    <3>1. net'[c] = Append(n, y)
      BY <2>3 DEF IsCarried
    <3>2. x \in Range(Append(n, y))
      <4> HIDE DEF n
      <4>1. QED
        BY <1>0, <1>2, AppendElements
    <3>3. QED
      BY <1>2, <3>1, <3>2 DEF Past
  <2>4. QED
    BY <1>0, <2>1, <2>2, <2>3, NetStep
<1>3. QED
  BY <1>1, <1>2 DEF Past

\* An acknowledgement that is written out is past.
LEMMA WrittenIsPast ==
  ASSUME IInv, NEW d \in Clients, Dequeues(d), NEW m \in Messages,
         Head(queue[d]).type = "Delivered", Head(queue[d]).msg = m, Head(queue[d]).to = m[1]
  PROVE  Past(m)'
<1> DEFINE h == Head(queue[d])
<1>1. Flush(d)
  BY DEF Dequeues, Bounce
<1>2. net' = [net EXCEPT ![m[1]] = Append(@, h)]
  BY <1>1 DEF Flush
<1>3. m[1] \in Clients
  BY MessageTypes
<1>4. net[m[1]] \in Seq(Stanzas) /\ queue[d] \in Seq(Stanzas) /\ queue[d] # <<>> /\ net \in [Clients -> Seq(Stanzas)]
  BY <1>3 DEF IInv, TypeOK, Dequeues
<1>5. h \in Stanzas
  BY <1>4, TailElements
<1> HIDE DEF h
<1>6. net'[m[1]] = Append(net[m[1]], h)
  BY <1>2, <1>3, <1>4
<1>7. h \in Range(net'[m[1]])
  BY <1>4, <1>5, <1>6, AppendElements
<1>8. h.type = "Delivered" /\ h.msg = m
  BY DEF h
<1>9. QED
  BY <1>7, <1>8 DEF Past

\* What is acknowledged stays acknowledged.
LEMMA AckedStays ==
  ASSUME IInv, [Next]_vars, NEW d \in Clients, Addressed(d), NEW m \in Messages, m[1] # d, Acked(d, m)
  PROVE  Acked(d, m)'
<1> DEFINE q == queue[d]
<1>0. q \in Seq(Stanzas) /\ m[1] \in Clients
  BY MessageTypes DEF IInv, TypeOK
<1>1. CASE Past(m)
  BY <1>1, PastStays DEF Acked
<1>2. CASE raced[d]
  <2>1. Raced(m[1])
    BY <1>0, <1>2 DEF Raced
  <2>2. QED
    BY <2>1, PastStays DEF Acked, Past
<1>3. ASSUME NEW x \in Range(q), x.type = "Delivered", x.msg = m, ~raced[d] PROVE Acked(d, m)'
  <2>1. CASE queue'[d] = q
    BY <1>3, <2>1 DEF Acked
  <2>2. CASE Queues(d)
    <3>1. PICK y \in Stanzas : queue'[d] = Append(q, y)
      BY <1>3, <2>2 DEF Queues
    <3>2. x \in Range(Append(q, y))
      <4> HIDE DEF q
      <4>1. QED
        BY <1>0, <1>3, <3>1, AppendElements
    <3>3. QED
      BY <1>3, <3>1, <3>2 DEF Acked
  <2>3. CASE Dequeues(d)
    <3>1. q # <<>> /\ queue'[d] = Tail(q)
      BY <2>3 DEF Dequeues
    <3>2. Range(q) = {Head(q)} \cup Range(Tail(q))
      <4> HIDE DEF q
      <4>1. QED
        BY <1>0, <3>1, TailElements
    <3>3. CASE x \in Range(Tail(q))
      BY <1>3, <3>1, <3>3 DEF Acked
    <3>4. CASE x = Head(q)
      <4>1. x.to = m[1]
        BY <1>3 DEF Addressed, Outgoing
      <4>2. Past(m)'
        BY <1>3, <2>3, <3>4, <4>1, WrittenIsPast
      <4>3. QED
        BY <4>2 DEF Acked
    <3>5. QED
      BY <1>3, <3>2, <3>3, <3>4
  <2>4. QED
    BY <2>1, <2>2, <2>3, SenderStep DEF SendsMessage, SendsStatus
<1>4. QED
  BY <1>1, <1>2, <1>3 DEF Acked

\* What a client sends is addressed to the one it is for.
LEMMA SendingStays ==
  ASSUME IInv, [Next]_vars, NEW d \in Clients, Addressed(d)
  PROVE  /\ \A t \in Threads : Outgoing(d, out'[d][t])
         /\ \A x \in Range(queue'[d]) : Outgoing(d, x)
<1>0. /\ "app" \in Threads /\ "loop" \in Threads /\ \A t \in Threads : t = "app" \/ t = "loop"
      /\ TypeOK
  BY DEF Threads, IInv
<1>1. ASSUME NEW t \in Threads PROVE Outgoing(d, out'[d][t])
  <2>1. CASE out'[d][t] = out[d][t]
    BY <2>1 DEF Addressed
  <2>2. CASE out'[d][t] = NoStanza
    <3>1. NoStanza.type = "none"
      BY DEF NoStanza
    <3>2. QED
      BY <2>2, <3>1 DEF Outgoing
  <2>3. ASSUME NEW e \in Clients \ {d}, NEW n \in Nat, out'[d][t] = Chat(e, <<d, n>>)
        PROVE  Outgoing(d, out'[d][t])
    BY <2>3 DEF Chat, Outgoing
  <2>4. CASE Receive(d) /\ Head(net[d]).type = "chat" /\ out'[d][t] = Status(Head(net[d]).msg, "Delivered")
    <3>1. net[d] \in Seq(Stanzas) /\ net[d] # <<>>
      BY <1>0, <2>4 DEF TypeOK, Receive
    <3>2. Head(net[d]) \in Range(net[d])
      BY <3>1, TailElements
    <3>3. Head(net[d]).msg[1] # d
      BY <2>4, <3>2 DEF Addressed, Incoming
    <3>4. QED
      BY <2>4, <3>3 DEF Status, Outgoing
  <2>5. ASSUME NEW m \in Messages, out'[d][t] = Status(m, "Seen"),
               Knows(d, m) \/ (holder[d] = t /\ note[d][t].kind = "received" /\ note[d][t].msg = m)
        PROVE  Outgoing(d, out'[d][t])
    <3>1. CASE Knows(d, m)
      <4>1. m[1] # d
        BY <3>1 DEF Knows, Addressed, Event
      <4>2. QED
        BY <2>5, <4>1 DEF Status, Outgoing
    <3>2. CASE note[d][t].kind = "received" /\ note[d][t].msg = m
      <4>1. t = "loop"
        BY <1>0, <3>2 DEF Addressed
      <4>2. m[1] # d
        BY <3>2, <4>1 DEF Addressed
      <4>3. QED
        BY <2>5, <4>2 DEF Status, Outgoing
    <3>3. QED
      BY <2>5, <3>1, <3>2
  <2>6. \/ out'[d][t] = out[d][t]
        \/ out'[d][t] = NoStanza
        \/ \E e \in Clients \ {d} : \E n \in Nat : out'[d][t] = Chat(e, <<d, n>>)
        \/ /\ Receive(d) /\ Head(net[d]).type = "chat"
           /\ out'[d][t] = Status(Head(net[d]).msg, "Delivered")
        \/ \E m \in Messages :
             /\ out'[d][t] = Status(m, "Seen")
             /\ Knows(d, m) \/ (holder[d] = t /\ note[d][t].kind = "received" /\ note[d][t].msg = m)
    BY StatusStep
  <2>7. QED
    BY <2>1, <2>2, <2>3, <2>4, <2>5, <2>6
<1>2. ASSUME NEW x \in Range(queue'[d]) PROVE Outgoing(d, x)
  <2> DEFINE q == queue[d]
  <2>1. q \in Seq(Stanzas) /\ \A y \in Range(q) : Outgoing(d, y)
    BY <1>0 DEF TypeOK, Addressed
  <2>2. CASE queue'[d] = q
    BY <1>2, <2>1, <2>2
  <2>3. CASE Queues(d)
    <3>1. PICK t \in Threads : /\ out[d][t] \in Stanzas
                               /\ \/ queue'[d] = Append(q, out[d][t])
                                  \/ queue'[d] = <<out[d][t]>>
                                  \/ queue'[d] = q
      BY <2>3 DEF Queues
    <3>2. Outgoing(d, out[d][t])
      BY DEF Addressed
    <3> HIDE DEF q
    <3>3. Range(Append(q, out[d][t])) = Range(q) \cup {out[d][t]} /\ Range(<<out[d][t]>>) = {out[d][t]}
      BY <2>1, <3>1, AppendElements, OneElement
    <3>4. x \in Range(q) \cup {out[d][t]}
      BY <1>2, <3>1, <3>3
    <3>5. QED
      BY <2>1, <3>2, <3>4
  <2>4. CASE Dequeues(d)
    <3>1. q # <<>> /\ queue'[d] = Tail(q)
      BY <2>4 DEF Dequeues
    <3> HIDE DEF q
    <3>2. QED
      BY <1>2, <2>1, <3>1, TailElements
  <2>5. QED
    BY <2>2, <2>3, <2>4, SenderStep DEF SendsMessage, SendsStatus
<1>3. QED
  BY <1>1, <1>2

\* What is sent to a client, and what it tells, is for it.
LEMMA AddressedStays ==
  ASSUME IInv, [Next]_vars, NEW d \in Clients, \A c \in Clients : Addressed(c)
  PROVE  Addressed(d)'
<1> DEFINE n == net[d]
<1>0. TypeOK /\ n \in Seq(Stanzas) /\ "app" \in Threads /\ "loop" \in Threads
  BY DEF IInv, TypeOK, Threads
<1>1. /\ \A t \in Threads : Outgoing(d, out'[d][t])
      /\ \A x \in Range(queue'[d]) : Outgoing(d, x)
  BY SendingStays
<1>2. ASSUME NEW x \in Range(net'[d]) PROVE Incoming(d, x)
  <2>1. CASE net'[d] = n
    BY <1>2, <2>1 DEF Addressed
  <2>2. CASE Receive(d)
    <3>1. n # <<>> /\ net'[d] = Tail(n)
      BY <1>0, <2>2 DEF Receive, TypeOK
    <3>2. \A y \in Range(n) : Incoming(d, y)
      BY DEF Addressed
    <3> HIDE DEF n
    <3>3. QED
      BY <1>0, <1>2, <3>1, <3>2, TailElements
  <2>3. ASSUME NEW c \in Clients, NEW y \in Stanzas, IsCarried(c, d, y) PROVE Incoming(d, x)
    <3>1. net'[d] = Append(n, y)
      BY <2>3 DEF IsCarried
    <3>2. \A z \in Range(n) : Incoming(d, z)
      BY DEF Addressed
    <3>3. x \in Range(n) \cup {y}
      <4> HIDE DEF n
      <4>1. QED
        BY <1>0, <1>2, <3>1, AppendElements
    <3>4. queue[c] \in Seq(Stanzas) /\ queue[c] # <<>>
      BY <1>0, <2>3 DEF TypeOK, IsCarried, Dequeue
    <3>5. Head(queue[c]) \in Range(queue[c])
      BY <3>4, TailElements
    <3>6. Outgoing(c, Head(queue[c]))
      BY <3>5 DEF Addressed
    <3>7. Incoming(d, y)
      BY <2>3, <3>6 DEF IsCarried, Outgoing, Incoming
    <3>8. QED
      BY <3>2, <3>3, <3>7
  <2>4. QED
    BY <2>1, <2>2, <2>3, NetStep
<1>3. /\ note'[d]["loop"].kind = "received" => note'[d]["loop"].msg[1] # d
      /\ note'[d]["loop"].kind \in {"Delivered", "Seen"} => note'[d]["loop"].msg[1] = d
      /\ note'[d]["app"].kind \in {"Sending", "none"}
  <2>1. CASE Receive(d)
    <3>1. n # <<>>
      BY <2>1 DEF Receive
    <3>2. note'[d]["loop"] = EventOf(Head(n)) /\ note'[d]["app"] = note[d]["app"]
      BY <1>0, <2>1 DEF Receive, ToTell, TypeOK
    <3>3. PICK h \in Range(n) : h = Head(n) /\ h \in Stanzas
      <4> HIDE DEF n
      <4>1. QED
        BY <1>0, <3>1, TailElements
    <3>4. Incoming(d, h)
      BY <3>3 DEF Addressed
    <3>5. /\ EventOf(h).msg = h.msg /\ (EventOf(h).kind = "received" => h.type = "chat")
          /\ EventOf(h).kind \in {"Delivered", "Seen"} => h.type \in {"Delivered", "Seen"}
      BY <3>3, LaterFacts DEF EventOf, Event
    <3>6. QED
      BY <3>2, <3>3, <3>4, <3>5 DEF Incoming, Addressed
  <2>2. CASE ~Receive(d)
    <3>1. /\ note'[d]["app"] = note[d]["app"] \/ note'[d]["app"].kind \in {"Sending", "none"}
          /\ note'[d]["loop"] = note[d]["loop"] \/ note'[d]["loop"].kind = "none"
      BY <2>2, ToldStep
    <3>2. QED
      BY <3>1 DEF Addressed
  <2>3. QED
    BY <2>1, <2>2
<1>4. ASSUME NEW o \in Observers, NEW e \in Range(told'[d][o]), e.kind = "received" PROVE e.msg[1] # d
  <2>0. told[d][o] \in Seq(Events) /\ \A x \in Range(told[d][o]) : x.kind = "received" => x.msg[1] # d
    BY <1>0 DEF TypeOK, Addressed
  <2>1. CASE told'[d] = told[d]
    BY <1>4, <2>0, <2>1
  <2>2. CASE Receive(d)
    BY <1>4, <2>0, <2>2 DEF Receive
  <2>3. ASSUME NEW t \in Threads, NEW p \in Observers, Tell(d, t, p) PROVE e.msg[1] # d
    <3>1. PICK new : new = note[d][t]
      OBVIOUS
    <3>2. told'[d][o] = IF o = p THEN Append(told[d][o], new) ELSE told[d][o]
      BY <1>0, <2>3, <3>1 DEF Tell, TypeOK
    <3>3. new \in Events
      BY <2>3, <3>1 DEF IInv, Carries, MutexHeld, Tell
    <3>4. new.kind = "received" => new.msg[1] # d
      BY <3>1 DEF Addressed, Threads
    <3>5. Range(Append(told[d][o], new)) = Range(told[d][o]) \cup {new}
      BY <2>0, <3>3, AppendElements
    <3>6. e \in Range(told[d][o]) \cup {new}
      BY <1>4, <3>2, <3>5
    <3>7. QED
      BY <1>4, <2>0, <3>4, <3>6
  <2>4. QED
    BY <2>1, <2>2, <2>3, ToldStep
<1>5. QED
  BY <1>1, <1>2, <1>3, <1>4 DEF Addressed

\* What an acknowledgement has to come before gets no more.
LEMMA NeedsNoMore ==
  ASSUME IInv, [Next]_vars, NEW c \in Clients
  PROVE  /\ NotPast' \subseteq NotPast /\ NotPast \subseteq Stanzas
         /\ NotHeard(c)' \subseteq NotHeard(c) /\ NotHeard(c) \subseteq Stanzas
         /\ SeenEvents(c)' \subseteq SeenEvents(c)
<1>1. \A x \in Stanzas : x.msg \in Messages
  BY LaterFacts
<1>2. \A x \in Stanzas : Past(x.msg) => Past(x.msg)'
  BY <1>1, PastStays
<1>3. \A x \in Stanzas : Raced(c) \/ Heard(x.msg) \/ Noted(x.msg) => Raced(c)' \/ Heard(x.msg)' \/ Noted(x.msg)'
  BY <1>1, HeardStays
<1>4. Raced(c) => Raced(c)'
  BY HeardStays
<1>5. NotPast' \subseteq NotPast /\ NotPast \subseteq Stanzas
  BY <1>2 DEF NotPast
<1>6. NotHeard(c)' \subseteq NotHeard(c) /\ NotHeard(c) \subseteq Stanzas
  BY <1>3 DEF NotHeard
<1>7. SeenEvents(c)' \subseteq SeenEvents(c)
  BY <1>4 DEF SeenEvents
<1>8. QED
  BY <1>5, <1>6, <1>7

\* The first of what is covered needs no cover.
LEMMA FirstNotCovered ==
  ASSUME NEW S, NEW s \in Seq(S), s # <<>>, NEW W, NEW R, Covered(s, W, R)
  PROVE  Head(s) \notin W
<1>1. Head(s) = s[1] /\ 1 \in 1 .. Len(s)
  <2>1. Len(s) = Len(Tail(s)) + 1 /\ Len(Tail(s)) \in Nat /\ Head(s) = s[1]
    BY TailElements
  <2>2. QED
    BY <2>1
<1>2. ~ \E j \in 1 .. Len(s) : j < 1
  BY LenProperties
<1>3. QED
  BY <1>1, <1>2 DEF Covered

\* The acknowledgement of the message that the run loop is about to tell.
LEMMA TellingIsAcked ==
  ASSUME IInv, [Next]_vars, NEW d \in Clients, Addressed(d), AckedFirst(d),
         note'[d]["loop"].kind = "received"
  PROVE  \/ /\ pc'[d]["loop"] = "send" /\ holder'[d] # "loop"
            /\ out'[d]["loop"].type = "Delivered" /\ out'[d]["loop"].msg = note'[d]["loop"].msg
         \/ \A m \in Messages : m = note'[d]["loop"].msg => Acked(d, m)'
<1>0. /\ TypeOK /\ MutexHeld /\ "app" \in Threads /\ "loop" \in Threads
  BY DEF IInv, TypeOK, Threads
<1>1. CASE Receive(d)
  <2>1. PICK h : h = Head(net[d])
    OBVIOUS
  <2>2. net[d] \in Seq(Stanzas) /\ net[d] # <<>> /\ pc[d]["loop"] = "idle"
    BY <1>0, <1>1 DEF TypeOK, Receive
  <2>3. h \in Stanzas
    BY <2>1, <2>2, TailElements
  <2>4. note'[d]["loop"] = EventOf(h)
    BY <1>0, <1>1, <2>1 DEF Receive, ToTell, TypeOK
  <2>5. h.type = "chat" /\ EventOf(h).msg = h.msg
    BY <2>3, <2>4, LaterFacts DEF EventOf, Event
  <2>6. EnterSend(d, "loop", Status(h.msg, "Delivered")) /\ holder' = holder
    BY <1>1, <2>1, <2>5 DEF Receive, lock
  <2>7. pc'[d]["loop"] = "send" /\ out'[d]["loop"] = Status(h.msg, "Delivered")
    BY <1>0, <2>6 DEF EnterSend, Goto, TypeOK
  <2>8. holder[d] # "loop"
    BY <1>0, <2>2 DEF MutexHeld
  <2>9. QED
    BY <2>4, <2>5, <2>6, <2>7, <2>8 DEF Status
<1>2. CASE ~Receive(d)
  <2>1. note'[d]["loop"] = note[d]["loop"]
    BY <1>2, ToldStep
  <2>2. PICK m : m = note[d]["loop"].msg
    OBVIOUS
  <2>3. m \in Messages /\ m[1] # d
    <3>1. note[d]["loop"] \in Events
      BY <1>0, <2>1 DEF TypeOK, NoEvent, Event
    <3>2. QED
      BY <2>1, <2>2, <3>1, LaterFacts DEF Addressed
  <2>4. CASE Acked(d, m)
    BY <2>1, <2>2, <2>3, <2>4, AckedStays
  <2>5. CASE /\ pc[d]["loop"] = "send" /\ holder[d] # "loop"
             /\ out[d]["loop"].type = "Delivered" /\ out[d]["loop"].msg = m
    <3>1. LoopStays(d) \/ EndSend(d, "loop")
      BY <2>5, LoopStep DEF LoopMoves, Lock, Unlock, Receive, CallbackSeen, CallbackLocks, Tell
    <3>2. CASE LoopStays(d)
      BY <2>1, <2>2, <2>5, <3>2 DEF LoopStays
    <3>3. CASE EndSend(d, "loop")
      <4>1. PICK x : x = out[d]["loop"]
        OBVIOUS
      <4>2. x \in Stanzas /\ queue[d] \in Seq(Stanzas) /\ x.type = "Delivered" /\ x.msg = m
        BY <1>0, <2>5, <4>1 DEF IInv, Carries, TypeOK
      <4>3. queue'[d] = Append(queue[d], x) \/ raced[d]
        BY <1>0, <3>3, <4>1 DEF EndSend, TypeOK
      <4>4. CASE queue'[d] = Append(queue[d], x)
        <5>1. x \in Range(queue'[d])
          BY <4>2, <4>4, AppendElements
        <5>2. QED
          BY <2>1, <2>2, <4>2, <5>1 DEF Acked
      <4>5. CASE raced[d]
        <5>1. m[1] \in Clients
          BY <2>3, MessageTypes
        <5>2. Raced(m[1])
          BY <2>3, <4>5, <5>1 DEF Raced
        <5>3. Past(m)'
          BY <2>3, <5>2, PastStays DEF Past
        <5>4. QED
          BY <2>1, <2>2, <5>3 DEF Acked
      <4>6. QED
        BY <4>3, <4>4, <4>5
    <3>4. QED
      BY <3>1, <3>2, <3>3
  <2>6. QED
    BY <2>1, <2>2, <2>4, <2>5 DEF AckedFirst
<1>3. QED
  BY <1>1, <1>2

\* What was acknowledged before it was told, is; Seen follows the acknowledgement.
LEMMA AckedFirstStays ==
  ASSUME IInv, [Next]_vars, NEW d \in Clients, Addressed(d), Addressed(d)', AckedFirst(d)
  PROVE  AckedFirst(d)'
<1> DEFINE q == queue[d]
<1>0. /\ TypeOK /\ MutexHeld /\ "app" \in Threads /\ "loop" \in Threads
      /\ q \in Seq(Stanzas) /\ \A t \in Threads : t = "app" \/ t = "loop"
  BY DEF IInv, TypeOK, Threads
<1>1. ASSUME note'[d]["loop"].kind = "received"
      PROVE  \/ /\ pc'[d]["loop"] = "send" /\ holder'[d] # "loop"
                /\ out'[d]["loop"].type = "Delivered" /\ out'[d]["loop"].msg = note'[d]["loop"].msg
             \/ Acked(d, note[d]["loop"].msg)'
  <2>1. PICK m : m = note'[d]["loop"].msg
    OBVIOUS
  <2>2. m \in Messages
    <3>1. note'[d]["loop"] \in Events \cup {NoEvent}
      <4>1. TypeOK'
        BY NextIInv DEF IInv
      <4>2. QED
        BY <1>0, <4>1 DEF TypeOK
    <3>2. NoEvent.kind # "received"
      BY DEF NoEvent, Event
    <3>3. QED
      BY <1>1, <2>1, <3>1, <3>2, LaterFacts
  <2>3. Acked(d, m)' => Acked(d, note[d]["loop"].msg)'
    BY <2>1 DEF Acked, Past, Heard, Noted
  <2>4. QED
    BY <1>1, <2>1, <2>2, <2>3, TellingIsAcked
<1>2. ASSUME NEW m \in Messages, Knows(d, m) PROVE Acked(d, m) /\ m[1] # d
  BY <1>2 DEF Knows, Event, AckedFirst, Addressed
<1>3. ASSUME NEW m \in Messages, note[d]["loop"].kind = "received", note[d]["loop"].msg = m, holder[d] = "loop"
      PROVE  Acked(d, m) /\ m[1] # d
  BY <1>3 DEF AckedFirst, Addressed
<1>4. ASSUME NEW o \in Observers, NEW e \in Range(told'[d][o]), e.kind = "received" PROVE Acked(d, e.msg)'
  <2>0. told[d][o] \in Seq(Events) /\ \A x \in Range(told[d][o]) : x \in Events /\ x.msg \in Messages
    <3>1. told[d][o] \in Seq(Events)
      BY <1>0 DEF TypeOK
    <3>2. QED
      BY <3>1, RangeOf, LaterFacts
  <2>1. ASSUME NEW x \in Range(told[d][o]), x.kind = "received" PROVE Acked(d, x.msg)'
    <3>1. x.msg \in Messages /\ x.msg[1] # d /\ Acked(d, x.msg)
      BY <2>0, <2>1 DEF Addressed, AckedFirst
    <3>2. QED
      BY <3>1, AckedStays
  <2>2. CASE told'[d] = told[d]
    BY <1>4, <2>1, <2>2
  <2>3. CASE Receive(d)
    BY <1>4, <2>1, <2>3 DEF Receive
  <2>4. ASSUME NEW t \in Threads, NEW p \in Observers, Tell(d, t, p) PROVE Acked(d, e.msg)'
    <3>1. PICK new : new = note[d][t]
      OBVIOUS
    <3>2. told'[d][o] = IF o = p THEN Append(told[d][o], new) ELSE told[d][o]
      BY <1>0, <2>4, <3>1 DEF Tell, TypeOK
    <3>3. new \in Events /\ new.msg \in Messages /\ holder[d] = t
      <4>1. new \in Events /\ holder[d] = t
        BY <2>4, <3>1 DEF IInv, Carries, MutexHeld, Tell
      <4>2. QED
        BY <4>1, LaterFacts
    <3>4. new.kind = "received" => t = "loop"
      BY <1>0, <3>1 DEF Addressed
    <3>5. new.kind = "received" => Acked(d, new.msg)'
      BY <1>3, <3>1, <3>3, <3>4, AckedStays
    <3>6. Range(Append(told[d][o], new)) = Range(told[d][o]) \cup {new}
      BY <2>0, <3>3, AppendElements
    <3>7. e \in Range(told[d][o]) \cup {new}
      BY <1>4, <3>2, <3>6
    <3>8. QED
      BY <1>4, <2>1, <3>5, <3>7
  <2>5. QED
    BY <2>2, <2>3, <2>4, ToldStep
<1>5. ASSUME NEW t \in Threads, NEW m \in Messages, out'[d][t].type = "Seen", out'[d][t].msg = m
      PROVE  Acked(d, m)'
  <2>1. \/ out'[d][t] = out[d][t]
        \/ out'[d][t] = NoStanza
        \/ \E e \in Clients \ {d} : \E n \in Nat : out'[d][t] = Chat(e, <<d, n>>)
        \/ /\ Receive(d) /\ Head(net[d]).type = "chat"
           /\ out'[d][t] = Status(Head(net[d]).msg, "Delivered")
        \/ \E k \in Messages :
             /\ out'[d][t] = Status(k, "Seen")
             /\ Knows(d, k) \/ (holder[d] = t /\ note[d][t].kind = "received" /\ note[d][t].msg = k)
    BY StatusStep
  <2>2. /\ NoStanza.type # "Seen"
        /\ \A k : Status(k, "Delivered").type # "Seen" /\ Status(k, "Seen").msg = k
    BY DEF NoStanza, Status
  <2>3. CASE out'[d][t] = out[d][t]
    <3>1. m[1] # d /\ Acked(d, m)
      BY <1>5, <2>3 DEF Addressed, Outgoing, AckedFirst
    <3>2. QED
      BY <3>1, AckedStays
  <2>4. CASE Knows(d, m)
    BY <1>2, <2>4, AckedStays
  <2>5. CASE holder[d] = t /\ note[d][t].kind = "received" /\ note[d][t].msg = m
    <3>1. t = "loop"
      BY <1>0, <2>5 DEF Addressed
    <3>2. QED
      BY <1>3, <2>5, <3>1, AckedStays
  <2>6. ASSUME NEW k \in Messages, out'[d][t] = Status(k, "Seen"),
               Knows(d, k) \/ (holder[d] = t /\ note[d][t].kind = "received" /\ note[d][t].msg = k)
        PROVE  Acked(d, m)'
    <3>1. k = m
      BY <1>5, <2>2, <2>6
    <3>2. QED
      BY <2>4, <2>5, <2>6, <3>1
  <2>7. ASSUME NEW e \in Clients \ {d}, NEW n \in Nat, out'[d][t] = Chat(e, <<d, n>>) PROVE FALSE
    BY <1>5, <2>7 DEF Chat
  <2>8. out'[d][t] # NoStanza /\ out'[d][t] # Status(Head(net[d]).msg, "Delivered")
    BY <1>5, <2>2
  <2>9. QED
    BY <2>1, <2>3, <2>6, <2>7, <2>8
<1>6. Covered(queue'[d], NotPast', Confirms)
  <2>0. /\ NotPast' \subseteq NotPast /\ Covered(q, NotPast, Confirms)
        /\ \A x \in Stanzas : x.msg \in Messages /\ x.msg[1] \in Clients
    BY NeedsNoMore, LaterFacts, MessageTypes DEF AckedFirst
  <2>1. PICK V : V = NotPast'
    OBVIOUS
  <2>2. CASE queue'[d] = q
    <3> HIDE DEF q
    <3>1. Covered(q, V, Confirms)
      BY <1>0, <2>0, <2>1, CoverKept
    <3>2. QED
      BY <2>1, <2>2, <3>1
  <2>3. CASE Queues(d)
    <3>1. PICK t \in Threads : /\ out[d][t] \in Stanzas
                               /\ queue'[d] = Append(q, out[d][t]) \/ raced[d]
      BY <2>3 DEF Queues
    <3>2. PICK x : x = out[d][t]
      OBVIOUS
    <3>3. CASE raced[d]
      <4>1. ASSUME NEW y \in Range(queue'[d]), y \in V PROVE FALSE
        <5>1. y \in Stanzas /\ y.type = "Seen" /\ ~Past(y.msg)'
          BY <2>1, <4>1 DEF NotPast
        <5>2. y.msg[1] # d /\ y.msg[1] \in Clients /\ y.msg \in Messages
          BY <2>0, <4>1, <5>1 DEF Addressed, Outgoing
        <5>3. Past(y.msg)
          BY <3>3, <5>2 DEF Past, Raced
        <5>4. QED
          BY <5>1, <5>2, <5>3, PastStays
      <4>2. queue'[d] \in Seq(Stanzas)
        <5>1. TypeOK'
          BY NextIInv DEF IInv
        <5>2. QED
          BY <5>1 DEF TypeOK
      <4>3. \A i \in 1 .. Len(queue'[d]) : queue'[d][i] \notin V
        BY <4>1, <4>2, RangeOf
      <4>4. QED
        BY <2>1, <4>3 DEF Covered
    <3>4. CASE queue'[d] = Append(q, x)
      <4>1. ASSUME x \in NotPast PROVE \E y \in Range(q) : <<y, x>> \in Confirms
        <5>1. x \in Stanzas /\ x.type = "Seen" /\ ~Past(x.msg)
          BY <4>1 DEF NotPast
        <5>2. Acked(d, x.msg)
          BY <3>2, <5>1 DEF AckedFirst
        <5>3. PICK y \in Range(q) : y.type = "Delivered" /\ y.msg = x.msg
          BY <5>1, <5>2 DEF Acked
        <5>4. y \in Stanzas
          BY <1>0, RangeOf
        <5>5. QED
          BY <5>1, <5>3, <5>4 DEF Confirms
      <4>2. x \in Stanzas
        BY <3>1, <3>2
      <4> HIDE DEF q
      <4>3. Covered(Append(q, x), NotPast, Confirms)
        BY <1>0, <2>0, <4>1, <4>2, CoverKept
      <4>4. Append(q, x) \in Seq(Stanzas)
        BY <1>0, <4>2, AppendProperties
      <4>5. Covered(Append(q, x), V, Confirms)
        BY <2>0, <2>1, <4>3, <4>4, CoverKept
      <4>6. QED
        BY <2>1, <3>4, <4>5
    <3>5. QED
      BY <3>1, <3>2, <3>3, <3>4
  <2>4. CASE Dequeues(d)
    <3>1. q # <<>> /\ queue'[d] = Tail(q)
      BY <2>4 DEF Dequeues
    <3>2. PICK h : h = Head(q)
      OBVIOUS
    <3>3. h \in Range(q) /\ h \in Stanzas
      <4> HIDE DEF q
      <4>1. QED
        BY <1>0, <3>1, <3>2, TailElements
    <3>4. ASSUME NEW y \in V, <<h, y>> \in Confirms PROVE FALSE
      <4>1. y \in Stanzas /\ ~Past(y.msg)' /\ h.type = "Delivered" /\ h.msg = y.msg
        BY <2>1, <3>4 DEF NotPast, Confirms
      <4>2. h.to = h.msg[1] /\ y.msg \in Messages
        BY <2>0, <3>3, <4>1 DEF Addressed, Outgoing
      <4>3. Past(y.msg)'
        BY <2>4, <3>2, <4>1, <4>2, WrittenIsPast
      <4>4. QED
        BY <4>1, <4>3
    <3> HIDE DEF q
    <3>5. Covered(Tail(q), V, Confirms)
      BY <1>0, <2>0, <2>1, <3>1, <3>2, <3>4, CoverKept
    <3>6. QED
      BY <2>1, <3>1, <3>5
  <2>5. QED
    BY <2>2, <2>3, <2>4, SenderStep DEF SendsMessage, SendsStatus
<1>7. ASSUME NEW t \in Threads, out'[d][t].type = "Seen" PROVE Acked(d, out[d][t].msg)'
  <2>1. PICK m : m = out'[d][t].msg
    OBVIOUS
  <2>2. m \in Messages
    <3>1. out'[d][t] \in Stanzas \cup {NoStanza}
      <4>1. TypeOK'
        BY NextIInv DEF IInv
      <4>2. QED
        BY <4>1 DEF TypeOK
    <3>2. NoStanza.type # "Seen"
      BY DEF NoStanza
    <3>3. QED
      BY <1>7, <2>1, <3>1, <3>2, LaterFacts
  <2>3. Acked(d, m)'
    BY <1>5, <1>7, <2>1, <2>2
  <2>4. QED
    BY <2>1, <2>3 DEF Acked, Past, Heard, Noted
<1>8. QED
  BY <1>1, <1>4, <1>6, <1>7 DEF AckedFirst

\* The sender is about to hear, or hears, Seen after Delivered.
LEMMA HeardFirstStays ==
  ASSUME IInv, [Next]_vars, NEW c \in Clients, \A d \in Clients : Addressed(d) /\ AckedFirst(d),
         Addressed(c)', HeardFirst(c)
  PROVE  HeardFirst(c)'
<1> DEFINE n == net[c]
<1>0. /\ TypeOK /\ "app" \in Threads /\ "loop" \in Threads /\ \A t \in Threads : t = "app" \/ t = "loop"
      /\ n \in Seq(Stanzas) /\ heard[c] \in Seq(Events)
  BY DEF IInv, TypeOK, Threads
<1>1. Covered(net'[c], NotHeard(c)', Confirms)
  <2>1. PICK V : V = NotHeard(c)'
    OBVIOUS
  <2>2. V \subseteq NotHeard(c) /\ NotHeard(c) \subseteq Stanzas /\ Covered(n, NotHeard(c), Confirms)
    BY <2>1, NeedsNoMore DEF HeardFirst
  <2>3. CASE net'[c] = n
    <3> HIDE DEF n
    <3>1. Covered(n, V, Confirms)
      BY <1>0, <2>2, CoverKept
    <3>2. QED
      BY <2>1, <2>3, <3>1
  <2>4. CASE Receive(c)
    <3>1. n # <<>> /\ net'[c] = Tail(n)
      BY <1>0, <2>4 DEF Receive, TypeOK
    <3>2. PICK h : h = Head(n)
      OBVIOUS
    <3>3. h \in Range(n) /\ h \in Stanzas
      <4> HIDE DEF n
      <4>1. QED
        BY <1>0, <3>1, <3>2, TailElements
    <3>4. ASSUME NEW y \in V, <<h, y>> \in Confirms PROVE FALSE
      <4>1. y \in Stanzas /\ ~Noted(y.msg)' /\ h.type = "Delivered" /\ h.msg = y.msg
        BY <2>1, <3>4 DEF NotHeard, Confirms
      <4>2. y.msg[1] = c /\ y.msg \in Messages
        BY <3>3, <4>1, LaterFacts DEF Addressed, Incoming
      <4>3. Noted(y.msg)'
        BY <2>4, <3>2, <4>1, <4>2, DeliveredIsNoted
      <4>4. QED
        BY <4>1, <4>3
    <3> HIDE DEF n
    <3>5. Covered(Tail(n), V, Confirms)
      BY <1>0, <2>2, <3>1, <3>2, <3>4, CoverKept
    <3>6. QED
      BY <2>1, <3>1, <3>5
  <2>5. ASSUME NEW e \in Clients, NEW x \in Stanzas, IsCarried(e, c, x)
        PROVE  Covered(net'[c], NotHeard(c)', Confirms)
    <3>1. net'[c] = Append(n, x) /\ (x.type = "Seen" => x = Head(queue[e]) /\ x.to = c) /\ Dequeue(e)
      BY <2>5 DEF IsCarried
    <3>2. ASSUME x \in NotHeard(c) PROVE \E y \in Range(n) : <<y, x>> \in Confirms
      <4>1. x.type = "Seen" /\ ~(Raced(c) \/ Heard(x.msg) \/ Noted(x.msg)) /\ x = Head(queue[e]) /\ x.to = c
        BY <3>1, <3>2 DEF NotHeard
      <4>2. queue[e] \in Seq(Stanzas) /\ queue[e] # <<>>
        BY <1>0, <3>1 DEF TypeOK, Dequeue
      <4>3. x \in Range(queue[e])
        BY <4>1, <4>2, TailElements
      <4>4. x.msg[1] = c
        BY <4>1, <4>3 DEF Addressed, Outgoing
      <4>5. Covered(queue[e], NotPast, Confirms)
        BY DEF AckedFirst
      <4>6. x \notin NotPast
        BY <4>1, <4>2, <4>5, FirstNotCovered
      <4>7. Past(x.msg)
        BY <4>1, <4>6 DEF NotPast
      <4>8. PICK y \in Range(n) : y.type = "Delivered" /\ y.msg = x.msg
        BY <4>1, <4>4, <4>7 DEF Past
      <4>9. y \in Stanzas
        BY <1>0, RangeOf
      <4>10. QED
        BY <4>8, <4>9 DEF Confirms
    <3> HIDE DEF n
    <3>3. Covered(Append(n, x), NotHeard(c), Confirms)
      BY <1>0, <2>2, <3>2, CoverKept
    <3>4. Append(n, x) \in Seq(Stanzas)
      BY <1>0, AppendProperties
    <3>5. Covered(Append(n, x), V, Confirms)
      BY <2>2, <3>3, <3>4, CoverKept
    <3>6. QED
      BY <2>1, <3>1, <3>5
  <2>6. QED
    BY <2>3, <2>4, <2>5, NetStep
<1>2. ASSUME pc'[c]["loop"] = "send" PROVE note'[c]["loop"].kind = "received"
  <2>1. CASE LoopStays(c)
    BY <1>2, <2>1 DEF LoopStays, HeardFirst
  <2>2. CASE EndSend(c, "loop") \/ Lock(c, "loop") \/ Unlock(c, "loop")
    <3>1. pc'[c]["loop"] # "send"
      BY <1>0, <2>2 DEF EndSend, Lock, Unlock, Goto, AfterSend, TypeOK
    <3>2. QED
      BY <1>2, <3>1
  <2>3. CASE Receive(c)
    <3>1. PICK h : h = Head(n)
      OBVIOUS
    <3>2. h.type = "chat"
      BY <1>0, <1>2, <2>3, <3>1 DEF Receive, Goto, TypeOK
    <3>3. note'[c]["loop"] = EventOf(h)
      BY <1>0, <2>3, <3>1 DEF Receive, ToTell, TypeOK
    <3>4. QED
      BY <3>2, <3>3 DEF EventOf, Event
  <2>4. ASSUME NEW o \in Observers, CallbackSeen(c, "loop", o) PROVE note'[c]["loop"].kind = "received"
    BY <2>4 DEF CallbackSeen
  <2>5. ASSUME NEW o \in Observers, CallbackLocks(c, "loop", o) PROVE pc'[c]["loop"] = "stuck"
    BY <1>0, <2>5 DEF CallbackLocks, Goto, TypeOK
  <2>6. QED
    BY <1>2, <2>1, <2>2, <2>3, <2>4, <2>5, LoopStep DEF LoopMoves
<1>3. ASSUME NEW m \in Messages, note'[c]["loop"].kind = "Seen", note'[c]["loop"].msg = m, pc'[c]["loop"] = "lock"
      PROVE  Raced(c)' \/ Heard(m)'
  <2>0. Raced(c) \/ Heard(m) => Raced(c)' \/ Heard(m)'
    BY HeardStays
  <2>1. CASE LoopStays(c)
    BY <1>3, <2>0, <2>1 DEF LoopStays, HeardFirst
  <2>2. CASE EndSend(c, "loop")
    <3>1. pc[c]["loop"] = "send" /\ note' = note
      BY <2>2 DEF EndSend
    <3>2. QED
      BY <1>3, <3>1 DEF HeardFirst
  <2>3. CASE Receive(c)
    <3>1. PICK h : h = Head(n)
      OBVIOUS
    <3>2. n # <<>> /\ pc[c]["loop"] = "idle"
      BY <2>3 DEF Receive
    <3>3. h \in Stanzas /\ h \in Range(n) /\ h \notin NotHeard(c)
      <4>1. Covered(n, NotHeard(c), Confirms)
        BY DEF HeardFirst
      <4> HIDE DEF n
      <4>2. QED
        BY <1>0, <3>1, <3>2, <4>1, TailElements, FirstNotCovered
    <3>4. note'[c]["loop"] = EventOf(h)
      BY <1>0, <2>3, <3>1 DEF Receive, ToTell, TypeOK
    <3>5. h.type = "Seen" /\ h.msg = m
      <4>1. EventOf(h).msg = h.msg /\ (EventOf(h).kind = "Seen" => h.type = "Seen")
        BY <3>3, LaterFacts DEF EventOf, Event
      <4>2. QED
        BY <1>3, <3>4, <4>1
    <3>6. m[1] = c
      BY <3>3, <3>5 DEF Addressed, Incoming
    <3>7. Raced(c) \/ Heard(m) \/ Noted(m)
      BY <3>3, <3>5 DEF NotHeard
    <3>8. ~Noted(m)
      BY <3>2, <3>6 DEF Noted
    <3>9. QED
      BY <2>0, <3>7, <3>8
  <2>4. CASE Lock(c, "loop") \/ Unlock(c, "loop")
    <3>1. pc'[c]["loop"] # "lock"
      BY <1>0, <2>4 DEF Lock, Unlock, Goto, TypeOK
    <3>2. QED
      BY <1>3, <3>1
  <2>5. ASSUME NEW o \in Observers, CallbackSeen(c, "loop", o) \/ CallbackLocks(c, "loop", o)
        PROVE  pc'[c]["loop"] # "lock"
    BY <1>0, <2>5 DEF CallbackSeen, CallbackLocks, EnterSend, Goto, TypeOK
  <2>6. QED
    BY <1>3, <2>1, <2>2, <2>3, <2>4, <2>5, LoopStep DEF LoopMoves
<1>4. Covered(heard'[c], SeenEvents(c)', HeardBefore)
  <2>1. PICK V : V = SeenEvents(c)'
    OBVIOUS
  <2>2. V \subseteq SeenEvents(c) /\ Covered(heard[c], SeenEvents(c), HeardBefore)
    BY <2>1, NeedsNoMore DEF HeardFirst
  <2>3. CASE heard'[c] = heard[c]
    <3>1. Covered(heard[c], V, HeardBefore)
      BY <1>0, <2>2, CoverKept
    <3>2. QED
      BY <2>1, <2>3, <3>1
  <2>4. ASSUME NEW t \in Threads, Lock(c, t), heard'[c] = Append(heard[c], note[c][t])
        PROVE  Covered(heard'[c], SeenEvents(c)', HeardBefore)
    <3>1. PICK x : x = note[c][t]
      OBVIOUS
    <3>2. x \in Events /\ pc[c][t] = "lock"
      BY <1>0, <2>4, <3>1 DEF IInv, Carries, Lock
    <3>3. ASSUME x \in SeenEvents(c) PROVE \E y \in Range(heard[c]) : <<y, x>> \in HeardBefore
      <4>1. x.kind = "Seen" /\ ~Raced(c) /\ x.msg \in Messages
        BY <3>2, <3>3, LaterFacts DEF SeenEvents
      <4>2. t = "loop"
        BY <1>0, <3>1, <4>1 DEF Addressed
      <4>3. Heard(x.msg) /\ x.msg[1] = c
        BY <3>1, <3>2, <4>1, <4>2 DEF HeardFirst, Addressed
      <4>4. PICK y \in Range(heard[c]) : y = Event("Delivered", x.msg)
        BY <4>3 DEF Heard
      <4>5. y \in Events
        BY <1>0, RangeOf
      <4>6. QED
        BY <3>2, <4>4, <4>5 DEF HeardBefore
    <3>4. Covered(Append(heard[c], x), SeenEvents(c), HeardBefore)
      BY <1>0, <2>2, <3>2, <3>3, CoverKept
    <3>5. Append(heard[c], x) \in Seq(Events)
      BY <1>0, <3>2, AppendProperties
    <3>6. Covered(Append(heard[c], x), V, HeardBefore)
      BY <2>2, <3>4, <3>5, CoverKept
    <3>7. QED
      BY <2>1, <2>4, <3>1, <3>6
  <2>5. QED
    BY <2>3, <2>4, HeardStep
<1>5. ASSUME note'[c]["loop"].kind = "Seen", pc'[c]["loop"] = "lock"
      PROVE  Raced(c)' \/ Heard(note[c]["loop"].msg)'
  <2>1. PICK m : m = note'[c]["loop"].msg
    OBVIOUS
  <2>2. m \in Messages
    <3>1. note'[c]["loop"] \in Events \cup {NoEvent}
      <4>1. TypeOK'
        BY NextIInv DEF IInv
      <4>2. QED
        BY <1>0, <4>1 DEF TypeOK
    <3>2. NoEvent.kind # "Seen"
      BY DEF NoEvent, Event
    <3>3. QED
      BY <1>5, <2>1, <3>1, <3>2, LaterFacts
  <2>3. QED
    BY <1>3, <1>5, <2>1, <2>2 DEF Heard
<1>6. QED
  BY <1>1, <1>2, <1>4, <1>5 DEF HeardFirst

\* Nothing was sent at first.
LEMMA InitAckInv == Init => AckInv
<1> SUFFICES ASSUME Init, NEW c \in Clients PROVE Addressed(c) /\ AckedFirst(c) /\ HeardFirst(c)
  BY DEF AckInv
<1>1. Range(<<>>) = {} /\ \A W, R : Covered(<<>>, W, R)
  <2>1. Len(<<>>) = 0
    OBVIOUS
  <2>2. \A i \in 1 .. 0 : FALSE
    OBVIOUS
  <2>3. QED
    BY <2>1, <2>2, OneElement DEF Covered
<1>2. /\ queue[c] = <<>> /\ net[c] = <<>> /\ heard[c] = <<>> /\ \A o \in Observers : told[c][o] = <<>>
      /\ \A t \in Threads : out[c][t] = NoStanza /\ note[c][t] = NoEvent /\ pc[c][t] = "idle"
  BY DEF Init
<1>3. NoStanza.type = "none" /\ NoEvent.kind = "none" /\ "app" \in Threads /\ "loop" \in Threads
  BY DEF NoStanza, NoEvent, Event, Threads
<1>4. QED
  BY <1>1, <1>2, <1>3 DEF Addressed, AckedFirst, HeardFirst, Outgoing

\* Every step keeps the acknowledgements first.
LEMMA NextAckInv == IInv /\ AckInv /\ [Next]_vars => AckInv'
<1>1. ASSUME IInv, AckInv, [Next]_vars PROVE AckInv'
  <2>1. \A d \in Clients : Addressed(d)'
    BY <1>1, AddressedStays DEF AckInv
  <2>2. \A d \in Clients : AckedFirst(d)'
    BY <1>1, <2>1, AckedFirstStays DEF AckInv
  <2>3. \A d \in Clients : HeardFirst(d)'
    BY <1>1, <2>1, HeardFirstStays DEF AckInv
  <2>4. QED
    BY <2>1, <2>2, <2>3 DEF AckInv
<1>2. QED
  BY <1>1

\* A sender hears Seen after Delivered, unless an overlapping use of the receiver's send
\* queue may have lost the acknowledgement.
THEOREM DeliveredBeforeSeen == Spec => []SeenAfterDelivered
<1>1. ASSUME IInv, AckInv PROVE SeenAfterDelivered
  <2> SUFFICES ASSUME NEW c \in Clients, NEW i \in DOMAIN heard[c], heard[c][i].kind = "Seen", ~Raced(c)
               PROVE  \E j \in 1 .. i - 1 : heard[c][j] = Event("Delivered", heard[c][i].msg)
    BY DEF SeenAfterDelivered, Raced
  <2>1. heard[c] \in Seq(Events) /\ Covered(heard[c], SeenEvents(c), HeardBefore)
    BY <1>1 DEF IInv, TypeOK, AckInv, HeardFirst
  <2>2. i \in 1 .. Len(heard[c]) /\ heard[c][i] \in Events
    BY <2>1, LenProperties
  <2>3. heard[c][i] \in SeenEvents(c)
    BY <2>2 DEF SeenEvents
  <2>4. PICK j \in 1 .. Len(heard[c]) : j < i /\ <<heard[c][j], heard[c][i]>> \in HeardBefore
    BY <2>1, <2>2, <2>3 DEF Covered
  <2>5. heard[c][j] = Event("Delivered", heard[c][i].msg)
    BY <2>4 DEF HeardBefore
  <2>6. j \in 1 .. i - 1
    BY <2>2, <2>4
  <2>7. QED
    BY <2>5, <2>6
<1>2. QED
  BY <1>1, InitIInv, NextIInv, InitAckInv, NextAckInv, PTL DEF Spec
=============================================================================
