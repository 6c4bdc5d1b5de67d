-------------------------- MODULE SendQueueProofs --------------------------
(***************************************************************************)
(* Proofs about the send queue, for any number and size of items.          *)
(***************************************************************************)
EXTENDS SendQueue, TLAPS, SequenceTheorems, FiniteSetTheorems

Appending == {"head", "link", "tail"}
Flushing  == {"write", "pop", "clear"}

\* The part of TypeOK that is about the list.
ListType ==
  /\ head \in 0 .. MaxItems
  /\ tail \in 0 .. MaxItems
  /\ next \in [Items -> 0 .. MaxItems]
  /\ freed \in SUBSET Items
  /\ allocated \in 0 .. MaxItems
  /\ pc \in [Threads -> {"idle", "head", "link", "tail", "write", "pop", "clear"}]
  /\ item \in [Threads -> 0 .. MaxItems]
  /\ sq \in 0 .. MaxItems

\* The threads are where they can be, and their locals name items.
LocalsOK ==
  /\ pc["app"] \in {"idle"} \cup Appending
  /\ \A t \in Threads : pc[t] \in Appending => item[t] \in Items
  /\ pc["loop"] \in {"write", "pop"} => sq \in Items

\* Nothing is reachable, or freed, that has not been allocated.
Allocated ==
  /\ tail <= allocated
  /\ \A i \in freed : i <= allocated
  /\ \A i \in Items : i > allocated => next[i] = 0
  /\ pc["loop"] \in {"write", "pop"} => sq <= allocated
  /\ \A i \in Items : next[i] <= allocated
  /\ head <= allocated
  /\ \A t \in Threads : item[t] <= allocated

\* What one thread at a time finds: the tail, if there is one, is a live item
\* without a successor, except in the middle of an append or of a flush; the item
\* being appended is live, has no successor and is not the tail.
Alone ==
  /\ ~crashed
  /\ pc["app"] = "idle" \/ pc["loop"] = "idle"
  /\ tail # 0 /\ pc["loop"] # "clear" => tail \notin freed
  /\ tail # 0 /\ pc["loop"] # "clear" /\ (\A t \in Threads : pc[t] # "tail") => next[tail] = 0
  /\ \A t \in Threads : pc[t] = "link" => tail # 0
  /\ \A t \in Threads : pc[t] \in Appending =>
       item[t] \notin freed /\ next[item[t]] = 0
  /\ \A t \in Threads : pc[t] \in {"head", "link"} => item[t] # tail

IInv == TypeOK /\ LocalsOK /\ Allocated /\ (~overlap => Alone)

-----------------------------------------------------------------------------
\* What a flush writes consists of items.
LEMMA WriteType ==
  ASSUME TypeOK, sq \in Items, NEW n \in 0 .. left[sq], Write(n)
  PROVE  left' \in [Items -> 0 .. Size] /\ wire' \in Seq(Items)
<1>1. left[sq] \in 0 .. Size /\ Size \in Nat
  BY SendQueueAssumption DEF TypeOK
<1>2. left[sq] - n \in 0 .. Size
  BY <1>1
<1>3. left' \in [Items -> 0 .. Size]
  BY <1>2 DEF TypeOK, Write
<1>4. [i \in 1 .. n |-> sq] \in Seq(Items)
  BY <1>1
<1>5. wire' \in Seq(Items)
  BY <1>4 DEF TypeOK, Write
<1> QED
  BY <1>3, <1>5

\* The inductive invariant holds on an empty queue.
LEMMA InitIInv == Init => IInv
<1> SUFFICES ASSUME Init PROVE IInv
    OBVIOUS
<1> USE SendQueueAssumption
<1>1. TypeOK
  <2>1. pc \in [Threads -> {"idle", "head", "link", "tail", "write", "pop", "clear"}]
    BY DEF Init
  <2>2. left \in [Items -> 0 .. Size]
    BY DEF Init
  <2>3. next \in [Items -> 0 .. MaxItems] /\ item \in [Threads -> 0 .. MaxItems]
    BY DEF Init
  <2>4. wire \in Seq(Items) /\ sent \in Seq(Items)
    BY DEF Init
  <2>5. head \in 0 .. MaxItems /\ tail \in 0 .. MaxItems /\ allocated \in 0 .. MaxItems /\ sq \in 0 .. MaxItems
    BY DEF Init
  <2> QED
    BY <2>1, <2>2, <2>3, <2>4, <2>5 DEF Init, TypeOK
<1>2. LocalsOK
  BY DEF Init, LocalsOK, Threads, Appending
<1>3. Allocated
  BY DEF Init, Allocated, Items, Threads
<1>4. Alone
  BY DEF Init, Alone, Threads, Appending
<1> QED
  BY <1>1, <1>2, <1>3, <1>4 DEF IInv
\* Every step preserves the inductive invariant.
LEMMA NextIInv == IInv /\ [Next]_vars => IInv'
<1> SUFFICES ASSUME IInv, [Next]_vars PROVE IInv'
    OBVIOUS
<1> USE SendQueueAssumption DEF Items
<1>0. TypeOK /\ ListType /\ LocalsOK /\ Allocated /\ (~overlap => Alone)
  BY DEF IInv, TypeOK, ListType
<1>1. ASSUME NEW t \in Threads, Send(t) PROVE IInv'
  <2> USE <1>1 DEF Send, At, Goto, list, locals
  <2>0. left' \in [Items -> 0 .. Size] /\ wire' \in Seq(Items)
    BY <1>0 DEF TypeOK
  <2>1. sent' \in Seq(Items)
    BY <1>0 DEF TypeOK, LocalsOK, Appending
  <2>2. ListType'
    BY <1>0 DEF ListType, LocalsOK, Appending
  <2>3. connected' \in BOOLEAN /\ crashed' \in BOOLEAN /\ overlap' \in BOOLEAN
    BY <1>0 DEF TypeOK, Overlapping
  <2>4. TypeOK'
    BY <2>0, <2>1, <2>2, <2>3 DEF TypeOK, ListType
  <2>5. LocalsOK'
    BY <1>0 DEF ListType, LocalsOK, Appending, Threads
  <2>6. Allocated'
    BY <1>0 DEF ListType, LocalsOK, Allocated, Appending, Threads
  <2>7. ~overlap' => Alone'
    <3> SUFFICES ASSUME ~overlap' PROVE Alone'
        OBVIOUS
    <3>1. Alone /\ \A u \in Threads \ {t} : pc[u] = "idle" /\ pc'[u] = "idle"
      BY <1>0 DEF Overlapping, ListType
    <3>2. /\ item'[t] = allocated + 1
          /\ item'[t] \in Items
          /\ pc[t] = "idle" /\ pc'[t] \in {"head", "link"}
          /\ tail # 0 => pc'[t] = "link"
          /\ tail = 0 => pc'[t] = "head"
      BY <1>0 DEF ListType
    <3>3. next[item'[t]] = 0 /\ item'[t] \notin freed /\ item'[t] # tail
      BY <1>0, <3>2 DEF Allocated, ListType
    <3>4. tail # 0 => tail \notin freed /\ next[tail] = 0
      BY <3>1, <3>2 DEF Alone, Threads
    <3>5. ~crashed' /\ (pc'["app"] = "idle" \/ pc'["loop"] = "idle")
      BY <3>1 DEF Alone, Threads
    <3>6. tail' = tail /\ next' = next /\ freed' = freed
      OBVIOUS
    <3> QED
      BY <3>1, <3>2, <3>3, <3>4, <3>5, <3>6 DEF Alone, Threads, Appending
  <2> QED
    BY <2>4, <2>5, <2>6, <2>7 DEF IInv
<1>2. ASSUME NEW t \in Threads, SetHead(t) PROVE IInv'
  <2> USE <1>2 DEF SetHead, At, Goto, list, locals
  <2>0. left' \in [Items -> 0 .. Size] /\ wire' \in Seq(Items)
    BY <1>0 DEF TypeOK
  <2>1. sent' \in Seq(Items)
    BY <1>0 DEF TypeOK, LocalsOK, Appending
  <2>2. ListType'
    BY <1>0 DEF ListType, LocalsOK, Appending
  <2>3. connected' \in BOOLEAN /\ crashed' \in BOOLEAN /\ overlap' \in BOOLEAN
    BY <1>0 DEF TypeOK, Overlapping
  <2>4. TypeOK'
    BY <2>0, <2>1, <2>2, <2>3 DEF TypeOK, ListType
  <2>5. LocalsOK'
    BY <1>0 DEF ListType, LocalsOK, Appending, Threads
  <2>6. Allocated'
    BY <1>0 DEF ListType, LocalsOK, Allocated, Appending, Threads
  <2>7. ~overlap' => Alone'
    BY <1>0 DEF ListType, LocalsOK, Allocated, Alone, Threads, Appending, Overlapping
  <2> QED
    BY <2>4, <2>5, <2>6, <2>7 DEF IInv
<1>3. ASSUME NEW t \in Threads, Link(t) PROVE IInv'
  <2> USE <1>3 DEF Link, At, Goto, list, locals
  <2>0. left' \in [Items -> 0 .. Size] /\ wire' \in Seq(Items)
    BY <1>0 DEF TypeOK
  <2>1. sent' \in Seq(Items)
    BY <1>0 DEF TypeOK, LocalsOK, Appending
  <2>2. ListType'
    BY <1>0 DEF ListType, LocalsOK, Appending
  <2>3. connected' \in BOOLEAN /\ crashed' \in BOOLEAN /\ overlap' \in BOOLEAN
    BY <1>0 DEF TypeOK, Overlapping
  <2>4. TypeOK'
    BY <2>0, <2>1, <2>2, <2>3 DEF TypeOK, ListType
  <2>5. LocalsOK'
    BY <1>0 DEF ListType, LocalsOK, Appending, Threads
  <2>6. Allocated'
    <3>1. item[t] \in Items /\ item[t] <= allocated
      BY <1>0 DEF LocalsOK, Allocated, Appending
    <3>2. \/ next' = next
          \/ tail \in Items /\ next' = [next EXCEPT ![tail] = item[t]]
      OBVIOUS
    <3>3. /\ \A i \in Items : i > allocated => next'[i] = 0
          /\ \A i \in Items : next'[i] <= allocated
      BY <1>0, <3>1, <3>2 DEF Allocated, ListType
    <3>4. pc'["loop"] \in {"write", "pop"} => pc["loop"] \in {"write", "pop"}
      BY <1>0 DEF ListType
    <3> QED
      BY <1>0, <3>3, <3>4 DEF Allocated
  <2>7. ~overlap' => Alone'
    <3> SUFFICES ASSUME ~overlap' PROVE Alone'
        OBVIOUS
    <3>1. Alone /\ pc[t] = "link" /\ item[t] \in Items
      BY <1>0 DEF LocalsOK, Appending
    <3>2. \A u \in Threads \ {t} : pc[u] = "idle" /\ pc'[u] = "idle"
      BY <1>0, <3>1 DEF Alone, ListType, Threads
    <3>3. tail \in Items \ freed /\ item[t] # tail /\ item[t] \notin freed /\ next[item[t]] = 0
      BY <1>0, <3>1, <3>2 DEF Alone, ListType, Threads, Appending
    <3>4. /\ crashed' = crashed
          /\ next' = [next EXCEPT ![tail] = item[t]]
          /\ pc'[t] = "tail"
          /\ tail' = tail /\ item' = item /\ freed' = freed
      BY <1>0, <3>3 DEF ListType
    <3>5. next'[item[t]] = 0
      BY <1>0, <3>1, <3>3, <3>4 DEF ListType
    <3>6. ~crashed' /\ (pc'["app"] = "idle" \/ pc'["loop"] = "idle")
      BY <3>1, <3>2, <3>4 DEF Alone, Threads
    <3> QED
      BY <3>1, <3>2, <3>3, <3>4, <3>5, <3>6 DEF Alone, Threads, Appending
  <2> QED
    BY <2>4, <2>5, <2>6, <2>7 DEF IInv
<1>4. ASSUME NEW t \in Threads, SetTail(t) PROVE IInv'
  <2> USE <1>4 DEF SetTail, At, Goto, list, locals
  <2>0. left' \in [Items -> 0 .. Size] /\ wire' \in Seq(Items)
    BY <1>0 DEF TypeOK
  <2>1. sent' \in Seq(Items)
    BY <1>0 DEF TypeOK, LocalsOK, Appending
  <2>2. ListType'
    BY <1>0 DEF ListType, LocalsOK, Appending
  <2>3. connected' \in BOOLEAN /\ crashed' \in BOOLEAN /\ overlap' \in BOOLEAN
    BY <1>0 DEF TypeOK, Overlapping
  <2>4. TypeOK'
    BY <2>0, <2>1, <2>2, <2>3 DEF TypeOK, ListType
  <2>5. LocalsOK'
    BY <1>0 DEF ListType, LocalsOK, Appending, Threads
  <2>6. Allocated'
    BY <1>0 DEF ListType, LocalsOK, Allocated, Appending, Threads
  <2>7. ~overlap' => Alone'
    BY <1>0 DEF ListType, LocalsOK, Allocated, Alone, Threads, Appending, Overlapping
  <2> QED
    BY <2>4, <2>5, <2>6, <2>7 DEF IInv
<1>5. ASSUME StartFlush PROVE IInv'
  <2> USE <1>5 DEF StartFlush, At, Goto, list, locals
  <2>0. left' \in [Items -> 0 .. Size] /\ wire' \in Seq(Items)
    BY <1>0 DEF TypeOK
  <2>1. sent' \in Seq(Items)
    BY <1>0 DEF TypeOK, LocalsOK, Appending
  <2>2. ListType'
    BY <1>0 DEF ListType, LocalsOK, Appending
  <2>3. connected' \in BOOLEAN /\ crashed' \in BOOLEAN /\ overlap' \in BOOLEAN
    BY <1>0 DEF TypeOK, Overlapping
  <2>4. TypeOK'
    BY <2>0, <2>1, <2>2, <2>3 DEF TypeOK, ListType
  <2>5. LocalsOK'
    BY <1>0 DEF ListType, LocalsOK, Appending, Threads
  <2>6. Allocated'
    BY <1>0 DEF ListType, LocalsOK, Allocated, Appending, Threads
  <2>7. ~overlap' => Alone'
    BY <1>0 DEF ListType, LocalsOK, Allocated, Alone, Threads, Appending, Overlapping
  <2> QED
    BY <2>4, <2>5, <2>6, <2>7 DEF IInv
<1>6. ASSUME WriteAll PROVE IInv'
  <2> USE <1>6 DEF WriteAll, At, Goto, list, locals
  <2>0. left' \in [Items -> 0 .. Size] /\ wire' \in Seq(Items)
    <3>1. sq \in Items /\ left[sq] \in 0 .. Size
      BY <1>0 DEF LocalsOK, TypeOK
    <3> QED
      BY <1>0, <3>1, WriteType
  <2>1. sent' \in Seq(Items)
    BY <1>0 DEF TypeOK, LocalsOK, Appending
  <2>2. ListType'
    BY <1>0 DEF ListType, LocalsOK, Appending
  <2>3. connected' \in BOOLEAN /\ crashed' \in BOOLEAN /\ overlap' \in BOOLEAN
    BY <1>0 DEF TypeOK, Overlapping
  <2>4. TypeOK'
    BY <2>0, <2>1, <2>2, <2>3 DEF TypeOK, ListType
  <2>5. LocalsOK'
    BY <1>0 DEF ListType, LocalsOK, Appending, Threads
  <2>6. Allocated'
    BY <1>0 DEF ListType, LocalsOK, Allocated, Appending, Threads
  <2>7. ~overlap' => Alone'
    BY <1>0 DEF ListType, LocalsOK, Allocated, Alone, Threads, Appending, Overlapping
  <2> QED
    BY <2>4, <2>5, <2>6, <2>7 DEF IInv
<1>7. ASSUME WritePart PROVE IInv'
  <2> USE <1>7 DEF WritePart, At, Goto, list, locals
  <2>0. left' \in [Items -> 0 .. Size] /\ wire' \in Seq(Items)
    <3>1. sq \in Items /\ left[sq] \in 0 .. Size
      BY <1>0 DEF LocalsOK, TypeOK
    <3> QED
      BY <1>0, <3>1, WriteType
  <2>1. sent' \in Seq(Items)
    BY <1>0 DEF TypeOK, LocalsOK, Appending
  <2>2. ListType'
    BY <1>0 DEF ListType, LocalsOK, Appending
  <2>3. connected' \in BOOLEAN /\ crashed' \in BOOLEAN /\ overlap' \in BOOLEAN
    BY <1>0 DEF TypeOK, Overlapping
  <2>4. TypeOK'
    BY <2>0, <2>1, <2>2, <2>3 DEF TypeOK, ListType
  <2>5. LocalsOK'
    BY <1>0 DEF ListType, LocalsOK, Appending, Threads
  <2>6. Allocated'
    BY <1>0 DEF ListType, LocalsOK, Allocated, Appending, Threads
  <2>7. ~overlap' => Alone'
    BY <1>0 DEF ListType, LocalsOK, Allocated, Alone, Threads, Appending, Overlapping
  <2> QED
    BY <2>4, <2>5, <2>6, <2>7 DEF IInv
<1>8. ASSUME WriteFails PROVE IInv'
  <2> USE <1>8 DEF WriteFails, At, Goto, list, locals
  <2>0. left' \in [Items -> 0 .. Size] /\ wire' \in Seq(Items)
    BY <1>0 DEF TypeOK
  <2>1. sent' \in Seq(Items)
    BY <1>0 DEF TypeOK, LocalsOK, Appending
  <2>2. ListType'
    BY <1>0 DEF ListType, LocalsOK, Appending
  <2>3. connected' \in BOOLEAN /\ crashed' \in BOOLEAN /\ overlap' \in BOOLEAN
    BY <1>0 DEF TypeOK, Overlapping
  <2>4. TypeOK'
    BY <2>0, <2>1, <2>2, <2>3 DEF TypeOK, ListType
  <2>5. LocalsOK'
    BY <1>0 DEF ListType, LocalsOK, Appending, Threads
  <2>6. Allocated'
    BY <1>0 DEF ListType, LocalsOK, Allocated, Appending, Threads
  <2>7. ~overlap' => Alone'
    BY <1>0 DEF ListType, LocalsOK, Allocated, Alone, Threads, Appending, Overlapping
  <2> QED
    BY <2>4, <2>5, <2>6, <2>7 DEF IInv
<1>9. ASSUME Pop PROVE IInv'
  <2> USE <1>9 DEF Pop, At, Goto, list, locals
  <2>0. left' \in [Items -> 0 .. Size] /\ wire' \in Seq(Items)
    BY <1>0 DEF TypeOK
  <2>1. sent' \in Seq(Items)
    BY <1>0 DEF TypeOK, LocalsOK, Appending
  <2>2. ListType'
    BY <1>0 DEF ListType, LocalsOK, Appending
  <2>3. connected' \in BOOLEAN /\ crashed' \in BOOLEAN /\ overlap' \in BOOLEAN
    BY <1>0 DEF TypeOK, Overlapping
  <2>4. TypeOK'
    BY <2>0, <2>1, <2>2, <2>3 DEF TypeOK, ListType
  <2>5. LocalsOK'
    BY <1>0 DEF ListType, LocalsOK, Appending, Threads
  <2>6. Allocated'
    BY <1>0 DEF ListType, LocalsOK, Allocated, Appending, Threads
  <2>7. ~overlap' => Alone'
    BY <1>0 DEF ListType, LocalsOK, Allocated, Alone, Threads, Appending, Overlapping
  <2> QED
    BY <2>4, <2>5, <2>6, <2>7 DEF IInv
<1>10. ASSUME ClearTail PROVE IInv'
  <2> USE <1>10 DEF ClearTail, At, Goto, list, locals
  <2>0. left' \in [Items -> 0 .. Size] /\ wire' \in Seq(Items)
    BY <1>0 DEF TypeOK
  <2>1. sent' \in Seq(Items)
    BY <1>0 DEF TypeOK, LocalsOK, Appending
  <2>2. ListType'
    <3>1. tail' \in 0 .. MaxItems
      OBVIOUS
    <3>2. pc' \in [Threads -> {"idle", "head", "link", "tail", "write", "pop", "clear"}]
      BY <1>0 DEF ListType
    <3> QED
      BY <1>0, <3>1, <3>2 DEF ListType
  <2>3. connected' \in BOOLEAN /\ crashed' \in BOOLEAN /\ overlap' \in BOOLEAN
    BY <1>0 DEF TypeOK, Overlapping
  <2>4. TypeOK'
    BY <2>0, <2>1, <2>2, <2>3 DEF TypeOK, ListType
  <2>5. LocalsOK'
    BY <1>0 DEF ListType, LocalsOK, Appending, Threads
  <2>6. Allocated'
    BY <1>0 DEF ListType, LocalsOK, Allocated, Appending, Threads
  <2>7. ~overlap' => Alone'
    BY <1>0 DEF ListType, LocalsOK, Allocated, Alone, Threads, Appending, Overlapping
  <2> QED
    BY <2>4, <2>5, <2>6, <2>7 DEF IInv
<1>11. ASSUME ConnectionLost PROVE IInv'
  <2> USE <1>11 DEF ConnectionLost, At, Goto, list, locals
  <2>0. left' \in [Items -> 0 .. Size] /\ wire' \in Seq(Items)
    BY <1>0 DEF TypeOK
  <2>1. sent' \in Seq(Items)
    BY <1>0 DEF TypeOK, LocalsOK, Appending
  <2>2. ListType'
    BY <1>0 DEF ListType, LocalsOK, Appending
  <2>3. connected' \in BOOLEAN /\ crashed' \in BOOLEAN /\ overlap' \in BOOLEAN
    BY <1>0 DEF TypeOK, Overlapping
  <2>4. TypeOK'
    BY <2>0, <2>1, <2>2, <2>3 DEF TypeOK, ListType
  <2>5. LocalsOK'
    BY <1>0 DEF ListType, LocalsOK, Appending, Threads
  <2>6. Allocated'
    BY <1>0 DEF ListType, LocalsOK, Allocated, Appending, Threads
  <2>7. ~overlap' => Alone'
    BY <1>0 DEF ListType, LocalsOK, Allocated, Alone, Threads, Appending, Overlapping
  <2> QED
    BY <2>4, <2>5, <2>6, <2>7 DEF IInv
<1>12. CASE UNCHANGED vars
  <2> USE <1>0, <1>12 DEF vars, list, locals
  <2>1. TypeOK'
    BY DEF TypeOK
  <2>2. LocalsOK' /\ Allocated'
    BY DEF LocalsOK, Allocated
  <2>3. ~overlap' => Alone'
    BY DEF Alone
  <2> QED
    BY <2>1, <2>2, <2>3 DEF IInv
<1> QED
  BY <1>1, <1>2, <1>3, <1>4, <1>5, <1>6, <1>7, <1>8, <1>9, <1>10, <1>11, <1>12 DEF Next

\* The send queue keeps its types.
THEOREM TypeCorrect == Spec => []TypeOK
<1>1. Init => IInv
  BY InitIInv
<1>2. IInv /\ [Next]_vars => IInv'
  BY NextIInv
<1>3. IInv => TypeOK
  BY DEF IInv
<1> QED
  BY <1>1, <1>2, <1>3, PTL DEF Spec

\* As long as the calls of the two threads do not overlap, nothing is written
\* through a null pointer or to an item that has been freed.
THEOREM SafeAlone == Spec => []NoCrashAlone
<1>1. Init => IInv
  BY InitIInv
<1>2. IInv /\ [Next]_vars => IInv'
  BY NextIInv
<1>3. IInv => NoCrashAlone
  BY DEF IInv, Alone, NoCrashAlone
<1> QED
  BY <1>1, <1>2, <1>3, PTL DEF Spec

-----------------------------------------------------------------------------
(* The stream.                                                             *)

\* A call of xmpp_send_raw has begun.
Busy == \E t \in Threads : pc[t] \in Appending

\* While no calls overlap: the items are sent in the order of their numbers, the first f
\* are written and freed, and the others are in the list.
Numbered(f) ==
  /\ f \in 0 .. Len(sent) /\ freed = 1 .. f
  /\ \A k \in DOMAIN sent : sent[k] = k
  /\ Len(sent) <= allocated
  /\ allocated = IF Busy THEN Len(sent) + 1 ELSE Len(sent)
  /\ \A t \in Threads : pc[t] \in Appending => item[t] = allocated

ListOf(f) ==
  /\ \A i \in Items : f < i /\ i < Len(sent) => next[i] = i + 1
  /\ \A t \in Threads : pc[t] = "tail" /\ f < Len(sent) => next[Len(sent)] = allocated
  /\ head = IF f < Len(sent) \/ \E t \in Threads : pc[t] = "tail" THEN f + 1 ELSE 0
  /\ pc["loop"] # "clear" => tail = IF f < Len(sent) THEN Len(sent) ELSE 0
  /\ pc["loop"] = "clear" => f = Len(sent)
  /\ \A t \in Threads : (pc[t] = "head" => f = Len(sent)) /\ (pc[t] = "link" => f < Len(sent))
  /\ pc["loop"] \in {"write", "pop"} => sq = f + 1 /\ f < Len(sent)

WrittenTo(f) ==
  /\ \A i \in Items : (i <= f => left[i] = 0) /\ (i > f + 1 => left[i] = Size)
  /\ pc["loop"] = "pop" => left[sq] = 0
  /\ \A p \in DOMAIN wire : wire[p] <= f + 1 /\ wire[p] <= Len(sent)
  /\ \A p, q \in DOMAIN wire : p < q => wire[p] <= wire[q]

Stream(f) == Numbered(f) /\ ListOf(f) /\ WrittenTo(f)

StreamInv == ~overlap => \E f \in 0 .. MaxItems : Stream(f)

\* v is w and n bytes of x after it.
WithBytes(w, x, n, v) == v = w \o [k \in 1 .. n |-> x]

\* How many bytes of item i are in w.
BytesOf(w, i) == Cardinality({p \in DOMAIN w : w[p] = i})

\* Where the bytes are once n bytes of x are written.
LEMMA Written ==
  ASSUME NEW w \in Seq(Items), NEW x \in Items, NEW n \in Nat, NEW v, WithBytes(w, x, n, v)
  PROVE  /\ Len(w) \in Nat /\ DOMAIN w = 1 .. Len(w) /\ DOMAIN v = 1 .. Len(w) + n
         /\ \A p \in 1 .. Len(w) : v[p] = w[p]
         /\ \A p \in Len(w) + 1 .. Len(w) + n : v[p] = x
<1> DEFINE m == Len(w)
           b == [k \in 1 .. n |-> x]
           N == m + 1 .. m + n
<1>1. m \in Nat /\ DOMAIN w = 1 .. m /\ b \in Seq(Items) /\ Len(b) = n /\ \A k \in 1 .. n : b[k] = x
  OBVIOUS
<1>2. DOMAIN v = 1 .. m + n /\ (\A p \in 1 .. m : v[p] = w[p]) /\ \A p \in N : v[p] = x
  <2> HIDE DEF b
  <2>1. v = w \o b
    BY DEF b, WithBytes
  <2>2. w \o b \in Seq(Items) /\ Len(w \o b) = Len(w) + Len(b)
    BY <1>1, ConcatProperties
  <2>3. Len(v) = m + n /\ DOMAIN v = 1 .. Len(v)
    BY <1>1, <2>1, <2>2
  <2>4. \A p \in 1 .. m + n : v[p] = IF p <= m THEN w[p] ELSE b[p - m]
    BY <1>1, <2>1, ConcatProperties
  <2>5. ASSUME NEW p \in N PROVE v[p] = x
    <3>1. p \in 1 .. m + n /\ ~(p <= m) /\ p - m \in 1 .. n
      BY <1>1
    <3>2. QED
      BY <1>1, <2>4, <3>1
  <2>6. ASSUME NEW p \in 1 .. m PROVE v[p] = w[p]
    <3>1. p \in 1 .. m + n /\ p <= m
      BY <1>1
    <3>2. QED
      BY <2>4, <3>1
  <2>7. QED
    BY <2>3, <2>5, <2>6
<1>3. QED
  BY <1>1, <1>2

\* A sequence of items has an item at every position.
LEMMA ItemAt == \A w \in Seq(Items) : \A p \in DOMAIN w : w[p] \in Items
OBVIOUS

\* How many bytes of each item there are then.
LEMMA CountWritten ==
  ASSUME NEW w \in Seq(Items), NEW x \in Items, NEW n \in Nat, NEW i \in Items,
         NEW v, WithBytes(w, x, n, v)
  PROVE  /\ BytesOf(w, i) \in Nat
         /\ i # x => BytesOf(v, i) = BytesOf(w, i)
         /\ i = x => BytesOf(v, i) = BytesOf(w, i) + n
<1> DEFINE m == Len(w)
           P == {p \in DOMAIN w : w[p] = i}
           Q == {p \in DOMAIN v : v[p] = i}
           N == m + 1 .. m + n
<1>1. m \in Nat /\ DOMAIN w = 1 .. m
  BY Written
<1>2. DOMAIN v = 1 .. m + n /\ (\A p \in 1 .. m : v[p] = w[p]) /\ \A p \in N : v[p] = x
  BY Written
<1> HIDE DEF m
<1>3. /\ \A p \in P : p \in 1 .. m
      /\ \A p \in N : p \in 1 .. m + n /\ p \notin 1 .. m
      /\ \A p \in Q : p \in P \/ (p \in N /\ i = x)
      /\ \A p \in P : p \in Q
      /\ i = x => \A p \in N : p \in Q
  <2>1. \A p \in 1 .. m + n : p \in 1 .. m \/ p \in N
    BY <1>1
  <2>2. (\A p \in 1 .. m : p \in 1 .. m + n) /\ \A p \in N : p \in 1 .. m + n /\ p \notin 1 .. m
    BY <1>1
  <2> HIDE DEF N
  <2>3. QED
    BY <1>1, <1>2, <2>1, <2>2
<1>4. IsFiniteSet(N) /\ Cardinality(N) = n
  <2>1. PICK c \in Int, d \in Int : c = m + 1 /\ d = m + n
    BY <1>1
  <2>2. IsFiniteSet(c .. d) /\ Cardinality(c .. d) = IF c > d THEN 0 ELSE d - c + 1
    BY FS_Interval
  <2>3. N = c .. d
    BY <2>1
  <2>4. QED
    BY <1>1, <2>1, <2>2, <2>3
<1>5. BytesOf(w, i) = Cardinality(P) /\ BytesOf(v, i) = Cardinality(Q)
  BY DEF BytesOf
<1> HIDE DEF P, Q, N
<1>6. IsFiniteSet(P) /\ Cardinality(P) \in Nat
  <2>1. IsFiniteSet(1 .. m) /\ P \subseteq 1 .. m
    BY <1>1, <1>3, FS_Interval
  <2>2. IsFiniteSet(P)
    BY <2>1, FS_Subset
  <2>3. QED
    BY <2>2, FS_CardinalityType
<1>7. CASE i # x
  <2>1. Q = P
    BY <1>3, <1>7
  <2>2. BytesOf(w, i) \in Nat /\ BytesOf(v, i) = BytesOf(w, i)
    BY <1>5, <1>6, <2>1
  <2>3. QED
    BY <1>7, <2>2
<1>8. CASE i = x
  <2>1. Q = P \cup N /\ P \cap N = {}
    BY <1>3, <1>8
  <2>2. Cardinality(P \cup N) = Cardinality(P) + Cardinality(N) - Cardinality(P \cap N)
    BY <1>4, <1>6, FS_Union
  <2>3. Cardinality(P \cap N) = 0
    BY <2>1, FS_EmptySet
  <2>4. BytesOf(w, i) \in Nat /\ BytesOf(v, i) = BytesOf(w, i) + n
    BY <1>4, <1>5, <1>6, <2>1, <2>2, <2>3
  <2>5. QED
    BY <1>8, <2>4
<1>9. QED
  BY <1>7, <1>8

\* A write moves bytes from what is left to the wire.
LEMMA WriteKeepsBytes ==
  ASSUME TypeOK, EachByteOnce, sq \in Items, NEW n \in 0 .. left[sq], Write(n)
  PROVE  EachByteOnce'
<1>1. n \in Nat /\ left \in [Items -> 0 .. Size] /\ wire \in Seq(Items) /\ left[sq] \in Nat /\ Size \in Nat
  BY SendQueueAssumption DEF TypeOK
<1>2. WithBytes(wire, sq, n, wire')
  BY DEF Write, WithBytes
<1>3. left'[sq] = left[sq] - n /\ \A i \in Items \ {sq} : left'[i] = left[i]
  BY <1>1 DEF Write
<1>4. ASSUME NEW i \in Items PROVE BytesOf(wire', i) + left'[i] = Size
  <2>1. BytesOf(wire, i) + left[i] = Size
    BY DEF EachByteOnce, BytesOf
  <2>2. /\ BytesOf(wire, i) \in Nat
        /\ i # sq => BytesOf(wire', i) = BytesOf(wire, i)
        /\ i = sq => BytesOf(wire', i) = BytesOf(wire, i) + n
    BY <1>1, <1>2, CountWritten
  <2>3. left[i] \in Nat
    BY <1>1
  <2>4. QED
    BY <1>1, <1>3, <2>1, <2>2, <2>3
<1>5. QED
  BY <1>4 DEF EachByteOnce, BytesOf

\* Nothing is written in the beginning.
LEMMA InitBytes == Init => EachByteOnce
<1> SUFFICES ASSUME Init, NEW i \in Items PROVE Cardinality({p \in DOMAIN wire : wire[p] = i}) + left[i] = Size
  BY DEF EachByteOnce
<1>1. {p \in DOMAIN wire : wire[p] = i} = {} /\ left[i] = Size
  BY DEF Init
<1>2. QED
  BY <1>1, FS_EmptySet, SendQueueAssumption

\* Every step keeps count of the bytes.
LEMMA NextBytes == IInv /\ EachByteOnce /\ [Next]_vars => EachByteOnce'
<1> SUFFICES ASSUME IInv, EachByteOnce, [Next]_vars PROVE EachByteOnce'
  OBVIOUS
<1>1. TypeOK /\ left \in [Items -> 0 .. Size] /\ (pc["loop"] = "write" => sq \in Items)
  BY DEF IInv, TypeOK, LocalsOK
<1>2. CASE UNCHANGED <<left, wire>>
  BY <1>2 DEF EachByteOnce
<1>3. CASE WriteAll
  <2>1. sq \in Items /\ left[sq] \in 0 .. left[sq] /\ Write(left[sq])
    BY <1>1, <1>3, SendQueueAssumption DEF WriteAll, At
  <2>2. QED
    BY <1>1, <2>1, WriteKeepsBytes
<1>4. CASE WritePart
  <2>1. sq \in Items /\ left[sq] \in Nat
    BY <1>1, <1>4, SendQueueAssumption DEF WritePart, At
  <2>2. PICK n \in 0 .. left[sq] - 1 : Write(n)
    BY <1>4 DEF WritePart
  <2>3. n \in 0 .. left[sq]
    BY <2>1
  <2>4. QED
    BY <1>1, <2>1, <2>2, <2>3, WriteKeepsBytes
<1>5. ASSUME NEW t \in Threads, Send(t) \/ SetHead(t) \/ Link(t) \/ SetTail(t) PROVE UNCHANGED <<left, wire>>
  BY <1>5 DEF Send, SetHead, Link, SetTail
<1>6. CASE StartFlush \/ WriteFails \/ Pop \/ ClearTail \/ ConnectionLost \/ UNCHANGED vars
  BY <1>2, <1>6 DEF StartFlush, WriteFails, Pop, ClearTail, ConnectionLost, vars, list
<1>7. QED
  BY <1>2, <1>3, <1>4, <1>5, <1>6 DEF Next

\* What a quiet moment of one thread at a time is like.
StreamContext(f) ==
  TypeOK /\ ListType /\ LocalsOK /\ Allocated /\ Alone /\ Stream(f)

\* The stream begins empty.
LEMMA StreamStart == Init => Stream(0)
<1> SUFFICES ASSUME Init PROVE Stream(0)
  OBVIOUS
<1> USE SendQueueAssumption DEF Init, Threads, Appending, Items
<1>1. Len(sent) = 0 /\ DOMAIN sent = {} /\ DOMAIN wire = {}
  OBVIOUS
<1>2. Numbered(0)
  BY <1>1 DEF Numbered, Busy
<1>3. ListOf(0)
  BY <1>1 DEF ListOf
<1>4. WrittenTo(0)
  BY <1>1 DEF WrittenTo
<1>5. QED
  BY <1>2, <1>3, <1>4 DEF Stream

\* A call of xmpp_send_raw begins.
LEMMA StreamSend ==
  ASSUME NEW f \in 0 .. MaxItems, NEW t \in Threads, StreamContext(f), Send(t), ~overlap'
  PROVE  Stream(f)'
<1> USE SendQueueAssumption DEF Threads, Appending, Items
<1>1. /\ \A u \in Threads : pc[u] = "idle" /\ (u # t => pc'[u] = "idle")
      /\ pc'[t] = (IF tail = 0 THEN "head" ELSE "link")
      /\ item'[t] = allocated + 1 /\ allocated' = allocated + 1
      /\ UNCHANGED <<head, tail, next, left, freed, sq, wire, sent>>
  BY DEF StreamContext, ListType, Send, At, Goto, Overlapping
<1>2. Len(sent) \in Nat /\ allocated \in Nat /\ DOMAIN sent = 1 .. Len(sent)
  BY DEF StreamContext, TypeOK
<1>3. /\ ~Busy /\ Busy' /\ allocated = Len(sent)
      /\ f \in 0 .. Len(sent) /\ freed = 1 .. f /\ \A k \in DOMAIN sent : sent[k] = k
  BY <1>1, <1>2 DEF StreamContext, Stream, Numbered, Busy
<1>4. Numbered(f)'
  <2>1. \A u \in Threads : pc'[u] \in Appending => item'[u] = allocated'
    BY <1>1
  <2>2. QED
    BY <1>1, <1>2, <1>3, <2>1 DEF Numbered
<1>5. ListOf(f)'
  <2>1. /\ \A i \in Items : f < i /\ i < Len(sent) => next[i] = i + 1
        /\ head = IF f < Len(sent) THEN f + 1 ELSE 0
        /\ tail = IF f < Len(sent) THEN Len(sent) ELSE 0
    BY <1>1 DEF StreamContext, Stream, ListOf
  <2>2. \A u \in Threads :
          /\ pc'[u] # "tail"
          /\ pc'[u] = "head" => f = Len(sent)
          /\ pc'[u] = "link" => f < Len(sent)
    <3>1. (tail = 0 => f = Len(sent)) /\ (tail # 0 => f < Len(sent))
      <4>1. f \in Nat /\ f <= Len(sent) /\ Len(sent) \in Nat
        BY <1>2, <1>3
      <4>2. CASE f < Len(sent)
        <5>1. tail = Len(sent)
          BY <2>1, <4>2
        <5>2. QED
          BY <4>1, <4>2, <5>1
      <4>3. CASE ~(f < Len(sent))
        <5>1. tail = 0
          BY <2>1, <4>3
        <5>2. QED
          BY <4>1, <4>3, <5>1
      <4>4. QED
        BY <4>2, <4>3
    <3>2. /\ pc'[t] = "head" => tail = 0
          /\ pc'[t] = "link" => tail # 0
          /\ pc'[t] \in {"head", "link"}
      BY <1>1
    <3>3. \A u \in Threads : u # t => pc'[u] = "idle"
      BY <1>1
    <3> HIDE DEF Threads
    <3>4. QED
      BY <3>1, <3>2, <3>3
  <2>3. pc'["loop"] \notin {"write", "pop", "clear"}
    BY <1>1
  <2>4. QED
    BY <1>1, <2>1, <2>2, <2>3 DEF ListOf
<1>6. WrittenTo(f)'
  BY <1>1 DEF StreamContext, Stream, WrittenTo
<1>7. QED
  BY <1>4, <1>5, <1>6 DEF Stream

\* The first item of an empty list becomes its head.
LEMMA StreamSetHead ==
  ASSUME NEW f \in 0 .. MaxItems, NEW t \in Threads, StreamContext(f), SetHead(t)
  PROVE  Stream(f)'
<1> USE SendQueueAssumption DEF Threads, Appending, Items
<1>1. /\ pc[t] = "head" /\ pc'[t] = "tail"
      /\ \A u \in Threads : u # t => pc[u] = "idle" /\ pc'[u] = "idle"
      /\ head' = item[t]
      /\ UNCHANGED <<tail, next, left, freed, allocated, item, sq, wire, sent>>
  BY DEF StreamContext, ListType, Alone, SetHead, At, Goto
<1>2. Len(sent) \in Nat /\ allocated \in Nat /\ DOMAIN sent = 1 .. Len(sent)
  BY DEF StreamContext, TypeOK
<1>3. Numbered(f)'
  BY <1>1, <1>2 DEF StreamContext, Stream, Numbered, Busy
<1>4. f = Len(sent) /\ item[t] = Len(sent) + 1
  BY <1>1 DEF StreamContext, Stream, Numbered, ListOf, Busy
<1>5. ListOf(f)'
  <2>1. /\ \A i \in Items : f < i /\ i < Len(sent) => next[i] = i + 1
        /\ tail = 0
    BY <1>1, <1>4 DEF StreamContext, Stream, ListOf
  <2>2. \A u \in Threads : pc'[u] \in {"tail", "idle"}
    BY <1>1
  <2>3. QED
    BY <1>1, <1>2, <1>4, <2>1, <2>2 DEF ListOf
<1>6. WrittenTo(f)'
  BY <1>1 DEF StreamContext, Stream, WrittenTo
<1>7. QED
  BY <1>3, <1>5, <1>6 DEF Stream

\* The last item gets its successor.
LEMMA StreamLink ==
  ASSUME NEW f \in 0 .. MaxItems, NEW t \in Threads, StreamContext(f), Link(t)
  PROVE  Stream(f)'
<1> USE SendQueueAssumption DEF Threads, Appending, Items
<1>1. /\ pc[t] = "link" /\ pc'[t] = "tail"
      /\ \A u \in Threads : u # t => pc[u] = "idle" /\ pc'[u] = "idle"
      /\ UNCHANGED <<head, tail, left, freed, allocated, item, sq, wire, sent>>
  BY DEF StreamContext, ListType, Alone, Link, At, Goto
<1>2. Len(sent) \in Nat /\ allocated \in Nat /\ DOMAIN sent = 1 .. Len(sent)
  BY DEF StreamContext, TypeOK
<1>3. Numbered(f)'
  BY <1>1, <1>2 DEF StreamContext, Stream, Numbered, Busy
<1>4. f < Len(sent) /\ item[t] = allocated /\ tail = Len(sent)
  BY <1>1, <1>2 DEF StreamContext, Stream, Numbered, ListOf
<1>5. tail \in Items \ freed
  BY <1>1, <1>2, <1>4 DEF StreamContext, Alone, ListType
<1>6. next'[tail] = allocated /\ \A i \in Items : i # tail => next'[i] = next[i]
  BY <1>4, <1>5 DEF StreamContext, Link, ListType
<1>7. ListOf(f)'
  BY <1>1, <1>2, <1>4, <1>6 DEF StreamContext, Stream, Numbered, ListOf
<1>8. WrittenTo(f)'
  BY <1>1 DEF StreamContext, Stream, WrittenTo
<1>9. QED
  BY <1>3, <1>7, <1>8 DEF Stream

\* The call returns, and the item is the last of those that have been sent.
LEMMA StreamSetTail ==
  ASSUME NEW f \in 0 .. MaxItems, NEW t \in Threads, StreamContext(f), SetTail(t)
  PROVE  Stream(f)'
<1> USE SendQueueAssumption DEF Threads, Appending, Items
<1>1. /\ pc[t] = "tail" /\ pc'[t] = "idle"
      /\ \A u \in Threads : u # t => pc[u] = "idle" /\ pc'[u] = "idle"
      /\ tail' = item[t]
      /\ UNCHANGED <<head, next, left, freed, allocated, item, sq, wire>>
  BY DEF StreamContext, ListType, Alone, SetTail, At, Goto
<1>2. Len(sent) \in Nat /\ allocated \in Nat /\ DOMAIN sent = 1 .. Len(sent) /\ sent \in Seq(Items)
  BY DEF StreamContext, TypeOK
<1>3. allocated = Len(sent) + 1 /\ item[t] = allocated
  BY <1>1 DEF StreamContext, Stream, Numbered, Busy
<1>4. /\ Len(sent') = Len(sent) + 1 /\ DOMAIN sent' = 1 .. Len(sent')
      /\ \A k \in DOMAIN sent : sent'[k] = sent[k]
      /\ sent'[Len(sent) + 1] = allocated
  BY <1>2, <1>3 DEF SetTail
<1>5. Numbered(f)'
  <2>1. /\ f \in 0 .. Len(sent) /\ freed = 1 .. f
        /\ \A k \in DOMAIN sent : sent[k] = k
    BY DEF StreamContext, Stream, Numbered
  <2>2. ~Busy' /\ \A u \in Threads : pc'[u] \notin Appending
    BY <1>1 DEF Busy
  <2>3. \A k \in DOMAIN sent' : sent'[k] = k
    BY <1>2, <1>3, <1>4, <2>1
  <2>4. QED
    BY <1>1, <1>2, <1>3, <1>4, <2>1, <2>2, <2>3 DEF Numbered
<1>6. ListOf(f)'
  <2>1. /\ \A i \in Items : f < i /\ i < Len(sent) => next[i] = i + 1
        /\ f < Len(sent) => next[Len(sent)] = allocated
        /\ head = f + 1
        /\ f \in 0 .. Len(sent)
    BY <1>1 DEF StreamContext, Stream, Numbered, ListOf
  <2>2. \A u \in Threads : pc'[u] = "idle"
    BY <1>1
  <2>3. \A i \in Items : f < i /\ i < Len(sent) + 1 => next[i] = i + 1
    BY <1>2, <1>3, <2>1
  <2>4. QED
    BY <1>1, <1>2, <1>3, <1>4, <2>1, <2>2, <2>3 DEF ListOf
<1>7. WrittenTo(f)'
  BY <1>1, <1>2, <1>4 DEF StreamContext, Stream, WrittenTo, TypeOK
<1>8. QED
  BY <1>5, <1>6, <1>7 DEF Stream

\* A flush begins at the head, or the connection ends.
LEMMA StreamKeeps ==
  ASSUME NEW f \in 0 .. MaxItems, StreamContext(f), ~overlap',
         StartFlush \/ WriteFails \/ ConnectionLost \/ UNCHANGED vars
  PROVE  Stream(f)'
<1> USE SendQueueAssumption DEF Threads, Appending, Items
<1>1. UNCHANGED <<head, tail, next, left, freed, allocated, item, wire, sent>>
  BY DEF StartFlush, WriteFails, ConnectionLost, vars, list, locals
<1>2. Len(sent) \in Nat /\ allocated \in Nat /\ DOMAIN sent = 1 .. Len(sent)
  BY DEF StreamContext, TypeOK
<1>3. CASE StartFlush
  <2>1. pc["app"] = "idle" /\ pc["loop"] = "idle" /\ pc'["app"] = "idle" /\ pc'["loop"] = "write" /\ sq' = head /\ head # 0
    BY <1>3 DEF StreamContext, ListType, StartFlush, At, Goto, Overlapping
  <2>2. Numbered(f)'
    BY <1>1, <1>2, <2>1 DEF StreamContext, Stream, Numbered, Busy
  <2>3. ListOf(f)' /\ WrittenTo(f)'
    BY <1>1, <1>2, <2>1 DEF StreamContext, Stream, Numbered, ListOf, WrittenTo
  <2>4. QED
    BY <2>2, <2>3 DEF Stream
<1>4. CASE WriteFails
  <2>1. pc["loop"] = "write" /\ pc["app"] = "idle" /\ pc'["app"] = "idle" /\ pc'["loop"] = "idle" /\ sq' = sq
    BY <1>4 DEF StreamContext, ListType, Alone, WriteFails, At, Goto
  <2>2. Numbered(f)'
    BY <1>1, <1>2, <2>1 DEF StreamContext, Stream, Numbered, Busy
  <2>3. ListOf(f)' /\ WrittenTo(f)'
    BY <1>1, <1>2, <2>1 DEF StreamContext, Stream, Numbered, ListOf, WrittenTo
  <2>4. QED
    BY <2>2, <2>3 DEF Stream
<1>5. CASE ConnectionLost \/ UNCHANGED vars
  <2>1. UNCHANGED <<pc, sq>>
    BY <1>5 DEF ConnectionLost, vars, locals
  <2>2. QED
    BY <1>1, <2>1 DEF StreamContext, Stream, Numbered, Busy, ListOf, WrittenTo
<1>6. QED
  BY <1>3, <1>4, <1>5

\* What a write adds to the stream.
LEMMA StreamWrite ==
  ASSUME NEW f \in 0 .. MaxItems, NEW n \in Nat, StreamContext(f), pc["loop"] = "write", Write(n)
  PROVE  /\ sq = f + 1 /\ f < Len(sent)
         /\ left'[sq] = left[sq] - n /\ \A i \in Items : i # sq => left'[i] = left[i]
         /\ \A p \in DOMAIN wire' : wire'[p] <= f + 1 /\ wire'[p] <= Len(sent)
         /\ \A p, q \in DOMAIN wire' : p < q => wire'[p] <= wire'[q]
<1>1. sq = f + 1 /\ f < Len(sent) /\ sq \in Items /\ wire \in Seq(Items) /\ f \in Nat
  BY DEF StreamContext, Stream, ListOf, LocalsOK, TypeOK
<1>2. left'[sq] = left[sq] - n /\ \A i \in Items : i # sq => left'[i] = left[i]
  BY <1>1 DEF StreamContext, TypeOK, Write
<1>3. WithBytes(wire, sq, n, wire')
  BY DEF Write, WithBytes
<1>4. /\ Len(wire) \in Nat /\ DOMAIN wire = 1 .. Len(wire) /\ DOMAIN wire' = 1 .. Len(wire) + n
      /\ \A p \in 1 .. Len(wire) : wire'[p] = wire[p]
      /\ \A p \in Len(wire) + 1 .. Len(wire) + n : wire'[p] = sq
  BY <1>1, <1>3, Written
<1>5. /\ \A p \in 1 .. Len(wire) : wire[p] <= f + 1 /\ wire[p] \in Nat
      /\ \A p, q \in 1 .. Len(wire) : p < q => wire[p] <= wire[q]
  <2>1. \A p \in 1 .. Len(wire) : wire[p] \in Nat
    BY <1>1, <1>4, ItemAt DEF Items
  <2>2. QED
    BY <1>1, <1>4, <2>1 DEF StreamContext, Stream, WrittenTo
<1>6. \A p \in 1 .. Len(wire) + n : p \in 1 .. Len(wire) \/ p \in Len(wire) + 1 .. Len(wire) + n
  BY <1>4
<1>7. \A p \in DOMAIN wire' : wire'[p] \in Nat /\ wire'[p] <= f + 1
  BY <1>1, <1>4, <1>5, <1>6
<1>8. ASSUME NEW p \in DOMAIN wire', NEW q \in DOMAIN wire', p < q PROVE wire'[p] <= wire'[q]
  <2>1. CASE q \in 1 .. Len(wire)
    <3>1. p \in 1 .. Len(wire)
      BY <1>4, <1>8, <2>1
    <3>2. QED
      BY <1>4, <1>5, <1>8, <2>1, <3>1
  <2>2. CASE q \in Len(wire) + 1 .. Len(wire) + n
    BY <1>1, <1>4, <1>7, <2>2
  <2>3. QED
    BY <1>4, <1>6, <2>1, <2>2
<1>9. \A p, q \in DOMAIN wire' : p < q => wire'[p] <= wire'[q]
  BY <1>8
<1>10. \A p \in DOMAIN wire' : wire'[p] <= f + 1 /\ wire'[p] <= Len(sent)
  <2>1. Len(sent) \in Nat /\ f + 1 \in Nat
    BY <1>1 DEF StreamContext, TypeOK
  <2>2. QED
    BY <1>1, <1>7, <2>1
<1>11. sq = f + 1 /\ f < Len(sent)
  BY <1>1
<1>12. QED
  BY <1>2, <1>9, <1>10, <1>11

\* The item at the head is written, as a whole...
LEMMA StreamWriteAll ==
  ASSUME NEW f \in 0 .. MaxItems, StreamContext(f), WriteAll
  PROVE  Stream(f)'
<1> USE SendQueueAssumption DEF Threads, Appending, Items
<1>1. /\ pc["loop"] = "write" /\ pc["app"] = "idle" /\ pc'["app"] = "idle" /\ pc'["loop"] = "pop"
      /\ UNCHANGED <<head, tail, next, freed, allocated, item, sq, sent>>
  BY DEF StreamContext, ListType, Alone, WriteAll, At, Goto
<1>2. Len(sent) \in Nat /\ allocated \in Nat /\ DOMAIN sent = 1 .. Len(sent) /\ left[sq] \in Nat
  BY <1>1 DEF StreamContext, TypeOK, LocalsOK
<1>3. /\ sq = f + 1 /\ f < Len(sent)
      /\ left'[sq] = 0 /\ \A i \in Items : i # sq => left'[i] = left[i]
      /\ \A p \in DOMAIN wire' : wire'[p] <= f + 1 /\ wire'[p] <= Len(sent)
      /\ \A p, q \in DOMAIN wire' : p < q => wire'[p] <= wire'[q]
  BY <1>1, <1>2, StreamWrite DEF WriteAll
<1>4. Numbered(f)'
  BY <1>1, <1>2 DEF StreamContext, Stream, Numbered, Busy
<1>5. ListOf(f)'
  BY <1>1, <1>2, <1>3 DEF StreamContext, Stream, ListOf
<1>6. WrittenTo(f)'
  BY <1>1, <1>2, <1>3 DEF StreamContext, Stream, WrittenTo
<1>7. QED
  BY <1>4, <1>5, <1>6 DEF Stream

\* ...or in part.
LEMMA StreamWritePart ==
  ASSUME NEW f \in 0 .. MaxItems, StreamContext(f), WritePart
  PROVE  Stream(f)'
<1> USE SendQueueAssumption DEF Threads, Appending, Items
<1>1. /\ pc["loop"] = "write" /\ pc["app"] = "idle" /\ pc'["app"] = "idle" /\ pc'["loop"] = "idle"
      /\ UNCHANGED <<head, tail, next, freed, allocated, item, sq, sent>>
  BY DEF StreamContext, ListType, Alone, WritePart, At, Goto
<1>2. Len(sent) \in Nat /\ allocated \in Nat /\ DOMAIN sent = 1 .. Len(sent) /\ left[sq] \in Nat
  BY <1>1 DEF StreamContext, TypeOK, LocalsOK
<1>3. PICK n \in 0 .. left[sq] - 1 : Write(n)
  BY DEF WritePart
<1>4. n \in Nat
  BY <1>2
<1>5. /\ sq = f + 1 /\ f < Len(sent)
      /\ \A i \in Items : i # sq => left'[i] = left[i]
      /\ \A p \in DOMAIN wire' : wire'[p] <= f + 1 /\ wire'[p] <= Len(sent)
      /\ \A p, q \in DOMAIN wire' : p < q => wire'[p] <= wire'[q]
  BY <1>1, <1>3, <1>4, StreamWrite
<1>6. Numbered(f)'
  BY <1>1, <1>2 DEF StreamContext, Stream, Numbered, Busy
<1>7. ListOf(f)'
  BY <1>1, <1>2, <1>5 DEF StreamContext, Stream, ListOf
<1>8. WrittenTo(f)'
  BY <1>1, <1>2, <1>5 DEF StreamContext, Stream, WrittenTo
<1>9. QED
  BY <1>6, <1>7, <1>8 DEF Stream

\* A written item is freed, and the next one is at the head.
LEMMA StreamPop ==
  ASSUME NEW f \in 0 .. MaxItems, StreamContext(f), Pop
  PROVE  f + 1 \in 0 .. MaxItems /\ Stream(f + 1)'
<1> USE SendQueueAssumption DEF Threads, Appending, Items
<1>1. /\ pc["loop"] = "pop" /\ pc["app"] = "idle" /\ pc'["app"] = "idle"
      /\ pc'["loop"] = (IF next[sq] = 0 THEN "clear" ELSE "write")
      /\ sq' = next[sq] /\ head' = next[sq] /\ freed' = freed \cup {sq}
      /\ UNCHANGED <<tail, next, left, allocated, item, wire, sent>>
  BY DEF StreamContext, ListType, Alone, Pop, At, Goto
<1>2. Len(sent) \in Nat /\ allocated \in Nat /\ DOMAIN sent = 1 .. Len(sent) /\ allocated <= MaxItems
  BY DEF StreamContext, TypeOK
<1>3. sq = f + 1 /\ f < Len(sent) /\ Len(sent) = allocated /\ left[sq] = 0 /\ tail = Len(sent)
  BY <1>1 DEF StreamContext, Stream, Numbered, ListOf, WrittenTo, Busy
<1>4. next[sq] = IF f + 1 < Len(sent) THEN f + 2 ELSE 0
  <2>1. CASE f + 1 < Len(sent)
    <3>1. f + 1 \in 1 .. MaxItems
      BY <1>2, <1>3
    <3>2. QED
      BY <1>3, <2>1, <3>1 DEF StreamContext, Stream, ListOf
  <2>2. CASE f + 1 = Len(sent)
    BY <1>1, <1>3, <2>2 DEF StreamContext, Alone
  <2>3. QED
    BY <1>2, <1>3, <2>1, <2>2
<1>5. f + 1 \in 0 .. MaxItems
  BY <1>2, <1>3
<1>6. Numbered(f + 1)'
  <2>1. freed = 1 .. f /\ (\A k \in DOMAIN sent : sent[k] = k) /\ ~Busy /\ ~Busy'
    BY <1>1 DEF StreamContext, Stream, Numbered, Busy
  <2>2. (1 .. f) \cup {f + 1} = 1 .. f + 1
    OBVIOUS
  <2>3. freed' = 1 .. f + 1
    BY <1>1, <1>3, <2>1, <2>2
  <2>4. f + 1 \in 0 .. Len(sent)
    BY <1>2, <1>3
  <2>5. \A t \in Threads : pc'[t] \notin Appending
    BY <1>1
  <2>6. QED
    BY <1>1, <1>2, <1>3, <2>1, <2>3, <2>4, <2>5 DEF Numbered
<1>7. ListOf(f + 1)'
  BY <1>1, <1>2, <1>3, <1>4 DEF StreamContext, Stream, ListOf
<1>8. WrittenTo(f + 1)'
  <2>1. \A p \in DOMAIN wire : wire[p] \in Nat
    BY ItemAt DEF StreamContext, TypeOK
  <2>2. \A i \in Items : (i <= f + 1 => left[i] = 0) /\ (i > f + 1 + 1 => left[i] = Size)
    BY <1>3 DEF StreamContext, Stream, WrittenTo
  <2>3. \A p \in DOMAIN wire : wire[p] <= f + 1 + 1 /\ wire[p] <= Len(sent)
    BY <1>2, <2>1 DEF StreamContext, Stream, WrittenTo
  <2>4. QED
    BY <1>1, <2>2, <2>3 DEF StreamContext, Stream, WrittenTo
<1>9. QED
  BY <1>5, <1>6, <1>7, <1>8 DEF Stream

\* The tail of an emptied list is cleared.
LEMMA StreamClear ==
  ASSUME NEW f \in 0 .. MaxItems, StreamContext(f), ClearTail
  PROVE  Stream(f)'
<1> USE SendQueueAssumption DEF Threads, Appending, Items
<1>1. /\ pc["loop"] = "clear" /\ pc["app"] = "idle" /\ pc'["app"] = "idle" /\ pc'["loop"] = "idle"
      /\ tail' = 0
      /\ UNCHANGED <<head, next, left, freed, allocated, item, sq, wire, sent>>
  BY DEF StreamContext, ListType, Alone, ClearTail, At, Goto
<1>2. Numbered(f)'
  BY <1>1 DEF StreamContext, Stream, Numbered, Busy
<1>3. ListOf(f)' /\ WrittenTo(f)'
  BY <1>1 DEF StreamContext, Stream, Numbered, ListOf, WrittenTo
<1>4. QED
  BY <1>2, <1>3 DEF Stream

\* Every step keeps the stream.
LEMMA NextStream == IInv /\ StreamInv /\ [Next]_vars => StreamInv'
<1> SUFFICES ASSUME IInv, StreamInv, [Next]_vars, ~overlap'
             PROVE  \E g \in 0 .. MaxItems : Stream(g)'
  BY DEF StreamInv
<1>1. ~overlap
  BY DEF Next, Send, SetHead, Link, SetTail, StartFlush, WriteAll, WritePart, WriteFails, Pop, ClearTail,
         ConnectionLost, Overlapping, vars
<1>2. PICK f \in 0 .. MaxItems : Stream(f)
  BY <1>1 DEF StreamInv
<1>3. StreamContext(f)
  BY <1>1, <1>2 DEF StreamContext, IInv, TypeOK, ListType
<1>4. ASSUME NEW t \in Threads, Send(t) \/ SetHead(t) \/ Link(t) \/ SetTail(t) PROVE Stream(f)'
  BY <1>3, <1>4, StreamSend, StreamSetHead, StreamLink, StreamSetTail
<1>5. CASE StartFlush \/ WriteFails \/ ConnectionLost \/ UNCHANGED vars
  BY <1>3, <1>5, StreamKeeps
<1>6. CASE WriteAll \/ WritePart
  BY <1>3, <1>6, StreamWriteAll, StreamWritePart
<1>7. CASE ClearTail
  BY <1>3, <1>7, StreamClear
<1>8. CASE Pop
  BY <1>3, <1>8, StreamPop
<1>9. QED
  BY <1>2, <1>4, <1>5, <1>6, <1>7, <1>8 DEF Next

\* What is in the list is what was sent and is not written.
LEMMA QuietList ==
  ASSUME NEW f \in 0 .. MaxItems, StreamContext(f), Quiet
  PROVE  f \in 0 .. Len(sent) /\ Queued(SubSeq(sent, f + 1, Len(sent)))
<1> DEFINE L == Len(sent)
           s == SubSeq(sent, f + 1, L)
<1>1. /\ L \in Nat /\ f \in Nat /\ f <= L /\ DOMAIN sent = 1 .. L
      /\ sent \in Seq(Items) /\ allocated \in Nat /\ allocated <= MaxItems /\ MaxItems \in Nat
  BY SendQueueAssumption DEF StreamContext, Stream, Numbered, TypeOK
<1>2. \A t \in Threads : pc[t] = "idle"
  BY DEF Quiet
<1>3. pc["loop"] = "idle" /\ ~Busy /\ \A t \in Threads : pc[t] # "tail"
  BY <1>2 DEF Busy, Appending, Threads
<1>4. allocated = L /\ freed = 1 .. f /\ \A k \in 1 .. L : sent[k] = k
  BY <1>1, <1>3 DEF StreamContext, Stream, Numbered
<1>5. /\ \A i \in Items : f < i /\ i < L => next[i] = i + 1
      /\ head = IF f < L THEN f + 1 ELSE 0
      /\ tail = IF f < L THEN L ELSE 0
  BY <1>3 DEF StreamContext, Stream, ListOf
<1>6. f < L => next[L] = 0
  <2>1. L # 0 /\ tail = L => next[L] = 0
    BY <1>3 DEF StreamContext, Alone
  <2>2. QED
    BY <1>1, <1>5, <2>1
<1>7. s \in Seq(Items) /\ Len(s) = L - f /\ \A k \in 1 .. L - f : s[k] = f + k
  <2>1. \A k \in f + 1 .. L : sent[k] \in Items
    BY <1>1, ItemAt
  <2>2. /\ s \in Seq(Items)
        /\ Len(s) = IF f + 1 <= L THEN L - (f + 1) + 1 ELSE 0
        /\ \A k \in 1 .. L - (f + 1) + 1 : s[k] = sent[f + 1 + k - 1]
    BY <1>1, <2>1, SubSeqProperties
  <2>3. ASSUME NEW k \in 1 .. L - f PROVE s[k] = f + k
    <3>1. k \in 1 .. L - (f + 1) + 1 /\ f + 1 + k - 1 = f + k /\ f + k \in 1 .. L
      BY <1>1
    <3>2. QED
      BY <1>4, <2>2, <3>1
  <2> HIDE DEF s, L
  <2>4. Len(s) = L - f
    BY <1>1, <2>2
  <2>5. QED
    BY <2>2, <2>3, <2>4
<1> HIDE DEF s, L
<1>8. PICK N : N \in Nat /\ N = L - f /\ L = f + N
  <2>1. L - f \in Nat /\ L = f + (L - f)
    BY <1>1
  <2>2. QED
    BY <2>1
<1>9. f \in Nat /\ N \in Nat /\ L = f + N /\ (f < L <=> N # 0)
  BY <1>1, <1>8
<1>10. /\ s \in Seq(Items) /\ Len(s) = N /\ DOMAIN s = 1 .. N
       /\ \A k \in 1 .. N : s[k] = f + k
       /\ s = <<>> <=> N = 0
  <2>1. s \in Seq(Items) /\ Len(s) = N /\ \A k \in 1 .. N : s[k] = f + k
    BY <1>7, <1>8
  <2>2. DOMAIN s = 1 .. Len(s) /\ (s = <<>> <=> Len(s) = 0)
    BY <2>1, EmptySeq, LenProperties
  <2>3. QED
    BY <2>1, <2>2
<1>11. /\ \A i \in Items : f < i /\ i < L => next[i] = i + 1
       /\ head = IF N # 0 THEN f + 1 ELSE 0
       /\ tail = IF N # 0 THEN L ELSE 0
       /\ N # 0 => next[L] = 0
  BY <1>5, <1>6, <1>9
<1>12. head = IF s = <<>> THEN 0 ELSE Head(s)
  <2>1. CASE N # 0
    <3>1. s # <<>> /\ 1 \in 1 .. N
      BY <1>9, <1>10, <2>1
    <3>2. Head(s) = s[1]
      BY <1>10, <3>1
    <3>3. QED
      BY <1>10, <1>11, <2>1, <3>1, <3>2
  <2>2. CASE N = 0
    BY <1>10, <1>11, <2>2
  <2>3. QED
    BY <2>1, <2>2
<1>13. tail = IF s = <<>> THEN 0 ELSE Last(s)
  <2>1. CASE N # 0
    <3>1. s # <<>> /\ N \in 1 .. N
      BY <1>9, <1>10, <2>1
    <3>2. Last(s) = L
      BY <1>9, <1>10, <3>1 DEF Last
    <3>3. QED
      BY <1>11, <2>1, <3>1, <3>2
  <2>2. CASE N = 0
    BY <1>10, <1>11, <2>2
  <2>3. QED
    BY <2>1, <2>2
<1>14. ASSUME NEW k \in DOMAIN s PROVE next[s[k]] = IF k = Len(s) THEN 0 ELSE s[k + 1]
  <2>1. k \in 1 .. N /\ s[k] = f + k /\ N # 0 /\ k \in Nat
    BY <1>9, <1>10
  <2>2. CASE k = N
    BY <1>9, <1>10, <1>11, <2>1, <2>2
  <2>3. CASE k # N
    <3>1. f + k \in Items
      BY <1>1, <1>4, <1>9, <2>1 DEF Items
    <3>2. f < f + k /\ f + k < L /\ k + 1 \in 1 .. N /\ f + (k + 1) = f + k + 1
      BY <1>9, <2>1, <2>3
    <3>3. next[f + k] = f + k + 1
      BY <1>11, <3>1, <3>2
    <3>4. s[k + 1] = f + (k + 1)
      BY <1>10, <3>2
    <3>5. QED
      BY <1>10, <2>1, <2>3, <3>2, <3>3, <3>4
  <2>4. QED
    BY <2>2, <2>3
<1>15. freed = (1 .. allocated) \ Range(s)
  <2>1. ASSUME NEW i \in Range(s) PROVE i \in f + 1 .. f + N
    <3>1. PICK k \in 1 .. N : i = s[k]
      BY <1>10 DEF Range
    <3>2. i = f + k
      BY <1>10, <3>1
    <3>3. QED
      BY <1>9, <3>2
  <2>2. ASSUME NEW i \in f + 1 .. f + N PROVE i \in Range(s)
    <3>1. i - f \in 1 .. N /\ f + (i - f) = i
      BY <1>9
    <3>2. s[i - f] = i
      BY <1>10, <3>1
    <3>3. QED
      BY <1>10, <3>1, <3>2 DEF Range
  <2>3. Range(s) = f + 1 .. f + N
    BY <2>1, <2>2
  <2>4. (1 .. f + N) \ (f + 1 .. f + N) = 1 .. f
    BY <1>9
  <2>5. QED
    BY <1>4, <1>9, <2>3, <2>4
<1>16. Queued(s)
  BY <1>12, <1>13, <1>14, <1>15 DEF Queued
<1>17. QED
  BY <1>1, <1>16 DEF s, L

\* The items before the head are written as a whole, those after it not at all.
LEMMA QuietWritten ==
  ASSUME NEW f \in 0 .. MaxItems, StreamContext(f)
  PROVE  WrittenUpTo(f)
<1>1. sent \in Seq(Items) /\ \A k \in DOMAIN sent : sent[k] = k /\ k \in Items
  BY ItemAt DEF StreamContext, Stream, Numbered, TypeOK
<1>2. QED
  BY <1>1 DEF StreamContext, Stream, WrittenTo, WrittenUpTo

\* The bytes on the wire are in the order of the items.
LEMMA WireInOrder ==
  ASSUME NEW f \in 0 .. MaxItems, StreamContext(f)
  PROVE  WrittenInOrder
<1>1. /\ sent \in Seq(Items) /\ Len(sent) \in Nat /\ DOMAIN sent = 1 .. Len(sent)
      /\ \A k \in DOMAIN sent : sent[k] = k
  BY DEF StreamContext, Stream, Numbered, TypeOK
<1>2. \A p \in DOMAIN wire : wire[p] \in Items /\ wire[p] <= Len(sent)
  BY ItemAt DEF StreamContext, Stream, WrittenTo, TypeOK
<1>3. \A p \in DOMAIN wire : wire[p] \in DOMAIN sent /\ wire[p] = sent[wire[p]]
  BY <1>1, <1>2 DEF Items
<1>4. ASSUME NEW p \in DOMAIN wire, NEW q \in DOMAIN wire, p < q
      PROVE  \E k, l \in DOMAIN sent : k <= l /\ wire[p] = sent[k] /\ wire[q] = sent[l]
  <2>1. wire[p] <= wire[q]
    BY <1>4 DEF StreamContext, Stream, WrittenTo
  <2>2. wire[p] \in DOMAIN sent /\ wire[q] \in DOMAIN sent
    BY <1>3
  <2>3. QED
    BY <1>3, <2>1, <2>2
<1>5. QED
  BY <1>4 DEF WrittenInOrder

\* As long as the calls of the two threads do not overlap, what is written is what was
\* sent, in the order in which it was, and the list is what is left of it; and no byte of
\* an item is ever written twice or skipped.
THEOREM StreamKept == Spec => []StreamIntact
<1> DEFINE Kept == IInv /\ StreamInv /\ EachByteOnce
<1>1. Init => Kept
  <2> SUFFICES ASSUME Init PROVE Kept
    OBVIOUS
  <2>1. 0 \in 0 .. MaxItems
    BY SendQueueAssumption
  <2>2. StreamInv
    BY <2>1, StreamStart DEF StreamInv
  <2>3. QED
    BY <2>2, InitIInv, InitBytes
<1>2. Kept /\ [Next]_vars => Kept'
  BY NextIInv, NextStream, NextBytes
<1>3. Kept => StreamIntact
  <2> SUFFICES ASSUME Kept PROVE StreamIntact
    OBVIOUS
  <2>1. ASSUME ~overlap
        PROVE  /\ WrittenInOrder
               /\ Quiet => \E n \in 0 .. Len(sent) : Queued(SubSeq(sent, n + 1, Len(sent))) /\ WrittenUpTo(n)
    <3>1. PICK f \in 0 .. MaxItems : Stream(f)
      BY <2>1 DEF StreamInv
    <3>2. StreamContext(f)
      BY <2>1, <3>1 DEF StreamContext, IInv, TypeOK, ListType
    <3>3. WrittenInOrder /\ WrittenUpTo(f)
      BY <3>2, QuietWritten, WireInOrder
    <3>4. Quiet => f \in 0 .. Len(sent) /\ Queued(SubSeq(sent, f + 1, Len(sent)))
      BY <3>2, QuietList
    <3>5. QED
      BY <3>3, <3>4
  <2>2. QED
    BY <2>1 DEF StreamIntact
<1>4. QED
  BY <1>1, <1>2, <1>3, PTL DEF Spec
=============================================================================
