----------------------------- MODULE SendQueue -----------------------------
(***************************************************************************)
(* The send queue of an xmpp_conn_t, a linked list that xmpp_send_raw       *)
(* (External/libstrophe/src/conn.c) appends to and xmpp_run_once (event.c)  *)
(* writes out.  No lock protects it, and the messenger uses it from two     *)
(* threads: the application calls SendMessage, RequestActiveUsers and       *)
(* Disconnect in its own ("app"), while the run loop ("loop") writes the    *)
(* queue out and appends to it from its handlers.                           *)
(*                                                                          *)
(* An action is one access to the list.  Items are numbered as they are     *)
(* allocated, 0 is the null pointer.  A write to a freed item is lost or    *)
(* ends the process, a write through a null pointer ends it.                *)
(***************************************************************************)
EXTENDS Naturals, Sequences, FiniteSets, SequencesExt

CONSTANTS
  MaxItems,   \* bound: how many items are allocated
  Size        \* the bytes of an item

ASSUME SendQueueAssumption == MaxItems \in Nat /\ Size \in Nat \ {0}

Items   == 1 .. MaxItems
Threads == {"app", "loop"}

VARIABLES
  head,        \* send_queue_head
  tail,        \* send_queue_tail
  next,        \* the member next of each item
  left,        \* len - written of each item
  freed,       \* the items that have been freed
  allocated,   \* how many items have been
  connected,   \* state = XMPP_STATE_CONNECTED
  pc,          \* where each thread is in xmpp_send_raw or the flush
  item,        \* the item each thread appends
  sq,          \* the item the flush is at
  crashed,
  wire,        \* history: the bytes written, each named by its item
  sent,        \* history: the items in the order in which xmpp_send_raw returned
  overlap      \* history: a call has begun while the other thread was in one

list   == <<head, tail, next, left, freed, allocated>>
locals == <<pc, item, sq>>
vars   == <<list, locals, connected, crashed, wire, sent, overlap>>

TypeOK ==
  /\ head \in 0 .. MaxItems
  /\ tail \in 0 .. MaxItems
  /\ next \in [Items -> 0 .. MaxItems]
  /\ left \in [Items -> 0 .. Size]
  /\ freed \in SUBSET Items
  /\ allocated \in 0 .. MaxItems
  /\ connected \in BOOLEAN
  /\ pc \in [Threads -> {"idle", "head", "link", "tail", "write", "pop", "clear"}]
  /\ item \in [Threads -> 0 .. MaxItems]
  /\ sq \in 0 .. MaxItems
  /\ crashed \in BOOLEAN
  /\ wire \in Seq(Items)
  /\ sent \in Seq(Items)
  /\ overlap \in BOOLEAN

Init ==
  /\ head = 0
  /\ tail = 0
  /\ next = [i \in Items |-> 0]
  /\ left = [i \in Items |-> Size]
  /\ freed = {}
  /\ allocated = 0
  /\ connected = TRUE
  /\ pc = [t \in Threads |-> "idle"]
  /\ item = [t \in Threads |-> 0]
  /\ sq = 0
  /\ crashed = FALSE
  /\ wire = <<>>
  /\ sent = <<>>
  /\ overlap = FALSE

At(t, from)     == ~crashed /\ pc[t] = from
Goto(t, to)     == pc' = [pc EXCEPT ![t] = to]
Overlapping(t)  == overlap' = (overlap \/ \E u \in Threads \ {t} : pc[u] # "idle")

-----------------------------------------------------------------------------
\* Variants of the steps with a plausible bug in each, for showing that the
\* properties at the end of the module can fail.  No specification uses them.

\* the whole item is written again after a partial write
WriteAllFromStart ==
  /\ At("loop", "write")
  /\ left' = [left EXCEPT ![sq] = @ - Size]
  /\ wire' = wire \o [i \in 1 .. Size |-> sq]
  /\ Goto("loop", "pop")
  /\ UNCHANGED <<head, tail, next, freed, allocated, item, sq, connected, crashed, sent, overlap>>

\* a partial write is not added to sq->written
WritePartForgotten ==
  /\ At("loop", "write")
  /\ \E n \in 0 .. left[sq] - 1 : wire' = wire \o [i \in 1 .. n |-> sq]
  /\ Goto("loop", "idle")
  /\ UNCHANGED <<list, item, sq, connected, crashed, sent, overlap>>

\* the item is not freed
PopLeaks ==
  /\ At("loop", "pop")
  /\ sq' = next[sq]
  /\ head' = next[sq]
  /\ Goto("loop", IF next[sq] = 0 THEN "clear" ELSE "write")
  /\ UNCHANGED <<tail, next, left, freed, allocated, item, connected, crashed, wire, sent, overlap>>

\* send_queue_tail keeps pointing to the last item
ClearNothing ==
  /\ At("loop", "clear")
  /\ Goto("loop", "idle")
  /\ UNCHANGED <<list, item, sq, connected, crashed, wire, sent, overlap>>

\* the partly written item is skipped
WritePartSkips ==
  /\ At("loop", "write")
  /\ \E n \in 0 .. left[sq] - 1 :
       /\ left' = [left EXCEPT ![sq] = @ - n]
       /\ wire' = wire \o [i \in 1 .. n |-> sq]
  /\ Goto("loop", "pop")
  /\ UNCHANGED <<head, tail, next, freed, allocated, item, sq, connected, crashed, sent, overlap>>

-----------------------------------------------------------------------------
(* xmpp_send_raw.  A connection that is not connected drops the data.        *)

\* The item is made and send_queue_tail is tested.
Send(t) ==
  /\ At(t, "idle")
  /\ connected
  /\ allocated < MaxItems
  /\ allocated' = allocated + 1
  /\ item' = [item EXCEPT ![t] = allocated']
  /\ Goto(t, IF tail = 0 THEN "head" ELSE "link")
  /\ Overlapping(t)
  /\ UNCHANGED <<head, tail, next, left, freed, sq, connected, crashed, wire, sent>>

\* send_queue_head = item
SetHead(t) ==
  /\ At(t, "head")
  /\ head' = item[t]
  /\ Goto(t, "tail")
  /\ UNCHANGED <<tail, next, left, freed, allocated, item, sq, connected, crashed,
                 wire, sent, overlap>>

\* send_queue_tail->next = item
Link(t) ==
  /\ At(t, "link")
  /\ Goto(t, "tail")
  /\ IF tail \in Items \ freed
       THEN next' = [next EXCEPT ![tail] = item[t]] /\ UNCHANGED crashed
       ELSE crashed' \in {TRUE, tail = 0} /\ UNCHANGED next
  /\ UNCHANGED <<head, tail, left, freed, allocated, item, sq, connected, wire, sent, overlap>>

\* send_queue_tail = item
SetTail(t) ==
  /\ At(t, "tail")
  /\ tail' = item[t]
  /\ Goto(t, "idle")
  /\ sent' = Append(sent, item[t])
  /\ UNCHANGED <<head, next, left, freed, allocated, item, sq, connected, crashed,
                 wire, overlap>>

-----------------------------------------------------------------------------
(* The flush in xmpp_run_once.                                               *)

\* sq = send_queue_head
StartFlush ==
  /\ At("loop", "idle")
  /\ connected
  /\ head # 0
  /\ sq' = head
  /\ Goto("loop", "write")
  /\ Overlapping("loop")
  /\ UNCHANGED <<list, item, connected, crashed, wire, sent>>

\* The socket takes n bytes of the item.
Write(n) ==
  /\ left' = [left EXCEPT ![sq] = @ - n]
  /\ wire' = wire \o [i \in 1 .. n |-> sq]

\* It takes all that is left...
WriteAll ==
  /\ At("loop", "write")
  /\ Write(left[sq])
  /\ Goto("loop", "pop")
  /\ UNCHANGED <<head, tail, next, freed, allocated, item, sq, connected, crashed, sent, overlap>>

\* ...or less, and the flush ends...
WritePart ==
  /\ At("loop", "write")
  /\ \E n \in 0 .. left[sq] - 1 : Write(n)
  /\ Goto("loop", "idle")
  /\ UNCHANGED <<head, tail, next, freed, allocated, item, sq, connected, crashed, sent, overlap>>

\* ...or fails, and the connection ends.
WriteFails ==
  /\ At("loop", "write")
  /\ connected' = FALSE
  /\ Goto("loop", "idle")
  /\ UNCHANGED <<list, item, sq, crashed, wire, sent, overlap>>

\* The item is freed, its successor becomes the head.
Pop ==
  /\ At("loop", "pop")
  /\ sq' = next[sq]
  /\ head' = next[sq]
  /\ freed' = freed \cup {sq}
  /\ Goto("loop", IF next[sq] = 0 THEN "clear" ELSE "write")
  /\ UNCHANGED <<tail, next, left, allocated, item, connected, crashed, wire, sent, overlap>>

\* if (!sq) send_queue_tail = NULL
ClearTail ==
  /\ At("loop", "clear")
  /\ tail' = 0
  /\ Goto("loop", "idle")
  /\ UNCHANGED <<head, next, left, freed, allocated, item, sq, connected, crashed,
                 wire, sent, overlap>>

\* The server closes the connection, or it breaks.
ConnectionLost ==
  /\ At("loop", "idle")
  /\ connected
  /\ connected' = FALSE
  /\ UNCHANGED <<list, locals, crashed, wire, sent, overlap>>

Next ==
  \/ \E t \in Threads : Send(t) \/ SetHead(t) \/ Link(t) \/ SetTail(t)
  \/ StartFlush
  \/ WriteAll
  \/ WritePart
  \/ WriteFails
  \/ Pop
  \/ ClearTail
  \/ ConnectionLost

Spec == Init /\ [][Next]_vars

-----------------------------------------------------------------------------
Quiet == ~crashed /\ \A t \in Threads : pc[t] = "idle"

\* The list is s: the head leads through its items to the tail, and all others are freed.
Queued(s) ==
  /\ head = IF s = <<>> THEN 0 ELSE Head(s)
  /\ tail = IF s = <<>> THEN 0 ELSE Last(s)
  /\ \A k \in DOMAIN s : next[s[k]] = IF k = Len(s) THEN 0 ELSE s[k + 1]
  /\ freed = (1 .. allocated) \ Range(s)

\* The first n items sent are written, and nothing of those after the next one.
WrittenUpTo(n) ==
  \A k \in DOMAIN sent : (k <= n => left[sent[k]] = 0) /\ (k > n + 1 => left[sent[k]] = Size)

\* No byte comes after one of an item that was sent later.
WrittenInOrder ==
  \A p, q \in DOMAIN wire : p < q =>
    \E k, l \in DOMAIN sent : k <= l /\ wire[p] = sent[k] /\ wire[q] = sent[l]

\* Under the same condition nothing is written through a null pointer or to an
\* item the flush has freed.
NoCrashAlone == crashed => overlap

\* The bytes of an item are on the wire or left, and none is there twice.
EachByteOnce ==
  \A i \in Items : Cardinality({p \in DOMAIN wire : wire[p] = i}) + left[i] = Size

\* As long as calls of the two threads do not overlap, partial writes and appends
\* in any order leave the stream intact: it has the items in the order in which they were
\* sent, byte for byte, and between two calls the list is what was sent and is not written
\* yet; the tail is its last item, and everything else has been freed.  Even when the
\* calls overlap, no byte of an item is written twice or skipped.
StreamIntact ==
  /\ ~overlap /\ Quiet =>
       \E n \in 0 .. Len(sent) : Queued(SubSeq(sent, n + 1, Len(sent))) /\ WrittenUpTo(n)
  /\ ~overlap => WrittenInOrder
  /\ EachByteOnce

-----------------------------------------------------------------------------
(* What the repository says of the queue and the code does not do.           *)

\* External/libstrophe/src/event.c:63-64: the event loop will "send any data that
\* has been queued by xmpp_send and related functions": once the queue is empty,
\* all that was sent has been written.
QueuedIsSent == Quiet /\ connected /\ head = 0 => Len(wire) = Size * Len(sent)
=============================================================================
