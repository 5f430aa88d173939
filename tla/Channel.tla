------------------------------ MODULE Channel ------------------------------
(* The linked-list queue of master_slave_channel.c and the spinlock that     *)
(* protects it.  "Channel - no internal locking" says the source: every      *)
(* caller takes the spinlock first, so the two writes of channel_queue and   *)
(* of channel_dequeue are separate steps here and the lock has to earn the   *)
(* atomicity.  A Message node is identified with the message it carries,     *)
(* because every call of channel_queue allocates its own node.  The prev     *)
(* pointers are left out: the code writes them and never reads them.         *)
EXTENDS Naturals, Sequences

CONSTANTS Msg,   \* the messages that may be queued
          NULL   \* the C null pointer

ASSUME NullNotMsg == NULL \notin Msg

VARIABLES
  lock,    \* the atomic_bool the channel's users spin on
  head,    \* Channel.head
  tail,    \* Channel.tail
  next,    \* Message.next of every node
  queue    \* auxiliary: the messages linked and not yet unlinked, oldest first

listVars == <<head, tail, next, queue>>
chanVars == <<lock, listVars>>

\* channel_new, with the spinlock initialised next to it.
channel_new ==
  /\ lock = FALSE
  /\ head = NULL
  /\ tail = NULL
  /\ next = [m \in Msg |-> NULL]
  /\ queue = <<>>

\* Mutated forms: no specification uses them, each breaks a property of a run.
spin_lock_ignored == lock' = TRUE
FixTail_forgotten == UNCHANGED listVars
LinkMessage_always_head(m) ==
  /\ next' = [n \in Msg |-> IF n = m THEN NULL ELSE IF n = tail THEN m ELSE next[n]]
  /\ head' = m
  /\ queue' = Append(queue, m)
  /\ UNCHANGED tail

\* Without the test of tail, the node that it writes to may be that of NULL.
LinkMessage_tail_unchecked(m) ==
  /\ next' = [n \in Msg \cup {tail} |-> IF n = m THEN NULL ELSE IF n = tail THEN m ELSE next[n]]
  /\ head' = IF tail = NULL THEN m ELSE head
  /\ queue' = Append(queue, m)
  /\ UNCHANGED tail

\* The exchange that succeeds; a failing one changes nothing.
spin_lock == ~lock /\ lock' = TRUE

spin_unlock == lock' = FALSE

\* channel_queue up to the write that makes the node reachable.
LinkMessage(m) ==
  /\ next' = [n \in Msg |-> IF n = m THEN NULL ELSE IF n = tail THEN m ELSE next[n]]
  /\ head' = IF tail = NULL THEN m ELSE head
  /\ queue' = Append(queue, m)
  /\ UNCHANGED tail

\* The last write of channel_queue.
SetTail(m) == tail' = m /\ UNCHANGED <<head, next, queue>>

\* channel_dequeue of a non-empty list: it hands out the node at the head.
UnlinkMessage ==
  /\ head # NULL
  /\ head' = next[head]
  /\ queue' = SubSeq(queue, 2, Len(queue))
  /\ UNCHANGED <<tail, next>>

\* The rest of channel_dequeue: an emptied list forgets its tail.
FixTail ==
  /\ tail' = IF head = NULL THEN NULL ELSE tail
  /\ UNCHANGED <<head, next, queue>>

-----------------------------------------------------------------------------
ChannelTypeOK ==
  /\ lock \in BOOLEAN
  /\ head \in Msg \cup {NULL}
  /\ tail \in Msg \cup {NULL}
  /\ next \in [Msg -> Msg \cup {NULL}]
  /\ queue \in Seq(Msg)

First == IF queue = <<>> THEN NULL ELSE queue[1]
Last  == IF queue = <<>> THEN NULL ELSE queue[Len(queue)]

\* The nodes reachable from head are the queued messages, in order.
ListIsQueue ==
  /\ head = First
  /\ \A i \in 1 .. Len(queue) :
       next[queue[i]] = IF i = Len(queue) THEN NULL ELSE queue[i + 1]
=============================================================================
