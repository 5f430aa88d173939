------------------------ MODULE MasterToSlaveProofs ------------------------
(* Proofs about MasterToSlave, for any senders and receivers, any bound on    *)
(* their messages, and both behaviours of malloc.                             *)
EXTENDS MasterToSlave, Lemmas

-----------------------------------------------------------------------------
(* The linked list of Channel *)

\* Its pointers hold the first and the last message, or nothing.
LEMMA EndsOfQueue ==
  ASSUME ChannelTypeOK
  PROVE  /\ Len(queue) \in Nat
         /\ queue = <<>> <=> Len(queue) = 0
         /\ \A i \in 1 .. Len(queue) : queue[i] \in Msg
         /\ First \in Msg \cup {NULL} /\ (First = NULL <=> queue = <<>>)
         /\ Last \in Msg \cup {NULL} /\ (Last = NULL <=> queue = <<>>)
<1>1. queue \in Seq(Msg) /\ First = FirstOf(queue, NULL) /\ Last = LastOf(queue, NULL)
  BY DEF ChannelTypeOK, First, Last, FirstOf, LastOf
<1> QED
  BY <1>1, NullNotMsg, EndsOfList

\* channel_queue of a new message, whose sender finds tail at the last node, appends it.
LEMMA LinkKeepsList ==
  ASSUME ChannelTypeOK, ListIsQueue, tail = Last,
         \A i, j \in 1 .. Len(queue) : queue[i] = queue[j] => i = j,
         NEW m \in Msg, \A i \in 1 .. Len(queue) : queue[i] # m,
         LinkMessage(m)
  PROVE  /\ ListIsQueue'
         /\ queue' # <<>> /\ Len(queue') = Len(queue) + 1 /\ queue'[Len(queue) + 1] = m
         /\ \A i \in 1 .. Len(queue) : queue'[i] = queue[i]
<1>1. queue \in Seq(Msg) /\ Linked(head, tail, next, queue, NULL)
  BY DEF ChannelTypeOK, ListIsQueue, First, Last, Linked, FirstOf, LastOf
<1>2. Queued(Msg, NULL, queue, head, tail, next, m, queue', head', next')
  BY DEF LinkMessage, Queued
<1>3. /\ Linked(head', m, next', queue', NULL)
      /\ queue' # <<>> /\ Len(queue') = Len(queue) + 1 /\ queue'[Len(queue) + 1] = m
      /\ \A i \in 1 .. Len(queue) : queue'[i] = queue[i]
  BY <1>1, <1>2, NullNotMsg, ListGrows
<1> QED
  BY <1>3 DEF Linked, FirstOf, ListIsQueue, First

\* channel_dequeue hands out the first message; the others stay as they were.
LEMMA UnlinkKeepsList ==
  ASSUME ChannelTypeOK, ListIsQueue, UnlinkMessage
  PROVE  /\ ListIsQueue'
         /\ queue # <<>> /\ head = queue[1] /\ Len(queue) \in Nat \ {0}
         /\ Len(queue') = Len(queue) - 1
         /\ \A i \in 1 .. Len(queue) - 1 : queue'[i] = queue[i + 1]
         /\ queue' = <<>> <=> Len(queue) = 1
         /\ queue' # <<>> => Last' = Last
<1>1. queue \in Seq(Msg) /\ Linked(head, Last, next, queue, NULL)
  BY DEF ChannelTypeOK, ListIsQueue, First, Last, Linked, FirstOf, LastOf
<1>2. PICK last : last = IF queue' = <<>> THEN NULL ELSE Last
  OBVIOUS
<1>3. Dequeued(NULL, queue, head, Last, next, queue', head', last) /\ next' = next
  BY <1>2 DEF UnlinkMessage, Dequeued
<1>4. /\ Linked(head', last, next, queue', NULL)
      /\ queue # <<>> /\ head = queue[1] /\ Len(queue) \in Nat \ {0}
      /\ Len(queue') = Len(queue) - 1
      /\ \A i \in 1 .. Len(queue) - 1 : queue'[i] = queue[i + 1]
      /\ queue' = <<>> <=> Len(queue) = 1
  BY <1>1, <1>3, NullNotMsg, ListShrinks
<1> QED
  BY <1>2, <1>3, <1>4 DEF Linked, FirstOf, LastOf, ListIsQueue, First, Last

-----------------------------------------------------------------------------
(* Types *)

\* What a thread's program point says about its own variables.
CallsOK ==
  /\ \A s \in Senders :
       /\ pc[s] \in {"spin", "link"} => posted[s] < MaxSends
       /\ pc[s] = "tail" => posted[s] > 0
  /\ \A r \in Receivers :
       pc[r] \in {"mutex", "return", "sleep", "waiting", "woken"} => op[r] = "await"

\* No thread is a sender and a receiver.
LEMMA ThreadKinds ==
  /\ Senders \subseteq Thread /\ Receivers \subseteq Thread
  /\ \A s \in Senders, r \in Receivers : s # r
  /\ \A t \in Thread : t # NULL
  BY MasterToSlaveAssumption DEF Thread

\* The initial state has its types.
LEMMA TypeInit == Init => TypeOK /\ CallsOK
<1> SUFFICES ASSUME Init PROVE TypeOK /\ CallsOK
  OBVIOUS
<1>1. ChannelTypeOK /\ rcvd \in Seq(Msg)
  BY EmptySeq DEF Init, channel_new, ChannelTypeOK
<1>2. /\ pc \in [Thread -> SenderPC \cup ReceiverPC]
      /\ \A t \in Thread : pc[t] = "idle"
  BY DEF Init, SenderPC, ReceiverPC
<1>3. posted \in [Senders -> 0 .. MaxSends]
  BY MasterToSlaveAssumption DEF Init
<1>4. TypeOK
  BY <1>1, <1>2, <1>3, ThreadKinds DEF Init, TypeOK, SenderPC, ReceiverPC
<1>5. CallsOK
  BY <1>2, ThreadKinds DEF CallsOK
<1> QED
  BY <1>4, <1>5

\* The message a sender is about to queue is one of its own.
LEMMA MessageType ==
  ASSUME NEW s \in Senders, TypeOK, posted[s] < MaxSends
  PROVE  Message(s) \in Msg /\ posted[s] \in Nat
  BY MasterToSlaveAssumption DEF TypeOK, Message

\* No step takes a variable out of its type.
LEMMA TypeStep == TypeOK /\ CallsOK /\ [Next]_vars => TypeOK' /\ CallsOK'
<1> SUFFICES ASSUME TypeOK, CallsOK, [Next]_vars PROVE TypeOK' /\ CallsOK'
  OBVIOUS
<1> USE ThreadKinds DEF SenderPC, ReceiverPC, Go
<1>1. ASSUME NEW s \in Senders, SendCall(s) PROVE TypeOK' /\ CallsOK'
  BY <1>1 DEF SendCall, TypeOK, ChannelTypeOK, CallsOK, chanVars, listVars, localVars
<1>2. ASSUME NEW s \in Senders, SendSpinLock(s) PROVE TypeOK' /\ CallsOK'
  BY <1>2 DEF SendSpinLock, spin_lock, TypeOK, ChannelTypeOK, CallsOK, listVars, localVars
<1>3. ASSUME NEW s \in Senders, SendLink(s) PROVE TypeOK' /\ CallsOK'
  <2>1. Message(s) \in Msg /\ posted[s] \in Nat
    BY <1>3, MessageType DEF SendLink, CallsOK
  <2>2. ChannelTypeOK'
    BY <1>3, <2>1, AppendProperties DEF SendLink, LinkMessage, TypeOK, ChannelTypeOK
  <2>3. posted' \in [Senders -> 0 .. MaxSends]
    BY <1>3, <2>1, MasterToSlaveAssumption DEF SendLink, TypeOK, CallsOK
  <2> QED
    BY <1>3, <2>1, <2>2, <2>3 DEF SendLink, TypeOK, CallsOK
<1>4. ASSUME NEW s \in Senders, SendMallocFails(s) PROVE TypeOK' /\ CallsOK'
  <2>1. posted' \in [Senders -> 0 .. MaxSends]
    BY <1>4, MasterToSlaveAssumption DEF SendMallocFails, TypeOK, CallsOK
  <2> QED
    BY <1>4, <2>1 DEF SendMallocFails, TypeOK, ChannelTypeOK, CallsOK, chanVars, listVars
<1>5. ASSUME NEW s \in Senders, SendSetTail(s) PROVE TypeOK' /\ CallsOK'
  <2>1. <<s, posted[s]>> \in Msg
    BY <1>5, MasterToSlaveAssumption DEF SendSetTail, TypeOK, CallsOK
  <2> QED
    BY <1>5, <2>1 DEF SendSetTail, SetTail, TypeOK, ChannelTypeOK, CallsOK, localVars
<1>6. ASSUME NEW s \in Senders, SendSpinUnlock(s) PROVE TypeOK' /\ CallsOK'
  BY <1>6 DEF SendSpinUnlock, spin_unlock, TypeOK, ChannelTypeOK, CallsOK, listVars, localVars
<1>7. ASSUME NEW s \in Senders, SendMutexLock(s) PROVE TypeOK' /\ CallsOK'
  BY <1>7 DEF SendMutexLock, mutex_lock, TypeOK, ChannelTypeOK, CallsOK, chanVars, listVars,
     localVars
<1>8. ASSUME NEW s \in Senders, SendSignal(s) PROVE TypeOK' /\ CallsOK'
  <2>1. CASE \E r \in Receivers : pc[r] = "waiting"
    <3>1. PICK r \in Receivers :
            pc[r] = "waiting" /\ pc' = [pc EXCEPT ![s] = "unmutex", ![r] = "woken"]
      BY <1>8, <2>1 DEF SendSignal
    <3> QED
      BY <1>8, <3>1 DEF SendSignal, TypeOK, ChannelTypeOK, CallsOK, chanVars, listVars,
         localVars
  <2>2. CASE ~ \E r \in Receivers : pc[r] = "waiting"
    <3>1. pc' = [pc EXCEPT ![s] = "unmutex"]
      BY <1>8, <2>2 DEF SendSignal
    <3> QED
      BY <1>8, <3>1 DEF SendSignal, TypeOK, ChannelTypeOK, CallsOK, chanVars, listVars,
         localVars
  <2> QED
    BY <2>1, <2>2
<1>9. ASSUME NEW s \in Senders, SendMutexUnlock(s) PROVE TypeOK' /\ CallsOK'
  BY <1>9 DEF SendMutexUnlock, mutex_unlock, TypeOK, ChannelTypeOK, CallsOK, chanVars, listVars,
     localVars
<1>10. ASSUME NEW r \in Receivers, ReceiveCall(r) PROVE TypeOK' /\ CallsOK'
  <2>1. PICK o \in ReceiverOps :
          /\ op' = [op EXCEPT ![r] = o]
          /\ pc[r] = "idle" /\ pc' = [pc EXCEPT ![r] = IF o = "poll" THEN "spin" ELSE "mutex"]
          /\ UNCHANGED <<chanVars, posted, got, rcvd, wait_mutex>>
    BY <1>10 DEF ReceiveCall
  <2>2. o = "poll" \/ o = "await"
    BY MasterToSlaveAssumption
  <2> QED
    BY <2>1, <2>2 DEF TypeOK, ChannelTypeOK, CallsOK, chanVars, listVars
<1>11. ASSUME NEW r \in Receivers, ReceiveMutexLock(r) PROVE TypeOK' /\ CallsOK'
  BY <1>11 DEF ReceiveMutexLock, mutex_lock, TypeOK, ChannelTypeOK, CallsOK, chanVars, listVars,
     localVars
<1>12. ASSUME NEW r \in Receivers, ReceiveSpinLock(r) PROVE TypeOK' /\ CallsOK'
  BY <1>12 DEF ReceiveSpinLock, spin_lock, TypeOK, ChannelTypeOK, CallsOK, listVars, localVars
<1>13. ASSUME NEW r \in Receivers, DequeueSome(r) PROVE TypeOK' /\ CallsOK'
  <2>1. head \in Msg /\ ChannelTypeOK'
    BY <1>13, RestIsSeq DEF DequeueSome, UnlinkMessage, TypeOK, ChannelTypeOK
  <2>2. rcvd' \in Seq(Msg)
    BY <1>13, <2>1, AppendProperties DEF DequeueSome, TypeOK
  <2> QED
    BY <1>13, <2>1, <2>2 DEF DequeueSome, TypeOK, CallsOK
<1>14. ASSUME NEW r \in Receivers, DequeueNone(r) PROVE TypeOK' /\ CallsOK'
  BY <1>14 DEF DequeueNone, TypeOK, ChannelTypeOK, CallsOK, chanVars, listVars
<1>15. ASSUME NEW r \in Receivers, ReceiveFixTail(r) PROVE TypeOK' /\ CallsOK'
  BY <1>15 DEF ReceiveFixTail, FixTail, TypeOK, ChannelTypeOK, CallsOK, localVars
<1>16. ASSUME NEW r \in Receivers, ReceiveSpinUnlock(r) PROVE TypeOK' /\ CallsOK'
  <2>1. op[r] \in {"await", "poll"}
    BY MasterToSlaveAssumption DEF TypeOK
  <2> QED
    BY <1>16, <2>1 DEF ReceiveSpinUnlock, spin_unlock, TypeOK, ChannelTypeOK, CallsOK, listVars,
       localVars
<1>17. ASSUME NEW r \in Receivers, ReceiveSleep(r) PROVE TypeOK' /\ CallsOK'
  BY <1>17 DEF ReceiveSleep, mutex_unlock, TypeOK, ChannelTypeOK, CallsOK, chanVars, listVars,
     localVars
<1>18. ASSUME NEW r \in Receivers, SpuriousWakeup(r) PROVE TypeOK' /\ CallsOK'
  BY <1>18 DEF SpuriousWakeup, TypeOK, ChannelTypeOK, CallsOK, chanVars, listVars, localVars
<1>19. ASSUME NEW r \in Receivers, ReceiveRelock(r) PROVE TypeOK' /\ CallsOK'
  BY <1>19 DEF ReceiveRelock, mutex_lock, TypeOK, ChannelTypeOK, CallsOK, chanVars, listVars,
     localVars
<1>20. ASSUME NEW r \in Receivers, AwaitReturn(r) PROVE TypeOK' /\ CallsOK'
  BY <1>20 DEF AwaitReturn, mutex_unlock, TypeOK, ChannelTypeOK, CallsOK, chanVars, listVars,
     localVars
<1>21. CASE UNCHANGED vars
  BY <1>21 DEF vars, TypeOK, ChannelTypeOK, CallsOK, chanVars, listVars, localVars
<1> QED
  BY <1>1, <1>2, <1>3, <1>4, <1>5, <1>6, <1>7, <1>8, <1>9, <1>10, <1>11, <1>12, <1>13,
     <1>14, <1>15, <1>16, <1>17, <1>18, <1>19, <1>20, <1>21
  DEF Next, SenderStep, ReceiverStep

\* Every variable of the master-to-slave protocol keeps its type.
THEOREM TypeCorrect == Spec => [](TypeOK /\ CallsOK)
  BY TypeInit, TypeStep, PTL DEF Spec

-----------------------------------------------------------------------------
(* The spinlock and the mutex *)

\* Between spin_lock and spin_unlock, and between pthread_mutex_lock and the
\* unlock or the wait that gives the mutex back.
InSpin(t) == pc[t] \in {"link", "tail", "dequeue", "fix", "unspin"}
InMutex(t) ==
  \/ t \in Senders /\ pc[t] \in {"signal", "unmutex"}
  \/ /\ t \in Receivers /\ op[t] = "await"
     /\ pc[t] \in {"spin", "dequeue", "fix", "unspin", "return", "sleep"}

\* One thread at most is inside each critical section, and the locks say so.
LocksOK ==
  /\ \A t \in Thread : InSpin(t) => lock
  /\ \A t, u \in Thread : InSpin(t) /\ InSpin(u) => t = u
  /\ \A t \in Thread : InMutex(t) <=> wait_mutex = t

\* A step of one thread t: nobody else enters or leaves a critical section, t
\* only together with the lock.
LEMMA LocksMoved ==
  ASSUME LocksOK, NEW t \in Thread,
         \A u \in Thread : u # t => (InSpin(u)' <=> InSpin(u)) /\ (InMutex(u)' <=> InMutex(u)),
         \/ lock' = lock /\ (InSpin(t)' <=> InSpin(t))
         \/ ~lock /\ lock' = TRUE
         \/ InSpin(t) /\ ~InSpin(t)',
         \/ wait_mutex' = wait_mutex /\ (InMutex(t)' <=> InMutex(t))
         \/ wait_mutex = NULL /\ wait_mutex' = t /\ InMutex(t)'
         \/ InMutex(t) /\ wait_mutex' = NULL /\ ~InMutex(t)'
  PROVE  LocksOK'
<1>1. \A u \in Thread : InSpin(u)' => lock'
  BY DEF LocksOK
<1>2. \A u, v \in Thread : InSpin(u)' /\ InSpin(v)' => u = v
  BY DEF LocksOK
<1>3. \A u \in Thread : InMutex(u)' <=> wait_mutex' = u
  BY ThreadKinds DEF LocksOK
<1> QED
  BY <1>1, <1>2, <1>3 DEF LocksOK

\* At first nobody is inside.
LEMMA LocksInit == Init => LocksOK
  BY ThreadKinds DEF Init, channel_new, LocksOK, InSpin, InMutex

\* What a step of one thread leaves alone.
OnlyMoves(t) == \A u \in Thread : u # t => pc'[u] = pc[u] /\ (u \in Receivers => op'[u] = op[u])

\* Every step keeps both locks with the one thread inside.
LEMMA LocksStep == TypeOK /\ CallsOK /\ LocksOK /\ [Next]_vars => LocksOK'
<1> SUFFICES ASSUME TypeOK, CallsOK, LocksOK, [Next]_vars PROVE LocksOK'
  OBVIOUS
<1> USE ThreadKinds
<1>a. ASSUME NEW t \in Thread, OnlyMoves(t)
      PROVE  \A u \in Thread : u # t => /\ InSpin(u)' <=> InSpin(u)
                                        /\ InMutex(u)' <=> InMutex(u)
  BY <1>a DEF OnlyMoves, InSpin, InMutex
<1>1. ASSUME NEW s \in Senders, SendCall(s) \/ (SenderStep(s) /\ ~SendSignal(s)) PROVE LocksOK'
  <2>1. OnlyMoves(s)
    BY <1>1 DEF SendCall, SenderStep, SendSpinLock, SendLink, SendMallocFails, SendSetTail,
       SendSpinUnlock, SendMutexLock, SendMutexUnlock, Go, localVars, TypeOK, OnlyMoves
  <2>2. \/ /\ lock' = lock /\ wait_mutex' = wait_mutex
           /\ \/ pc[s] = "idle" /\ pc'[s] = "spin"
              \/ pc[s] \in {"link", "tail"} /\ pc'[s] \in {"tail", "unspin"}
        \/ /\ ~lock /\ lock' = TRUE /\ wait_mutex' = wait_mutex
           /\ pc[s] = "spin" /\ pc'[s] = "link"
        \/ wait_mutex' = wait_mutex /\ pc[s] = "unspin" /\ pc'[s] = "mutex"
        \/ /\ lock' = lock
           /\ \/ /\ pc[s] = "mutex" /\ pc'[s] = "signal"
                 /\ wait_mutex = NULL /\ wait_mutex' = s
              \/ pc[s] = "unmutex" /\ pc'[s] = "idle" /\ wait_mutex' = NULL
    BY <1>1 DEF SendCall, SenderStep, SendSpinLock, SendLink, SendMallocFails, SendSetTail,
       SendSpinUnlock, SendMutexLock, SendMutexUnlock, Go, spin_lock, spin_unlock,
       mutex_lock, mutex_unlock, chanVars, TypeOK
  <2>3. s \in Thread /\ s \notin Receivers
    OBVIOUS
  <2>4. \/ lock' = lock /\ (InSpin(s)' <=> InSpin(s))
        \/ ~lock /\ lock' = TRUE
        \/ InSpin(s) /\ ~InSpin(s)'
    BY <2>2, <2>3 DEF InSpin
  <2>5. \/ wait_mutex' = wait_mutex /\ (InMutex(s)' <=> InMutex(s))
        \/ wait_mutex = NULL /\ wait_mutex' = s /\ InMutex(s)'
        \/ InMutex(s) /\ wait_mutex' = NULL /\ ~InMutex(s)'
    BY <2>2, <2>3 DEF InMutex
  <2> QED
    BY <2>1, <2>3, <2>4, <2>5, <1>a, LocksMoved
<1>2. ASSUME NEW s \in Senders, SendSignal(s) PROVE LocksOK'
  <2>1. /\ pc[s] = "signal" /\ pc'[s] = "unmutex"
        /\ \A t \in Thread : \/ t = s
                             \/ pc'[t] = pc[t]
                             \/ t \in Receivers /\ pc[t] = "waiting" /\ pc'[t] = "woken"
        /\ UNCHANGED <<lock, wait_mutex, op>>
    BY <1>2 DEF SendSignal, chanVars, localVars, TypeOK
  <2>2. \A t \in Thread : (InSpin(t)' <=> InSpin(t)) /\ (InMutex(t)' <=> InMutex(t))
    BY <2>1 DEF InSpin, InMutex
  <2>3. s \in Thread
    OBVIOUS
  <2> QED
    BY <2>1, <2>2, <2>3, LocksMoved
<1>3. ASSUME NEW r \in Receivers, ReceiveCall(r) \/ ReceiverStep(r) \/ SpuriousWakeup(r)
      PROVE  LocksOK'
  <2>1. OnlyMoves(r)
    BY <1>3 DEF ReceiveCall, ReceiverStep, SpuriousWakeup, ReceiveMutexLock, ReceiveSpinLock,
       DequeueSome, DequeueNone, ReceiveFixTail, ReceiveSpinUnlock, ReceiveSleep,
       ReceiveRelock, AwaitReturn, Go, localVars, TypeOK, OnlyMoves
  <2>2. op[r] \in {"await", "poll"} /\ r \in Thread /\ r \notin Senders
    BY MasterToSlaveAssumption DEF TypeOK
  <2>3. \/ /\ lock' = lock /\ wait_mutex' = wait_mutex
           /\ pc[r] = "idle"
           /\ pc'[r] = IF op'[r] = "poll" THEN "spin" ELSE "mutex"
        \/ /\ op'[r] = op[r] /\ lock' = lock /\ wait_mutex' = wait_mutex
           /\ \/ pc[r] \in {"dequeue", "fix"} /\ pc'[r] \in {"fix", "unspin"}
              \/ pc[r] = "waiting" /\ pc'[r] = "woken"
        \/ /\ op'[r] = op[r] /\ wait_mutex' = wait_mutex
           /\ \/ pc[r] = "spin" /\ pc'[r] = "dequeue" /\ ~lock /\ lock' = TRUE
              \/ /\ pc[r] = "unspin"
                 /\ \/ op[r] = "poll" /\ pc'[r] = "idle"
                    \/ op[r] = "await" /\ pc'[r] \in {"return", "sleep"}
        \/ /\ op'[r] = op[r] /\ lock' = lock
           /\ \/ /\ pc[r] \in {"mutex", "woken"} /\ pc'[r] = "spin"
                 /\ wait_mutex = NULL /\ wait_mutex' = r
              \/ /\ pc[r] \in {"sleep", "return"} /\ pc'[r] \in {"waiting", "idle"}
                 /\ wait_mutex' = NULL
    BY <1>3, <2>2 DEF ReceiveCall, ReceiverStep, SpuriousWakeup, ReceiveMutexLock,
       ReceiveSpinLock, DequeueSome, DequeueNone, ReceiveFixTail, ReceiveSpinUnlock,
       ReceiveSleep, ReceiveRelock, AwaitReturn, Go, spin_lock, spin_unlock, mutex_lock,
       mutex_unlock, chanVars, localVars, TypeOK
  <2>4. pc[r] \in {"mutex", "woken", "sleep", "return", "waiting"} => op[r] = "await"
    BY DEF CallsOK
  <2>5. \/ lock' = lock /\ (InSpin(r)' <=> InSpin(r))
        \/ ~lock /\ lock' = TRUE
        \/ InSpin(r) /\ ~InSpin(r)'
    BY <2>2, <2>3 DEF InSpin
  <2>6. \/ wait_mutex' = wait_mutex /\ (InMutex(r)' <=> InMutex(r))
        \/ wait_mutex = NULL /\ wait_mutex' = r /\ InMutex(r)'
        \/ InMutex(r) /\ wait_mutex' = NULL /\ ~InMutex(r)'
    BY <2>2, <2>3, <2>4 DEF InMutex
  <2> QED
    BY <2>1, <2>2, <2>5, <2>6, <1>a, LocksMoved
<1>4. CASE UNCHANGED vars
  BY <1>4 DEF vars, chanVars, localVars, LocksOK, InSpin, InMutex
<1> QED
  BY <1>1, <1>2, <1>3, <1>4 DEF Next

\* Both locks exclude, with any number of threads on either side.
THEOREM LocksCorrect == Spec => []LocksOK
<1>1. TypeOK /\ CallsOK /\ LocksOK /\ [Next]_vars => LocksOK'
  BY LocksStep
<1> QED
  BY LocksInit, <1>1, TypeCorrect, PTL DEF Spec

-----------------------------------------------------------------------------
(* The linked list *)

\* What makes ListOK inductive: the queue has no message twice, none is one
\* its sender has not posted, the node whose tail write is pending is the last
\* one, and a receiver about to fix tail has a message and leaves a queue that
\* is empty or keeps its last node.
MessagesOK ==
  /\ \A i, j \in 1 .. Len(queue) : queue[i] = queue[j] => i = j
  /\ \A i \in 1 .. Len(queue) : queue[i][2] <= posted[queue[i][1]]
  /\ \A s \in Senders :
       pc[s] = "tail" => queue # <<>> /\ queue[Len(queue)] = <<s, posted[s]>>
  /\ \A r \in Receivers : pc[r] = "fix" => got[r] # NULL /\ (queue = <<>> \/ tail = Last)

\* The types, the locks and the list together.
ListInv == TypeOK /\ CallsOK /\ LocksOK /\ ListOK /\ MessagesOK

\* Two threads are never both inside the spinlock's critical section.
LEMMA OneInSpin ==
  ASSUME LocksOK, NEW t \in Thread, NEW u \in Thread, InSpin(t), u # t
  PROVE  pc[u] \notin {"link", "tail", "dequeue", "fix", "unspin"}
  BY DEF LocksOK, InSpin

\* A step that leaves the list alone, and nobody enters or leaves the two
\* program points the invariant speaks of.
LEMMA ListUntouched ==
  ASSUME ListInv, UNCHANGED listVars,
         \A s \in Senders : /\ pc'[s] = "tail" <=> pc[s] = "tail"
                            /\ pc[s] = "tail" => posted'[s] = posted[s]
                            /\ posted[s] <= posted'[s],
         \A r \in Receivers : /\ pc'[r] = "fix" <=> pc[r] = "fix"
                              /\ pc[r] = "fix" => got'[r] = got[r],
         posted' \in [Senders -> 0 .. MaxSends]
  PROVE  ListOK' /\ MessagesOK'
<1>1. UNCHANGED <<head, tail, next, queue>>
  BY DEF listVars
<1>2. ListOK'
  BY <1>1 DEF ListInv, ListOK, ListIsQueue, First, Last
<1>3. ASSUME NEW i \in 1 .. Len(queue) PROVE queue[i][2] <= posted'[queue[i][1]]
  <2>1. queue[i] \in Senders \X (1 .. MaxSends)
    BY EndsOfQueue, MasterToSlaveAssumption DEF ListInv, TypeOK
  <2>2. queue[i][1] \in Senders /\ queue[i][2] \in Int
    BY <2>1
  <2>3. /\ queue[i][2] <= posted[queue[i][1]] /\ posted[queue[i][1]] <= posted'[queue[i][1]]
        /\ posted[queue[i][1]] \in Int /\ posted'[queue[i][1]] \in Int
    BY <2>2, MasterToSlaveAssumption DEF ListInv, MessagesOK, TypeOK
  <2> QED
    BY <2>2, <2>3
<1>4. MessagesOK'
  BY <1>1, <1>3 DEF ListInv, MessagesOK, Last
<1> QED
  BY <1>2, <1>4

\* The new channel is the empty queue.
LEMMA ListInit == Init => ListOK /\ MessagesOK
<1> SUFFICES ASSUME Init PROVE ListOK /\ MessagesOK
  OBVIOUS
<1>1. queue = <<>> /\ Len(queue) = 0 /\ head = NULL /\ tail = NULL
  BY EmptySeq DEF Init, channel_new
<1>2. \A t \in Senders \cup Receivers : pc[t] = "idle"
  BY DEF Init, Thread
<1> QED
  BY <1>1, <1>2 DEF ListOK, ListIsQueue, First, Last, MessagesOK

\* channel_queue appends: the node is new, and tail is the last node because
\* nobody else is inside the spinlock.
LEMMA ListLink ==
  ASSUME ListInv, NEW s \in Senders, SendLink(s)
  PROVE  ListOK' /\ MessagesOK'
<1> DEFINE m == Message(s)
           n == Len(queue)
<1>0. /\ pc[s] = "link" /\ TypeOK /\ ChannelTypeOK
      /\ \A u \in Senders : u # s => pc[u] # "tail"
      /\ \A r \in Receivers : pc[r] # "fix"
  <2>1. pc[s] = "link" /\ InSpin(s) /\ LocksOK /\ TypeOK /\ ChannelTypeOK
    BY DEF SendLink, Go, InSpin, ListInv, TypeOK
  <2> QED
    BY <2>1, OneInSpin, ThreadKinds
<1>1. /\ \A u \in Senders : u # s => pc'[u] = pc[u]
      /\ \A r \in Receivers : pc'[r] = pc[r]
      /\ pc'[s] = "tail" /\ posted' = [posted EXCEPT ![s] = posted[s] + 1]
  BY <1>0, ThreadKinds DEF SendLink, Go, TypeOK
<1>2. m \in Msg /\ m = <<s, posted[s] + 1>> /\ posted[s] \in Nat
  BY MessageType, <1>0 DEF ListInv, CallsOK, Message
<1>3. tail = Last
  BY <1>0 DEF ListInv, ListOK
<1>4. n \in Nat /\ \A i \in 1 .. n : queue[i] \in Senders \X (1 .. MaxSends)
  BY <1>0, EndsOfQueue, MasterToSlaveAssumption
<1>5. \A i \in 1 .. n : queue[i] # m
  <2>1. ASSUME NEW i \in 1 .. n, queue[i] = m PROVE FALSE
    <3>1. queue[i][1] = s /\ queue[i][2] = posted[s] + 1
      BY <1>2, <2>1
    <3>2. queue[i][2] <= posted[queue[i][1]]
      BY DEF ListInv, MessagesOK
    <3> QED
      BY <3>1, <3>2, <1>2
  <2> QED
    BY <2>1
<1>6. /\ ListIsQueue'
      /\ Len(queue') = n + 1 /\ queue'[n + 1] = m /\ queue' # <<>>
      /\ \A i \in 1 .. n : queue'[i] = queue[i]
  <2>1. ListIsQueue /\ LinkMessage(m) /\ \A i, j \in 1 .. Len(queue) : queue[i] = queue[j] => i = j
    BY DEF SendLink, ListInv, ListOK, MessagesOK
  <2> QED
    BY <1>0, <1>2, <1>3, <1>5, <2>1, LinkKeepsList
<1>7. ListOK'
  BY <1>1, <1>6 DEF ListOK
<1>8. \A i, j \in 1 .. n + 1 : queue'[i] = queue'[j] => i = j
  <2>1. ASSUME NEW i \in 1 .. n + 1, NEW j \in 1 .. n + 1, queue'[i] = queue'[j]
        PROVE  i = j
    <3>1. CASE i \in 1 .. n /\ j \in 1 .. n
      BY <2>1, <3>1, <1>6 DEF ListInv, MessagesOK
    <3>2. CASE i = n + 1 /\ j # n + 1
      BY <2>1, <3>2, <1>4, <1>5, <1>6
    <3>3. CASE i # n + 1 /\ j = n + 1
      BY <2>1, <3>3, <1>4, <1>5, <1>6
    <3> QED
      BY <3>1, <3>2, <3>3, <1>4
  <2> QED
    BY <2>1
<1>9. ASSUME NEW i \in 1 .. n + 1 PROVE queue'[i][2] <= posted'[queue'[i][1]]
  <2>1. posted'[s] = posted[s] + 1 /\ \A u \in Senders : u # s => posted'[u] = posted[u]
    BY <1>0, <1>1 DEF TypeOK
  <2>2. CASE i = n + 1
    BY <2>1, <2>2, <1>2, <1>6
  <2>3. CASE i \in 1 .. n
    <3>1. queue[i] \in Senders \X (1 .. MaxSends)
      BY <2>3, <1>4
    <3>2. queue[i][1] \in Senders /\ queue[i][2] \in Int
      BY <3>1
    <3>3. queue[i][2] <= posted[queue[i][1]] /\ posted[queue[i][1]] \in Int
      BY <2>3, <3>2, <1>0, MasterToSlaveAssumption DEF ListInv, MessagesOK, TypeOK
    <3>4. posted[queue[i][1]] <= posted'[queue[i][1]]
      BY <2>1, <3>2, <3>3, <1>2
    <3>5. posted'[queue[i][1]] \in Int
      BY <2>1, <3>2, <3>3, <1>2
    <3> QED
      BY <2>3, <3>2, <3>3, <3>4, <3>5, <1>6
  <2> QED
    BY <2>2, <2>3, <1>4
<1>10. \A u \in Senders : pc'[u] = "tail" => u = s
  BY <1>0, <1>1
<1>11. queue'[Len(queue')] = <<s, posted'[s]>>
  BY <1>0, <1>1, <1>2, <1>6 DEF TypeOK
<1>12. MessagesOK'
  BY <1>0, <1>1, <1>6, <1>8, <1>9, <1>10, <1>11 DEF MessagesOK
<1> QED
  BY <1>7, <1>12

\* The last write of channel_queue puts tail on the node just linked.
LEMMA ListSetTail ==
  ASSUME ListInv, NEW s \in Senders, SendSetTail(s)
  PROVE  ListOK' /\ MessagesOK'
<1>0. /\ pc[s] = "tail" /\ TypeOK
      /\ \A u \in Senders : u # s => pc[u] # "tail"
      /\ \A r \in Receivers : pc[r] # "fix"
  <2>1. pc[s] = "tail" /\ InSpin(s) /\ LocksOK /\ TypeOK
    BY DEF SendSetTail, Go, InSpin, ListInv
  <2> QED
    BY <2>1, OneInSpin, ThreadKinds
<1>1. /\ \A u \in Senders : u # s => pc'[u] = pc[u]
      /\ \A r \in Receivers : pc'[r] = pc[r]
      /\ pc'[s] = "unspin" /\ tail' = <<s, posted[s]>>
      /\ UNCHANGED <<head, next, queue, posted>>
  BY <1>0, ThreadKinds DEF SendSetTail, SetTail, localVars, Go, TypeOK
<1>2. tail' = Last'
  BY <1>0, <1>1 DEF ListInv, MessagesOK, Last
<1>3. ListOK'
  BY <1>1, <1>2 DEF ListInv, ListOK, ListIsQueue, First, Last
<1>4. MessagesOK'
  BY <1>0, <1>1 DEF ListInv, MessagesOK
<1> QED
  BY <1>3, <1>4

\* channel_dequeue takes the first node; an empty queue is left with the old tail.
LEMMA ListUnlink ==
  ASSUME ListInv, NEW r \in Receivers, DequeueSome(r)
  PROVE  ListOK' /\ MessagesOK'
<1> DEFINE n == Len(queue)
<1>0. /\ pc[r] = "dequeue" /\ TypeOK /\ ChannelTypeOK
      /\ \A u \in Senders : pc[u] # "tail"
      /\ \A u \in Receivers : pc[u] # "fix"
  <2>1. pc[r] = "dequeue" /\ InSpin(r) /\ LocksOK /\ TypeOK /\ ChannelTypeOK
    BY DEF DequeueSome, Go, InSpin, ListInv, TypeOK
  <2> QED
    BY <2>1, OneInSpin, ThreadKinds
<1>1. /\ \A u \in Receivers : u # r => pc'[u] = pc[u]
      /\ \A u \in Senders : pc'[u] = pc[u]
      /\ pc'[r] = "fix" /\ got'[r] = head
      /\ UNCHANGED <<tail, posted>>
  BY <1>0, ThreadKinds DEF DequeueSome, UnlinkMessage, Go, TypeOK
<1>2. tail = Last
  BY <1>0 DEF ListInv, ListOK
<1>3. /\ ListIsQueue' /\ n \in Nat \ {0} /\ Len(queue') = n - 1
      /\ \A i \in 1 .. n - 1 : queue'[i] = queue[i + 1]
      /\ queue' # <<>> => Last' = Last
  BY <1>0, UnlinkKeepsList DEF DequeueSome, ListInv, ListOK
<1>4. \A i, j \in 1 .. n - 1 : queue'[i] = queue'[j] => i = j
  <2>1. ASSUME NEW i \in 1 .. n - 1, NEW j \in 1 .. n - 1, queue'[i] = queue'[j]
        PROVE  i = j
    <3>1. i + 1 \in 1 .. n /\ j + 1 \in 1 .. n
      BY <1>3
    <3>2. i + 1 = j + 1
      BY <3>1, <2>1, <1>3 DEF ListInv, MessagesOK
    <3> QED
      BY <3>2, <1>3
  <2> QED
    BY <2>1
<1>5. \A i \in 1 .. n - 1 : queue'[i][2] <= posted'[queue'[i][1]]
  <2>1. ASSUME NEW i \in 1 .. n - 1 PROVE queue'[i][2] <= posted'[queue'[i][1]]
    <3>1. i + 1 \in 1 .. n
      BY <1>3
    <3> QED
      BY <3>1, <1>1, <1>3 DEF ListInv, MessagesOK
  <2> QED
    BY <2>1
<1>6. head # NULL
  BY DEF DequeueSome, UnlinkMessage
<1>7. ListOK'
  BY <1>1, <1>3 DEF ListOK
<1>8. MessagesOK'
  BY <1>0, <1>1, <1>2, <1>3, <1>4, <1>5, <1>6 DEF MessagesOK
<1> QED
  BY <1>7, <1>8

\* The rest of channel_dequeue makes tail the last node again, or NULL.
LEMMA ListFixTail ==
  ASSUME ListInv, NEW r \in Receivers, ReceiveFixTail(r)
  PROVE  ListOK' /\ MessagesOK'
<1>0. /\ pc[r] = "fix" /\ TypeOK /\ ChannelTypeOK
      /\ \A u \in Senders : pc[u] # "tail"
      /\ \A u \in Receivers : u # r => pc[u] # "fix"
  <2>1. pc[r] = "fix" /\ InSpin(r) /\ LocksOK /\ TypeOK /\ ChannelTypeOK
    BY DEF ReceiveFixTail, Go, InSpin, ListInv, TypeOK
  <2> QED
    BY <2>1, OneInSpin, ThreadKinds
<1>1. /\ \A u \in Receivers : u # r => pc'[u] = pc[u]
      /\ \A u \in Senders : pc'[u] = pc[u]
      /\ pc'[r] = "unspin"
      /\ tail' = IF head = NULL THEN NULL ELSE tail
      /\ UNCHANGED <<head, next, queue, posted>>
  BY <1>0, ThreadKinds DEF ReceiveFixTail, FixTail, localVars, Go, TypeOK
<1>2. tail' = Last'
  <2>1. queue = <<>> \/ tail = Last
    BY <1>0 DEF ListInv, MessagesOK
  <2>2. head = NULL <=> queue = <<>>
    BY <1>0, EndsOfQueue DEF ListInv, ListOK, ListIsQueue
  <2> QED
    BY <2>1, <2>2, <1>1 DEF Last
<1>3. ListOK'
  BY <1>1, <1>2 DEF ListInv, ListOK, ListIsQueue, First, Last
<1>4. MessagesOK'
  BY <1>0, <1>1 DEF ListInv, MessagesOK
<1> QED
  BY <1>3, <1>4

\* Every step keeps the list and the queue together.
LEMMA ListStep == ListInv /\ [Next]_vars => ListOK' /\ MessagesOK'
<1> SUFFICES ASSUME ListInv, [Next]_vars PROVE ListOK' /\ MessagesOK'
  OBVIOUS
<1> USE ThreadKinds
<1>0. TypeOK /\ posted \in [Senders -> 0 .. MaxSends] /\ pc \in [Thread -> SenderPC \cup ReceiverPC]
  BY DEF ListInv, TypeOK
<1>1. ASSUME NEW s \in Senders, SendCall(s) \/ SenderStep(s)
      PROVE  ListOK' /\ MessagesOK'
  <2>1. CASE SendMallocFails(s)
    <3>1. posted[s] < MaxSends /\ posted[s] \in Nat
      BY <2>1, <1>0, MessageType DEF SendMallocFails, Go, ListInv, CallsOK
    <3>2. posted' \in [Senders -> 0 .. MaxSends]
      BY <2>1, <3>1, <1>0, MasterToSlaveAssumption DEF SendMallocFails
    <3>3. /\ \A u \in Senders : /\ posted[u] <= posted'[u]
                                /\ u # s => posted'[u] = posted[u]
      BY <2>1, <3>1, <1>0, MasterToSlaveAssumption DEF SendMallocFails
    <3>4. /\ \A u \in Thread : u # s => pc'[u] = pc[u]
          /\ pc[s] = "link" /\ pc'[s] = "unspin"
          /\ UNCHANGED listVars /\ UNCHANGED got
      BY <2>1, <1>0 DEF SendMallocFails, Go, chanVars
    <3> QED
      BY <3>2, <3>3, <3>4, ListUntouched
  <2>2. CASE SendLink(s)
    BY <2>2, ListLink
  <2>3. CASE SendSetTail(s)
    BY <2>3, ListSetTail
  <2>4. CASE SendSignal(s)
    <3>1. /\ pc[s] = "signal" /\ pc'[s] = "unmutex"
          /\ \A t \in Thread : \/ t = s
                               \/ pc'[t] = pc[t]
                               \/ t \in Receivers /\ pc[t] = "waiting" /\ pc'[t] = "woken"
          /\ UNCHANGED listVars /\ UNCHANGED <<got, posted>>
      BY <2>4, <1>0 DEF SendSignal, chanVars, localVars
    <3>2. \A u \in Senders : posted[u] <= posted'[u]
      BY <3>1, <1>0, MasterToSlaveAssumption
    <3> QED
      BY <3>1, <3>2, <1>0, ListUntouched
  <2>5. CASE SendCall(s) \/ SendSpinLock(s) \/ SendSpinUnlock(s) \/ SendMutexLock(s)
             \/ SendMutexUnlock(s)
    <3>1. /\ \A u \in Thread : u # s => pc'[u] = pc[u]
          /\ pc[s] \in {"idle", "spin", "unspin", "mutex", "unmutex"}
          /\ pc'[s] \in {"spin", "link", "mutex", "signal", "idle"}
          /\ UNCHANGED listVars /\ UNCHANGED <<got, posted>>
      BY <2>5, <1>0 DEF SendCall, SendSpinLock, SendSpinUnlock, SendMutexLock,
         SendMutexUnlock, Go, chanVars, localVars
    <3>2. \A u \in Senders : posted[u] <= posted'[u]
      BY <3>1, <1>0, MasterToSlaveAssumption
    <3> QED
      BY <3>1, <3>2, <1>0, ListUntouched
  <2> QED
    BY <1>1, <2>1, <2>2, <2>3, <2>4, <2>5 DEF SenderStep
<1>2. ASSUME NEW r \in Receivers, ReceiveCall(r) \/ ReceiverStep(r) \/ SpuriousWakeup(r)
      PROVE  ListOK' /\ MessagesOK'
  <2>1. CASE DequeueSome(r)
    BY <2>1, ListUnlink
  <2>2. CASE ReceiveFixTail(r)
    BY <2>2, ListFixTail
  <2>3. CASE ~DequeueSome(r) /\ ~ReceiveFixTail(r)
    <3>1. /\ \A u \in Thread : u # r => pc'[u] = pc[u]
          /\ \A u \in Receivers : u # r => got'[u] = got[u]
          /\ pc[r] # "fix" /\ pc'[r] # "fix"
          /\ UNCHANGED listVars /\ UNCHANGED posted
      BY <1>2, <2>3, <1>0 DEF ReceiveCall, ReceiverStep, SpuriousWakeup, ReceiveMutexLock,
         ReceiveSpinLock, DequeueNone, ReceiveSpinUnlock, ReceiveSleep, ReceiveRelock,
         AwaitReturn, Go, chanVars, localVars, TypeOK
    <3>2. \A u \in Senders : posted[u] <= posted'[u] /\ pc'[u] = pc[u]
      BY <3>1, <1>0, MasterToSlaveAssumption
    <3> QED
      BY <3>1, <3>2, <1>0, ListUntouched
  <2> QED
    BY <2>1, <2>2, <2>3
<1>3. CASE UNCHANGED vars
  BY <1>3 DEF vars, chanVars, listVars, localVars, ListInv, ListOK, ListIsQueue, First, Last,
     MessagesOK
<1> QED
  BY <1>1, <1>2, <1>3 DEF Next

\* The list is the queue, and tail its last node, with many on either side.
THEOREM ListCorrect == Spec => []ListInv
<1>1. ListInv /\ [Next]_vars => ListInv'
  BY TypeStep, LocksStep, ListStep DEF ListInv
<1>2. Init => ListInv
  BY TypeInit, LocksInit, ListInit DEF ListInv
<1> QED
  BY <1>1, <1>2, PTL DEF Spec

\* The invariant the runs check.
THEOREM ListAlwaysOK == Spec => []ListOK
<1>1. ListInv => ListOK
  BY DEF ListInv
<1> QED
  BY <1>1, ListCorrect, PTL

-----------------------------------------------------------------------------
(* The wakeups *)

\* The threads NoLostWakeup counts are finitely many.
LEMMA CountedSets ==
  ASSUME NEW T, T \subseteq Senders \/ T \subseteq Receivers
  PROVE  IsFiniteSet(T) /\ Cardinality(T) \in Nat
<1>1. IsFiniteSet(T)
  BY MasterToSlaveAssumption, FS_Subset
<1> QED
  BY <1>1, FS_CardinalityType

\* A larger set counts at least as much.
LEMMA CountsMore ==
  ASSUME NEW T, NEW U, T \subseteq U, U \subseteq Senders \/ U \subseteq Receivers
  PROVE  Cardinality(T) <= Cardinality(U)
  BY CountedSets, FS_Subset

\* A step that adds no message and takes no thread off its way to the signal or to the
\* queue keeps NoLostWakeup, unless it puts the first receiver to sleep.
LEMMA WakeupsKept ==
  ASSUME NoLostWakeup, Sleepy' # {} => Sleepy # {}, queue' = queue, Len(queue) \in Nat,
         Pending \subseteq Pending', Looking \subseteq Looking'
  PROVE  NoLostWakeup'
<1> DEFINE P == Cardinality(Pending)
           L == Cardinality(Looking)
           P2 == Cardinality(Pending')
           L2 == Cardinality(Looking')
<1>1. Pending \subseteq Senders /\ Pending' \subseteq Senders
      /\ Looking \subseteq Receivers /\ Looking' \subseteq Receivers
  BY DEF Pending, Looking
<1>2. P \in Nat /\ P2 \in Nat /\ L \in Nat /\ L2 \in Nat /\ P <= P2 /\ L <= L2
  BY <1>1, CountedSets, CountsMore
<1>3. SUFFICES ASSUME Sleepy' # {} PROVE Len(queue') <= P2 + L2
  BY DEF NoLostWakeup
<1>4. Len(queue) <= P + L
  BY <1>3 DEF NoLostWakeup
<1> QED
  BY <1>2, <1>4

\* A step that moves one sender out of Pending and one receiver into Looking, one that adds
\* a message and a sender, and one that takes a message and stops one receiver.
LEMMA WakeupsTraded ==
  ASSUME NoLostWakeup, Sleepy' # {} => Sleepy # {}, Len(queue) \in Nat,
         \/ /\ queue' = queue
            /\ \E s \in Pending, r \in Receivers \ Looking :
                 Pending' = Pending \ {s} /\ Looking' = Looking \cup {r}
         \/ /\ Len(queue') = Len(queue) + 1 /\ Looking' = Looking
            /\ \E s \in Senders \ Pending : Pending' = Pending \cup {s}
         \/ /\ Len(queue') = Len(queue) - 1 /\ Pending' = Pending
            /\ \E r \in Receivers : Looking' = Looking \ {r}
  PROVE  NoLostWakeup'
<1> DEFINE P == Cardinality(Pending)
           L == Cardinality(Looking)
           P2 == Cardinality(Pending')
           L2 == Cardinality(Looking')
<1>1. /\ IsFiniteSet(Pending) /\ IsFiniteSet(Looking)
      /\ P \in Nat /\ L \in Nat /\ P2 \in Nat /\ L2 \in Nat
  <2>1. Pending \subseteq Senders /\ Pending' \subseteq Senders
        /\ Looking \subseteq Receivers /\ Looking' \subseteq Receivers
    BY DEF Pending, Looking
  <2> QED
    BY <2>1, CountedSets
<1>2. SUFFICES ASSUME Sleepy' # {} PROVE Len(queue') <= P2 + L2
  BY DEF NoLostWakeup
<1>3. Len(queue) <= P + L
  BY <1>2 DEF NoLostWakeup
<1>4. ASSUME queue' = queue, NEW s \in Pending, NEW r \in Receivers \ Looking,
             Pending' = Pending \ {s}, Looking' = Looking \cup {r}
      PROVE  Len(queue') <= P2 + L2
  <2>1. P2 = P - 1
    BY <1>1, <1>4, FS_RemoveElement
  <2>2. L2 = L + 1
    BY <1>1, <1>4, FS_AddElement
  <2> QED
    BY <1>1, <1>3, <1>4, <2>1, <2>2
<1>5. ASSUME Len(queue') = Len(queue) + 1, Looking' = Looking, NEW s \in Senders \ Pending,
             Pending' = Pending \cup {s}
      PROVE  Len(queue') <= P2 + L2
  <2>1. P2 = P + 1
    BY <1>1, <1>5, FS_AddElement
  <2>2. L2 = L
    BY <1>5
  <2> QED
    BY <1>1, <1>3, <1>5, <2>1, <2>2
<1>6. ASSUME Len(queue') = Len(queue) - 1, Pending' = Pending, NEW r \in Receivers,
             Looking' = Looking \ {r}
      PROVE  Len(queue') <= P2 + L2
  <2>1. L2 = L \/ L2 = L - 1
    BY <1>1, <1>6, FS_RemoveElement
  <2>2. P2 = P
    BY <1>6
  <2> QED
    BY <1>1, <1>3, <1>6, <2>1, <2>2
<1> QED
  BY <1>4, <1>5, <1>6

\* What a sender's step other than the signal does to the three sets.
LEMMA SenderWakeups ==
  ASSUME ListInv, NoLostWakeup, NEW s \in Senders,
         SendCall(s) \/ (SenderStep(s) /\ ~SendSignal(s))
  PROVE  NoLostWakeup'
<1> USE ThreadKinds
<1>0. TypeOK /\ pc \in [Thread -> SenderPC \cup ReceiverPC] /\ Len(queue) \in Nat
  BY EndsOfQueue DEF ListInv, TypeOK
<1>1. /\ \A u \in Thread : u # s => pc'[u] = pc[u]
      /\ op' = op /\ got' = got
  BY <1>0 DEF SendCall, SenderStep, SendSpinLock, SendLink, SendMallocFails, SendSetTail,
     SendSpinUnlock, SendMutexLock, SendMutexUnlock, Go, localVars
<1>2. Sleepy' = Sleepy /\ Looking' = Looking
  BY <1>1 DEF Sleepy, Looking
<1>3. CASE SendLink(s)
  <2>1. pc[s] = "link" /\ pc'[s] = "tail"
    BY <1>3, <1>0 DEF SendLink, Go
  <2>2. s \in Senders \ Pending /\ Pending' = Pending \cup {s}
    BY <2>1, <1>1 DEF Pending
  <2>3. Len(queue') = Len(queue) + 1
    <3>1. queue' = Append(queue, Message(s)) /\ queue \in Seq(Msg)
      BY <1>3, <1>0 DEF SendLink, LinkMessage, TypeOK, ChannelTypeOK
    <3>2. Message(s) \in Msg
      BY <1>0, <2>1, MessageType DEF ListInv, CallsOK
    <3> QED
      BY ONLY <3>1, <3>2, AppendProperties
  <2> QED
    BY <1>0, <1>2, <2>2, <2>3, WakeupsTraded
<1>4. CASE ~SendLink(s)
  <2>1. /\ pc[s] \in {"tail", "unspin", "mutex"} => pc'[s] \in {"unspin", "mutex", "signal"}
        /\ pc[s] # "signal"
        /\ queue' = queue
    BY <1>4, <1>0 DEF SendCall, SenderStep, SendSpinLock, SendMallocFails, SendSetTail,
       SendSpinUnlock, SendMutexLock, SendMutexUnlock, SetTail, Go, chanVars, listVars
  <2>2. Pending \subseteq Pending'
    BY <2>1, <1>1 DEF Pending
  <2> QED
    BY <1>0, <1>2, <2>1, <2>2, WakeupsKept
<1> QED
  BY <1>3, <1>4

\* A signal wakes a receiver, unless none is asleep: the sender holds the
\* mutex, so that nobody is between finding the queue empty and waiting.
LEMMA SignalWakeups ==
  ASSUME ListInv, NoLostWakeup, NEW s \in Senders, SendSignal(s)
  PROVE  NoLostWakeup'
<1> USE ThreadKinds
<1>0. /\ TypeOK /\ pc \in [Thread -> SenderPC \cup ReceiverPC] /\ Len(queue) \in Nat
      /\ pc[s] = "signal" /\ queue' = queue /\ op' = op /\ got' = got
  BY EndsOfQueue DEF ListInv, TypeOK, SendSignal, chanVars, listVars, localVars
<1>1. CASE \E r \in Receivers : pc[r] = "waiting"
  <2>1. PICK r \in Receivers :
          pc[r] = "waiting" /\ pc' = [pc EXCEPT ![s] = "unmutex", ![r] = "woken"]
    BY <1>1 DEF SendSignal
  <2>2. /\ pc'[s] = "unmutex" /\ pc'[r] = "woken"
        /\ \A u \in Thread : u # s /\ u # r => pc'[u] = pc[u]
    BY <2>1, <1>0
  <2>3. op[r] = "await"
    BY <2>1 DEF ListInv, CallsOK
  <2>4. s \in Pending /\ Pending' = Pending \ {s}
    BY <2>2, <1>0 DEF Pending
  <2>5. r \in Receivers \ Looking /\ Looking' = Looking \cup {r}
    BY <2>1, <2>2, <2>3, <1>0 DEF Looking
  <2>6. Sleepy # {}
    BY <2>1, <2>3 DEF Sleepy
  <2> QED
    BY <1>0, <2>4, <2>5, <2>6, WakeupsTraded
<1>2. CASE ~ \E r \in Receivers : pc[r] = "waiting"
  <2>1. ASSUME NEW r \in Receivers, r \in Sleepy' PROVE FALSE
    <3>1. pc'[r] = pc[r]
      BY <1>0, <1>2 DEF SendSignal
    <3>2. InMutex(r)
      BY <2>1, <3>1, <1>0, <1>2 DEF Sleepy, InMutex
    <3>3. InMutex(s)
      BY <1>0 DEF InMutex
    <3> QED
      BY <3>2, <3>3 DEF ListInv, LocksOK
  <2>2. Sleepy' = {}
    BY <2>1 DEF Sleepy
  <2> QED
    BY <2>2 DEF NoLostWakeup
<1> QED
  BY <1>1, <1>2

\* What a receiver's step does to the three sets.
LEMMA ReceiverWakeups ==
  ASSUME ListInv, NoLostWakeup, NEW r \in Receivers,
         ReceiveCall(r) \/ ReceiverStep(r) \/ SpuriousWakeup(r)
  PROVE  NoLostWakeup'
<1> USE ThreadKinds
<1>0. /\ TypeOK /\ pc \in [Thread -> SenderPC \cup ReceiverPC] /\ Len(queue) \in Nat
      /\ op[r] \in {"await", "poll"}
      /\ op \in [Receivers -> ReceiverOps] /\ got \in [Receivers -> Msg \cup {NULL}]
  BY EndsOfQueue, MasterToSlaveAssumption DEF ListInv, TypeOK
<1>1. /\ \A u \in Thread : u # r => pc'[u] = pc[u]
      /\ \A u \in Receivers : u # r => op'[u] = op[u] /\ got'[u] = got[u]
  BY <1>0 DEF ReceiveCall, ReceiverStep, SpuriousWakeup, ReceiveMutexLock, ReceiveSpinLock,
     DequeueSome, DequeueNone, ReceiveFixTail, ReceiveSpinUnlock, ReceiveSleep,
     ReceiveRelock, AwaitReturn, Go, localVars
<1>2. Pending' = Pending
  BY <1>1 DEF Pending
<1>3. CASE DequeueSome(r)
  <2>1. pc[r] = "dequeue" /\ pc'[r] = "fix" /\ op' = op
    BY <1>3, <1>0 DEF DequeueSome, Go
  <2>2. Sleepy' \subseteq Sleepy /\ Looking' = Looking \ {r}
    BY <2>1, <1>1 DEF Sleepy, Looking
  <2>3. Len(queue') = Len(queue) - 1
    BY <1>3, UnlinkKeepsList DEF DequeueSome, ListInv, TypeOK, ListOK
  <2> QED
    BY <1>0, <1>2, <2>2, <2>3, WakeupsTraded
<1>4. CASE DequeueNone(r)
  <2>1. head = NULL /\ queue' = queue
    BY <1>4 DEF DequeueNone, chanVars, listVars
  <2>2. Len(queue') = 0
    BY <2>1, EndsOfQueue DEF ListInv, TypeOK, ListOK, ListIsQueue
  <2>3. Cardinality(Pending') \in Nat /\ Cardinality(Looking') \in Nat
    <3>1. Pending' \subseteq Senders /\ Looking' \subseteq Receivers
      BY DEF Pending, Looking
    <3> QED
      BY <3>1, CountedSets
  <2> QED
    BY <2>2, <2>3 DEF NoLostWakeup
<1>5. CASE ReceiveCall(r)
  <2>1. PICK o \in ReceiverOps :
          /\ op' = [op EXCEPT ![r] = o] /\ pc[r] = "idle" /\ got' = got /\ queue' = queue
          /\ pc' = [pc EXCEPT ![r] = IF o = "poll" THEN "spin" ELSE "mutex"]
    BY <1>5 DEF ReceiveCall, Go, chanVars, listVars
  <2>2. /\ op'[r] = o /\ o \in {"await", "poll"}
        /\ pc'[r] = IF o = "poll" THEN "spin" ELSE "mutex"
    BY <2>1, <1>0, MasterToSlaveAssumption
  <2>3. Sleepy' \subseteq Sleepy /\ Looking \subseteq Looking'
    BY <2>1, <2>2, <1>1 DEF Sleepy, Looking
  <2> QED
    BY <1>0, <1>2, <2>1, <2>3, WakeupsKept
<1>6. CASE ~DequeueSome(r) /\ ~DequeueNone(r) /\ ~ReceiveCall(r)
  <2>1. /\ op' = op /\ got' = got /\ queue' = queue
        /\ \/ pc[r] \in {"mutex", "woken"} /\ pc'[r] = "spin"
           \/ pc[r] = "spin" /\ pc'[r] = "dequeue"
           \/ pc[r] = "fix" /\ pc'[r] = "unspin"
           \/ /\ pc[r] = "unspin"
              /\ pc'[r] = IF op[r] = "poll" THEN "idle"
                          ELSE IF got[r] # NULL THEN "return" ELSE "sleep"
           \/ pc[r] = "sleep" /\ pc'[r] = "waiting"
           \/ pc[r] = "waiting" /\ pc'[r] = "woken"
           \/ pc[r] = "return" /\ pc'[r] = "idle"
    BY <1>6, <1>0 DEF ReceiverStep, SpuriousWakeup, ReceiveMutexLock, ReceiveSpinLock,
       ReceiveFixTail, FixTail, ReceiveSpinUnlock, ReceiveSleep, ReceiveRelock,
       AwaitReturn, Go, chanVars, listVars, localVars
  <2>2. pc[r] = "fix" => got[r] # NULL
    BY DEF ListInv, MessagesOK
  <2>3. Looking \subseteq Looking'
    BY <2>1, <1>1 DEF Looking
  <2>4. Sleepy' \subseteq Sleepy
    BY <2>1, <2>2, <1>0, <1>1 DEF Sleepy
  <2> QED
    BY <1>0, <1>2, <2>1, <2>3, <2>4, WakeupsKept
<1> QED
  BY <1>3, <1>4, <1>5, <1>6

\* One signal a message loses no wakeup, however many receivers wait.
THEOREM WakeupCorrect == Spec => []NoLostWakeup
<1>1. Init => NoLostWakeup
  <2> SUFFICES ASSUME Init PROVE Sleepy = {}
    BY DEF NoLostWakeup
  <2>1. \A r \in Receivers : pc[r] = "idle"
    BY ThreadKinds DEF Init
  <2> QED
    BY <2>1 DEF Sleepy
<1>2. ListInv /\ NoLostWakeup /\ [Next]_vars => NoLostWakeup'
  <2> SUFFICES ASSUME ListInv, NoLostWakeup, [Next]_vars PROVE NoLostWakeup'
    OBVIOUS
  <2>1. CASE UNCHANGED vars
    BY <2>1 DEF vars, chanVars, listVars, localVars, NoLostWakeup, Sleepy, Pending, Looking
  <2> QED
    BY <2>1, SenderWakeups, SignalWakeups, ReceiverWakeups DEF Next
<1> QED
  BY <1>1, <1>2, ListCorrect, PTL DEF Spec

-----------------------------------------------------------------------------
(* The mailbox *)

\* Linking a node posts its message, a failed malloc loses it, unlinking a
\* node takes the oldest message, and nothing else changes the mailbox.
LEMMA MailboxStep ==
  ASSUME ListInv, [Next]_vars
  PROVE  [mailbox!Next]_(mailbox!mailboxVars)
<1>1. ASSUME NEW s \in Senders, SendLink(s) PROVE mailbox!Next
  <2>1. pc[s] = "link" /\ posted[s] < MaxSends
    BY <1>1 DEF SendLink, Go, ListInv, CallsOK
  <2>2. mailbox!Post(s)
    BY <1>1, <2>1 DEF SendLink, LinkMessage, Message, mailbox!Post
  <2> QED
    BY <2>2 DEF mailbox!Next
<1>2. ASSUME NEW s \in Senders, SendMallocFails(s) PROVE mailbox!Next
  <2>1. MallocMayFail /\ pc[s] = "link" /\ posted[s] < MaxSends
    BY <1>2 DEF SendMallocFails, Go, ListInv, CallsOK
  <2>2. mailbox!Lose(s)
    BY <1>2, <2>1 DEF SendMallocFails, chanVars, listVars, mailbox!Lose
  <2> QED
    BY <2>2 DEF mailbox!Next
<1>3. ASSUME NEW r \in Receivers, DequeueSome(r) PROVE mailbox!Next
  <2>1. queue # <<>> /\ head = queue[1]
    BY <1>3 DEF DequeueSome, UnlinkMessage, ListInv, ListOK, ListIsQueue, First
  <2>2. mailbox!Take
    BY <1>3, <2>1 DEF DequeueSome, UnlinkMessage, mailbox!Take
  <2> QED
    BY <2>2 DEF mailbox!Next
<1>4. ASSUME NEW s \in Senders, SendCall(s) \/ SenderStep(s), ~SendLink(s), ~SendMallocFails(s)
      PROVE  UNCHANGED mailbox!mailboxVars
  BY <1>4 DEF SendCall, SenderStep, SendSpinLock, SendSetTail, SetTail, SendSpinUnlock,
     SendMutexLock, SendSignal, SendMutexUnlock, chanVars, listVars, localVars,
     mailbox!mailboxVars
<1>5. ASSUME NEW r \in Receivers, ReceiveCall(r) \/ ReceiverStep(r) \/ SpuriousWakeup(r),
             ~DequeueSome(r)
      PROVE  UNCHANGED mailbox!mailboxVars
  BY <1>5 DEF ReceiveCall, ReceiverStep, SpuriousWakeup, ReceiveMutexLock, ReceiveSpinLock,
     DequeueNone, ReceiveFixTail, FixTail, ReceiveSpinUnlock, ReceiveSleep, ReceiveRelock,
     AwaitReturn, chanVars, listVars, localVars, mailbox!mailboxVars
<1>6. CASE UNCHANGED vars
  BY <1>6 DEF vars, chanVars, listVars, localVars, mailbox!mailboxVars
<1> QED
  BY <1>1, <1>2, <1>3, <1>4, <1>5, <1>6 DEF Next

\* A job queue, and the channel an interpreter shares with its parent,
\* implement a first-in first-out mailbox whatever the interleaving.
THEOREM ImplementsMailbox == Spec => FIFO
<1>1. Init => mailbox!Init
  BY DEF Init, channel_new, mailbox!Init
<1>2. ListInv /\ [Next]_vars => [mailbox!Next]_(mailbox!mailboxVars)
  BY MailboxStep
<1> QED
  BY <1>1, <1>2, ListCorrect, PTL DEF Spec, FIFO, mailbox!Spec

=============================================================================
