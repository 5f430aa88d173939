------------------------ MODULE SlaveToMasterProofs ------------------------
(* Proofs about SlaveToMaster, for any slaves, any bound on their messages,   *)
(* any choice of the master's operations and both behaviours of malloc.       *)
EXTENDS SlaveToMaster, Lemmas

-----------------------------------------------------------------------------
(* The linked list of Channel *)

\* Its pointers hold the first and the last message, or nothing.
LEMMA EndsOfQueue ==
  ASSUME ChannelTypeOK
  PROVE  /\ Len(queue) \in Nat
         /\ queue = <<>> <=> Len(queue) = 0
         /\ \A i \in 1 .. Len(queue) : queue[i] \in Msg
         /\ First \in Msg \cup {NULL} /\ (First = NULL <=> queue = <<>>)
         /\ Last \in Msg \cup {NULL} /\ (Last = NULL <=> queue = <<>>)
<1>1. queue \in Seq(Msg) /\ First = FirstOf(queue, NULL) /\ Last = LastOf(queue, NULL)
  BY DEF ChannelTypeOK, First, Last, FirstOf, LastOf
<1> QED
  BY <1>1, NullNotMsg, EndsOfList

\* channel_queue of a new message, whose sender finds tail at the last node, appends it.
LEMMA LinkKeepsList ==
  ASSUME ChannelTypeOK, ListIsQueue, tail = Last,
         \A i, j \in 1 .. Len(queue) : queue[i] = queue[j] => i = j,
         NEW m \in Msg, \A i \in 1 .. Len(queue) : queue[i] # m,
         LinkMessage(m)
  PROVE  /\ ListIsQueue'
         /\ queue' # <<>> /\ Len(queue') = Len(queue) + 1 /\ queue'[Len(queue) + 1] = m
         /\ \A i \in 1 .. Len(queue) : queue'[i] = queue[i]
<1>1. queue \in Seq(Msg) /\ Linked(head, tail, next, queue, NULL)
  BY DEF ChannelTypeOK, ListIsQueue, First, Last, Linked, FirstOf, LastOf
<1>2. Queued(Msg, NULL, queue, head, tail, next, m, queue', head', next')
  BY DEF LinkMessage, Queued
<1>3. /\ Linked(head', m, next', queue', NULL)
      /\ queue' # <<>> /\ Len(queue') = Len(queue) + 1 /\ queue'[Len(queue) + 1] = m
      /\ \A i \in 1 .. Len(queue) : queue'[i] = queue[i]
  BY <1>1, <1>2, NullNotMsg, ListGrows
<1> QED
  BY <1>3 DEF Linked, FirstOf, ListIsQueue, First

\* channel_dequeue hands out the first message; the others stay as they were.
LEMMA UnlinkKeepsList ==
  ASSUME ChannelTypeOK, ListIsQueue, UnlinkMessage
  PROVE  /\ ListIsQueue'
         /\ queue # <<>> /\ head = queue[1] /\ Len(queue) \in Nat \ {0}
         /\ Len(queue') = Len(queue) - 1
         /\ \A i \in 1 .. Len(queue) - 1 : queue'[i] = queue[i + 1]
         /\ queue' = <<>> <=> Len(queue) = 1
         /\ queue' # <<>> => Last' = Last
<1>1. queue \in Seq(Msg) /\ Linked(head, Last, next, queue, NULL)
  BY DEF ChannelTypeOK, ListIsQueue, First, Last, Linked, FirstOf, LastOf
<1>2. PICK last : last = IF queue' = <<>> THEN NULL ELSE Last
  OBVIOUS
<1>3. Dequeued(NULL, queue, head, Last, next, queue', head', last) /\ next' = next
  BY <1>2 DEF UnlinkMessage, Dequeued
<1>4. /\ Linked(head', last, next, queue', NULL)
      /\ queue # <<>> /\ head = queue[1] /\ Len(queue) \in Nat \ {0}
      /\ Len(queue') = Len(queue) - 1
      /\ \A i \in 1 .. Len(queue) - 1 : queue'[i] = queue[i + 1]
      /\ queue' = <<>> <=> Len(queue) = 1
  BY <1>1, <1>3, NullNotMsg, ListShrinks
<1> QED
  BY <1>2, <1>3, <1>4 DEF Linked, FirstOf, LastOf, ListIsQueue, First, Last

-----------------------------------------------------------------------------
(* Types *)

\* What a thread's program point says about its own variables.
CallsOK ==
  /\ \A s \in Senders :
       /\ pc[s] \in {"spin", "test", "link"} => posted[s] < MaxSends
       /\ pc[s] = "tail" => posted[s] > 0
  /\ pc[Master] = "load" => op = "block"
  /\ pc[Master] \in {"mutex", "sleep", "waiting", "woken"} => op # "poll"
  /\ pc[Master] \in {"spin", "dequeue", "fix", "unspin", "check", "clear"} => op # "block"
  /\ pc[Master] = "fix" => got # NULL

\* The state that master_signal_new and channel_new leave has its types.
LEMMA TypeInit == Init => TypeOK /\ CallsOK
<1> SUFFICES ASSUME Init PROVE TypeOK /\ CallsOK
  OBVIOUS
<1>1. ChannelTypeOK
  BY EmptySeq DEF Init, master_signal_new, channel_new, ChannelTypeOK
<1>2. rcvd \in Seq(Msg)
  BY EmptySeq DEF Init, master_signal_new
<1>3. /\ pc \in [Thread -> SlavePC \cup MasterPC]
      /\ pc[Master] = "idle"
      /\ \A s \in Senders : pc[s] = "idle"
  BY DEF Init, master_signal_new, Thread, SlavePC, MasterPC
<1>4. wasEmpty \in [Senders -> BOOLEAN] /\ posted \in [Senders -> 0 .. MaxSends]
  BY SlaveToMasterAssumption DEF Init, master_signal_new
<1>5. TypeOK
  BY <1>1, <1>2, <1>3, <1>4 DEF Init, master_signal_new, TypeOK, SlavePC, MasterPC
<1>6. CallsOK
  BY <1>3 DEF CallsOK
<1> QED
  BY <1>5, <1>6

\* The message a slave is about to queue is one of its own.
LEMMA MessageType ==
  ASSUME NEW s \in Senders, TypeOK, posted[s] < MaxSends
  PROVE  Message(s) \in Msg /\ posted[s] \in Nat
BY SlaveToMasterAssumption DEF TypeOK, Message

\* No step takes a variable out of its type.
LEMMA TypeStep == TypeOK /\ CallsOK /\ [Next]_vars => TypeOK' /\ CallsOK'
<1> SUFFICES ASSUME TypeOK, CallsOK, [Next]_vars PROVE TypeOK' /\ CallsOK'
  OBVIOUS
<1> USE SlaveToMasterAssumption DEF Thread, SlavePC, MasterPC, Go
<1>1. ASSUME NEW s \in Senders, SendCall(s) PROVE TypeOK' /\ CallsOK'
  BY <1>1 DEF SendCall, TypeOK, ChannelTypeOK, CallsOK, chanVars, listVars,
     slaveVars, masterVars, signalVars
<1>2. ASSUME NEW s \in Senders, SendSpinLock(s) PROVE TypeOK' /\ CallsOK'
  BY <1>2 DEF SendSpinLock, spin_lock, TypeOK, ChannelTypeOK, CallsOK, listVars,
     slaveVars, masterVars, signalVars
<1>3. ASSUME NEW s \in Senders, SendTestEmpty(s) PROVE TypeOK' /\ CallsOK'
  BY <1>3 DEF SendTestEmpty, TypeOK, ChannelTypeOK, CallsOK, chanVars, listVars,
     masterVars, signalVars
<1>4. ASSUME NEW s \in Senders, SendLink(s) PROVE TypeOK' /\ CallsOK'
  <2>1. Message(s) \in Msg
    BY <1>4 DEF SendLink, Message, TypeOK, CallsOK
  <2>2. ChannelTypeOK'
    BY <1>4, <2>1, AppendProperties DEF SendLink, LinkMessage, TypeOK, ChannelTypeOK
  <2> QED
    BY <1>4, <2>2 DEF SendLink, TypeOK, CallsOK, masterVars, signalVars
<1>5. ASSUME NEW s \in Senders, SendMallocFails(s) PROVE TypeOK' /\ CallsOK'
  BY <1>5 DEF SendMallocFails, TypeOK, ChannelTypeOK, CallsOK, chanVars, listVars,
     masterVars, signalVars
<1>6. ASSUME NEW s \in Senders, SendSetTail(s) PROVE TypeOK' /\ CallsOK'
  <2>1. <<s, posted[s]>> \in Msg
    BY <1>6 DEF SendSetTail, TypeOK, CallsOK
  <2> QED
    BY <1>6, <2>1 DEF SendSetTail, SetTail, TypeOK, ChannelTypeOK, CallsOK,
       slaveVars, masterVars, signalVars
<1>7. ASSUME NEW s \in Senders, SendSpinUnlock(s) PROVE TypeOK' /\ CallsOK'
  BY <1>7 DEF SendSpinUnlock, spin_unlock, TypeOK, ChannelTypeOK, CallsOK, listVars,
     slaveVars, masterVars, signalVars
<1>8. ASSUME NEW s \in Senders, SendSetFlag(s) PROVE TypeOK' /\ CallsOK'
  BY <1>8 DEF SendSetFlag, TypeOK, ChannelTypeOK, CallsOK, chanVars, listVars,
     slaveVars, masterVars
<1>9. ASSUME NEW s \in Senders, SendMutexLock(s) PROVE TypeOK' /\ CallsOK'
  BY <1>9 DEF SendMutexLock, mutex_lock, TypeOK, ChannelTypeOK, CallsOK, chanVars,
     listVars, slaveVars, masterVars
<1>10. ASSUME NEW s \in Senders, SendSignal(s) PROVE TypeOK' /\ CallsOK'
  <2>1. /\ pc' \in [Thread -> SlavePC \cup MasterPC]
        /\ pc'[s] = "unmutex"
        /\ pc'[Master] = IF pc[Master] = "waiting" THEN "woken" ELSE pc[Master]
        /\ \A u \in Senders : u # s => pc'[u] = pc[u]
    BY <1>10 DEF SendSignal, TypeOK
  <2>2. UNCHANGED <<chanVars, slaveVars, masterVars, signalVars>>
    BY <1>10 DEF SendSignal
  <2>3. pc'[Master] \in MasterPC /\ \A u \in Senders : pc'[u] \in SlavePC
    BY <2>1 DEF TypeOK
  <2>4. TypeOK'
    BY <2>1, <2>2, <2>3 DEF TypeOK, ChannelTypeOK, chanVars, listVars, slaveVars,
       masterVars, signalVars
  <2>5. CallsOK'
    BY <2>1, <2>2 DEF CallsOK, slaveVars, masterVars
  <2> QED
    BY <2>4, <2>5
<1>11. ASSUME NEW s \in Senders, SendMutexUnlock(s) PROVE TypeOK' /\ CallsOK'
  BY <1>11 DEF SendMutexUnlock, mutex_unlock, TypeOK, ChannelTypeOK, CallsOK, chanVars,
     listVars, slaveVars, masterVars
<1>12. CASE MasterCall
  BY <1>12 DEF MasterCall, TypeOK, ChannelTypeOK, CallsOK, chanVars, listVars,
     slaveVars, signalVars
<1>13. CASE MasterMutexLock
  BY <1>13 DEF MasterMutexLock, LoopTop, mutex_lock, TypeOK, ChannelTypeOK,
     CallsOK, chanVars, listVars, slaveVars, masterVars
<1>14. CASE MasterSpinLock
  BY <1>14 DEF MasterSpinLock, spin_lock, TypeOK, ChannelTypeOK, CallsOK, listVars,
     slaveVars, masterVars, signalVars
<1>15. CASE MasterDequeueSome
  <2>1. head \in Msg /\ ChannelTypeOK'
    BY <1>15, RestIsSeq DEF MasterDequeueSome, UnlinkMessage, TypeOK, ChannelTypeOK
  <2>2. rcvd' \in Seq(Msg)
    BY <1>15, <2>1, AppendProperties DEF MasterDequeueSome, TypeOK
  <2> QED
    BY <1>15, <2>1, <2>2, NullNotMsg DEF MasterDequeueSome, TypeOK, CallsOK,
       slaveVars, signalVars
<1>16. CASE MasterDequeueNone
  BY <1>16 DEF MasterDequeueNone, TypeOK, ChannelTypeOK, CallsOK, chanVars, listVars,
     slaveVars, signalVars
<1>17. CASE MasterFixTail
  BY <1>17 DEF MasterFixTail, FixTail, TypeOK, ChannelTypeOK, CallsOK,
     slaveVars, masterVars, signalVars
<1>18. CASE MasterSpinUnlock
  BY <1>18 DEF MasterSpinUnlock, spin_unlock, TypeOK, ChannelTypeOK, CallsOK, listVars,
     slaveVars, masterVars, signalVars
<1>19. CASE MasterCheckEmpty
  BY <1>19 DEF MasterCheckEmpty, TypeOK, ChannelTypeOK, CallsOK, chanVars, listVars,
     slaveVars, masterVars, signalVars
<1>20. CASE MasterClearFlag
  BY <1>20 DEF MasterClearFlag, TypeOK, ChannelTypeOK, CallsOK, chanVars, listVars,
     slaveVars, masterVars
<1>21. CASE MasterLoadFlag
  BY <1>21 DEF MasterLoadFlag, TypeOK, ChannelTypeOK, CallsOK, chanVars, listVars,
     slaveVars, masterVars, signalVars
<1>22. CASE MasterSleep
  BY <1>22 DEF MasterSleep, mutex_unlock, TypeOK, ChannelTypeOK, CallsOK, chanVars,
     listVars, slaveVars, masterVars
<1>23. CASE SpuriousWakeup
  BY <1>23 DEF SpuriousWakeup, TypeOK, ChannelTypeOK, CallsOK, chanVars, listVars,
     slaveVars, masterVars, signalVars
<1>24. CASE MasterRelock
  BY <1>24 DEF MasterRelock, LoopTop, mutex_lock, TypeOK, ChannelTypeOK,
     CallsOK, chanVars, listVars, slaveVars, masterVars
<1>25. CASE MasterReturn
  BY <1>25 DEF MasterReturn, TypeOK, ChannelTypeOK, CallsOK, chanVars, listVars,
     slaveVars, masterVars
<1>26. CASE UNCHANGED vars
  BY <1>26 DEF vars, TypeOK, ChannelTypeOK, CallsOK, chanVars, listVars,
     slaveVars, masterVars, signalVars
<1> QED
  BY <1>1, <1>2, <1>3, <1>4, <1>5, <1>6, <1>7, <1>8, <1>9, <1>10, <1>11, <1>12, <1>13,
     <1>14, <1>15, <1>16, <1>17, <1>18, <1>19, <1>20, <1>21, <1>22, <1>23, <1>24, <1>25,
     <1>26
  DEF Next, SlaveStep, MasterStep

\* Every variable of the channel's protocol keeps its type.
THEOREM TypeCorrect == Spec => [](TypeOK /\ CallsOK)
  BY TypeInit, TypeStep, PTL DEF Spec

-----------------------------------------------------------------------------
(* The spinlock and the mutex *)

\* A step that moves nobody across the border of a critical section, and
\* leaves both locks alone, keeps LocksOK.
LEMMA LocksUntouched ==
  ASSUME LocksOK,
         \A t \in Thread : (InSpin(t)' <=> InSpin(t)) /\ (InMutex(t)' <=> InMutex(t)),
         UNCHANGED <<lock, wait_mutex>>
  PROVE  LocksOK'
BY DEF LocksOK

\* A step of one thread t that takes or leaves the spinlock.
LEMMA SpinMoved ==
  ASSUME LocksOK, NEW t \in Thread,
         \A u \in Thread : u # t => (InSpin(u)' <=> InSpin(u)),
         \A u \in Thread : InMutex(u)' <=> InMutex(u),
         UNCHANGED wait_mutex,
         \/ ~lock /\ lock' = TRUE /\ InSpin(t)'
         \/ InSpin(t) /\ lock' = FALSE /\ ~InSpin(t)'
  PROVE  LocksOK'
BY DEF LocksOK

\* A step of one thread t that takes or leaves the mutex.
LEMMA MutexMoved ==
  ASSUME LocksOK, NEW t \in Thread,
         \A u \in Thread : u # t => (InMutex(u)' <=> InMutex(u)),
         \A u \in Thread : InSpin(u)' <=> InSpin(u),
         UNCHANGED lock,
         \/ wait_mutex = NULL /\ wait_mutex' = t /\ InMutex(t)'
         \/ InMutex(t) /\ wait_mutex' = NULL /\ ~InMutex(t)'
  PROVE  LocksOK'
BY SlaveToMasterAssumption DEF LocksOK, Thread

\* At first nobody is inside a critical section, and both locks are free.
LEMMA LocksInit == Init => LocksOK
<1> SUFFICES ASSUME Init PROVE LocksOK
  OBVIOUS
<1>1. \A t \in Thread : pc[t] = "idle"
  BY DEF Init, master_signal_new
<1>2. \A t \in Thread : ~InSpin(t) /\ ~InMutex(t)
  BY <1>1 DEF InSpin, InMutex
<1>3. \A t \in Thread : wait_mutex # t
  BY SlaveToMasterAssumption DEF Init, master_signal_new, Thread
<1> QED
  BY <1>2, <1>3 DEF Init, master_signal_new, channel_new, LocksOK

\* Every step keeps both locks with the one thread inside.
LEMMA LocksStep ==
  TypeOK /\ CallsOK /\ LocksOK /\ [Next]_vars => LocksOK'
<1> SUFFICES ASSUME TypeOK, CallsOK, LocksOK, [Next]_vars PROVE LocksOK'
  OBVIOUS
<1>0. Master \in Thread /\ Senders \subseteq Thread /\ Master \notin Senders
  BY SlaveToMasterAssumption DEF Thread
<1>1. ASSUME NEW s \in Senders,
             \/ SendCall(s) \/ SendTestEmpty(s) \/ SendLink(s) \/ SendMallocFails(s)
             \/ SendSetTail(s) \/ SendSetFlag(s)
      PROVE LocksOK'
  <2>1. /\ \A t \in Thread : t # s => pc'[t] = pc[t]
        /\ \/ pc[s] \in {"idle", "flag"} /\ pc'[s] \in {"spin", "mutex"}
           \/ pc[s] \in {"test", "link", "tail"} /\ pc'[s] \in {"link", "tail", "unspin"}
        /\ UNCHANGED <<lock, wait_mutex, op>>
    BY <1>1, <1>0 DEF SendCall, SendTestEmpty, SendLink, SendMallocFails, SendSetTail,
       SendSetFlag, Go, LinkMessage, SetTail, chanVars, masterVars, signalVars, TypeOK
  <2>2. (InSpin(s)' <=> InSpin(s)) /\ (InMutex(s)' <=> InMutex(s))
    <3>1. s # Master
      BY <1>0
    <3>2. InSpin(s)' <=> InSpin(s)
      BY <2>1 DEF InSpin
    <3>3. ~InMutex(s) /\ ~InMutex(s)'
      BY <2>1, <3>1 DEF InMutex
    <3> QED
      BY <3>2, <3>3
  <2>3. \A t \in Thread : (InSpin(t)' <=> InSpin(t)) /\ (InMutex(t)' <=> InMutex(t))
    BY <2>1, <2>2 DEF InSpin, InMutex
  <2> QED
    BY <2>1, <2>3, LocksUntouched
<1>2. ASSUME NEW s \in Senders, SendSpinLock(s) \/ SendSpinUnlock(s)
      PROVE LocksOK'
  <2>1. /\ \A t \in Thread : t # s => pc'[t] = pc[t]
        /\ \/ pc[s] = "spin" /\ pc'[s] = "test" /\ ~lock /\ lock' = TRUE
           \/ pc[s] = "unspin" /\ pc'[s] \in {"flag", "idle"} /\ lock' = FALSE
        /\ UNCHANGED <<wait_mutex, op>>
    BY <1>2, <1>0 DEF SendSpinLock, SendSpinUnlock, spin_lock, spin_unlock, Go,
       masterVars, signalVars, TypeOK
  <2>2. /\ \A t \in Thread : t # s => (InSpin(t)' <=> InSpin(t))
        /\ \A t \in Thread : InMutex(t)' <=> InMutex(t)
    <3>1. s # Master
      BY <1>0
    <3>2. ~InMutex(s) /\ ~InMutex(s)'
      BY <2>1, <3>1 DEF InMutex
    <3> QED
      BY <2>1, <3>2 DEF InSpin, InMutex
  <2>3. \/ ~lock /\ lock' = TRUE /\ InSpin(s)'
        \/ InSpin(s) /\ lock' = FALSE /\ ~InSpin(s)'
    BY <2>1 DEF InSpin
  <2> QED
    BY <2>1, <2>2, <2>3, <1>0, SpinMoved
<1>3. ASSUME NEW s \in Senders, SendMutexLock(s) \/ SendMutexUnlock(s)
      PROVE LocksOK'
  <2>1. /\ \A t \in Thread : t # s => pc'[t] = pc[t]
        /\ \/ pc[s] = "mutex" /\ pc'[s] = "signal" /\ wait_mutex = NULL /\ wait_mutex' = s
           \/ pc[s] = "unmutex" /\ pc'[s] = "idle" /\ wait_mutex' = NULL
        /\ UNCHANGED <<lock, op>>
    BY <1>3, <1>0 DEF SendMutexLock, SendMutexUnlock, mutex_lock, mutex_unlock, Go,
       masterVars, chanVars, TypeOK
  <2>2. /\ \A t \in Thread : t # s => (InMutex(t)' <=> InMutex(t))
        /\ \A t \in Thread : InSpin(t)' <=> InSpin(t)
    <3>1. InSpin(s)' <=> InSpin(s)
      BY <2>1 DEF InSpin
    <3> QED
      BY <2>1, <3>1 DEF InSpin, InMutex
  <2>3. \/ wait_mutex = NULL /\ wait_mutex' = s /\ InMutex(s)'
        \/ InMutex(s) /\ wait_mutex' = NULL /\ ~InMutex(s)'
    BY <2>1, <1>0 DEF InMutex
  <2> QED
    BY <2>1, <2>2, <2>3, <1>0, MutexMoved
<1>4. ASSUME NEW s \in Senders, SendSignal(s) PROVE LocksOK'
  <2>1. /\ pc[s] = "signal" /\ pc'[s] = "unmutex"
        /\ \A t \in Thread : t # s /\ t # Master => pc'[t] = pc[t]
        /\ pc'[Master] = IF pc[Master] = "waiting" THEN "woken" ELSE pc[Master]
    BY <1>4, <1>0 DEF SendSignal, TypeOK
  <2>2. UNCHANGED <<lock, wait_mutex, op>>
    BY <1>4 DEF SendSignal, chanVars, masterVars, signalVars
  <2>3. (InSpin(s)' <=> InSpin(s)) /\ (InMutex(s)' <=> InMutex(s))
    BY <2>1, <1>0 DEF InSpin, InMutex
  <2>4. (InSpin(Master)' <=> InSpin(Master)) /\ (InMutex(Master)' <=> InMutex(Master))
    BY <2>1, <2>2 DEF InSpin, InMutex
  <2>5. \A t \in Thread : (InSpin(t)' <=> InSpin(t)) /\ (InMutex(t)' <=> InMutex(t))
    BY <2>1, <2>2, <2>3, <2>4 DEF InSpin, InMutex
  <2> QED
    BY <2>2, <2>5, LocksUntouched
<1>5. CASE \/ MasterCall \/ MasterDequeueSome \/ MasterDequeueNone \/ MasterFixTail
           \/ MasterCheckEmpty \/ MasterClearFlag \/ MasterLoadFlag \/ SpuriousWakeup
  <2>1. \A t \in Thread : t # Master => pc'[t] = pc[t]
    BY <1>5, <1>0 DEF MasterCall, MasterDequeueSome, MasterDequeueNone, MasterFixTail,
       MasterCheckEmpty, MasterClearFlag, MasterLoadFlag, SpuriousWakeup, Go, TypeOK
  <2>2. UNCHANGED <<lock, wait_mutex>>
    BY <1>5 DEF MasterCall, MasterDequeueSome, MasterDequeueNone, MasterFixTail,
       MasterCheckEmpty, MasterClearFlag, MasterLoadFlag, SpuriousWakeup, chanVars, signalVars
  <2>3. CASE MasterCall
    <3>1. /\ pc[Master] = "idle"
          /\ pc'[Master] = IF op' = "poll" THEN "spin" ELSE "mutex"
      BY <2>3, <1>0 DEF MasterCall, Go, TypeOK
    <3>2. op' # "await" \/ pc'[Master] = "mutex"
      BY <3>1
    <3>3. (InSpin(Master)' <=> InSpin(Master)) /\ (InMutex(Master)' <=> InMutex(Master))
      BY <3>1, <3>2 DEF InSpin, InMutex
    <3>4. \A t \in Thread : (InSpin(t)' <=> InSpin(t)) /\ (InMutex(t)' <=> InMutex(t))
      BY <2>1, <3>3 DEF InSpin, InMutex
    <3> QED
      BY <2>2, <3>4, LocksUntouched
  <2>4. CASE ~MasterCall
    <3>1. /\ op' = op
          /\ \/ pc[Master] = "dequeue" /\ pc'[Master] \in {"fix", "unspin"}
             \/ pc[Master] = "fix" /\ pc'[Master] = "unspin"
             \/ pc[Master] \in {"check", "clear"} /\ pc'[Master] \in {"clear", "return"}
             \/ pc[Master] = "load" /\ pc'[Master] \in {"return", "sleep"}
             \/ pc[Master] = "waiting" /\ pc'[Master] = "woken"
      BY <1>5, <2>4, <1>0 DEF MasterDequeueSome, MasterDequeueNone, MasterFixTail,
         MasterCheckEmpty, MasterClearFlag, MasterLoadFlag, SpuriousWakeup, Go,
         masterVars, TypeOK
    <3>2. (InSpin(Master)' <=> InSpin(Master)) /\ (InMutex(Master)' <=> InMutex(Master))
      BY <3>1 DEF InSpin, InMutex, CallsOK
    <3>3. \A t \in Thread : (InSpin(t)' <=> InSpin(t)) /\ (InMutex(t)' <=> InMutex(t))
      BY <2>1, <3>1, <3>2 DEF InSpin, InMutex
    <3> QED
      BY <2>2, <3>3, LocksUntouched
  <2> QED
    BY <2>3, <2>4
<1>6. CASE MasterSpinLock \/ MasterSpinUnlock
  <2>1. /\ \A t \in Thread : t # Master => pc'[t] = pc[t]
        /\ UNCHANGED <<wait_mutex, op>>
        /\ \/ pc[Master] = "spin" /\ pc'[Master] = "dequeue" /\ ~lock /\ lock' = TRUE
           \/ /\ pc[Master] = "unspin" /\ lock' = FALSE
              /\ \/ pc'[Master] = "check"
                 \/ pc'[Master] = IF op = "await" THEN "sleep" ELSE "idle"
    BY <1>6, <1>0 DEF MasterSpinLock, MasterSpinUnlock, spin_lock, spin_unlock, Go,
       masterVars, signalVars, TypeOK
  <2>2. InMutex(Master)' <=> InMutex(Master)
    BY <2>1 DEF InMutex, CallsOK
  <2>3. /\ \A t \in Thread : InMutex(t)' <=> InMutex(t)
        /\ \A t \in Thread : t # Master => (InSpin(t)' <=> InSpin(t))
    BY <2>1, <2>2 DEF InMutex, InSpin
  <2>4. \/ ~lock /\ lock' = TRUE /\ InSpin(Master)'
        \/ InSpin(Master) /\ lock' = FALSE /\ ~InSpin(Master)'
    BY <2>1 DEF InSpin
  <2> QED
    BY <2>1, <2>3, <2>4, <1>0, SpinMoved
<1>7. CASE MasterMutexLock \/ MasterRelock \/ MasterSleep
  <2>1. /\ \A t \in Thread : t # Master => pc'[t] = pc[t]
        /\ UNCHANGED <<lock, op>>
        /\ \/ /\ pc[Master] \in {"mutex", "woken"} /\ pc'[Master] = LoopTop
              /\ wait_mutex = NULL /\ wait_mutex' = Master
           \/ pc[Master] = "sleep" /\ pc'[Master] = "waiting" /\ wait_mutex' = NULL
    BY <1>7, <1>0 DEF MasterMutexLock, MasterRelock, MasterSleep, mutex_lock, mutex_unlock,
       Go, masterVars, chanVars, TypeOK
  <2>2. /\ \A t \in Thread : t # Master => (InMutex(t)' <=> InMutex(t))
        /\ \A t \in Thread : InSpin(t)' <=> InSpin(t)
    BY <2>1, <1>0 DEF InSpin, InMutex, LoopTop
  <2>3. \/ wait_mutex = NULL /\ wait_mutex' = Master /\ InMutex(Master)'
        \/ InMutex(Master) /\ wait_mutex' = NULL /\ ~InMutex(Master)'
    BY <2>1 DEF InMutex, LoopTop
  <2> QED
    BY <2>1, <2>2, <2>3, <1>0, MutexMoved
<1>8. CASE MasterReturn
  <2>1. /\ \A t \in Thread : t # Master => pc'[t] = pc[t]
        /\ UNCHANGED <<lock, op>>
        /\ pc[Master] = "return" /\ pc'[Master] = "idle"
        /\ wait_mutex' = IF op = "poll" THEN wait_mutex ELSE NULL
    BY <1>8, <1>0 DEF MasterReturn, Go, masterVars, chanVars, TypeOK
  <2>2. op \in {"await", "poll", "block"}
    BY SlaveToMasterAssumption DEF TypeOK
  <2>3. /\ \A t \in Thread : t # Master => (InMutex(t)' <=> InMutex(t))
        /\ \A t \in Thread : InSpin(t)' <=> InSpin(t)
    BY <2>1 DEF InSpin, InMutex
  <2>4. CASE op = "poll"
    <3>1. (InMutex(Master)' <=> InMutex(Master)) /\ wait_mutex' = wait_mutex
      BY <2>1, <2>4 DEF InMutex
    <3> QED
      BY <2>1, <2>3, <3>1, LocksUntouched
  <2>5. CASE op # "poll"
    <3>1. InMutex(Master) /\ ~InMutex(Master)' /\ wait_mutex' = NULL
      BY <2>1, <2>2, <2>5 DEF InMutex
    <3> QED
      BY <2>1, <2>3, <3>1, <1>0, MutexMoved
  <2> QED
    BY <2>4, <2>5
<1>9. CASE UNCHANGED vars
  <2>1. UNCHANGED <<lock, wait_mutex, pc, op>>
    BY <1>9 DEF vars, chanVars, masterVars, signalVars
  <2>2. \A t \in Thread : (InSpin(t)' <=> InSpin(t)) /\ (InMutex(t)' <=> InMutex(t))
    BY <2>1 DEF InSpin, InMutex
  <2> QED
    BY <2>1, <2>2, LocksUntouched
<1> QED
  BY <1>1, <1>2, <1>3, <1>4, <1>5, <1>6, <1>7, <1>8, <1>9
  DEF Next, SlaveStep, MasterStep

\* The atomic exchange and the mutex do exclude: at any time one thread at
\* most is inside either critical section, and the lock's value says so.
THEOREM LocksCorrect == Spec => []LocksOK
<1>1. TypeOK /\ CallsOK /\ LocksOK /\ [Next]_vars => LocksOK'
  BY LocksStep
<1> QED
  BY LocksInit, <1>1, TypeCorrect, PTL DEF Spec

-----------------------------------------------------------------------------
(* The linked list *)

\* What makes ListOK inductive: the queue has no message twice, none is one
\* its sender has not posted, the node whose tail write is pending is the
\* last one, and was_empty is still true or false when the node is linked.
MessagesOK ==
  /\ \A i, j \in 1 .. Len(queue) : queue[i] = queue[j] => i = j
  /\ \A i \in 1 .. Len(queue) : queue[i][2] <= posted[queue[i][1]]
  /\ \A s \in Senders :
       /\ pc[s] = "tail" => queue # <<>> /\ queue[Len(queue)] = <<s, posted[s]>>
       /\ pc[s] = "link" => (wasEmpty[s] <=> head = NULL)

\* The types, the locks and the list together.
ListInv == TypeOK /\ CallsOK /\ LocksOK /\ ListOK /\ MessagesOK

\* Where tail points between two operations.
LEMMA TailIsLast ==
  ASSUME ListInv, \A s \in Senders : pc[s] # "tail", pc[Master] # "fix"
  PROVE  tail = Last
BY DEF ListInv, ListOK

\* Two threads are never both inside the spinlock's critical section.
LEMMA OneInSpin ==
  ASSUME LocksOK, NEW t \in Thread, NEW u \in Thread, InSpin(t), u # t
  PROVE  pc[u] \notin {"test", "link", "tail", "dequeue", "fix", "unspin"}
BY DEF LocksOK, InSpin

\* A step that neither touches the list nor enters or leaves one of the
\* program points the invariant speaks of keeps it.
LEMMA ListUntouched ==
  ASSUME ListInv, UNCHANGED <<listVars, posted>>,
         \A s \in Senders : /\ pc'[s] = "tail" <=> pc[s] = "tail"
                            /\ pc'[s] = "link" => pc[s] = "link" /\ wasEmpty'[s] = wasEmpty[s],
         pc'[Master] = "fix" <=> pc[Master] = "fix",
         pc[Master] = "fix" => got' = got
  PROVE  ListOK' /\ MessagesOK'
<1>1. UNCHANGED <<head, tail, next, queue, posted>>
  BY DEF listVars
<1>2. MessagesOK'
  BY <1>1 DEF ListInv, MessagesOK
<1>3. ListOK'
  BY <1>1 DEF ListInv, ListOK, ListIsQueue, First, Last
<1> QED
  BY <1>2, <1>3

\* The new channel is the empty queue.
LEMMA ListInit == Init => ListOK /\ MessagesOK
<1> SUFFICES ASSUME Init PROVE ListOK /\ MessagesOK
  OBVIOUS
<1>1. queue = <<>> /\ Len(queue) = 0 /\ head = NULL /\ tail = NULL
  BY EmptySeq DEF Init, master_signal_new, channel_new
<1>2. \A t \in Thread : pc[t] = "idle"
  BY DEF Init, master_signal_new
<1>3. \A s \in Senders : pc[s] # "tail" /\ pc[s] # "link"
  BY <1>2 DEF Thread
<1>4. pc[Master] # "fix"
  BY <1>2 DEF Thread
<1>5. ListOK
  BY <1>1, <1>3, <1>4 DEF ListOK, ListIsQueue, First, Last
<1>6. MessagesOK
  BY <1>1, <1>3 DEF MessagesOK
<1> QED
  BY <1>5, <1>6

\* channel_queue appends: the node is new, and tail is the last node because
\* nobody else is inside the spinlock.
LEMMA ListLink ==
  ASSUME ListInv, NEW s \in Senders, SendLink(s)
  PROVE  ListOK' /\ MessagesOK'
<1> DEFINE m == Message(s)
           n == Len(queue)
<1>0. /\ Master \in Thread /\ Senders \subseteq Thread /\ Master \notin Senders
      /\ pc[s] = "link" /\ InSpin(s) /\ LocksOK /\ TypeOK /\ ChannelTypeOK
      /\ \A u \in Senders : u # s => pc[u] # "tail" /\ pc[u] # "link"
      /\ pc[Master] # "fix"
  <2>1. Master \in Thread /\ Senders \subseteq Thread /\ Master \notin Senders
    BY SlaveToMasterAssumption DEF Thread
  <2>2. pc[s] = "link" /\ InSpin(s) /\ LocksOK /\ TypeOK /\ ChannelTypeOK
    BY DEF SendLink, Go, InSpin, ListInv, TypeOK
  <2> QED
    BY <2>1, <2>2, OneInSpin
<1>1. /\ \A u \in Senders : u # s => pc'[u] = pc[u]
      /\ pc'[s] = "tail" /\ pc'[Master] = pc[Master]
      /\ posted' = [posted EXCEPT ![s] = posted[s] + 1]
      /\ UNCHANGED wasEmpty
  BY <1>0 DEF SendLink, Go, TypeOK
<1>2. m \in Msg /\ m = <<s, posted[s] + 1>> /\ posted[s] \in Nat
  BY MessageType, <1>0 DEF ListInv, CallsOK, Message, TypeOK
<1>3. tail = Last
  BY <1>0, TailIsLast
<1>4. /\ n \in Nat /\ (queue = <<>> <=> n = 0)
      /\ \A i \in 1 .. n : queue[i] \in Msg
      /\ (Last = NULL <=> queue = <<>>)
  BY <1>0, EndsOfQueue
<1>6. ASSUME NEW i \in 1 .. n, queue[i] = m
      PROVE  FALSE
  <2>1. queue[i][1] = s /\ queue[i][2] = posted[s] + 1
    BY <1>2, <1>6
  <2>2. queue[i][2] <= posted[queue[i][1]]
    BY DEF ListInv, MessagesOK
  <2> QED
    BY <2>1, <2>2, <1>2
<1>5. /\ ListIsQueue'
      /\ Len(queue') = n + 1 /\ queue'[n + 1] = m /\ queue' # <<>>
      /\ \A i \in 1 .. n : queue'[i] = queue[i]
  <2>1. ListIsQueue /\ LinkMessage(m) /\ \A i, j \in 1 .. Len(queue) : queue[i] = queue[j] => i = j
    BY DEF SendLink, ListInv, ListOK, MessagesOK
  <2> QED
    BY <1>0, <1>2, <1>3, <1>6, <2>1, LinkKeepsList
<1>7. tail' = tail
  BY DEF SendLink, LinkMessage
<1>9. ListOK'
  <2>1. tail' = IF Len(queue') = 1 THEN NULL ELSE queue'[Len(queue') - 1]
    <3>1. CASE n = 0
      BY <3>1, <1>3, <1>4, <1>5, <1>7
    <3>2. CASE n # 0
      <4>1. n \in 1 .. n /\ n + 1 # 1 /\ (n + 1) - 1 = n
        BY <3>2, <1>4
      <4> QED
        BY <4>1, <1>3, <1>4, <1>5, <1>7 DEF Last
    <3> QED
      BY <3>1, <3>2
  <2> QED
    BY <2>1, <1>1, <1>5 DEF ListOK
<1>10. MessagesOK'
  <2>1. \A i, j \in 1 .. n + 1 : queue'[i] = queue'[j] => i = j
    <3>1. ASSUME NEW i \in 1 .. n + 1, NEW j \in 1 .. n + 1, queue'[i] = queue'[j]
          PROVE  i = j
      <4>1. CASE i \in 1 .. n /\ j \in 1 .. n
        BY <3>1, <4>1, <1>5 DEF ListInv, MessagesOK
      <4>2. CASE i = n + 1 /\ j # n + 1
        BY <3>1, <4>2, <1>4, <1>5, <1>6
      <4>3. CASE i # n + 1 /\ j = n + 1
        BY <3>1, <4>3, <1>4, <1>5, <1>6
      <4> QED
        BY <4>1, <4>2, <4>3, <1>4
    <3> QED
      BY <3>1
  <2>2. ASSUME NEW i \in 1 .. n + 1
        PROVE  queue'[i][2] <= posted'[queue'[i][1]]
    <3>1. posted'[s] = posted[s] + 1 /\ \A u \in Senders : u # s => posted'[u] = posted[u]
      BY <1>0, <1>1 DEF TypeOK
    <3>2. CASE i = n + 1
      BY <3>1, <3>2, <1>2, <1>5
    <3>3. CASE i \in 1 .. n
      <4>1. queue[i] \in Senders \X (1 .. MaxSends)
        BY <3>3, <1>4, SlaveToMasterAssumption
      <4>2. queue[i][1] \in Senders /\ queue[i][2] \in Int
        BY <4>1, SlaveToMasterAssumption
      <4>3. queue[i][2] <= posted[queue[i][1]]
        BY <3>3 DEF ListInv, MessagesOK
      <4>4. posted[queue[i][1]] \in Int
        BY <4>2, <1>0, SlaveToMasterAssumption DEF TypeOK
      <4>5. queue[i][2] <= posted'[queue[i][1]]
        BY <4>2, <4>3, <4>4, <3>1
      <4> QED
        BY <4>5, <3>3, <1>5
    <3> QED
      BY <3>2, <3>3, <1>4
  <2>3. posted'[s] = posted[s] + 1
    BY <1>0, <1>1 DEF TypeOK
  <2>4. ASSUME NEW u \in Senders
        PROVE  /\ pc'[u] = "tail" => queue' # <<>> /\ queue'[Len(queue')] = <<u, posted'[u]>>
               /\ pc'[u] # "link"
    BY <2>3, <1>0, <1>1, <1>2, <1>5
  <2> QED
    BY <2>1, <2>2, <2>4, <1>5 DEF MessagesOK
<1> QED
  BY <1>9, <1>10

\* The other steps of a slave that touch the list or what the invariant says.
LEMMA ListSetTail ==
  ASSUME ListInv, NEW s \in Senders, SendSetTail(s)
  PROVE  ListOK' /\ MessagesOK'
<1>0. /\ Master \in Thread /\ Senders \subseteq Thread /\ Master \notin Senders
      /\ pc[s] = "tail" /\ InSpin(s) /\ LocksOK
  BY SlaveToMasterAssumption DEF Thread, SendSetTail, Go, InSpin, ListInv
<1>1. /\ \A u \in Senders : u # s => pc[u] # "tail" /\ pc[u] # "link"
      /\ pc[Master] # "fix"
  BY <1>0, OneInSpin
<1>2. /\ pc'[s] = "unspin" /\ pc'[Master] = pc[Master]
      /\ \A u \in Senders : u # s => pc'[u] = pc[u]
  BY <1>0 DEF SendSetTail, Go, ListInv, TypeOK
<1>3. \A u \in Senders : pc'[u] # "tail" /\ pc'[u] # "link"
  BY <1>1, <1>2
<1>4. UNCHANGED <<head, next, queue, posted>> /\ tail' = <<s, posted[s]>>
  BY DEF SendSetTail, SetTail, slaveVars
<1>5. queue # <<>> /\ queue[Len(queue)] = <<s, posted[s]>>
  BY <1>0 DEF ListInv, MessagesOK
<1>6. MessagesOK'
  BY <1>3, <1>4 DEF ListInv, MessagesOK
<1>7. ListOK'
  BY <1>1, <1>2, <1>3, <1>4, <1>5 DEF ListInv, ListOK, ListIsQueue, First, Last
<1> QED
  BY <1>6, <1>7

\* The slave in the spinlock sees whether the list is empty before it queues.
LEMMA ListTestEmpty ==
  ASSUME ListInv, NEW s \in Senders, SendTestEmpty(s)
  PROVE  ListOK' /\ MessagesOK'
<1>0. /\ Senders \subseteq Thread /\ Master \in Thread /\ Master # s
      /\ pc[s] = "test" /\ InSpin(s) /\ LocksOK
  BY SlaveToMasterAssumption DEF Thread, SendTestEmpty, Go, InSpin, ListInv
<1>1. /\ pc'[s] = "link" /\ wasEmpty'[s] = (head = NULL)
      /\ \A u \in Senders : u # s => pc'[u] = pc[u] /\ wasEmpty'[u] = wasEmpty[u]
      /\ pc'[Master] = pc[Master]
  BY <1>0 DEF SendTestEmpty, Go, ListInv, TypeOK
<1>2. UNCHANGED <<head, tail, next, queue, posted, got>>
  BY DEF SendTestEmpty, chanVars, listVars, masterVars
<1>3. MessagesOK'
  BY <1>0, <1>1, <1>2 DEF ListInv, MessagesOK
<1>4. \A u \in Senders : pc'[u] = "tail" <=> pc[u] = "tail"
  BY <1>0, <1>1
<1>5. ListOK'
  BY <1>1, <1>2, <1>4 DEF ListInv, ListOK, ListIsQueue, First, Last
<1> QED
  BY <1>3, <1>5

\* A channel_queue that gets no memory leaves the list as it is.
LEMMA ListMallocFails ==
  ASSUME ListInv, NEW s \in Senders, SendMallocFails(s)
  PROVE  ListOK' /\ MessagesOK'
<1>0. Senders \subseteq Thread /\ Master \in Thread /\ Master # s /\ pc[s] = "link"
  BY SlaveToMasterAssumption DEF Thread, SendMallocFails, Go
<1>1. /\ pc'[s] = "unspin" /\ posted'[s] = posted[s] + 1
      /\ \A u \in Senders : u # s => pc'[u] = pc[u] /\ posted'[u] = posted[u]
      /\ pc'[Master] = pc[Master]
  BY <1>0 DEF SendMallocFails, Go, ListInv, TypeOK
<1>2. UNCHANGED <<head, tail, next, queue, wasEmpty, got>>
  BY DEF SendMallocFails, chanVars, listVars, masterVars
<1>3. ASSUME NEW i \in 1 .. Len(queue)
      PROVE  queue[i][2] <= posted'[queue[i][1]]
  <2>1. queue[i] \in Senders \X (1 .. MaxSends)
    BY EndsOfQueue, SlaveToMasterAssumption DEF ListInv, TypeOK
  <2>2. /\ queue[i][1] \in Senders /\ queue[i][2] \in Int
        /\ posted[queue[i][1]] \in Int
        /\ queue[i][2] <= posted[queue[i][1]]
    BY <2>1, SlaveToMasterAssumption DEF ListInv, MessagesOK, TypeOK
  <2> QED
    BY <2>2, <1>1
<1>4. MessagesOK'
  BY <1>0, <1>1, <1>2, <1>3 DEF ListInv, MessagesOK
<1>5. \A u \in Senders : pc'[u] = "tail" <=> pc[u] = "tail"
  BY <1>0, <1>1
<1>6. ListOK'
  BY <1>1, <1>2, <1>5 DEF ListInv, ListOK, ListIsQueue, First, Last
<1> QED
  BY <1>4, <1>6

\* channel_dequeue takes the first message and leaves the others as they were.
LEMMA ListDequeue ==
  ASSUME ListInv, MasterDequeueSome
  PROVE  ListOK' /\ MessagesOK'
<1> DEFINE n == Len(queue)
<1>0. /\ Master \in Thread /\ Senders \subseteq Thread /\ Master \notin Senders
      /\ pc[Master] = "dequeue" /\ InSpin(Master) /\ LocksOK
  BY SlaveToMasterAssumption DEF Thread, MasterDequeueSome, Go, InSpin, ListInv
<1>1. /\ \A s \in Senders : pc[s] # "tail" /\ pc[s] # "link"
      /\ \A s \in Senders : pc'[s] = pc[s]
      /\ pc'[Master] = "fix"
  BY <1>0, OneInSpin DEF MasterDequeueSome, Go, ListInv, TypeOK
<1>2. /\ head # NULL /\ head' = next[head] /\ got' = head
      /\ UNCHANGED <<tail, next, posted, wasEmpty>>
  BY DEF MasterDequeueSome, UnlinkMessage, slaveVars
<1>3. /\ ListIsQueue'
      /\ queue # <<>> /\ head = queue[1] /\ n \in Nat \ {0}
      /\ Len(queue') = n - 1
      /\ \A i \in 1 .. n - 1 : queue'[i] = queue[i + 1]
      /\ queue' = <<>> <=> n = 1
      /\ queue' # <<>> => Last' = Last
  BY UnlinkKeepsList DEF MasterDequeueSome, ListInv, ListOK, TypeOK
<1>4. n \in 1 .. n /\ 1 \in 1 .. n
  BY <1>3
<1>6. tail = queue[n]
  BY <1>1, <1>0, <1>3, TailIsLast DEF Last
<1>11. tail' = IF queue' = <<>> THEN got' ELSE Last'
  BY <1>2, <1>3, <1>6 DEF Last
<1>12. ListOK'
  <2>1. CASE queue' = <<>>
    BY <2>1, <1>1, <1>3, <1>11 DEF ListOK
  <2>2. CASE queue' # <<>>
    BY <2>2, <1>1, <1>3, <1>11 DEF ListOK
  <2> QED
    BY <2>1, <2>2
<1>13. MessagesOK'
  <2>1. ASSUME NEW i \in 1 .. n - 1, NEW j \in 1 .. n - 1, queue'[i] = queue'[j]
        PROVE  i = j
    <3>1. i + 1 \in 1 .. n /\ j + 1 \in 1 .. n /\ queue[i + 1] = queue[j + 1]
      BY <2>1, <1>3
    <3>2. i + 1 = j + 1
      BY <3>1 DEF ListInv, MessagesOK
    <3> QED
      BY <3>2, <1>3
  <2>2. ASSUME NEW i \in 1 .. n - 1
        PROVE  queue'[i][2] <= posted'[queue'[i][1]]
    <3>1. i + 1 \in 1 .. n /\ queue'[i] = queue[i + 1]
      BY <1>3
    <3> QED
      BY <3>1, <1>2 DEF ListInv, MessagesOK
  <2> QED
    BY <2>1, <2>2, <1>1, <1>3 DEF MessagesOK
<1> QED
  BY <1>12, <1>13

\* channel_dequeue of the last message resets tail.
LEMMA ListFixTail ==
  ASSUME ListInv, MasterFixTail
  PROVE  ListOK' /\ MessagesOK'
<1>0. /\ Master \in Thread /\ Senders \subseteq Thread /\ Master \notin Senders
      /\ pc[Master] = "fix" /\ InSpin(Master) /\ LocksOK
  BY SlaveToMasterAssumption DEF Thread, MasterFixTail, Go, InSpin, ListInv
<1>1. /\ \A s \in Senders : pc[s] # "tail" /\ pc[s] # "link"
      /\ \A s \in Senders : pc'[s] = pc[s]
      /\ pc'[Master] = "unspin"
  BY <1>0, OneInSpin DEF MasterFixTail, Go, ListInv, TypeOK
<1>2. UNCHANGED <<head, next, queue, posted, wasEmpty, got>>
  BY DEF MasterFixTail, FixTail, slaveVars, masterVars
<1>3. MessagesOK'
  BY <1>1, <1>2 DEF ListInv, MessagesOK
<1>4. tail' = Last
  <2>1. head = First /\ (First = NULL <=> queue = <<>>) /\ (Last = NULL <=> queue = <<>>)
    BY EndsOfQueue DEF ListInv, ListOK, ListIsQueue, TypeOK
  <2>2. queue # <<>> => tail = Last
    BY <1>0, <1>1 DEF ListInv, ListOK
  <2> QED
    BY <2>1, <2>2 DEF MasterFixTail, FixTail
<1>5. ListOK'
  BY <1>1, <1>2, <1>4 DEF ListInv, ListOK, ListIsQueue, First, Last
<1> QED
  BY <1>3, <1>5

\* The steps that leave the list alone.
LEMMA ListOtherSlaveStep ==
  ASSUME ListInv, NEW s \in Senders,
         \/ SendCall(s) \/ SendSpinLock(s) \/ SendSpinUnlock(s) \/ SendSetFlag(s)
         \/ SendMutexLock(s) \/ SendSignal(s) \/ SendMutexUnlock(s)
  PROVE  ListOK' /\ MessagesOK'
<1>0. /\ s \in Thread /\ Master \in Thread /\ s # Master
      /\ Senders \subseteq Thread /\ Master \notin Senders
  BY SlaveToMasterAssumption DEF Thread
<1>1. UNCHANGED <<listVars, posted, wasEmpty, got>>
  BY DEF SendCall, SendSpinLock, SendSpinUnlock, SendSetFlag, SendMutexLock, SendSignal,
     SendMutexUnlock, chanVars, slaveVars, masterVars
<1>2. /\ pc[s] \notin {"tail", "link"} /\ pc'[s] \notin {"tail", "link"}
      /\ \A u \in Senders : u # s => pc'[u] = pc[u]
      /\ pc'[Master] = "fix" <=> pc[Master] = "fix"
  <2>1. CASE SendSignal(s)
    <3>1. /\ pc[s] = "signal" /\ pc'[s] = "unmutex"
          /\ \A u \in Senders : u # s => pc'[u] = pc[u]
      BY <2>1, <1>0 DEF SendSignal, ListInv, TypeOK
    <3>2. pc'[Master] = IF pc[Master] = "waiting" THEN "woken" ELSE pc[Master]
      BY <2>1, <1>0 DEF SendSignal, ListInv, TypeOK
    <3> QED
      BY <3>1, <3>2
  <2>2. CASE ~SendSignal(s)
    BY <2>2, <1>0 DEF SendCall, SendSpinLock, SendSpinUnlock, SendSetFlag, SendMutexLock,
       SendMutexUnlock, Go, ListInv, TypeOK
  <2> QED
    BY <2>1, <2>2
<1>3. \A u \in Senders : /\ pc'[u] = "tail" <=> pc[u] = "tail"
                         /\ pc'[u] = "link" => pc[u] = "link" /\ wasEmpty'[u] = wasEmpty[u]
  BY <1>1, <1>2
<1> QED
  BY <1>1, <1>2, <1>3, ListUntouched

\* And those of the master that do.
LEMMA ListOtherMasterStep ==
  ASSUME ListInv,
         \/ MasterCall \/ MasterMutexLock \/ MasterSpinLock \/ MasterDequeueNone
         \/ MasterSpinUnlock \/ MasterCheckEmpty \/ MasterClearFlag \/ MasterLoadFlag
         \/ MasterSleep \/ SpuriousWakeup \/ MasterRelock \/ MasterReturn
  PROVE  ListOK' /\ MessagesOK'
<1>0. Master \in Thread /\ Master \notin Senders /\ Senders \subseteq Thread
  BY SlaveToMasterAssumption DEF Thread
<1>1. UNCHANGED <<listVars, posted, wasEmpty>>
  BY DEF MasterCall, MasterMutexLock, MasterSpinLock, MasterDequeueNone, MasterSpinUnlock,
     MasterCheckEmpty, MasterClearFlag, MasterLoadFlag, MasterSleep, SpuriousWakeup,
     MasterRelock, MasterReturn, chanVars, slaveVars
<1>2. /\ \A u \in Senders : pc'[u] = pc[u]
      /\ pc[Master] # "fix" /\ pc'[Master] # "fix"
  BY <1>0 DEF MasterCall, MasterMutexLock, MasterSpinLock, MasterDequeueNone,
     MasterSpinUnlock, MasterCheckEmpty, MasterClearFlag, MasterLoadFlag, MasterSleep,
     SpuriousWakeup, MasterRelock, MasterReturn, Go, LoopTop, ListInv, TypeOK
<1>3. \A u \in Senders : /\ pc'[u] = "tail" <=> pc[u] = "tail"
                         /\ pc'[u] = "link" => pc[u] = "link" /\ wasEmpty'[u] = wasEmpty[u]
  BY <1>1, <1>2
<1> QED
  BY <1>1, <1>2, <1>3, ListUntouched

\* All steps keep the list and its messages, each by its lemma.
LEMMA ListStep == ListInv /\ [Next]_vars => ListOK' /\ MessagesOK'
<1> SUFFICES ASSUME ListInv, [Next]_vars PROVE ListOK' /\ MessagesOK'
  OBVIOUS
<1>1. CASE \E s \in Senders : SendCall(s) \/ SlaveStep(s)
  BY <1>1, ListLink, ListSetTail, ListTestEmpty, ListMallocFails, ListOtherSlaveStep
  DEF SlaveStep
<1>2. CASE MasterCall \/ MasterStep \/ SpuriousWakeup
  BY <1>2, ListDequeue, ListFixTail, ListOtherMasterStep DEF MasterStep
<1>3. CASE UNCHANGED vars
  <2>1. UNCHANGED <<listVars, posted, wasEmpty, got, pc>>
    BY <1>3 DEF vars, chanVars, slaveVars, masterVars
  <2> QED
    BY <2>1, ListUntouched
<1> QED
  BY <1>1, <1>2, <1>3 DEF Next

\* The spinlock makes channel_queue and channel_dequeue atomic for everybody
\* who takes it: the list is always the queue, and tail is its last node.
THEOREM ListCorrect == Spec => []ListInv
<1>1. Init => ListInv
  BY TypeInit, LocksInit, ListInit DEF ListInv
<1>2. ListInv /\ [Next]_vars => ListInv'
  BY TypeStep, LocksStep, ListStep DEF ListInv
<1> QED
  BY <1>1, <1>2, PTL DEF Spec

\* The part of ListCorrect that the model checker checks too.
THEOREM ListAlwaysOK == Spec => []ListOK
  BY ListCorrect, PTL DEF ListInv

-----------------------------------------------------------------------------
(* Wakeups *)

\* Who is about to signal stays so until the signal.
LEMMA SignallerStays ==
  ASSUME TypeOK, NEW s \in Senders, Signaller(s), [Next]_vars,
         ~SendSignal(s)
  PROVE  Signaller(s)'
<1>0. s \in Thread /\ Master \in Thread /\ s # Master /\ Senders \subseteq Thread
      /\ Master \notin Senders
  BY SlaveToMasterAssumption DEF Thread
<1>1. wasEmpty[s] /\ pc[s] \in {"tail", "unspin", "flag", "mutex", "signal"}
  BY DEF Signaller
<1>2. CASE SendCall(s) \/ SlaveStep(s)
  <2>1. SendSetTail(s) \/ SendSpinUnlock(s) \/ SendSetFlag(s) \/ SendMutexLock(s)
    BY <1>2, <1>1 DEF SlaveStep, SendCall, SendSpinLock, SendTestEmpty, SendLink,
       SendMallocFails, SendMutexUnlock, Go
  <2>2. pc'[s] \in {"unspin", "flag", "mutex", "signal"} /\ wasEmpty'[s] = wasEmpty[s]
    BY <2>1, <1>0, <1>1 DEF SendSetTail, SendSpinUnlock, SendSetFlag, SendMutexLock, Go,
       slaveVars, TypeOK
  <2> QED
    BY <2>2, <1>1 DEF Signaller
<1>3. ASSUME NEW u \in Senders, u # s, SendCall(u) \/ SlaveStep(u)
      PROVE  pc'[s] = pc[s] /\ wasEmpty'[s] = wasEmpty[s]
  BY <1>3, <1>0 DEF SendCall, SlaveStep, SendSpinLock, SendTestEmpty, SendLink,
     SendMallocFails, SendSetTail, SendSpinUnlock, SendSetFlag, SendMutexLock, SendSignal,
     SendMutexUnlock, Go, slaveVars, TypeOK
<1>4. CASE MasterCall \/ MasterStep \/ SpuriousWakeup
  <2>1. pc'[s] = pc[s] /\ wasEmpty'[s] = wasEmpty[s]
    BY <1>4, <1>0 DEF MasterCall, MasterStep, SpuriousWakeup, MasterMutexLock,
       MasterSpinLock, MasterDequeueSome, MasterDequeueNone, MasterFixTail,
       MasterSpinUnlock, MasterCheckEmpty, MasterClearFlag, MasterLoadFlag, MasterSleep,
       MasterRelock, MasterReturn, Go, slaveVars, TypeOK
  <2> QED
    BY <2>1, <1>1 DEF Signaller
<1>5. CASE UNCHANGED vars
  BY <1>5, <1>1 DEF vars, slaveVars, Signaller
<1>6. ASSUME NEW u \in Senders, u # s, SendCall(u) \/ SlaveStep(u)
      PROVE  Signaller(s)'
  BY <1>1, <1>3, <1>6 DEF Signaller
<1> QED
  BY <1>2, <1>4, <1>5, <1>6 DEF Next

\* Asleep, or bound to sleep because the dequeue found nothing.
Sleepy ==
  /\ op = "await"
  /\ \/ pc[Master] \in {"sleep", "waiting"}
     \/ pc[Master] = "unspin" /\ got = NULL

\* The master gets sleepy only by a dequeue that finds the list empty.
LEMMA GetsSleepy ==
  ASSUME ListInv, [Next]_vars, Sleepy', ~Sleepy
  PROVE  MasterDequeueNone
<1>0. Master \in Thread /\ Master \notin Senders /\ Senders \subseteq Thread
  BY SlaveToMasterAssumption DEF Thread
<1>1. ASSUME NEW s \in Senders, SendCall(s) \/ SlaveStep(s) PROVE Sleepy
  <2>1. CASE SendSignal(s)
    <3>1. pc'[Master] # "waiting" /\ (pc'[Master] # "woken" => pc'[Master] = pc[Master])
      BY <2>1, <1>0 DEF SendSignal, ListInv, TypeOK
    <3>2. op' = op /\ got' = got
      BY <2>1 DEF SendSignal, masterVars
    <3> QED
      BY <3>1, <3>2 DEF Sleepy
  <2>2. CASE ~SendSignal(s)
    <3>1. pc'[Master] = pc[Master] /\ op' = op /\ got' = got
      BY <1>1, <2>2, <1>0 DEF SendCall, SlaveStep, SendSpinLock, SendTestEmpty, SendLink,
         SendMallocFails, SendSetTail, SendSpinUnlock, SendSetFlag, SendMutexLock,
         SendMutexUnlock, Go, masterVars, ListInv, TypeOK
    <3> QED
      BY <3>1 DEF Sleepy
  <2> QED
    BY <2>1, <2>2
<1>2. CASE MasterFixTail
  <2>1. got' = got /\ got # NULL /\ pc'[Master] = "unspin"
    BY <1>2, <1>0 DEF MasterFixTail, Go, masterVars, ListInv, CallsOK, TypeOK
  <2> QED
    BY <2>1 DEF Sleepy
<1>3. CASE MasterLoadFlag
  <2>1. op' = "block"
    BY <1>3 DEF MasterLoadFlag, Go, masterVars, ListInv, CallsOK
  <2> QED
    BY <2>1 DEF Sleepy
<1>4. CASE MasterSpinUnlock
  <2>1. pc[Master] = "unspin" /\ pc'[Master] \in {"check", "sleep", "idle"} /\ op' = op
        /\ (pc'[Master] = "sleep" => got = NULL)
    BY <1>4, <1>0 DEF MasterSpinUnlock, Go, masterVars, ListInv, TypeOK
  <2> QED
    BY <2>1 DEF Sleepy
<1>5. CASE MasterSleep
  <2>1. pc[Master] = "sleep" /\ op' = op
    BY <1>5 DEF MasterSleep, Go, masterVars
  <2> QED
    BY <2>1 DEF Sleepy
<1>6. CASE \/ MasterCall \/ MasterMutexLock \/ MasterSpinLock \/ MasterDequeueSome
           \/ MasterCheckEmpty \/ MasterClearFlag \/ SpuriousWakeup \/ MasterRelock
           \/ MasterReturn
  <2>1. pc'[Master] \notin {"sleep", "waiting", "unspin"}
    BY <1>6, <1>0 DEF MasterCall, MasterMutexLock, MasterSpinLock, MasterDequeueSome,
       MasterCheckEmpty, MasterClearFlag, SpuriousWakeup, MasterRelock, MasterReturn,
       Go, LoopTop, ListInv, TypeOK
  <2> QED
    BY <2>1 DEF Sleepy
<1>7. CASE UNCHANGED vars
  BY <1>7 DEF vars, masterVars, Sleepy
<1> QED
  BY <1>1, <1>2, <1>3, <1>4, <1>5, <1>6, <1>7 DEF Next, MasterStep

\* A message enters the queue only by channel_queue.
LEMMA QueueGrows ==
  ASSUME ListInv, [Next]_vars, queue' # <<>>, queue = <<>>
  PROVE  \E s \in Senders : SendLink(s)
<1>1. ASSUME NEW s \in Senders, SendCall(s) \/ SlaveStep(s), ~SendLink(s)
      PROVE  queue' = queue
  BY <1>1 DEF SendCall, SlaveStep, SendSpinLock, SendTestEmpty, SendMallocFails,
     SendSetTail, SendSpinUnlock, SendSetFlag, SendMutexLock, SendSignal, SendMutexUnlock,
     SetTail, chanVars, listVars
<1>2. CASE MasterDequeueSome
  <2>1. head = NULL
    BY DEF ListInv, ListOK, ListIsQueue, First
  <2> QED
    BY <1>2, <2>1 DEF MasterDequeueSome, UnlinkMessage
<1>3. CASE (MasterCall \/ MasterStep \/ SpuriousWakeup) /\ ~MasterDequeueSome
  <2>1. queue' = queue
    BY <1>3 DEF MasterCall, MasterStep, SpuriousWakeup, MasterMutexLock, MasterSpinLock,
       MasterDequeueNone, MasterFixTail, FixTail, MasterSpinUnlock, MasterCheckEmpty,
       MasterClearFlag, MasterLoadFlag, MasterSleep, MasterRelock, MasterReturn,
       chanVars, listVars
  <2> QED
    BY <2>1
<1>4. CASE UNCHANGED vars
  BY <1>4 DEF vars, chanVars, listVars
<1> QED
  BY <1>1, <1>2, <1>3, <1>4 DEF Next, MasterStep

\* No step leaves the master asleep beside a message with nobody about to signal.
LEMMA WakeupStep ==
  ASSUME ListInv, NoLostWakeup, [Next]_vars
  PROVE  NoLostWakeup'
<1>0. Master \in Thread /\ Master \notin Senders /\ Senders \subseteq Thread
  BY SlaveToMasterAssumption DEF Thread
<1> SUFFICES ASSUME Sleepy', queue' # <<>>
             PROVE  \E s \in Senders : Signaller(s)'
  BY DEF NoLostWakeup, Sleepy
<1>1. CASE ~Sleepy
  <2>1. MasterDequeueNone
    BY <1>1, GetsSleepy
  <2>2. head = NULL /\ queue' = queue
    BY <2>1 DEF MasterDequeueNone, chanVars, listVars
  <2>3. queue = <<>>
    BY <2>2, EndsOfQueue DEF ListInv, ListOK, ListIsQueue, TypeOK
  <2> QED
    BY <2>2, <2>3
<1>2. CASE queue = <<>>
  <2>1. PICK s \in Senders : SendLink(s)
    BY <1>2, QueueGrows
  <2>2. pc[s] = "link" /\ pc'[s] = "tail" /\ wasEmpty'[s] = wasEmpty[s]
    BY <2>1, <1>0 DEF SendLink, Go, ListInv, TypeOK
  <2>3. wasEmpty[s]
    BY <1>2, <2>2 DEF ListInv, MessagesOK, ListOK, ListIsQueue, First
  <2> QED
    BY <2>2, <2>3 DEF Signaller
<1>3. CASE Sleepy /\ queue # <<>>
  <2>1. PICK s \in Senders : Signaller(s)
    BY <1>3 DEF NoLostWakeup, Sleepy
  <2>2. ~SendSignal(s)
    <3>1. SUFFICES ASSUME SendSignal(s) PROVE FALSE
      OBVIOUS
    <3>2. pc[s] = "signal" /\ pc[Master] # "waiting"
      <4>1. pc[s] = "signal" /\ pc'[Master] # "waiting" /\ op' = op
            /\ (pc[Master] = "waiting" => pc'[Master] = "woken")
        BY <3>1, <1>0 DEF SendSignal, masterVars, ListInv, TypeOK
      <4> QED
        BY <4>1 DEF Sleepy
    <3>3. InMutex(s) /\ InMutex(Master)
      <4>1. s # Master
        BY <1>0
      <4>2. InMutex(s)
        BY <4>1, <3>2 DEF InMutex
      <4>3. InMutex(Master)
        BY <3>2, <1>3 DEF InMutex, Sleepy
      <4> QED
        BY <4>2, <4>3
    <3> QED
      BY <3>3, <1>0 DEF ListInv, LocksOK
  <2>3. Signaller(s)'
    BY <2>1, <2>2, SignallerStays DEF ListInv
  <2> QED
    BY <2>3
<1> QED
  BY <1>1, <1>2, <1>3

\* Signalling only the first message of a non-empty channel loses no wakeup.
THEOREM WakeupCorrect == Spec => []NoLostWakeup
<1>1. Init => NoLostWakeup
  BY DEF Init, master_signal_new, channel_new, NoLostWakeup
<1>2. ListInv /\ NoLostWakeup /\ [Next]_vars => NoLostWakeup'
  BY WakeupStep
<1> QED
  BY <1>1, <1>2, ListCorrect, PTL DEF Spec

-----------------------------------------------------------------------------
(* The mailbox *)

\* Linking a node posts its message, a failed malloc loses it, unlinking a
\* node takes the oldest message, and nothing else changes the mailbox.
LEMMA MailboxStep ==
  ASSUME ListInv, [Next]_vars
  PROVE  [mailbox!Next]_(mailbox!mailboxVars)
<1>0. posted \in [Senders -> 0 .. MaxSends]
  BY DEF ListInv, TypeOK
<1>1. ASSUME NEW s \in Senders, SendLink(s) PROVE mailbox!Next
  <2>1. pc[s] = "link" /\ posted[s] < MaxSends
    BY <1>1 DEF SendLink, Go, ListInv, CallsOK
  <2>2. mailbox!Post(s)
    BY <1>1, <2>1 DEF SendLink, LinkMessage, Message, masterVars, mailbox!Post
  <2> QED
    BY <2>2 DEF mailbox!Next
<1>2. ASSUME NEW s \in Senders, SendMallocFails(s) PROVE mailbox!Next
  <2>1. MallocMayFail /\ pc[s] = "link" /\ posted[s] < MaxSends
    BY <1>2 DEF SendMallocFails, Go, ListInv, CallsOK
  <2>2. mailbox!Lose(s)
    BY <1>2, <2>1 DEF SendMallocFails, chanVars, listVars, masterVars, mailbox!Lose
  <2> QED
    BY <2>2 DEF mailbox!Next
<1>3. CASE MasterDequeueSome
  <2>1. head # NULL /\ head = First
    BY <1>3 DEF MasterDequeueSome, UnlinkMessage, ListInv, ListOK, ListIsQueue
  <2>2. queue # <<>> /\ head = queue[1]
    BY <2>1 DEF First
  <2>3. mailbox!Take
    BY <1>3, <2>2 DEF MasterDequeueSome, UnlinkMessage, slaveVars, mailbox!Take
  <2> QED
    BY <2>3 DEF mailbox!Next
<1>4. ASSUME NEW s \in Senders, SendCall(s) \/ SlaveStep(s), ~SendLink(s), ~SendMallocFails(s)
      PROVE  UNCHANGED mailbox!mailboxVars
  BY <1>4 DEF SendCall, SlaveStep, SendSpinLock, SendTestEmpty, SendSetTail, SetTail,
     SendSpinUnlock, SendSetFlag, SendMutexLock, SendSignal, SendMutexUnlock,
     chanVars, listVars, slaveVars, masterVars, mailbox!mailboxVars
<1>5. CASE (MasterCall \/ MasterStep \/ SpuriousWakeup) /\ ~MasterDequeueSome
  BY <1>5 DEF MasterCall, MasterStep, SpuriousWakeup, MasterMutexLock, MasterSpinLock,
     MasterDequeueNone, MasterFixTail, FixTail, MasterSpinUnlock, MasterCheckEmpty,
     MasterClearFlag, MasterLoadFlag, MasterSleep, MasterRelock, MasterReturn,
     chanVars, listVars, slaveVars, masterVars, mailbox!mailboxVars
<1>6. CASE UNCHANGED vars
  BY <1>6 DEF vars, chanVars, listVars, slaveVars, masterVars, mailbox!mailboxVars
<1> QED
  BY <1>1, <1>2, <1>3, <1>4, <1>5, <1>6 DEF Next

\* The channel of a master and its slaves implements a first-in first-out
\* mailbox, whatever the interleaving of their critical sections.
THEOREM ImplementsMailbox == Spec => FIFO
<1>1. Init => mailbox!Init
  BY DEF Init, master_signal_new, channel_new, mailbox!Init
<1>2. ListInv /\ [Next]_vars => [mailbox!Next]_(mailbox!mailboxVars)
  BY MailboxStep
<1> QED
  BY <1>1, <1>2, ListCorrect, PTL DEF Spec, FIFO, mailbox!Spec

=============================================================================
