--------------------------- MODULE SlaveToMaster ---------------------------
(* Messages from slaves to their master (master_slave_channel.c): any number  *)
(* of slave threads in slave_send_msg, one master thread in one of            *)
(*   await  master_await_msg                                                  *)
(*   poll   master_receive_msg_if_exists                                      *)
(*   block  master_signal_block_while_empty                                   *)
(* All of them share the list, its spinlock and one MasterSignal, which is    *)
(* what channelpair_new_one_to_many gives several slaves.  A step is at most  *)
(* one access to shared memory or one pthread call; pc[t] names the next one. *)
(* The master reads head outside the spinlock, so head moves under its feet.  *)
EXTENDS Channel

CONSTANTS Senders,        \* the slave threads
          Master,         \* the master thread
          MasterOps,      \* the operations the master's program uses
          MaxSends,       \* bound on the messages of one slave
          MallocMayFail   \* may channel_queue return -1?

ASSUME SlaveToMasterAssumption ==
  /\ Master \notin Senders
  /\ NULL \notin Senders \cup {Master}
  /\ MasterOps \subseteq {"await", "poll", "block"}
  /\ MaxSends \in Nat
  /\ MallocMayFail \in BOOLEAN
  /\ Msg = Senders \X (1 .. MaxSends)

VARIABLES
  pc,           \* where every thread is
  wasEmpty,     \* the local was_empty of a slave
  posted,       \* auxiliary: how many messages a slave has passed to channel_queue
  op,           \* the operation the master is in, or was in last
  got,          \* the master's local msg
  rcvd,         \* auxiliary: the messages the master dequeued, oldest first
  has_msg,      \* MasterSignal.has_msg
  wait_mutex    \* the thread that holds MasterSignal.wait_mutex, or NULL

slaveVars  == <<wasEmpty, posted>>
masterVars == <<op, got, rcvd>>
signalVars == <<has_msg, wait_mutex>>
vars == <<chanVars, pc, slaveVars, masterVars, signalVars>>

Thread == Senders \cup {Master}

SlavePC  == {"idle", "spin", "test", "link", "tail", "unspin",
             "flag", "mutex", "signal", "unmutex"}
MasterPC == {"idle", "mutex", "spin", "dequeue", "fix", "unspin", "check",
             "clear", "return", "load", "sleep", "waiting", "woken"}

\* The signal that the slaves share with the channel.
master_signal_new ==
  /\ has_msg = FALSE
  /\ wait_mutex = NULL

\* The pair of every slave, of channelpair_new_one_to_many, has the master's one channel and signal.
Init ==
  /\ channel_new
  /\ master_signal_new
  /\ pc = [t \in Thread |-> "idle"]
  /\ wasEmpty = [s \in Senders |-> FALSE]
  /\ posted = [s \in Senders |-> 0]
  /\ op \in MasterOps
  /\ got = NULL
  /\ rcvd = <<>>

\* Thread t moves from one program point to another.
Go(t, from, to) == pc[t] = from /\ pc' = [pc EXCEPT ![t] = to]

mutex_lock(t) == wait_mutex = NULL /\ wait_mutex' = t
mutex_unlock  == wait_mutex' = NULL

-----------------------------------------------------------------------------
(* slave_send_msg *)

Message(s) == <<s, posted[s] + 1>>

\* Mutated forms: no specification uses them, each breaks a property of a run.
SendTestEmpty_no_comparison(s) ==
  /\ Go(s, "test", "link")
  /\ wasEmpty' = [wasEmpty EXCEPT ![s] = head]
  /\ UNCHANGED <<chanVars, posted, masterVars, signalVars>>
SendTestEmpty_after_queueing(s) ==
  /\ Go(s, "test", "link")
  /\ wasEmpty' = [wasEmpty EXCEPT ![s] = FALSE]
  /\ UNCHANGED <<chanVars, posted, masterVars, signalVars>>
SendMutexLock_omitted(s) ==
  /\ Go(s, "mutex", "signal")
  /\ UNCHANGED <<chanVars, slaveVars, masterVars, signalVars>>
SendMutexUnlock_omitted(s) ==
  /\ Go(s, "unmutex", "idle")
  /\ UNCHANGED <<chanVars, slaveVars, masterVars, signalVars>>

SendCall(s) ==
  /\ posted[s] < MaxSends
  /\ Go(s, "idle", "spin")
  /\ UNCHANGED <<chanVars, slaveVars, masterVars, signalVars>>

SendSpinLock(s) ==
  /\ Go(s, "spin", "test")
  /\ spin_lock
  /\ UNCHANGED <<listVars, slaveVars, masterVars, signalVars>>

SendTestEmpty(s) ==
  /\ Go(s, "test", "link")
  /\ wasEmpty' = [wasEmpty EXCEPT ![s] = (head = NULL)]
  /\ UNCHANGED <<chanVars, posted, masterVars, signalVars>>

SendLink(s) ==
  /\ Go(s, "link", "tail")
  /\ LinkMessage(Message(s))
  /\ posted' = [posted EXCEPT ![s] = @ + 1]
  /\ UNCHANGED <<lock, wasEmpty, masterVars, signalVars>>

\* channel_queue returns -1 and slave_send_msg does not look at it.
SendMallocFails(s) ==
  /\ MallocMayFail
  /\ Go(s, "link", "unspin")
  /\ posted' = [posted EXCEPT ![s] = @ + 1]
  /\ UNCHANGED <<chanVars, wasEmpty, masterVars, signalVars>>

SendSetTail(s) ==
  /\ Go(s, "tail", "unspin")
  /\ SetTail(<<s, posted[s]>>)
  /\ UNCHANGED <<lock, slaveVars, masterVars, signalVars>>

SendSpinUnlock(s) ==
  /\ Go(s, "unspin", IF wasEmpty[s] THEN "flag" ELSE "idle")
  /\ spin_unlock
  /\ UNCHANGED <<listVars, slaveVars, masterVars, signalVars>>

SendSetFlag(s) ==
  /\ Go(s, "flag", "mutex")
  /\ has_msg' = TRUE
  /\ UNCHANGED <<chanVars, slaveVars, masterVars, wait_mutex>>

SendMutexLock(s) ==
  /\ Go(s, "mutex", "signal")
  /\ mutex_lock(s)
  /\ UNCHANGED <<chanVars, slaveVars, masterVars, has_msg>>

\* pthread_cond_signal: the master is the only thread that ever waits.
SendSignal(s) ==
  /\ pc[s] = "signal"
  /\ pc' = [pc EXCEPT ![s] = "unmutex",
                      ![Master] = IF @ = "waiting" THEN "woken" ELSE @]
  /\ UNCHANGED <<chanVars, slaveVars, masterVars, signalVars>>

SendMutexUnlock(s) ==
  /\ Go(s, "unmutex", "idle")
  /\ mutex_unlock
  /\ UNCHANGED <<chanVars, slaveVars, masterVars, has_msg>>

SlaveStep(s) ==
  \/ SendSpinLock(s) \/ SendTestEmpty(s) \/ SendLink(s) \/ SendMallocFails(s)
  \/ SendSetTail(s) \/ SendSpinUnlock(s) \/ SendSetFlag(s) \/ SendMutexLock(s)
  \/ SendSignal(s) \/ SendMutexUnlock(s)

-----------------------------------------------------------------------------
(* the master's operations *)

MasterCall ==
  \E o \in MasterOps :
    /\ op' = o
    /\ Go(Master, "idle", IF o = "poll" THEN "spin" ELSE "mutex")
    /\ UNCHANGED <<chanVars, slaveVars, got, rcvd, signalVars>>

\* Where await and block go once they hold wait_mutex: the top of their loop.
LoopTop == IF op = "await" THEN "spin" ELSE "load"

MasterMutexLock ==
  /\ Go(Master, "mutex", LoopTop)
  /\ mutex_lock(Master)
  /\ UNCHANGED <<chanVars, slaveVars, masterVars, has_msg>>

MasterSpinLock ==
  /\ Go(Master, "spin", "dequeue")
  /\ spin_lock
  /\ UNCHANGED <<listVars, slaveVars, masterVars, signalVars>>

MasterDequeueSome ==
  /\ Go(Master, "dequeue", "fix")
  /\ UnlinkMessage
  /\ got' = head
  /\ rcvd' = Append(rcvd, head)
  /\ UNCHANGED <<lock, slaveVars, op, signalVars>>

MasterDequeueNone ==
  /\ Go(Master, "dequeue", "unspin")
  /\ head = NULL
  /\ got' = NULL
  /\ UNCHANGED <<chanVars, slaveVars, op, rcvd, signalVars>>

MasterFixTail ==
  /\ Go(Master, "fix", "unspin")
  /\ FixTail
  /\ UNCHANGED <<lock, slaveVars, masterVars, signalVars>>

\* A poll that found nothing returns; an await goes to pthread_cond_wait.
MasterSpinUnlock ==
  /\ Go(Master, "unspin", IF got # NULL THEN "check"
                          ELSE IF op = "await" THEN "sleep" ELSE "idle")
  /\ spin_unlock
  /\ UNCHANGED <<listVars, slaveVars, masterVars, signalVars>>

\* The unlocked look at head.
MasterCheckEmpty ==
  /\ Go(Master, "check", IF head = NULL THEN "clear" ELSE "return")
  /\ UNCHANGED <<chanVars, slaveVars, masterVars, signalVars>>

MasterClearFlag ==
  /\ Go(Master, "clear", "return")
  /\ has_msg' = FALSE
  /\ UNCHANGED <<chanVars, slaveVars, masterVars, wait_mutex>>

MasterLoadFlag ==
  /\ Go(Master, "load", IF has_msg THEN "return" ELSE "sleep")
  /\ UNCHANGED <<chanVars, slaveVars, masterVars, signalVars>>

\* pthread_cond_wait releases the mutex and starts waiting in one step, ...
MasterSleep ==
  /\ Go(Master, "sleep", "waiting")
  /\ mutex_unlock
  /\ UNCHANGED <<chanVars, slaveVars, masterVars, has_msg>>

\* ... may stop waiting without a signal, ...
SpuriousWakeup ==
  /\ Go(Master, "waiting", "woken")
  /\ UNCHANGED <<chanVars, slaveVars, masterVars, signalVars>>

\* ... and takes the mutex again before it returns into the loop.
MasterRelock ==
  /\ Go(Master, "woken", LoopTop)
  /\ mutex_lock(Master)
  /\ UNCHANGED <<chanVars, slaveVars, masterVars, has_msg>>

MasterReturn ==
  /\ Go(Master, "return", "idle")
  /\ wait_mutex' = IF op = "poll" THEN wait_mutex ELSE NULL
  /\ UNCHANGED <<chanVars, slaveVars, masterVars, has_msg>>

MasterStep ==
  \/ MasterMutexLock \/ MasterSpinLock \/ MasterDequeueSome \/ MasterDequeueNone
  \/ MasterFixTail \/ MasterSpinUnlock \/ MasterCheckEmpty \/ MasterClearFlag
  \/ MasterLoadFlag \/ MasterSleep \/ MasterRelock \/ MasterReturn

-----------------------------------------------------------------------------
Next ==
  \/ \E s \in Senders : SendCall(s) \/ SlaveStep(s)
  \/ MasterCall \/ MasterStep \/ SpuriousWakeup

Spec == Init /\ [][Next]_vars

(* A thread inside a call keeps running.  The master calls again as soon as a *)
(* call returns, as main.ct does; a slave need never send.  No fairness among *)
(* the threads that contend for a lock is assumed, and spurious wakeups stop. *)
Fairness ==
  /\ \A s \in Senders : WF_vars(SlaveStep(s))
  /\ WF_vars(MasterCall \/ MasterStep)
  /\ <>[][~SpuriousWakeup]_vars

FairSpec == Spec /\ Fairness

-----------------------------------------------------------------------------
(* Properties *)

\* Where a thread is inside the spinlock's critical section, and where it
\* holds wait_mutex.
InSpin(t) == pc[t] \in {"test", "link", "tail", "dequeue", "fix", "unspin"}

InMutex(t) ==
  IF t = Master
  THEN \/ pc[t] \in {"load", "sleep"}
       \/ /\ op = "await"
          /\ pc[t] \in {"spin", "dequeue", "fix", "unspin", "check", "clear", "return"}
       \/ op = "block" /\ pc[t] = "return"
  ELSE pc[t] \in {"signal", "unmutex"}

\* Every variable stays in its type.
TypeOK ==
  /\ ChannelTypeOK
  /\ pc \in [Thread -> SlavePC \cup MasterPC]
  /\ pc[Master] \in MasterPC
  /\ \A s \in Senders : pc[s] \in SlavePC
  /\ wasEmpty \in [Senders -> BOOLEAN]
  /\ posted \in [Senders -> 0 .. MaxSends]
  /\ op \in MasterOps
  /\ got \in Msg \cup {NULL}
  /\ rcvd \in Seq(Msg)
  /\ has_msg \in BOOLEAN
  /\ wait_mutex \in Thread \cup {NULL}

\* The exchange on the atomic_bool gives the channel to one thread at a time,
\* and wait_mutex is held by exactly the thread whose code is between lock
\* and unlock.
LocksOK ==
  /\ lock = \E t \in Thread : InSpin(t)
  /\ \A t, u \in Thread : InSpin(t) /\ InSpin(u) => t = u
  /\ \A t \in Thread : InMutex(t) <=> wait_mutex = t

\* The linked list is the queue at every moment, also while a thread is in
\* the middle of channel_queue or channel_dequeue, and outside these two
\* writes tail is the last node: a tail left on a freed node would make the
\* next channel_queue write to freed memory and lose its message.
ListOK ==
  /\ ListIsQueue
  /\ tail = IF \E s \in Senders : pc[s] = "tail"
              THEN IF Len(queue) = 1 THEN NULL ELSE queue[Len(queue) - 1]
            ELSE IF pc[Master] = "fix" /\ queue = <<>> THEN got
            ELSE Last

\* The slaves that found the channel empty and have not signalled yet.
Signaller(s) ==
  /\ wasEmpty[s]
  /\ pc[s] \in {"tail", "unspin", "flag", "mutex", "signal"}

\* slave_send_msg signals only when it found the channel empty.  That is
\* enough: when master_await_msg is asleep, or bound to fall asleep because it
\* just found nothing, and there is a message, the slave that queued the
\* first of them has its signal still to come.
NoLostWakeup ==
  (/\ op = "await"
   /\ \/ pc[Master] \in {"sleep", "waiting"}
      \/ pc[Master] = "unspin" /\ got = NULL
   /\ queue # <<>>)
  => \E s \in Senders : Signaller(s)

\* A slave and the master talk through a first-in first-out mailbox: every
\* message is dequeued at most once, in the order of its sender's calls, and
\* only a failed malloc loses one.
mailbox == INSTANCE Mailbox WITH Lossy <- MallocMayFail
FIFO == mailbox!Spec

\* Once the master does nothing but await, as that of main.ct, every queued
\* message is dequeued, whatever polls and blocks it has made before.
Delivered ==
  <>[](op = "await") =>
    \A m \in Msg : (\E i \in DOMAIN queue : queue[i] = m)
                    ~> (\E i \in DOMAIN rcvd : rcvd[i] = m)

\* With such a master every slave_send_msg returns, and with it gives back the
\* locks it took.
SendReturns == <>[](op = "await") => \A s \in Senders : pc[s] # "idle" ~> pc[s] = "idle"

\* "blocks until a message has been queued" (master_slave_channel.h:34), the
\* half that it does not block for ever once one has been.
BlockWakes == op = "block" /\ pc[Master] = "waiting" /\ queue # <<>> ~> pc[Master] # "waiting"
=============================================================================
