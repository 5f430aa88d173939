--------------------------- MODULE MasterToSlave ---------------------------
(* Messages from the master to its slaves (master_slave_channel.c): threads   *)
(* in master_send_msg and threads in                                          *)
(*   await  slave_await_msg                                                   *)
(*   poll   slave_receive_msg_if_exists                                       *)
(* on the master_to_slave list of one ChannelPair.  A job queue has one       *)
(* receiver, its dispatcher, and two kinds of senders, the host and the       *)
(* dispatcher itself (interpreter_push_call); the channel an interpreter has  *)
(* with its parent has every dispatcher that runs p-awaitmsg for a receiver.  *)
(* Unlike slave_send_msg, master_send_msg signals after every message.        *)
EXTENDS Channel, FiniteSets

CONSTANTS Senders,        \* the threads that send
          Receivers,      \* the threads that receive
          ReceiverOps,    \* the operations the receivers use
          MaxSends,       \* bound on the messages of one sender
          MallocMayFail   \* may channel_queue return -1?

ASSUME MasterToSlaveAssumption ==
  /\ Senders \cap Receivers = {}
  /\ NULL \notin Senders \cup Receivers
  /\ IsFiniteSet(Senders) /\ IsFiniteSet(Receivers)
  /\ ReceiverOps \subseteq {"await", "poll"}
  /\ MaxSends \in Nat
  /\ MallocMayFail \in BOOLEAN
  /\ Msg = Senders \X (1 .. MaxSends)

VARIABLES
  pc,           \* where every thread is
  posted,       \* auxiliary: how many messages a sender has passed to channel_queue
  op,           \* the operation a receiver is in, or was in last
  got,          \* the local msg of a receiver
  rcvd,         \* auxiliary: the messages dequeued, oldest first
  wait_mutex    \* the thread that holds slave_wait_mutex, or NULL

localVars == <<posted, op, got, rcvd>>
vars == <<chanVars, pc, localVars, wait_mutex>>

Thread == Senders \cup Receivers

SenderPC   == {"idle", "spin", "link", "tail", "unspin", "mutex", "signal", "unmutex"}
ReceiverPC == {"idle", "mutex", "spin", "dequeue", "fix", "unspin", "return",
               "sleep", "waiting", "woken"}

Init ==
  /\ channel_new
  /\ pc = [t \in Thread |-> "idle"]
  /\ posted = [s \in Senders |-> 0]
  /\ op \in [Receivers -> ReceiverOps]
  /\ got = [r \in Receivers |-> NULL]
  /\ rcvd = <<>>
  /\ wait_mutex = NULL

\* Thread t moves from one program point to another.
Go(t, from, to) == pc[t] = from /\ pc' = [pc EXCEPT ![t] = to]

mutex_lock(t) == wait_mutex = NULL /\ wait_mutex' = t
mutex_unlock  == wait_mutex' = NULL

-----------------------------------------------------------------------------
(* master_send_msg *)

Message(s) == <<s, posted[s] + 1>>

\* Mutated forms: no specification uses them, each breaks a property of a run.
SendMutexLock_omitted(s) ==
  /\ Go(s, "mutex", "signal")
  /\ UNCHANGED <<chanVars, localVars, wait_mutex>>
SendSpinUnlock_signals_first_only(s) ==
  /\ Go(s, "unspin", IF Len(queue) <= 1 THEN "mutex" ELSE "idle")
  /\ spin_unlock
  /\ UNCHANGED <<listVars, localVars, wait_mutex>>

SendCall(s) ==
  /\ posted[s] < MaxSends
  /\ Go(s, "idle", "spin")
  /\ UNCHANGED <<chanVars, localVars, wait_mutex>>

SendSpinLock(s) ==
  /\ Go(s, "spin", "link")
  /\ spin_lock
  /\ UNCHANGED <<listVars, localVars, wait_mutex>>

SendLink(s) ==
  /\ Go(s, "link", "tail")
  /\ LinkMessage(Message(s))
  /\ posted' = [posted EXCEPT ![s] = @ + 1]
  /\ UNCHANGED <<lock, op, got, rcvd, wait_mutex>>

\* channel_queue returns -1 and master_send_msg does not look at it.
SendMallocFails(s) ==
  /\ MallocMayFail
  /\ Go(s, "link", "unspin")
  /\ posted' = [posted EXCEPT ![s] = @ + 1]
  /\ UNCHANGED <<chanVars, op, got, rcvd, wait_mutex>>

SendSetTail(s) ==
  /\ Go(s, "tail", "unspin")
  /\ SetTail(<<s, posted[s]>>)
  /\ UNCHANGED <<lock, localVars, wait_mutex>>

SendSpinUnlock(s) ==
  /\ Go(s, "unspin", "mutex")
  /\ spin_unlock
  /\ UNCHANGED <<listVars, localVars, wait_mutex>>

SendMutexLock(s) ==
  /\ Go(s, "mutex", "signal")
  /\ mutex_lock(s)
  /\ UNCHANGED <<chanVars, localVars>>

\* pthread_cond_signal wakes one of the threads that wait, if any does.
SendSignal(s) ==
  /\ pc[s] = "signal"
  /\ IF \E r \in Receivers : pc[r] = "waiting"
     THEN \E r \in Receivers :
            pc[r] = "waiting" /\ pc' = [pc EXCEPT ![s] = "unmutex", ![r] = "woken"]
     ELSE pc' = [pc EXCEPT ![s] = "unmutex"]
  /\ UNCHANGED <<chanVars, localVars, wait_mutex>>

SendMutexUnlock(s) ==
  /\ Go(s, "unmutex", "idle")
  /\ mutex_unlock
  /\ UNCHANGED <<chanVars, localVars>>

SenderStep(s) ==
  \/ SendSpinLock(s) \/ SendLink(s) \/ SendMallocFails(s) \/ SendSetTail(s)
  \/ SendSpinUnlock(s) \/ SendMutexLock(s) \/ SendSignal(s) \/ SendMutexUnlock(s)

-----------------------------------------------------------------------------
(* slave_await_msg and slave_receive_msg_if_exists *)

ReceiveCall(r) ==
  \E o \in ReceiverOps :
    /\ op' = [op EXCEPT ![r] = o]
    /\ Go(r, "idle", IF o = "poll" THEN "spin" ELSE "mutex")
    /\ UNCHANGED <<chanVars, posted, got, rcvd, wait_mutex>>

ReceiveMutexLock(r) ==
  /\ Go(r, "mutex", "spin")
  /\ mutex_lock(r)
  /\ UNCHANGED <<chanVars, localVars>>

ReceiveSpinLock(r) ==
  /\ Go(r, "spin", "dequeue")
  /\ spin_lock
  /\ UNCHANGED <<listVars, localVars, wait_mutex>>

DequeueSome(r) ==
  /\ Go(r, "dequeue", "fix")
  /\ UnlinkMessage
  /\ got' = [got EXCEPT ![r] = head]
  /\ rcvd' = Append(rcvd, head)
  /\ UNCHANGED <<lock, posted, op, wait_mutex>>

DequeueNone(r) ==
  /\ Go(r, "dequeue", "unspin")
  /\ head = NULL
  /\ got' = [got EXCEPT ![r] = NULL]
  /\ UNCHANGED <<chanVars, posted, op, rcvd, wait_mutex>>

ReceiveFixTail(r) ==
  /\ Go(r, "fix", "unspin")
  /\ FixTail
  /\ UNCHANGED <<lock, localVars, wait_mutex>>

\* A poll returns whatever it found; an await only goes on with a message.
ReceiveSpinUnlock(r) ==
  /\ Go(r, "unspin", IF op[r] = "poll" THEN "idle"
                     ELSE IF got[r] # NULL THEN "return" ELSE "sleep")
  /\ spin_unlock
  /\ UNCHANGED <<listVars, localVars, wait_mutex>>

\* pthread_cond_wait: release the mutex and wait, wake, take the mutex again.
ReceiveSleep(r) ==
  /\ Go(r, "sleep", "waiting")
  /\ mutex_unlock
  /\ UNCHANGED <<chanVars, localVars>>

SpuriousWakeup(r) ==
  /\ Go(r, "waiting", "woken")
  /\ UNCHANGED <<chanVars, localVars, wait_mutex>>

ReceiveRelock(r) ==
  /\ Go(r, "woken", "spin")
  /\ mutex_lock(r)
  /\ UNCHANGED <<chanVars, localVars>>

AwaitReturn(r) ==
  /\ Go(r, "return", "idle")
  /\ mutex_unlock
  /\ UNCHANGED <<chanVars, localVars>>

ReceiverStep(r) ==
  \/ ReceiveMutexLock(r) \/ ReceiveSpinLock(r) \/ DequeueSome(r) \/ DequeueNone(r)
  \/ ReceiveFixTail(r) \/ ReceiveSpinUnlock(r) \/ ReceiveSleep(r) \/ ReceiveRelock(r)
  \/ AwaitReturn(r)

-----------------------------------------------------------------------------
Next ==
  \/ \E s \in Senders : SendCall(s) \/ SenderStep(s)
  \/ \E r \in Receivers : ReceiveCall(r) \/ ReceiverStep(r) \/ SpuriousWakeup(r)

Spec == Init /\ [][Next]_vars

(* A thread inside a call keeps running and a receiver calls again, as the    *)
(* loop of dispatcher_loop does; spurious wakeups stop at some time.          *)
Fairness ==
  /\ \A s \in Senders : WF_vars(SenderStep(s))
  /\ \A r \in Receivers : WF_vars(ReceiveCall(r) \/ ReceiverStep(r))
  /\ <>[][~ \E r \in Receivers : SpuriousWakeup(r)]_vars

FairSpec == Spec /\ Fairness

-----------------------------------------------------------------------------
(* Properties *)

\* Every variable stays in its type.
TypeOK ==
  /\ ChannelTypeOK
  /\ pc \in [Thread -> SenderPC \cup ReceiverPC]
  /\ \A s \in Senders : pc[s] \in SenderPC
  /\ \A r \in Receivers : pc[r] \in ReceiverPC
  /\ posted \in [Senders -> 0 .. MaxSends]
  /\ op \in [Receivers -> ReceiverOps]
  /\ got \in [Receivers -> Msg \cup {NULL}]
  /\ rcvd \in Seq(Msg)
  /\ wait_mutex \in Thread \cup {NULL}

\* The list is the queue, and outside the two writes of channel_queue and of
\* channel_dequeue tail is its last node, although several threads queue and
\* several dequeue.
ListOK ==
  /\ ListIsQueue
  /\ (/\ \A s \in Senders : pc[s] # "tail"
      /\ \A r \in Receivers : pc[r] # "fix") => tail = Last

\* Who sleeps in slave_await_msg or is bound to, who will look at the queue
\* before it sleeps, and who has a signal still to come.
Sleepy == {r \in Receivers :
             /\ op[r] = "await"
             /\ \/ pc[r] \in {"sleep", "waiting"}
                \/ pc[r] = "unspin" /\ got[r] = NULL}
Looking == {r \in Receivers : op[r] = "await" /\ pc[r] \in {"mutex", "woken", "spin", "dequeue"}}
Pending == {s \in Senders : pc[s] \in {"tail", "unspin", "mutex", "signal"}}

\* While a receiver sleeps, every queued message has a signal still to come or
\* a receiver that is on its way to look: one signal a message is enough, and
\* no two messages share a wakeup.
NoLostWakeup == Sleepy # {} => Len(queue) <= Cardinality(Pending) + Cardinality(Looking)

\* Also with several receivers the channel is a first-in first-out mailbox.
mailbox == INSTANCE Mailbox WITH Lossy <- MallocMayFail
FIFO == mailbox!Spec

\* Every queued job is taken by a receiver that keeps calling.
Delivered ==
  \A m \in Msg : (\E i \in DOMAIN queue : queue[i] = m)
                  ~> (\E i \in DOMAIN rcvd : rcvd[i] = m)
=============================================================================
