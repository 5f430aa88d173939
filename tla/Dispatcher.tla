----------------------------- MODULE Dispatcher -----------------------------
(* One interpreter (interpreter.c): the thread of main.ct that starts it,     *)
(* receives its messages and frees it, and the dispatcher threads.            *)
(* Dispatcher 0 polls its job queue and, when that is empty, reads the next   *)
(* top-level sexp; the others wait for jobs.  Both directions of the channel  *)
(* to the parent, and the job queues, are the first-in first-out mailboxes    *)
(* that SlaveToMaster and MasterToSlave show them to be.                      *)
(*                                                                            *)
(* A call tree node is a job: i stands for the i-th sexp of the program, a    *)
(* member of HostJobs for a node that the host made with calltree_child_at    *)
(* and hands over with interpreter_push_call.  When a job ends and its parent *)
(* is not the root, the dispatcher queues the parent to itself.               *)
EXTENDS Naturals, Sequences, SequencesExt

CONSTANTS NumDispatchers,   \* Interpreter.num_dispatchers
          MaxSexps,         \* bound on the sexps of the program
          Replies,          \* how many messages the host sends; main.ct: none
          HostJobs,         \* call tree nodes of the host
          ParentOf,         \* CallTree.parent of these
          HostPushes,       \* those of them that the host pushes
          Root,             \* Interpreter.call_root
          NULL

ASSUME DispatcherAssumption ==
  /\ NumDispatchers \in Nat \ {0}
  /\ MaxSexps \in Nat
  /\ Replies \in Nat
  /\ HostJobs \cap Nat = {}
  /\ Root \notin HostJobs \cup Nat
  /\ NULL \notin HostJobs \cup Nat
  /\ ParentOf \in [HostJobs -> HostJobs \cup {Root}]
  /\ HostPushes \subseteq HostJobs

\* The host pushes one child of a node at most, and not the node itself: the
\* dispatcher of the first child to end would unwind into the node without
\* waiting for the second.
ASSUME OneChild ==
  /\ \A j, k \in HostJobs : ParentOf[j] = ParentOf[k] /\ j # k => ParentOf[j] = Root
  /\ \A j \in HostJobs : ParentOf[j] \notin HostPushes

Dispatchers == 0 .. NumDispatchers - 1

\* What evaluating a sexp of the program does to the state modelled here:
\* nothing, (p-sendmsg s), (p-awaitmsg) or (p-read).
Kind == {"plain", "send", "await", "read"}

\* Messages to the host: i, what the i-th sexp sent, and 0, the () that
\* dispatcher 0 sends at the end of the stream.  No program sends a () of its
\* own: main.ct would take it for the end.
Nil == 0

VARIABLES
  program,     \* the sexps of in_stream
  next,        \* the position of in_stream: the next one that reads returns
  main,        \* where the host's thread is
  pc,          \* where every dispatcher is
  job,         \* its local job
  job_queue,   \* dispatcher_queues: the master_to_slave list of each
  to_host,     \* parent_channel: slave_to_master
  from_host,   \* parent_channel: master_to_slave, a number of messages
  replied,     \* auxiliary: how many messages the host has sent
  received,    \* auxiliary: the messages the host has received
  pushed,      \* auxiliary: what the host has pushed
  results,     \* the nodes whose result is in their parent's call_results
  destroyed    \* the nodes whose arena has been returned to the pool

hostVars == <<main, replied, received, pushed>>
vars == <<program, next, pc, job, job_queue, to_host, from_host, results,
          destroyed, hostVars>>

\* interpreter_new and interpreter_set_stream; no dispatcher runs yet.
Init ==
  /\ program \in UNION {[1 .. n -> Kind] : n \in 0 .. MaxSexps}
  /\ next = 1
  /\ main = "new"
  /\ pc = [d \in Dispatchers |-> "off"]
  /\ job = [d \in Dispatchers |-> NULL]
  /\ job_queue = [d \in Dispatchers |-> <<>>]
  /\ to_host = <<>>
  /\ from_host = 0
  /\ replied = 0
  /\ received = <<>>
  /\ pushed = {}
  /\ results = {}
  /\ destroyed = {}

\* Dispatcher d moves from one program point to another.
Go(d, from, to) == pc[d] = from /\ pc' = [pc EXCEPT ![d] = to]

-----------------------------------------------------------------------------
(* The host *)

\* It creates the job queues anew: what was pushed before is in the old ones.
interpreter_begin ==
  /\ main = "new"
  /\ main' = "await"
  /\ pc' = [d \in Dispatchers |-> "poll"]
  /\ job_queue' = [d \in Dispatchers |-> <<>>]
  /\ UNCHANGED <<program, next, job, to_host, from_host, results, destroyed,
                 replied, received, pushed>>

\* interpreter_push_call, as long as the host still has the interpreter.
HostPush(j, d) ==
  /\ main # "freed"
  /\ j \in HostPushes \ pushed
  /\ pushed' = pushed \cup {j}
  /\ job_queue' = [job_queue EXCEPT ![d] = Append(@, j)]
  /\ UNCHANGED <<program, next, pc, job, to_host, from_host, results, destroyed,
                 main, replied, received>>

\* master_await_msg and the test of the loop in main.
MainReceive ==
  /\ main = "await"
  /\ to_host # <<>>
  /\ to_host' = Tail(to_host)
  /\ received' = Append(received, Head(to_host))
  /\ main' = IF Head(to_host) = Nil THEN "free" ELSE "await"
  /\ UNCHANGED <<program, next, pc, job, job_queue, from_host, results, destroyed,
                 replied, pushed>>

\* A host that answers, which main.ct does not: master_send_msg.
HostReply ==
  /\ main = "await"
  /\ replied < Replies
  /\ replied' = replied + 1
  /\ from_host' = from_host + 1
  /\ UNCHANGED <<program, next, pc, job, job_queue, to_host, results, destroyed,
                 main, received, pushed>>

\* It frees the call root, the pool, the read table and the interpreter, and main returns, which ends the
\* process: no dispatcher goes on.  It does not join them (TODO, interpreter.c:259).  What one that is not yet
\* through may do with freed memory until the process has ended is not modelled.
interpreter_free ==
  /\ main = "free"
  /\ main' = "freed"
  /\ UNCHANGED <<program, next, pc, job, job_queue, to_host, from_host, results,
                 destroyed, replied, received, pushed>>

MainStep == interpreter_begin \/ MainReceive \/ interpreter_free

-----------------------------------------------------------------------------
(* dispatcher_loop *)

\* A job of the host is plain.
KindOf(j) == IF j \in DOMAIN program THEN program[j] ELSE "plain"

\* Mutated forms: no specification uses them, each breaks a property of a run.
PollEmpty_unchecked ==
  /\ Go(0, "poll", "read")
  /\ UNCHANGED <<program, next, job, job_queue, to_host, from_host, results,
                 destroyed, hostVars>>
SendEOF_and_continue ==
  /\ Go(0, "eof", "poll")
  /\ to_host' = Append(to_host, Nil)
  /\ UNCHANGED <<program, next, job, job_queue, from_host, results, destroyed, hostVars>>
SendEOF_without_message ==
  /\ Go(0, "eof", "done")
  /\ UNCHANGED <<program, next, job, job_queue, to_host, from_host, results,
                 destroyed, hostVars>>
p_awaitmsg_polls(d) ==
  /\ KindOf(job[d]) = "await"
  /\ Go(d, "eval", "result")
  /\ from_host' = from_host - 1
  /\ UNCHANGED <<program, next, job, job_queue, to_host, results, destroyed, hostVars>>
p_read_unreads(d) ==
  /\ KindOf(job[d]) = "read"
  /\ Go(d, "eval", "result")
  /\ UNCHANGED <<program, next, job, job_queue, to_host, from_host, results,
                 destroyed, hostVars>>
StoreResult_forgotten(d) ==
  /\ Go(d, "result", "destroy")
  /\ UNCHANGED <<program, next, job, job_queue, to_host, from_host, results,
                 destroyed, hostVars>>

\* slave_receive_msg_if_exists or slave_await_msg hands out a job.
TakeJob(d) ==
  /\ Go(d, "poll", "eval")
  /\ job_queue[d] # <<>>
  /\ job' = [job EXCEPT ![d] = Head(job_queue[d])]
  /\ job_queue' = [job_queue EXCEPT ![d] = Tail(@)]
  /\ UNCHANGED <<program, next, to_host, from_host, results, destroyed, hostVars>>

\* Dispatcher 0 finds no job.
PollEmpty ==
  /\ Go(0, "poll", "read")
  /\ job_queue[0] = <<>>
  /\ UNCHANGED <<program, next, job, job_queue, to_host, from_host, results,
                 destroyed, hostVars>>

ReadSexp ==
  /\ next <= Len(program)
  /\ Go(0, "read", "eval")
  /\ job' = [job EXCEPT ![0] = next]
  /\ next' = next + 1
  /\ UNCHANGED <<program, job_queue, to_host, from_host, results, destroyed, hostVars>>

ReadEOF ==
  /\ next > Len(program)
  /\ Go(0, "read", "eof")
  /\ UNCHANGED <<program, next, job, job_queue, to_host, from_host, results,
                 destroyed, hostVars>>

\* slave_send_msg(I->parent_channel, nil), after which the thread returns.
SendEOF ==
  /\ Go(0, "eof", "done")
  /\ to_host' = Append(to_host, Nil)
  /\ UNCHANGED <<program, next, job, job_queue, from_host, results, destroyed, hostVars>>

\* eval of the job's sexp, by its effect on the state modelled here.
EvalPlain(d) ==
  /\ KindOf(job[d]) = "plain"
  /\ Go(d, "eval", "result")
  /\ UNCHANGED <<program, next, job, job_queue, to_host, from_host, results,
                 destroyed, hostVars>>

p_sendmsg(d) ==
  /\ KindOf(job[d]) = "send"
  /\ Go(d, "eval", "result")
  /\ to_host' = Append(to_host, job[d])
  /\ UNCHANGED <<program, next, job, job_queue, from_host, results, destroyed, hostVars>>

p_awaitmsg(d) ==
  /\ KindOf(job[d]) = "await"
  /\ from_host > 0
  /\ Go(d, "eval", "result")
  /\ from_host' = from_host - 1
  /\ UNCHANGED <<program, next, job, job_queue, to_host, results, destroyed, hostVars>>

\* It takes the next sexp of the program as data, if there is one.
p_read(d) ==
  /\ KindOf(job[d]) = "read"
  /\ Go(d, "eval", "result")
  /\ next' = IF next <= Len(program) THEN next + 1 ELSE next
  /\ UNCHANGED <<program, job, job_queue, to_host, from_host, results, destroyed, hostVars>>

\* The parent of a top-level sexp is the root.
Parent(j) == IF j \in HostJobs THEN ParentOf[j] ELSE Root

\* The root has no call_results; every other node has an entry for its child.
StoreResult(d) ==
  /\ Go(d, "result", "destroy")
  /\ results' = IF Parent(job[d]) = Root THEN results ELSE results \cup {job[d]}
  /\ UNCHANGED <<program, next, job, job_queue, to_host, from_host, destroyed, hostVars>>

\* calltree_destroy, job = job->parent, and the test for the root.
DestroyJob(d) ==
  /\ Go(d, "destroy", IF Parent(job[d]) = Root THEN "poll" ELSE "push")
  /\ destroyed' = destroyed \cup {job[d]}
  /\ job' = [job EXCEPT ![d] = Parent(@)]
  /\ UNCHANGED <<program, next, job_queue, to_host, from_host, results, hostVars>>

\* interpreter_push_call of the parent, to the dispatcher itself.
PushParent(d) ==
  /\ Go(d, "push", "poll")
  /\ job_queue' = [job_queue EXCEPT ![d] = Append(@, job[d])]
  /\ UNCHANGED <<program, next, job, to_host, from_host, results, destroyed, hostVars>>

\* The process is there until main has freed the interpreter.
DispatcherStep(d) ==
  /\ main # "freed"
  /\ \/ TakeJob(d)
     \/ d = 0 /\ (PollEmpty \/ ReadSexp \/ ReadEOF \/ SendEOF)
     \/ EvalPlain(d) \/ p_sendmsg(d) \/ p_awaitmsg(d) \/ p_read(d)
     \/ StoreResult(d) \/ DestroyJob(d) \/ PushParent(d)

-----------------------------------------------------------------------------
Next ==
  \/ MainStep
  \/ HostReply
  \/ \E j \in HostPushes, d \in Dispatchers : HostPush(j, d)
  \/ \E d \in Dispatchers : DispatcherStep(d)

Spec == Init /\ [][Next]_vars

(* Every thread keeps running: evaluating a sexp ends (unless it waits in     *)
(* p-awaitmsg), and so does the wait for the next one, whose stream is a      *)
(* file.  The host need not push or answer.  The end of the process ends them. *)
Fairness ==
  /\ WF_vars(MainStep)
  /\ \A d \in Dispatchers : WF_vars(DispatcherStep(d))

FairSpec == Spec /\ Fairness

-----------------------------------------------------------------------------
(* Properties *)

Node == HostJobs \cup 1 .. MaxSexps
DispatcherPC == {"off", "poll", "read", "eof", "done", "eval", "result", "destroy", "push"}

\* Every variable stays in its type.
TypeOK ==
  /\ program \in Seq(Kind) /\ Len(program) <= MaxSexps
  /\ next \in 1 .. Len(program) + 1
  /\ main \in {"new", "await", "free", "freed"}
  /\ pc \in [Dispatchers -> DispatcherPC]
  /\ job \in [Dispatchers -> Node \cup {Root, NULL}]
  /\ \A d \in Dispatchers :
       /\ pc[d] \in {"eval", "result", "destroy"} => job[d] \in Node
       /\ pc[d] = "push" => job[d] \in HostJobs
  /\ job_queue \in [Dispatchers -> Seq(HostJobs)]
  /\ to_host \in Seq(0 .. MaxSexps)
  /\ from_host \in 0 .. replied
  /\ replied \in 0 .. Replies
  /\ received \in Seq(0 .. MaxSexps)
  /\ pushed \subseteq HostPushes
  /\ results \subseteq HostJobs
  /\ destroyed \subseteq Node

\* What the host should see of a program from its i-th sexp on: its messages in
\* the order of the text, without the sexps that p-read takes as data, and ()
\* after the last of them.
Messages[i \in Nat] ==
  IF i > Len(program) THEN <<Nil>>
  ELSE IF program[i] = "send" THEN <<i>> \o Messages[i + 1]
  ELSE Messages[IF program[i] = "read" THEN i + 2 ELSE i + 1]

\* The interpreter is to its host what a program is that runs from the first
\* to the last sexp: messages arrive in that order, none is lost or doubled,
\* the () comes last, and the host that frees the interpreter has seen all.
InOrder ==
  /\ IsPrefix(received \o to_host, Messages[1])
  /\ main = "freed" => received = Messages[1]

\* The thread that reads the program has finished when the host frees the
\* interpreter under it: interpreter_free joins nobody, so only the order of
\* the messages protects the call tree, the arenas and the read table.
NoUseAfterFree == main = "freed" => pc[0] = "done"

\* A job runs at most once, on one dispatcher, and a node whose call the
\* dispatcher unwound into has the result of that call: it is not evaluated
\* without the value it needed.
Held(d) == IF pc[d] \in {"eval", "result", "destroy", "push"} THEN {job[d]} ELSE {}
Waiting(d) == {job_queue[d][i] : i \in DOMAIN job_queue[d]}

OnceWithResults ==
  /\ \A d \in Dispatchers :
       /\ (Held(d) \cup Waiting(d)) \cap destroyed = {}
       /\ Held(d) \cap Waiting(d) = {}
       /\ \A e \in Dispatchers \ {d} :
            (Held(d) \cup Waiting(d)) \cap (Held(e) \cup Waiting(e)) = {}
  /\ \A j \in HostJobs : \A k \in HostJobs \ HostPushes :
       /\ ParentOf[j] = k
       /\ \E d \in Dispatchers : k \in Held(d) \cup Waiting(d)
       => j \in results

\* "The zeroth dispatcher reads in sexps while not busy" (interpreter.c:249):
\* it never reads on, let alone ends, while a node it has unwound into waits
\* in its queue.
ReadsWhileNotBusy ==
  pc[0] \in {"read", "eof", "done"} => Waiting(0) \subseteq HostPushes

\* Dispatcher 0 is in a p-awaitmsg that nobody answers.
Hung == pc[0] = "eval" /\ KindOf(job[0]) = "await" /\ from_host = 0

\* The host is told the end of the program, unless it owes it an answer.
MainExits == main = "await" ~> (main = "freed" \/ Hung)

\* A queued job is evaluated.  Dispatcher 0 has evaluated all of its own before it
\* can end, with the exception of what the host pushes when it has found its queue
\* empty and gone to read, and what it reads is the end of the stream.  Nobody waits
\* for the others: theirs are evaluated unless the host frees the interpreter first.
JobsServed ==
  \A j \in HostJobs, d \in Dispatchers :
    /\ main # "new"
    /\ j \in Waiting(d)
    /\ pc[d] \notin {"read", "eof", "done"}
    ~> (j \in destroyed \/ (IF d = 0 THEN Hung ELSE main = "freed"))
=============================================================================
