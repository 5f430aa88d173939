-------------------------- MODULE DispatcherProofs --------------------------
(* Type correctness of Dispatcher, that the host frees the interpreter only   *)
(* after the thread that reads the program has finished, that every job runs  *)
(* once and with the results of its operands, and that the host gets the      *)
(* messages of the program in the order of the program.                       *)
EXTENDS Dispatcher, Lemmas

\* The first dispatcher exists.
LEMMA ZeroIsADispatcher == 0 \in Dispatchers
  BY DispatcherAssumption DEF Dispatchers

\* The elements of a sequence after Append and after Tail.
LEMMA AppendedElements ==
  ASSUME NEW S, NEW q \in Seq(S), NEW x \in S
  PROVE  /\ Append(q, x) \in Seq(S)
         /\ {Append(q, x)[i] : i \in DOMAIN Append(q, x)} = {q[i] : i \in DOMAIN q} \cup {x}
<1>1. Append(q, x) \in Seq(S) /\ Len(Append(q, x)) = Len(q) + 1
  BY AppendProperties
<1>2. \A i \in 1 .. Len(q) : Append(q, x)[i] = q[i]
  BY AppendProperties
<1>3. Append(q, x)[Len(q) + 1] = x
  BY AppendProperties
<1>4. Len(q) \in Nat /\ DOMAIN q = 1 .. Len(q)
      /\ DOMAIN Append(q, x) = 1 .. Len(q) + 1
  BY <1>1, LenProperties
<1> QED
  BY <1>1, <1>2, <1>3, <1>4

\* A sequence without its first element has no element that it had not before.
LEMMA TailElements ==
  ASSUME NEW S, NEW q \in Seq(S), q # <<>>
  PROVE  /\ Head(q) \in S
         /\ Tail(q) \in Seq(S)
         /\ {Tail(q)[i] : i \in DOMAIN Tail(q)} \subseteq {q[i] : i \in DOMAIN q}
         /\ Head(q) \in {q[i] : i \in DOMAIN q}
<1>1. Head(q) \in S /\ Tail(q) \in Seq(S) /\ Len(Tail(q)) = Len(q) - 1
      /\ Head(q) = q[1]
  BY HeadTailProperties
<1>2. \A i \in 1 .. Len(Tail(q)) : Tail(q)[i] = q[i + 1]
  BY HeadTailProperties
<1>3. Len(q) \in Nat /\ Len(q) # 0 /\ DOMAIN q = 1 .. Len(q)
      /\ DOMAIN Tail(q) = 1 .. Len(Tail(q))
  BY <1>1, LenProperties, EmptySeq
<1> QED
  BY <1>1, <1>2, <1>3

-----------------------------------------------------------------------------
(* Types *)

\* The initial values of the interpreter, its queues and its channel have their types.
LEMMA TypeInit == Init => TypeOK
<1> SUFFICES ASSUME Init PROVE TypeOK
  OBVIOUS
<1>1. PICK n \in 0 .. MaxSexps : program \in [1 .. n -> Kind]
  BY DispatcherAssumption DEF Init
<1>2. program \in Seq(Kind) /\ Len(program) = n
  BY <1>1, DispatcherAssumption
<1>3. job_queue \in [Dispatchers -> Seq(HostJobs)]
      /\ to_host \in Seq(0 .. MaxSexps) /\ received \in Seq(0 .. MaxSexps)
  BY DEF Init
<1>4. pc \in [Dispatchers -> DispatcherPC]
      /\ job \in [Dispatchers -> Node \cup {Root, NULL}]
      /\ \A d \in Dispatchers : pc[d] = "off"
  BY DEF Init, DispatcherPC
<1> QED
  BY <1>2, <1>3, <1>4, DispatcherAssumption DEF Init, TypeOK

\* The parent of a node is a node or the root.
LEMMA ParentType ==
  ASSUME NEW j \in Node
  PROVE  Parent(j) \in Node \cup {Root} /\ (Parent(j) # Root => Parent(j) \in HostJobs)
  BY DispatcherAssumption DEF Parent, Node

\* No step of the host or of a dispatcher takes a variable out of its type.
LEMMA TypeStep == TypeOK /\ [Next]_vars => TypeOK'
<1> SUFFICES ASSUME TypeOK, [Next]_vars PROVE TypeOK'
  OBVIOUS
<1> USE DEF TypeOK
<1>0. Len(program) \in Nat
  BY LenProperties
<1>1. CASE interpreter_begin
  <2>1. pc' \in [Dispatchers -> DispatcherPC] /\ \A d \in Dispatchers : pc'[d] = "poll"
    BY <1>1 DEF interpreter_begin, DispatcherPC
  <2> QED
    BY <1>1, <2>1 DEF interpreter_begin
<1>2. CASE MainReceive
  <2>1. /\ to_host' \in Seq(0 .. MaxSexps)
        /\ received' \in Seq(0 .. MaxSexps)
    BY <1>2, HeadTailProperties, AppendProperties DEF MainReceive
  <2> QED
    BY <1>2, <2>1 DEF MainReceive
<1>3. CASE interpreter_free
  BY <1>3 DEF interpreter_free
<1>4. CASE HostReply
  BY <1>4, DispatcherAssumption DEF HostReply
<1>5. ASSUME NEW j \in HostPushes, NEW d \in Dispatchers, HostPush(j, d)
      PROVE  TypeOK'
  <2>1. Append(job_queue[d], j) \in Seq(HostJobs)
    BY DispatcherAssumption, AppendProperties
  <2>2. /\ job_queue' = [job_queue EXCEPT ![d] = Append(job_queue[d], j)]
        /\ pushed' = pushed \cup {j}
        /\ UNCHANGED <<program, next, pc, job, to_host, from_host, results, destroyed,
                       main, replied, received>>
    BY <1>5 DEF HostPush
  <2> QED
    BY <2>1, <2>2
<1>6. ASSUME NEW d \in Dispatchers, DispatcherStep(d)
      PROVE  TypeOK'
  <2>1. CASE TakeJob(d)
    <3>1. Head(job_queue[d]) \in HostJobs /\ Tail(job_queue[d]) \in Seq(HostJobs)
      BY <2>1, HeadTailProperties DEF TakeJob
    <3>2. pc' = [pc EXCEPT ![d] = "eval"] /\ job' = [job EXCEPT ![d] = Head(job_queue[d])]
          /\ job_queue' = [job_queue EXCEPT ![d] = Tail(job_queue[d])]
          /\ UNCHANGED <<program, next, to_host, from_host, results, destroyed, hostVars>>
      BY <2>1 DEF TakeJob, Go
    <3>3. Head(job_queue[d]) \in Node
      BY <3>1 DEF Node
    <3> QED
      BY <3>1, <3>2, <3>3 DEF hostVars, DispatcherPC
  <2>2. CASE d = 0 /\ PollEmpty
    BY <2>2 DEF PollEmpty, Go, hostVars, DispatcherPC
  <2>3. CASE d = 0 /\ ReadSexp
    <3>1. next \in Node /\ next' \in 1 .. Len(program) + 1
      BY <2>3, <1>0, DispatcherAssumption DEF ReadSexp, Node
    <3> QED
      BY <2>3, <3>1 DEF ReadSexp, Go, hostVars, DispatcherPC
  <2>4. CASE d = 0 /\ ReadEOF
    BY <2>4 DEF ReadEOF, Go, hostVars, DispatcherPC
  <2>5. CASE d = 0 /\ SendEOF
    <3>1. to_host' \in Seq(0 .. MaxSexps)
      BY <2>5, AppendProperties, DispatcherAssumption DEF SendEOF, Nil
    <3> QED
      BY <2>5, <3>1 DEF SendEOF, Go, hostVars, DispatcherPC
  <2>6. CASE EvalPlain(d)
    BY <2>6 DEF EvalPlain, Go, hostVars, DispatcherPC
  <2>7. CASE p_sendmsg(d)
    <3>1. job[d] \in 0 .. MaxSexps
      BY <2>7, <1>0, DispatcherAssumption, LenProperties DEF p_sendmsg, KindOf
    <3>2. to_host' \in Seq(0 .. MaxSexps)
      BY <2>7, <3>1, AppendProperties DEF p_sendmsg
    <3> QED
      BY <2>7, <3>2 DEF p_sendmsg, Go, hostVars, DispatcherPC
  <2>8. CASE p_awaitmsg(d)
    BY <2>8, DispatcherAssumption DEF p_awaitmsg, Go, hostVars, DispatcherPC
  <2>9. CASE p_read(d)
    <3>1. next' \in 1 .. Len(program) + 1
      BY <2>9, <1>0 DEF p_read
    <3> QED
      BY <2>9, <3>1 DEF p_read, Go, hostVars, DispatcherPC
  <2>10. CASE StoreResult(d)
    <3>1. job[d] \in Node
      BY <2>10 DEF StoreResult, Go
    <3>2. Parent(job[d]) # Root => job[d] \in HostJobs
      BY <3>1 DEF Parent
    <3> QED
      BY <2>10, <3>2 DEF StoreResult, Go, hostVars, DispatcherPC
  <2>11. CASE DestroyJob(d)
    <3>1. job[d] \in Node
      BY <2>11 DEF DestroyJob, Go
    <3>2. /\ Parent(job[d]) \in Node \cup {Root}
          /\ Parent(job[d]) # Root => Parent(job[d]) \in HostJobs
      BY <3>1, ParentType
    <3>3. pc' = [pc EXCEPT ![d] = IF Parent(job[d]) = Root THEN "poll" ELSE "push"]
          /\ job' = [job EXCEPT ![d] = Parent(job[d])]
          /\ destroyed' = destroyed \cup {job[d]}
          /\ UNCHANGED <<program, next, job_queue, to_host, from_host, results, hostVars>>
      BY <2>11 DEF DestroyJob, Go
    <3> QED
      BY <3>1, <3>2, <3>3 DEF hostVars, DispatcherPC
  <2>12. CASE PushParent(d)
    <3>1. Append(job_queue[d], job[d]) \in Seq(HostJobs)
      BY <2>12, AppendProperties DEF PushParent, Go
    <3>2. pc' = [pc EXCEPT ![d] = "poll"]
          /\ job_queue' = [job_queue EXCEPT ![d] = Append(job_queue[d], job[d])]
          /\ UNCHANGED <<program, next, job, to_host, from_host, results, destroyed, hostVars>>
      BY <2>12 DEF PushParent, Go
    <3> QED
      BY <3>1, <3>2 DEF hostVars, DispatcherPC
  <2> QED
    BY <1>6, <2>1, <2>2, <2>3, <2>4, <2>5, <2>6, <2>7, <2>8, <2>9, <2>10, <2>11, <2>12
    DEF DispatcherStep
<1>7. CASE UNCHANGED vars
  BY <1>7 DEF vars, hostVars
<1> QED
  BY <1>1, <1>2, <1>3, <1>4, <1>5, <1>6, <1>7 DEF Next, MainStep

\* Every variable keeps its type, whatever the program and the host do.
THEOREM TypeCorrect == Spec => []TypeOK
  BY TypeInit, TypeStep, PTL DEF Spec

-----------------------------------------------------------------------------
(* The end of the program *)

\* The () is in the channel, or has been received, only after dispatcher 0 has
\* sent it and returned.
EndInv ==
  /\ main = "new" => \A d \in Dispatchers : pc[d] = "off"
  /\ main \in {"free", "freed"} => pc[0] = "done"
  /\ (\E i \in DOMAIN to_host : to_host[i] = Nil) => pc[0] = "done"

\* A step of a dispatcher that does not send the () keeps EndInv: dispatcher 0
\* takes no step once it is done.
LEMMA EndOtherStep ==
  ASSUME EndInv, NEW d \in Dispatchers, pc[d] \notin {"off", "done"},
         \A e \in Dispatchers \ {d} : pc'[e] = pc[e],
         UNCHANGED main,
         (\E i \in DOMAIN to_host' : to_host'[i] = Nil) => \E i \in DOMAIN to_host : to_host[i] = Nil
  PROVE  EndInv'
<1>1. main # "new"
  BY DEF EndInv
<1>2. pc[0] = "done" => pc'[0] = "done"
  BY ZeroIsADispatcher
<1>3. main' # "new"
  BY <1>1
<1>4. main' \in {"free", "freed"} => pc'[0] = "done"
  BY <1>2 DEF EndInv
<1>5. (\E i \in DOMAIN to_host' : to_host'[i] = Nil) => pc'[0] = "done"
  BY <1>2 DEF EndInv
<1> QED
  BY <1>3, <1>4, <1>5 DEF EndInv

\* No step breaks the link between the () of dispatcher_loop and the end of dispatcher 0.
LEMMA EndStep == TypeOK /\ EndInv /\ [Next]_vars => EndInv'
<1> SUFFICES ASSUME TypeOK, EndInv, [Next]_vars PROVE EndInv'
  OBVIOUS
<1>1. CASE interpreter_begin
  <2>1. pc[0] = "off"
    BY <1>1, ZeroIsADispatcher DEF EndInv, interpreter_begin
  <2> QED
    BY <1>1, <2>1 DEF EndInv, interpreter_begin
<1>2. CASE MainReceive
  <2>1. /\ Head(to_host) \in {to_host[i] : i \in DOMAIN to_host}
        /\ {to_host'[i] : i \in DOMAIN to_host'} \subseteq {to_host[i] : i \in DOMAIN to_host}
    BY <1>2, TailElements DEF MainReceive, TypeOK
  <2>2. main' = IF Head(to_host) = Nil THEN "free" ELSE "await"
    BY <1>2 DEF MainReceive
  <2>3. UNCHANGED pc
    BY <1>2 DEF MainReceive
  <2> QED
    BY <2>1, <2>2, <2>3 DEF EndInv
<1>3. CASE interpreter_free
  BY <1>3 DEF interpreter_free, EndInv
<1>4. CASE HostReply
  BY <1>4 DEF HostReply, EndInv
<1>5. ASSUME NEW j \in HostPushes, NEW d \in Dispatchers, HostPush(j, d)
      PROVE  EndInv'
  BY <1>5 DEF HostPush, EndInv
<1>6. ASSUME NEW d \in Dispatchers, DispatcherStep(d)
      PROVE  EndInv'
  <2>1. pc[d] \notin {"off", "done"}
    BY <1>6 DEF DispatcherStep, TakeJob, PollEmpty, ReadSexp, ReadEOF, SendEOF, EvalPlain,
                p_sendmsg, p_awaitmsg, p_read, StoreResult, DestroyJob, PushParent, Go
  <2>2. \A e \in Dispatchers \ {d} : pc'[e] = pc[e]
    BY <1>6 DEF TypeOK, DispatcherStep, TakeJob, PollEmpty, ReadSexp, ReadEOF, SendEOF, EvalPlain,
                p_sendmsg, p_awaitmsg, p_read, StoreResult, DestroyJob, PushParent, Go
  <2>3. UNCHANGED main
    BY <1>6 DEF DispatcherStep, TakeJob, PollEmpty, ReadSexp, ReadEOF, SendEOF, EvalPlain,
                p_sendmsg, p_awaitmsg, p_read, StoreResult, DestroyJob, PushParent, hostVars
  <2>4. CASE d = 0 /\ SendEOF
    <3>1. pc'[0] = "done"
      BY <2>4 DEF SendEOF, Go, TypeOK
    <3>2. main # "new"
      BY <2>1 DEF EndInv
    <3> QED
      BY <3>1, <3>2, <2>3 DEF EndInv
  <2>5. CASE p_sendmsg(d)
    <3>1. job[d] \in 1 .. MaxSexps
      BY <2>5, DispatcherAssumption, LenProperties DEF p_sendmsg, KindOf, TypeOK, Go, Node
    <3>2. {to_host'[i] : i \in DOMAIN to_host'} = {to_host[i] : i \in DOMAIN to_host} \cup {job[d]}
      <4>1. to_host \in Seq(0 .. MaxSexps) /\ to_host' = Append(to_host, job[d])
        BY <2>5 DEF p_sendmsg, TypeOK
      <4>2. job[d] \in 0 .. MaxSexps
        BY <3>1, DispatcherAssumption
      <4>3. {Append(to_host, job[d])[i] : i \in DOMAIN Append(to_host, job[d])}
              = {to_host[i] : i \in DOMAIN to_host} \cup {job[d]}
        BY <4>1, <4>2, AppendedElements
      <4> QED
        BY <4>1, <4>3
    <3>3. (\E i \in DOMAIN to_host' : to_host'[i] = Nil)
          => \E i \in DOMAIN to_host : to_host[i] = Nil
      <4> SUFFICES ASSUME \E i \in DOMAIN to_host' : to_host'[i] = Nil
                   PROVE  \E i \in DOMAIN to_host : to_host[i] = Nil
        OBVIOUS
      <4>1. Nil \in {to_host'[i] : i \in DOMAIN to_host'}
        OBVIOUS
      <4>2. Nil # job[d]
        BY <3>1, DispatcherAssumption DEF Nil
      <4>3. Nil \in {to_host[i] : i \in DOMAIN to_host}
        BY <3>2, <4>1, <4>2
      <4> QED
        BY <4>3
    <3> QED
      BY <2>1, <2>2, <2>3, <3>3, EndOtherStep
  <2>6. CASE UNCHANGED to_host
    BY <2>1, <2>2, <2>3, <2>6, EndOtherStep
  <2> QED
    BY <1>6, <2>4, <2>5, <2>6
    DEF DispatcherStep, TakeJob, PollEmpty, ReadSexp, ReadEOF, EvalPlain,
        p_awaitmsg, p_read, StoreResult, DestroyJob, PushParent
<1>7. CASE UNCHANGED vars
  BY <1>7 DEF vars, hostVars, EndInv
<1> QED
  BY <1>1, <1>2, <1>3, <1>4, <1>5, <1>6, <1>7 DEF Next, MainStep

\* The host frees the interpreter only when the thread that reads the program
\* has returned, although nobody joins it.
THEOREM FreeIsSafe == Spec => []NoUseAfterFree
<1>1. Init => EndInv
  BY DEF Init, EndInv
<1>2. TypeOK /\ EndInv => NoUseAfterFree
  BY DEF EndInv, NoUseAfterFree
<1> QED
  BY <1>1, <1>2, TypeCorrect, EndStep, PTL DEF Spec

-----------------------------------------------------------------------------
(* Reading while not busy *)

\* Dispatcher 0 gets to reads only by the poll that finds its queue empty, and queues jobs only elsewhere.
LEMMA IdleStep == TypeOK /\ ReadsWhileNotBusy /\ [Next]_vars => ReadsWhileNotBusy'
<1> SUFFICES ASSUME TypeOK, ReadsWhileNotBusy, [Next]_vars PROVE ReadsWhileNotBusy'
  OBVIOUS
<1>0. job_queue[0] \in Seq(HostJobs)
  BY ZeroIsADispatcher DEF TypeOK
<1>1. CASE interpreter_begin
  BY <1>1, ZeroIsADispatcher DEF interpreter_begin, ReadsWhileNotBusy
<1>2. ASSUME NEW j \in HostPushes, NEW e \in Dispatchers, HostPush(j, e)
      PROVE  ReadsWhileNotBusy'
  <2>1. CASE e = 0
    <3>1. job_queue'[0] = Append(job_queue[0], j)
      BY <1>2, <2>1 DEF HostPush, TypeOK
    <3>2. Waiting(0)' = Waiting(0) \cup {j}
      BY <3>1, <1>0, DispatcherAssumption, AppendedElements DEF Waiting
    <3> QED
      BY <1>2, <3>2 DEF HostPush, ReadsWhileNotBusy
  <2>2. CASE e # 0
    BY <1>2, <2>2, ZeroIsADispatcher DEF HostPush, TypeOK, Waiting, ReadsWhileNotBusy
  <2> QED
    BY <2>1, <2>2
<1>3. CASE PollEmpty
  BY <1>3 DEF PollEmpty, Waiting, ReadsWhileNotBusy
<1>4. ASSUME NEW d \in Dispatchers, TakeJob(d) \/ PushParent(d)
      PROVE  ReadsWhileNotBusy'
  <2>1. CASE d = 0
    <3>1. pc'[0] \in {"eval", "poll"}
      BY <1>4, <2>1 DEF TakeJob, PushParent, Go, TypeOK
    <3> QED
      BY <3>1 DEF ReadsWhileNotBusy
  <2>2. CASE d # 0
    <3>1. job_queue'[0] = job_queue[0] /\ pc'[0] = pc[0]
      BY <1>4, <2>2, ZeroIsADispatcher DEF TakeJob, PushParent, Go, TypeOK
    <3> QED
      BY <3>1 DEF ReadsWhileNotBusy, Waiting
  <2> QED
    BY <2>1, <2>2
<1>5. CASE UNCHANGED job_queue /\ (pc'[0] \in {"read", "eof", "done"} => pc[0] \in {"read", "eof", "done"})
  BY <1>5 DEF ReadsWhileNotBusy, Waiting
<1>6. ASSUME NEW d \in Dispatchers,
             \/ d = 0 /\ (ReadSexp \/ ReadEOF \/ SendEOF)
             \/ EvalPlain(d) \/ p_sendmsg(d) \/ p_awaitmsg(d) \/ p_read(d)
             \/ StoreResult(d) \/ DestroyJob(d)
      PROVE  ReadsWhileNotBusy'
  <2>1. UNCHANGED job_queue
    BY <1>6 DEF ReadSexp, ReadEOF, SendEOF, EvalPlain, p_sendmsg, p_awaitmsg, p_read,
                StoreResult, DestroyJob
  <2>2. pc'[0] \in {"read", "eof", "done"} => pc[0] \in {"read", "eof", "done"}
    BY <1>6, ZeroIsADispatcher
    DEF ReadSexp, ReadEOF, SendEOF, EvalPlain, p_sendmsg, p_awaitmsg, p_read,
        StoreResult, DestroyJob, Go, TypeOK
  <2> QED
    BY <2>1, <2>2, <1>5
<1>7. CASE MainReceive \/ interpreter_free \/ HostReply \/ UNCHANGED vars
  BY <1>5, <1>7 DEF MainReceive, interpreter_free, HostReply, vars
<1> QED
  BY <1>1, <1>2, <1>3, <1>4, <1>6, <1>7 DEF Next, MainStep, DispatcherStep

\* Dispatcher 0 reads on only after it has run every node it unwound into.
THEOREM ReaderIsIdle == Spec => []ReadsWhileNotBusy
<1>1. Init => ReadsWhileNotBusy
  BY ZeroIsADispatcher DEF Init, ReadsWhileNotBusy
<1> QED
  BY <1>1, TypeCorrect, IdleStep, PTL DEF Spec

-----------------------------------------------------------------------------
(* Every job runs once, after the call it waits for *)

\* The jobs that are with dispatcher d, and those that there are or were.
Has(d) == Held(d) \cup Waiting(d)
Known == destroyed \cup UNION {Has(d) : d \in Dispatchers}

\* No job is twice with dispatcher d, and it destroys a node only after storing its result.
Neat(d) ==
  /\ Held(d) \cap Waiting(d) = {}
  /\ \A i, j \in DOMAIN job_queue[d] : job_queue[d][i] = job_queue[d][j] => i = j
  /\ pc[d] = "destroy" /\ Parent(job[d]) # Root => job[d] \in results

\* The child that node k was unwound into from has been destroyed, and has left its result.
Returned(k) == \E j \in HostJobs \cap destroyed \cap results : ParentOf[j] = k

\* A job is with one dispatcher, or destroyed.  It is known only after it has been pushed, read, or
\* unwound into.
OnceInv ==
  /\ \A d \in Dispatchers :
       /\ Neat(d)
       /\ Has(d) \cap destroyed = {}
       /\ \A e \in Dispatchers \ {d} : Has(d) \cap Has(e) = {}
  /\ Known \cap HostPushes \subseteq pushed
  /\ \A k \in Known \cap (HostJobs \ HostPushes) : Returned(k)
  /\ \A i \in Known \ HostJobs : i < next

\* A step of dispatcher d, or for it, that makes known what was not, and destroys what d had.
LEMMA OnceKept ==
  ASSUME OnceInv, NEW d \in Dispatchers, NEW made, NEW gone,
         \A e \in Dispatchers : Neat(e)',
         \A e \in Dispatchers \ {d} : Has(e)' \subseteq Has(e),
         Has(d)' \subseteq Has(d) \cup made,
         destroyed' = destroyed \cup gone, gone \subseteq Has(d), Has(d)' \cap gone = {},
         made \cap Known = {},
         results \subseteq results', pushed \subseteq pushed',
         \A i \in Known \ HostJobs : i < next',
         made \cap HostPushes \subseteq pushed',
         \A k \in made \cap (HostJobs \ HostPushes) : Returned(k)',
         \A i \in made \ HostJobs : i < next'
  PROVE  OnceInv'
<1>1. Known' \subseteq Known \cup made
  BY DEF Known
<1>2. ASSUME NEW e \in Dispatchers
      PROVE  /\ Has(e)' \cap destroyed' = {}
             /\ \A f \in Dispatchers \ {e} : Has(e)' \cap Has(f)' = {}
  <2>1. /\ Has(e) \cap destroyed = {}
        /\ \A f \in Dispatchers \ {e} : Has(e) \cap Has(f) = {}
        /\ \A f \in Dispatchers : Has(f) \subseteq Known
        /\ destroyed \subseteq Known
    BY DEF OnceInv, Known
  <2>2. CASE e = d
    BY <2>1, <2>2
  <2>3. CASE e # d
    BY <2>1, <2>3
  <2> QED
    BY <2>2, <2>3
<1>3. Known' \cap HostPushes \subseteq pushed'
  BY <1>1 DEF OnceInv
<1>4. ASSUME NEW k \in Known' \cap (HostJobs \ HostPushes) PROVE Returned(k)'
  <2>1. CASE k \in Known
    BY <2>1 DEF OnceInv, Returned
  <2> QED
    BY <1>1, <2>1
<1>5. \A i \in Known' \ HostJobs : i < next'
  BY <1>1
<1> QED
  BY <1>2, <1>3, <1>4, <1>5 DEF OnceInv

\* What is known are nodes: those of the program are numbers.
LEMMA KnownNodes ==
  ASSUME TypeOK
  PROVE  /\ \A d \in Dispatchers : Held(d) \subseteq Node /\ Waiting(d) \subseteq HostJobs
         /\ \A i \in Known \ HostJobs : i \in Nat
<1>1. \A d \in Dispatchers : Held(d) \subseteq Node
  BY DEF TypeOK, Held, Node
<1>2. \A d \in Dispatchers : Waiting(d) \subseteq HostJobs
  BY LenProperties, ElementOfSeq DEF TypeOK, Waiting
<1>3. Known \subseteq Node
  BY <1>1, <1>2 DEF Known, Has, Node, TypeOK
<1>4. 1 .. MaxSexps \subseteq Nat
  BY DispatcherAssumption
<1> QED
  BY <1>1, <1>2, <1>3, <1>4 DEF Node

\* The elements of a sequence of which no two are the same, after Append and after Tail.
LEMMA DistinctElements ==
  ASSUME NEW S, NEW q \in Seq(S), \A i, j \in DOMAIN q : q[i] = q[j] => i = j
  PROVE  /\ \A x \in S : x \notin {q[i] : i \in DOMAIN q}
              => \A i, j \in DOMAIN Append(q, x) : Append(q, x)[i] = Append(q, x)[j] => i = j
         /\ q # <<>> =>
              /\ \A i, j \in DOMAIN Tail(q) : Tail(q)[i] = Tail(q)[j] => i = j
              /\ Head(q) \notin {Tail(q)[i] : i \in DOMAIN Tail(q)}
<1>1. Len(q) \in Nat /\ DOMAIN q = 1 .. Len(q)
  BY LenProperties
<1>2. ASSUME NEW x \in S, x \notin {q[i] : i \in DOMAIN q}
      PROVE  \A i, j \in DOMAIN Append(q, x) : Append(q, x)[i] = Append(q, x)[j] => i = j
  <2>1. DOMAIN Append(q, x) = 1 .. Len(q) + 1 /\ Append(q, x)[Len(q) + 1] = x
        /\ \A i \in 1 .. Len(q) : Append(q, x)[i] = q[i]
    BY AppendProperties
  <2>2. \A i \in 1 .. Len(q) + 1 : i \in 1 .. Len(q) \/ i = Len(q) + 1
    BY <1>1
  <2> QED
    BY <1>1, <1>2, <2>1, <2>2
<1>3. ASSUME q # <<>>
      PROVE  /\ \A i, j \in DOMAIN Tail(q) : Tail(q)[i] = Tail(q)[j] => i = j
             /\ Head(q) \notin {Tail(q)[i] : i \in DOMAIN Tail(q)}
  <2>1. /\ Len(q) # 0 /\ Head(q) = q[1]
        /\ DOMAIN Tail(q) = 1 .. Len(q) - 1
        /\ \A i \in 1 .. Len(q) - 1 : Tail(q)[i] = q[i + 1]
    BY <1>1, <1>3, HeadTailProperties, EmptySeq, LenProperties
  <2>2. \A i \in 1 .. Len(q) - 1 : i + 1 \in 1 .. Len(q) /\ i + 1 # 1 /\ 1 \in 1 .. Len(q)
    BY <1>1, <2>1
  <2>3. ASSUME NEW i \in 1 .. Len(q) - 1, NEW j \in 1 .. Len(q) - 1, Tail(q)[i] = Tail(q)[j]
        PROVE  i = j
    <3>1. i + 1 = j + 1
      BY <1>1, <2>1, <2>2, <2>3
    <3> QED
      BY <1>1, <3>1
  <2> QED
    BY <1>1, <2>1, <2>2, <2>3
<1> QED
  BY <1>2, <1>3

\* A node has one child that may return to it, and is not pushed by the host.
LEMMA OneReturns ==
  ASSUME NEW j \in HostJobs, NEW k \in HostJobs, ParentOf[j] = k
  PROVE  k \notin HostPushes /\ \A i \in HostJobs : ParentOf[i] = k => i = j
  BY OneChild, DispatcherAssumption

\* A step that leaves every dispatcher what it has, or takes it away.
LEMMA OnceQuiet ==
  ASSUME TypeOK, OnceInv,
         \A e \in Dispatchers : Neat(e)' /\ Has(e)' \subseteq Has(e),
         UNCHANGED <<destroyed, pushed>>, results \subseteq results', next' \in Nat, next' >= next
  PROVE  OnceInv'
<1>1. \A i \in Known \ HostJobs : i < next'
  BY KnownNodes, LenProperties DEF OnceInv, TypeOK
<1> DEFINE none == {}
<1>2. destroyed' = destroyed \cup none /\ none \subseteq Has(0) /\ Has(0)' \subseteq Has(0) \cup none
      /\ Has(0)' \cap none = {} /\ none \cap Known = {} /\ \A i \in none : FALSE
  BY ZeroIsADispatcher
<1> HIDE DEF none
<1> QED
  BY <1>1, <1>2, ZeroIsADispatcher, OnceKept

\* OnceInv is kept by every step.
LEMMA OnceStep == TypeOK /\ OnceInv /\ [Next]_vars => OnceInv'
<1> SUFFICES ASSUME TypeOK, OnceInv, [Next]_vars PROVE OnceInv'
  OBVIOUS
<1>0. /\ next \in Nat /\ next >= next /\ next + 1 \in Nat /\ next + 1 >= next
      /\ \A e \in Dispatchers : Neat(e) /\ Has(e) \subseteq Known
      /\ \A e \in Dispatchers : job_queue[e] \in Seq(HostJobs)
  BY LenProperties DEF TypeOK, OnceInv, Known
<1>1. CASE interpreter_begin
  <2>1. \A e \in Dispatchers : Held(e)' = {} /\ Waiting(e)' = {} /\ pc'[e] = "poll" /\ DOMAIN job_queue'[e] = {}
    BY <1>1 DEF interpreter_begin, Held, Waiting
  <2>2. \A e \in Dispatchers : Neat(e)' /\ Has(e)' \subseteq Has(e)
    BY <2>1 DEF Neat, Has
  <2> QED
    BY <1>0, <1>1, <2>2, OnceQuiet DEF interpreter_begin
<1>2. ASSUME UNCHANGED <<next, pc, job, job_queue, results, destroyed, pushed>>
      PROVE  OnceInv'
  <2>1. \A e \in Dispatchers : Neat(e)' /\ Has(e)' \subseteq Has(e)
    BY <1>0, <1>2 DEF Neat, Has, Held, Waiting
  <2> QED
    BY <1>0, <1>2, <2>1, OnceQuiet
<1>3. CASE MainReceive \/ interpreter_free \/ HostReply \/ UNCHANGED vars
  BY <1>2, <1>3 DEF MainReceive, interpreter_free, HostReply, vars, hostVars
<1>4. ASSUME NEW j \in HostPushes, NEW d \in Dispatchers, HostPush(j, d)
      PROVE  OnceInv'
  <2>1. /\ job_queue' = [job_queue EXCEPT ![d] = Append(job_queue[d], j)]
        /\ UNCHANGED <<next, pc, job, results, destroyed>>
        /\ pushed' = pushed \cup {j} /\ j \notin pushed /\ j \in HostJobs
    BY <1>4, DispatcherAssumption DEF HostPush
  <2>2. j \notin Known
    BY <2>1 DEF OnceInv
  <2>3. /\ Held(d)' = Held(d) /\ Waiting(d)' = Waiting(d) \cup {j}
        /\ job_queue'[d] = Append(job_queue[d], j)
    <3>1. job_queue'[d] = Append(job_queue[d], j)
      BY <2>1 DEF TypeOK
    <3> QED
      BY <1>0, <2>1, <3>1, AppendedElements DEF Held, Waiting
  <2>4. Neat(d)'
    <3>1. j \notin Waiting(d) /\ j \notin Held(d)
      BY <1>0, <2>2 DEF Has
    <3>2. \A i, k \in DOMAIN job_queue'[d] : job_queue'[d][i] = job_queue'[d][k] => i = k
      BY <1>0, <2>1, <2>3, <3>1, DistinctElements DEF Neat, Waiting
    <3> QED
      BY <1>0, <2>1, <2>3, <3>1, <3>2 DEF Neat
  <2>5. \A e \in Dispatchers \ {d} : Neat(e)' /\ Has(e)' \subseteq Has(e)
    <3>1. \A e \in Dispatchers \ {d} : job_queue'[e] = job_queue[e]
      BY <2>1 DEF TypeOK
    <3> QED
      BY <1>0, <2>1, <3>1 DEF Neat, Has, Held, Waiting
  <2> DEFINE made == {j}
             gone == {}
  <2>6. /\ Has(d)' \subseteq Has(d) \cup made
        /\ destroyed' = destroyed \cup gone /\ gone \subseteq Has(d) /\ Has(d)' \cap gone = {}
        /\ made \cap Known = {} /\ results \subseteq results' /\ pushed \subseteq pushed'
        /\ made \subseteq pushed' /\ made \subseteq HostPushes /\ made \subseteq HostJobs
    BY <2>1, <2>2, <2>3 DEF Has
  <2>7. \A i \in Known \ HostJobs : i < next'
    BY <2>1 DEF OnceInv
  <2> HIDE DEF made, gone
  <2>8. \A e \in Dispatchers : Neat(e)'
    BY <2>4, <2>5
  <2> QED
    BY <2>5, <2>6, <2>7, <2>8, OnceKept
<1>5. ASSUME NEW d \in Dispatchers, NEW from, NEW to, Go(d, from, to),
             \/ {from, to} \subseteq {"poll", "read", "eof", "done"}
             \/ from = "eval" /\ to = "result"
             \/ StoreResult(d) /\ from = "result" /\ to = "destroy",
             UNCHANGED <<job, job_queue, destroyed, pushed>>, results \subseteq results',
             next' \in Nat, next' >= next
      PROVE  OnceInv'
  <2>1. pc[d] = from /\ pc' = [pc EXCEPT ![d] = to]
    BY <1>5 DEF Go
  <2>2. \A e \in Dispatchers : Held(e)' = Held(e) /\ Waiting(e)' = Waiting(e)
    BY <1>5, <2>1 DEF Held, Waiting, TypeOK
  <2>3. ASSUME NEW e \in Dispatchers, pc'[e] = "destroy", Parent(job[e]) # Root
        PROVE  job[e] \in results'
    <3>1. CASE e = d /\ StoreResult(d)
      BY <2>3, <3>1 DEF StoreResult
    <3>2. CASE ~(e = d /\ StoreResult(d))
      <4>1. pc[e] = "destroy"
        BY <1>5, <2>1, <2>3, <3>2 DEF TypeOK
      <4> QED
        BY <1>0, <1>5, <2>3, <4>1 DEF Neat
    <3> QED
      BY <3>1, <3>2
  <2>4. \A e \in Dispatchers : Neat(e)' /\ Has(e)' \subseteq Has(e)
    BY <1>0, <1>5, <2>2, <2>3 DEF Neat, Has, Parent
  <2> QED
    BY <1>5, <2>4, OnceQuiet
<1>6. ASSUME NEW d \in Dispatchers, TakeJob(d) PROVE OnceInv'
  <2>1. /\ pc[d] = "poll" /\ pc' = [pc EXCEPT ![d] = "eval"] /\ job_queue[d] # <<>>
        /\ job' = [job EXCEPT ![d] = Head(job_queue[d])]
        /\ job_queue' = [job_queue EXCEPT ![d] = Tail(job_queue[d])]
        /\ UNCHANGED <<next, results, destroyed, pushed>>
    BY <1>6 DEF TakeJob, Go, hostVars
  <2>2. pc'[d] = "eval" /\ job'[d] = Head(job_queue[d]) /\ job_queue'[d] = Tail(job_queue[d])
    BY <2>1 DEF TypeOK
  <2>3. /\ Held(d)' = {Head(job_queue[d])}
        /\ Waiting(d)' \subseteq Waiting(d) /\ Head(job_queue[d]) \in Waiting(d)
        /\ Head(job_queue[d]) \notin Waiting(d)'
        /\ \A i, k \in DOMAIN job_queue'[d] : job_queue'[d][i] = job_queue'[d][k] => i = k
    <3> DEFINE q == job_queue[d]
    <3>1. q \in Seq(HostJobs) /\ q # <<>> /\ \A i, k \in DOMAIN q : q[i] = q[k] => i = k
      BY <1>0, <2>1 DEF Neat
    <3>2. Waiting(d) = {q[i] : i \in DOMAIN q} /\ Waiting(d)' = {Tail(q)[i] : i \in DOMAIN Tail(q)}
      BY <2>2 DEF Waiting
    <3>3. Held(d)' = {Head(q)} /\ job_queue'[d] = Tail(q)
      BY <2>2 DEF Held
    <3> HIDE DEF q
    <3>4. /\ {Tail(q)[i] : i \in DOMAIN Tail(q)} \subseteq {q[i] : i \in DOMAIN q}
          /\ Head(q) \in {q[i] : i \in DOMAIN q}
          /\ \A i, j \in DOMAIN Tail(q) : Tail(q)[i] = Tail(q)[j] => i = j
          /\ Head(q) \notin {Tail(q)[i] : i \in DOMAIN Tail(q)}
      BY <3>1, TailElements, DistinctElements
    <3> QED
      BY <3>2, <3>3, <3>4 DEF q
  <2>4. Neat(d)' /\ Has(d)' \subseteq Has(d)
    BY <2>2, <2>3 DEF Neat, Has
  <2>5. ASSUME NEW e \in Dispatchers, e # d PROVE Neat(e)' /\ Has(e)' \subseteq Has(e)
    <3>1. job_queue'[e] = job_queue[e] /\ pc'[e] = pc[e] /\ job'[e] = job[e]
      BY <2>1, <2>5 DEF TypeOK
    <3> QED
      BY <1>0, <2>1, <3>1 DEF Neat, Has, Held, Waiting, Parent
  <2> QED
    BY <1>0, <2>1, <2>4, <2>5, OnceQuiet
<1>7. CASE ReadSexp
  <2>1. /\ pc[0] = "read" /\ pc' = [pc EXCEPT ![0] = "eval"]
        /\ job' = [job EXCEPT ![0] = next] /\ next' = next + 1 /\ next <= Len(program)
        /\ UNCHANGED <<job_queue, results, destroyed, pushed>>
    BY <1>7 DEF ReadSexp, Go, hostVars
  <2>2. pc'[0] = "eval" /\ job'[0] = next
    BY <2>1, ZeroIsADispatcher DEF TypeOK
  <2>3. next \notin HostJobs /\ next \notin Known
    <3>1. next \notin HostJobs
      BY <1>0, DispatcherAssumption
    <3> QED
      BY <1>0, <3>1 DEF OnceInv
  <2>4. Held(0)' = {next} /\ Waiting(0)' = Waiting(0)
    BY <2>1, <2>2 DEF Held, Waiting
  <2>5. Neat(0)'
    <3>1. next \notin Waiting(0)
      BY <1>0, <2>3, ZeroIsADispatcher DEF Has
    <3> QED
      BY <1>0, <2>1, <2>2, <2>4, <3>1, ZeroIsADispatcher DEF Neat
  <2>6. ASSUME NEW e \in Dispatchers, e # 0 PROVE Neat(e)' /\ Has(e)' \subseteq Has(e)
    <3>1. job_queue'[e] = job_queue[e] /\ pc'[e] = pc[e] /\ job'[e] = job[e]
      BY <2>1, <2>6 DEF TypeOK
    <3> QED
      BY <1>0, <2>1, <3>1 DEF Neat, Has, Held, Waiting, Parent
  <2> DEFINE made == {next}
             gone == {}
  <2>7. /\ Has(0)' \subseteq Has(0) \cup made
        /\ destroyed' = destroyed \cup gone /\ gone \subseteq Has(0) /\ Has(0)' \cap gone = {}
        /\ made \cap Known = {} /\ results \subseteq results' /\ pushed \subseteq pushed'
        /\ made \cap HostJobs = {} /\ made \cap HostPushes = {}
        /\ \A i \in made : i < next'
    BY <1>0, <2>1, <2>3, <2>4, DispatcherAssumption DEF Has
  <2>8. \A i \in Known \ HostJobs : i < next'
    BY <1>0, <2>1, KnownNodes DEF OnceInv
  <2> HIDE DEF made, gone
  <2>9. \A e \in Dispatchers : Neat(e)'
    BY <2>5, <2>6
  <2> QED
    BY <2>6, <2>7, <2>8, <2>9, ZeroIsADispatcher, OnceKept
<1>8. ASSUME NEW d \in Dispatchers, DestroyJob(d) PROVE OnceInv'
  <2> DEFINE j == job[d]
             k == Parent(j)
  <2>1. /\ pc[d] = "destroy" /\ pc' = [pc EXCEPT ![d] = IF k = Root THEN "poll" ELSE "push"]
        /\ destroyed' = destroyed \cup {j}
        /\ job' = [job EXCEPT ![d] = k]
        /\ UNCHANGED <<next, job_queue, results, pushed>>
    BY <1>8 DEF DestroyJob, Go, hostVars
  <2>2. pc'[d] = (IF k = Root THEN "poll" ELSE "push") /\ job'[d] = k /\ Held(d) = {j}
    BY <2>1 DEF TypeOK, Held
  <2> DEFINE made == IF k = Root THEN {} ELSE {k}
             gone == {j}
  <2>3. Held(d)' = made /\ Waiting(d)' = Waiting(d)
    BY <2>1, <2>2 DEF Held, Waiting
  <2>4. j \notin destroyed /\ j \notin Waiting(d) /\ j \in Known /\ j \in Node
    BY <1>0, <2>1, <2>2 DEF OnceInv, Neat, Has, TypeOK
  <2>5. ASSUME k # Root
        PROVE  /\ j \in HostJobs /\ k \in HostJobs /\ ParentOf[j] = k /\ j \in results
               /\ k \notin Known /\ k \notin HostPushes
    <3>1. j \in HostJobs /\ ParentOf[j] = k
      BY <2>5 DEF Parent
    <3>2. k \in HostJobs
      BY <2>5, <3>1, DispatcherAssumption
    <3>3. k \notin HostPushes /\ \A i \in HostJobs : ParentOf[i] = k => i = j
      BY <3>1, <3>2, OneReturns
    <3>4. j \in results
      BY <1>0, <2>1, <2>5 DEF Neat
    <3>5. ~ Returned(k)
      BY <2>4, <3>3 DEF Returned
    <3>6. k \notin Known
      BY <3>2, <3>3, <3>5 DEF OnceInv
    <3> HIDE DEF j, k
    <3> QED
      BY <3>1, <3>2, <3>3, <3>4, <3>6
  <2>6. \A m \in made : m \in HostJobs /\ m \notin Known /\ m \notin HostPushes /\ Returned(m)'
    <3> SUFFICES ASSUME NEW m \in made
                 PROVE  m \in HostJobs /\ m \notin Known /\ m \notin HostPushes /\ Returned(m)'
      OBVIOUS
    <3>1. k # Root /\ m = k
      OBVIOUS
    <3>2. /\ j \in HostJobs /\ m \in HostJobs /\ ParentOf[j] = m /\ j \in results
          /\ m \notin Known /\ m \notin HostPushes
      BY <2>5, <3>1
    <3>3. j \in destroyed' /\ j \in results'
      BY <2>1, <3>2
    <3>4. \E i \in HostJobs \cap destroyed' \cap results' : ParentOf[i] = m
      <4> HIDE DEF j, k, made
      <4> QED
        BY <3>2, <3>3
    <3>5. Returned(m)'
      BY <3>4 DEF Returned
    <3> QED
      BY <3>2, <3>5
  <2>7. Neat(d)'
    <3>1. made \cap Waiting(d) = {}
      BY <1>0, <2>6 DEF Has
    <3>2. pc'[d] # "destroy"
      BY <2>2
    <3> HIDE DEF made, j, k
    <3> QED
      BY <1>0, <2>1, <2>3, <3>1, <3>2 DEF Neat
  <2>8. ASSUME NEW e \in Dispatchers, e # d PROVE Neat(e)' /\ Has(e)' \subseteq Has(e)
    <3>1. job_queue'[e] = job_queue[e] /\ pc'[e] = pc[e] /\ job'[e] = job[e]
      BY <2>1, <2>8 DEF TypeOK
    <3> QED
      BY <1>0, <2>1, <3>1 DEF Neat, Has, Held, Waiting, Parent
  <2> HIDE DEF j, k
  <2>9. j \notin made
    BY <2>4, <2>6
  <2>10. /\ Has(d)' \subseteq Has(d) \cup made
         /\ destroyed' = destroyed \cup gone /\ gone \subseteq Has(d) /\ Has(d)' \cap gone = {}
         /\ made \cap Known = {} /\ results \subseteq results' /\ pushed \subseteq pushed'
         /\ made \cap HostPushes = {} /\ made \subseteq HostJobs
    BY <2>1, <2>2, <2>3, <2>4, <2>6, <2>9 DEF Has
  <2>11. (\A i \in Known \ HostJobs : i < next') /\ \A m \in made : Returned(m)'
    BY <2>1, <2>6 DEF OnceInv
  <2> HIDE DEF made, gone
  <2>12. \A e \in Dispatchers : Neat(e)'
    BY <2>7, <2>8
  <2> QED
    BY <2>8, <2>10, <2>11, <2>12, OnceKept
<1>9. ASSUME NEW d \in Dispatchers, PushParent(d) PROVE OnceInv'
  <2>1. /\ pc[d] = "push" /\ pc' = [pc EXCEPT ![d] = "poll"]
        /\ job_queue' = [job_queue EXCEPT ![d] = Append(job_queue[d], job[d])]
        /\ UNCHANGED <<next, job, results, destroyed, pushed>>
    BY <1>9 DEF PushParent, Go, hostVars
  <2>2. /\ pc'[d] = "poll" /\ job_queue'[d] = Append(job_queue[d], job[d]) /\ Held(d) = {job[d]}
        /\ job[d] \in HostJobs /\ job[d] \notin Waiting(d)
    BY <1>0, <2>1 DEF TypeOK, Held, Neat
  <2>3. /\ Held(d)' = {} /\ Waiting(d)' = Waiting(d) \cup {job[d]}
        /\ \A i, k \in DOMAIN job_queue'[d] : job_queue'[d][i] = job_queue'[d][k] => i = k
    BY <1>0, <2>2, AppendedElements, DistinctElements DEF Held, Waiting, Neat
  <2>4. Neat(d)' /\ Has(d)' \subseteq Has(d)
    BY <2>2, <2>3 DEF Neat, Has
  <2>5. ASSUME NEW e \in Dispatchers, e # d PROVE Neat(e)' /\ Has(e)' \subseteq Has(e)
    <3>1. job_queue'[e] = job_queue[e] /\ pc'[e] = pc[e] /\ job'[e] = job[e]
      BY <2>1, <2>5 DEF TypeOK
    <3>2. Held(e)' = Held(e) /\ Waiting(e)' = Waiting(e)
      BY <3>1 DEF Held, Waiting
    <3>3. Neat(e)
      BY <1>0 DEF OnceInv
    <3>4. pc'[e] = "destroy" /\ Parent(job'[e]) # Root => job'[e] \in results'
      BY <2>1, <3>1, <3>3 DEF Neat
    <3>5. \A i, k \in DOMAIN job_queue'[e] : job_queue'[e][i] = job_queue'[e][k] => i = k
      BY <3>1, <3>3 DEF Neat
    <3>6. Parent(job[e])' = Parent(job'[e])
      BY DEF Parent
    <3> QED
      BY <3>2, <3>3, <3>4, <3>5, <3>6 DEF Neat, Has
  <2> QED
    BY <1>0, <2>1, <2>4, <2>5, OnceQuiet
<1>10. ASSUME NEW d \in Dispatchers, DispatcherStep(d) PROVE OnceInv'
  <2>1. CASE d = 0 /\ (PollEmpty \/ ReadEOF \/ SendEOF)
    <3>1. /\ Go(0, "poll", "read") \/ Go(0, "read", "eof") \/ Go(0, "eof", "done")
          /\ UNCHANGED <<job, job_queue, destroyed, pushed, results, next>>
      BY <2>1 DEF PollEmpty, ReadEOF, SendEOF, hostVars
    <3> QED
      BY <1>0, <1>5, <3>1, ZeroIsADispatcher
  <2>2. CASE EvalPlain(d) \/ p_sendmsg(d) \/ p_awaitmsg(d) \/ p_read(d)
    <3>1. /\ Go(d, "eval", "result")
          /\ UNCHANGED <<job, job_queue, destroyed, pushed, results>>
          /\ next' = next \/ next' = next + 1
      BY <2>2 DEF EvalPlain, p_sendmsg, p_awaitmsg, p_read, hostVars
    <3> QED
      BY <1>0, <1>5, <3>1
  <2>3. CASE StoreResult(d)
    <3>1. /\ Go(d, "result", "destroy")
          /\ UNCHANGED <<job, job_queue, destroyed, pushed, next>> /\ results \subseteq results'
      BY <2>3 DEF StoreResult, hostVars
    <3> QED
      BY <1>0, <1>5, <2>3, <3>1
  <2> QED
    BY <1>6, <1>7, <1>8, <1>9, <1>10, <2>1, <2>2, <2>3 DEF DispatcherStep
<1> QED
  BY <1>1, <1>3, <1>4, <1>10 DEF Next, MainStep

\* A job that is pushed, read or unwound into (interpreter_push_call and dispatcher_loop, interpreter.c)
\* is evaluated by one dispatcher and once; a node that is unwound into has what its call returned.
THEOREM JobsRunOnce == Spec => []OnceWithResults
<1>1. Init => OnceInv
  <2> SUFFICES ASSUME Init PROVE OnceInv
    OBVIOUS
  <2>1. \A d \in Dispatchers : pc[d] = "off" /\ DOMAIN job_queue[d] = {} /\ Held(d) = {} /\ Waiting(d) = {}
    BY DEF Init, Held, Waiting
  <2>2. destroyed = {} /\ Known = {}
    BY <2>1 DEF Init, Known, Has
  <2> QED
    BY <2>1, <2>2 DEF OnceInv, Neat, Has
<1>2. TypeOK /\ OnceInv => OnceWithResults
  <2> SUFFICES ASSUME TypeOK, OnceInv PROVE OnceWithResults
    OBVIOUS
  <2>1. ASSUME NEW j \in HostJobs, NEW k \in HostJobs \ HostPushes, ParentOf[j] = k,
               NEW d \in Dispatchers, k \in Held(d) \cup Waiting(d)
        PROVE  j \in results
    <3>1. k \in Known
      BY <2>1 DEF Known, Has
    <3>2. \E i \in HostJobs \cap destroyed \cap results : ParentOf[i] = k
      BY <3>1 DEF OnceInv, Returned
    <3>3. \A i \in HostJobs : ParentOf[i] = k => i = j
      BY <2>1, OneReturns
    <3> QED
      BY <3>2, <3>3
  <2>2. \A d \in Dispatchers :
          /\ (Held(d) \cup Waiting(d)) \cap destroyed = {}
          /\ Held(d) \cap Waiting(d) = {}
          /\ \A e \in Dispatchers \ {d} :
               (Held(d) \cup Waiting(d)) \cap (Held(e) \cup Waiting(e)) = {}
    BY DEF OnceInv, Neat, Has
  <2> QED
    BY <2>1, <2>2 DEF OnceWithResults
<1> QED
  BY <1>1, <1>2, TypeCorrect, OnceStep, PTL DEF Spec

-----------------------------------------------------------------------------
(* The order of the messages *)

\* What the program sends from a sexp on, if that is the i-th, it is followed by m and by n from the
\* one after on.
Sends(i, m, n) ==
  IF program[i] = "send" THEN <<i>> \o m ELSE IF program[i] = "read" THEN n ELSE m

\* The recursion of Messages ends: every sexp is followed by finitely many.
LEMMA MessagesUnfold ==
  ASSUME program \in Seq(Kind)
  PROVE  \A i \in Nat :
           Messages[i] = IF i > Len(program) THEN <<Nil>>
                         ELSE Sends(i, Messages[i + 1], Messages[i + 2])
<1> DEFINE N == Len(program)
           S == Seq(Nat) \X Seq(Nat)
           first == <<<<Nil>>, <<Nil>>>>
           F == [k \in 1 .. N |-> [x \in S |-> <<Sends(N + 1 - k, x[1], x[2]), x[1]>>]]
<1>1. N \in Nat
  BY LenProperties
<1>2. first \in S /\ first[1] = <<Nil>> /\ first[2] = <<Nil>>
  BY DEF Nil
<1>3. ASSUME NEW k \in 1 .. N, NEW x \in S PROVE F[k][x] \in S
  <2>1. N + 1 - k \in Nat /\ x[1] \in Seq(Nat) /\ x[2] \in Seq(Nat)
    BY <1>1
  <2>2. <<N + 1 - k>> \o x[1] \in Seq(Nat)
    BY <2>1, ConcatProperties
  <2>3. Sends(N + 1 - k, x[1], x[2]) \in Seq(Nat)
    BY <2>1, <2>2 DEF Sends
  <2> QED
    BY <2>1, <2>3
<1>4. \A k \in 1 .. N, x \in S : F[k][x] = <<Sends(N + 1 - k, x[1], x[2]), x[1]>>
  OBVIOUS
<1> HIDE DEF F, S, first, N
<1>5. PICK g \in [0 .. N -> S] : Iterates(g, first, F, N)
  BY <1>1, <1>2, <1>3, Iterate
<1>6. g[0] = first /\ \A k \in 1 .. N : g[k] = <<Sends(N + 1 - k, g[k - 1][1], g[k - 1][2]), g[k - 1][1]>>
  <2>1. \A k \in 1 .. N : g[k - 1] \in S
    BY <1>1, <1>5
  <2> QED
    BY <1>4, <1>5, <2>1 DEF Iterates
<1> DEFINE f == [i \in Nat |-> IF i > N THEN <<Nil>>
                               ELSE IF i = 0 THEN Sends(0, g[N][1], g[N][2]) ELSE g[N + 1 - i][1]]
<1>7. /\ \A i \in Nat : i > N => f[i] = <<Nil>>
      /\ \A i \in Nat : i <= N /\ i # 0 => f[i] = g[N + 1 - i][1]
      /\ f[0] = Sends(0, g[N][1], g[N][2])
      /\ f = [i \in Nat |-> f[i]]
  BY <1>1
<1> HIDE DEF f
<1>8. ASSUME NEW k \in 0 .. N PROVE f[N + 1 - k] = g[k][1] /\ f[N + 2 - k] = g[k][2]
  <2>1. CASE k = 0
    <3>1. N + 1 - k \in Nat /\ N + 1 - k > N /\ N + 2 - k \in Nat /\ N + 2 - k > N
      BY <1>1, <2>1
    <3> QED
      BY <1>2, <1>6, <1>7, <2>1, <3>1
  <2>2. CASE k # 0
    <3>1. N + 1 - k \in Nat \ {0} /\ N + 1 - k <= N /\ N + 1 - (N + 1 - k) = k
      BY <1>1, <2>2
    <3>2. f[N + 1 - k] = g[k][1]
      BY <1>7, <3>1
    <3>3. g[k][2] = g[k - 1][1]
      BY <1>6, <2>2
    <3>4. CASE k = 1
      <4>1. N + 2 - k \in Nat /\ N + 2 - k > N /\ k - 1 = 0
        BY <1>1, <3>4
      <4>2. g[k - 1] = first
        BY <1>6, <4>1
      <4>3. f[N + 2 - k] = <<Nil>>
        BY <1>7, <4>1
      <4> QED
        BY <1>2, <3>2, <3>3, <4>2, <4>3
    <3>5. CASE k # 1
      <4>1. N + 2 - k \in Nat \ {0} /\ N + 2 - k <= N /\ N + 1 - (N + 2 - k) = k - 1
        BY <1>1, <2>2, <3>5
      <4>2. f[N + 2 - k] = g[k - 1][1]
        BY <1>7, <4>1
      <4> QED
        BY <3>2, <3>3, <4>2
    <3> QED
      BY <3>4, <3>5
  <2> QED
    BY <2>1, <2>2
<1>9. ASSUME NEW i \in Nat, i <= N PROVE f[i] = Sends(i, f[i + 1], f[i + 2])
  <2>1. CASE i = 0
    <3>1. f[N + 1 - N] = g[N][1] /\ f[N + 2 - N] = g[N][2]
      BY <1>1, <1>8
    <3>2. f[i + 1] = g[N][1] /\ f[i + 2] = g[N][2]
      BY <1>1, <2>1, <3>1
    <3> QED
      BY <1>7, <2>1, <3>2
  <2>2. CASE i # 0
    <3> DEFINE k == N + 1 - i
    <3>1. k \in 1 .. N /\ k - 1 \in 0 .. N /\ N + 1 - k = i /\ N + 1 - (k - 1) = i + 1 /\ N + 2 - (k - 1) = i + 2
      BY <1>1, <1>9, <2>2
    <3> HIDE DEF k
    <3>2. f[i + 1] = g[k - 1][1] /\ f[i + 2] = g[k - 1][2]
      BY <1>8, <3>1
    <3>3. f[i] = g[k][1]
      BY <1>7, <1>9, <2>2 DEF k
    <3>4. g[k] = <<Sends(i, g[k - 1][1], g[k - 1][2]), g[k - 1][1]>>
      BY <1>6, <3>1
    <3> QED
      BY <3>2, <3>3, <3>4
  <2> QED
    BY <2>1, <2>2
<1>10. f = [i \in Nat |-> IF i > Len(program) THEN <<Nil>>
                          ELSE IF program[i] = "send" THEN <<i>> \o f[i + 1]
                          ELSE f[IF program[i] = "read" THEN i + 2 ELSE i + 1]]
  <2> DEFINE E(i) == IF i > Len(program) THEN <<Nil>>
                     ELSE IF program[i] = "send" THEN <<i>> \o f[i + 1]
                     ELSE f[IF program[i] = "read" THEN i + 2 ELSE i + 1]
  <2>1. ASSUME NEW i \in Nat PROVE f[i] = E(i)
    <3>1. CASE i > N
      BY <1>7, <3>1 DEF N
    <3>2. CASE i <= N
      BY <1>1, <1>9, <3>2 DEF Sends, N
    <3> QED
      BY <1>1, <3>1, <3>2
  <2>2. f = [i \in Nat |-> E(i)]
    <3> HIDE DEF E
    <3> QED
      BY <1>7, <2>1
  <2> QED
    BY <2>2
<1>11. Messages = [i \in Nat |-> IF i > Len(program) THEN <<Nil>>
                                 ELSE IF program[i] = "send" THEN <<i>> \o Messages[i + 1]
                                 ELSE Messages[IF program[i] = "read" THEN i + 2 ELSE i + 1]]
  BY <1>10 DEF Messages
<1>12. \A i \in Nat : Messages[i] = IF i > Len(program) THEN <<Nil>>
                                    ELSE IF program[i] = "send" THEN <<i>> \o Messages[i + 1]
                                    ELSE Messages[IF program[i] = "read" THEN i + 2 ELSE i + 1]
  BY <1>11
<1> QED
  BY <1>12 DEF Sends

\* What the host sees is a sequence of messages.
LEMMA MessagesType ==
  ASSUME program \in Seq(Kind), NEW i \in Nat \ {0}
  PROVE  Messages[i] \in Seq(Nat)
<1> DEFINE N == Len(program)
           T == {k \in 0 .. N : Messages[N + 1 - k] \in Seq(Nat) /\ Messages[N + 2 - k] \in Seq(Nat)}
<1>1. N \in Nat
  BY LenProperties
<1>2. \A k \in Nat : k > N => Messages[k] = <<Nil>> /\ Messages[k] \in Seq(Nat)
  <2>1. \A k \in Nat : k > N => Messages[k] = <<Nil>>
    BY <1>1, MessagesUnfold
  <2>2. <<Nil>> \in Seq(Nat)
    BY DEF Nil
  <2> QED
    BY <2>1, <2>2
<1>3. \A k \in Nat : k <= N => Messages[k] = Sends(k, Messages[k + 1], Messages[k + 2])
  BY <1>1, MessagesUnfold
<1> HIDE DEF N
<1>4. 0 \in T
  <2>1. /\ N + 1 - 0 \in Nat /\ N + 1 - 0 > N
        /\ N + 2 - 0 \in Nat /\ N + 2 - 0 > N
        /\ 0 \in 0 .. N
    BY <1>1
  <2> QED
    BY <1>2, <2>1
<1>5. ASSUME NEW k \in 1 .. N, k - 1 \in T PROVE k \in T
  <2> DEFINE j == N + 1 - k
  <2>1. j \in Nat /\ j <= N /\ N + 1 - (k - 1) = j + 1 /\ N + 2 - (k - 1) = j + 2 /\ N + 2 - k = j + 1
    BY <1>1
  <2>2. Messages[j + 1] \in Seq(Nat) /\ Messages[j + 2] \in Seq(Nat)
    BY <1>5, <2>1
  <2>3. <<j>> \o Messages[j + 1] \in Seq(Nat)
    <3>1. <<j>> \in Seq(Nat)
      BY <2>1
    <3> HIDE DEF j
    <3> QED
      BY <2>2, <3>1, ConcatProperties
  <2>4. Messages[j] = Sends(j, Messages[j + 1], Messages[j + 2])
    BY <1>3, <2>1
  <2>5. Messages[j] \in Seq(Nat)
    <3> HIDE DEF j
    <3> QED
      BY <2>2, <2>3, <2>4 DEF Sends
  <2> QED
    BY <2>1, <2>2, <2>5
<1>6. 0 .. N \subseteq T
  <2> HIDE DEF T
  <2> QED
    BY <1>1, <1>4, <1>5, UpTo
<1>7. CASE i <= N
  <2>1. N + 1 - i \in 0 .. N /\ N + 1 - (N + 1 - i) = i
    BY <1>1, <1>7
  <2> QED
    BY <1>6, <2>1
<1> QED
  BY <1>1, <1>2, <1>7

\* The messages that are still to be sent when dispatcher 0 is at p with job j and reads n next.
Left(p, j, n) ==
  IF p = "done" THEN <<>>
  ELSE IF p = "eof" THEN <<Nil>>
  ELSE IF p = "eval" /\ KindOf(j) = "send" THEN <<j>> \o Messages[n]
  ELSE IF p = "eval" /\ KindOf(j) = "read" THEN Messages[n + 1]
  ELSE Messages[n]

\* What the host has received, what is in the channel and what is still to be sent are the messages
\* of the program.  Only dispatcher 0 evaluates the program, the () is the last message in the
\* channel, and the host has emptied the channel when it leaves its loop.
OrderInv ==
  /\ (received \o to_host) \o Left(pc[0], job[0], next) = Messages[1]
  /\ \A d \in Dispatchers \ {0} : pc[d] = "eval" => job[d] \in HostJobs
  /\ \A i \in 1 .. Len(to_host) : to_host[i] = Nil => i = Len(to_host)
  /\ main \in {"free", "freed"} => to_host = <<>>

\* What is still to be sent is a sequence of messages.
LEMMA LeftType ==
  ASSUME TypeOK PROVE Left(pc[0], job[0], next) \in Seq(Nat)
<1>1. program \in Seq(Kind) /\ next \in Nat \ {0} /\ next + 1 \in Nat \ {0}
  BY LenProperties DEF TypeOK
<1>2. Messages[next] \in Seq(Nat) /\ Messages[next + 1] \in Seq(Nat)
  BY <1>1, MessagesType
<1>3. <<Nil>> \in Seq(Nat)
  BY DEF Nil
<1>4. KindOf(job[0]) = "send" => job[0] \in Nat /\ <<job[0]>> \in Seq(Nat)
  BY <1>1, LenProperties DEF KindOf
<1>5. KindOf(job[0]) = "send" => <<job[0]>> \o Messages[next] \in Seq(Nat)
  BY <1>2, <1>4, ConcatProperties
<1> QED
  BY <1>2, <1>3, <1>5 DEF Left

\* What the host has received and what is in the channel are messages.
LEMMA ChannelType == TypeOK => received \in Seq(Nat) /\ to_host \in Seq(Nat)
<1> SUFFICES ASSUME TypeOK PROVE received \in Seq(Nat) /\ to_host \in Seq(Nat)
  OBVIOUS
<1>1. 0 .. MaxSexps \subseteq Nat
  BY DispatcherAssumption
<1> QED
  BY <1>1, SeqMonotonic DEF TypeOK

\* What is still to be sent depends on the program, which does not change, and on dispatcher 0.
LEMMA LeftNext ==
  ASSUME UNCHANGED program
  PROVE  /\ Messages' = Messages
         /\ Left(pc[0], job[0], next)' = Left(pc'[0], job'[0], next')
<1>1. Messages' = Messages
  BY DEF Messages
<1>2. \A j : KindOf(j)' = KindOf(j)
  BY DEF KindOf
<1> QED
  BY <1>1 DEF Left, KindOf

\* A job of the host is plain: it sends nothing and reads nothing.
LEMMA HostJobsPlain ==
  ASSUME program \in Seq(Kind), NEW j \in HostJobs PROVE KindOf(j) = "plain"
  BY DispatcherAssumption, LenProperties DEF KindOf

\* A step keeps OrderInv that sends and receives nothing, and leaves what dispatcher 0 still has to send.
LEMMA OrderQuiet ==
  ASSUME OrderInv, UNCHANGED <<program, received, to_host>>,
         main' \in {"free", "freed"} => main \in {"free", "freed"},
         Left(pc'[0], job'[0], next') = Left(pc[0], job[0], next),
         \A d \in Dispatchers \ {0} : pc'[d] = "eval" => job'[d] \in HostJobs
  PROVE  OrderInv'
<1>1. Messages' = Messages /\ Left(pc[0], job[0], next)' = Left(pc'[0], job'[0], next')
  BY LeftNext
<1> QED
  BY <1>1 DEF OrderInv

\* A step keeps OrderInv that sends the first message that dispatcher 0 still has to send: its last one, if
\* that is the ().
LEMMA OrderSends ==
  ASSUME TypeOK, OrderInv, NEW m \in Nat, NEW rest \in Seq(Nat),
         UNCHANGED <<program, received>>,
         to_host' = Append(to_host, m), main \notin {"free", "freed"}, UNCHANGED main,
         \A i \in 1 .. Len(to_host) : to_host[i] # Nil,
         Left(pc[0], job[0], next) = <<m>> \o rest,
         Left(pc'[0], job'[0], next') = rest,
         \A d \in Dispatchers \ {0} : pc'[d] = "eval" => job'[d] \in HostJobs
  PROVE  OrderInv'
<1>1. Messages' = Messages /\ Left(pc[0], job[0], next)' = rest
  BY LeftNext
<1>2. received \in Seq(Nat) /\ to_host \in Seq(Nat) /\ <<m>> \in Seq(Nat) /\ received \o to_host \in Seq(Nat)
  BY ChannelType, ConcatProperties
<1>3. Append(to_host, m) = to_host \o <<m>>
  BY <1>2, AppendIsConcat
<1>4. received \o (to_host \o <<m>>) = (received \o to_host) \o <<m>>
  BY <1>2, ConcatAssociative
<1>5. ((received \o to_host) \o <<m>>) \o rest = (received \o to_host) \o (<<m>> \o rest)
  BY <1>2, ConcatAssociative
<1>6. ((received \o to_host)' \o rest) = Messages[1]
  BY <1>3, <1>4, <1>5 DEF OrderInv
<1>7. \A i \in 1 .. Len(to_host') : to_host'[i] = Nil => i = Len(to_host')
  BY <1>2, AppendProperties
<1> QED
  BY <1>1, <1>6, <1>7 DEF OrderInv

\* The host takes the first message of the channel.
LEMMA OrderReceives ==
  ASSUME TypeOK, OrderInv, MainReceive PROVE OrderInv'
<1>1. /\ to_host # <<>> /\ to_host' = Tail(to_host) /\ received' = Append(received, Head(to_host))
      /\ main' = IF Head(to_host) = Nil THEN "free" ELSE "await"
      /\ UNCHANGED <<program, next, pc, job>>
  BY DEF MainReceive
<1>2. received \in Seq(Nat) /\ to_host \in Seq(Nat)
  BY ChannelType
<1>3. /\ Head(to_host) \in Nat /\ Tail(to_host) \in Seq(Nat) /\ <<Head(to_host)>> \in Seq(Nat)
      /\ Len(to_host) \in Nat \ {0} /\ Len(Tail(to_host)) = Len(to_host) - 1 /\ Head(to_host) = to_host[1]
      /\ \A i \in 1 .. Len(Tail(to_host)) : Tail(to_host)[i] = to_host[i + 1]
  BY <1>1, <1>2, HeadTailProperties, EmptySeq
<1>4. to_host = <<Head(to_host)>> \o Tail(to_host)
  <2>1. /\ Len(<<Head(to_host)>> \o Tail(to_host)) = 1 + Len(Tail(to_host))
        /\ <<Head(to_host)>> \o Tail(to_host) \in Seq(Nat)
        /\ \A i \in 1 .. 1 + Len(Tail(to_host)) : (<<Head(to_host)>> \o Tail(to_host))[i]
                     = IF i <= 1 THEN Head(to_host) ELSE Tail(to_host)[i - 1]
    BY <1>3, ConcatProperties
  <2>2. \A i \in 1 .. Len(to_host) : to_host[i] = (<<Head(to_host)>> \o Tail(to_host))[i]
    BY <1>3, <2>1
  <2> QED
    BY <1>2, <1>3, <2>1, <2>2, SeqEqual
<1>5. Append(received, Head(to_host)) \o Tail(to_host) = received \o (<<Head(to_host)>> \o Tail(to_host))
  BY <1>2, <1>3, AppendIsConcat, ConcatAssociative
<1>6. (received \o to_host)' = received \o to_host
  BY <1>1, <1>4, <1>5
<1>7. \A i \in 1 .. Len(to_host') : to_host'[i] = Nil => i = Len(to_host')
  <2> SUFFICES ASSUME NEW i \in 1 .. Len(Tail(to_host)), Tail(to_host)[i] = Nil
               PROVE  i = Len(Tail(to_host))
    BY <1>1
  <2>1. i + 1 \in 1 .. Len(to_host) /\ to_host[i + 1] = Nil
    BY <1>3
  <2>2. \A k \in 1 .. Len(to_host) : to_host[k] = Nil => k = Len(to_host)
    BY DEF OrderInv
  <2>3. i + 1 = Len(to_host)
    BY ONLY <2>1, <2>2
  <2>4. Len(to_host) \in Nat /\ Len(Tail(to_host)) = Len(to_host) - 1
    BY <1>3
  <2> QED
    BY ONLY i \in 1 .. Len(Tail(to_host)), <2>3, <2>4
<1>8. main' = "free" => to_host' = <<>>
  <2>1. Head(to_host) = Nil => Len(Tail(to_host)) = 0
    <3>1. \A k \in 1 .. Len(to_host) : to_host[k] = Nil => k = Len(to_host)
      BY DEF OrderInv
    <3>2. 1 \in 1 .. Len(to_host) /\ Head(to_host) = to_host[1]
      BY <1>3
    <3>3. Head(to_host) = Nil => Len(to_host) = 1
      BY ONLY <3>1, <3>2
    <3>4. Len(Tail(to_host)) = Len(to_host) - 1
      BY <1>3
    <3> QED
      BY ONLY <3>3, <3>4
  <2>2. Len(Tail(to_host)) = 0 => Tail(to_host) = <<>>
    BY <1>3, EmptySeq
  <2> QED
    BY <1>1, <2>1, <2>2
<1>9. Messages' = Messages /\ Left(pc[0], job[0], next)' = Left(pc[0], job[0], next)
  BY <1>1, LeftNext
<1> QED
  BY <1>1, <1>6, <1>7, <1>8, <1>9 DEF OrderInv

\* No step of the host or of a dispatcher loses, doubles or reorders a message.
LEMMA OrderStep == TypeOK /\ EndInv /\ OrderInv /\ [Next]_vars => OrderInv'
<1> SUFFICES ASSUME TypeOK, EndInv, OrderInv, [Next]_vars PROVE OrderInv'
  OBVIOUS
<1>0. /\ program \in Seq(Kind) /\ Len(program) \in Nat /\ next \in Nat \ {0}
      /\ 0 \in Dispatchers /\ DOMAIN program = 1 .. Len(program)
      /\ pc \in [Dispatchers -> DispatcherPC] /\ job \in [Dispatchers -> Node \cup {Root, NULL}]
      /\ Messages[next] \in Seq(Nat)
  <2>1. program \in Seq(Kind) /\ Len(program) \in Nat /\ DOMAIN program = 1 .. Len(program)
    BY LenProperties DEF TypeOK
  <2>2. next \in Nat \ {0}
    BY <2>1 DEF TypeOK
  <2> QED
    BY <2>1, <2>2, MessagesType, ZeroIsADispatcher DEF TypeOK
<1>1. CASE interpreter_begin
  <2>1. /\ pc[0] = "off" /\ pc'[0] = "poll" /\ \A d \in Dispatchers : pc'[d] = "poll"
        /\ UNCHANGED <<program, received, to_host, job, next>> /\ main' = "await"
    BY <1>1, ZeroIsADispatcher DEF EndInv, interpreter_begin
  <2>2. Left(pc'[0], job'[0], next') = Left(pc[0], job[0], next)
    BY <2>1 DEF Left
  <2> QED
    BY <2>1, <2>2, OrderQuiet
<1>2. CASE MainReceive
  BY <1>2, OrderReceives
<1>3. CASE HostReply \/ interpreter_free \/ UNCHANGED vars
  <2>1. /\ UNCHANGED <<program, received, to_host, pc, job, next>>
        /\ main' \in {"free", "freed"} => main \in {"free", "freed"}
    BY <1>3 DEF HostReply, interpreter_free, vars, hostVars
  <2>2. \A d \in Dispatchers \ {0} : pc'[d] = "eval" => job'[d] \in HostJobs
    BY <2>1 DEF OrderInv
  <2> QED
    BY <2>1, <2>2, OrderQuiet
<1>4. ASSUME NEW j \in HostPushes, NEW d \in Dispatchers, HostPush(j, d) PROVE OrderInv'
  <2>1. UNCHANGED <<program, received, to_host, pc, job, next, main>>
    BY <1>4 DEF HostPush
  <2>2. \A e \in Dispatchers \ {0} : pc'[e] = "eval" => job'[e] \in HostJobs
    BY <2>1 DEF OrderInv
  <2> QED
    BY <2>1, <2>2, OrderQuiet
<1>5. ASSUME NEW d \in Dispatchers, DispatcherStep(d) PROVE OrderInv'
  <2>1. CASE TakeJob(d)
    <3>1. Head(job_queue[d]) \in HostJobs
      BY <2>1, HeadTailProperties DEF TakeJob, TypeOK
    <3>2. /\ pc[d] = "poll" /\ pc' = [pc EXCEPT ![d] = "eval"]
          /\ job' = [job EXCEPT ![d] = Head(job_queue[d])]
          /\ UNCHANGED <<program, next, to_host, main, received>>
      BY <2>1 DEF TakeJob, Go, hostVars
    <3>3. \A e \in Dispatchers \ {0} : pc'[e] = "eval" => job'[e] \in HostJobs
      BY <1>0, <3>1, <3>2 DEF OrderInv
    <3>4. CASE d = 0
      <4>1. pc[0] = "poll" /\ pc'[0] = "eval" /\ job'[0] \in HostJobs
        BY <1>0, <3>1, <3>2, <3>4
      <4>2. KindOf(job'[0]) = "plain"
        BY <1>0, <4>1, HostJobsPlain
      <4>3. Left(pc'[0], job'[0], next') = Left(pc[0], job[0], next)
        BY <3>2, <4>1, <4>2 DEF Left
      <4> QED
        BY <3>2, <3>3, <4>3, OrderQuiet
    <3>5. CASE d # 0
      <4>1. pc'[0] = pc[0] /\ job'[0] = job[0]
        BY <1>0, <3>2, <3>5
      <4> QED
        BY <3>2, <3>3, <4>1, OrderQuiet
    <3> QED
      BY <3>4, <3>5
  <2>2. ASSUME d = 0, PollEmpty \/ ReadSexp \/ ReadEOF PROVE OrderInv'
    <3>1. /\ \A e \in Dispatchers \ {0} : pc'[e] = pc[e] /\ job'[e] = job[e]
          /\ UNCHANGED <<program, to_host, main, received>>
      BY <1>0, <2>2 DEF PollEmpty, ReadSexp, ReadEOF, Go, hostVars
    <3>2. \A e \in Dispatchers \ {0} : pc'[e] = "eval" => job'[e] \in HostJobs
      BY <3>1 DEF OrderInv
    <3>3. CASE PollEmpty
      <4>1. pc[0] = "poll" /\ pc'[0] = "read" /\ next' = next
        BY <1>0, <3>3 DEF PollEmpty, Go
      <4>2. Left(pc'[0], job'[0], next') = Left(pc[0], job[0], next)
        BY <4>1 DEF Left
      <4> QED
        BY <3>1, <3>2, <4>2, OrderQuiet
    <3>4. CASE ReadSexp
      <4>1. /\ pc[0] = "read" /\ pc'[0] = "eval" /\ next' = next + 1 /\ job'[0] = next
            /\ next <= Len(program) /\ next + 1 \in Nat /\ next' + 1 = next + 2
        BY <1>0, <3>4 DEF ReadSexp, Go
      <4>2. Messages[next] = Sends(next, Messages[next + 1], Messages[next + 2])
        BY <1>0, <4>1, MessagesUnfold
      <4>3. KindOf(next) = program[next]
        BY <1>0, <4>1 DEF KindOf
      <4>4. Left(pc'[0], job'[0], next') = Left(pc[0], job[0], next)
        BY <4>1, <4>2, <4>3 DEF Left, Sends
      <4> QED
        BY <3>1, <3>2, <4>4, OrderQuiet
    <3>5. CASE ReadEOF
      <4>1. pc[0] = "read" /\ pc'[0] = "eof" /\ next' = next /\ next > Len(program)
        BY <1>0, <3>5 DEF ReadEOF, Go
      <4>2. Messages[next] = <<Nil>>
        BY <1>0, <4>1, MessagesUnfold
      <4>3. Left(pc'[0], job'[0], next') = Left(pc[0], job[0], next)
        BY <4>1, <4>2 DEF Left
      <4> QED
        BY <3>1, <3>2, <4>3, OrderQuiet
    <3> QED
      BY <2>2, <3>3, <3>4, <3>5
  <2>3. CASE d = 0 /\ SendEOF
    <3>1. /\ pc[0] = "eof" /\ pc'[0] = "done" /\ to_host' = Append(to_host, Nil)
          /\ \A e \in Dispatchers \ {0} : pc'[e] = pc[e] /\ job'[e] = job[e]
          /\ UNCHANGED <<program, main, received>>
      BY <1>0, <2>3 DEF SendEOF, Go, hostVars
    <3>2. \A e \in Dispatchers \ {0} : pc'[e] = "eval" => job'[e] \in HostJobs
      BY <3>1 DEF OrderInv
    <3>3. main \notin {"free", "freed"} /\ \A i \in 1 .. Len(to_host) : to_host[i] # Nil
      <4>1. DOMAIN to_host = 1 .. Len(to_host)
        BY ChannelType, LenProperties
      <4> QED
        BY <3>1, <4>1 DEF EndInv
    <3>4. Left(pc[0], job[0], next) = <<Nil>> \o <<>> /\ Left(pc'[0], job'[0], next') = <<>>
          /\ Nil \in Nat /\ <<>> \in Seq(Nat)
      <4>1. <<Nil>> \in Seq(Nat) /\ Nil \in Nat
        BY DEF Nil
      <4>2. <<Nil>> \o <<>> = <<Nil>>
        BY <4>1, ConcatEmptySeq
      <4> QED
        BY <3>1, <4>1, <4>2 DEF Left
    <3> QED
      BY <3>1, <3>2, <3>3, <3>4, OrderSends
  <2>4. ASSUME EvalPlain(d) \/ p_awaitmsg(d) \/ StoreResult(d) \/ DestroyJob(d) \/ PushParent(d)
        PROVE  OrderInv'
    <3>1. /\ pc[d] = "eval" => KindOf(job[d]) \in {"plain", "await"}
          /\ pc[d] \notin {"done", "eof"} /\ pc'[d] \notin {"done", "eof", "eval"}
          /\ \A e \in Dispatchers \ {d} : pc'[e] = pc[e] /\ job'[e] = job[e]
          /\ UNCHANGED <<program, to_host, main, received, next>>
      BY <1>0, <2>4 DEF EvalPlain, p_awaitmsg, StoreResult, DestroyJob, PushParent, Go, hostVars
    <3>2. \A e \in Dispatchers \ {0} : pc'[e] = "eval" => job'[e] \in HostJobs
      BY <3>1 DEF OrderInv
    <3>3. Left(pc'[0], job'[0], next') = Left(pc[0], job[0], next)
      BY <1>0, <3>1 DEF Left
    <3> QED
      BY <3>1, <3>2, <3>3, OrderQuiet
  <2>5. CASE p_sendmsg(d)
    <3>1. /\ pc[d] = "eval" /\ KindOf(job[d]) = "send" /\ pc' = [pc EXCEPT ![d] = "result"]
          /\ to_host' = Append(to_host, job[d]) /\ UNCHANGED <<program, next, job, main, received>>
      BY <2>5 DEF p_sendmsg, Go, hostVars
    <3>2. d = 0
      BY <1>0, <3>1, HostJobsPlain DEF OrderInv
    <3>3. job[0] \in Nat \ {0}
      BY <1>0, <3>1, <3>2 DEF KindOf
    <3>4. main \notin {"free", "freed"} /\ \A i \in 1 .. Len(to_host) : to_host[i] # Nil
      <4>1. DOMAIN to_host = 1 .. Len(to_host)
        BY ChannelType, LenProperties
      <4> QED
        BY <3>1, <3>2, <4>1 DEF EndInv
    <3>5. \A e \in Dispatchers \ {0} : pc'[e] = "eval" => job'[e] \in HostJobs
      BY <1>0, <3>1, <3>2 DEF OrderInv
    <3>6. pc'[0] = "result"
      BY <1>0, <3>1, <3>2
    <3>7. /\ Left(pc[0], job[0], next) = <<job[0]>> \o Messages[next]
          /\ Left(pc'[0], job'[0], next') = Messages[next]
      BY <3>1, <3>2, <3>6 DEF Left
    <3> QED
      BY <1>0, <3>1, <3>2, <3>3, <3>4, <3>5, <3>7, OrderSends
  <2>6. CASE p_read(d)
    <3>1. /\ pc[d] = "eval" /\ KindOf(job[d]) = "read" /\ pc' = [pc EXCEPT ![d] = "result"]
          /\ next' = IF next <= Len(program) THEN next + 1 ELSE next
          /\ UNCHANGED <<program, job, main, received, to_host>>
      BY <2>6 DEF p_read, Go, hostVars
    <3>2. d = 0
      BY <1>0, <3>1, HostJobsPlain DEF OrderInv
    <3>3. \A e \in Dispatchers \ {0} : pc'[e] = "eval" => job'[e] \in HostJobs
      BY <1>0, <3>1, <3>2 DEF OrderInv
    <3>4. pc'[0] = "result" /\ pc[0] = "eval" /\ KindOf(job[0]) = "read"
      BY <1>0, <3>1, <3>2
    <3>5. Messages[next'] = Messages[next + 1]
      <4>1. CASE next <= Len(program)
        BY <3>1, <4>1
      <4>2. CASE next > Len(program)
        <5>1. next' = next /\ next + 1 \in Nat /\ next + 1 > Len(program)
          BY <1>0, <3>1, <4>2
        <5> QED
          BY <1>0, <4>2, <5>1, MessagesUnfold
      <4> QED
        BY <1>0, <4>1, <4>2
    <3>6. Left(pc'[0], job'[0], next') = Left(pc[0], job[0], next)
      BY <3>4, <3>5 DEF Left
    <3> QED
      BY <3>1, <3>3, <3>6, OrderQuiet
  <2> QED
    BY <1>5, <2>1, <2>2, <2>3, <2>4, <2>5, <2>6 DEF DispatcherStep
<1> QED
  BY <1>1, <1>2, <1>3, <1>4, <1>5 DEF Next, MainStep

\* The host sees the messages of the program (dispatcher_loop and the loop of main) in the order of its text,
\* each once, with the () of its end behind them, and all of them before it frees the interpreter.
THEOREM MessagesInOrder == Spec => []InOrder
<1>1. Init => OrderInv
  <2> SUFFICES ASSUME Init PROVE OrderInv
    OBVIOUS
  <2>1. /\ received = <<>> /\ to_host = <<>> /\ next = 1 /\ main = "new" /\ program \in Seq(Kind)
        /\ \A d \in Dispatchers : pc[d] = "off"
    BY TypeInit DEF Init, TypeOK
  <2>2. Left(pc[0], job[0], next) = Messages[1] /\ Messages[1] \in Seq(Nat)
    BY <2>1, ZeroIsADispatcher, MessagesType DEF Left
  <2>3. (<<>> \o <<>>) \o Messages[1] = Messages[1]
    <3>1. <<>> \in Seq(Nat)
      OBVIOUS
    <3> QED
      BY <2>2, <3>1, ConcatEmptySeq
  <2> QED
    BY <2>1, <2>2, <2>3 DEF OrderInv
<1>2. TypeOK /\ EndInv /\ OrderInv => InOrder
  <2> SUFFICES ASSUME TypeOK, EndInv, OrderInv PROVE InOrder
    OBVIOUS
  <2> DEFINE s == received \o to_host
             r == Left(pc[0], job[0], next)
  <2>1. s \in Seq(Nat) /\ r \in Seq(Nat) /\ s \o r = Messages[1]
    BY ChannelType, LeftType, ConcatProperties DEF OrderInv
  <2>2. main = "freed" => received = Messages[1]
    <3>1. main = "freed" => r = <<>> /\ to_host = <<>>
      BY DEF OrderInv, EndInv, Left
    <3>2. received \in Seq(Nat)
      BY ChannelType
    <3> QED
      BY <2>1, <3>1, <3>2, ConcatEmptySeq
  <2> HIDE DEF s, r
  <2>3. IsPrefix(s, s \o r)
    <3>1. Len(s) \in Nat /\ Len(r) \in Nat /\ Len(s \o r) = Len(s) + Len(r)
      BY <2>1, LenProperties, ConcatProperties
    <3>2. CASE Len(s) = 0
      BY <3>1, <3>2 DEF IsPrefix
    <3>3. CASE Len(s) # 0
      <4>1. SubSeq(s \o r, 1, Len(s)) = SubSeq(s, 1, Len(s))
        BY <2>1, <3>1, <3>3, SubSeqOfConcat1
      <4> QED
        BY <3>1, <4>1 DEF IsPrefix
    <3> QED
      BY <3>2, <3>3
  <2> QED
    BY <2>1, <2>2, <2>3 DEF InOrder, s
<1>3. Init => EndInv
  BY DEF Init, EndInv
<1> QED
  BY <1>1, <1>2, <1>3, TypeCorrect, EndStep, OrderStep, PTL DEF Spec
=============================================================================
