------------------------------ MODULE Mailbox ------------------------------
(* What one direction of a ChannelPair promises: a first-in first-out         *)
(* mailbox.  Message <<s, k>> is the k-th one sender s posted.  A post is     *)
(* lost only when channel_queue cannot allocate a node (Lossy): its callers   *)
(* drop the -1 it returns.                                                    *)
EXTENDS Naturals, Sequences

CONSTANTS Senders,
          MaxSends,   \* bound on the messages of one sender
          Lossy       \* may malloc fail?

VARIABLES
  posted,  \* how many messages each sender has posted
  queue,   \* the messages waiting, oldest first
  rcvd     \* the messages received, oldest first

mailboxVars == <<posted, queue, rcvd>>

Init ==
  /\ posted = [s \in Senders |-> 0]
  /\ queue = <<>>
  /\ rcvd = <<>>

Post(s) ==
  /\ posted[s] < MaxSends
  /\ posted' = [posted EXCEPT ![s] = @ + 1]
  /\ queue' = Append(queue, <<s, posted[s] + 1>>)
  /\ UNCHANGED rcvd

Lose(s) ==
  /\ Lossy
  /\ posted[s] < MaxSends
  /\ posted' = [posted EXCEPT ![s] = @ + 1]
  /\ UNCHANGED <<queue, rcvd>>

Take ==
  /\ queue # <<>>
  /\ rcvd' = Append(rcvd, queue[1])
  /\ queue' = SubSeq(queue, 2, Len(queue))
  /\ UNCHANGED posted

Next == Take \/ \E s \in Senders : Post(s) \/ Lose(s)

Spec == Init /\ [][Next]_mailboxVars
=============================================================================
