------------------------------ MODULE Mailbox ------------------------------
(***************************************************************************)
(* What a Dispatcher promises to the threads that hand it work, without    *)
(* any of the machinery (mutex, eventfd, epoll, swap of the vectors) that  *)
(* keeps the promise: one queue per loop, tasks leave it in the order they *)
(* entered, each exactly once, and a task given to RunInLoop on the loop's *)
(* own thread runs at once without entering the queue.                     *)
(***************************************************************************)
EXTENDS Naturals, Sequences

CONSTANT Tasks

VARIABLES
    queue,      \* tasks accepted and not yet executed, oldest first
    done,       \* tasks executed from the queue, in execution order
    direct      \* tasks run at once by their submitter

mailboxVars == <<queue, done, direct>>

MailboxInit ==
    /\ queue = <<>>
    /\ done = <<>>
    /\ direct = {}

\* A task is new when it was never submitted in any way.
New(f) ==
    /\ \A i \in 1..Len(queue) : queue[i] # f
    /\ \A i \in 1..Len(done) : done[i] # f
    /\ f \notin direct

Submit(f) ==
    /\ New(f)
    /\ queue' = Append(queue, f)
    /\ UNCHANGED <<done, direct>>

Execute ==
    /\ queue # <<>>
    /\ done' = Append(done, Head(queue))
    /\ queue' = Tail(queue)
    /\ UNCHANGED direct

RunDirect(f) ==
    /\ New(f)
    /\ direct' = direct \cup {f}
    /\ UNCHANGED <<queue, done>>

MailboxNext ==
    \/ \E f \in Tasks : Submit(f) \/ RunDirect(f)
    \/ Execute

MailboxSpec == MailboxInit /\ [][MailboxNext]_mailboxVars
=============================================================================
