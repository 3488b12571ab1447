---------------------------- MODULE MCDispatcher ----------------------------
EXTENDS Dispatcher

CONSTANTS main, io, user

\* Thread::RunInThread gives each created thread its own number; a thread the
\* library did not create keeps 0.
MCTid == [t \in {main, io, user} |-> CASE t = main -> 0 [] t = io -> 1
                                       [] OTHER -> 2]
=============================================================================
