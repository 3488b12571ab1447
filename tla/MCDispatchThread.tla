-------------------------- MODULE MCDispatchThread --------------------------
EXTENDS DispatchThread

CONSTANTS main, io, user

MCTid == [t \in {main, io, user} |-> CASE t = main -> 0 [] t = io -> 1
                                       [] OTHER -> 2]
=============================================================================
