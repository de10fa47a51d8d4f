------------------------------ MODULE AndOrList ------------------------------
(* What executing a list promises (execute/execute_list.c, execute_list): the
   pipelines run one at a time, left to right, each only when its connector is
   satisfied by the status of the one that ran before it, until the list is
   over or the shell is told to leave it.                                     *)
EXTENDS ListOrder

CONSTANTS
    Lists,      \* the lists to run, each a sequence of connectors
    Statuses    \* the exit statuses a pipeline may have

VARIABLES
    ops,        \* the list being run, chosen once
    pos,        \* the pipeline that runs now; Len(ops) + 1 when the list is over
    status,     \* the status of the last pipeline that ran
    leaving     \* the shell has been told to leave the list

vars == <<ops, pos, status, leaving>>

Init ==
    /\ ops \in Lists
    /\ pos = 1
    /\ status = 0
    /\ leaving = FALSE

\* Pipeline pos ends with status s and the next one to run is chosen from it.
Run(s) ==
    /\ pos \in 1 .. Len(ops) /\ ~leaving
    /\ status' = s
    /\ pos' = NextRun(ops, pos, s)
    /\ UNCHANGED <<ops, leaving>>

\* Pipeline pos asks the shell to leave.
Leave ==
    /\ pos \in 1 .. Len(ops) /\ ~leaving
    /\ leaving' = TRUE
    /\ UNCHANGED <<ops, pos, status>>

\* That pipeline ends: the rest of the list is not run.
Abandon(s) ==
    /\ pos \in 1 .. Len(ops) /\ leaving
    /\ status' = s
    /\ pos' = Len(ops) + 1
    /\ UNCHANGED <<ops, leaving>>

Next == Leave \/ \E s \in Statuses : Run(s) \/ Abandon(s)

Spec == Init /\ [][Next]_vars
=============================================================================
