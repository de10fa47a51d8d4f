------------------------------ MODULE ListOrder ------------------------------
(* The order in which the pipelines of one list run (execute/execute_list.c).
   A list is given by its connectors: ops[i] says how pipeline i joins the
   pipeline before it.  In the AT_COMMAND arena this is FLAG_AND_IF, FLAG_OR_IF
   or neither (a newline, which the grammar allows inside a subshell).        *)
EXTENDS Integers, Sequences, FiniteSetsExt

Connectors == {"newline", "and", "or"}

(* What the shell language promises: a pipeline runs when its connector agrees
   with the status of the last pipeline that ran; a newline always does.      *)
Satisfied(op, status) ==
    \/ op = "newline"
    \/ op = "and" /\ status = 0
    \/ op = "or" /\ status # 0

Runnable(ops, i, status) == {j \in i+1 .. Len(ops) : Satisfied(ops[j], status)}

NextRun(ops, i, status) ==
    IF Runnable(ops, i, status) = {} THEN Len(ops) + 1
    ELSE Min(Runnable(ops, i, status))

(* What the code computes.  next_idx = 0 (the sentinel node, whose type is not
   NODE_PIPELINE) is the position Len(ops) + 1.                               *)
Later(ops, i, op) == {j \in i+1 .. Len(ops) : ops[j] = op}

FirstLater(ops, i, op) ==
    IF Later(ops, i, op) = {} THEN Len(ops) + 1 ELSE Min(Later(ops, i, op))

\* A slip for GetNextWithOr: the search looks at the next pipeline only.
NextIfOr(ops, i) == IF i < Len(ops) /\ ops[i+1] = "or" THEN i + 1 ELSE Len(ops) + 1

\* get_next_with_or: the first pipeline flagged || after pipeline i.
GetNextWithOr(ops, i) == FirstLater(ops, i, "or")

\* get_next_with_and: the first pipeline flagged && after pipeline i.
GetNextWithAnd(ops, i) == FirstLater(ops, i, "and")

\* A slip for GetNext: a pipeline that may not run ends the list.
GetNextOrStop(ops, i, status) ==
    IF i + 1 > Len(ops) \/ Satisfied(ops[i+1], status) THEN i + 1 ELSE Len(ops) + 1

(* get_next: the following pipeline if it may run, else a search from there for
   the other connector.                                                       *)
GetNext(ops, i, status) ==
    IF i + 1 > Len(ops) \/ Satisfied(ops[i+1], status) THEN i + 1
    ELSE IF ops[i+1] = "and" THEN GetNextWithOr(ops, i + 1)
    ELSE GetNextWithAnd(ops, i + 1)

\* A list with no newline between its pipelines: what one top-level line holds.
OneLine(ops) == \A i \in 2 .. Len(ops) : ops[i] # "newline"
=============================================================================
