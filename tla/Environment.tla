------------------------------ MODULE Environment ------------------------------
(* The list of variables (t_env.vals) and its operations (environment/env_*.c):
   entries in the order they were added, found from the front. No operation looks
   whether a name is there twice.                                              *)
EXTENDS Naturals, Sequences, FiniteSetsExt

CONSTANT Names     \* the valid names of variables

PWD == "PWD"
OLDPWD == "OLDPWD"
HOME == "HOME"
PATH == "PATH"
SHLVL == "SHLVL"

ASSUME EnvironmentAssumption == {PWD, OLDPWD, HOME, PATH, SHLVL} \subseteq Names

\* A char *: NULL, which a variable without a value has, or a text.
NULL == [null |-> TRUE]
Str(text) == [null |-> FALSE, text |-> text]

-------------------------------------------------------------------------------

Positions(l, key) == {i \in DOMAIN l : l[i].key = key}

SearchNode(l, key) == Min(Positions(l, key))

Entry(key, val) == [key |-> key, val |-> val]

EnvGet(l, key) ==
    IF Positions(l, key) = {} THEN NULL ELSE l[SearchNode(l, key)].val

EnvAdd(l, key, val) == Append(l, Entry(key, val))

\* A slip for EnvUpdate: a name without a value is always added.
EnvUpdateDeclaring(l, key, val) ==
    IF Positions(l, key) = {} \/ val.null THEN EnvAdd(l, key, val)
    ELSE [l EXCEPT ![SearchNode(l, key)] = Entry(key, val)]

EnvUpdate(l, key, val) ==
    IF Positions(l, key) = {} THEN EnvAdd(l, key, val)
    ELSE IF val.null THEN l
    ELSE [l EXCEPT ![SearchNode(l, key)] = Entry(key, val)]

\* A slip for EnvDelete: the last entry goes, whichever it is.
EnvDeleteLast(l, key) ==
    IF Positions(l, key) = {} THEN l
    ELSE [i \in 1..(Len(l) - 1) |-> l[i]]

EnvDelete(l, key) ==
    IF Positions(l, key) = {} THEN l
    ELSE [i \in 1..(Len(l) - 1) |->
             IF i < SearchNode(l, key) THEN l[i] ELSE l[i + 1]]

\* A slip for EnvToEnvp: the end of the array falls on the last entry.
EnvToEnvpShort(l) == [i \in 1..(Len(l) - 1) |-> <<l[i].key, "=">> \o l[i].val.text]

\* What a new process gets: a name without a value is given the empty one.
EnvToEnvp(l) ==
    [i \in DOMAIN l |->
        <<l[i].key, "=">> \o (IF l[i].val.null THEN << >> ELSE l[i].val.text)]

-------------------------------------------------------------------------------

IsEmptyStr(val) == val.null \/ val.text = << >>

NamesOnce(l) ==
    \A i, j \in DOMAIN l : l[i].key = l[j].key => i = j

Absent == [there |-> FALSE]
Present(val) == [there |-> TRUE, val |-> val]

\* The list as a function from names: what the other parts of the shell can find.
View(l) ==
    [n \in Names |-> IF Positions(l, n) = {} THEN Absent
                     ELSE Present(l[SearchNode(l, n)].val)]
================================================================================
