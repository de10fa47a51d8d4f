------------------------------ MODULE MCExecutor ------------------------------
(* Scripts for the model checker: every pipeline of one or two commands from a
   menu that has each kind of command and each way it can fail, in front of an
   and-or list; and longer pipelines and deeper subshells chosen by hand.      *)
EXTENDS Executor

\* Commands.
Command(kind, redirs, reads, writes, body) ==
    [kind |-> kind, redirs |-> redirs, reads |-> reads, writes |-> writes, body |-> body]
Filter(n) == Command("ext", << >>, TRUE, n, 0)      \* reads all, writes n units
Source(n) == Command("ext", << >>, FALSE, n, 0)     \* writes n units, reads nothing
Echo(n) == Command("builtin", << >>, FALSE, n, 0)
Bare(kind) == Command(kind, << >>, FALSE, 0, 0)
Sub(body) == Command("sub", << >>, FALSE, 0, body)
With(cmd, redirs) == [cmd EXCEPT !.redirs = redirs]

\* Redirections.
In(id) == [dir |-> "in", ok |-> TRUE, id |-> id]
Out(id) == [dir |-> "out", ok |-> TRUE, id |-> id]
NoIn == [dir |-> "in", ok |-> FALSE, id |-> 0]
NoOut == [dir |-> "out", ok |-> FALSE, id |-> 0]

\* Pipelines.
P(op, cmds) == [op |-> op, cmds |-> cmds]
One(op, cmd) == P(op, <<cmd>>)

Menu == {Source(2), Filter(1), With(Filter(0), <<In(1), Out(2), Out(3)>>),
         Echo(2), With(Echo(1), <<Out(1), NoIn>>), Bare("exit"), Bare("exitbad"),
         Bare("missing"), With(Bare("void"), <<NoOut>>), Bare("ambig")}
Subs == {Sub(2), With(Sub(2), <<Out(1)>>)}

\* The rest of the list, and the body of the subshells of the menu.
Rest == <<One("and", With(Echo(1), <<Out(4)>>))>>
Body == <<One("newline", Echo(1)), P("or", <<Bare("exit"), Bare("missing")>>)>>

MenuScripts ==
    {<< <<P("newline", cmds)>> \o Rest, Body >> :
        cmds \in (Menu \X Menu) \cup {<<a>> : a \in Menu \cup Subs}}
    \cup {<< <<P("newline", cmds)>>, Body >> :
        cmds \in (Subs \X Menu) \cup (Menu \X Subs)}

ChosenScripts == {
    \* a | b | c
    << <<P("newline", <<Source(1), Filter(2), Filter(0)>>)>> >>,
    \* a && b && c || d, and missing || ( a ) && b
    << <<One("newline", Source(0)), One("and", Source(0)), One("and", Bare("missing")),
         One("or", Echo(0))>> >>,
    << <<One("newline", Bare("missing")), One("or", Sub(2)), One("and", Source(0))>>,
       <<One("newline", Source(0))>> >>,
    \* a | b | missing && c
    << <<P("newline", <<Source(2), Filter(2), Bare("missing")>>),
         One("and", Source(0))>> >>,
    \* a > 1 | b | void, and a | void | b
    << <<P("newline", <<With(Source(1), <<Out(1)>>), Filter(2), Bare("void")>>)>> >>,
    << <<P("newline", <<Source(2), Bare("void"), Filter(1)>>)>> >>,
    \* ( echo && a | b ) | c
    << <<P("newline", <<Sub(2), Filter(0)>>)>>,
       <<One("newline", Echo(1)), P("and", <<Source(1), Filter(1)>>)>> >>,
    \* a | ( b || exit ) && exitbad
    << <<P("newline", <<Source(1), Sub(2)>>), One("and", Bare("exitbad"))>>,
       <<One("newline", Filter(0)), One("or", Bare("exit"))>> >>,
    \* ( ( a ) || echo < missing ) > 1 || ( ( a ) || echo < missing ) < missing
    << <<One("newline", With(Sub(2), <<Out(1)>>)), One("or", With(Sub(2), <<NoIn>>))>>,
       <<One("newline", Sub(3)), One("or", With(Echo(0), <<NoIn>>))>>,
       <<One("newline", Source(1))>> >>
    }

PassScripts == MenuScripts \cup ChosenScripts

\* big | a > $words ; the redirection of the last command is ambiguous
HangScripts == {<< <<P("newline", <<Source(2), Bare("ambig")>>)>> >>}

\* ( cd / ) | cat ; the subshell's only command is a builtin
LoneBuiltinScripts ==
    {<< <<P("newline", <<Sub(2), Filter(0)>>)>>, <<One("newline", Echo(1))>> >>}

\* ( a && b <newline> c )
NewlineScripts ==
    {<< <<One("newline", Sub(2))>>,
        <<One("newline", Source(0)), One("and", Source(0)), One("newline", Source(0))>> >>}
=============================================================================
