------------------------------- MODULE MCSession -------------------------------
(* Session with a few environments and commands.                               *)
EXTENDS Session

MCNames == {PWD, OLDPWD, HOME, PATH, SHLVL, "X"}
Root == << >>
A == << <<"a">> >>
AB == << <<"a">>, <<"b">> >>
MCDirectories == {Root, A, AB}
MCDefaultPath == <<"p">>

Set(name, value) == <<name, "=">> \o value
PathA == <<"/", "a">>

\* Nothing; a plain one; no PWD and a name that is no name; an empty PWD; a name
\* twice. PWD is wrong when the shell is started elsewhere.
MCInherited ==
    { << >>,
      <<Set(PWD, PathA), Set(HOME, <<"/", "a", "/", "b">>), Set(SHLVL, <<"9">>),
        Set(PATH, <<"q">>)>>,
      <<Set(HOME, <<"a">>), Set("1", <<"x">>), Set("X", << >>)>>,
      <<Set(PWD, << >>), Set(SHLVL, <<"2">>)>>,
      <<Set("X", <<"1">>), Set("X", <<"2">>)>> }

Exports ==
    { <<Set(PWD, <<"/", "b">>)>>, <<Set(PWD, <<"a">>)>>, <<Set(PWD, << >>)>>,
      << <<PWD>> >>, <<Set(HOME, <<"/", "a", "/", "b", "/", ".", ".">>)>>,
      << <<OLDPWD>>, Set("X", <<"1">>)>>, << <<"X">>, Set("1", << >>), <<HOME>> >>,
      <<Set(SHLVL, <<"7">>), Set("X", << >>)>> }

Unsets == { << <<PWD>> >>, << <<"X">>, <<HOME>> >>, << <<SHLVL>>, <<OLDPWD>> >> }

Cds ==
    { << >>, << << >> >>, << <<"-">> >>, << <<"a">> >>, << <<".", ".">> >>,
      << <<"/", "a", "/", "/", "b", "/">> >>, << <<"b", "/", ".", ".", "/", "b">> >>,
      << <<".">> >>, << <<"a", ".">> >>, << <<"a", "/", ".", ".", ".">> >>,
      << <<"a">>, <<"b">> >> }

MCCommands ==
    {[name |-> "export", args |-> a] : a \in Exports} \cup
    {[name |-> "unset", args |-> a] : a \in Unsets} \cup
    {[name |-> "cd", args |-> a] : a \in Cds}

Texts(chars, max) == UNION {[1..k -> chars] : k \in 0..max}

MCCdTexts == {<<"/">> \o t : t \in Texts({"/", ".", "a"}, 7)}
MCPathTexts == Texts({":", "p", "q"}, 4)
MCExitTexts == Texts({" ", "+", "-", "1", "x"}, 5)
================================================================================
