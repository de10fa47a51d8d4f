------------------------------ MODULE MCReadLoop -------------------------------
(* ReadLoop with a few texts.                                                  *)
EXTENDS ReadLoop

Simple(ops, pipelines) ==
    [here |-> FALSE, error |-> FALSE, ops |-> ops, pipelines |-> pipelines]
One(pipeline) == Simple(<<"newline">>, <<pipeline>>)
WithBody(c) == [c EXCEPT !.here = TRUE]
Error == [One(<<"program">>) EXCEPT !.error = TRUE]

\* An empty line; a program for ever in a pipeline, with a builtin, and with
\* something to run when it fails; here-documents; exit; a builtin, pasted before
\* a here-document, exit before more, a command before a syntax error.
MCInputs ==
    { << >>,
      << One(<<"endless", "program">>) >>,
      << One(<<"builtin", "endless">>) >>,
      << Simple(<<"newline", "or", "and">>,
                <<<<"endless">>, <<"builtin">>, <<"quit">>>>) >>,
      << WithBody(One(<<"program">>)) >>,
      << WithBody(Error) >>,
      << Simple(<<"newline", "or">>, <<<<"exit">>, <<"program">>>>) >>,
      << One(<<"builtin">>), WithBody(One(<<"program">>)) >>,
      << One(<<"program">>), WithBody(One(<<"builtin">>)) >>,
      << One(<<"exit">>), One(<<"program", "endless">>) >>,
      << One(<<"program">>), Error >> }
================================================================================
