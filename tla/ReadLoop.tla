------------------------------- MODULE ReadLoop --------------------------------
(* The shell's main loop and SIGINT (main.c, input.c, signals/*.c,
   execute/wait_return_status.c): lines are read, the commands in them run, and an
   interrupt may come between any two steps. It goes to the shell, whose handler
   only records it in g_signal, and to every child; a child dies of it once it has
   set the default action again.

   What a read returns is a sequence of complete commands, more than one only when
   several lines are pasted at the prompt. A command is a list of pipelines of
       "program"   that ends when it likes,
       "endless"   a program that runs until a signal ends it,
       "builtin"   in the shell itself, or in a child when it is in a pipeline,
       "exit"      exit with a word that is no number, in the shell,
       "quit"      exit with a number, in the shell.
   A program does not change what SIGINT does to it. How pipelines are made, with
   forks and pipes that fail, is in Executor.                                  *)
EXTENDS ListOrder, SequencesExt

CONSTANTS
    Inputs,         \* what a read may return
    MaxReads,       \* bounds: the number of lines that are typed,
    MaxInterrupts   \* and of interrupts

Kinds == {"program", "endless", "builtin", "exit", "quit"}
SIGINT == 2

\* A complete command: whether the body of a here-document has to be read for it,
\* whether it is a syntax error, its connectors and its pipelines.
IsCommand(c) ==
    /\ DOMAIN c = {"here", "error", "ops", "pipelines"}
    /\ c.here \in BOOLEAN /\ c.error \in BOOLEAN
    /\ c.ops \in Seq(Connectors) /\ c.pipelines \in Seq(Seq(Kinds) \ {<< >>})
    /\ Len(c.ops) = Len(c.pipelines) /\ c.ops # << >>
    /\ \A i \in DOMAIN c.pipelines : Len(c.pipelines[i]) > 1 =>
          ToSet(c.pipelines[i]) \cap {"exit", "quit"} = {}

\* Lines that follow are taken for a body first: only the last command of a text
\* may have to read one.
ASSUME ReadLoopAssumption ==
    /\ \A t \in Inputs :
          /\ t \in Seq(ToSet(t))
          /\ \A k \in DOMAIN t : IsCommand(t[k]) /\ (t[k].here => k = Len(t))
    /\ MaxReads \in Nat /\ MaxInterrupts \in Nat

VARIABLES
    is_interactive, \* t_ctx.is_interactive
    pc,             \* where the shell is
    g_signal,
    return_status,
    should_exit,
    line,           \* what was read: [null, text]
    rest,           \* the commands of the text that have not been run
    pos,            \* execute_list: the pipeline of the first of them,
    next,           \* execute_pipeline: the next command of it,
    result,         \* and its result
    pid_to_wait,    \* the child whose status counts, 0 for none
    wait_result,    \* wait_return_status: its result
    children,       \* those not reaped, by their place in the pipeline:
                    \* [kind, handler, ended, status]
    reads,          \* counts lines
    interrupts,     \* counts interrupts
    fresh,          \* history: an interrupt came since the loop began its turn and
                    \* the last child was waited for
    dropped,        \* history: the last line was given up
    hit             \* history: an interrupt came while the shell waited, when every
                    \* endless program had the default action

io == <<line, reads>>
exec == <<pos, next, result, pid_to_wait, wait_result>>
vars == <<is_interactive, pc, g_signal, return_status, should_exit, line, rest,
          pos, next, result, pid_to_wait, wait_result, children, reads,
          interrupts, fresh, dropped, hit>>

NoLine == [null |-> TRUE, text |-> << >>]
NoChild == [k \in {} |-> << >>]

Init ==
    /\ is_interactive \in BOOLEAN
    /\ pc = "start"
    /\ g_signal = 0 /\ return_status = 0 /\ should_exit = FALSE
    /\ line = NoLine /\ rest = << >>
    /\ pos = 0 /\ next = 0 /\ result = 0
    /\ pid_to_wait = 0 /\ wait_result = 0
    /\ children = NoChild
    /\ reads = 0 /\ interrupts = 0
    /\ fresh = FALSE /\ dropped = FALSE /\ hit = FALSE

Go(to) == pc' = to

\* sig_setup_handler
SetupHandler ==
    /\ pc = "start"
    /\ Go("top")
    /\ UNCHANGED <<is_interactive, g_signal, return_status, should_exit, io, rest,
                   exec, children, interrupts, fresh, dropped, hit>>

-------------------------------------------------------------------------------
(* get_user_input, at the top of the loop and in a here-document                *)

\* readline or get_next_line returns, or there is no input to read from; g_signal is
\* not looked at yet. At most one command comes from a file at a time. An interrupt
\* makes readline return an empty line (sig_rl_event_hook).
ReadReturns ==
    /\ pc \in {"top", "body"}
    /\ \/ /\ reads < MaxReads
          /\ \E t \in Inputs :
                /\ is_interactive \/ Len(t) <= 1
                /\ line' = [null |-> FALSE, text |-> t]
          /\ reads' = reads + 1
       \/ g_signal = SIGINT /\ line' = [null |-> FALSE, text |-> << >>] /\ UNCHANGED reads
       \/ line' = NoLine /\ UNCHANGED reads
    /\ Go(IF pc = "top" THEN "returned" ELSE "body returned")
    /\ dropped' = FALSE
    /\ UNCHANGED <<is_interactive, g_signal, return_status, should_exit, rest, exec,
                   children, interrupts, fresh, hit>>

\* read_interactive gives a line up that an interrupt came with.
TakeLine ==
    /\ pc \in {"returned", "body returned"}
    /\ LET up == is_interactive /\ g_signal = SIGINT
       IN /\ line' = IF up THEN NoLine ELSE line
          /\ dropped' = (up /\ ~line.null)
    /\ Go(IF pc = "returned" THEN "got" ELSE "body got")
    /\ UNCHANGED <<is_interactive, g_signal, return_status, should_exit, rest, reads,
                   exec, children, interrupts, fresh, hit>>

\* A slip for Consume: the interrupt stays.
ConsumeNot ==
    /\ return_status' = 128 + SIGINT
    /\ UNCHANGED g_signal

\* sig_consume_sigint, when there is one
Consume ==
    /\ g_signal' = 0
    /\ return_status' = 128 + SIGINT

\* shell_loop: no line is the end of the input unless an interrupt is pending.
Got ==
    /\ pc = "got"
    /\ IF line.null /\ g_signal = SIGINT
       THEN Consume /\ Go("top") /\ fresh' = FALSE /\ UNCHANGED rest
       ELSE /\ Go(IF line.null THEN "end" ELSE "parse")
            /\ rest' = line.text
            /\ UNCHANGED <<g_signal, return_status, fresh>>
    /\ UNCHANGED <<is_interactive, should_exit, io, exec, children, interrupts,
                   dropped, hit>>

-------------------------------------------------------------------------------
(* parse_input                                                                  *)

Command == Head(rest)

StartList ==
    /\ pos' = 1 /\ next' = 1 /\ result' = 0
    /\ UNCHANGED <<pid_to_wait, wait_result>>

Parse ==
    /\ pc = "parse"
    /\ IF rest = << >> THEN Go("parsed") /\ UNCHANGED exec
       ELSE IF Command.here THEN Go("body") /\ UNCHANGED exec
       ELSE IF Command.error THEN Go("error") /\ UNCHANGED exec
       ELSE Go("run") /\ StartList
    /\ UNCHANGED <<is_interactive, g_signal, return_status, should_exit, io, rest,
                   children, interrupts, fresh, dropped, hit>>

\* A slip for BodyGot: the end of the input is looked for first.
BodyGotEndFirst ==
    /\ pc = "body got"
    /\ \/ ~line.null /\ Go("body") /\ UNCHANGED <<rest, exec>>
       \/ /\ IF Command.error THEN Go("error") /\ UNCHANGED exec
             ELSE Go("run") /\ StartList
          /\ rest' = IF is_interactive THEN rest \o line.text ELSE rest
    /\ UNCHANGED <<is_interactive, g_signal, return_status, should_exit, io, children,
                   interrupts, fresh, dropped, hit>>

\* read_here_line and the loop of get_here_doc: the body goes on, or the line is the
\* delimiter, with what was pasted after it; without a line the body is interrupted
\* or ends with the input.
BodyGot ==
    /\ pc = "body got"
    /\ \/ ~line.null /\ Go("body") /\ UNCHANGED <<rest, exec>>
       \/ line.null /\ g_signal = SIGINT /\ Go("interrupted") /\ UNCHANGED <<rest, exec>>
       \/ /\ ~line.null \/ g_signal # SIGINT
          /\ IF Command.error THEN Go("error") /\ UNCHANGED exec
             ELSE Go("run") /\ StartList
          /\ rest' = IF is_interactive THEN rest \o line.text ELSE rest
    /\ UNCHANGED <<is_interactive, g_signal, return_status, should_exit, io, children,
                   interrupts, fresh, dropped, hit>>

\* The end of a turn of shell_loop.
EndTurn ==
    /\ Go(IF should_exit THEN "end" ELSE "top")
    /\ rest' = << >>
    /\ line' = NoLine
    /\ fresh' = FALSE
    /\ UNCHANGED <<is_interactive, should_exit, reads, exec, children, interrupts,
                   dropped, hit>>

\* parse_input returns: sig_reset_sigint
Parsed ==
    /\ pc \in {"parsed", "error"}
    /\ return_status' = IF pc = "error" THEN 2 ELSE return_status
    /\ g_signal' = 0
    /\ EndTurn

\* parse_input returns with PARSE_INTERRUPTED
Interrupted ==
    /\ pc = "interrupted"
    /\ IF g_signal = SIGINT THEN Consume ELSE UNCHANGED <<g_signal, return_status>>
    /\ EndTurn

-------------------------------------------------------------------------------
(* execute_list, execute_pipeline: one command after another, each started or,
   when it is a builtin alone, run                                              *)

Pipeline == Command.pipelines[pos]
InPlace == Len(Pipeline) = 1 /\ Pipeline[1] \in {"builtin", "exit", "quit"}

\* A builtin without a pipeline: its status, and whether it asks the shell to end.
RunBuiltin ==
    /\ pc = "run" /\ next <= Len(Pipeline) /\ InPlace
    /\ CASE Pipeline[1] = "builtin" ->
              result' \in {0, 1} /\ Go("run") /\ UNCHANGED should_exit
         [] Pipeline[1] = "exit" -> result' = 2 /\ Go("run") /\ should_exit' = TRUE
         [] OTHER -> result' = 0 /\ Go("end") /\ UNCHANGED should_exit
    /\ next' = next + 1
    /\ return_status' = IF pc' = "end" THEN 0 ELSE return_status
    /\ UNCHANGED <<is_interactive, g_signal, io, rest, pos, pid_to_wait, wait_result,
                   children, interrupts, fresh, dropped, hit>>

\* should_exit ends the pipeline after the first of its commands.
Left == should_exit /\ next > 1

Fork ==
    /\ pc = "run" /\ next <= Len(Pipeline) /\ ~InPlace /\ ~Left
    /\ LET child == [kind |-> Pipeline[next], ended |-> FALSE, status |-> 0,
                     handler |-> IF is_interactive THEN "record" ELSE "default"]
       IN children' = [k \in DOMAIN children \cup {next} |->
                          IF k = next THEN child ELSE children[k]]
    /\ pid_to_wait' = next
    /\ next' = next + 1
    /\ result' = 0
    /\ UNCHANGED <<is_interactive, pc, g_signal, return_status, should_exit, io, rest,
                   pos, wait_result, interrupts, fresh, dropped, hit>>

\* The next pipeline of the list, or the next command of the text.
EndPipeline(status) ==
    LET after == GetNext(Command.ops, pos, status)
    IN /\ return_status' = status
       /\ IF should_exit \/ after > Len(Command.ops)
          THEN Go("parse") /\ rest' = Tail(rest) /\ UNCHANGED <<pos, next, result>>
          ELSE Go("run") /\ pos' = after /\ next' = 1 /\ result' = 0 /\ UNCHANGED rest

\* Nothing was forked and nobody leaves: there is nothing to wait for.
EndWithoutWait ==
    /\ pc = "run" /\ next > Len(Pipeline) /\ ~Left /\ pid_to_wait = 0
    /\ EndPipeline(result)
    /\ UNCHANGED <<is_interactive, g_signal, should_exit, io, pid_to_wait, wait_result,
                   children, interrupts, fresh, dropped, hit>>

StartWait ==
    /\ pc = "run"
    /\ Left \/ (next > Len(Pipeline) /\ pid_to_wait # 0)
    /\ Go("wait")
    /\ wait_result' = 1
    /\ UNCHANGED <<is_interactive, g_signal, return_status, should_exit, io, rest, pos,
                   next, result, pid_to_wait, children, interrupts, fresh, dropped, hit>>

\* waitpid(-1) returns a child that has ended; interrupted, it is called again.
Reap ==
    /\ pc = "wait"
    /\ \E k \in DOMAIN children :
          /\ children[k].ended
          /\ children' = [j \in DOMAIN children \ {k} |-> children[j]]
          /\ wait_result' = IF k = pid_to_wait THEN children[k].status ELSE wait_result
    /\ UNCHANGED <<is_interactive, pc, g_signal, return_status, should_exit, io, rest,
                   pos, next, result, pid_to_wait, interrupts, fresh, dropped, hit>>

\* A slip for EndWait: an interrupted waitpid is not called again.
EndWaitInterrupted ==
    /\ pc = "wait" /\ (children = NoChild \/ g_signal = SIGINT)
    /\ pid_to_wait' = 0
    /\ g_signal' = 0
    /\ EndPipeline(IF should_exit \/ result # 0 THEN result ELSE wait_result)
    /\ fresh' = FALSE /\ hit' = FALSE
    /\ UNCHANGED <<is_interactive, should_exit, io, wait_result, children,
                   interrupts, dropped>>

\* A slip for EndWait: g_signal is left as it is.
EndWaitKeeping ==
    /\ pc = "wait" /\ children = NoChild
    /\ pid_to_wait' = 0
    /\ EndPipeline(IF should_exit \/ result # 0 THEN result ELSE wait_result)
    /\ fresh' = FALSE /\ hit' = FALSE
    /\ UNCHANGED <<is_interactive, g_signal, should_exit, io, wait_result, children,
                   interrupts, dropped>>

EndWait ==
    /\ pc = "wait" /\ children = NoChild
    /\ pid_to_wait' = 0
    /\ g_signal' = 0
    /\ EndPipeline(IF should_exit \/ result # 0 THEN result ELSE wait_result)
    /\ fresh' = FALSE /\ hit' = FALSE
    /\ UNCHANGED <<is_interactive, should_exit, io, wait_result, children,
                   interrupts, dropped>>

Shell ==
    \/ SetupHandler
    \/ ReadReturns \/ TakeLine \/ Got
    \/ Parse \/ BodyGot \/ Parsed \/ Interrupted
    \/ RunBuiltin \/ Fork \/ EndWithoutWait \/ StartWait \/ Reap \/ EndWait

-------------------------------------------------------------------------------
(* Children and interrupts                                                      *)

unchangedByChildren ==
    <<is_interactive, pc, g_signal, return_status, should_exit, io, rest, exec,
      reads, interrupts, fresh, dropped, hit>>

\* sig_set_default, the first thing the child of a program does; that of a builtin
\* never does.
SetDefault(k) ==
    /\ children[k].kind \in {"program", "endless"}
    /\ children[k].handler = "record" /\ ~children[k].ended
    /\ children' = [children EXCEPT ![k].handler = "default"]

\* A program may end once it has been started.
ChildEnds(k) ==
    /\ children[k].kind # "endless" /\ ~children[k].ended
    /\ children[k].kind = "program" => children[k].handler = "default"
    /\ \E s \in {0, 1} :
          children' = [children EXCEPT ![k].ended = TRUE, ![k].status = s]

Child ==
    /\ pc # "killed"
    /\ \E k \in DOMAIN children : SetDefault(k) \/ ChildEnds(k)
    /\ UNCHANGED unchangedByChildren

Struck(child) ==
    IF child.handler = "default" /\ ~child.ended
    THEN [child EXCEPT !.ended = TRUE, !.status = 128 + SIGINT] ELSE child

\* Every process of the terminal gets the signal: sig_record_sigint, or the end.
Sigint ==
    /\ interrupts < MaxInterrupts
    /\ pc \notin {"end", "killed"}
    /\ interrupts' = interrupts + 1
    /\ children' = [k \in DOMAIN children |-> Struck(children[k])]
    /\ IF is_interactive /\ pc # "start"
       THEN /\ g_signal' = SIGINT /\ fresh' = TRUE
            /\ hit' = (pc = "wait" /\ \A k \in DOMAIN children :
                          children[k].kind = "endless" => children[k].handler = "default")
            /\ UNCHANGED pc
       ELSE Go("killed") /\ UNCHANGED <<g_signal, fresh, hit>>
    /\ UNCHANGED <<is_interactive, return_status, should_exit, io, rest, exec, dropped>>

Next == Shell \/ Child \/ Sigint

\* The kernel runs the shell and its children; who sits at the terminal types or
\* closes it. Nobody has to interrupt anything.
Spec == Init /\ [][Next]_vars /\ WF_vars(Shell) /\ WF_vars(Child)

-------------------------------------------------------------------------------

Places == {"start", "top", "returned", "got", "parse", "body", "body returned",
           "body got", "interrupted", "error", "parsed", "run", "wait", "end",
           "killed"}
Statuses == {0, 1, 2, 128 + SIGINT}

TypeOK ==
    /\ is_interactive \in BOOLEAN /\ pc \in Places
    /\ g_signal \in {0, SIGINT} /\ return_status \in Statuses
    /\ should_exit \in BOOLEAN
    /\ line.null \in BOOLEAN /\ line.text \in Inputs \cup {<< >>}
    /\ pc \in {"run", "wait"} => rest # << >> /\ pos \in DOMAIN Command.ops
    /\ result \in Statuses /\ wait_result \in Statuses
    /\ pid_to_wait = 0 => children = NoChild
    /\ \A k \in DOMAIN children :
          /\ children[k].kind \in Kinds
          /\ children[k].handler \in {"record", "default"}
    /\ reads \in 0..MaxReads /\ interrupts \in 0..MaxInterrupts

\* A line that is given up because of an interrupt is neither run nor taken for the
\* end of the input, also when it is a line of a here-document, whose command is
\* then given up with it, and the status the shell shows next is 130.
DroppedForGood ==
    dropped => /\ pc \in {"got", "body got", "interrupted", "top", "end", "killed"}
               /\ pc \in {"top", "end"} => return_status = 128 + SIGINT

\* An interrupt that ended, or was meant to end, a program never costs a line that
\* is typed afterwards: one is given up only when an interrupt came since the
\* shell began its turn and since it last waited for programs.
DropsAreFresh == [][dropped' /\ ~dropped => fresh]_vars

Running(kind) == {k \in DOMAIN children : children[k].kind = kind /\ ~children[k].ended}

\* The shell comes to its end with its input or with exit, whatever interrupts come
\* when, unless a program runs for ever and no interrupt came once it was waited for
\* and had the default action again: one that comes between fork and
\* sig_set_default, or between two forks, does not end it.
ComesToAnEnd ==
    <>[](pc \in {"end", "killed"} \/ (pc = "wait" /\ ~hit /\ Running("endless") # {}))
================================================================================
