------------------------------- MODULE Executor -------------------------------
(* Execution of a parsed command list: execute_list, execute_pipeline,
   execute_simple_command and everything below them (srcs/execute,
   srcs/builtin/execute_builtin*.c), together with the processes they fork and
   the kernel objects they share (pipes, process table).

   A script is a sequence of lists; list 1 is the one the parser hands over, the
   others are the bodies of subshells.  A list is a sequence of pipelines
   [op, cmds]; a command is [kind, redirs, reads, writes, body].

   kind     "ext"      a program found by path search or named with a slash
            "builtin"  echo, cd, pwd, export, unset, env (and exit refusing its
                       arguments); what it computes is not modelled here
            "exit"     exit, leaving the shell at once
            "exitbad"  exit with a non-numeric argument: asks the shell to stop
            "missing"  no such command, or an empty command name
            "void"     redirections only
            "ambig"    a redirection expands to several words or to none
            "sub"      ( list )
   redirs   what process_redirection walks: [dir, ok, id], dir "in" or "out"
   reads    the program reads its standard input to the end before it writes
   writes   how many units it then writes to its standard output             *)
EXTENDS ListOrder

CONSTANTS
    Scripts,    \* the scripts to run
    MaxProcs,   \* how many processes a script may need; process 1 is the shell
    MaxPipes,   \* how many pipes it may need
    PipeCap,    \* how many units a pipe holds before a writer blocks
    Faults      \* which system calls may fail: a subset of {"fork", "pipe"}

Procs == 1 .. MaxProcs
Pipes == 1 .. MaxPipes
Shell == 1

Kinds == {"ext", "builtin", "exit", "exitbad", "missing", "void", "ambig", "sub"}
Redirs == [dir : {"in", "out"}, ok : BOOLEAN, id : Nat]
Commands == [kind : Kinds, redirs : Seq(Redirs), reads : BOOLEAN,
             writes : Nat, body : Nat]
Pipelines == [op : Connectors, cmds : Seq(Commands)]

ASSUME SizesAssumption ==
    /\ MaxProcs \in Nat \ {0}
    /\ MaxPipes \in Nat
    /\ PipeCap \in Nat \ {0}

\* The connectors of a list.
Ops(l) == [i \in 1 .. Len(l) |-> l[i].op]

(* What the parser can build: no empty list or pipeline, bodies that exist, and no
   newline inside the list it hands over.                                     *)
ASSUME ScriptsAssumption ==
    \A s \in Scripts :
        /\ s \in Seq(Seq(Pipelines))
        /\ s # << >>
        /\ OneLine(Ops(s[1]))
        /\ \A l \in 1 .. Len(s) :
            /\ s[l] # << >>
            /\ \A i \in 1 .. Len(s[l]) :
                /\ s[l][i].cmds # << >>
                /\ \A k \in 1 .. Len(s[l][i].cmds) :
                    s[l][i].cmds[k].kind = "sub" =>
                        s[l][i].cmds[k].body \in 1 .. Len(s)

(* Open file descriptions.  <<"none", 0>> is the value -1 of an fd field.     *)
None == <<"none", 0>>
Tty == <<"tty", 0>>
ReadEnd(k) == <<"r", k>>
WriteEnd(k) == <<"w", k>>
File(id) == <<"file", id>>
Descs == {"none", "tty", "r", "w", "file"} \X Nat

\* A pair of descriptors, for input and for output.
Sides == {"in", "out"}
Closed == [d \in Sides |-> None]
FdTable == [std : [Sides -> Descs],    \* file descriptors 0 and 1
            saved : [Sides -> Descs],  \* execute's saved[2], while a builtin runs
            io : [Sides -> Descs],     \* c->io_fd
            pipe : Descs]              \* c->pipe_fd[0]; [1] is -1 between calls
NoFds == [std |-> Closed, saved |-> Closed, io |-> Closed, pipe |-> None]

VARIABLES
    script,     \* the script being run, chosen once
    life,       \* life[p]: "free", "live", "zombie" or "reaped"
    pc,         \* pc[p]: what process p does next
    pos,        \* pos[p]: list, pipeline, command and redirection p is at
    fd,         \* fd[p]: the descriptors p holds
    sh,         \* sh[p]: the fields of t_ctx that are copied by fork
    work,       \* work[p]: what the program or builtin in p has still to do
    job,        \* job[p]: the process that forked p, and for which command
    code,       \* code[p]: the exit status p ended with
    fill,       \* fill[k]: the units in pipe k
    plug,       \* plug[k]: who made pipe k, for the output of which command
    spilled     \* history: a last command returned with io_fd still open

vars == <<script, life, pc, pos, fd, sh, work, job, code, fill, plug, spilled>>

Live == {p \in Procs : life[p] = "live"}
Children(p) == {q \in Procs : job[q].parent = p /\ life[q] \in {"live", "zombie"}}
Zombies(p) == {q \in Children(p) : life[q] = "zombie"}
Held(p) == {fd[p].std[d] : d \in Sides} \cup {fd[p].saved[d] : d \in Sides}
           \cup {fd[p].io[d] : d \in Sides} \cup {fd[p].pipe}
Readers(k) == {p \in Live : ReadEnd(k) \in Held(p)}
Writers(k) == {p \in Live : WriteEnd(k) \in Held(p)}

Statuses == {0, 1}
SigPipe == 128 + 13
ExitStatuses == {0, 1, 2, 127, SigPipe}

List(p) == script[pos[p].list]
Cmds(p) == List(p)[pos[p].pl].cmds
Cmd(p) == Cmds(p)[pos[p].cm]
Piped(p) == pos[p].cm < Len(Cmds(p))
Start(l) == [list |-> l, pl |-> 1, cm |-> 1, rd |-> 1]

Init ==
    /\ script \in Scripts
    /\ life = [p \in Procs |-> IF p = Shell THEN "live" ELSE "free"]
    /\ pc = [p \in Procs |-> IF p = Shell THEN "command" ELSE "off"]
    /\ pos = [p \in Procs |-> Start(1)]
    /\ fd = [p \in Procs |-> IF p = Shell
                THEN [NoFds EXCEPT !.std = [d \in Sides |-> Tty]] ELSE NoFds]
    /\ sh = [p \in Procs |-> [isPipe |-> FALSE, pid |-> 0, result |-> 0,
                              waited |-> 1, status |-> 0, shouldExit |-> FALSE]]
    /\ work = [p \in Procs |-> [reads |-> FALSE, left |-> 0]]
    /\ job = [p \in Procs |-> [parent |-> 0, pl |-> 0, cm |-> 0]]
    /\ code = [p \in Procs |-> 0]
    /\ fill = [k \in Pipes |-> 0]
    /\ plug = [k \in Pipes |-> [by |-> 0, pl |-> 0, cm |-> 0]]
    /\ spilled = FALSE

(* exit(s): the kernel closes every descriptor and keeps the status for the
   parent.  Nobody in the model waits for the shell itself.                   *)
Exit(p, s) ==
    /\ life' = [life EXCEPT ![p] = "zombie"]
    /\ pc' = [pc EXCEPT ![p] = "off"]
    /\ fd' = [fd EXCEPT ![p] = NoFds]
    /\ code' = [code EXCEPT ![p] = s]

(* execute_simple_command returns r.  When the command was the last of its
   pipeline nothing below closes io_fd any more.                              *)
Return(p, r, io) ==
    /\ pc' = [pc EXCEPT ![p] = "after"]
    /\ fd' = [fd EXCEPT ![p].io = io]
    /\ sh' = [sh EXCEPT ![p].result = r]
    /\ spilled' = (spilled \/ (~Piped(p) /\ io # Closed))

-------------------------------------------------------------------------------
(* Setting a command up                                                        *)

\* pipe_and_execute_simple_command, for every command but the last.
MakePipe(p, k) ==
    /\ pc[p] = "command" /\ Piped(p)
    /\ plug[k].by = 0 /\ \A j \in 1 .. k-1 : plug[j].by # 0
    /\ plug' = [plug EXCEPT ![k] = [by |-> p, pl |-> pos[p].pl, cm |-> pos[p].cm]]
    /\ fd' = [fd EXCEPT ![p].io["out"] = WriteEnd(k), ![p].pipe = ReadEnd(k)]
    /\ sh' = [sh EXCEPT ![p].isPipe = TRUE]
    /\ pc' = [pc EXCEPT ![p] = "simple"]
    /\ UNCHANGED <<script, life, pos, work, job, code, fill, spilled>>

\* handle_pipe_error: every descriptor is closed, then the shell waits and exits.
PipeFails(p) ==
    /\ "pipe" \in Faults
    /\ pc[p] = "command" /\ Piped(p)
    /\ fd' = [fd EXCEPT ![p].io = Closed, ![p].pipe = None]
    /\ sh' = [sh EXCEPT ![p].isPipe = TRUE]
    /\ pc' = [pc EXCEPT ![p] = "failing"]
    /\ UNCHANGED <<script, life, pos, work, job, code, fill, plug, spilled>>

ExitAfterPipeError(p) ==
    /\ pc[p] = "failing"
    /\ sh[p].pid = 0 \/ Children(p) = {}
    /\ Exit(p, 1)
    /\ UNCHANGED <<script, pos, sh, work, job, fill, plug, spilled>>

\* p is about to call execute_simple_command.
Ready(p) == pc[p] = "simple" \/ (pc[p] = "command" /\ ~Piped(p))

Builtins == {"builtin", "exit", "exitbad"}

\* A slip for Forks: the last command of a pipeline is run by the shell itself.
ForksUnlessLast(p) ==
    \/ Cmd(p).kind \in {"ext", "sub"}
    \/ Piped(p) /\ Cmd(p).kind \in Builtins \cup {"void"}

\* Commands that run in a child.
Forks(p) ==
    \/ Cmd(p).kind \in {"ext", "sub"}
    \/ sh[p].isPipe /\ Cmd(p).kind \in Builtins \cup {"void"}

\* fork(): the child is a copy of the shell, the shell remembers its pid.
Fork(p, q) ==
    /\ Ready(p) /\ Forks(p)
    /\ life[q] = "free" /\ \A r \in 1 .. q-1 : life[r] # "free"
    /\ life' = [life EXCEPT ![q] = "live"]
    /\ pc' = [pc EXCEPT ![p] = "forked", ![q] = "setup"]
    /\ pos' = [pos EXCEPT ![q] = pos[p]]
    /\ fd' = [fd EXCEPT ![q] = fd[p]]
    /\ sh' = [sh EXCEPT ![q] = sh[p], ![p].pid = q]
    /\ job' = [job EXCEPT ![q] = [parent |-> p, pl |-> pos[p].pl, cm |-> pos[p].cm]]
    /\ UNCHANGED <<script, work, code, fill, plug, spilled>>

\* The parent's close_io after fork.
CloseIo(p) ==
    /\ pc[p] = "forked"
    /\ Return(p, 0, Closed)
    /\ UNCHANGED <<script, life, pos, work, job, code, fill, plug>>

\* fork() failed: an error message and an early return, without close_io.
ForkFails(p) ==
    /\ "fork" \in Faults
    /\ Ready(p) /\ Forks(p)
    /\ Return(p, 1, fd[p].io)
    /\ UNCHANGED <<script, life, pos, work, job, code, fill, plug>>

\* build_command failed (ambiguous redirect): an early return, without close_io.
ExpansionFails(p) ==
    /\ Ready(p) /\ Cmd(p).kind = "ambig"
    /\ Return(p, 1, fd[p].io)
    /\ UNCHANGED <<script, life, pos, work, job, code, fill, plug>>

\* The command is dealt with by the shell itself.
StartInPlace(p) ==
    /\ Ready(p) /\ ~Forks(p) /\ Cmd(p).kind # "ambig"
    /\ pc' = [pc EXCEPT ![p] = "redir"]
    /\ UNCHANGED <<script, life, pos, fd, sh, work, job, code, fill, plug, spilled>>

-------------------------------------------------------------------------------
(* process_redirection, in the shell ("redir") or in a forked child ("setup")  *)

Redir(p) == Cmd(p).redirs[pos[p].rd]
Redirecting(p) == pc[p] \in {"redir", "setup"} /\ pos[p].rd <= Len(Cmd(p).redirs)
Redirected(p) == pos[p].rd > Len(Cmd(p).redirs)

\* A slip for Redirect: a side that is already redirected is left as it is.
RedirectUnlessSet(p) ==
    /\ Redirecting(p) /\ Redir(p).ok
    /\ fd' = [fd EXCEPT ![p].io[Redir(p).dir] =
                 IF @ = None THEN File(Redir(p).id) ELSE @]
    /\ pos' = [pos EXCEPT ![p].rd = @ + 1]
    /\ UNCHANGED <<script, life, pc, sh, work, job, code, fill, plug, spilled>>

\* The previous file of that side is closed, the next one opened.
Redirect(p) ==
    /\ Redirecting(p) /\ Redir(p).ok
    /\ fd' = [fd EXCEPT ![p].io[Redir(p).dir] = File(Redir(p).id)]
    /\ pos' = [pos EXCEPT ![p].rd = @ + 1]
    /\ UNCHANGED <<script, life, pc, sh, work, job, code, fill, plug, spilled>>

\* A file cannot be opened.  The child exits.
RedirectFailsInChild(p) ==
    /\ pc[p] = "setup" /\ Redirecting(p) /\ ~Redir(p).ok
    /\ Exit(p, 1)
    /\ UNCHANGED <<script, pos, sh, work, job, fill, plug, spilled>>

\* The shell gives the command up; only execute_builtin does so without close_io.
RedirectFailsInPlace(p) ==
    /\ pc[p] = "redir" /\ Redirecting(p) /\ ~Redir(p).ok
    /\ Return(p, 1, IF Cmd(p).kind \in Builtins
                    THEN [fd[p].io EXCEPT ![Redir(p).dir] = None] ELSE Closed)
    /\ UNCHANGED <<script, life, pos, work, job, code, fill, plug>>

\* dup2 of io_fd over descriptors 0 and 1, where a side is redirected.
Dup2Result(p) ==
    [d \in Sides |-> IF fd[p].io[d] # None THEN fd[p].io[d] ELSE fd[p].std[d]]

\* A slip for StartProgram: the child keeps the read end of its own output pipe.
StartProgramWithPipe(p) ==
    /\ pc[p] = "setup" /\ Redirected(p) /\ Cmd(p).kind # "sub"
    /\ fd' = [fd EXCEPT ![p] = [NoFds EXCEPT !.std = Dup2Result(p), !.pipe = fd[p].pipe]]
    /\ pc' = [pc EXCEPT ![p] = "program"]
    /\ work' = [work EXCEPT ![p] = [reads |-> Cmd(p).kind = "ext" /\ Cmd(p).reads,
                                    left |-> Cmd(p).writes]]
    /\ UNCHANGED <<script, life, pos, sh, job, code, fill, plug, spilled>>

\* The child becomes the program, or runs the builtin it was forked for.
StartProgram(p) ==
    /\ pc[p] = "setup" /\ Redirected(p) /\ Cmd(p).kind # "sub"
    /\ fd' = [fd EXCEPT ![p] = [NoFds EXCEPT !.std = Dup2Result(p)]]
    /\ pc' = [pc EXCEPT ![p] = "program"]
    /\ work' = [work EXCEPT ![p] = [reads |-> Cmd(p).kind = "ext" /\ Cmd(p).reads,
                                    left |-> Cmd(p).writes]]
    /\ UNCHANGED <<script, life, pos, sh, job, code, fill, plug, spilled>>

\* run_subshell: the child runs a list of its own; is_pipe keeps its value.
StartSubshell(p) ==
    /\ pc[p] = "setup" /\ Redirected(p) /\ Cmd(p).kind = "sub"
    /\ fd' = [fd EXCEPT ![p] = [NoFds EXCEPT !.std = Dup2Result(p)]]
    /\ pos' = [pos EXCEPT ![p] = Start(Cmd(p).body)]
    /\ sh' = [sh EXCEPT ![p].pid = 0, ![p].result = 0]
    /\ pc' = [pc EXCEPT ![p] = "command"]
    /\ UNCHANGED <<script, life, work, job, code, fill, plug, spilled>>

\* execute in execute_builtin.c: save descriptors 0 and 1, redirect, run.
StartBuiltin(p) ==
    /\ pc[p] = "redir" /\ Redirected(p) /\ Cmd(p).kind \in Builtins
    /\ fd' = [fd EXCEPT ![p] =
         [NoFds EXCEPT !.std = Dup2Result(p), !.pipe = fd[p].pipe,
            !.saved = [d \in Sides |->
                IF fd[p].io[d] # None THEN fd[p].std[d] ELSE None]]]
    /\ pc' = [pc EXCEPT ![p] = "builtin"]
    /\ work' = [work EXCEPT ![p] = [reads |-> FALSE, left |-> Cmd(p).writes]]
    /\ UNCHANGED <<script, life, pos, sh, job, code, fill, plug, spilled>>

\* A missing command, or redirections only: nothing is left to run.
NothingToRun(p) ==
    /\ pc[p] = "redir" /\ Redirected(p) /\ Cmd(p).kind \in {"missing", "void"}
    /\ Return(p, IF Cmd(p).kind = "missing" THEN 127 ELSE 0, Closed)
    /\ UNCHANGED <<script, life, pos, work, job, code, fill, plug>>

-------------------------------------------------------------------------------
(* Programs and builtins at work                                               *)

Running(p) == pc[p] \in {"program", "builtin"}

\* read() from a pipe that holds something.
Read(p, k) ==
    /\ Running(p) /\ work[p].reads
    /\ fd[p].std["in"] = ReadEnd(k) /\ fill[k] > 0
    /\ fill' = [fill EXCEPT ![k] = @ - 1]
    /\ UNCHANGED <<script, life, pc, pos, fd, sh, work, job, code, plug, spilled>>

\* read() returns 0: a pipe that is empty and has no writer, or any file.
EndOfInput(p) ==
    /\ Running(p) /\ work[p].reads
    /\ \A k \in Pipes : fd[p].std["in"] = ReadEnd(k) => fill[k] = 0 /\ Writers(k) = {}
    /\ work' = [work EXCEPT ![p].reads = FALSE]
    /\ UNCHANGED <<script, life, pc, pos, fd, sh, job, code, fill, plug, spilled>>

\* write() to a pipe with room and a reader.
Write(p, k) ==
    /\ Running(p) /\ ~work[p].reads /\ work[p].left > 0
    /\ fd[p].std["out"] = WriteEnd(k) /\ fill[k] < PipeCap /\ Readers(k) # {}
    /\ fill' = [fill EXCEPT ![k] = @ + 1]
    /\ work' = [work EXCEPT ![p].left = @ - 1]
    /\ UNCHANGED <<script, life, pc, pos, fd, sh, job, code, plug, spilled>>

\* write() to a pipe nobody can read any more: SIGPIPE ends the process.
BrokenPipe(p, k) ==
    /\ Running(p) /\ ~work[p].reads /\ work[p].left > 0
    /\ fd[p].std["out"] = WriteEnd(k) /\ Readers(k) = {}
    /\ Exit(p, SigPipe)
    /\ UNCHANGED <<script, pos, sh, work, job, fill, plug, spilled>>

\* write() to a file or a terminal.
WriteFile(p) ==
    /\ Running(p) /\ ~work[p].reads /\ work[p].left > 0
    /\ \A k \in Pipes : fd[p].std["out"] # WriteEnd(k)
    /\ work' = [work EXCEPT ![p].left = 0]
    /\ UNCHANGED <<script, life, pc, pos, fd, sh, job, code, fill, plug, spilled>>

WorkDone(p) == Running(p) /\ ~work[p].reads /\ work[p].left = 0

\* The status a finished command may have.
Outcomes(kind) == CASE kind = "exitbad" -> {2}
                    [] kind = "void" -> {0}
                    [] OTHER -> Statuses

ProgramExits(p, s) ==
    /\ pc[p] = "program" /\ WorkDone(p) /\ s \in Outcomes(Cmd(p).kind)
    /\ Exit(p, s)
    /\ UNCHANGED <<script, pos, sh, work, job, fill, plug, spilled>>

\* exit as a builtin of this very shell.
ExitBuiltin(p, s) ==
    /\ pc[p] = "builtin" /\ WorkDone(p) /\ Cmd(p).kind = "exit" /\ s \in Statuses
    /\ Exit(p, s)
    /\ UNCHANGED <<script, pos, sh, work, job, fill, plug, spilled>>

\* reset_to_saved_fd and close_io.
Restored(p) ==
    [d \in Sides |-> IF fd[p].saved[d] # None THEN fd[p].saved[d] ELSE fd[p].std[d]]

BuiltinEnds(p, s) ==
    /\ pc[p] = "builtin" /\ WorkDone(p) /\ Cmd(p).kind \in {"builtin", "exitbad"}
    /\ s \in Outcomes(Cmd(p).kind)
    /\ fd' = [fd EXCEPT ![p].std = Restored(p), ![p].saved = Closed, ![p].io = Closed]
    /\ sh' = [sh EXCEPT ![p].result = s,
                           ![p].shouldExit = sh[p].shouldExit \/ Cmd(p).kind = "exitbad"]
    /\ pc' = [pc EXCEPT ![p] = "after"]
    /\ UNCHANGED <<script, life, pos, work, job, code, fill, plug, spilled>>

-------------------------------------------------------------------------------
(* After a command                                                             *)

\* A slip for NextCommand: pipe_fd[0] is not forgotten.
NextCommandKeepsPipe(p) ==
    /\ pc[p] = "after" /\ Piped(p)
    /\ fd' = [fd EXCEPT ![p].io = [Closed EXCEPT !["in"] = fd[p].pipe]]
    /\ pos' = [pos EXCEPT ![p].cm = @ + 1, ![p].rd = 1]
    /\ pc' = [pc EXCEPT ![p] = "command"]
    /\ UNCHANGED <<script, life, sh, work, job, code, fill, plug, spilled>>

\* Inside a pipeline: the read end becomes the input of the next command.
NextCommand(p) ==
    /\ pc[p] = "after" /\ Piped(p)
    /\ fd' = [fd EXCEPT ![p].io = [Closed EXCEPT !["in"] = fd[p].pipe],
                        ![p].pipe = None]
    /\ pos' = [pos EXCEPT ![p].cm = @ + 1, ![p].rd = 1]
    /\ pc' = [pc EXCEPT ![p] = "command"]
    /\ UNCHANGED <<script, life, sh, work, job, code, fill, plug, spilled>>

\* The last command is under way: wait_return_status is called.
StartWait(p) ==
    /\ pc[p] = "after" /\ ~Piped(p)
    /\ sh[p].shouldExit \/ sh[p].pid # 0
    /\ sh' = [sh EXCEPT ![p].waited = 1,
                        ![p].isPipe = (sh[p].shouldExit /\ sh[p].isPipe)]
    /\ pc' = [pc EXCEPT ![p] = "wait"]
    /\ UNCHANGED <<script, life, pos, fd, work, job, code, fill, plug, spilled>>

\* A slip for Reap: the word waitpid stores is taken for the status itself.
ReapRawStatus(p, z) ==
    /\ pc[p] = "wait" \/ (pc[p] = "failing" /\ sh[p].pid # 0)
    /\ z \in Zombies(p)
    /\ life' = [life EXCEPT ![z] = "reaped"]
    /\ sh' = [sh EXCEPT ![p].waited = IF z = sh[p].pid THEN 256 * code[z] ELSE @]
    /\ UNCHANGED <<script, pc, pos, fd, work, job, code, fill, plug, spilled>>

\* A slip for Reap: the status of whichever child ends last is kept.
ReapAnyStatus(p, z) ==
    /\ pc[p] = "wait" \/ (pc[p] = "failing" /\ sh[p].pid # 0)
    /\ z \in Zombies(p)
    /\ life' = [life EXCEPT ![z] = "reaped"]
    /\ sh' = [sh EXCEPT ![p].waited = code[z]]
    /\ UNCHANGED <<script, pc, pos, fd, work, job, code, fill, plug, spilled>>

\* waitpid(-1): one child that has ended, in any order.
Reap(p, z) ==
    /\ pc[p] = "wait" \/ (pc[p] = "failing" /\ sh[p].pid # 0)
    /\ z \in Zombies(p)
    /\ life' = [life EXCEPT ![z] = "reaped"]
    /\ sh' = [sh EXCEPT ![p].waited = IF z = sh[p].pid THEN code[z] ELSE @]
    /\ UNCHANGED <<script, pc, pos, fd, work, job, code, fill, plug, spilled>>

(* execute_pipeline has returned s; execute_list stores it and moves on, to the
   next pipeline or out of the list.                                          *)
EndPipeline(p, s) ==
    LET len == Len(List(p))
        nxt == IF sh[p].shouldExit THEN len + 1
               ELSE GetNext(Ops(List(p)), pos[p].pl, s)
    IN /\ sh' = [sh EXCEPT ![p].status = s, ![p].result = 0, ![p].pid = 0,
                           ![p].isPipe = @ /\ sh[p].shouldExit]
       /\ pos' = [pos EXCEPT ![p].pl = nxt, ![p].cm = 1, ![p].rd = 1]
       /\ pc' = [pc EXCEPT ![p] = IF nxt <= len THEN "command" ELSE "listdone"]
       /\ UNCHANGED <<script, life, fd, work, job, code, fill, plug, spilled>>

\* A slip for EndWithoutWait: a last command that fails ends the pipeline at once.
EndOnError(p) ==
    /\ pc[p] = "after" /\ ~Piped(p)
    /\ ~sh[p].shouldExit /\ (sh[p].pid = 0 \/ sh[p].result # 0)
    /\ EndPipeline(p, sh[p].result)

\* No process was forked for this pipeline.
EndWithoutWait(p) ==
    /\ pc[p] = "after" /\ ~Piped(p)
    /\ ~sh[p].shouldExit /\ sh[p].pid = 0
    /\ EndPipeline(p, sh[p].result)

\* waitpid fails with ECHILD.
EndWait(p) ==
    /\ pc[p] = "wait" /\ Children(p) = {}
    /\ EndPipeline(p, IF sh[p].result = 0 /\ ~sh[p].shouldExit
                      THEN sh[p].waited ELSE sh[p].result)

\* run_subshell after execute_list.
LeaveSubshell(p) ==
    /\ pc[p] = "listdone" /\ p # Shell
    /\ Exit(p, sh[p].status)
    /\ UNCHANGED <<script, pos, sh, work, job, fill, plug, spilled>>

-------------------------------------------------------------------------------
Prepare(p) ==
    \/ \E k \in Pipes : MakePipe(p, k)
    \/ PipeFails(p) \/ ExitAfterPipeError(p)
    \/ \E q \in Procs : Fork(p, q)
    \/ CloseIo(p) \/ ForkFails(p) \/ ExpansionFails(p) \/ StartInPlace(p)
    \/ Redirect(p) \/ RedirectFailsInChild(p) \/ RedirectFailsInPlace(p)
    \/ StartProgram(p) \/ StartSubshell(p) \/ StartBuiltin(p) \/ NothingToRun(p)

Work(p) ==
    \/ \E k \in Pipes : Read(p, k) \/ Write(p, k) \/ BrokenPipe(p, k)
    \/ EndOfInput(p) \/ WriteFile(p)
    \/ \E s \in Statuses \cup {2} :
        ProgramExits(p, s) \/ ExitBuiltin(p, s) \/ BuiltinEnds(p, s)

Collect(p) ==
    \/ NextCommand(p) \/ StartWait(p)
    \/ \E z \in Procs : Reap(p, z)
    \/ EndWithoutWait(p) \/ EndWait(p) \/ LeaveSubshell(p)

Step(p) == life[p] = "live" /\ (Prepare(p) \/ Work(p) \/ Collect(p))

\* The shell has run the whole script, or has exited.
Finished == pc[Shell] = "listdone" \/ life[Shell] # "live"

Next == \E p \in Procs : Step(p)

(* Every process that can run is eventually scheduled; a process that is blocked
   in read, write or waitpid is not asked to.                                 *)
Spec == Init /\ [][Next]_vars
LiveSpec == Spec /\ \A p \in Procs : WF_vars(Step(p))

-------------------------------------------------------------------------------
(* Properties                                                                  *)

Lives == {"free", "live", "zombie", "reaped"}
Labels == {"off", "command", "simple", "forked", "failing", "setup", "redir",
           "program", "builtin", "after", "wait", "listdone"}
Position == [list : Nat, pl : Nat, cm : Nat, rd : Nat]
ShellState == [isPipe : BOOLEAN, pid : {0} \cup Procs, result : ExitStatuses,
               waited : ExitStatuses, status : ExitStatuses, shouldExit : BOOLEAN]
WorkLeft == [reads : BOOLEAN, left : Nat]
Job == [parent : {0} \cup Procs, pl : Nat, cm : Nat]
Plug == [by : {0} \cup Procs, pl : Nat, cm : Nat]

\* Every variable stays in its domain.
TypeOK ==
    /\ script \in Scripts
    /\ life \in [Procs -> Lives]
    /\ pc \in [Procs -> Labels]
    /\ pos \in [Procs -> Position]
    /\ fd \in [Procs -> FdTable]
    /\ sh \in [Procs -> ShellState]
    /\ work \in [Procs -> WorkLeft]
    /\ job \in [Procs -> Job]
    /\ code \in [Procs -> ExitStatuses]
    /\ fill \in [Pipes -> 0 .. PipeCap]
    /\ plug \in [Pipes -> Plug]
    /\ spilled \in BOOLEAN

\* Process p, if it is at a command, is at one that exists.
Place(p) ==
    /\ pos[p].list \in 1 .. Len(script)
    /\ pos[p].rd # 0
    /\ pc[p] \notin {"off", "listdone"} =>
        /\ pos[p].pl \in 1 .. Len(List(p))
        /\ pos[p].cm \in 1 .. Len(Cmds(p))

Positions == \A p \in Procs : Place(p)

(* A shell whose pid_to_wait is unset has no child left, ended or not, and no
   process ends while it has one: whatever path a pipeline takes through the
   early returns, all its processes are collected before the next one starts.  *)
NoStrayChildren ==
    \A p \in Procs :
        (life[p] # "live" \/ sh[p].pid = 0) => Children(p) = {}

(* A builtin acts on the shell itself only when its pipeline is that one command
   (notes/journal.md: each command of a multi-command pipeline has a process of
   its own), in particular also as the last command of a pipeline.             *)
BuiltinsInPipelinesForked ==
    \A p \in Procs : pc[p] = "builtin" => Len(Cmds(p)) = 1

\* The command a process was forked for.
JobList(q) == script[pos[job[q].parent].list]
JobCmds(q) == JobList(q)[job[q].pl].cmds
JobCmd(q) == JobCmds(q)[job[q].cm]

\* The last redirection of command c on side d; 0 if there is none.
LastRedir(c, d) ==
    LET on == {i \in 1 .. Len(c.redirs) : c.redirs[i].dir = d}
    IN IF on = {} THEN 0 ELSE Max(on)

\* The pipe that takes the output of command cm of pipeline pl of shell p.
PipeAfter(p, pl, cm) == CHOOSE k \in Pipes : plug[k] = [by |-> p, pl |-> pl, cm |-> cm]

\* Where descriptor d of a command belongs, by the shell language.
Wanted(q, d) ==
    LET p == job[q].parent
        r == LastRedir(JobCmd(q), d)
    IN IF r # 0 THEN File(JobCmd(q).redirs[r].id)
       ELSE IF d = "in" /\ job[q].cm > 1
            THEN ReadEnd(PipeAfter(p, job[q].pl, job[q].cm - 1))
       ELSE IF d = "out" /\ job[q].cm < Len(JobCmds(q))
            THEN WriteEnd(PipeAfter(p, job[q].pl, job[q].cm))
       ELSE Restored(p)[d]

(* Standard input and output of every program, subshell and builtin are the last
   redirection of that side, else the pipe to its neighbour, else what its shell
   has, as long as no command has left io_fd behind.                           *)
Plumbing ==
    ~spilled =>
        /\ \A q \in Live \ {Shell} : pc[q] # "setup" =>
            \A d \in Sides : Restored(q)[d] = Wanted(q, d)
        /\ \A p \in Live : pc[p] = "builtin" =>
            \A d \in Sides :
                LET r == LastRedir(Cmd(p), d)
                IN fd[p].std[d] = IF r # 0 THEN File(Cmd(p).redirs[r].id)
                                  ELSE Restored(p)[d]

(* A shell that blocks in waitpid holds no pipe end but as its own standard input
   or output: one it held would keep a reader from its end of file or a writer
   from its SIGPIPE, and both shell and child would wait for ever.             *)
WaitsWithPipesClosed ==
    ~spilled =>
        \A p \in Procs : pc[p] \in {"wait", "failing"} =>
            fd[p].io = Closed /\ fd[p].pipe = None

\* p finishes its pipeline in this step.
Ends(p) == pc[p] \in {"after", "wait"} /\ pos'[p].pl # pos[p].pl

\* The process of the last command of p's pipeline, if it has one.
LastJob(p) ==
    {q \in Procs : job[q] = [parent |-> p, pl |-> pos[p].pl, cm |-> Len(Cmds(p))]}

(* The status of a pipeline is that of its last command: the exit status of its
   process when it has one, whatever the others return and in whatever order they
   are reaped, else the result the shell computed for it.                      *)
PipelineStatus ==
    [][\A p \in Procs : Ends(p) =>
        IF LastJob(p) = {} THEN sh'[p].status = sh[p].result
        ELSE \E q \in LastJob(p) : life[q] = "reaped" /\ sh'[p].status = code[q]]_vars

(* Which pipeline runs next, in the shell and in every subshell, is the one whose
   connector agrees with the status just computed.                             *)
ListOrderKept ==
    [][\A p \in Procs : Ends(p) /\ ~sh[p].shouldExit =>
        pos'[p].pl = NextRun(Ops(List(p)), pos[p].pl, sh'[p].status)]_vars

\* The shell's list is run as AndOrList promises.
Promise == INSTANCE AndOrList WITH
    Lists <- {Ops(s[1]) : s \in Scripts},
    Statuses <- ExitStatuses,
    ops <- Ops(script[1]),
    pos <- pos[Shell].pl,
    status <- sh[Shell].status,
    leaving <- sh[Shell].shouldExit

ListPromise == Promise!Spec

(* Every script comes to its end: no shell waits for a child that waits for the
   shell, every reader gets its end of file, every child is reaped; unless some
   command has left io_fd behind.                                              *)
Terminates == <>(Finished \/ spilled)

\* The same with nothing excused: what a user expects of every command line.
TerminatesAlways == <>Finished

(* A builtin that is a pipeline by itself runs in its own shell, where cd, export
   and exit take effect, and is not forked.                                    *)
LoneBuiltinsInPlace ==
    \A q \in Procs : job[q].parent # 0 /\ JobCmd(q).kind \in Builtins =>
        Len(JobCmds(q)) > 1
=============================================================================
