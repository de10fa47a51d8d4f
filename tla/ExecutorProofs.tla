---------------------------- MODULE ExecutorProofs ----------------------------
(* Safety of the executor for every set of scripts, every number of processes and
   pipes, every pipe capacity and every choice of failing system calls: the
   processes of a pipeline and their descriptors first, then the list of the shell
   against AndOrList.

   Pipelines come last.  Their status is that of their last command, and the next
   pipeline is the one that agrees with it: what wait_return_status knows of
   pid_to_wait, and in which order processes are forked and reaped.  Standard input
   and output of every command are what the shell language says, until some command
   leaves io_fd behind (pipe_and_execute_simple_command, process_redirection, dup2
   in the child and execute in execute_builtin.c).                             *)
EXTENDS Executor, ListOrderProofs

\* What the assumption on scripts says of one command.
LEMMA ScriptTypes ==
    ASSUME NEW s \in Scripts, NEW l \in 1 .. Len(s)
    PROVE  /\ Len(s) \in Nat
           /\ s[l] \in Seq(Pipelines) /\ Len(s[l]) \in Nat \ {0}
           /\ \A i \in 1 .. Len(s[l]) :
                /\ s[l][i].op \in Connectors
                /\ s[l][i].cmds \in Seq(Commands) /\ Len(s[l][i].cmds) \in Nat \ {0}
                /\ \A k \in 1 .. Len(s[l][i].cmds) :
                    /\ s[l][i].cmds[k] \in Commands
                    /\ s[l][i].cmds[k].kind = "sub" =>
                        s[l][i].cmds[k].body \in 1 .. Len(s)
<1>1. s \in Seq(Seq(Pipelines)) /\ s[l] # << >>
    BY ScriptsAssumption
<1>2. s[l] \in Seq(Pipelines) /\ Len(s) \in Nat /\ Len(s[l]) \in Nat \ {0}
    BY <1>1
<1>3. ASSUME NEW i \in 1 .. Len(s[l])
      PROVE  /\ s[l][i].op \in Connectors
             /\ s[l][i].cmds \in Seq(Commands) /\ Len(s[l][i].cmds) \in Nat \ {0}
    <2>1. s[l][i] \in Pipelines
        BY <1>2
    <2>2. s[l][i].cmds # << >>
        BY ScriptsAssumption
    <2>3. QED
        BY <2>1, <2>2 DEF Pipelines
<1>4. \A i \in 1 .. Len(s[l]) : \A k \in 1 .. Len(s[l][i].cmds) :
        s[l][i].cmds[k] \in Commands
    BY <1>3
<1>5. \A i \in 1 .. Len(s[l]) : \A k \in 1 .. Len(s[l][i].cmds) :
        s[l][i].cmds[k].kind = "sub" => s[l][i].cmds[k].body \in 1 .. Len(s)
    BY ScriptsAssumption
<1>6. QED
    BY <1>2, <1>3, <1>4, <1>5

\* The command a process is at.
LEMMA CmdTypes ==
    ASSUME TypeOK, Positions, NEW p \in Procs, pc[p] \notin {"off", "listdone"}
    PROVE  /\ List(p) \in Seq(Pipelines) /\ Len(List(p)) \in Nat \ {0}
           /\ pos[p].pl \in 1 .. Len(List(p))
           /\ Cmds(p) \in Seq(Commands) /\ Len(Cmds(p)) \in Nat \ {0}
           /\ pos[p].cm \in 1 .. Len(Cmds(p))
           /\ Cmd(p) \in Commands
           /\ Cmd(p).kind = "sub" => Cmd(p).body \in 1 .. Len(script)
           /\ Cmd(p).redirs \in Seq(Redirs)
           /\ \A r \in 1 .. Len(Cmd(p).redirs) :
                Cmd(p).redirs[r].dir \in Sides /\ Cmd(p).redirs[r].id \in Nat
<1>1. /\ script \in Scripts /\ pos[p].list \in 1 .. Len(script)
      /\ pos[p].pl \in 1 .. Len(List(p)) /\ pos[p].cm \in 1 .. Len(Cmds(p))
    BY DEF TypeOK, Positions, Place
<1>2. /\ List(p) \in Seq(Pipelines) /\ Len(List(p)) \in Nat \ {0}
      /\ Cmds(p) \in Seq(Commands) /\ Len(Cmds(p)) \in Nat \ {0}
      /\ Cmd(p) \in Commands
      /\ Cmd(p).kind = "sub" => Cmd(p).body \in 1 .. Len(script)
    BY <1>1, ScriptTypes DEF List, Cmds, Cmd
<1>3. /\ Cmd(p).redirs \in Seq(Redirs)
      /\ \A r \in 1 .. Len(Cmd(p).redirs) :
            Cmd(p).redirs[r].dir \in Sides /\ Cmd(p).redirs[r].id \in Nat
    <2>1. Cmd(p).redirs \in Seq(Redirs)
        BY <1>2 DEF Commands
    <2>2. \A r \in 1 .. Len(Cmd(p).redirs) : Cmd(p).redirs[r] \in Redirs
        BY <2>1
    <2>3. QED
        BY <2>1, <2>2 DEF Redirs, Sides
<1>4. QED
    BY <1>1, <1>2, <1>3

\* The descriptors the model names, and the fd tables built from them.
LEMMA DescTypes ==
    /\ None \in Descs /\ Tty \in Descs /\ Closed \in [Sides -> Descs]
    /\ \A k \in Nat : ReadEnd(k) \in Descs /\ WriteEnd(k) \in Descs /\ File(k) \in Descs
BY DEF None, Tty, Closed, ReadEnd, WriteEnd, File, Descs

\* The tables NoFds is turned into.
LEMMA FdTypes ==
    /\ NoFds \in FdTable
    /\ \A std, saved \in [Sides -> Descs], x \in Descs :
        /\ [NoFds EXCEPT !.std = std] \in FdTable
        /\ [NoFds EXCEPT !.std = std, !.pipe = x, !.saved = saved] \in FdTable
BY DescTypes DEF FdTable, NoFds

\* A context stays one when a field gets another value of its domain.
LEMMA ShellTypes ==
    ASSUME NEW s \in ShellState
    PROVE  /\ \A x \in BOOLEAN : [s EXCEPT !.isPipe = x] \in ShellState
           /\ \A x \in BOOLEAN : [s EXCEPT !.shouldExit = x] \in ShellState
           /\ \A x \in {0} \cup Procs : [s EXCEPT !.pid = x] \in ShellState
           /\ \A x \in ExitStatuses : [s EXCEPT !.result = x] \in ShellState
           /\ \A x \in ExitStatuses : [s EXCEPT !.waited = x] \in ShellState
           /\ \A x \in ExitStatuses : [s EXCEPT !.status = x] \in ShellState
BY DEF ShellState

\* The same for a position.
LEMMA PosTypes ==
    ASSUME NEW x \in Position, NEW n \in Nat
    PROVE  /\ [x EXCEPT !.pl = n] \in Position
           /\ [x EXCEPT !.cm = n] \in Position
           /\ [x EXCEPT !.rd = n] \in Position
BY DEF Position

\* The same for a table of descriptors.
LEMMA FdFields ==
    ASSUME NEW f \in FdTable
    PROVE  /\ \A x \in [Sides -> Descs] : [f EXCEPT !.io = x] \in FdTable
           /\ \A x \in Descs : [f EXCEPT !.pipe = x] \in FdTable
BY DEF FdTable

\* Exit and Return keep their variables in their domains.
LEMMA ExitTyped ==
    ASSUME TypeOK, NEW p \in Procs, NEW s \in ExitStatuses, Exit(p, s),
           UNCHANGED <<script, pos, sh, work, job, fill, plug, spilled>>
    PROVE  TypeOK'
<1>1. fd' \in [Procs -> FdTable]
    BY FdTypes DEF TypeOK, Exit
<1>2. /\ life' \in [Procs -> Lives] /\ pc' \in [Procs -> Labels]
      /\ code' \in [Procs -> ExitStatuses]
    BY DEF TypeOK, Exit, Lives, Labels
<1>3. QED
    BY <1>1, <1>2 DEF TypeOK

\* A command that returns keeps every variable in its domain.
LEMMA ReturnTyped ==
    ASSUME TypeOK, NEW p \in Procs, NEW r \in ExitStatuses,
           NEW io \in [Sides -> Descs], Return(p, r, io),
           UNCHANGED <<script, life, pos, work, job, code, fill, plug>>
    PROVE  TypeOK'
<1>1. fd' \in [Procs -> FdTable]
    <2>1. fd \in [Procs -> FdTable]
        BY DEF TypeOK
    <2>2. QED
        BY <2>1 DEF Return, FdTable
<1>2. sh' \in [Procs -> ShellState]
    <2>1. sh \in [Procs -> ShellState]
        BY DEF TypeOK
    <2>2. QED
        BY <2>1 DEF Return, ShellState
<1>3. spilled' \in BOOLEAN /\ pc' \in [Procs -> Labels]
    BY DEF TypeOK, Return, Labels
<1>4. QED
    BY <1>1, <1>2, <1>3 DEF TypeOK

\* The initial state.
LEMMA InitTyped == Init => TypeOK /\ Positions
<1> SUFFICES ASSUME Init PROVE TypeOK /\ Positions
    OBVIOUS
<1>1. TypeOK
    <2>1. fd \in [Procs -> FdTable]
        <3> DEFINE terminal == [d \in Sides |-> Tty]
        <3>1. terminal \in [Sides -> Descs]
            BY DescTypes
        <3> HIDE DEF terminal
        <3>2. [NoFds EXCEPT !.std = terminal] \in FdTable
            BY <3>1, FdTypes, DescTypes
        <3>3. fd = [p \in Procs |-> IF p = Shell THEN [NoFds EXCEPT !.std = terminal]
                                    ELSE NoFds]
            BY DEF Init, terminal
        <3>4. QED
            BY <3>2, <3>3, FdTypes
    <2>2. fill \in [Pipes -> 0 .. PipeCap] /\ plug \in [Pipes -> Plug]
        BY SizesAssumption DEF Init, Plug
    <2>3. sh \in [Procs -> ShellState] /\ code \in [Procs -> ExitStatuses]
        BY DEF Init, ShellState, ExitStatuses
    <2>4. pos \in [Procs -> Position]
        BY DEF Init, Start, Position
    <2>5. /\ work \in [Procs -> WorkLeft] /\ job \in [Procs -> Job]
          /\ life \in [Procs -> Lives] /\ pc \in [Procs -> Labels]
        BY DEF Init, WorkLeft, Job, Lives, Labels
    <2>6. script \in Scripts /\ spilled \in BOOLEAN
        BY DEF Init
    <2>7. QED
        BY <2>1, <2>2, <2>3, <2>4, <2>5, <2>6 DEF TypeOK
<1>2. Positions
    <2>1. script \in Scripts /\ Len(script) \in Nat /\ 1 \in 1 .. Len(script)
        BY ScriptsAssumption DEF Init
    <2>2. Len(script[1]) \in Nat \ {0}
        BY <2>1, ScriptTypes
    <2>3. 1 \in 1 .. Len(script[1])
        BY <2>2
    <2>4. Len(script[1][1].cmds) \in Nat \ {0}
        BY <2>1, <2>3, ScriptTypes
    <2>5. \A p \in Procs : pos[p] = Start(1)
        BY DEF Init
    <2>6. QED
        BY <2>1, <2>2, <2>4, <2>5 DEF Positions, Place, Start, List, Cmds
<1>3. QED
    BY <1>1, <1>2

\* Every step of a process up to the start of its command.
LEMMA PrepareTyped ==
    ASSUME TypeOK, Positions, NEW p \in Procs, Prepare(p)
    PROVE  TypeOK'
<1>a. fd \in [Procs -> FdTable] /\ fd[p].io \in [Sides -> Descs]
    BY DEF TypeOK, FdTable
<1>b. sh \in [Procs -> ShellState]
    BY DEF TypeOK
<1>c. pos \in [Procs -> Position]
    BY DEF TypeOK
<1>d. 0 \in ExitStatuses /\ 1 \in ExitStatuses /\ 127 \in ExitStatuses
    BY DEF ExitStatuses
<1>1. ASSUME NEW k \in Pipes, MakePipe(p, k) PROVE TypeOK'
    <2>1. fd' \in [Procs -> FdTable]
        <3>1. WriteEnd(k) \in Descs /\ ReadEnd(k) \in Descs /\ "out" \in Sides
            BY SizesAssumption, DescTypes DEF Pipes, Sides
        <3>2. fd' = [fd EXCEPT ![p].io["out"] = WriteEnd(k), ![p].pipe = ReadEnd(k)]
            BY <1>1 DEF MakePipe
        <3>3. QED
            BY <1>a, <3>1, <3>2 DEF FdTable
    <2>2. sh' \in [Procs -> ShellState]
        BY <1>b, <1>1 DEF MakePipe, ShellState
    <2>3. plug' \in [Pipes -> Plug] /\ pc' \in [Procs -> Labels]
        <3>1. pos[p].pl \in Nat /\ pos[p].cm \in Nat
            BY <1>c DEF Position
        <3>2. QED
            BY <1>1, <3>1 DEF MakePipe, TypeOK, Plug, Labels
    <2>4. UNCHANGED <<script, life, pos, work, job, code, fill, spilled>>
        BY <1>1 DEF MakePipe
    <2>5. QED
        BY <2>1, <2>2, <2>3, <2>4 DEF TypeOK
<1>2. ASSUME PipeFails(p) PROVE TypeOK'
    <2>1. fd' \in [Procs -> FdTable]
        <3>1. fd' = [fd EXCEPT ![p].io = Closed, ![p].pipe = None]
            BY <1>2 DEF PipeFails
        <3>2. QED
            BY <1>a, <3>1, DescTypes DEF FdTable
    <2>2. sh' \in [Procs -> ShellState]
        BY <1>b, <1>2 DEF PipeFails, ShellState
    <2>3. pc' \in [Procs -> Labels]
        BY <1>2 DEF PipeFails, TypeOK, Labels
    <2>4. UNCHANGED <<script, life, pos, work, job, code, fill, plug, spilled>>
        BY <1>2 DEF PipeFails
    <2>5. QED
        BY <2>1, <2>2, <2>3, <2>4 DEF TypeOK
<1>3. ASSUME ExitAfterPipeError(p) PROVE TypeOK'
    BY <1>d, <1>3, ExitTyped DEF ExitAfterPipeError
<1>4. ASSUME NEW q \in Procs, Fork(p, q) PROVE TypeOK'
    <2>1. sh' \in [Procs -> ShellState]
        <3>1. sh' = [sh EXCEPT ![q] = sh[p], ![p].pid = q]
            BY <1>4 DEF Fork
        <3>2. QED
            BY <1>b, <3>1 DEF ShellState
    <2>2. fd' \in [Procs -> FdTable] /\ pos' \in [Procs -> Position]
        BY <1>a, <1>c, <1>4 DEF Fork
    <2>3. job' \in [Procs -> Job]
        <3>1. pos[p].pl \in Nat /\ pos[p].cm \in Nat
            BY <1>c DEF Position
        <3>2. QED
            BY <1>4, <3>1 DEF Fork, TypeOK, Job
    <2>4. pc' \in [Procs -> Labels] /\ life' \in [Procs -> Lives]
        BY <1>4 DEF Fork, TypeOK, Labels, Lives
    <2>5. UNCHANGED <<script, work, code, fill, plug, spilled>>
        BY <1>4 DEF Fork
    <2>6. QED
        BY <2>1, <2>2, <2>3, <2>4, <2>5 DEF TypeOK
<1>5. ASSUME CloseIo(p) PROVE TypeOK'
    BY <1>d, <1>5, ReturnTyped, DescTypes DEF CloseIo
<1>6. ASSUME ForkFails(p) \/ ExpansionFails(p) PROVE TypeOK'
    BY <1>a, <1>d, <1>6, ReturnTyped DEF ForkFails, ExpansionFails
<1>7. ASSUME StartInPlace(p) PROVE TypeOK'
    BY <1>7 DEF StartInPlace, TypeOK, Labels
<1>8. ASSUME Redirect(p) PROVE TypeOK'
    <2>1. pc[p] \notin {"off", "listdone"} /\ pos[p].rd \in 1 .. Len(Cmd(p).redirs)
        <3>1. pos[p].rd \in Nat \ {0}
            BY <1>c DEF Position, Positions, Place
        <3>2. pc[p] \notin {"off", "listdone"} /\ pos[p].rd <= Len(Cmd(p).redirs)
            BY <1>8 DEF Redirect, Redirecting
        <3>3. Len(Cmd(p).redirs) \in Nat
            BY <3>2, CmdTypes
        <3>4. QED
            BY <3>1, <3>2, <3>3
    <2>2. Redir(p).dir \in Sides /\ File(Redir(p).id) \in Descs
        BY <2>1, CmdTypes, DescTypes DEF Redir
    <2>3. fd' \in [Procs -> FdTable]
        <3>1. fd' = [fd EXCEPT ![p].io[Redir(p).dir] = File(Redir(p).id)]
            BY <1>8 DEF Redirect
        <3>2. QED
            BY <1>a, <2>2, <3>1 DEF FdTable
    <2>4. pos' \in [Procs -> Position]
        <3>1. pos' = [pos EXCEPT ![p].rd = @ + 1]
            BY <1>8 DEF Redirect
        <3>2. QED
            BY <1>c, <3>1 DEF Position
    <2>5. UNCHANGED <<script, life, pc, sh, work, job, code, fill, plug, spilled>>
        BY <1>8 DEF Redirect
    <2>6. QED
        BY <2>3, <2>4, <2>5 DEF TypeOK
<1>9. ASSUME RedirectFailsInChild(p) PROVE TypeOK'
    BY <1>d, <1>9, ExitTyped DEF RedirectFailsInChild
<1>10. ASSUME RedirectFailsInPlace(p) PROVE TypeOK'
    <2> DEFINE io == IF Cmd(p).kind \in Builtins
                     THEN [fd[p].io EXCEPT ![Redir(p).dir] = None] ELSE Closed
    <2>1. io \in [Sides -> Descs]
        BY <1>a, DescTypes
    <2>2. Return(p, 1, io)
        BY <1>10 DEF RedirectFailsInPlace
    <2> HIDE DEF io
    <2>3. QED
        BY <1>d, <1>10, <2>1, <2>2, ReturnTyped DEF RedirectFailsInPlace
<1>11. Dup2Result(p) \in [Sides -> Descs]
    BY <1>a DEF Dup2Result, FdTable
<1>12. ASSUME StartProgram(p) PROVE TypeOK'
    <2>1. fd' \in [Procs -> FdTable]
        <3>1. [NoFds EXCEPT !.std = Dup2Result(p)] \in FdTable
            BY <1>11, FdTypes, DescTypes
        <3>2. QED
            BY <1>a, <1>12, <3>1 DEF StartProgram
    <2>2. work' \in [Procs -> WorkLeft]
        <3>1. Cmd(p).reads \in BOOLEAN /\ Cmd(p).writes \in Nat
            BY <1>12, CmdTypes DEF StartProgram, Commands
        <3>2. QED
            BY <1>12, <3>1 DEF StartProgram, TypeOK, WorkLeft
    <2>3. pc' \in [Procs -> Labels]
        BY <1>12 DEF StartProgram, TypeOK, Labels
    <2>4. UNCHANGED <<script, life, pos, sh, job, code, fill, plug, spilled>>
        BY <1>12 DEF StartProgram
    <2>5. QED
        BY <2>1, <2>2, <2>3, <2>4 DEF TypeOK
<1>13. ASSUME StartSubshell(p) PROVE TypeOK'
    <2>1. fd' \in [Procs -> FdTable]
        <3>1. [NoFds EXCEPT !.std = Dup2Result(p)] \in FdTable
            BY <1>11, FdTypes, DescTypes
        <3>2. QED
            BY <1>a, <1>13, <3>1 DEF StartSubshell
    <2>2. pos' \in [Procs -> Position]
        <3>1. Start(Cmd(p).body) \in Position
            BY <1>13, CmdTypes DEF StartSubshell, Commands, Start, Position
        <3>2. QED
            BY <1>c, <1>13, <3>1 DEF StartSubshell
    <2>3. sh' \in [Procs -> ShellState]
        <3>1. sh' = [sh EXCEPT ![p].pid = 0, ![p].result = 0]
            BY <1>13 DEF StartSubshell
        <3> DEFINE t == [sh[p] EXCEPT !.pid = 0]
        <3>a. t \in ShellState
            BY <1>b, ShellTypes
        <3>2. [sh[p] EXCEPT !.pid = 0, !.result = 0] \in ShellState
            <4>1. [t EXCEPT !.result = 0] \in ShellState
                BY <1>d, <3>a, ShellTypes
            <4>2. QED
                BY <4>1
        <3>3. sh' = [sh EXCEPT ![p] = [sh[p] EXCEPT !.pid = 0, !.result = 0]]
            BY <1>b, <3>1
        <3>4. QED
            BY <1>b, <3>2, <3>3
    <2>4. pc' \in [Procs -> Labels]
        BY <1>13 DEF StartSubshell, TypeOK, Labels
    <2>5. UNCHANGED <<script, life, work, job, code, fill, plug, spilled>>
        BY <1>13 DEF StartSubshell
    <2>6. QED
        BY <2>1, <2>2, <2>3, <2>4, <2>5 DEF TypeOK
<1>14. ASSUME StartBuiltin(p) PROVE TypeOK'
    <2>1. fd' \in [Procs -> FdTable]
        <3> DEFINE saved == [d \in Sides |->
                IF fd[p].io[d] # None THEN fd[p].std[d] ELSE None]
        <3>1. fd[p].pipe \in Descs /\ saved \in [Sides -> Descs]
            BY <1>a, DescTypes DEF FdTable
        <3> HIDE DEF saved
        <3>2. [NoFds EXCEPT !.std = Dup2Result(p), !.pipe = fd[p].pipe, !.saved = saved]
                \in FdTable
            BY <1>11, <3>1, FdTypes
        <3>3. fd' = [fd EXCEPT ![p] =
                [NoFds EXCEPT !.std = Dup2Result(p), !.pipe = fd[p].pipe, !.saved = saved]]
            BY <1>14 DEF StartBuiltin, saved
        <3>4. QED
            BY <1>a, <3>2, <3>3
    <2>2. work' \in [Procs -> WorkLeft]
        <3>1. Cmd(p).writes \in Nat
            BY <1>14, CmdTypes DEF StartBuiltin, Commands
        <3>2. QED
            BY <1>14, <3>1 DEF StartBuiltin, TypeOK, WorkLeft
    <2>3. pc' \in [Procs -> Labels]
        BY <1>14 DEF StartBuiltin, TypeOK, Labels
    <2>4. UNCHANGED <<script, life, pos, sh, job, code, fill, plug, spilled>>
        BY <1>14 DEF StartBuiltin
    <2>5. QED
        BY <2>1, <2>2, <2>3, <2>4 DEF TypeOK
<1>15. ASSUME NothingToRun(p) PROVE TypeOK'
    BY <1>d, <1>15, ReturnTyped, DescTypes DEF NothingToRun
<1>16. QED
    BY <1>1, <1>2, <1>3, <1>4, <1>5, <1>6, <1>7, <1>8, <1>9, <1>10, <1>12,
       <1>13, <1>14, <1>15 DEF Prepare

\* Every step of a program or a builtin at work.
LEMMA WorkTyped ==
    ASSUME TypeOK, Positions, NEW p \in Procs, Work(p)
    PROVE  TypeOK'
<1>a. fd \in [Procs -> FdTable] /\ work \in [Procs -> WorkLeft] /\ sh \in [Procs -> ShellState]
    BY DEF TypeOK
<1>b. SigPipe \in ExitStatuses /\ Statuses \cup {2} \subseteq ExitStatuses
    BY DEF ExitStatuses, Statuses, SigPipe
<1>1. ASSUME NEW k \in Pipes, Read(p, k) PROVE TypeOK'
    <2>1. fill' = [fill EXCEPT ![k] = @ - 1] /\ fill[k] > 0
        BY <1>1 DEF Read
    <2>2. fill' \in [Pipes -> 0 .. PipeCap]
        BY <2>1, SizesAssumption DEF TypeOK
    <2>3. UNCHANGED <<script, life, pc, pos, fd, sh, work, job, code, plug, spilled>>
        BY <1>1 DEF Read
    <2>4. QED
        BY <2>2, <2>3 DEF TypeOK
<1>2. ASSUME NEW k \in Pipes, Write(p, k) PROVE TypeOK'
    <2>1. /\ fill' = [fill EXCEPT ![k] = @ + 1] /\ fill[k] < PipeCap
          /\ work' = [work EXCEPT ![p].left = @ - 1] /\ work[p].left > 0
        BY <1>2 DEF Write
    <2>2. fill' \in [Pipes -> 0 .. PipeCap]
        BY <2>1, SizesAssumption DEF TypeOK
    <2>3. work' \in [Procs -> WorkLeft]
        BY <1>a, <2>1 DEF WorkLeft
    <2>4. UNCHANGED <<script, life, pc, pos, fd, sh, job, code, plug, spilled>>
        BY <1>2 DEF Write
    <2>5. QED
        BY <2>2, <2>3, <2>4 DEF TypeOK
<1>3. ASSUME NEW k \in Pipes, BrokenPipe(p, k) PROVE TypeOK'
    BY <1>b, <1>3, ExitTyped DEF BrokenPipe
<1>4. ASSUME EndOfInput(p) \/ WriteFile(p) PROVE TypeOK'
    <2>2. work' \in [Procs -> WorkLeft]
        <3>1. CASE EndOfInput(p)
            BY <1>a, <3>1 DEF EndOfInput, WorkLeft
        <3>2. CASE WriteFile(p)
            BY <1>a, <3>2 DEF WriteFile, WorkLeft
        <3>3. QED
            BY <1>4, <3>1, <3>2
    <2>3. UNCHANGED <<script, life, pc, pos, fd, sh, job, code, fill, plug, spilled>>
        BY <1>4 DEF EndOfInput, WriteFile
    <2>4. QED
        BY <2>2, <2>3 DEF TypeOK
<1>5. ASSUME NEW s \in Statuses \cup {2}, ProgramExits(p, s) \/ ExitBuiltin(p, s)
      PROVE  TypeOK'
    BY <1>b, <1>5, ExitTyped DEF ProgramExits, ExitBuiltin
<1>6. ASSUME NEW s \in Statuses \cup {2}, BuiltinEnds(p, s) PROVE TypeOK'
    <2>1. fd' \in [Procs -> FdTable]
        <3>1. Restored(p) \in [Sides -> Descs]
            BY <1>a DEF Restored, FdTable
        <3>2. fd' = [fd EXCEPT ![p].std = Restored(p), ![p].saved = Closed, ![p].io = Closed]
            BY <1>6 DEF BuiltinEnds
        <3>3. QED
            BY <1>a, <3>1, <3>2, DescTypes DEF FdTable
    <2>2. sh' \in [Procs -> ShellState]
        <3> DEFINE bad == sh[p].shouldExit \/ Cmd(p).kind = "exitbad"
                   t == [sh[p] EXCEPT !.result = s]
        <3>1. bad \in BOOLEAN /\ s \in ExitStatuses
            BY <1>b
        <3>2. sh' = [sh EXCEPT ![p].result = s, ![p].shouldExit = bad]
            BY <1>6 DEF BuiltinEnds
        <3> HIDE DEF bad
        <3>3. t \in ShellState
            BY <1>a, <3>1, ShellTypes
        <3>4. [t EXCEPT !.shouldExit = bad] \in ShellState
            BY <3>1, <3>3, ShellTypes
        <3>5. sh' = [sh EXCEPT ![p] = [t EXCEPT !.shouldExit = bad]]
            BY <1>a, <3>2
        <3>6. QED
            BY <1>a, <3>4, <3>5
    <2>3. pc' \in [Procs -> Labels]
        BY <1>6 DEF BuiltinEnds, TypeOK, Labels
    <2>4. UNCHANGED <<script, life, pos, work, job, code, fill, plug, spilled>>
        BY <1>6 DEF BuiltinEnds
    <2>5. QED
        BY <2>1, <2>2, <2>3, <2>4 DEF TypeOK
<1>7. QED
    BY <1>1, <1>2, <1>3, <1>4, <1>5, <1>6 DEF Work
\* Where GetNext leads to, from a pipeline of a list.
LEMMA NextPipeline ==
    ASSUME TypeOK, Positions, NEW p \in Procs, pc[p] \notin {"off", "listdone"},
           NEW s \in ExitStatuses
    PROVE  /\ Ops(List(p)) \in Seq(Connectors) /\ Len(Ops(List(p))) = Len(List(p))
           /\ GetNext(Ops(List(p)), pos[p].pl, s) \in pos[p].pl + 1 .. Len(List(p)) + 1
<1>1. /\ List(p) \in Seq(Pipelines) /\ Len(List(p)) \in Nat
      /\ pos[p].pl \in 1 .. Len(List(p))
    BY CmdTypes
<1>2. \A i \in 1 .. Len(List(p)) : List(p)[i].op \in Connectors
    <2>1. \A i \in 1 .. Len(List(p)) : List(p)[i] \in Pipelines
        BY <1>1
    <2>2. QED
        BY <2>1 DEF Pipelines
<1>3. Ops(List(p)) \in Seq(Connectors) /\ Len(Ops(List(p))) = Len(List(p))
    BY <1>1, <1>2 DEF Ops
<1>4. QED
    BY <1>1, <1>3, GetNextMovesForward

\* Every step from the end of a command to the end of its list.
LEMMA CollectTyped ==
    ASSUME TypeOK, Positions, NEW p \in Procs, Collect(p)
    PROVE  TypeOK'
<1>a. fd \in [Procs -> FdTable] /\ pos \in [Procs -> Position] /\ sh \in [Procs -> ShellState]
    BY DEF TypeOK
<1>b. sh[p] \in ShellState /\ fd[p] \in FdTable
    BY <1>a
<1>c. 0 \in ExitStatuses /\ 1 \in ExitStatuses
    BY DEF ExitStatuses
<1>1. ASSUME NextCommand(p) PROVE TypeOK'
    <2>1. fd' \in [Procs -> FdTable]
        <3>1. fd[p].pipe \in Descs
            BY <1>b DEF FdTable
        <3> DEFINE io == [Closed EXCEPT !["in"] = fd[p].pipe]
                   f == [fd[p] EXCEPT !.io = io]
        <3>2. io \in [Sides -> Descs]
            BY <3>1, DescTypes
        <3>3. fd' = [fd EXCEPT ![p].io = io, ![p].pipe = None]
            BY <1>1 DEF NextCommand
        <3> HIDE DEF io
        <3>4. f \in FdTable
            BY <1>b, <3>2, FdFields
        <3>5. [f EXCEPT !.pipe = None] \in FdTable
            BY <3>4, FdFields, DescTypes
        <3>6. fd' = [fd EXCEPT ![p] = [f EXCEPT !.pipe = None]]
            BY <1>a, <3>3
        <3>7. QED
            BY <1>a, <3>5, <3>6
    <2>2. pos' \in [Procs -> Position]
        <3> DEFINE n == pos[p].cm + 1
                   x == [pos[p] EXCEPT !.cm = n]
        <3>1. pos' = [pos EXCEPT ![p].cm = n, ![p].rd = 1]
            BY <1>1 DEF NextCommand
        <3>2. n \in Nat /\ pos[p] \in Position
            BY <1>a DEF Position
        <3> HIDE DEF n
        <3>3. x \in Position
            BY <3>2, PosTypes
        <3>4. [x EXCEPT !.rd = 1] \in Position
            BY <3>3, PosTypes
        <3>5. pos' = [pos EXCEPT ![p] = [x EXCEPT !.rd = 1]]
            BY <1>a, <3>1
        <3>6. QED
            BY <1>a, <3>4, <3>5
    <2>3. pc' \in [Procs -> Labels]
        BY <1>1 DEF NextCommand, TypeOK, Labels
    <2>4. UNCHANGED <<script, life, sh, work, job, code, fill, plug, spilled>>
        BY <1>1 DEF NextCommand
    <2>5. QED
        BY <2>1, <2>2, <2>3, <2>4 DEF TypeOK
<1>2. ASSUME StartWait(p) PROVE TypeOK'
    <2>1. sh' \in [Procs -> ShellState]
        <3> DEFINE piped == sh[p].shouldExit /\ sh[p].isPipe
                   t == [sh[p] EXCEPT !.waited = 1]
        <3>1. piped \in BOOLEAN
            BY <1>b DEF ShellState
        <3>2. sh' = [sh EXCEPT ![p].waited = 1, ![p].isPipe = piped]
            BY <1>2 DEF StartWait
        <3> HIDE DEF piped
        <3>3. t \in ShellState
            BY <1>b, <1>c, ShellTypes
        <3>4. [t EXCEPT !.isPipe = piped] \in ShellState
            BY <3>1, <3>3, ShellTypes
        <3>5. sh' = [sh EXCEPT ![p] = [t EXCEPT !.isPipe = piped]]
            BY <1>a, <3>2
        <3>6. QED
            BY <1>a, <3>4, <3>5
    <2>2. pc' \in [Procs -> Labels]
        BY <1>2 DEF StartWait, TypeOK, Labels
    <2>3. UNCHANGED <<script, life, pos, fd, work, job, code, fill, plug, spilled>>
        BY <1>2 DEF StartWait
    <2>4. QED
        BY <2>1, <2>2, <2>3 DEF TypeOK
<1>3. ASSUME NEW z \in Procs, Reap(p, z) PROVE TypeOK'
    <2>1. sh' \in [Procs -> ShellState]
        <3> DEFINE w == IF z = sh[p].pid THEN code[z] ELSE sh[p].waited
        <3>1. w \in ExitStatuses
            BY <1>b DEF TypeOK, ShellState
        <3>2. sh' = [sh EXCEPT ![p] = [sh[p] EXCEPT !.waited = w]]
            BY <1>3, <1>a DEF Reap
        <3> HIDE DEF w
        <3>3. QED
            BY <1>a, <1>b, <3>1, <3>2, ShellTypes
    <2>2. life' \in [Procs -> Lives]
        BY <1>3 DEF Reap, TypeOK, Lives
    <2>3. UNCHANGED <<script, pc, pos, fd, work, job, code, fill, plug, spilled>>
        BY <1>3 DEF Reap
    <2>4. QED
        BY <2>1, <2>2, <2>3 DEF TypeOK
<1>4. ASSUME NEW s \in ExitStatuses, pc[p] \in {"after", "wait"}, EndPipeline(p, s)
      PROVE  TypeOK'
    <2> DEFINE len == Len(List(p))
               nxt == IF sh[p].shouldExit THEN len + 1
                      ELSE GetNext(Ops(List(p)), pos[p].pl, s)
               piped == sh[p].isPipe /\ sh[p].shouldExit
    <2>1. nxt \in Nat
        <3>1. len \in Nat /\ pos[p].pl \in 1 .. len
            BY <1>4, CmdTypes
        <3>2. GetNext(Ops(List(p)), pos[p].pl, s) \in pos[p].pl + 1 .. len + 1
            BY <1>4, NextPipeline
        <3>3. QED
            BY <3>1, <3>2
    <2>2. pos' \in [Procs -> Position]
        <3>1. pos' = [pos EXCEPT ![p].pl = nxt, ![p].cm = 1, ![p].rd = 1]
            BY <1>4 DEF EndPipeline
        <3> HIDE DEF nxt
        <3>2. QED
            BY <1>a, <2>1, <3>1 DEF Position
    <2>3. sh' \in [Procs -> ShellState]
        <3> DEFINE t == [sh[p] EXCEPT !.status = s]
                   u == [t EXCEPT !.result = 0]
                   v == [u EXCEPT !.pid = 0]
        <3>1. piped \in BOOLEAN
            BY <1>b DEF ShellState
        <3>2. sh' = [sh EXCEPT ![p] = [sh[p] EXCEPT !.status = s, !.result = 0, !.pid = 0,
                                                   !.isPipe = piped]]
            BY <1>4, <1>a DEF EndPipeline
        <3> HIDE DEF piped
        <3>3. t \in ShellState
            BY <1>b, ShellTypes
        <3>4. u \in ShellState
            BY <1>c, <3>3, ShellTypes
        <3>5. v \in ShellState
            BY <3>4, ShellTypes
        <3>6. [v EXCEPT !.isPipe = piped] \in ShellState
            BY <3>1, <3>5, ShellTypes
        <3>7. QED
            BY <1>a, <3>2, <3>6
    <2>4. pc' \in [Procs -> Labels]
        <3>1. pc' = [pc EXCEPT ![p] = IF nxt <= len THEN "command" ELSE "listdone"]
            BY <1>4 DEF EndPipeline
        <3>2. QED
            BY <3>1 DEF TypeOK, Labels
    <2>5. UNCHANGED <<script, life, fd, work, job, code, fill, plug, spilled>>
        BY <1>4 DEF EndPipeline
    <2>6. QED
        BY <2>2, <2>3, <2>4, <2>5 DEF TypeOK
<1>5. ASSUME EndWithoutWait(p) PROVE TypeOK'
    <2>1. sh[p].result \in ExitStatuses
        BY <1>b DEF ShellState
    <2>2. QED
        BY <1>4, <1>5, <2>1 DEF EndWithoutWait
<1>6. ASSUME EndWait(p) PROVE TypeOK'
    <2>1. sh[p].result \in ExitStatuses /\ sh[p].waited \in ExitStatuses
        BY <1>b DEF ShellState
    <2>2. QED
        BY <1>4, <1>6, <2>1 DEF EndWait
<1>7. ASSUME LeaveSubshell(p) PROVE TypeOK'
    <2>1. sh[p].status \in ExitStatuses
        BY <1>b DEF ShellState
    <2>2. QED
        BY <1>7, <2>1, ExitTyped DEF LeaveSubshell
<1>8. QED
    BY <1>1, <1>2, <1>3, <1>5, <1>6, <1>7 DEF Collect
-------------------------------------------------------------------------------
(* What makes the safety properties inductive.                                 *)

(* is_pipe is set from the first pipe of a pipeline to its last command, so a
   builtin that is not alone is never run in place; and pid_to_wait is unset at the
   first command.                                                             *)
Flags(p) ==
    /\ pc[p] \in {"simple", "forked", "redir", "builtin", "after"} /\ Len(Cmds(p)) > 1
            => sh[p].isPipe
    /\ pc[p] = "command" /\ pos[p].cm > 1 => sh[p].isPipe
    /\ pc[p] \in {"command", "simple", "redir", "builtin"} /\ pos[p].cm = 1
            => sh[p].pid = 0
    /\ pc[p] = "redir" /\ Cmd(p).kind \in Builtins => ~sh[p].isPipe
    /\ pc[p] = "builtin" => ~sh[p].isPipe

(* The read end of a pipe is kept from one command to the next only, and io_fd is
   closed when the last command of a pipeline returns.                         *)
Closing(p) ==
    /\ pc[p] \in {"command", "failing", "wait"} => fd[p].pipe = None
    /\ pc[p] \in {"simple", "forked", "redir", "builtin", "after"} /\ ~Piped(p)
            => fd[p].pipe = None
    /\ pc[p] = "failing" => fd[p].io = Closed
    /\ ~spilled /\ (pc[p] = "wait" \/ (pc[p] = "after" /\ ~Piped(p)))
            => fd[p].io = Closed

Local(p) == Place(p) /\ Flags(p) /\ Closing(p)

\* A process has a place in the program exactly as long as it lives.
Lifecycle == \A p \in Procs : pc[p] = "off" <=> life[p] # "live"

\* Only a live shell that has pid_to_wait set has children.
Parents ==
    \A p \in Procs : Children(p) # {} =>
        /\ life[p] = "live"
        /\ sh[p].pid # 0
        /\ pc[p] \notin {"setup", "program", "listdone"}

\* The first process is the shell itself, at the list the parser handed over.
TopLevel ==
    /\ pos[Shell].list = 1
    /\ pc[Shell] \notin {"setup", "program"}
    /\ life[Shell] # "free"

IInv == TypeOK /\ (\A p \in Procs : Local(p)) /\ Lifecycle /\ Parents /\ TopLevel

\* The initial state satisfies the invariant.
LEMMA InitInv == Init => IInv
<1> SUFFICES ASSUME Init PROVE IInv
    OBVIOUS
<1>1. TypeOK /\ Positions
    BY InitTyped
<1>2. \A p \in Procs : /\ sh[p].pid = 0 /\ sh[p].isPipe = FALSE /\ fd[p].pipe = None
                       /\ pc[p] \in {"command", "off"} /\ pos[p].cm = 1 /\ pos[p].list = 1
                       /\ pc[p] = "off" <=> life[p] # "live"
                       /\ job[p].parent \notin Procs
    BY DEF Init, Start, NoFds, Procs
<1>3. \A p \in Procs : Flags(p) /\ Closing(p)
    BY <1>2 DEF Flags, Closing
<1>4. Lifecycle /\ Parents
    BY <1>2 DEF Lifecycle, Parents, Children
<1>5. Shell \in Procs
    BY SizesAssumption DEF Shell, Procs
<1>6. TopLevel
    BY <1>2, <1>5 DEF TopLevel, Init
<1>7. QED
    BY <1>1, <1>3, <1>4, <1>6 DEF IInv, Local, Positions

\* A step of p leaves the others where they are, unless it forks one of them.
LEMMA Others ==
    ASSUME TypeOK, NEW p \in Procs, Step(p), NEW r \in Procs \ {p}, ~Fork(p, r)
    PROVE  pc'[r] = pc[r] /\ pos'[r] = pos[r] /\ sh'[r] = sh[r] /\ fd'[r] = fd[r]
<1> DEFINE Same == pc'[r] = pc[r] /\ pos'[r] = pos[r] /\ sh'[r] = sh[r] /\ fd'[r] = fd[r]
<1>a. /\ pc \in [Procs -> Labels] /\ pos \in [Procs -> Position]
      /\ fd \in [Procs -> FdTable] /\ sh \in [Procs -> ShellState]
    BY DEF TypeOK
<1>1. ASSUME Prepare(p) PROVE Same
    <2>1. ASSUME NEW k \in Pipes, MakePipe(p, k) PROVE Same
        BY <1>a, <2>1 DEF MakePipe
    <2>2. ASSUME PipeFails(p) \/ ExitAfterPipeError(p) PROVE Same
        BY <1>a, <2>2 DEF PipeFails, ExitAfterPipeError, Exit
    <2>3. ASSUME NEW q \in Procs, Fork(p, q) PROVE Same
        <3>1. q # r
            BY <2>3
        <3>2. QED
            BY <1>a, <2>3, <3>1 DEF Fork
    <2>4. ASSUME CloseIo(p) \/ ForkFails(p) \/ ExpansionFails(p) PROVE Same
        BY <1>a, <2>4 DEF CloseIo, ForkFails, ExpansionFails, Return
    <2>5. ASSUME StartInPlace(p) \/ Redirect(p) PROVE Same
        BY <1>a, <2>5 DEF StartInPlace, Redirect
    <2>6. ASSUME RedirectFailsInChild(p) \/ RedirectFailsInPlace(p) PROVE Same
        BY <1>a, <2>6 DEF RedirectFailsInChild, RedirectFailsInPlace, Exit, Return
    <2>7. ASSUME StartProgram(p) \/ StartSubshell(p) \/ StartBuiltin(p) PROVE Same
        BY <1>a, <2>7 DEF StartProgram, StartSubshell, StartBuiltin
    <2>8. ASSUME NothingToRun(p) PROVE Same
        BY <1>a, <2>8 DEF NothingToRun, Return
    <2>9. QED
        BY <1>1, <2>1, <2>2, <2>3, <2>4, <2>5, <2>6, <2>7, <2>8 DEF Prepare
<1>2. ASSUME Work(p) PROVE Same
    <2>1. ASSUME NEW k \in Pipes, Read(p, k) \/ Write(p, k) \/ BrokenPipe(p, k) PROVE Same
        BY <1>a, <2>1 DEF Read, Write, BrokenPipe, Exit
    <2>2. ASSUME EndOfInput(p) \/ WriteFile(p) PROVE Same
        BY <2>2 DEF EndOfInput, WriteFile
    <2>3. ASSUME NEW s, ProgramExits(p, s) \/ ExitBuiltin(p, s) PROVE Same
        BY <1>a, <2>3 DEF ProgramExits, ExitBuiltin, Exit
    <2>4. ASSUME NEW s, BuiltinEnds(p, s) PROVE Same
        BY <1>a, <2>4 DEF BuiltinEnds
    <2>5. QED
        BY <1>2, <2>1, <2>2, <2>3, <2>4 DEF Work
<1>3. ASSUME Collect(p) PROVE Same
    <2>1. ASSUME NextCommand(p) \/ StartWait(p) PROVE Same
        BY <1>a, <2>1 DEF NextCommand, StartWait
    <2>2. ASSUME NEW z \in Procs, Reap(p, z) PROVE Same
        BY <1>a, <2>2 DEF Reap
    <2>3. ASSUME NEW s, EndPipeline(p, s) PROVE Same
        BY <1>a, <2>3 DEF EndPipeline
    <2>4. ASSUME LeaveSubshell(p) PROVE Same
        BY <1>a, <2>4 DEF LeaveSubshell, Exit
    <2>5. QED
        BY <1>3, <2>1, <2>2, <2>3, <2>4 DEF Collect, EndWithoutWait, EndWait
<1>4. QED
    BY <1>1, <1>2, <1>3 DEF Step

\* The script never changes, and what was left behind stays so.
LEMMA ScriptKept ==
    ASSUME TypeOK, NEW p \in Procs, Step(p)
    PROVE  script' = script /\ (spilled => spilled')
<1> DEFINE Same == script' = script /\ (spilled => spilled')
<1>1. ASSUME Prepare(p) PROVE Same
    <2>1. ASSUME NEW k \in Pipes, MakePipe(p, k) PROVE Same
        BY <2>1 DEF MakePipe
    <2>2. ASSUME NEW q \in Procs, Fork(p, q) PROVE Same
        BY <2>2 DEF Fork
    <2>3. ASSUME PipeFails(p) \/ ExitAfterPipeError(p) PROVE Same
        BY <2>3 DEF PipeFails, ExitAfterPipeError
    <2>4. ASSUME CloseIo(p) \/ ForkFails(p) \/ ExpansionFails(p) PROVE Same
        BY <2>4 DEF CloseIo, ForkFails, ExpansionFails, Return
    <2>5. ASSUME StartInPlace(p) \/ Redirect(p) PROVE Same
        BY <2>5 DEF StartInPlace, Redirect
    <2>6. ASSUME RedirectFailsInChild(p) \/ RedirectFailsInPlace(p) PROVE Same
        <3>1. CASE RedirectFailsInChild(p)
            BY <3>1 DEF RedirectFailsInChild
        <3>2. CASE RedirectFailsInPlace(p)
            <4>1. PICK io : Return(p, 1, io)
                BY <3>2 DEF RedirectFailsInPlace
            <4>2. script' = script
                BY <3>2 DEF RedirectFailsInPlace
            <4>3. QED
                BY <4>1, <4>2 DEF Return
        <3>3. QED
            BY <2>6, <3>1, <3>2
    <2>7. ASSUME StartProgram(p) \/ StartSubshell(p) \/ StartBuiltin(p) PROVE Same
        BY <2>7 DEF StartProgram, StartSubshell, StartBuiltin
    <2>8. ASSUME NothingToRun(p) PROVE Same
        BY <2>8 DEF NothingToRun, Return
    <2>9. QED
        BY <1>1, <2>1, <2>2, <2>3, <2>4, <2>5, <2>6, <2>7, <2>8 DEF Prepare
<1>2. ASSUME Work(p) PROVE Same
    <2>1. ASSUME NEW k \in Pipes, Read(p, k) \/ Write(p, k) \/ BrokenPipe(p, k) PROVE Same
        BY <2>1 DEF Read, Write, BrokenPipe
    <2>2. ASSUME EndOfInput(p) \/ WriteFile(p) PROVE Same
        BY <2>2 DEF EndOfInput, WriteFile
    <2>3. ASSUME NEW s, ProgramExits(p, s) \/ ExitBuiltin(p, s) \/ BuiltinEnds(p, s)
          PROVE  Same
        BY <2>3 DEF ProgramExits, ExitBuiltin, BuiltinEnds
    <2>4. QED
        BY <1>2, <2>1, <2>2, <2>3 DEF Work
<1>3. ASSUME Collect(p) PROVE Same
    BY <1>3 DEF Collect, NextCommand, StartWait, Reap, EndWithoutWait, EndWait,
       EndPipeline, LeaveSubshell
<1>4. QED
    BY <1>1, <1>2, <1>3 DEF Step

\* A process whose own state does not change keeps its part of the invariant.
LEMMA LocalSame ==
    ASSUME NEW r, Local(r), script' = script, spilled => spilled',
           pc'[r] = pc[r], pos'[r] = pos[r], sh'[r] = sh[r], fd'[r] = fd[r]
    PROVE  Local(r)'
<1>1. Place(r)'
    BY DEF Local, Place, List, Cmds
<1>2. Flags(r)'
    BY DEF Local, Flags, List, Cmds, Cmd
<1>3. Closing(r)'
    BY DEF Local, Closing, Piped, List, Cmds
<1>4. QED
    BY <1>1, <1>2, <1>3 DEF Local

\* A process that exits, and a command that returns.
LEMMA ExitLocal ==
    ASSUME TypeOK, NEW p \in Procs, Local(p), NEW s, Exit(p, s),
           UNCHANGED <<script, pos, sh, work, job, fill, plug, spilled>>
    PROVE  Local(p)'
<1>1. pc'[p] = "off"
    BY DEF Exit, TypeOK
<1>2. QED
    BY <1>1 DEF Local, Place, Flags, Closing

\* A command that returns in place.
LEMMA ReturnLocal ==
    ASSUME TypeOK, Positions, NEW p \in Procs, Local(p),
           pc[p] \in {"forked", "redir"} \/ Ready(p), NEW r, NEW io, Return(p, r, io),
           UNCHANGED <<script, life, pos, work, job, code, fill, plug>>
    PROVE  Local(p)'
<1>1. /\ pc'[p] = "after" /\ pos' = pos /\ script' = script
      /\ sh'[p].isPipe = sh[p].isPipe
      /\ fd'[p].pipe = fd[p].pipe /\ fd'[p].io = io
      /\ spilled' = (spilled \/ (~Piped(p) /\ io # Closed))
    BY DEF Return, TypeOK, ShellState, FdTable
<1>2. pc[p] \in {"forked", "redir", "simple"} \/ (pc[p] = "command" /\ ~Piped(p))
    BY DEF Ready
<1>3. pos[p].cm \in 1 .. Len(Cmds(p)) /\ Len(Cmds(p)) \in Nat
    BY <1>2, CmdTypes
<1>4. Place(p)'
    BY <1>1, <1>2 DEF Local, Place, List, Cmds
<1>5. Flags(p)'
    <2>1. Len(Cmds(p)) > 1 => sh[p].isPipe
        BY <1>2, <1>3 DEF Local, Flags, Piped
    <2>2. QED
        BY <1>1, <2>1 DEF Flags, Cmds, List
<1>6. Closing(p)'
    <2>1. ~Piped(p) => fd[p].pipe = None
        BY <1>2 DEF Local, Closing
    <2>2. QED
        BY <1>1, <2>1 DEF Closing, Piped, Cmds, List
<1>7. QED
    BY <1>4, <1>5, <1>6 DEF Local

\* Every step of a process up to the start of its command.
LEMMA PrepareLocal ==
    ASSUME TypeOK, Positions, NEW p \in Procs, Local(p), Prepare(p),
           \A q \in Procs : ~Fork(p, q)
    PROVE  Local(p)'
<1>a. /\ pc \in [Procs -> Labels] /\ pos \in [Procs -> Position]
      /\ fd \in [Procs -> FdTable] /\ sh \in [Procs -> ShellState]
    BY DEF TypeOK
<1>1. ASSUME NEW k \in Pipes, MakePipe(p, k) PROVE Local(p)'
    <2>1. /\ pc[p] = "command" /\ pc'[p] = "simple" /\ Piped(p)
          /\ pos' = pos /\ script' = script
          /\ sh'[p].isPipe /\ sh'[p].pid = sh[p].pid
        BY <1>a, <1>1 DEF MakePipe, ShellState
    <2>2. Place(p)'
        BY <2>1 DEF Local, Place, List, Cmds
    <2>3. QED
        BY <2>1, <2>2 DEF Local, Flags, Closing, Piped, Cmds, List
<1>2. ASSUME PipeFails(p) PROVE Local(p)'
    <2>1. /\ pc[p] = "command" /\ pc'[p] = "failing" /\ pos' = pos /\ script' = script
          /\ fd'[p].io = Closed /\ fd'[p].pipe = None
        BY <1>a, <1>2 DEF PipeFails, FdTable
    <2>2. Place(p)'
        BY <2>1 DEF Local, Place, List, Cmds
    <2>3. QED
        BY <2>1, <2>2 DEF Local, Flags, Closing
<1>3. ASSUME ExitAfterPipeError(p) PROVE Local(p)'
    BY <1>3, ExitLocal DEF ExitAfterPipeError
<1>4. ASSUME CloseIo(p) PROVE Local(p)'
    BY <1>4, ReturnLocal DEF CloseIo
<1>5. ASSUME ForkFails(p) \/ ExpansionFails(p) PROVE Local(p)'
    BY <1>5, ReturnLocal DEF ForkFails, ExpansionFails
<1>6. ASSUME StartInPlace(p) PROVE Local(p)'
    <2>1. /\ Ready(p) /\ pc'[p] = "redir" /\ pos' = pos /\ script' = script
          /\ sh' = sh /\ fd' = fd
          /\ Cmd(p).kind \in Builtins => ~sh[p].isPipe
        BY <1>a, <1>6 DEF StartInPlace, Forks
    <2>2. pc[p] = "simple" \/ (pc[p] = "command" /\ ~Piped(p))
        BY <2>1 DEF Ready
    <2>3. pos[p].cm \in 1 .. Len(Cmds(p)) /\ Len(Cmds(p)) \in Nat
        BY <2>2, CmdTypes
    <2>4. Place(p)'
        BY <2>1, <2>2 DEF Local, Place, List, Cmds
    <2>5. Flags(p)'
        <3>1. Len(Cmds(p)) > 1 => sh[p].isPipe
            BY <2>2, <2>3 DEF Local, Flags, Piped
        <3>2. pos[p].cm = 1 => sh[p].pid = 0
            BY <2>2 DEF Local, Flags
        <3>3. QED
            BY <2>1, <3>1, <3>2 DEF Flags, Cmd, Cmds, List
    <2>6. Closing(p)'
        <3>1. ~Piped(p) => fd[p].pipe = None
            BY <2>2 DEF Local, Closing
        <3>2. QED
            BY <2>1, <3>1 DEF Closing, Piped, Cmds, List
    <2>7. QED
        BY <2>4, <2>5, <2>6 DEF Local
<1>7. ASSUME Redirect(p) PROVE Local(p)'
    <2>1. /\ pc[p] \in {"redir", "setup"} /\ pc' = pc /\ sh' = sh /\ script' = script
          /\ fd'[p].pipe = fd[p].pipe
          /\ pos'[p].list = pos[p].list /\ pos'[p].pl = pos[p].pl
          /\ pos'[p].cm = pos[p].cm /\ pos'[p].rd = pos[p].rd + 1
        BY <1>a, <1>7 DEF Redirect, Redirecting, FdTable, Position
    <2>2. Place(p)'
        <3>1. pos[p].rd \in Nat
            BY <1>a DEF Position
        <3>2. QED
            BY <2>1, <3>1 DEF Local, Place, List, Cmds
    <2>3. QED
        BY <2>1, <2>2 DEF Local, Flags, Closing, Piped, Cmd, Cmds, List
<1>8. ASSUME RedirectFailsInChild(p) PROVE Local(p)'
    BY <1>8, ExitLocal DEF RedirectFailsInChild
<1>9. ASSUME RedirectFailsInPlace(p) PROVE Local(p)'
    BY <1>9, ReturnLocal DEF RedirectFailsInPlace
<1>10. ASSUME StartProgram(p) PROVE Local(p)'
    <2>1. /\ pc[p] = "setup" /\ pc'[p] = "program" /\ pos' = pos /\ script' = script
        BY <1>a, <1>10 DEF StartProgram
    <2>2. Place(p)'
        BY <2>1 DEF Local, Place, List, Cmds
    <2>3. QED
        BY <2>1, <2>2 DEF Local, Flags, Closing
<1>11. ASSUME StartSubshell(p) PROVE Local(p)'
    <2>1. /\ pc[p] = "setup" /\ pc'[p] = "command" /\ script' = script
          /\ pos'[p] = Start(Cmd(p).body) /\ Cmd(p).kind = "sub"
          /\ sh'[p].pid = 0 /\ fd'[p].pipe = None
        BY <1>a, <1>11 DEF StartSubshell, ShellState, NoFds
    <2>2. /\ pos'[p].list = Cmd(p).body /\ pos'[p].pl = 1
          /\ pos'[p].cm = 1 /\ pos'[p].rd = 1
        BY <2>1 DEF Start
    <2>3. Place(p)'
        <3>1. Cmd(p).body \in 1 .. Len(script) /\ script \in Scripts
            BY <2>1, CmdTypes DEF TypeOK
        <3>2. Len(script[Cmd(p).body]) \in Nat \ {0}
            BY <3>1, ScriptTypes
        <3>3. 1 \in 1 .. Len(script[Cmd(p).body])
            BY <3>2
        <3>4. Len(script[Cmd(p).body][1].cmds) \in Nat \ {0}
            BY <3>1, <3>3, ScriptTypes
        <3>5. QED
            BY <2>1, <2>2, <3>1, <3>3, <3>4 DEF Place, List, Cmds
    <2>4. QED
        BY <2>1, <2>2, <2>3 DEF Local, Flags, Closing
<1>12. ASSUME StartBuiltin(p) PROVE Local(p)'
    <2>1. /\ pc[p] = "redir" /\ pc'[p] = "builtin" /\ Cmd(p).kind \in Builtins
          /\ pos' = pos /\ script' = script /\ sh' = sh
        BY <1>a, <1>12 DEF StartBuiltin
    <2>2. fd'[p].pipe = fd[p].pipe
        BY <1>a, <1>12 DEF StartBuiltin, NoFds
    <2>3. Place(p)'
        BY <2>1 DEF Local, Place, List, Cmds
    <2>4. QED
        BY <2>1, <2>2, <2>3 DEF Local, Flags, Closing, Piped, Cmds, List
<1>13. ASSUME NothingToRun(p) PROVE Local(p)'
    BY <1>13, ReturnLocal DEF NothingToRun
<1>14. QED
    BY <1>1, <1>2, <1>3, <1>4, <1>5, <1>6, <1>7, <1>8, <1>9, <1>10, <1>11, <1>12, <1>13
    DEF Prepare

\* Every step of a program or a builtin at work.
LEMMA WorkLocal ==
    ASSUME TypeOK, Positions, NEW p \in Procs, Local(p), Work(p)
    PROVE  Local(p)'
<1>a. /\ pc \in [Procs -> Labels] /\ fd \in [Procs -> FdTable]
      /\ sh \in [Procs -> ShellState]
    BY DEF TypeOK
<1>1. ASSUME UNCHANGED <<script, pc, pos, fd, sh, spilled>> PROVE Local(p)'
    BY <1>1, LocalSame
<1>2. ASSUME NEW k \in Pipes, Read(p, k) \/ Write(p, k) PROVE Local(p)'
    BY <1>1, <1>2 DEF Read, Write
<1>3. ASSUME NEW k \in Pipes, BrokenPipe(p, k) PROVE Local(p)'
    BY <1>3, ExitLocal DEF BrokenPipe
<1>4. ASSUME EndOfInput(p) \/ WriteFile(p) PROVE Local(p)'
    BY <1>1, <1>4 DEF EndOfInput, WriteFile
<1>5. ASSUME NEW s, ProgramExits(p, s) \/ ExitBuiltin(p, s) PROVE Local(p)'
    BY <1>5, ExitLocal DEF ProgramExits, ExitBuiltin
<1>6. ASSUME NEW s, BuiltinEnds(p, s) PROVE Local(p)'
    <2>1. /\ pc[p] = "builtin" /\ pc'[p] = "after" /\ pos' = pos /\ script' = script
          /\ fd'[p].io = Closed /\ fd'[p].pipe = fd[p].pipe
          /\ sh'[p].isPipe = sh[p].isPipe
        BY <1>a, <1>6 DEF BuiltinEnds, FdTable, ShellState
    <2>2. Place(p)'
        BY <2>1 DEF Local, Place, List, Cmds
    <2>3. QED
        BY <2>1, <2>2 DEF Local, Flags, Closing, Piped, Cmds, List
<1>7. QED
    BY <1>2, <1>3, <1>4, <1>5, <1>6 DEF Work

\* Every step from the end of a command to the end of its list.
LEMMA CollectLocal ==
    ASSUME TypeOK, Positions, NEW p \in Procs, Local(p), Collect(p)
    PROVE  Local(p)'
<1>a. /\ pc \in [Procs -> Labels] /\ pos \in [Procs -> Position]
      /\ fd \in [Procs -> FdTable] /\ sh \in [Procs -> ShellState]
    BY DEF TypeOK
<1>1. ASSUME NextCommand(p) PROVE Local(p)'
    <2>1. /\ pc[p] = "after" /\ Piped(p) /\ pc'[p] = "command" /\ script' = script
          /\ sh' = sh /\ fd'[p].pipe = None
          /\ pos'[p].list = pos[p].list /\ pos'[p].pl = pos[p].pl
          /\ pos'[p].cm = pos[p].cm + 1 /\ pos'[p].rd = 1
        BY <1>a, <1>1 DEF NextCommand, FdTable, Position
    <2>2. /\ pos[p].cm \in 1 .. Len(Cmds(p)) /\ Len(Cmds(p)) \in Nat
          /\ pos[p].cm < Len(Cmds(p))
        BY <2>1, CmdTypes DEF Piped
    <2>3. Place(p)'
        <3>1. List(p)' = List(p) /\ Cmds(p)' = Cmds(p)
            BY <2>1 DEF List, Cmds
        <3>2. /\ pos[p].list \in 1 .. Len(script) /\ pos[p].pl \in 1 .. Len(List(p))
            BY <2>1 DEF Local, Place
        <3>3. pos[p].cm + 1 \in 1 .. Len(Cmds(p))
            BY <2>2
        <3>4. QED
            BY <2>1, <3>1, <3>2, <3>3 DEF Place
    <2>4. sh[p].isPipe /\ pos[p].cm + 1 > 1
        BY <2>1, <2>2 DEF Local, Flags
    <2>5. QED
        BY <2>1, <2>2, <2>3, <2>4 DEF Local, Flags, Closing
<1>2. ASSUME StartWait(p) PROVE Local(p)'
    <2>1. /\ pc[p] = "after" /\ ~Piped(p) /\ pc'[p] = "wait"
          /\ script' = script /\ pos' = pos /\ fd' = fd /\ spilled' = spilled
        BY <1>a, <1>2 DEF StartWait
    <2>2. Place(p)'
        BY <2>1 DEF Local, Place, List, Cmds
    <2>3. QED
        BY <2>1, <2>2 DEF Local, Flags, Closing
<1>3. ASSUME NEW z \in Procs, Reap(p, z) PROVE Local(p)'
    <2>1. /\ pc[p] \in {"wait", "failing"} /\ UNCHANGED <<script, pc, pos, fd, spilled>>
        BY <1>3 DEF Reap
    <2>2. Place(p)'
        BY <2>1 DEF Local, Place, List, Cmds
    <2>3. QED
        BY <2>1, <2>2 DEF Local, Flags, Closing
<1>4. ASSUME NEW s \in ExitStatuses, pc[p] = "wait" \/ (pc[p] = "after" /\ ~Piped(p)),
             EndPipeline(p, s)
      PROVE  Local(p)'
    <2> DEFINE len == Len(List(p))
               nxt == IF sh[p].shouldExit THEN len + 1
                      ELSE GetNext(Ops(List(p)), pos[p].pl, s)
    <2>1. /\ script' = script /\ fd' = fd
          /\ pc'[p] = (IF nxt <= len THEN "command" ELSE "listdone")
          /\ pos'[p].list = pos[p].list /\ pos'[p].pl = nxt
          /\ pos'[p].cm = 1 /\ pos'[p].rd = 1
          /\ sh'[p].pid = 0
        BY <1>a, <1>4 DEF EndPipeline, Position, ShellState
    <2>2. len \in Nat /\ nxt \in 1 .. len + 1
        <3>1. len \in Nat /\ pos[p].pl \in 1 .. len
            BY <1>4, CmdTypes
        <3>2. GetNext(Ops(List(p)), pos[p].pl, s) \in pos[p].pl + 1 .. len + 1
            BY <1>4, NextPipeline
        <3>3. QED
            BY <3>1, <3>2
    <2> HIDE DEF nxt
    <2>3. Place(p)'
        <3>1. script \in Scripts /\ pos[p].list \in 1 .. Len(script)
            BY DEF TypeOK, Local, Place
        <3>2. nxt <= len => Len(script[pos[p].list][nxt].cmds) \in Nat \ {0}
            BY <2>2, <3>1, ScriptTypes DEF List
        <3>3. QED
            BY <2>1, <2>2, <3>1, <3>2 DEF Place, List, Cmds
    <2>4. fd[p].pipe = None
        BY <1>4 DEF Local, Closing
    <2>5. QED
        BY <2>1, <2>3, <2>4 DEF Local, Flags, Closing
<1>5. ASSUME EndWithoutWait(p) \/ EndWait(p) PROVE Local(p)'
    <2>1. sh[p].result \in ExitStatuses /\ sh[p].waited \in ExitStatuses
        BY <1>a DEF ShellState
    <2>2. QED
        BY <1>4, <1>5, <2>1 DEF EndWithoutWait, EndWait
<1>6. ASSUME LeaveSubshell(p) PROVE Local(p)'
    BY <1>6, ExitLocal DEF LeaveSubshell
<1>7. QED
    BY <1>1, <1>2, <1>3, <1>5, <1>6 DEF Collect

\* fork gives parent and child their part of the invariant.
LEMMA ForkLocal ==
    ASSUME TypeOK, Positions, Lifecycle, NEW p \in Procs, Local(p), life[p] = "live",
           NEW q \in Procs, Fork(p, q)
    PROVE  Local(p)' /\ Local(q)' /\ p # q
<1>a. /\ pc \in [Procs -> Labels] /\ pos \in [Procs -> Position]
      /\ fd \in [Procs -> FdTable] /\ sh \in [Procs -> ShellState]
    BY DEF TypeOK
<1>1. p # q
    BY DEF Fork
<1>2. /\ Ready(p) /\ pc'[p] = "forked" /\ pc'[q] = "setup" /\ script' = script
      /\ pos'[p] = pos[p] /\ pos'[q] = pos[p] /\ fd'[p] = fd[p]
      /\ sh'[p].isPipe = sh[p].isPipe
    BY <1>a, <1>1 DEF Fork, ShellState
<1>3. pc[p] = "simple" \/ (pc[p] = "command" /\ ~Piped(p))
    BY <1>2 DEF Ready
<1>4. pos[p].cm \in 1 .. Len(Cmds(p)) /\ Len(Cmds(p)) \in Nat
    BY <1>3, CmdTypes
<1>5. Local(p)'
    <2>1. Place(p)'
        BY <1>2, <1>3 DEF Local, Place, List, Cmds
    <2>2. Len(Cmds(p)) > 1 => sh[p].isPipe
        BY <1>3, <1>4 DEF Local, Flags, Piped
    <2>3. ~Piped(p) => fd[p].pipe = None
        BY <1>3 DEF Local, Closing
    <2>4. QED
        BY <1>2, <2>1, <2>2, <2>3 DEF Local, Flags, Closing, Piped, Cmds, List
<1>6. Local(q)'
    <2>1. Place(q)'
        BY <1>2, <1>3 DEF Local, Place, List, Cmds
    <2>2. QED
        BY <1>2, <2>1 DEF Local, Flags, Closing
<1>7. QED
    BY <1>1, <1>5, <1>6

\* Exactly the processes that live have a place in the program, after every step.
LEMMA LifecycleStep ==
    ASSUME TypeOK, Lifecycle, NEW p \in Procs, Step(p)
    PROVE  Lifecycle'
<1>a. /\ pc \in [Procs -> Labels] /\ life \in [Procs -> Lives] /\ life[p] = "live"
    BY DEF TypeOK, Step
<1>1. ASSUME NEW s, Exit(p, s) PROVE Lifecycle'
    BY <1>a, <1>1 DEF Lifecycle, Exit
<1>2. ASSUME UNCHANGED life, NEW l, l # "off", pc' = [pc EXCEPT ![p] = l] PROVE Lifecycle'
    BY <1>a, <1>2 DEF Lifecycle
<1>3. ASSUME UNCHANGED <<life, pc>> PROVE Lifecycle'
    BY <1>3 DEF Lifecycle
<1>4. ASSUME NEW q \in Procs, Fork(p, q) PROVE Lifecycle'
    <2>1. /\ p # q
          /\ life' = [life EXCEPT ![q] = "live"]
          /\ pc' = [pc EXCEPT ![p] = "forked", ![q] = "setup"]
        BY <1>a, <1>4 DEF Fork
    <2>2. QED
        BY <1>a, <2>1 DEF Lifecycle
<1>5. ASSUME NEW z \in Procs, Reap(p, z) PROVE Lifecycle'
    <2>1. life[z] = "zombie" /\ life' = [life EXCEPT ![z] = "reaped"] /\ pc' = pc
        BY <1>5 DEF Reap, Zombies
    <2>2. QED
        BY <1>a, <2>1 DEF Lifecycle
<1>6. ASSUME Prepare(p) PROVE Lifecycle'
    <2>1. ASSUME NEW k \in Pipes, MakePipe(p, k) PROVE Lifecycle'
        BY <1>2, <2>1 DEF MakePipe
    <2>2. ASSUME PipeFails(p) \/ ExitAfterPipeError(p) PROVE Lifecycle'
        BY <1>1, <1>2, <2>2 DEF PipeFails, ExitAfterPipeError
    <2>3. ASSUME CloseIo(p) \/ ForkFails(p) \/ ExpansionFails(p) PROVE Lifecycle'
        BY <1>2, <2>3 DEF CloseIo, ForkFails, ExpansionFails, Return
    <2>4. ASSUME StartInPlace(p) \/ Redirect(p) PROVE Lifecycle'
        BY <1>2, <1>3, <2>4 DEF StartInPlace, Redirect
    <2>5. ASSUME RedirectFailsInChild(p) \/ RedirectFailsInPlace(p) PROVE Lifecycle'
        BY <1>1, <1>2, <2>5 DEF RedirectFailsInChild, RedirectFailsInPlace, Return
    <2>6. ASSUME StartProgram(p) \/ StartSubshell(p) \/ StartBuiltin(p) PROVE Lifecycle'
        BY <1>2, <2>6 DEF StartProgram, StartSubshell, StartBuiltin
    <2>7. ASSUME NothingToRun(p) PROVE Lifecycle'
        BY <1>2, <2>7 DEF NothingToRun, Return
    <2>8. QED
        BY <1>4, <1>6, <2>1, <2>2, <2>3, <2>4, <2>5, <2>6, <2>7 DEF Prepare
<1>7. ASSUME Work(p) PROVE Lifecycle'
    <2>1. ASSUME NEW k \in Pipes, Read(p, k) \/ Write(p, k) \/ BrokenPipe(p, k)
          PROVE  Lifecycle'
        BY <1>1, <1>3, <2>1 DEF Read, Write, BrokenPipe
    <2>2. ASSUME EndOfInput(p) \/ WriteFile(p) PROVE Lifecycle'
        BY <1>3, <2>2 DEF EndOfInput, WriteFile
    <2>3. ASSUME NEW s, ProgramExits(p, s) \/ ExitBuiltin(p, s) PROVE Lifecycle'
        BY <1>1, <2>3 DEF ProgramExits, ExitBuiltin
    <2>4. ASSUME NEW s, BuiltinEnds(p, s) PROVE Lifecycle'
        BY <1>2, <2>4 DEF BuiltinEnds
    <2>5. QED
        BY <1>7, <2>1, <2>2, <2>3, <2>4 DEF Work
<1>8. ASSUME Collect(p) PROVE Lifecycle'
    <2>1. ASSUME NextCommand(p) \/ StartWait(p) PROVE Lifecycle'
        BY <1>2, <2>1 DEF NextCommand, StartWait
    <2>2. ASSUME NEW s, EndPipeline(p, s) PROVE Lifecycle'
        <3>1. PICK l \in {"command", "listdone"} : pc' = [pc EXCEPT ![p] = l]
            BY <2>2 DEF EndPipeline
        <3>2. UNCHANGED life
            BY <2>2 DEF EndPipeline
        <3>3. QED
            BY <1>2, <3>1, <3>2
    <2>3. ASSUME LeaveSubshell(p) PROVE Lifecycle'
        BY <1>1, <2>3 DEF LeaveSubshell
    <2>4. QED
        BY <1>5, <1>8, <2>1, <2>2, <2>3 DEF Collect, EndWithoutWait, EndWait
<1>9. QED
    BY <1>6, <1>7, <1>8 DEF Step

\* Without a fork, nobody gets a child and nobody but p dies.
LEMMA LifeKept ==
    ASSUME TypeOK, NEW p \in Procs, Step(p), \A q \in Procs : ~Fork(p, q)
    PROVE  /\ job' = job
           /\ \A r \in Procs \ {p} : life[r] = "live" => life'[r] = "live"
           /\ \A r \in Procs : life'[r] \in {"live", "zombie"}
                                => life[r] \in {"live", "zombie"}
<1> DEFINE Kept == /\ job' = job
                   /\ \A r \in Procs \ {p} : life[r] = "live" => life'[r] = "live"
                   /\ \A r \in Procs : life'[r] \in {"live", "zombie"}
                                        => life[r] \in {"live", "zombie"}
<1>a. life \in [Procs -> Lives] /\ life[p] = "live"
    BY DEF TypeOK, Step
<1>1. ASSUME NEW s, Exit(p, s), UNCHANGED job PROVE Kept
    BY <1>a, <1>1 DEF Exit
<1>2. ASSUME UNCHANGED <<life, job>> PROVE Kept
    BY <1>2
<1> HIDE DEF Kept
<1>3. ASSUME Prepare(p) PROVE Kept
    <2>1. ASSUME NEW k \in Pipes, MakePipe(p, k) PROVE Kept
        BY <1>2, <2>1 DEF MakePipe
    <2>2. ASSUME PipeFails(p) \/ ExitAfterPipeError(p) PROVE Kept
        BY <1>1, <1>2, <2>2 DEF PipeFails, ExitAfterPipeError
    <2>3. ASSUME CloseIo(p) \/ ForkFails(p) \/ ExpansionFails(p) PROVE Kept
        BY <1>2, <2>3 DEF CloseIo, ForkFails, ExpansionFails
    <2>4. ASSUME StartInPlace(p) \/ Redirect(p) PROVE Kept
        BY <1>2, <2>4 DEF StartInPlace, Redirect
    <2>5. ASSUME RedirectFailsInChild(p) \/ RedirectFailsInPlace(p) PROVE Kept
        BY <1>1, <1>2, <2>5 DEF RedirectFailsInChild, RedirectFailsInPlace
    <2>6. ASSUME StartProgram(p) \/ StartSubshell(p) \/ StartBuiltin(p) PROVE Kept
        BY <1>2, <2>6 DEF StartProgram, StartSubshell, StartBuiltin
    <2>7. ASSUME NothingToRun(p) PROVE Kept
        BY <1>2, <2>7 DEF NothingToRun
    <2>8. QED
        BY <1>3, <2>1, <2>2, <2>3, <2>4, <2>5, <2>6, <2>7 DEF Prepare
<1>4. ASSUME Work(p) PROVE Kept
    <2>1. ASSUME NEW k \in Pipes, Read(p, k) \/ Write(p, k) \/ BrokenPipe(p, k) PROVE Kept
        BY <1>1, <1>2, <2>1 DEF Read, Write, BrokenPipe
    <2>2. ASSUME EndOfInput(p) \/ WriteFile(p) PROVE Kept
        BY <1>2, <2>2 DEF EndOfInput, WriteFile
    <2>3. ASSUME NEW s, ProgramExits(p, s) \/ ExitBuiltin(p, s) PROVE Kept
        BY <1>1, <2>3 DEF ProgramExits, ExitBuiltin
    <2>4. ASSUME NEW s, BuiltinEnds(p, s) PROVE Kept
        BY <1>2, <2>4 DEF BuiltinEnds
    <2>5. QED
        BY <1>4, <2>1, <2>2, <2>3, <2>4 DEF Work
<1>5. ASSUME Collect(p) PROVE Kept
    <2>1. ASSUME NextCommand(p) \/ StartWait(p) PROVE Kept
        BY <1>2, <2>1 DEF NextCommand, StartWait
    <2>2. ASSUME NEW z \in Procs, Reap(p, z) PROVE Kept
        <3>1. life[z] = "zombie" /\ life' = [life EXCEPT ![z] = "reaped"] /\ job' = job
            BY <2>2 DEF Reap, Zombies
        <3>2. QED
            BY <1>a, <3>1 DEF Kept
    <2>3. ASSUME NEW s, EndPipeline(p, s) PROVE Kept
        BY <1>2, <2>3 DEF EndPipeline
    <2>4. ASSUME LeaveSubshell(p) PROVE Kept
        BY <1>1, <2>4 DEF LeaveSubshell
    <2>5. QED
        BY <1>5, <2>1, <2>2, <2>3, <2>4 DEF Collect, EndWithoutWait, EndWait
<1>6. Kept
    BY <1>3, <1>4, <1>5 DEF Step
<1>7. QED
    BY <1>6 DEF Kept

\* A builtin that runs in place is alone in its pipeline, and nothing was forked.
LEMMA BuiltinAlone ==
    ASSUME TypeOK, Positions, NEW p \in Procs, Flags(p), pc[p] = "builtin"
    PROVE  Len(Cmds(p)) = 1 /\ sh[p].pid = 0
<1> DEFINE n == Len(Cmds(p))
           c == pos[p].cm
<1>1. c \in 1 .. n /\ n \in Nat
    BY CmdTypes
<1>2. ~(n > 1)
    BY DEF Flags
<1> HIDE DEF n, c
<1>3. n = 1 /\ c = 1
    BY <1>1, <1>2
<1>4. QED
    BY <1>3 DEF Flags, n, c

\* A shell with children neither ends nor forgets that it has to wait.
LEMMA ParentKept ==
    ASSUME TypeOK, Positions, Parents, NEW p \in Procs, Flags(p), Step(p),
           \A q \in Procs : ~Fork(p, q), Children(p) # {}
    PROVE  /\ life'[p] = "live"
           /\ sh'[p].pid # 0
           /\ pc'[p] \notin {"setup", "program", "listdone"}
<1> DEFINE Good == /\ life'[p] = "live"
                   /\ sh'[p].pid # 0
                   /\ pc'[p] \notin {"setup", "program", "listdone"}
<1>a. /\ pc \in [Procs -> Labels] /\ sh \in [Procs -> ShellState]
      /\ life \in [Procs -> Lives] /\ life[p] = "live"
    BY DEF TypeOK, Step
<1>b. sh[p].pid # 0 /\ pc[p] \notin {"setup", "program", "listdone"}
    BY DEF Parents
<1>c. pc[p] # "builtin"
    BY <1>b, BuiltinAlone
<1>1. ASSUME UNCHANGED <<life, pc, sh>> PROVE Good
    BY <1>a, <1>b, <1>1
<1>2. ASSUME NEW r, NEW io, Return(p, r, io), UNCHANGED life PROVE Good
    BY <1>a, <1>b, <1>2 DEF Return, ShellState
<1>3. ASSUME Prepare(p) PROVE Good
    <2>1. ASSUME NEW k \in Pipes, MakePipe(p, k) PROVE Good
        BY <1>a, <1>b, <2>1 DEF MakePipe, ShellState
    <2>2. ASSUME PipeFails(p) PROVE Good
        BY <1>a, <1>b, <2>2 DEF PipeFails, ShellState
    <2>3. ~ExitAfterPipeError(p) /\ ~RedirectFailsInChild(p)
          /\ ~StartProgram(p) /\ ~StartSubshell(p)
        BY <1>b DEF ExitAfterPipeError, RedirectFailsInChild, StartProgram, StartSubshell
    <2>4. ASSUME CloseIo(p) \/ ForkFails(p) \/ ExpansionFails(p) PROVE Good
        BY <1>2, <2>4 DEF CloseIo, ForkFails, ExpansionFails
    <2>5. ASSUME StartInPlace(p) PROVE Good
        BY <1>a, <1>b, <2>5 DEF StartInPlace
    <2>6. ASSUME Redirect(p) PROVE Good
        BY <1>1, <2>6 DEF Redirect
    <2>7. ASSUME StartBuiltin(p) PROVE Good
        BY <1>a, <1>b, <2>7 DEF StartBuiltin
    <2>8. ASSUME RedirectFailsInPlace(p) \/ NothingToRun(p) PROVE Good
        BY <1>2, <2>8 DEF RedirectFailsInPlace, NothingToRun
    <2>9. QED
        BY <1>3, <2>1, <2>2, <2>3, <2>4, <2>5, <2>6, <2>7, <2>8 DEF Prepare
<1>4. ~Work(p)
    <2>1. ~Running(p)
        BY <1>b, <1>c DEF Running
    <2>2. QED
        BY <2>1 DEF Work, Read, Write, BrokenPipe, EndOfInput, WriteFile, ProgramExits,
           ExitBuiltin, BuiltinEnds, WorkDone
<1>5. ASSUME Collect(p) PROVE Good
    <2>1. ASSUME NextCommand(p) PROVE Good
        BY <1>a, <1>b, <2>1 DEF NextCommand
    <2>2. ASSUME StartWait(p) PROVE Good
        BY <1>a, <1>b, <2>2 DEF StartWait, ShellState
    <2>3. ASSUME NEW z \in Procs, Reap(p, z) PROVE Good
        <3>1. z # p
            BY <1>a, <2>3 DEF Reap, Zombies
        <3>2. QED
            BY <1>a, <1>b, <2>3, <3>1 DEF Reap, ShellState
    <2>4. ~EndWithoutWait(p) /\ ~EndWait(p) /\ ~LeaveSubshell(p)
        BY <1>b DEF EndWithoutWait, EndWait, LeaveSubshell
    <2>5. QED
        BY <1>5, <2>1, <2>2, <2>3, <2>4 DEF Collect
<1>6. QED
    BY <1>3, <1>4, <1>5 DEF Step

\* No step leaves a child behind.
LEMMA ParentsStep ==
    ASSUME TypeOK, Positions, Parents, NEW p \in Procs, Flags(p), Step(p)
    PROVE  Parents'
<1>a. /\ pc \in [Procs -> Labels] /\ sh \in [Procs -> ShellState]
      /\ life \in [Procs -> Lives] /\ life[p] = "live" /\ job \in [Procs -> Job]
    BY DEF TypeOK, Step
<1>1. ASSUME \A q \in Procs : ~Fork(p, q) PROVE Parents'
    <2>1. \A r \in Procs : Children(r)' \subseteq Children(r)
        BY <1>1, LifeKept DEF Children
    <2>2. ASSUME NEW r \in Procs, r # p, Children(r)' # {}
          PROVE  /\ life'[r] = "live" /\ sh'[r].pid # 0
                 /\ pc'[r] \notin {"setup", "program", "listdone"}
        <3>1. /\ life[r] = "live" /\ sh[r].pid # 0
              /\ pc[r] \notin {"setup", "program", "listdone"}
            BY <2>1, <2>2 DEF Parents
        <3>2. QED
            BY <1>1, <2>2, <3>1, LifeKept, Others
    <2>3. Children(p)' # {} => /\ life'[p] = "live" /\ sh'[p].pid # 0
                               /\ pc'[p] \notin {"setup", "program", "listdone"}
        BY <1>1, <2>1, ParentKept
    <2>4. QED
        BY <2>2, <2>3 DEF Parents
<1>2. ASSUME NEW q \in Procs, Fork(p, q) PROVE Parents'
    <2>1. /\ p # q /\ life[q] = "free"
          /\ life' = [life EXCEPT ![q] = "live"]
          /\ pc' = [pc EXCEPT ![p] = "forked", ![q] = "setup"]
          /\ job' = [job EXCEPT ![q] = [parent |-> p, pl |-> pos[p].pl, cm |-> pos[p].cm]]
        BY <1>a, <1>2 DEF Fork
    <2>2. \A r \in Procs \ {p} : Children(r)' \subseteq Children(r)
        <3>1. job'[q].parent = p
            BY <1>a, <2>1
        <3>2. \A x \in Procs \ {q} : job'[x] = job[x] /\ life'[x] = life[x]
            BY <1>a, <2>1
        <3>3. QED
            BY <3>1, <3>2 DEF Children
    <2>3. ASSUME NEW r \in Procs, r # p, Children(r)' # {}
          PROVE  /\ life'[r] = "live" /\ sh'[r].pid # 0
                 /\ pc'[r] \notin {"setup", "program", "listdone"}
        <3>1. /\ life[r] = "live" /\ sh[r].pid # 0
              /\ pc[r] \notin {"setup", "program", "listdone"}
            BY <2>2, <2>3 DEF Parents
        <3>2. r # q
            BY <2>1, <3>1
        <3>3. sh'[r] = sh[r]
            BY <1>a, <1>2, <2>3, <3>2 DEF Fork
        <3>4. QED
            BY <1>a, <2>1, <2>3, <3>1, <3>2, <3>3
    <2>4. life'[p] = "live" /\ pc'[p] = "forked" /\ sh'[p].pid # 0
        <3>1. sh'[p].pid = q
            BY <1>a, <1>2, <2>1 DEF Fork, ShellState
        <3>2. q # 0
            BY SizesAssumption DEF Procs
        <3>3. QED
            BY <1>a, <2>1, <3>1, <3>2
    <2>5. QED
        BY <2>3, <2>4 DEF Parents
<1>3. QED
    BY <1>1, <1>2

\* The shell stays the shell: it is nobody's child and runs the list it was given.
LEMMA TopLevelStep ==
    ASSUME TypeOK, TopLevel, NEW p \in Procs, Step(p)
    PROVE  TopLevel'
<1>a. /\ pc \in [Procs -> Labels] /\ pos \in [Procs -> Position]
      /\ life \in [Procs -> Lives] /\ life[p] = "live"
    BY DEF TypeOK, Step
<1>b. Shell \in Procs
    BY SizesAssumption DEF Shell, Procs
<1>c. ASSUME NEW r, NEW io, Return(p, r, io), UNCHANGED <<life, pos>> PROVE TopLevel'
    BY <1>a, <1>b, <1>c DEF TopLevel, Return
<1>d. ASSUME NEW s, Exit(p, s), UNCHANGED pos PROVE TopLevel'
    BY <1>a, <1>b, <1>d DEF TopLevel, Exit
<1>e. ASSUME UNCHANGED <<life, pos, pc>> PROVE TopLevel'
    BY <1>e DEF TopLevel
<1>1. ASSUME Prepare(p) PROVE TopLevel'
    <2>1. ASSUME NEW k \in Pipes, MakePipe(p, k) PROVE TopLevel'
        BY <1>a, <1>b, <2>1 DEF TopLevel, MakePipe
    <2>2. ASSUME PipeFails(p) PROVE TopLevel'
        BY <1>a, <1>b, <2>2 DEF TopLevel, PipeFails
    <2>3. ASSUME NEW q \in Procs, Fork(p, q) PROVE TopLevel'
        <3>1. q # Shell
            BY <2>3 DEF TopLevel, Fork
        <3>2. QED
            BY <1>a, <1>b, <2>3, <3>1 DEF TopLevel, Fork
    <2>4. ASSUME CloseIo(p) \/ ForkFails(p) \/ ExpansionFails(p) PROVE TopLevel'
        BY <1>c, <2>4 DEF CloseIo, ForkFails, ExpansionFails
    <2>5. ASSUME StartInPlace(p) PROVE TopLevel'
        BY <1>a, <1>b, <2>5 DEF TopLevel, StartInPlace
    <2>6. ASSUME Redirect(p) PROVE TopLevel'
        BY <1>a, <1>b, <2>6 DEF TopLevel, Redirect, Position
    <2>7. ASSUME ExitAfterPipeError(p) \/ RedirectFailsInChild(p) PROVE TopLevel'
        BY <1>d, <2>7 DEF ExitAfterPipeError, RedirectFailsInChild
    <2>8. ASSUME RedirectFailsInPlace(p) \/ NothingToRun(p) PROVE TopLevel'
        BY <1>c, <2>8 DEF RedirectFailsInPlace, NothingToRun
    <2>9. ASSUME StartProgram(p) \/ StartSubshell(p) PROVE TopLevel'
        <3>1. p # Shell
            BY <2>9 DEF TopLevel, StartProgram, StartSubshell
        <3>2. life' = life /\ pos'[Shell] = pos[Shell] /\ pc'[Shell] = pc[Shell]
            BY <1>a, <1>b, <2>9, <3>1 DEF StartProgram, StartSubshell
        <3>3. QED
            BY <3>2 DEF TopLevel
    <2>10. ASSUME StartBuiltin(p) PROVE TopLevel'
        BY <1>a, <1>b, <2>10 DEF TopLevel, StartBuiltin
    <2>11. QED
        BY <1>1, <2>1, <2>2, <2>3, <2>4, <2>5, <2>6, <2>7, <2>8, <2>9, <2>10 DEF Prepare
<1>2. ASSUME Work(p) PROVE TopLevel'
    <2>1. ASSUME NEW k \in Pipes, Read(p, k) \/ Write(p, k) \/ BrokenPipe(p, k)
          PROVE  TopLevel'
        BY <1>d, <1>e, <2>1 DEF Read, Write, BrokenPipe
    <2>2. ASSUME EndOfInput(p) \/ WriteFile(p) PROVE TopLevel'
        BY <1>e, <2>2 DEF EndOfInput, WriteFile
    <2>3. ASSUME NEW s, ProgramExits(p, s) \/ ExitBuiltin(p, s) PROVE TopLevel'
        BY <1>d, <2>3 DEF ProgramExits, ExitBuiltin
    <2>4. ASSUME NEW s, BuiltinEnds(p, s) PROVE TopLevel'
        BY <1>a, <1>b, <2>4 DEF TopLevel, BuiltinEnds
    <2>5. QED
        BY <1>2, <2>1, <2>2, <2>3, <2>4 DEF Work
<1>3. ASSUME Collect(p) PROVE TopLevel'
    <2>1. ASSUME NextCommand(p) PROVE TopLevel'
        BY <1>a, <1>b, <2>1 DEF TopLevel, NextCommand, Position
    <2>2. ASSUME StartWait(p) PROVE TopLevel'
        BY <1>a, <1>b, <2>2 DEF TopLevel, StartWait
    <2>3. ASSUME NEW z \in Procs, Reap(p, z) PROVE TopLevel'
        BY <1>a, <1>b, <2>3 DEF TopLevel, Reap
    <2>4. ASSUME NEW s, EndPipeline(p, s) PROVE TopLevel'
        <3>1. PICK l \in {"command", "listdone"} : pc' = [pc EXCEPT ![p] = l]
            BY <2>4 DEF EndPipeline
        <3>2. PICK n : pos' = [pos EXCEPT ![p].pl = n, ![p].cm = 1, ![p].rd = 1]
            BY <2>4 DEF EndPipeline
        <3>3. life' = life
            BY <2>4 DEF EndPipeline
        <3>4. QED
            BY <1>a, <1>b, <3>1, <3>2, <3>3 DEF TopLevel, Position
    <2>5. ASSUME LeaveSubshell(p) PROVE TopLevel'
        BY <1>d, <2>5 DEF LeaveSubshell
    <2>6. QED
        BY <1>3, <2>1, <2>2, <2>3, <2>4, <2>5 DEF Collect, EndWithoutWait, EndWait
<1>4. QED
    BY <1>1, <1>2, <1>3 DEF Step

\* The invariant is inductive.
LEMMA StepInv == IInv /\ [Next]_vars => IInv'
<1> SUFFICES ASSUME IInv, [Next]_vars PROVE IInv'
    OBVIOUS
<1>a. /\ TypeOK /\ Lifecycle /\ Parents /\ TopLevel
      /\ \A r \in Procs : Local(r) /\ Place(r) /\ Flags(r)
      /\ Positions
    BY DEF IInv, Local, Positions
<1>1. ASSUME NEW p \in Procs, Step(p) PROVE IInv'
    <2>1. TypeOK'
        <3>1. Prepare(p) \/ Work(p) \/ Collect(p)
            BY <1>1 DEF Step
        <3>2. QED
            BY <1>a, <3>1, PrepareTyped, WorkTyped, CollectTyped
    <2>2. \A r \in Procs : Local(r)'
        <3>1. CASE \A q \in Procs : ~Fork(p, q)
            <4>1. Local(p)'
                BY <1>1, <1>a, <3>1, PrepareLocal, WorkLocal, CollectLocal DEF Step
            <4>2. ASSUME NEW r \in Procs \ {p} PROVE Local(r)'
                BY <1>1, <1>a, <3>1, Others, ScriptKept, LocalSame
            <4>3. QED
                BY <4>1, <4>2
        <3>2. ASSUME NEW q \in Procs, Fork(p, q) PROVE \A r \in Procs : Local(r)'
            <4>1. Local(p)' /\ Local(q)' /\ p # q
                BY <1>1, <1>a, <3>2, ForkLocal DEF Step
            <4>2. ASSUME NEW r \in Procs \ {p, q} PROVE Local(r)'
                <5>1. ~Fork(p, r)
                    <6>1. pc'[r] = pc[r] /\ life'[r] = life[r]
                        BY <1>a, <3>2, <4>1 DEF Fork, TypeOK
                    <6>2. Fork(p, r) => life'[r] = "live" /\ life[r] = "free"
                        BY <1>a DEF Fork, TypeOK
                    <6>3. QED
                        BY <6>1, <6>2
                <5>2. QED
                    BY <1>1, <1>a, <5>1, Others, ScriptKept, LocalSame
            <4>3. QED
                BY <4>1, <4>2
        <3>3. QED
            BY <3>1, <3>2
    <2>3. Lifecycle' /\ Parents' /\ TopLevel'
        BY <1>1, <1>a, LifecycleStep, ParentsStep, TopLevelStep
    <2>4. QED
        BY <2>1, <2>2, <2>3 DEF IInv
<1>2. ASSUME UNCHANGED vars PROVE IInv'
    <2>1. TypeOK'
        BY <1>a, <1>2 DEF TypeOK, vars
    <2>2. \A r \in Procs : Local(r)'
        BY <1>a, <1>2, LocalSame DEF vars
    <2>3. Lifecycle' /\ Parents' /\ TopLevel'
        BY <1>a, <1>2 DEF Lifecycle, Parents, Children, TopLevel, vars
    <2>4. QED
        BY <2>1, <2>2, <2>3 DEF IInv
<1>3. QED
    BY <1>1, <1>2 DEF Next

\* The invariant holds in every reachable state.
LEMMA Invariant == Spec => []IInv
<1>1. QED
    BY InitInv, StepInv, PTL DEF Spec

-------------------------------------------------------------------------------
(* The theorems.                                                               *)

(* Every variable of the executor stays in its domain, whatever the script and
   however its processes interleave (the fields of t_ctx, inc/types.h).        *)
THEOREM TypeCorrect == Spec => []TypeOK
<1>1. IInv => TypeOK
    BY DEF IInv
<1>2. QED
    BY Invariant, <1>1, PTL

(* A shell that is between pipelines, and a process that has ended, has no child
   left: execute_pipeline collects every process it forked on each of its paths
   (wait_return_status, handle_pipe_error and the early returns).              *)
THEOREM ChildrenCollected == Spec => []NoStrayChildren
<1>1. IInv => NoStrayChildren
    BY DEF IInv, Parents, NoStrayChildren
<1>2. QED
    BY Invariant, <1>1, PTL

(* A builtin of a pipeline of several commands never runs in the shell itself
   (is_pipe as pipe_and_execute_simple_command and wait_return_status keep it). *)
THEOREM BuiltinsForked == Spec => []BuiltinsInPipelinesForked
<1>1. IInv => BuiltinsInPipelinesForked
    BY BuiltinAlone DEF IInv, Local, Positions, BuiltinsInPipelinesForked
<1>2. QED
    BY Invariant, <1>1, PTL

(* A shell blocked in waitpid keeps no pipe open in pipe_fd or io_fd, unless an
   early return has left io_fd behind (close_io, close_all_fds).               *)
THEOREM PipesClosedInWait == Spec => []WaitsWithPipesClosed
<1>1. IInv => WaitsWithPipesClosed
    BY DEF IInv, Local, Closing, WaitsWithPipesClosed
<1>2. QED
    BY Invariant, <1>1, PTL

-------------------------------------------------------------------------------
(* The executor implements the and-or list.                                    *)

(* Nothing but the end of a pipeline moves the shell along its list, and nothing
   but a builtin tells it to leave.                                            *)
LEMMA ListKept ==
    ASSUME TypeOK, TopLevel, Step(Shell), ~EndWithoutWait(Shell), ~EndWait(Shell)
    PROVE  /\ pos'[Shell].pl = pos[Shell].pl
           /\ sh'[Shell].status = sh[Shell].status
           /\ \/ sh'[Shell].shouldExit = sh[Shell].shouldExit
              \/ pc[Shell] = "builtin" /\ sh'[Shell].shouldExit = TRUE
<1> DEFINE p == Shell
           Kept == /\ pos'[p].pl = pos[p].pl
                   /\ sh'[p].status = sh[p].status
                   /\ \/ sh'[p].shouldExit = sh[p].shouldExit
                      \/ pc[p] = "builtin" /\ sh'[p].shouldExit = TRUE
<1>a. /\ pos \in [Procs -> Position] /\ sh \in [Procs -> ShellState]
      /\ pc[p] \notin {"setup", "program"} /\ p \in Procs /\ life[p] = "live"
    BY SizesAssumption DEF TypeOK, TopLevel, Step, Shell, Procs
<1> HIDE DEF p
<1>b. ASSUME NEW r, NEW io, Return(p, r, io), UNCHANGED pos PROVE Kept
    BY <1>a, <1>b DEF Return, ShellState
<1>c. ASSUME UNCHANGED <<pos, sh>> PROVE Kept
    BY <1>c
<1> HIDE DEF Kept
<1>1. ASSUME Prepare(p) PROVE Kept
    <2>1. ASSUME NEW k \in Pipes, MakePipe(p, k) PROVE Kept
        BY <1>a, <2>1 DEF Kept, MakePipe, ShellState
    <2>2. ASSUME PipeFails(p) PROVE Kept
        BY <1>a, <2>2 DEF Kept, PipeFails, ShellState
    <2>3. ASSUME NEW q \in Procs, Fork(p, q) PROVE Kept
        <3>1. p # q
            BY <1>a, <2>3 DEF Fork
        <3>2. QED
            BY <1>a, <2>3, <3>1 DEF Kept, Fork, ShellState
    <2>4. ASSUME CloseIo(p) \/ ForkFails(p) \/ ExpansionFails(p) PROVE Kept
        BY <1>b, <2>4 DEF CloseIo, ForkFails, ExpansionFails
    <2>5. ASSUME StartInPlace(p) \/ StartBuiltin(p) PROVE Kept
        BY <1>c, <2>5 DEF StartInPlace, StartBuiltin
    <2>6. ASSUME Redirect(p) PROVE Kept
        BY <1>a, <2>6 DEF Kept, Redirect, Position
    <2>7. ASSUME ExitAfterPipeError(p) \/ RedirectFailsInChild(p) PROVE Kept
        BY <1>c, <2>7 DEF ExitAfterPipeError, RedirectFailsInChild
    <2>8. ASSUME RedirectFailsInPlace(p) \/ NothingToRun(p) PROVE Kept
        BY <1>b, <2>8 DEF RedirectFailsInPlace, NothingToRun
    <2>9. ~StartProgram(p) /\ ~StartSubshell(p)
        BY <1>a DEF StartProgram, StartSubshell
    <2>10. QED
        BY <1>1, <2>1, <2>2, <2>3, <2>4, <2>5, <2>6, <2>7, <2>8, <2>9 DEF Prepare
<1>2. ASSUME Work(p) PROVE Kept
    <2>1. ASSUME NEW k \in Pipes, Read(p, k) \/ Write(p, k) \/ BrokenPipe(p, k) PROVE Kept
        BY <1>c, <2>1 DEF Read, Write, BrokenPipe
    <2>2. ASSUME EndOfInput(p) \/ WriteFile(p) PROVE Kept
        BY <1>c, <2>2 DEF EndOfInput, WriteFile
    <2>3. ASSUME NEW s, ProgramExits(p, s) \/ ExitBuiltin(p, s) PROVE Kept
        BY <1>c, <2>3 DEF ProgramExits, ExitBuiltin
    <2>4. ASSUME NEW s, BuiltinEnds(p, s) PROVE Kept
        BY <1>a, <2>4 DEF Kept, BuiltinEnds, ShellState
    <2>5. QED
        BY <1>2, <2>1, <2>2, <2>3, <2>4 DEF Work
<1>3. ASSUME Collect(p) PROVE Kept
    <2>1. ASSUME NextCommand(p) PROVE Kept
        BY <1>a, <2>1 DEF Kept, NextCommand, Position
    <2>2. ASSUME StartWait(p) PROVE Kept
        BY <1>a, <2>2 DEF Kept, StartWait, ShellState
    <2>3. ASSUME NEW z \in Procs, Reap(p, z) PROVE Kept
        BY <1>a, <2>3 DEF Kept, Reap, ShellState
    <2>4. ~EndWithoutWait(p) /\ ~EndWait(p)
        BY DEF p
    <2>5. ASSUME LeaveSubshell(p) PROVE Kept
        BY <1>c, <2>5 DEF LeaveSubshell
    <2>6. QED
        BY <1>3, <2>1, <2>2, <2>3, <2>4, <2>5 DEF Collect
<1>4. Kept
    BY <1>1, <1>2, <1>3 DEF Step, p
<1>5. QED
    BY <1>4 DEF Kept, p

\* Every step of the executor is a step of the abstract list, or leaves it alone.
LEMMA StepPromised ==
    ASSUME IInv, [Next]_vars
    PROVE  [Promise!Next]_Promise!vars
<1>a. /\ TypeOK /\ Positions /\ TopLevel /\ Shell \in Procs
      /\ List(Shell) = script[1] /\ script \in Scripts
    BY SizesAssumption DEF IInv, Local, Positions, TopLevel, List, TypeOK, Shell, Procs
<1>1. ASSUME script' = script, pos'[Shell].pl = pos[Shell].pl,
             sh'[Shell].status = sh[Shell].status,
             sh'[Shell].shouldExit = sh[Shell].shouldExit
      PROVE  UNCHANGED Promise!vars
    BY <1>1 DEF Promise!vars
<1>2. ASSUME NEW s \in ExitStatuses, pc[Shell] \in {"after", "wait"}, EndPipeline(Shell, s)
      PROVE  Promise!Next
    <2> DEFINE len == Len(List(Shell))
               nxt == IF sh[Shell].shouldExit THEN len + 1
                      ELSE GetNext(Ops(List(Shell)), pos[Shell].pl, s)
    <2>1. /\ script' = script /\ sh'[Shell].status = s /\ pos'[Shell].pl = nxt
          /\ sh'[Shell].shouldExit = sh[Shell].shouldExit
        BY <1>a, <1>2 DEF EndPipeline, TypeOK, Position, ShellState
    <2>2. /\ pos[Shell].pl \in 1 .. len /\ Len(Ops(script[1])) = len
          /\ Ops(script[1]) \in Seq(Connectors)
        BY <1>a, <1>2, CmdTypes, NextPipeline
    <2>3. OneLine(Ops(script[1]))
        BY <1>a, ScriptsAssumption
    <2>4. GetNext(Ops(script[1]), pos[Shell].pl, s) = NextRun(Ops(script[1]), pos[Shell].pl, s)
        BY <2>2, <2>3, GetNextIsNextRun DEF ExitStatuses, SigPipe
    <2>5. CASE sh[Shell].shouldExit
        <3>1. Promise!Abandon(s)
            BY <1>a, <2>1, <2>2, <2>5 DEF Promise!Abandon
        <3>2. QED
            BY <3>1 DEF Promise!Next
    <2>6. CASE ~sh[Shell].shouldExit
        <3>1. Promise!Run(s)
            <4>1. \A ops, i : Promise!NextRun(ops, i, s) = NextRun(ops, i, s)
                BY DEF NextRun, Runnable, Satisfied, Min, Promise!NextRun, Promise!Runnable,
                       Promise!Satisfied, Promise!Min
            <4>2. QED
                BY <1>a, <2>1, <2>2, <2>4, <2>6, <4>1 DEF Promise!Run
        <3>2. QED
            BY <3>1 DEF Promise!Next
    <2>7. QED
        BY <2>5, <2>6
<1>3. ASSUME NEW p \in Procs, Step(p), p # Shell PROVE UNCHANGED Promise!vars
    <2>1. ~Fork(p, Shell)
        BY <1>a DEF TopLevel, Fork
    <2>2. QED
        BY <1>a, <1>1, <1>3, <2>1, Others, ScriptKept
<1>4. ASSUME Step(Shell) PROVE [Promise!Next]_Promise!vars
    <2>1. CASE ~EndWithoutWait(Shell) /\ ~EndWait(Shell)
        <3>1. /\ pos'[Shell].pl = pos[Shell].pl
              /\ sh'[Shell].status = sh[Shell].status
              /\ script' = script
              /\ \/ sh'[Shell].shouldExit = sh[Shell].shouldExit
                 \/ pc[Shell] = "builtin" /\ sh'[Shell].shouldExit = TRUE
            BY <1>a, <1>4, <2>1, ListKept, ScriptKept
        <3>2. CASE sh'[Shell].shouldExit = sh[Shell].shouldExit
            BY <1>1, <3>1, <3>2
        <3>3. CASE sh'[Shell].shouldExit # sh[Shell].shouldExit
            <4>1. pc[Shell] = "builtin" /\ sh'[Shell].shouldExit = TRUE
                BY <3>1, <3>3
            <4>2. pos[Shell].pl \in 1 .. Len(Ops(script[1]))
                <5>1. pos[Shell].pl \in 1 .. Len(List(Shell))
                    BY <1>a, <4>1, CmdTypes
                <5>2. Len(Ops(List(Shell))) = Len(List(Shell))
                    BY <1>a, <4>1, NextPipeline, 0 \in ExitStatuses DEF ExitStatuses
                <5>3. QED
                    BY <1>a, <5>1, <5>2
            <4>3. sh[Shell].shouldExit \in BOOLEAN
                BY <1>a DEF TypeOK, ShellState
            <4>4. Promise!Leave
                BY <3>1, <3>3, <4>1, <4>2, <4>3 DEF Promise!Leave
            <4>5. QED
                BY <4>4 DEF Promise!Next
        <3>4. QED
            BY <3>2, <3>3
    <2>2. ASSUME EndWithoutWait(Shell) \/ EndWait(Shell) PROVE Promise!Next
        <3>1. sh[Shell].result \in ExitStatuses /\ sh[Shell].waited \in ExitStatuses
            BY <1>a DEF TypeOK, ShellState
        <3>2. QED
            BY <1>2, <2>2, <3>1 DEF EndWithoutWait, EndWait
    <2>3. QED
        BY <2>1, <2>2
<1>5. ASSUME UNCHANGED vars PROVE UNCHANGED Promise!vars
    BY <1>1, <1>5 DEF vars
<1>6. QED
    BY <1>3, <1>4, <1>5 DEF Next

(* The list typed by the user is run as AndOrList promises: one pipeline at a time,
   each only if its connector agrees with the status of the one before, for every
   list without an inner newline (execute_list, get_next).                     *)
THEOREM ListPromised == Spec => ListPromise
<1>1. Init => Promise!Init
    <2> SUFFICES ASSUME Init PROVE Promise!Init
        OBVIOUS
    <2>1. Shell \in Procs
        BY SizesAssumption DEF Shell, Procs
    <2>2. /\ pos[Shell].pl = 1 /\ sh[Shell].status = 0 /\ script \in Scripts
          /\ sh[Shell].shouldExit = FALSE
        BY <2>1 DEF Init, Start
    <2>3. QED
        BY <2>2 DEF Promise!Init
<1>2. IInv /\ [Next]_vars => [Promise!Next]_Promise!vars
    BY StepPromised
<1>3. QED
    BY Invariant, <1>1, <1>2, PTL DEF Spec, ListPromise, Promise!Spec

-------------------------------------------------------------------------------
(* The status of a pipeline                                                     *)

\* The job of the command that shell p is at.
Here(p) == [parent |-> p, pl |-> pos[p].pl, cm |-> pos[p].cm]

(* Whatever p has forked was forked for a command p has already passed, or is just
   leaving.                                                                   *)
JobsBehind(p) ==
    \A q \in Procs : job[q].parent = p =>
        /\ life[q] # "free" /\ life[p] # "free" /\ pc[p] \notin {"setup", "program"}
        /\ \/ job[q].pl < pos[p].pl
           \/ job[q].pl = pos[p].pl /\ job[q].cm < pos[p].cm
           \/ /\ job[q].pl = pos[p].pl /\ job[q].cm = pos[p].cm
              /\ pc[p] \in {"forked", "after", "wait"}

(* A shell waits at the last command of a pipeline, if it has something to wait for
   or is to leave; redirections alone run in place outside pipelines only; who is
   told to leave goes straight to the end.                                    *)
Flow(p) ==
    /\ pc[p] = "wait" => ~Piped(p)
    /\ pc[p] = "wait" => sh[p].shouldExit \/ sh[p].pid # 0
    /\ pc[p] = "redir" /\ Cmd(p).kind = "void" => ~sh[p].isPipe
    /\ sh[p].shouldExit => pc[p] \in {"after", "wait", "listdone", "off"}
    /\ sh[p].shouldExit /\ pc[p] \in {"after", "wait"} => sh[p].pid = 0 /\ ~Piped(p)

Unwaited == {"command", "simple", "forked", "redir", "builtin", "after"}

(* pid_to_wait is the process of the last command that was forked, which nobody has
   reaped before the shell waits.                                             *)
Recent(p) ==
    pc[p] \in Unwaited /\ sh[p].pid # 0 =>
        job[sh[p].pid].parent = p /\ life[sh[p].pid] \in {"live", "zombie"}

(* When a command is over, either it has a process, which is the one to wait for,
   or it has none and its result says so, if there is anything to wait for.    *)
Decided(p) ==
    /\ pc[p] = "forked" => sh[p].pid # 0 /\ job[sh[p].pid] = Here(p)
    /\ pc[p] \in {"after", "wait"} =>
        \/ sh[p].pid # 0 /\ job[sh[p].pid] = Here(p) /\ sh[p].result = 0
        \/ /\ \A q \in Procs : job[q] # Here(p)
           /\ sh[p].pid = 0 \/ sh[p].result # 0

\* A shell that has reaped the process it waits for knows its status.
Known(p) ==
    pc[p] = "wait" /\ sh[p].pid # 0 =>
        /\ job[sh[p].pid].parent = p /\ life[sh[p].pid] # "free"
        /\ life[sh[p].pid] = "reaped" => sh[p].waited = code[sh[p].pid]

Tracked(p) == JobsBehind(p) /\ Flow(p) /\ Recent(p) /\ Decided(p) /\ Known(p)

StatusInv == IInv /\ \A p \in Procs : Tracked(p)

-------------------------------------------------------------------------------
(* What a step of p does to the processes around it.                           *)

\* Nobody but p ends, and nobody but a child of p that has ended is reaped.
Around(p) ==
    /\ \A z \in Procs : life[z] # "free" => job'[z] = job[z] /\ life'[z] # "free"
    /\ \A z \in Procs : z # p /\ job[z].parent # p /\ life[z] # "free"
                            => life'[z] = life[z]
    /\ \A z \in Procs : life[z] = "live" => life'[z] \in {"live", "zombie"}
    /\ \A z \in Procs : z # p => code'[z] = code[z]
    /\ \A z \in Procs : job'[z] # job[z] => job'[z].parent = p /\ Fork(p, z)

\* Every step of p keeps to its surroundings.
LEMMA StepAround ==
    ASSUME TypeOK, NEW p \in Procs, Step(p)
    PROVE  Around(p)
<1>a. /\ life \in [Procs -> Lives] /\ life[p] = "live"
      /\ job \in [Procs -> Job] /\ code \in [Procs -> ExitStatuses]
    BY DEF TypeOK, Step
<1>1. ASSUME NEW s, Exit(p, s), UNCHANGED job PROVE Around(p)
    BY <1>a, <1>1 DEF Around, Exit
<1>2. ASSUME UNCHANGED <<life, job, code>> PROVE Around(p)
    BY <1>a, <1>2 DEF Around
<1>3. ASSUME NEW q \in Procs, Fork(p, q) PROVE Around(p)
    <2>1. /\ life[q] = "free" /\ life' = [life EXCEPT ![q] = "live"] /\ code' = code
          /\ job' = [job EXCEPT ![q] =
                [parent |-> p, pl |-> pos[p].pl, cm |-> pos[p].cm]]
        BY <1>3 DEF Fork
    <2>2. \A z \in Procs : z # q => job'[z] = job[z] /\ life'[z] = life[z]
        BY <1>a, <2>1
    <2>3. job'[q].parent = p /\ life'[q] = "live"
        BY <1>a, <2>1
    <2>4. QED
        BY <1>a, <1>3, <2>1, <2>2, <2>3 DEF Around
<1>4. ASSUME Prepare(p) PROVE Around(p)
    <2>1. ASSUME NEW k \in Pipes, MakePipe(p, k) PROVE Around(p)
        BY <1>2, <2>1 DEF MakePipe
    <2>2. ASSUME PipeFails(p) \/ ExitAfterPipeError(p) PROVE Around(p)
        BY <1>1, <1>2, <2>2 DEF PipeFails, ExitAfterPipeError
    <2>3. ASSUME CloseIo(p) \/ ForkFails(p) \/ ExpansionFails(p) PROVE Around(p)
        BY <1>2, <2>3 DEF CloseIo, ForkFails, ExpansionFails
    <2>4. ASSUME StartInPlace(p) \/ Redirect(p) PROVE Around(p)
        BY <1>2, <2>4 DEF StartInPlace, Redirect
    <2>5. ASSUME RedirectFailsInChild(p) \/ RedirectFailsInPlace(p) PROVE Around(p)
        BY <1>1, <1>2, <2>5 DEF RedirectFailsInChild, RedirectFailsInPlace
    <2>6. ASSUME StartProgram(p) \/ StartSubshell(p) \/ StartBuiltin(p) PROVE Around(p)
        BY <1>2, <2>6 DEF StartProgram, StartSubshell, StartBuiltin
    <2>7. ASSUME NothingToRun(p) PROVE Around(p)
        BY <1>2, <2>7 DEF NothingToRun
    <2>8. QED
        BY <1>3, <1>4, <2>1, <2>2, <2>3, <2>4, <2>5, <2>6, <2>7 DEF Prepare
<1>5. ASSUME Work(p) PROVE Around(p)
    <2>1. ASSUME NEW k \in Pipes, Read(p, k) \/ Write(p, k) \/ BrokenPipe(p, k)
          PROVE  Around(p)
        BY <1>1, <1>2, <2>1 DEF Read, Write, BrokenPipe
    <2>2. ASSUME EndOfInput(p) \/ WriteFile(p) PROVE Around(p)
        BY <1>2, <2>2 DEF EndOfInput, WriteFile
    <2>3. ASSUME NEW s, ProgramExits(p, s) \/ ExitBuiltin(p, s) PROVE Around(p)
        BY <1>1, <2>3 DEF ProgramExits, ExitBuiltin
    <2>4. ASSUME NEW s, BuiltinEnds(p, s) PROVE Around(p)
        BY <1>2, <2>4 DEF BuiltinEnds
    <2>5. QED
        BY <1>5, <2>1, <2>2, <2>3, <2>4 DEF Work
<1>6. ASSUME Collect(p) PROVE Around(p)
    <2>1. ASSUME NextCommand(p) \/ StartWait(p) PROVE Around(p)
        BY <1>2, <2>1 DEF NextCommand, StartWait
    <2>2. ASSUME NEW z \in Procs, Reap(p, z) PROVE Around(p)
        <3>1. /\ life[z] = "zombie" /\ job[z].parent = p
              /\ life' = [life EXCEPT ![z] = "reaped"] /\ job' = job /\ code' = code
            BY <2>2 DEF Reap, Zombies, Children
        <3>2. QED
            BY <1>a, <3>1 DEF Around
    <2>3. ASSUME NEW s, EndPipeline(p, s) PROVE Around(p)
        BY <1>2, <2>3 DEF EndPipeline
    <2>4. ASSUME LeaveSubshell(p) PROVE Around(p)
        BY <1>1, <2>4 DEF LeaveSubshell
    <2>5. QED
        BY <1>6, <2>1, <2>2, <2>3, <2>4 DEF Collect, EndWithoutWait, EndWait
<1>7. QED
    BY <1>4, <1>5, <1>6 DEF Step

\* What p does leaves the part of the invariant of any other process alone.
LEMMA OthersTracked ==
    ASSUME IInv, \A z \in Procs : JobsBehind(z), NEW p \in Procs, Step(p),
           NEW r \in Procs \ {p}, Tracked(r), ~Fork(p, r)
    PROVE  Tracked(r)'
<1>a. /\ TypeOK /\ sh \in [Procs -> ShellState] /\ job \in [Procs -> Job]
      /\ life \in [Procs -> Lives]
    BY DEF IInv, TypeOK
<1>1. /\ pc'[r] = pc[r] /\ pos'[r] = pos[r] /\ sh'[r] = sh[r] /\ script' = script
      /\ Here(r)' = Here(r)
    BY <1>a, Others, ScriptKept DEF Here
<1>2. Around(p)
    BY <1>a, StepAround
<1>3. \A z \in Procs : /\ job'[z].parent = r => job'[z] = job[z]
                       /\ job[z].parent = r => job'[z] = job[z]
                       /\ job'[z] = Here(r) <=> job[z] = Here(r)
    <2> SUFFICES ASSUME NEW z \in Procs
                 PROVE  /\ job'[z].parent = r => job'[z] = job[z]
                        /\ job[z].parent = r => job'[z] = job[z]
                        /\ job'[z] = Here(r) <=> job[z] = Here(r)
        OBVIOUS
    <2>1. job'[z].parent = r => job'[z] = job[z]
        BY <1>2 DEF Around
    <2>2. job[z].parent = r => life[z] # "free"
        BY DEF JobsBehind
    <2>3. life[z] # "free" => job'[z] = job[z]
        BY <1>2 DEF Around
    <2>4. Here(r).parent = r
        BY DEF Here
    <2>5. QED
        BY <2>1, <2>2, <2>3, <2>4
<1>4. JobsBehind(r)'
    <2> SUFFICES ASSUME NEW q \in Procs, job'[q].parent = r
                 PROVE  /\ life'[q] # "free" /\ life'[r] # "free"
                        /\ pc'[r] \notin {"setup", "program"}
                        /\ \/ job'[q].pl < pos'[r].pl
                           \/ job'[q].pl = pos'[r].pl /\ job'[q].cm < pos'[r].cm
                           \/ /\ job'[q].pl = pos'[r].pl /\ job'[q].cm = pos'[r].cm
                              /\ pc'[r] \in {"forked", "after", "wait"}
        BY DEF JobsBehind
    <2>1. job'[q] = job[q]
        BY <1>3
    <2>2. life[q] # "free" /\ life[r] # "free"
        BY <2>1 DEF Tracked, JobsBehind
    <2>3. life'[q] # "free" /\ life'[r] # "free"
        BY <1>2, <2>2 DEF Around
    <2>4. QED
        BY <1>1, <2>1, <2>3 DEF Tracked, JobsBehind
<1>5. Flow(r)'
    BY <1>1 DEF Tracked, Flow, Piped, Cmd, Cmds, List
<1>6. \A z \in Procs : job[z].parent = r /\ life[z] \in {"live", "zombie"}
                        => life'[z] \in {"live", "zombie"}
    BY <1>2 DEF Around, Step
<1>7. sh[r].pid \in {0} \cup Procs
    BY <1>a DEF ShellState
<1>8. Recent(r)'
    <2> SUFFICES ASSUME pc'[r] \in Unwaited, sh'[r].pid # 0
                 PROVE  job'[sh'[r].pid].parent = r /\ life'[sh'[r].pid] \in {"live", "zombie"}
        BY DEF Recent
    <2>1. /\ sh[r].pid \in Procs
          /\ job[sh[r].pid].parent = r /\ life[sh[r].pid] \in {"live", "zombie"}
        BY <1>1, <1>7 DEF Tracked, Recent
    <2>2. QED
        BY <1>1, <1>3, <1>6, <2>1
<1>9. Decided(r)'
    <2>1. sh[r].pid # 0 => (job'[sh[r].pid] = Here(r) <=> job[sh[r].pid] = Here(r))
        BY <1>3, <1>7
    <2>2. QED
        BY <1>1, <1>3, <2>1 DEF Tracked, Decided
<1>10. Known(r)'
    <2> SUFFICES ASSUME pc'[r] = "wait", sh'[r].pid # 0
                 PROVE  /\ job'[sh'[r].pid].parent = r /\ life'[sh'[r].pid] # "free"
                        /\ life'[sh'[r].pid] = "reaped"
                                => sh'[r].waited = code'[sh'[r].pid]
        BY DEF Known
    <2> DEFINE z == sh[r].pid
    <2>1. /\ z \in Procs /\ job[z].parent = r /\ life[z] # "free"
          /\ life[z] = "reaped" => sh[r].waited = code[z]
        BY <1>1, <1>7 DEF Tracked, Known
    <2> HIDE DEF z
    <2>2. job'[z] = job[z] /\ life'[z] # "free"
        BY <1>3, <1>2, <2>1 DEF Around
    <2>3. CASE z = p
        <3>1. life[p] = "live"
            BY DEF Step
        <3>2. life'[z] # "reaped"
            BY <1>2, <2>3, <3>1 DEF Around
        <3>3. QED
            BY <1>1, <2>1, <2>2, <3>2 DEF z
    <2>4. CASE z # p
        <3>1. life'[z] = life[z] /\ code'[z] = code[z]
            BY <1>2, <2>1, <2>4 DEF Around
        <3>2. QED
            BY <1>1, <2>1, <2>2, <3>1 DEF z
    <2>5. QED
        BY <2>3, <2>4
<1>11. QED
    BY <1>4, <1>5, <1>8, <1>9, <1>10 DEF Tracked

-------------------------------------------------------------------------------
(* What a step of p does to p itself.                                          *)

Leaving == {"forked", "after", "wait"}

\* p never goes back to a command it has forked a process for.
GoesOn(p) ==
    \/ pc[p] \in {"setup", "program"}
    \/ /\ pc'[p] \notin {"setup", "program"}
       /\ \/ pos'[p].pl > pos[p].pl
          \/ pos'[p].pl = pos[p].pl /\ pos'[p].cm > pos[p].cm
          \/ /\ pos'[p].pl = pos[p].pl /\ pos'[p].cm = pos[p].cm
             /\ pc[p] \in Leaving => pc'[p] \in Leaving

\* The processes p has forked stay behind it.
LEMMA JobsStayBehind ==
    ASSUME TypeOK, TypeOK', NEW p \in Procs, Step(p), \A q \in Procs : ~Fork(p, q),
           JobsBehind(p), GoesOn(p)
    PROVE  JobsBehind(p)'
<1> SUFFICES ASSUME NEW q \in Procs, job'[q].parent = p
             PROVE  /\ life'[q] # "free" /\ life'[p] # "free"
                    /\ pc'[p] \notin {"setup", "program"}
                    /\ \/ job'[q].pl < pos'[p].pl
                       \/ job'[q].pl = pos'[p].pl /\ job'[q].cm < pos'[p].cm
                       \/ /\ job'[q].pl = pos'[p].pl /\ job'[q].cm = pos'[p].cm
                          /\ pc'[p] \in {"forked", "after", "wait"}
    BY DEF JobsBehind
<1>1. Around(p)
    BY StepAround
<1>2. job'[q] = job[q]
    BY <1>1 DEF Around
<1>3. /\ life[q] # "free" /\ life[p] # "free" /\ pc[p] \notin {"setup", "program"}
      /\ \/ job[q].pl < pos[p].pl
         \/ job[q].pl = pos[p].pl /\ job[q].cm < pos[p].cm
         \/ job[q].pl = pos[p].pl /\ job[q].cm = pos[p].cm /\ pc[p] \in Leaving
    BY <1>2 DEF JobsBehind, Leaving
<1>4. life'[q] # "free" /\ life'[p] # "free"
    BY <1>1, <1>3 DEF Around
<1>5. /\ pos[p].pl \in Nat /\ pos[p].cm \in Nat /\ pos'[p].pl \in Nat /\ pos'[p].cm \in Nat
      /\ job[q].pl \in Nat /\ job[q].cm \in Nat
    BY DEF TypeOK, Position, Job
<1>6. QED
    BY <1>2, <1>3, <1>4, <1>5 DEF GoesOn, Leaving

\* A process that ends.
LEMMA ExitTracked ==
    ASSUME TypeOK, TypeOK', NEW p \in Procs, Step(p), \A q \in Procs : ~Fork(p, q),
           Tracked(p), NEW s, Exit(p, s), pc[p] \notin Leaving, UNCHANGED <<pos, sh>>
    PROVE  Tracked(p)'
<1>1. pc'[p] = "off"
    BY DEF Exit, TypeOK
<1>2. JobsBehind(p)'
    BY <1>1, JobsStayBehind DEF Tracked, GoesOn
<1>3. QED
    BY <1>1, <1>2 DEF Tracked, Flow, Recent, Unwaited, Decided, Known

(* A command that returns without a process of its own: its result is an error
   unless nothing of its pipeline was forked.                                 *)
LEMMA ReturnTracked ==
    ASSUME TypeOK, TypeOK', Positions, NEW p \in Procs, Step(p),
           \A q \in Procs : ~Fork(p, q), Tracked(p), NEW io, NEW r \in ExitStatuses,
           Return(p, r, io), UNCHANGED <<script, life, pos, work, job, code, fill, plug>>,
           pc[p] = "redir" \/ Ready(p), r # 0 \/ sh[p].pid = 0
    PROVE  Tracked(p)'
<1>1. /\ pc'[p] = "after" /\ sh'[p].pid = sh[p].pid /\ sh'[p].result = r
      /\ sh'[p].shouldExit = sh[p].shouldExit /\ Here(p)' = Here(p)
      /\ pc[p] \in {"redir", "simple", "command"}
    BY DEF Return, TypeOK, ShellState, Here, Ready
<1>2. JobsBehind(p)'
    BY <1>1, JobsStayBehind DEF Tracked, GoesOn, Leaving
<1>3. \A q \in Procs : job'[q] # Here(p)
    <2> SUFFICES ASSUME NEW q \in Procs, job[q] = Here(p) PROVE FALSE
        OBVIOUS
    <2>1. job[q].parent = p /\ job[q].pl = pos[p].pl /\ job[q].cm = pos[p].cm
        BY DEF Here
    <2>2. pos[p].pl \in Nat /\ pos[p].cm \in Nat
        BY DEF TypeOK, Position
    <2>3. QED
        BY <1>1, <2>1, <2>2 DEF Tracked, JobsBehind
<1>4. ~sh[p].shouldExit
    BY <1>1 DEF Tracked, Flow
<1>5. Flow(p)' /\ Known(p)'
    BY <1>1, <1>4 DEF Flow, Known
<1>6. Recent(p)'
    BY <1>1 DEF Tracked, Recent, Unwaited
<1>7. Decided(p)'
    BY <1>1, <1>3 DEF Decided
<1>8. QED
    BY <1>2, <1>5, <1>6, <1>7 DEF Tracked

\* The child of a fork is the process to wait for, and knows of no other.
LEMMA ForkTracked ==
    ASSUME IInv, TypeOK', \A z \in Procs : Tracked(z), NEW p \in Procs, Step(p),
           NEW q \in Procs, Fork(p, q)
    PROVE  Tracked(p)' /\ Tracked(q)'
<1>a. /\ TypeOK /\ sh \in [Procs -> ShellState] /\ job \in [Procs -> Job]
      /\ life \in [Procs -> Lives] /\ pc \in [Procs -> Labels] /\ pos \in [Procs -> Position]
    BY DEF IInv, TypeOK
<1>1. p # q /\ life[p] = "live" /\ life[q] = "free" /\ pc[p] \in {"simple", "command"}
    BY DEF Fork, Step, Ready
<1>2. /\ pc'[p] = "forked" /\ pc'[q] = "setup" /\ pos' = [pos EXCEPT ![q] = pos[p]]
      /\ sh'[p] = [sh[p] EXCEPT !.pid = q] /\ sh'[q] = sh[p]
      /\ job' = [job EXCEPT ![q] = Here(p)]
      /\ life' = [life EXCEPT ![q] = "live"]
    BY <1>a, <1>1 DEF Fork, Here
<1>3. /\ pos'[p] = pos[p] /\ sh'[p].pid = q /\ Here(p)' = Here(p) /\ job'[q] = Here(p)
      /\ sh'[p].shouldExit = sh[p].shouldExit /\ life'[q] = "live" /\ life'[p] = "live"
      /\ Here(p).parent = p /\ Here(p).pl = pos[p].pl /\ Here(p).cm = pos[p].cm
    BY <1>a, <1>1, <1>2 DEF Here, ShellState
<1>4. ~sh[p].shouldExit
    BY <1>1 DEF Tracked, Flow
<1>5. JobsBehind(p)'
    <2> SUFFICES ASSUME NEW z \in Procs, job'[z].parent = p
                 PROVE  /\ life'[z] # "free" /\ life'[p] # "free"
                        /\ pc'[p] \notin {"setup", "program"}
                        /\ \/ job'[z].pl < pos'[p].pl
                           \/ job'[z].pl = pos'[p].pl /\ job'[z].cm < pos'[p].cm
                           \/ /\ job'[z].pl = pos'[p].pl /\ job'[z].cm = pos'[p].cm
                              /\ pc'[p] \in {"forked", "after", "wait"}
        BY DEF JobsBehind
    <2>1. CASE z = q
        BY <1>2, <1>3, <2>1
    <2>2. CASE z # q
        <3>1. job'[z] = job[z] /\ life'[z] = life[z]
            BY <1>2, <2>2
        <3>2. life[z] # "free" /\
              \/ job[z].pl < pos[p].pl
              \/ job[z].pl = pos[p].pl /\ job[z].cm < pos[p].cm
            BY <1>1, <3>1 DEF Tracked, JobsBehind
        <3>3. QED
            BY <1>2, <1>3, <3>1, <3>2
    <2>3. QED
        BY <2>1, <2>2
<1>6. Tracked(p)'
    <2>1. q # 0
        BY DEF Procs
    <2>2. Flow(p)' /\ Known(p)'
        BY <1>2, <1>3, <1>4 DEF Flow, Known
    <2>3. Recent(p)' /\ Decided(p)'
        BY <1>2, <1>3, <2>1 DEF Recent, Decided
    <2>4. QED
        BY <1>5, <2>2, <2>3 DEF Tracked
<1>7. JobsBehind(q)'
    <2> SUFFICES ASSUME NEW z \in Procs, job'[z].parent = q PROVE FALSE
        BY DEF JobsBehind
    <2>1. z # q
        BY <1>1, <1>3
    <2>2. job[z].parent = q
        BY <1>2, <2>1
    <2>3. QED
        BY <1>1, <2>2 DEF Tracked, JobsBehind
<1>8. QED
    BY <1>2, <1>4, <1>6, <1>7 DEF Tracked, Flow, Recent, Unwaited, Decided, Known

\* What is run in place without is_pipe is alone in its pipeline.
LEMMA AloneInPlace ==
    ASSUME TypeOK, Positions, NEW p \in Procs, Flags(p), pc[p] = "redir", ~sh[p].isPipe
    PROVE  Len(Cmds(p)) = 1 /\ pos[p].cm = 1 /\ sh[p].pid = 0
<1> DEFINE n == Len(Cmds(p))
           c == pos[p].cm
<1>1. c \in 1 .. n /\ n \in Nat
    BY CmdTypes
<1>2. ~(n > 1)
    BY DEF Flags
<1> HIDE DEF n, c
<1>3. n = 1 /\ c = 1
    BY <1>1, <1>2
<1>4. QED
    BY <1>3 DEF Flags, n, c

\* Every step of p up to the start of its command, but fork.
LEMMA PrepareTracked ==
    ASSUME IInv, TypeOK', NEW p \in Procs, Step(p), \A q \in Procs : ~Fork(p, q),
           Tracked(p), Prepare(p)
    PROVE  Tracked(p)'
<1>a. /\ TypeOK /\ sh \in [Procs -> ShellState] /\ pc \in [Procs -> Labels]
      /\ pos \in [Procs -> Position] /\ Positions /\ Flags(p)
    BY DEF IInv, TypeOK, Local, Positions
<1>b. 0 \in ExitStatuses /\ 1 \in ExitStatuses /\ 127 \in ExitStatuses
    BY DEF ExitStatuses
<1>1. ASSUME pc[p] \in {"command", "simple", "redir", "setup"},
             pc'[p] \in {"simple", "failing", "redir", "builtin", "setup", "program"},
             pc'[p] \in {"setup", "program"} => pc[p] = "setup",
             pc[p] = "setup" => pc'[p] \in {"setup", "program"},
             pos'[p].pl = pos[p].pl, pos'[p].cm = pos[p].cm,
             sh'[p].pid = sh[p].pid, sh'[p].shouldExit = sh[p].shouldExit,
             UNCHANGED <<job, life>>, (Flow(p))'
      PROVE  Tracked(p)'
    <2>1. JobsBehind(p)'
        BY <1>a, <1>1, JobsStayBehind DEF Tracked, GoesOn, Leaving
    <2>2. Decided(p)' /\ Known(p)'
        BY <1>1 DEF Decided, Known
    <2>3. Recent(p)'
        BY <1>1 DEF Tracked, Recent, Unwaited
    <2>4. QED
        BY <1>1, <2>1, <2>2, <2>3 DEF Tracked
<1>2. ASSUME NEW k \in Pipes, MakePipe(p, k) PROVE Tracked(p)'
    <2>1. /\ pc[p] = "command" /\ pc'[p] = "simple" /\ pos' = pos
          /\ sh'[p].pid = sh[p].pid /\ sh'[p].shouldExit = sh[p].shouldExit
          /\ UNCHANGED <<job, life>>
        BY <1>a, <1>2 DEF MakePipe, ShellState
    <2>2. Flow(p)'
        BY <2>1 DEF Tracked, Flow
    <2>3. QED
        BY <1>1, <2>1, <2>2
<1>3. ASSUME PipeFails(p) PROVE Tracked(p)'
    <2>1. /\ pc[p] = "command" /\ pc'[p] = "failing" /\ pos' = pos
          /\ sh'[p].pid = sh[p].pid /\ sh'[p].shouldExit = sh[p].shouldExit
          /\ UNCHANGED <<job, life>>
        BY <1>a, <1>3 DEF PipeFails, ShellState
    <2>2. Flow(p)'
        BY <2>1 DEF Tracked, Flow
    <2>3. QED
        BY <1>1, <2>1, <2>2
<1>4. ASSUME ExitAfterPipeError(p) PROVE Tracked(p)'
    BY <1>a, <1>4, ExitTracked DEF ExitAfterPipeError, Leaving
<1>5. ASSUME CloseIo(p) PROVE Tracked(p)'
    <2>1. /\ pc[p] = "forked" /\ pc'[p] = "after" /\ pos' = pos
          /\ sh'[p].pid = sh[p].pid /\ sh'[p].shouldExit = sh[p].shouldExit
          /\ sh'[p].result = 0 /\ UNCHANGED <<job, life>> /\ Here(p)' = Here(p)
        BY <1>a, <1>5 DEF CloseIo, Return, ShellState, Here
    <2>2. JobsBehind(p)'
        BY <1>a, <2>1, JobsStayBehind DEF Tracked, GoesOn, Leaving
    <2>3. Flow(p)' /\ Known(p)'
        BY <2>1 DEF Tracked, Flow, Known
    <2>4. Recent(p)' /\ Decided(p)'
        BY <2>1 DEF Tracked, Recent, Unwaited, Decided
    <2>5. QED
        BY <2>2, <2>3, <2>4 DEF Tracked
<1>6. ASSUME ForkFails(p) \/ ExpansionFails(p) PROVE Tracked(p)'
    <2>1. Return(p, 1, fd[p].io) /\ Ready(p)
          /\ UNCHANGED <<script, life, pos, work, job, code, fill, plug>>
        BY <1>6 DEF ForkFails, ExpansionFails
    <2>2. QED
        BY <1>a, <1>b, <2>1, ReturnTracked
<1>7. ASSUME StartInPlace(p) PROVE Tracked(p)'
    <2>1. /\ pc[p] \in {"command", "simple"} /\ pc'[p] = "redir" /\ pos' = pos
          /\ sh' = sh /\ script' = script /\ UNCHANGED <<job, life>>
          /\ Cmd(p).kind = "void" => ~sh[p].isPipe
        BY <1>a, <1>7 DEF StartInPlace, Ready, Forks
    <2>2. Flow(p)'
        BY <2>1 DEF Tracked, Flow, Cmd, Cmds, List
    <2>3. QED
        BY <1>1, <2>1, <2>2
<1>8. ASSUME Redirect(p) PROVE Tracked(p)'
    <2>1. /\ pc[p] \in {"redir", "setup"} /\ pc' = pc /\ sh' = sh /\ script' = script
          /\ pos'[p].list = pos[p].list /\ pos'[p].pl = pos[p].pl
          /\ pos'[p].cm = pos[p].cm /\ UNCHANGED <<job, life>>
        BY <1>a, <1>8 DEF Redirect, Redirecting, Position
    <2>2. Flow(p)'
        BY <2>1 DEF Tracked, Flow, Cmd, Cmds, List
    <2>3. QED
        BY <1>1, <2>1, <2>2
<1>9. ASSUME RedirectFailsInChild(p) PROVE Tracked(p)'
    BY <1>a, <1>9, ExitTracked DEF RedirectFailsInChild, Leaving
<1>10. ASSUME RedirectFailsInPlace(p) PROVE Tracked(p)'
    BY <1>a, <1>b, <1>10, ReturnTracked DEF RedirectFailsInPlace
<1>11. ASSUME StartProgram(p) PROVE Tracked(p)'
    <2>1. /\ pc[p] = "setup" /\ pc'[p] = "program" /\ pos' = pos /\ sh' = sh
          /\ UNCHANGED <<job, life>>
        BY <1>a, <1>11 DEF StartProgram
    <2>2. Flow(p)'
        BY <2>1 DEF Tracked, Flow
    <2>3. QED
        BY <1>1, <2>1, <2>2
<1>12. ASSUME StartSubshell(p) PROVE Tracked(p)'
    <2>1. /\ pc[p] = "setup" /\ pc'[p] = "command" /\ sh'[p].pid = 0
          /\ sh'[p].shouldExit = sh[p].shouldExit
        BY <1>a, <1>12 DEF StartSubshell, ShellState
    <2>2. JobsBehind(p)'
        BY <1>a, <2>1, JobsStayBehind DEF Tracked, GoesOn
    <2>3. Flow(p)'
        BY <2>1 DEF Tracked, Flow
    <2>4. QED
        BY <2>1, <2>2, <2>3 DEF Tracked, Recent, Decided, Known
<1>13. ASSUME StartBuiltin(p) PROVE Tracked(p)'
    <2>1. /\ pc[p] = "redir" /\ pc'[p] = "builtin" /\ pos' = pos /\ sh' = sh
          /\ UNCHANGED <<job, life>>
        BY <1>a, <1>13 DEF StartBuiltin
    <2>2. Flow(p)'
        BY <2>1 DEF Tracked, Flow
    <2>3. QED
        BY <1>1, <2>1, <2>2
<1>14. ASSUME NothingToRun(p) PROVE Tracked(p)'
    <2> DEFINE r == IF Cmd(p).kind = "missing" THEN 127 ELSE 0
    <2>1. /\ pc[p] = "redir" /\ Return(p, r, Closed)
          /\ UNCHANGED <<script, life, pos, work, job, code, fill, plug>>
          /\ Cmd(p).kind \in {"missing", "void"}
        BY <1>14 DEF NothingToRun
    <2>2. r # 0 \/ sh[p].pid = 0
        <3>1. CASE Cmd(p).kind = "missing"
            BY <3>1
        <3>2. CASE Cmd(p).kind = "void"
            <4>1. ~sh[p].isPipe
                BY <2>1, <3>2 DEF Tracked, Flow
            <4>2. QED
                BY <1>a, <2>1, <4>1, AloneInPlace
        <3>3. QED
            BY <2>1, <3>1, <3>2
    <2>3. r \in ExitStatuses
        BY <1>b
    <2> HIDE DEF r
    <2>4. QED
        BY <1>a, <2>1, <2>2, <2>3, ReturnTracked
<1>15. QED
    BY <1>2, <1>3, <1>4, <1>5, <1>6, <1>7, <1>8, <1>9, <1>10, <1>11, <1>12, <1>13, <1>14
    DEF Prepare

\* Every step of a program or a builtin at work.
LEMMA WorkTracked ==
    ASSUME IInv, TypeOK', NEW p \in Procs, Step(p), \A q \in Procs : ~Fork(p, q),
           Tracked(p), Work(p)
    PROVE  Tracked(p)'
<1>a. /\ TypeOK /\ sh \in [Procs -> ShellState] /\ pc \in [Procs -> Labels]
      /\ Positions /\ Flags(p)
    BY DEF IInv, TypeOK, Local, Positions
<1>1. ASSUME UNCHANGED <<script, life, pc, pos, sh, job, code>> PROVE Tracked(p)'
    <2>1. JobsBehind(p)'
        BY <1>1 DEF Tracked, JobsBehind
    <2>2. Flow(p)' /\ Recent(p)'
        BY <1>1 DEF Tracked, Flow, Recent, Piped, Cmd, Cmds, List
    <2>3. Decided(p)' /\ Known(p)'
        BY <1>1 DEF Tracked, Decided, Known, Here
    <2>4. QED
        BY <2>1, <2>2, <2>3 DEF Tracked
<1>2. ASSUME NEW k \in Pipes, Read(p, k) \/ Write(p, k) PROVE Tracked(p)'
    BY <1>1, <1>2 DEF Read, Write
<1>3. ASSUME NEW k \in Pipes, BrokenPipe(p, k) PROVE Tracked(p)'
    BY <1>a, <1>3, ExitTracked DEF BrokenPipe, Running, Leaving
<1>4. ASSUME EndOfInput(p) \/ WriteFile(p) PROVE Tracked(p)'
    BY <1>1, <1>4 DEF EndOfInput, WriteFile
<1>5. ASSUME NEW s, ProgramExits(p, s) \/ ExitBuiltin(p, s) PROVE Tracked(p)'
    BY <1>a, <1>5, ExitTracked DEF ProgramExits, ExitBuiltin, Leaving
<1>6. ASSUME NEW s, BuiltinEnds(p, s) PROVE Tracked(p)'
    <2>1. /\ pc[p] = "builtin" /\ pc'[p] = "after" /\ pos' = pos /\ script' = script
          /\ sh'[p].pid = sh[p].pid /\ job' = job /\ Here(p)' = Here(p)
        BY <1>a, <1>6 DEF BuiltinEnds, ShellState, Here
    <2>2. Len(Cmds(p)) = 1 /\ sh[p].pid = 0
        BY <1>a, <2>1, BuiltinAlone
    <2>3. pos[p].cm \in 1 .. Len(Cmds(p)) /\ pos[p].pl \in Nat
        BY <1>a, <2>1, CmdTypes
    <2>4. JobsBehind(p)'
        BY <1>a, <2>1, JobsStayBehind DEF Tracked, GoesOn, Leaving
    <2>5. ~Piped(p)'
        BY <2>1, <2>2, <2>3 DEF Piped, Cmds, List
    <2>6. Flow(p)'
        BY <2>1, <2>2, <2>5 DEF Flow
    <2>7. \A q \in Procs : job[q] # Here(p)
        <3> SUFFICES ASSUME NEW q \in Procs, job[q] = Here(p) PROVE FALSE
            OBVIOUS
        <3>1. job[q].parent = p /\ job[q].pl = pos[p].pl /\ job[q].cm = pos[p].cm
            BY DEF Here
        <3>2. QED
            BY <2>1, <2>3, <3>1 DEF Tracked, JobsBehind
    <2>8. Recent(p)' /\ Known(p)'
        BY <2>1, <2>2 DEF Recent, Known
    <2>9. Decided(p)'
        BY <2>1, <2>2, <2>7 DEF Decided
    <2>10. QED
        BY <2>4, <2>6, <2>8, <2>9 DEF Tracked
<1>7. QED
    BY <1>2, <1>3, <1>4, <1>5, <1>6 DEF Work

\* The end of a pipeline leads to a later one, or out of the list.
LEMMA EndsAhead ==
    ASSUME TypeOK, Positions, NEW p \in Procs, pc[p] \in {"after", "wait"},
           NEW s \in ExitStatuses, EndPipeline(p, s)
    PROVE  /\ pos'[p].pl > pos[p].pl
           /\ pc'[p] \in {"command", "listdone"}
           /\ sh[p].shouldExit => pc'[p] = "listdone"
           /\ sh'[p].pid = 0 /\ sh'[p].status = s
           /\ sh'[p].shouldExit = sh[p].shouldExit
<1> DEFINE len == Len(List(p))
           nxt == IF sh[p].shouldExit THEN len + 1
                  ELSE GetNext(Ops(List(p)), pos[p].pl, s)
<1>1. /\ pc'[p] = (IF nxt <= len THEN "command" ELSE "listdone")
      /\ pos'[p].pl = nxt
      /\ sh'[p].pid = 0 /\ sh'[p].status = s
      /\ sh'[p].shouldExit = sh[p].shouldExit
    BY DEF EndPipeline, TypeOK, Position, ShellState
<1>2. len \in Nat /\ pos[p].pl \in 1 .. len
    BY CmdTypes
<1>3. GetNext(Ops(List(p)), pos[p].pl, s) \in pos[p].pl + 1 .. len + 1
    BY NextPipeline
<1> HIDE DEF len
<1>4. nxt > pos[p].pl /\ (sh[p].shouldExit => ~(nxt <= len))
    BY <1>2, <1>3 DEF len
<1> HIDE DEF nxt
<1>5. QED
    BY <1>1, <1>4

\* Every step from the end of a command to the end of its list.
LEMMA CollectTracked ==
    ASSUME IInv, TypeOK', NEW p \in Procs, Step(p), \A q \in Procs : ~Fork(p, q),
           Tracked(p), Collect(p)
    PROVE  Tracked(p)'
<1>a. /\ TypeOK /\ sh \in [Procs -> ShellState] /\ pc \in [Procs -> Labels]
      /\ pos \in [Procs -> Position] /\ fd \in [Procs -> FdTable]
      /\ life \in [Procs -> Lives] /\ Positions
      /\ sh[p].pid \in {0} \cup Procs /\ pos[p].cm \in Nat /\ pos[p].pl \in Nat
    BY DEF IInv, TypeOK, Local, Positions, ShellState, Position
<1>1. ASSUME NextCommand(p) PROVE Tracked(p)'
    <2>1. /\ pc[p] = "after" /\ Piped(p) /\ pc'[p] = "command" /\ sh' = sh
          /\ pos'[p].pl = pos[p].pl /\ pos'[p].cm = pos[p].cm + 1
          /\ UNCHANGED <<job, life>>
        BY <1>a, <1>1 DEF NextCommand, Position
    <2>2. JobsBehind(p)'
        BY <1>a, <2>1, JobsStayBehind DEF Tracked, GoesOn
    <2>3. ~sh[p].shouldExit
        BY <2>1 DEF Tracked, Flow
    <2>4. Recent(p)'
        BY <2>1 DEF Tracked, Recent, Unwaited
    <2>5. QED
        BY <2>1, <2>2, <2>3, <2>4 DEF Tracked, Flow, Decided, Known
<1>2. ASSUME StartWait(p) PROVE Tracked(p)'
    <2>1. /\ pc[p] = "after" /\ ~Piped(p) /\ pc'[p] = "wait" /\ pos' = pos
          /\ sh[p].shouldExit \/ sh[p].pid # 0
          /\ script' = script /\ UNCHANGED <<job, life>> /\ Here(p)' = Here(p)
          /\ sh'[p].pid = sh[p].pid /\ sh'[p].result = sh[p].result
          /\ sh'[p].shouldExit = sh[p].shouldExit
        BY <1>a, <1>2 DEF StartWait, ShellState, Here
    <2>2. JobsBehind(p)'
        BY <1>a, <2>1, JobsStayBehind DEF Tracked, GoesOn, Leaving
    <2>3. Flow(p)'
        BY <2>1 DEF Tracked, Flow, Piped, Cmds, List
    <2>4. Decided(p)'
        BY <2>1 DEF Tracked, Decided
    <2>5. Known(p)' /\ Recent(p)'
        BY <2>1 DEF Tracked, Recent, Known, Unwaited
    <2>6. QED
        BY <2>2, <2>3, <2>4, <2>5 DEF Tracked
<1>3. ASSUME NEW z \in Procs, Reap(p, z) PROVE Tracked(p)'
    <2>1. /\ pc[p] \in {"wait", "failing"} /\ UNCHANGED <<script, pc, pos, job, code>>
          /\ life[z] = "zombie" /\ job[z].parent = p
          /\ life' = [life EXCEPT ![z] = "reaped"]
          /\ sh' = [sh EXCEPT ![p].waited = IF z = sh[p].pid THEN code[z] ELSE @]
        BY <1>3 DEF Reap, Zombies, Children
    <2>2. /\ sh'[p].pid = sh[p].pid /\ sh'[p].result = sh[p].result
          /\ sh'[p].shouldExit = sh[p].shouldExit /\ Here(p)' = Here(p)
          /\ sh'[p].waited = IF z = sh[p].pid THEN code[z] ELSE sh[p].waited
        BY <1>a, <2>1 DEF ShellState, Here
    <2>3. JobsBehind(p)'
        BY <1>a, <2>1, JobsStayBehind DEF Tracked, GoesOn, Leaving
    <2>4. Flow(p)'
        BY <2>1, <2>2 DEF Tracked, Flow, Piped, Cmd, Cmds, List
    <2>5. Recent(p)' /\ Decided(p)'
        BY <2>1, <2>2 DEF Tracked, Recent, Unwaited, Decided
    <2>6. Known(p)'
        <3> SUFFICES ASSUME pc[p] = "wait", sh[p].pid # 0
                     PROVE  /\ life'[sh[p].pid] # "free"
                            /\ life'[sh[p].pid] = "reaped" => sh'[p].waited = code[sh[p].pid]
            BY <2>1, <2>2 DEF Tracked, Known
        <3>1. CASE z = sh[p].pid
            BY <1>a, <2>1, <2>2, <3>1
        <3>2. CASE z # sh[p].pid
            <4>1. life'[sh[p].pid] = life[sh[p].pid]
                BY <1>a, <2>1, <3>2
            <4>2. QED
                BY <2>2, <3>2, <4>1 DEF Tracked, Known
        <3>3. QED
            BY <3>1, <3>2
    <2>7. QED
        BY <2>3, <2>4, <2>5, <2>6 DEF Tracked
<1>4. ASSUME NEW s \in ExitStatuses, pc[p] \in {"after", "wait"}, EndPipeline(p, s)
      PROVE  Tracked(p)'
    <2>1. /\ pos'[p].pl > pos[p].pl /\ pc'[p] \in {"command", "listdone"}
          /\ sh[p].shouldExit => pc'[p] = "listdone"
          /\ sh'[p].pid = 0 /\ sh'[p].shouldExit = sh[p].shouldExit
        BY <1>a, <1>4, EndsAhead
    <2>2. JobsBehind(p)'
        BY <1>a, <2>1, JobsStayBehind DEF Tracked, GoesOn
    <2>3. Flow(p)'
        BY <2>1 DEF Flow
    <2>4. Recent(p)' /\ Decided(p)' /\ Known(p)'
        BY <2>1 DEF Recent, Decided, Known
    <2>5. QED
        BY <2>2, <2>3, <2>4 DEF Tracked
<1>5. ASSUME EndWithoutWait(p) \/ EndWait(p) PROVE Tracked(p)'
    <2>1. sh[p].result \in ExitStatuses /\ sh[p].waited \in ExitStatuses
        BY <1>a DEF ShellState
    <2>2. QED
        BY <1>4, <1>5, <2>1 DEF EndWithoutWait, EndWait
<1>6. ASSUME LeaveSubshell(p) PROVE Tracked(p)'
    BY <1>a, <1>6, ExitTracked DEF LeaveSubshell, Leaving
<1>7. QED
    BY <1>1, <1>2, <1>3, <1>5, <1>6 DEF Collect

-------------------------------------------------------------------------------
\* In the initial state nothing has been forked.
LEMMA InitTracked == Init => StatusInv
<1> SUFFICES ASSUME Init PROVE StatusInv
    OBVIOUS
<1>1. IInv
    BY InitInv
<1>2. \A p \in Procs : /\ sh[p].pid = 0 /\ sh[p].shouldExit = FALSE
                       /\ pc[p] \in {"command", "off"} /\ job[p].parent \notin Procs
    BY DEF Init, Procs
<1>3. \A p \in Procs : JobsBehind(p)
    BY <1>2 DEF JobsBehind
<1>4. \A p \in Procs : Flow(p) /\ Recent(p) /\ Decided(p) /\ Known(p)
    BY <1>2 DEF Flow, Recent, Decided, Known
<1>5. QED
    BY <1>1, <1>3, <1>4 DEF StatusInv, Tracked

\* The invariant is inductive.
LEMMA StepTracked == StatusInv /\ [Next]_vars => StatusInv'
<1> SUFFICES ASSUME StatusInv, [Next]_vars PROVE StatusInv'
    OBVIOUS
<1>a. IInv /\ TypeOK /\ \A p \in Procs : Tracked(p) /\ JobsBehind(p)
    BY DEF StatusInv, IInv, Tracked
<1>b. IInv' /\ TypeOK'
    <2>1. IInv'
        BY <1>a, StepInv
    <2>2. QED
        BY <2>1 DEF IInv
<1>1. ASSUME NEW p \in Procs, Step(p) PROVE \A r \in Procs : Tracked(r)'
    <2>1. ASSUME NEW r \in Procs \ {p}, ~Fork(p, r) PROVE Tracked(r)'
        BY <1>a, <1>1, <2>1, OthersTracked
    <2>2. CASE \A q \in Procs : ~Fork(p, q)
        <3>1. Tracked(p)'
            BY <1>1, <1>a, <1>b, <2>2, PrepareTracked, WorkTracked, CollectTracked DEF Step
        <3>2. QED
            BY <2>1, <2>2, <3>1
    <2>3. ASSUME NEW q \in Procs, Fork(p, q) PROVE \A r \in Procs : Tracked(r)'
        <3>1. Tracked(p)' /\ Tracked(q)'
            BY <1>1, <1>a, <1>b, <2>3, ForkTracked
        <3>2. ASSUME NEW r \in Procs \ {p, q} PROVE ~Fork(p, r)
            <4>1. life'[r] = life[r]
                BY <1>a, <2>3 DEF Fork, TypeOK
            <4>2. Fork(p, r) => life'[r] = "live" /\ life[r] = "free"
                BY <1>a DEF Fork, TypeOK
            <4>3. QED
                BY <4>1, <4>2
        <3>3. QED
            BY <2>1, <3>1, <3>2
    <2>4. QED
        BY <2>2, <2>3
<1>2. ASSUME UNCHANGED vars, NEW p \in Procs PROVE Tracked(p)'
    <2>1. Here(p)' = Here(p) /\ Piped(p)' = Piped(p)
        BY <1>2 DEF vars, Here, Piped, Cmds, List
    <2>2. JobsBehind(p)' /\ Flow(p)'
        BY <1>a, <1>2, <2>1 DEF vars, Tracked, JobsBehind, Flow, Cmd, Cmds, List
    <2>3. Recent(p)' /\ Decided(p)' /\ Known(p)'
        BY <1>a, <1>2, <2>1 DEF vars, Tracked, Recent, Decided, Known
    <2>4. QED
        BY <2>2, <2>3 DEF Tracked
<1>3. QED
    BY <1>b, <1>1, <1>2 DEF Next, StatusInv

\* The invariant holds in every reachable state.
LEMMA StatusInvariant == Spec => []StatusInv
<1>1. QED
    BY InitTracked, StepTracked, PTL DEF Spec

-------------------------------------------------------------------------------
(* The theorems.                                                               *)

\* Only the end of its own pipeline takes a shell to another one.
LEMMA WhoEnds ==
    ASSUME IInv, NEW p \in Procs, Step(p), NEW r \in Procs, Ends(r)
    PROVE  r = p /\ (EndWithoutWait(p) \/ EndWait(p))
<1>a. /\ TypeOK /\ pos \in [Procs -> Position] /\ life[r] = "live"
      /\ pc[r] \in {"after", "wait"} /\ pos'[r].pl # pos[r].pl
    BY DEF IInv, Lifecycle, TypeOK, Ends
<1>1. ~Fork(p, r)
    BY <1>a DEF Fork
<1>2. r = p
    BY <1>a, <1>1, Others
<1>3. ~Prepare(p)
    <2>1. pc[p] \in {"after", "wait"}
        BY <1>a, <1>2
    <2>2. ~Ready(p) /\ ~Redirecting(p)
        BY <2>1 DEF Ready, Redirecting
    <2>3. \A k \in Pipes : ~MakePipe(p, k)
        BY <2>1 DEF MakePipe
    <2>4. \A q \in Procs : ~Fork(p, q)
        BY <2>2 DEF Fork
    <2>5. ~PipeFails(p) /\ ~ExitAfterPipeError(p) /\ ~CloseIo(p) /\ ~StartProgram(p)
          /\ ~StartSubshell(p) /\ ~StartBuiltin(p) /\ ~NothingToRun(p)
        BY <2>1 DEF PipeFails, ExitAfterPipeError, CloseIo, StartProgram, StartSubshell,
           StartBuiltin, NothingToRun
    <2>6. ~ForkFails(p) /\ ~ExpansionFails(p) /\ ~StartInPlace(p) /\ ~Redirect(p)
          /\ ~RedirectFailsInChild(p) /\ ~RedirectFailsInPlace(p)
        BY <2>2 DEF ForkFails, ExpansionFails, StartInPlace, Redirect,
           RedirectFailsInChild, RedirectFailsInPlace
    <2>7. QED
        BY <2>3, <2>4, <2>5, <2>6 DEF Prepare
<1>4. ~Work(p)
    <2>1. ~Running(p)
        BY <1>a, <1>2 DEF Running
    <2>2. QED
        BY <2>1 DEF Work, Read, Write, BrokenPipe, EndOfInput, WriteFile, ProgramExits,
           ExitBuiltin, BuiltinEnds, WorkDone
<1>5. ~NextCommand(p) /\ ~StartWait(p) /\ ~LeaveSubshell(p)
      /\ \A z \in Procs : ~Reap(p, z)
    BY <1>a, <1>2 DEF NextCommand, StartWait, LeaveSubshell, Reap, Position
<1>6. QED
    BY <1>2, <1>3, <1>4, <1>5 DEF Step, Collect

(* The status of every pipeline, of the shell and of every subshell, is that of its
   last command, whatever else was forked or failed and in whatever order the
   processes ended (wait_return_status, execute_pipeline, execute_simple_command). *)
THEOREM StatusIsOfLastCommand == Spec => PipelineStatus
<1> DEFINE Right(p) ==
        IF LastJob(p) = {} THEN sh'[p].status = sh[p].result
        ELSE \E q \in LastJob(p) : life[q] = "reaped" /\ sh'[p].status = code[q]
<1>1. ASSUME StatusInv, [Next]_vars
      PROVE  [\A p \in Procs : Ends(p) => Right(p)]_vars
    <2> SUFFICES ASSUME NEW w \in Procs, Step(w), NEW p \in Procs, Ends(p)
                 PROVE  Right(p)
        BY <1>1 DEF Next
    <2>1. IInv /\ TypeOK /\ Positions /\ Tracked(p) /\ Parents
        BY <1>1 DEF StatusInv, IInv, Local, Positions
    <2>2. w = p /\ (EndWithoutWait(p) \/ EndWait(p))
        BY <2>1, WhoEnds
    <2>3. PICK s \in ExitStatuses :
                /\ pc[p] \in {"after", "wait"} /\ EndPipeline(p, s) /\ ~Piped(p)
                /\ \/ sh[p].pid = 0 /\ s = sh[p].result
                   \/ /\ pc[p] = "wait" /\ Children(p) = {}
                      /\ s = IF sh[p].result = 0 /\ ~sh[p].shouldExit
                             THEN sh[p].waited ELSE sh[p].result
        <3>1. sh[p].result \in ExitStatuses /\ sh[p].waited \in ExitStatuses
            BY <2>1 DEF TypeOK, ShellState
        <3>2. CASE EndWithoutWait(p)
            BY <3>1, <3>2 DEF EndWithoutWait
        <3>3. CASE EndWait(p)
            BY <2>1, <3>1, <3>3 DEF EndWait, Tracked, Flow
        <3>4. QED
            BY <2>2, <3>2, <3>3
    <2>4. sh'[p].status = s
        BY <2>1, <2>3, EndsAhead
    <2>5. pos[p].cm = Len(Cmds(p))
        <3>1. pos[p].cm \in 1 .. Len(Cmds(p)) /\ Len(Cmds(p)) \in Nat
            BY <2>1, <2>3, CmdTypes
        <3>2. QED
            BY <2>3, <3>1 DEF Piped
    <2>6. LastJob(p) = {q \in Procs : job[q] = Here(p)}
        BY <2>5 DEF LastJob, Here
    <2>7. CASE LastJob(p) = {}
        <3>1. sh[p].pid = 0 \/ sh[p].result # 0
            <4>1. ~(sh[p].pid # 0 /\ job[sh[p].pid] = Here(p))
                BY <2>1, <2>6, <2>7 DEF TypeOK, ShellState
            <4>2. QED
                BY <2>1, <2>3, <4>1 DEF Tracked, Decided
        <3>2. pc[p] = "wait" => sh[p].shouldExit \/ sh[p].pid # 0
            BY <2>1 DEF Tracked, Flow
        <3>3. s = sh[p].result
            BY <2>3, <3>1, <3>2
        <3>4. QED
            BY <2>4, <2>7, <3>3
    <2>8. CASE LastJob(p) # {}
        <3> DEFINE q == sh[p].pid
        <3>1. q # 0 /\ q \in Procs /\ job[q] = Here(p) /\ sh[p].result = 0
            BY <2>1, <2>3, <2>6, <2>8 DEF Tracked, Decided, TypeOK, ShellState
        <3>2. pc[p] = "wait" /\ Children(p) = {} /\ ~sh[p].shouldExit
            BY <2>1, <2>3, <3>1 DEF Tracked, Flow
        <3>3. job[q].parent = p /\ life[q] # "free"
            BY <2>1, <3>1, <3>2 DEF Tracked, Known
        <3> HIDE DEF q
        <3>4. life[q] = "reaped"
            BY <2>1, <3>1, <3>2, <3>3 DEF Children, TypeOK, Lives
        <3>5. sh[p].waited = code[q]
            BY <2>1, <3>1, <3>2, <3>4 DEF Tracked, Known, q
        <3>6. s = code[q]
            BY <2>3, <3>1, <3>2, <3>5 DEF q
        <3>7. q \in LastJob(p)
            BY <2>6, <3>1
        <3>8. QED
            BY <2>4, <2>8, <3>4, <3>6, <3>7
    <2>9. QED
        BY <2>7, <2>8
<1>2. QED
    BY <1>1, StatusInvariant, PTL DEF Spec, PipelineStatus, Right

(* In the shell and in every subshell the next pipeline is the first one whose
   connector agrees with the status just computed, when no script has a newline
   between the pipelines of a list (execute_list, get_next).                   *)
THEOREM NextPipelineAgrees ==
    ASSUME \A s \in Scripts : \A l \in 1 .. Len(s) : OneLine(Ops(s[l]))
    PROVE  Spec => ListOrderKept
<1> DEFINE Right(p) == pos'[p].pl = NextRun(Ops(List(p)), pos[p].pl, sh'[p].status)
<1>1. ASSUME IInv, [Next]_vars
      PROVE  [\A p \in Procs : Ends(p) /\ ~sh[p].shouldExit => Right(p)]_vars
    <2> SUFFICES ASSUME NEW w \in Procs, Step(w), NEW p \in Procs, Ends(p),
                        ~sh[p].shouldExit
                 PROVE  Right(p)
        BY <1>1 DEF Next
    <2>1. TypeOK /\ Positions /\ w = p /\ (EndWithoutWait(p) \/ EndWait(p))
        BY <1>1, WhoEnds DEF IInv, Local, Positions
    <2>2. PICK s \in ExitStatuses : pc[p] \in {"after", "wait"} /\ EndPipeline(p, s)
        <3>1. sh[p].result \in ExitStatuses /\ sh[p].waited \in ExitStatuses
            BY <2>1 DEF TypeOK, ShellState
        <3>2. QED
            BY <2>1, <3>1 DEF EndWithoutWait, EndWait
    <2>3. pos'[p].pl = GetNext(Ops(List(p)), pos[p].pl, s) /\ sh'[p].status = s
        BY <2>1, <2>2 DEF EndPipeline, TypeOK, Position, ShellState
    <2>4. /\ Ops(List(p)) \in Seq(Connectors) /\ Len(Ops(List(p))) = Len(List(p))
          /\ pos[p].pl \in 1 .. Len(List(p))
        BY <2>1, <2>2, NextPipeline, CmdTypes
    <2>5. OneLine(Ops(List(p)))
        <3>1. script \in Scripts /\ pos[p].list \in 1 .. Len(script)
            BY <2>1 DEF TypeOK, Positions, Place
        <3>2. QED
            BY <3>1 DEF List
    <2>6. GetNext(Ops(List(p)), pos[p].pl, s) = NextRun(Ops(List(p)), pos[p].pl, s)
        BY <2>4, <2>5, GetNextIsNextRun
    <2>7. QED
        BY <2>3, <2>6
<1>2. QED
    BY <1>1, Invariant, PTL DEF Spec, ListOrderKept

-------------------------------------------------------------------------------
(* Where one side of one command leads.  A place is a record like those of plug:
   a shell, a pipeline and a command of it.                                    *)

\* Redirection i is the last one of side d among those before r.
LastBefore(c, i, r, d) ==
    /\ i \in 1 .. Len(c.redirs) /\ i < r /\ c.redirs[i].dir = d
    /\ \A j \in 1 .. Len(c.redirs) : i < j /\ j < r => c.redirs[j].dir # d

Opened(c, r, d, y) ==
    \E i \in 1 .. Len(c.redirs) : LastBefore(c, i, r, d) /\ y = File(c.redirs[i].id)

Untouched(c, r, d) ==
    \A i \in 1 .. Len(c.redirs) : i < r => c.redirs[i].dir # d

\* The pipes of f join the command at this place to its neighbours with y.
Neighbour(f, at, len, d, y) ==
    \/ /\ d = "in" /\ at.cm > 1
       /\ \E k \in Pipes :
            /\ f[k] = [by |-> at.by, pl |-> at.pl, cm |-> at.cm - 1]
            /\ y = ReadEnd(k)
    \/ /\ d = "out" /\ at.cm < len
       /\ \E k \in Pipes : f[k] = at /\ y = WriteEnd(k)
    \/ ~(d = "in" /\ at.cm > 1) /\ ~(d = "out" /\ at.cm < len) /\ y = None

\* What io_fd[d] is after the redirections before r.
Target(f, c, r, at, len, d, y) ==
    Opened(c, r, d, y) \/ (Untouched(c, r, d) /\ Neighbour(f, at, len, d, y))

\* What dup2 makes of a side: y, or what it was.
Over(y, x) == IF y # None THEN y ELSE x

\* Different ends and files are different descriptors, and none is closed.
LEMMA DescsDiffer ==
    /\ \A k : ReadEnd(k) # None /\ WriteEnd(k) # None /\ File(k) # None
    /\ \A j, k : (ReadEnd(j) = ReadEnd(k) => j = k) /\ (WriteEnd(j) = WriteEnd(k) => j = k)
BY DEF ReadEnd, WriteEnd, File, None

\* A pipe that is in place stays.
LEMMA NeighbourKept ==
    ASSUME NEW f, NEW g, \A k \in Pipes : f[k].by # 0 => g[k] = f[k],
           NEW at \in Plug, at.by # 0, NEW len, NEW d, NEW y, Neighbour(f, at, len, d, y)
    PROVE  Neighbour(g, at, len, d, y)
BY DEF Neighbour, Plug

\* So does what is known of a side while pipes are added.
LEMMA TargetKept ==
    ASSUME NEW f, NEW g, \A k \in Pipes : f[k].by # 0 => g[k] = f[k],
           NEW at \in Plug, at.by # 0, NEW len, NEW d, NEW y, NEW c, NEW r,
           Target(f, c, r, at, len, d, y)
    PROVE  Target(g, c, r, at, len, d, y)
BY NeighbourKept DEF Target

\* Before the first redirection.
LEMMA TargetFirst ==
    ASSUME NEW f, NEW c, NEW at, NEW len, NEW d, NEW y, Neighbour(f, at, len, d, y),
           Len(c.redirs) \in Nat
    PROVE  Target(f, c, 1, at, len, d, y)
BY DEF Target, Untouched

\* One redirection more: its own side leads to its file, the other where it did.
LEMMA TargetNext ==
    ASSUME NEW f, NEW c, Len(c.redirs) \in Nat, NEW r \in 1 .. Len(c.redirs),
           NEW at, NEW len
    PROVE  /\ Target(f, c, r + 1, at, len, c.redirs[r].dir, File(c.redirs[r].id))
           /\ \A d, y : d # c.redirs[r].dir /\ Target(f, c, r, at, len, d, y)
                            => Target(f, c, r + 1, at, len, d, y)
<1>1. LastBefore(c, r, r + 1, c.redirs[r].dir)
    BY DEF LastBefore
<1>2. Opened(c, r + 1, c.redirs[r].dir, File(c.redirs[r].id))
    BY <1>1 DEF Opened
<1>3. ASSUME NEW d, NEW y, d # c.redirs[r].dir, Target(f, c, r, at, len, d, y)
      PROVE  Target(f, c, r + 1, at, len, d, y)
    <2>1. \A i \in 1 .. Len(c.redirs) : i < r + 1 => i < r \/ i = r
        OBVIOUS
    <2>2. CASE Opened(c, r, d, y)
        <3>1. PICK i \in 1 .. Len(c.redirs) :
                    LastBefore(c, i, r, d) /\ y = File(c.redirs[i].id)
            BY <2>2 DEF Opened
        <3>2. LastBefore(c, i, r + 1, d)
            BY <1>3, <2>1, <3>1 DEF LastBefore
        <3>3. QED
            BY <3>1, <3>2 DEF Target, Opened
    <2>3. CASE Untouched(c, r, d) /\ Neighbour(f, at, len, d, y)
        <3>1. Untouched(c, r + 1, d)
            BY <1>3, <2>1, <2>3 DEF Untouched
        <3>2. QED
            BY <2>3, <3>1 DEF Target
    <2>4. QED
        BY <1>3, <2>2, <2>3 DEF Target
<1>4. QED
    BY <1>2, <1>3 DEF Target

\* After the last redirection.
LEMMA TargetLast ==
    ASSUME NEW f, NEW c, Len(c.redirs) \in Nat, NEW r \in Nat, r > Len(c.redirs),
           NEW at, NEW len, NEW d, NEW y, Target(f, c, r, at, len, d, y)
    PROVE  Target(f, c, Len(c.redirs) + 1, at, len, d, y)
<1>1. \A i \in 1 .. Len(c.redirs) : i < r /\ i < Len(c.redirs) + 1
    OBVIOUS
<1>2. Opened(c, r, d, y) => Opened(c, Len(c.redirs) + 1, d, y)
    BY <1>1 DEF Opened, LastBefore
<1>3. Untouched(c, r, d) => Untouched(c, Len(c.redirs) + 1, d)
    BY <1>1 DEF Untouched
<1>4. QED
    BY <1>2, <1>3 DEF Target

\* What LastRedir finds.
LEMMA LastRedirIs ==
    ASSUME NEW c, Len(c.redirs) \in Nat, NEW d
    PROVE  /\ \A i : LastBefore(c, i, Len(c.redirs) + 1, d) => LastRedir(c, d) = i
           /\ Untouched(c, Len(c.redirs) + 1, d) => LastRedir(c, d) = 0
<1> DEFINE n == Len(c.redirs)
           on == {i \in 1 .. n : c.redirs[i].dir = d}
<1>1. LastRedir(c, d) = IF on = {} THEN 0 ELSE Max(on)
    BY DEF LastRedir
<1>2. ASSUME NEW i, LastBefore(c, i, n + 1, d) PROVE LastRedir(c, d) = i
    <2>1. i \in on
        BY <1>2 DEF LastBefore
    <2>2. \A j \in on : i >= j
        BY <1>2 DEF LastBefore
    <2>3. Max(on) = i
        <3>1. \A m \in on : (\A j \in on : m >= j) => m = i
            BY <2>1, <2>2
        <3>2. QED
            BY <2>1, <2>2, <3>1 DEF Max
    <2>4. QED
        BY <1>1, <2>1, <2>3
<1>3. ASSUME Untouched(c, n + 1, d) PROVE LastRedir(c, d) = 0
    <2>1. on = {}
        BY <1>3 DEF Untouched
    <2>2. QED
        BY <1>1, <2>1
<1>4. QED
    BY <1>2, <1>3

-------------------------------------------------------------------------------
(* What holds between the steps.                                               *)

\* The place p is at, and the one process q was forked for.
At(p) == [by |-> p, pl |-> pos[p].pl, cm |-> pos[p].cm]
JobAt(q) == [by |-> job[q].parent, pl |-> job[q].pl, cm |-> job[q].cm]

\* Whatever pipes p has made are for commands up to the one it is at.
PlugsBehind(p) ==
    \A k \in Pipes : plug[k].by = p =>
        /\ life[p] # "free" /\ pc[p] \notin {"setup", "program"}
        /\ \/ plug[k].pl < pos[p].pl
           \/ plug[k].pl = pos[p].pl /\ plug[k].cm < pos[p].cm
           \/ plug[k].pl = pos[p].pl /\ plug[k].cm = pos[p].cm /\ pc[p] # "command"

\* No two pipes are for the same command.
OnePlug == \A j, k \in Pipes : plug[j].by # 0 /\ plug[j] = plug[k] => j = k

\* A live process has descriptors 0 and 1; only a builtin has any saved.
Standard(p) ==
    life[p] = "live" =>
        /\ \A d \in Sides : fd[p].std[d] # None
        /\ pc[p] # "builtin" => fd[p].saved = Closed

\* Between two commands io_fd holds the pipe from the one before, and no more.
Between(p) ==
    /\ pc[p] \in {"command", "simple"} => pos[p].rd = 1
    /\ pc[p] = "command" =>
        /\ fd[p].io["out"] = None
        /\ Neighbour(plug, At(p), Len(Cmds(p)), "in", fd[p].io["in"])

\* While a command is set up io_fd leads where the command says so far.
Setting(p) ==
    /\ pc[p] = "simple" =>
        /\ Piped(p)
        /\ \A d \in Sides : Neighbour(plug, At(p), Len(Cmds(p)), d, fd[p].io[d])
    /\ pc[p] = "redir" =>
        \A d \in Sides :
            Target(plug, Cmd(p), pos[p].rd, At(p), Len(Cmds(p)), d, fd[p].io[d])

\* pipe_fd[0] is kept for the next command.
Kept(p) ==
    pc[p] \in {"simple", "forked", "redir", "after"} /\ Piped(p) =>
        \E k \in Pipes : plug[k] = At(p) /\ fd[p].pipe = ReadEnd(k)

\* Only the shell itself has no parent.
Forked(q) == life[q] = "live" /\ q # Shell => job[q].parent \in Procs

\* What the shell that forked q has on side d.
Home(q, d) == Restored(job[q].parent)[d]

\* A child that has been forked and has not come to its program yet.
Child(q) ==
    pc[q] = "setup" =>
        /\ pos[q].list = pos[job[q].parent].list
        /\ pos[q].pl = job[q].pl /\ pos[q].cm = job[q].cm
        /\ \A d \in Sides :
            /\ fd[q].std[d] = Home(q, d)
            /\ Target(plug, JobCmd(q), pos[q].rd, JobAt(q), Len(JobCmds(q)), d, fd[q].io[d])

\* A program or a subshell has the input and the output its command says.
Placed(q) ==
    life[q] = "live" /\ q # Shell /\ pc[q] # "setup" =>
        /\ Len(JobCmd(q).redirs) \in Nat
        /\ \A d \in Sides : \E y \in {Restored(q)[d], None} :
            /\ Target(plug, JobCmd(q), Len(JobCmd(q).redirs) + 1, JobAt(q),
                      Len(JobCmds(q)), d, y)
            /\ Restored(q)[d] = Over(y, Home(q, d))

\* And so has a builtin that a shell runs itself.
AtWork(p) ==
    pc[p] = "builtin" =>
        \A d \in Sides : \E y \in {fd[p].std[d], None} :
            /\ Target(plug, Cmd(p), Len(Cmd(p).redirs) + 1, At(p), Len(Cmds(p)), d, y)
            /\ fd[p].std[d] = Over(y, Restored(p)[d])

Shelled(p) == Between(p) /\ Setting(p) /\ Kept(p) /\ AtWork(p)
Parented(q) == Child(q) /\ Placed(q)

PlumbInv ==
    /\ StatusInv
    /\ OnePlug
    /\ \A p \in Procs : PlugsBehind(p) /\ Standard(p) /\ Forked(p)
    /\ ~spilled => \A p \in Procs : Shelled(p) /\ Parented(p)

-------------------------------------------------------------------------------
(* How processes move and pipes are made.                                      *)

\* No step takes a shell back to the beginning of its command.
Moves(p) ==
    \/ pc[p] \in {"setup", "program"}
    \/ /\ pc'[p] \notin {"setup", "program"}
       /\ \/ pos'[p].pl > pos[p].pl
          \/ pos'[p].pl = pos[p].pl /\ pos'[p].cm > pos[p].cm
          \/ /\ pos'[p].pl = pos[p].pl /\ pos'[p].cm = pos[p].cm
             /\ pc'[p] # "command"

\* Every step of a shell takes it on.
LEMMA StepMoves ==
    ASSUME IInv, NEW p \in Procs, Step(p)
    PROVE  Moves(p)
<1>a. /\ TypeOK /\ pc \in [Procs -> Labels] /\ pos \in [Procs -> Position]
      /\ life[p] = "live" /\ Positions /\ pos[p].cm \in Nat /\ sh \in [Procs -> ShellState]
    BY DEF IInv, TypeOK, Step, Local, Positions, Position
<1>1. ASSUME NEW l, l \notin {"setup", "program", "command"}, pc'[p] = l, pos'[p] = pos[p]
      PROVE  Moves(p)
    BY <1>1 DEF Moves
<1>2. ASSUME NEW s, Exit(p, s), pos' = pos PROVE Moves(p)
    BY <1>a, <1>1, <1>2 DEF Exit
<1>3. ASSUME NEW r, NEW io, Return(p, r, io), pos' = pos PROVE Moves(p)
    BY <1>a, <1>1, <1>3 DEF Return
<1>4. ASSUME Prepare(p) PROVE Moves(p)
    <2>1. ASSUME NEW k \in Pipes, MakePipe(p, k) PROVE Moves(p)
        BY <1>a, <1>1, <2>1 DEF MakePipe
    <2>2. ASSUME PipeFails(p) \/ ExitAfterPipeError(p) PROVE Moves(p)
        BY <1>a, <1>1, <1>2, <2>2 DEF PipeFails, ExitAfterPipeError
    <2>3. ASSUME NEW q \in Procs, Fork(p, q) PROVE Moves(p)
        <3>1. p # q /\ pc'[p] = "forked" /\ pos'[p] = pos[p]
            BY <1>a, <2>3 DEF Fork
        <3>2. QED
            BY <1>1, <3>1
    <2>4. ASSUME CloseIo(p) \/ ForkFails(p) \/ ExpansionFails(p) PROVE Moves(p)
        BY <1>3, <2>4 DEF CloseIo, ForkFails, ExpansionFails
    <2>5. ASSUME StartInPlace(p) PROVE Moves(p)
        BY <1>a, <1>1, <2>5 DEF StartInPlace
    <2>6. ASSUME Redirect(p) PROVE Moves(p)
        BY <1>a, <2>6 DEF Redirect, Redirecting, Position, Moves
    <2>7. ASSUME RedirectFailsInChild(p) \/ RedirectFailsInPlace(p) PROVE Moves(p)
        BY <1>2, <1>3, <2>7 DEF RedirectFailsInChild, RedirectFailsInPlace
    <2>8. ASSUME StartProgram(p) \/ StartSubshell(p) PROVE Moves(p)
        BY <2>8 DEF StartProgram, StartSubshell, Moves
    <2>9. ASSUME StartBuiltin(p) PROVE Moves(p)
        BY <1>a, <1>1, <2>9 DEF StartBuiltin
    <2>10. ASSUME NothingToRun(p) PROVE Moves(p)
        BY <1>3, <2>10 DEF NothingToRun
    <2>11. QED
        BY <1>4, <2>1, <2>2, <2>3, <2>4, <2>5, <2>6, <2>7, <2>8, <2>9, <2>10 DEF Prepare
<1>5. ASSUME Work(p) PROVE Moves(p)
    <2>1. ASSUME Running(p), UNCHANGED <<pc, pos>> PROVE Moves(p)
        BY <2>1 DEF Running, Moves
    <2>2. ASSUME NEW k \in Pipes, Read(p, k) \/ Write(p, k) \/ BrokenPipe(p, k)
          PROVE  Moves(p)
        BY <1>2, <2>1, <2>2 DEF Read, Write, BrokenPipe
    <2>3. ASSUME EndOfInput(p) \/ WriteFile(p) PROVE Moves(p)
        BY <2>1, <2>3 DEF EndOfInput, WriteFile
    <2>4. ASSUME NEW s, ProgramExits(p, s) \/ ExitBuiltin(p, s) PROVE Moves(p)
        BY <1>2, <2>4 DEF ProgramExits, ExitBuiltin
    <2>5. ASSUME NEW s, BuiltinEnds(p, s) PROVE Moves(p)
        BY <1>a, <1>1, <2>5 DEF BuiltinEnds
    <2>6. QED
        BY <1>5, <2>2, <2>3, <2>4, <2>5 DEF Work
<1>6. ASSUME Collect(p) PROVE Moves(p)
    <2>1. ASSUME NextCommand(p) PROVE Moves(p)
        BY <1>a, <2>1 DEF NextCommand, Position, Moves
    <2>2. ASSUME StartWait(p) PROVE Moves(p)
        BY <1>a, <1>1, <2>2 DEF StartWait
    <2>3. ASSUME NEW z \in Procs, Reap(p, z) PROVE Moves(p)
        BY <1>a, <2>3 DEF Reap, Moves
    <2>4. ASSUME EndWithoutWait(p) \/ EndWait(p) PROVE Moves(p)
        <3>1. PICK s \in ExitStatuses : pc[p] \in {"after", "wait"} /\ EndPipeline(p, s)
            <4>1. sh[p].result \in ExitStatuses /\ sh[p].waited \in ExitStatuses
                BY <1>a DEF ShellState
            <4>2. QED
                BY <2>4, <4>1 DEF EndWithoutWait, EndWait
        <3>2. QED
            BY <1>a, <3>1, EndsAhead DEF Moves
    <2>5. ASSUME LeaveSubshell(p) PROVE Moves(p)
        BY <1>2, <2>5 DEF LeaveSubshell
    <2>6. QED
        BY <1>6, <2>1, <2>2, <2>3, <2>4, <2>5 DEF Collect
<1>7. QED
    BY <1>4, <1>5, <1>6 DEF Step

\* Pipes are made by MakePipe only.
LEMMA PlugSame ==
    ASSUME NEW p \in Procs, Step(p), \A k \in Pipes : ~MakePipe(p, k)
    PROVE  plug' = plug
<1>1. ASSUME Prepare(p) PROVE plug' = plug
    BY <1>1 DEF Prepare, PipeFails, ExitAfterPipeError, Fork, CloseIo, ForkFails,
       ExpansionFails, StartInPlace, Redirect, RedirectFailsInChild, RedirectFailsInPlace,
       StartProgram, StartSubshell, StartBuiltin, NothingToRun
<1>2. ASSUME Work(p) PROVE plug' = plug
    BY <1>2 DEF Work, Read, Write, BrokenPipe, EndOfInput, WriteFile, ProgramExits,
       ExitBuiltin, BuiltinEnds
<1>3. ASSUME Collect(p) PROVE plug' = plug
    BY <1>3 DEF Collect, NextCommand, StartWait, Reap, EndWithoutWait, EndWait,
       EndPipeline, LeaveSubshell
<1>4. QED
    BY <1>1, <1>2, <1>3 DEF Step

\* Every pipe stays in place, and none is made twice.
LEMMA PlugStep ==
    ASSUME StatusInv, StatusInv', OnePlug, \A r \in Procs : PlugsBehind(r),
           NEW p \in Procs, Step(p)
    PROVE  /\ OnePlug' /\ \A r \in Procs : PlugsBehind(r)'
           /\ \A k \in Pipes : plug[k].by # 0 => plug'[k] = plug[k]
<1>a. /\ IInv /\ TypeOK /\ plug \in [Pipes -> Plug] /\ pos \in [Procs -> Position]
      /\ life[p] = "live" /\ TypeOK' /\ Around(p)
    BY StepAround DEF StatusInv, IInv, TypeOK, Step
<1>b. p # 0
    BY DEF Procs
<1>1. /\ \A k \in Pipes : plug[k].by # 0 => plug'[k] = plug[k]
      /\ \A k \in Pipes : plug'[k] = plug[k] \/ (plug'[k] = At(p) /\ MakePipe(p, k))
    <2>1. CASE \A k \in Pipes : ~MakePipe(p, k)
        BY <2>1, PlugSame
    <2>2. ASSUME NEW k \in Pipes, MakePipe(p, k)
          PROVE  /\ \A j \in Pipes : plug[j].by # 0 => plug'[j] = plug[j]
                 /\ \A j \in Pipes : plug'[j] = plug[j] \/ (plug'[j] = At(p) /\ MakePipe(p, j))
        <3>1. plug[k].by = 0 /\ plug' = [plug EXCEPT ![k] = At(p)]
            BY <2>2 DEF MakePipe, At
        <3>2. plug'[k] = At(p) /\ \A j \in Pipes : j # k => plug'[j] = plug[j]
            BY <1>a, <3>1
        <3>3. QED
            BY <2>2, <3>1, <3>2
    <2>3. QED
        BY <2>1, <2>2
<1>2. ASSUME NEW k \in Pipes, MakePipe(p, k)
      PROVE  /\ pc[p] = "command" /\ pc'[p] = "simple" /\ pos' = pos /\ plug[k].by = 0
             /\ \A j \in Pipes : j # k => plug'[j] = plug[j]
    BY <1>a, <1>2 DEF MakePipe, TypeOK
<1>3. OnePlug'
    <2> SUFFICES ASSUME NEW j \in Pipes, NEW k \in Pipes, plug'[j].by # 0,
                        plug'[j] = plug'[k], j # k
                 PROVE  FALSE
        BY DEF OnePlug
    <2>1. ASSUME NEW i \in Pipes, NEW m \in Pipes, i # m, plug'[i] = plug'[m],
                 plug'[i] # plug[i]
          PROVE  FALSE
        <3>1. plug'[i] = At(p) /\ MakePipe(p, i)
            BY <1>1, <2>1
        <3>2. plug'[m] = plug[m] /\ pc[p] = "command"
            BY <1>2, <2>1, <3>1
        <3>a. plug[m] = At(p)
            BY <2>1, <3>1, <3>2
        <3>3. plug[m].by = p /\ plug[m].pl = pos[p].pl /\ plug[m].cm = pos[p].cm
            BY <3>a DEF At
        <3>4. pos[p].pl \in Nat /\ pos[p].cm \in Nat
            BY <1>a DEF Position
        <3>5. QED
            BY <3>2, <3>3, <3>4 DEF PlugsBehind
    <2>2. plug'[j] = plug[j] /\ plug'[k] = plug[k]
        BY <2>1
    <2>3. QED
        BY <2>2 DEF OnePlug
<1>4. ASSUME NEW r \in Procs PROVE PlugsBehind(r)'
    <2> SUFFICES ASSUME NEW k \in Pipes, plug'[k].by = r
                 PROVE  /\ life'[r] # "free" /\ pc'[r] \notin {"setup", "program"}
                        /\ \/ plug'[k].pl < pos'[r].pl
                           \/ plug'[k].pl = pos'[r].pl /\ plug'[k].cm < pos'[r].cm
                           \/ /\ plug'[k].pl = pos'[r].pl /\ plug'[k].cm = pos'[r].cm
                              /\ pc'[r] # "command"
        BY DEF PlugsBehind
    <2>1. CASE plug'[k] # plug[k]
        <3>1. plug'[k] = At(p) /\ MakePipe(p, k) /\ r = p
            BY <1>1, <2>1 DEF At
        <3>2. life'[p] # "free"
            BY <1>a DEF Around
        <3>3. QED
            BY <1>2, <3>1, <3>2 DEF At
    <2>2. CASE plug'[k] = plug[k]
        <3>1. /\ life[r] # "free" /\ pc[r] \notin {"setup", "program"}
              /\ \/ plug[k].pl < pos[r].pl
                 \/ plug[k].pl = pos[r].pl /\ plug[k].cm < pos[r].cm
                 \/ plug[k].pl = pos[r].pl /\ plug[k].cm = pos[r].cm /\ pc[r] # "command"
            BY <2>2 DEF PlugsBehind
        <3>2. life'[r] # "free"
            BY <1>a, <3>1 DEF Around
        <3>3. CASE r # p
            <4>1. ~Fork(p, r)
                BY <3>1 DEF Fork
            <4>2. pc'[r] = pc[r] /\ pos'[r] = pos[r]
                BY <1>a, <3>3, <4>1, Others
            <4>3. QED
                BY <2>2, <3>1, <3>2, <4>2
        <3>4. CASE r = p
            <4>1. Moves(p)
                BY <1>a, StepMoves
            <4>2. /\ pos[p].pl \in Nat /\ pos[p].cm \in Nat
                  /\ pos'[p].pl \in Nat /\ pos'[p].cm \in Nat
                  /\ plug[k].pl \in Nat /\ plug[k].cm \in Nat
                BY <1>a DEF Position, Plug, TypeOK
            <4>3. QED
                BY <2>2, <3>1, <3>2, <3>4, <4>1, <4>2 DEF Moves
        <3>5. QED
            BY <3>3, <3>4
    <2>3. QED
        BY <2>1, <2>2
<1>5. QED
    BY <1>1, <1>3, <1>4

-------------------------------------------------------------------------------
(* Descriptors 0 and 1 of a shell.                                             *)

\* A shell keeps its own input and output, and the list it runs.
Steady(p) ==
    life'[p] = "live" /\ pc[p] # "setup" =>
        /\ \A d \in Sides : Restored(p)'[d] = Restored(p)[d]
        /\ pos'[p].list = pos[p].list

\* A builtin borrows descriptors 0 and 1 and gives them back.
LEMMA OwnStandard ==
    ASSUME TypeOK, NEW p \in Procs, Step(p), Standard(p)
    PROVE  Standard(p)' /\ Steady(p)
<1>a. /\ pc \in [Procs -> Labels] /\ pos \in [Procs -> Position]
      /\ fd \in [Procs -> FdTable] /\ life \in [Procs -> Lives] /\ life[p] = "live"
    BY DEF TypeOK, Step
<1>b. /\ \A d \in Sides : fd[p].std[d] # None
      /\ pc[p] # "builtin" => fd[p].saved = Closed
    BY <1>a DEF Standard
<1>c. \A d \in Sides : Closed[d] = None
    BY DEF Closed
<1>1. ASSUME fd'[p].std = fd[p].std, fd'[p].saved = fd[p].saved,
             pos'[p].list = pos[p].list, pc[p] = "builtin" => pc'[p] = "builtin"
      PROVE  Standard(p)' /\ Steady(p)
    BY <1>b, <1>1 DEF Standard, Steady, Restored
<1>2. ASSUME NEW s, Exit(p, s) PROVE Standard(p)' /\ Steady(p)
    BY <1>a, <1>2 DEF Exit, Standard, Steady
<1>3. ASSUME NEW r, NEW io, Return(p, r, io), UNCHANGED pos, pc[p] # "builtin"
      PROVE  Standard(p)' /\ Steady(p)
    BY <1>a, <1>1, <1>3 DEF Return, FdTable
<1>4. ASSUME Prepare(p) PROVE Standard(p)' /\ Steady(p)
    <2>1. ASSUME NEW k \in Pipes, MakePipe(p, k) PROVE Standard(p)' /\ Steady(p)
        BY <1>a, <1>1, <2>1 DEF MakePipe, FdTable
    <2>2. ASSUME PipeFails(p) PROVE Standard(p)' /\ Steady(p)
        BY <1>a, <1>1, <2>2 DEF PipeFails, FdTable
    <2>3. ASSUME ExitAfterPipeError(p) \/ RedirectFailsInChild(p)
          PROVE  Standard(p)' /\ Steady(p)
        BY <1>2, <2>3 DEF ExitAfterPipeError, RedirectFailsInChild
    <2>4. ASSUME NEW q \in Procs, Fork(p, q) PROVE Standard(p)' /\ Steady(p)
        <3>1. p # q /\ fd'[p] = fd[p] /\ pos'[p] = pos[p] /\ pc[p] # "builtin"
            BY <1>a, <2>4 DEF Fork, Ready
        <3>2. QED
            BY <1>1, <3>1
    <2>5. ASSUME CloseIo(p) \/ ForkFails(p) \/ ExpansionFails(p)
          PROVE  Standard(p)' /\ Steady(p)
        BY <1>3, <2>5 DEF CloseIo, ForkFails, ExpansionFails, Ready
    <2>6. ASSUME StartInPlace(p) PROVE Standard(p)' /\ Steady(p)
        BY <1>a, <1>1, <2>6 DEF StartInPlace, Ready
    <2>7. ASSUME Redirect(p) PROVE Standard(p)' /\ Steady(p)
        BY <1>a, <1>1, <2>7 DEF Redirect, FdTable, Position
    <2>8. ASSUME RedirectFailsInPlace(p) \/ NothingToRun(p)
          PROVE  Standard(p)' /\ Steady(p)
        BY <1>3, <2>8 DEF RedirectFailsInPlace, NothingToRun
    <2>9. ASSUME StartProgram(p) \/ StartSubshell(p) PROVE Standard(p)' /\ Steady(p)
        <3>1. /\ pc[p] = "setup" /\ pc'[p] # "builtin"
              /\ fd'[p].std = Dup2Result(p) /\ fd'[p].saved = Closed
            BY <1>a, <2>9 DEF StartProgram, StartSubshell, NoFds
        <3>2. QED
            BY <1>b, <3>1 DEF Standard, Steady, Dup2Result
    <2>10. ASSUME StartBuiltin(p) PROVE Standard(p)' /\ Steady(p)
        <3>1. /\ pc[p] = "redir" /\ pc'[p] = "builtin" /\ pos' = pos
              /\ fd'[p].std = Dup2Result(p)
              /\ fd'[p].saved = [d \in Sides |->
                    IF fd[p].io[d] # None THEN fd[p].std[d] ELSE None]
            BY <1>a, <2>10 DEF StartBuiltin, NoFds
        <3>2. Standard(p)'
            BY <1>b, <3>1 DEF Standard, Dup2Result
        <3>3. \A d \in Sides : Restored(p)'[d] = Restored(p)[d]
            BY <1>b, <1>c, <3>1 DEF Restored, Dup2Result
        <3>4. QED
            BY <3>1, <3>2, <3>3 DEF Steady
    <2>11. QED
        BY <1>4, <2>1, <2>2, <2>3, <2>4, <2>5, <2>6, <2>7, <2>8, <2>9, <2>10 DEF Prepare
<1>5. ASSUME Work(p) PROVE Standard(p)' /\ Steady(p)
    <2>1. ASSUME NEW k \in Pipes, Read(p, k) \/ Write(p, k) PROVE Standard(p)' /\ Steady(p)
        BY <1>1, <2>1 DEF Read, Write
    <2>2. ASSUME NEW k \in Pipes, BrokenPipe(p, k) PROVE Standard(p)' /\ Steady(p)
        BY <1>2, <2>2 DEF BrokenPipe
    <2>3. ASSUME EndOfInput(p) \/ WriteFile(p) PROVE Standard(p)' /\ Steady(p)
        BY <1>1, <2>3 DEF EndOfInput, WriteFile
    <2>4. ASSUME NEW s, ProgramExits(p, s) \/ ExitBuiltin(p, s)
          PROVE  Standard(p)' /\ Steady(p)
        BY <1>2, <2>4 DEF ProgramExits, ExitBuiltin
    <2>5. ASSUME NEW s, BuiltinEnds(p, s) PROVE Standard(p)' /\ Steady(p)
        <3>1. /\ pc[p] = "builtin" /\ pc'[p] = "after" /\ pos' = pos
              /\ fd'[p].std = Restored(p) /\ fd'[p].saved = Closed
            BY <1>a, <2>5 DEF BuiltinEnds, FdTable
        <3>2. QED
            BY <1>b, <1>c, <3>1 DEF Standard, Steady, Restored
    <2>6. QED
        BY <1>5, <2>1, <2>2, <2>3, <2>4, <2>5 DEF Work
<1>6. ASSUME Collect(p) PROVE Standard(p)' /\ Steady(p)
    <2>1. ASSUME NextCommand(p) PROVE Standard(p)' /\ Steady(p)
        BY <1>a, <1>1, <2>1 DEF NextCommand, FdTable, Position
    <2>2. ASSUME StartWait(p) PROVE Standard(p)' /\ Steady(p)
        BY <1>1, <2>2 DEF StartWait
    <2>3. ASSUME NEW z \in Procs, Reap(p, z) PROVE Standard(p)' /\ Steady(p)
        BY <1>1, <2>3 DEF Reap
    <2>4. ASSUME NEW s, pc[p] \in {"after", "wait"}, EndPipeline(p, s)
          PROVE  Standard(p)' /\ Steady(p)
        <3>1. PICK n : pos' = [pos EXCEPT ![p].pl = n, ![p].cm = 1, ![p].rd = 1]
            BY <2>4 DEF EndPipeline
        <3>2. fd' = fd /\ pos'[p].list = pos[p].list
            BY <1>a, <2>4, <3>1 DEF EndPipeline, Position
        <3>3. QED
            BY <1>1, <2>4, <3>2
    <2>5. ASSUME LeaveSubshell(p) PROVE Standard(p)' /\ Steady(p)
        BY <1>2, <2>5 DEF LeaveSubshell
    <2>6. QED
        BY <1>6, <2>1, <2>2, <2>3, <2>4, <2>5 DEF Collect, EndWithoutWait, EndWait
<1>7. QED
    BY <1>4, <1>5, <1>6 DEF Step

\* Every live process has descriptors 0 and 1, after every step.
LEMMA StandardStep ==
    ASSUME IInv, IInv', \A r \in Procs : Standard(r), NEW p \in Procs, Step(p)
    PROVE  \A r \in Procs : Standard(r)'
<1>a. /\ TypeOK /\ pc \in [Procs -> Labels] /\ fd \in [Procs -> FdTable]
      /\ Lifecycle /\ Lifecycle' /\ life[p] = "live"
    BY DEF IInv, TypeOK, Step
<1>1. Standard(p)'
    BY <1>a, OwnStandard
<1>2. ASSUME NEW r \in Procs \ {p}, ~Fork(p, r) PROVE Standard(r)'
    <2>1. pc'[r] = pc[r] /\ fd'[r] = fd[r]
        BY <1>a, <1>2, Others
    <2>2. life'[r] = "live" => life[r] = "live"
        BY <1>a, <2>1 DEF Lifecycle
    <2>3. QED
        BY <2>1, <2>2 DEF Standard
<1>3. ASSUME NEW q \in Procs, Fork(p, q) PROVE Standard(q)'
    <2>1. fd'[q] = fd[p] /\ pc[p] # "builtin"
        BY <1>a, <1>3 DEF Fork, Ready
    <2>2. QED
        BY <1>a, <2>1 DEF Standard
<1>4. QED
    BY <1>1, <1>2, <1>3

\* Every process but the shell has a parent, after every step.
LEMMA ForkedStep ==
    ASSUME IInv, IInv', \A r \in Procs : Forked(r), NEW p \in Procs, Step(p),
           NEW r \in Procs
    PROVE  Forked(r)'
<1>a. TypeOK /\ Lifecycle /\ Lifecycle' /\ life[p] = "live" /\ Around(p)
    BY StepAround DEF IInv, Step
<1>1. CASE job'[r] # job[r]
    BY <1>a, <1>1 DEF Around, Forked
<1>2. CASE job'[r] = job[r] /\ life[r] = "live"
    BY <1>2 DEF Forked
<1>3. CASE job'[r] = job[r] /\ life[r] # "live"
    <2>1. r # p
        BY <1>a, <1>3
    <2>2. CASE Fork(p, r)
        BY <1>a, <2>2 DEF Fork, TypeOK, Forked
    <2>3. CASE ~Fork(p, r)
        <3>1. pc'[r] = pc[r]
            BY <1>a, <2>1, <2>3, Others
        <3>2. QED
            BY <1>a, <1>3, <3>1 DEF Lifecycle, Forked
    <2>4. QED
        BY <2>2, <2>3
<1>4. QED
    BY <1>1, <1>2, <1>3

-------------------------------------------------------------------------------
(* What a step of p does to the commands of the others.                        *)

\* A process that lives on has a parent that keeps its descriptors and its list.
LEMMA ParentSame ==
    ASSUME IInv, IInv', \A z \in Procs : Standard(z), NEW p \in Procs, Step(p),
           NEW r \in Procs, life[r] = "live", life'[r] = "live",
           NEW t \in Procs, job[r].parent = t
    PROVE  /\ \A d \in Sides : Restored(t)'[d] = Restored(t)[d]
           /\ pos'[t].list = pos[t].list
<1>a. TypeOK /\ Parents /\ Parents' /\ Around(p)
    BY StepAround DEF IInv
<1>1. Children(t) # {}
    BY DEF Children
<1>2. Children(t)' # {}
    <2>1. job'[r] = job[r]
        BY <1>a DEF Around
    <2>2. QED
        BY <2>1 DEF Children
<1>3. life[t] = "live" /\ life'[t] = "live" /\ pc[t] # "setup"
    BY <1>a, <1>1, <1>2 DEF Parents
<1>4. CASE t = p
    BY <1>a, <1>3, <1>4, OwnStandard DEF Steady
<1>5. CASE t # p
    <2>1. ~Fork(p, t)
        BY <1>3 DEF Fork
    <2>2. pos'[t] = pos[t] /\ fd'[t] = fd[t]
        BY <1>a, <1>5, <2>1, Others
    <2>3. QED
        BY <2>2 DEF Restored
<1>6. QED
    BY <1>4, <1>5

\* A shell that does nothing in this step.
LEMMA OthersShelled ==
    ASSUME IInv, NEW p \in Procs, Step(p), NEW r \in Procs \ {p}, ~Fork(p, r),
           \A k \in Pipes : plug[k].by # 0 => plug'[k] = plug[k], Shelled(r)
    PROVE  Shelled(r)'
<1>a. TypeOK /\ r # 0 /\ pos \in [Procs -> Position]
    BY DEF IInv, TypeOK, Procs
<1>1. /\ script' = script /\ pc'[r] = pc[r] /\ pos'[r] = pos[r] /\ fd'[r] = fd[r]
    BY <1>a, Others, ScriptKept
<1>2. /\ Cmds(r)' = Cmds(r) /\ Cmd(r)' = Cmd(r) /\ (Piped(r)' <=> Piped(r))
      /\ At(r)' = At(r) /\ Restored(r)' = Restored(r)
    BY <1>1 DEF Piped, Cmd, Cmds, List, At, Restored
<1>3. At(r) \in Plug /\ At(r).by # 0
    BY <1>a DEF At, Plug, Position
<1>4. \A len, d, y : Neighbour(plug, At(r), len, d, y) => Neighbour(plug', At(r), len, d, y)
    BY <1>3, NeighbourKept
<1>5. \A c, i, len, d, y : Target(plug, c, i, At(r), len, d, y)
                                => Target(plug', c, i, At(r), len, d, y)
    BY <1>3, TargetKept
<1>6. Between(r)'
    BY <1>1, <1>2, <1>4 DEF Shelled, Between
<1>7. Setting(r)'
    BY <1>1, <1>2, <1>4, <1>5 DEF Shelled, Setting
<1>8. Kept(r)'
    <2> SUFFICES ASSUME pc[r] \in {"simple", "forked", "redir", "after"}, Piped(r)
                 PROVE  \E k \in Pipes : plug'[k] = At(r) /\ fd[r].pipe = ReadEnd(k)
        BY <1>1, <1>2 DEF Kept
    <2>1. PICK k \in Pipes : plug[k] = At(r) /\ fd[r].pipe = ReadEnd(k)
        BY DEF Shelled, Kept
    <2>2. QED
        BY <1>3, <2>1
<1>9. AtWork(r)'
    BY <1>1, <1>2, <1>5 DEF Shelled, AtWork
<1>10. QED
    BY <1>6, <1>7, <1>8, <1>9 DEF Shelled

\* A child that does nothing in this step.
LEMMA OthersParented ==
    ASSUME IInv, IInv', \A z \in Procs : Standard(z), NEW p \in Procs, Step(p),
           NEW r \in Procs \ {p}, ~Fork(p, r), Forked(r), 
           \A k \in Pipes : plug[k].by # 0 => plug'[k] = plug[k], Parented(r)
    PROVE  Parented(r)'
<1>a. /\ TypeOK /\ Lifecycle /\ Lifecycle' /\ TopLevel /\ Around(p)
      /\ job \in [Procs -> Job]
    BY StepAround DEF IInv, TypeOK
<1> SUFFICES ASSUME life'[r] = "live", r # Shell PROVE Parented(r)'
    <2>1. CASE life'[r] # "live"
        BY <1>a, <2>1 DEF Lifecycle, Parented, Child, Placed
    <2>2. CASE r = Shell
        <3>1. pc'[Shell] # "setup"
            BY DEF IInv, TopLevel
        <3>2. QED
            BY <2>2, <3>1 DEF Parented, Child, Placed
    <2>3. QED
        BY <2>1, <2>2
<1>1. /\ script' = script /\ pc'[r] = pc[r] /\ pos'[r] = pos[r] /\ fd'[r] = fd[r]
    BY <1>a, Others, ScriptKept
<1>2. life[r] = "live" /\ job'[r] = job[r]
    BY <1>a, <1>1 DEF Lifecycle, Around
<1> DEFINE t == job[r].parent
<1>3. t \in Procs /\ t # 0
    BY <1>2 DEF Forked, Procs
<1>4. /\ \A d \in Sides : Restored(t)'[d] = Restored(t)[d]
      /\ pos'[t].list = pos[t].list
    BY <1>2, <1>3, ParentSame
<1>5. /\ JobCmds(r)' = JobCmds(r) /\ JobCmd(r)' = JobCmd(r) /\ JobAt(r)' = JobAt(r)
      /\ Restored(r)' = Restored(r)
    BY <1>1, <1>2, <1>4 DEF JobCmd, JobCmds, JobList, JobAt, Restored
<1>6. JobAt(r) \in Plug /\ JobAt(r).by # 0
    BY <1>a, <1>3 DEF JobAt, Plug, Job
<1>7. \A c, i, len, d, y : Target(plug, c, i, JobAt(r), len, d, y)
                                => Target(plug', c, i, JobAt(r), len, d, y)
    BY <1>6, TargetKept
<1>9. \A d \in Sides : Home(r, d)' = Home(r, d)
    BY <1>2, <1>4 DEF Home, Restored
<1> HIDE DEF t
<1>10. Child(r)'
    <2>1. pos'[job'[r].parent].list = pos[job[r].parent].list
        BY <1>2, <1>4 DEF t
    <2>2. QED
        BY <1>1, <1>2, <1>5, <1>7, <1>9, <2>1 DEF Parented, Child
<1>11. Placed(r)'
    BY <1>1, <1>2, <1>5, <1>7, <1>9 DEF Parented, Placed
<1>12. QED
    BY <1>10, <1>11 DEF Parented

-------------------------------------------------------------------------------
(* What a step of p does to its own command.                                   *)

\* A command that is over keeps the pipe for the next one, and nothing more.
LEMMA AfterShelled ==
    ASSUME NEW p \in Procs, Kept(p), pc'[p] = "after", script' = script,
           pos'[p] = pos[p], fd'[p].pipe = fd[p].pipe, plug' = plug,
           Piped(p) => pc[p] \in {"simple", "forked", "redir"}
    PROVE  Shelled(p)'
<1>1. (Piped(p)' <=> Piped(p)) /\ At(p)' = At(p)
    BY DEF Piped, Cmds, List, At
<1>2. Kept(p)'
    BY <1>1 DEF Kept
<1>3. QED
    BY <1>2 DEF Shelled, Between, Setting, AtWork

\* Where nothing is set up there is nothing to say.
LEMMA IdleShelled ==
    ASSUME NEW p \in Procs,
           pc'[p] \in {"off", "failing", "setup", "program", "wait", "listdone"}
    PROVE  Shelled(p)'
BY DEF Shelled, Between, Setting, Kept, AtWork

\* The first command of a pipeline, when nothing is left from the one before.
LEMMA FirstShelled ==
    ASSUME NEW p \in Procs, pc'[p] = "command", pos'[p].cm = 1, pos'[p].rd = 1,
           fd'[p].io = Closed
    PROVE  Shelled(p)'
<1>1. \A d \in Sides : fd'[p].io[d] = None
    BY DEF Closed
<1>2. At(p)'.cm = 1
    BY DEF At
<1>3. Between(p)'
    BY <1>1, <1>2 DEF Between, Neighbour, Sides
<1>4. QED
    BY <1>3 DEF Shelled, Setting, Kept, AtWork

\* Every step of a process up to the start of its command.
LEMMA PrepareShelled ==
    ASSUME IInv, IInv', NEW p \in Procs, Step(p), Standard(p), Prepare(p), Shelled(p),
           \A k \in Pipes : plug[k].by # 0 => plug'[k] = plug[k]
    PROVE  Shelled(p)'
<1>a. /\ TypeOK /\ Positions /\ Place(p) /\ pc \in [Procs -> Labels]
      /\ pos \in [Procs -> Position] /\ fd \in [Procs -> FdTable]
      /\ plug \in [Pipes -> Plug] /\ script' = script /\ life[p] = "live" /\ p # 0
    BY ScriptKept DEF IInv, Local, Positions, TypeOK, Step, Procs
<1>b. Between(p) /\ Setting(p) /\ Kept(p) /\ AtWork(p)
    BY DEF Shelled
<1>c. At(p) \in Plug /\ At(p).by # 0 /\ At(p).cm = pos[p].cm
    BY <1>a DEF At, Plug, Position
<1>d. ASSUME Ready(p)
      PROVE  /\ pos[p].rd = 1 /\ (Piped(p) => pc[p] = "simple")
             /\ \A d \in Sides : Neighbour(plug, At(p), Len(Cmds(p)), d, fd[p].io[d])
    <2>1. CASE pc[p] = "simple"
        BY <1>b, <2>1 DEF Between, Setting
    <2>2. CASE pc[p] = "command" /\ ~Piped(p)
        <3>1. Neighbour(plug, At(p), Len(Cmds(p)), "out", None)
            BY <1>c, <2>2 DEF Neighbour, Piped
        <3>2. QED
            BY <1>b, <2>2, <3>1 DEF Between, Sides
    <2>3. QED
        BY <1>d, <2>1, <2>2 DEF Ready
<1>e. ASSUME NEW r, NEW io, Return(p, r, io),
             UNCHANGED <<script, life, pos, work, job, code, fill, plug>>,
             Ready(p) \/ pc[p] \in {"forked", "redir"}
      PROVE  Shelled(p)'
    <2>1. pc'[p] = "after" /\ fd'[p].pipe = fd[p].pipe
        BY <1>a, <1>e DEF Return, FdTable
    <2>2. QED
        BY <1>b, <1>d, <1>e, <2>1, AfterShelled
<1>1. ASSUME NEW k \in Pipes, MakePipe(p, k) PROVE Shelled(p)'
    <2>1. /\ pc[p] = "command" /\ pc'[p] = "simple" /\ Piped(p) /\ pos' = pos
          /\ plug' = [plug EXCEPT ![k] = At(p)]
        BY <1>a, <1>1 DEF MakePipe, At
    <2>2. /\ fd'[p].io["out"] = WriteEnd(k) /\ fd'[p].io["in"] = fd[p].io["in"]
          /\ fd'[p].pipe = ReadEnd(k)
        BY <1>a, <1>1 DEF MakePipe, FdTable, Sides
    <2>3. /\ Cmds(p)' = Cmds(p) /\ (Piped(p)' <=> Piped(p)) /\ At(p)' = At(p)
        BY <1>a, <2>1 DEF Piped, Cmds, List, At
    <2>4. plug'[k] = At(p)
        BY <1>a, <2>1
    <2>5. Neighbour(plug', At(p), Len(Cmds(p)), "out", WriteEnd(k))
        BY <1>c, <2>1, <2>4 DEF Neighbour, Piped
    <2>6. Neighbour(plug', At(p), Len(Cmds(p)), "in", fd[p].io["in"])
        BY <1>b, <1>c, <2>1, NeighbourKept DEF Between
    <2>7. Setting(p)'
        <3>1. \A d \in Sides : Neighbour(plug', At(p), Len(Cmds(p)), d, fd'[p].io[d])
            BY <2>2, <2>5, <2>6 DEF Sides
        <3>2. QED
            BY <2>1, <2>3, <3>1 DEF Setting
    <2>8. Kept(p)'
        BY <2>2, <2>3, <2>4 DEF Kept
    <2>9. Between(p)'
        BY <1>b, <2>1 DEF Between
    <2>10. QED
        BY <2>1, <2>7, <2>8, <2>9 DEF Shelled, AtWork
<1>2. ASSUME PipeFails(p) \/ ExitAfterPipeError(p) \/ RedirectFailsInChild(p)
             \/ StartProgram(p)
      PROVE  Shelled(p)'
    BY <1>a, <1>2, IdleShelled DEF PipeFails, ExitAfterPipeError, RedirectFailsInChild,
       StartProgram, Exit
<1>3. ASSUME NEW q \in Procs, Fork(p, q) PROVE Shelled(p)'
    <2>1. /\ p # q /\ pc'[p] = "forked" /\ pos'[p] = pos[p] /\ fd'[p] = fd[p]
          /\ plug' = plug /\ Ready(p)
        BY <1>a, <1>3 DEF Fork
    <2>2. (Piped(p)' <=> Piped(p)) /\ At(p)' = At(p)
        BY <1>a, <2>1 DEF Piped, Cmds, List, At
    <2>3. Kept(p)'
        BY <1>b, <1>d, <2>1, <2>2 DEF Kept
    <2>4. QED
        BY <2>1, <2>3 DEF Shelled, Between, Setting, AtWork
<1>4. ASSUME CloseIo(p) \/ ForkFails(p) \/ ExpansionFails(p) \/ RedirectFailsInPlace(p)
             \/ NothingToRun(p)
      PROVE  Shelled(p)'
    BY <1>e, <1>4 DEF CloseIo, ForkFails, ExpansionFails, RedirectFailsInPlace, NothingToRun
<1>5. ASSUME StartInPlace(p) PROVE Shelled(p)'
    <2>1. Ready(p) /\ pc'[p] = "redir" /\ pos' = pos /\ fd' = fd /\ plug' = plug
        BY <1>a, <1>5 DEF StartInPlace
    <2>2. /\ Cmds(p)' = Cmds(p) /\ Cmd(p)' = Cmd(p) /\ (Piped(p)' <=> Piped(p))
          /\ At(p)' = At(p)
        BY <1>a, <2>1 DEF Piped, Cmd, Cmds, List, At
    <2>3. Len(Cmd(p).redirs) \in Nat
        BY <1>a, <2>1, CmdTypes DEF Ready
    <2>4. Setting(p)'
        BY <1>d, <2>1, <2>2, <2>3, TargetFirst DEF Setting
    <2>5. Kept(p)'
        BY <1>b, <1>d, <2>1, <2>2 DEF Kept
    <2>6. QED
        BY <2>1, <2>4, <2>5 DEF Shelled, Between, AtWork
<1>6. ASSUME Redirect(p) PROVE Shelled(p)'
    <2>1. CASE pc[p] = "setup"
        BY <1>6, <2>1, IdleShelled DEF Redirect
    <2>2. CASE pc[p] = "redir"
        <3> DEFINE c == Cmd(p)
                   r == pos[p].rd
        <3>1. /\ pc'[p] = "redir" /\ plug' = plug /\ fd'[p].pipe = fd[p].pipe
              /\ fd'[p].io = [fd[p].io EXCEPT ![c.redirs[r].dir] = File(c.redirs[r].id)]
              /\ pos'[p].list = pos[p].list /\ pos'[p].pl = pos[p].pl
              /\ pos'[p].cm = pos[p].cm /\ pos'[p].rd = r + 1
            BY <1>a, <1>6, <2>2 DEF Redirect, Redir, FdTable, Position
        <3>2. /\ Cmds(p)' = Cmds(p) /\ Cmd(p)' = Cmd(p) /\ (Piped(p)' <=> Piped(p))
              /\ At(p)' = At(p)
            BY <1>a, <3>1 DEF Piped, Cmd, Cmds, List, At
        <3>3. /\ Len(c.redirs) \in Nat /\ r \in 1 .. Len(c.redirs)
              /\ fd[p].io \in [Sides -> Descs]
            <4>1. Len(c.redirs) \in Nat
                BY <1>a, <2>2, CmdTypes
            <4>2. r \in Nat /\ r # 0 /\ r <= Len(c.redirs) /\ fd[p].io \in [Sides -> Descs]
                BY <1>a, <1>6 DEF Position, Place, Redirect, Redirecting, FdTable
            <4>3. QED
                BY <4>1, <4>2
        <3>4. \A d \in Sides : Target(plug, c, r, At(p), Len(Cmds(p)), d, fd[p].io[d])
            BY <1>b, <2>2 DEF Setting
        <3> HIDE DEF c, r
        <3>5. ASSUME NEW d \in Sides
              PROVE  Target(plug, c, r + 1, At(p), Len(Cmds(p)), d, fd'[p].io[d])
            <4>1. CASE d = c.redirs[r].dir
                BY <3>1, <3>3, <4>1, TargetNext
            <4>2. CASE d # c.redirs[r].dir
                <5>1. fd'[p].io[d] = fd[p].io[d]
                    BY <3>1, <3>3, <4>2
                <5>2. QED
                    BY <3>3, <3>4, <4>2, <5>1, TargetNext
            <4>3. QED
                BY <4>1, <4>2
        <3>6. Setting(p)'
            BY <3>1, <3>2, <3>5 DEF Setting, c
        <3>7. Kept(p)'
            BY <1>b, <2>2, <3>1, <3>2 DEF Kept
        <3>8. QED
            BY <3>1, <3>6, <3>7 DEF Shelled, Between, AtWork
    <2>3. QED
        BY <1>6, <2>1, <2>2 DEF Redirect, Redirecting
<1>7. ASSUME StartSubshell(p) PROVE Shelled(p)'
    BY <1>a, <1>7, FirstShelled DEF StartSubshell, Start, NoFds
<1>8. ASSUME StartBuiltin(p) PROVE Shelled(p)'
    <2>1. /\ pc[p] = "redir" /\ pc'[p] = "builtin" /\ pos' = pos /\ plug' = plug
          /\ fd'[p].std = Dup2Result(p) /\ pos[p].rd > Len(Cmd(p).redirs)
          /\ life' = life
        BY <1>a, <1>8 DEF StartBuiltin, NoFds, Redirected
    <2>2. /\ Cmds(p)' = Cmds(p) /\ Cmd(p)' = Cmd(p) /\ At(p)' = At(p)
        BY <1>a, <2>1 DEF Cmd, Cmds, List, At
    <2>3. Len(Cmd(p).redirs) \in Nat /\ pos[p].rd \in Nat
        BY <1>a, <2>1, CmdTypes DEF Position
    <2>4. \A d \in Sides : Target(plug, Cmd(p), Len(Cmd(p).redirs) + 1, At(p),
                                  Len(Cmds(p)), d, fd[p].io[d])
        BY <1>b, <2>1, <2>3, TargetLast DEF Setting
    <2>5. \A d \in Sides : Restored(p)'[d] = fd[p].std[d]
        <3>1. Steady(p)
            BY <1>a, OwnStandard
        <3>2. \A d \in Sides : Restored(p)[d] = fd[p].std[d]
            BY <1>a, <2>1 DEF Standard, Restored, Closed
        <3>3. QED
            BY <1>a, <2>1, <3>1, <3>2 DEF Steady
    <2>6. \A d \in Sides : /\ fd[p].io[d] \in {fd'[p].std[d], None}
                           /\ fd'[p].std[d] = Over(fd[p].io[d], fd[p].std[d])
        BY <2>1 DEF Dup2Result, Over
    <2>7. AtWork(p)'
        <3> SUFFICES ASSUME NEW d \in Sides
                     PROVE  \E y \in {fd'[p].std[d], None} :
                                /\ Target(plug', Cmd(p)', Len(Cmd(p)'.redirs) + 1, At(p)',
                                          Len(Cmds(p)'), d, y)
                                /\ fd'[p].std[d] = Over(y, Restored(p)'[d])
            BY DEF AtWork
        <3>1. Restored(p)'[d] = fd[p].std[d]
            BY <2>5
        <3>2. QED
            BY <2>1, <2>2, <2>4, <2>6, <3>1
    <2>8. QED
        BY <2>1, <2>7 DEF Shelled, Between, Setting, Kept
<1>9. QED
    BY <1>1, <1>2, <1>3, <1>4, <1>5, <1>6, <1>7, <1>8 DEF Prepare

\* Every step of a program or a builtin at work.
LEMMA WorkShelled ==
    ASSUME IInv, NEW p \in Procs, Step(p), Work(p), Shelled(p)
    PROVE  Shelled(p)'
<1>a. /\ TypeOK /\ Positions /\ Flags(p) /\ pc \in [Procs -> Labels]
      /\ fd \in [Procs -> FdTable] /\ script' = script
    BY ScriptKept DEF IInv, Local, Positions, TypeOK
<1>1. ASSUME Running(p), UNCHANGED <<pc, pos, fd, plug>> PROVE Shelled(p)'
    <2>1. /\ Cmds(p)' = Cmds(p) /\ Cmd(p)' = Cmd(p) /\ At(p)' = At(p)
          /\ Restored(p)' = Restored(p)
        BY <1>a, <1>1 DEF Cmd, Cmds, List, At, Restored
    <2>2. AtWork(p)'
        BY <1>1, <2>1 DEF Shelled, AtWork
    <2>3. QED
        BY <1>1, <2>2 DEF Running, Shelled, Between, Setting, Kept
<1>2. ASSUME NEW k \in Pipes, Read(p, k) \/ Write(p, k) PROVE Shelled(p)'
    BY <1>1, <1>2 DEF Read, Write
<1>3. ASSUME EndOfInput(p) \/ WriteFile(p) PROVE Shelled(p)'
    BY <1>1, <1>3 DEF EndOfInput, WriteFile
<1>4. ASSUME NEW s, Exit(p, s) PROVE Shelled(p)'
    BY <1>a, <1>4, IdleShelled DEF Exit
<1>5. ASSUME NEW s, BuiltinEnds(p, s) PROVE Shelled(p)'
    <2>1. /\ pc[p] = "builtin" /\ pc'[p] = "after" /\ pos' = pos /\ plug' = plug
          /\ fd'[p].pipe = fd[p].pipe
        BY <1>a, <1>5 DEF BuiltinEnds, FdTable
    <2>2. ~Piped(p)
        <3>1. Len(Cmds(p)) = 1 /\ pos[p].cm \in 1 .. Len(Cmds(p))
            BY <1>a, <2>1, BuiltinAlone, CmdTypes
        <3>2. QED
            BY <3>1 DEF Piped
    <2>3. QED
        BY <1>a, <2>1, <2>2, AfterShelled DEF Shelled
<1>6. QED
    BY <1>2, <1>3, <1>4, <1>5
    DEF Work, BrokenPipe, ProgramExits, ExitBuiltin

\* Every step from the end of a command to the end of its list.
LEMMA CollectShelled ==
    ASSUME IInv, ~spilled, NEW p \in Procs, Step(p), Collect(p), Shelled(p)
    PROVE  Shelled(p)'
<1>a. /\ TypeOK /\ Positions /\ Closing(p) /\ pc \in [Procs -> Labels]
      /\ pos \in [Procs -> Position] /\ fd \in [Procs -> FdTable] /\ script' = script
      /\ life[p] = "live"
    BY ScriptKept DEF IInv, Local, Positions, TypeOK, Step
<1>1. ASSUME NextCommand(p) PROVE Shelled(p)'
    <2>1. /\ pc[p] = "after" /\ Piped(p) /\ pc'[p] = "command" /\ plug' = plug
          /\ pos'[p].list = pos[p].list /\ pos'[p].pl = pos[p].pl
          /\ pos'[p].cm = pos[p].cm + 1 /\ pos'[p].rd = 1
          /\ fd'[p].io = [Closed EXCEPT !["in"] = fd[p].pipe]
        BY <1>a, <1>1 DEF NextCommand, Position, FdTable
    <2>2. fd'[p].io["in"] = fd[p].pipe /\ fd'[p].io["out"] = None
        BY <2>1 DEF Closed, Sides
    <2>3. PICK k \in Pipes : plug[k] = At(p) /\ fd[p].pipe = ReadEnd(k)
        BY <2>1 DEF Shelled, Kept
    <2>4. pos[p].cm \in Nat \ {0}
        BY <1>a, <2>1, CmdTypes
    <2>5. /\ At(p)'.by = p /\ At(p)'.pl = pos[p].pl /\ At(p)'.cm = pos[p].cm + 1
        BY <2>1 DEF At
    <2>6. plug'[k] = [by |-> At(p)'.by, pl |-> At(p)'.pl, cm |-> At(p)'.cm - 1]
        <3>1. At(p)'.cm - 1 = pos[p].cm
            BY <2>4, <2>5
        <3>2. plug'[k] = [by |-> p, pl |-> pos[p].pl, cm |-> pos[p].cm]
            BY <2>1, <2>3 DEF At
        <3>3. QED
            BY <2>5, <3>1, <3>2
    <2>7. At(p)'.cm > 1
        BY <2>4, <2>5
    <2>8. \A n : Neighbour(plug', At(p)', n, "in", ReadEnd(k))
        BY <2>6, <2>7 DEF Neighbour
    <2>9. Between(p)'
        BY <2>1, <2>2, <2>3, <2>8 DEF Between
    <2>10. QED
        BY <2>1, <2>9 DEF Shelled, Setting, Kept, AtWork
<1>2. ASSUME StartWait(p) \/ LeaveSubshell(p) PROVE Shelled(p)'
    BY <1>a, <1>2, IdleShelled DEF StartWait, LeaveSubshell, Exit
<1>3. ASSUME NEW z \in Procs, Reap(p, z) PROVE Shelled(p)'
    BY <1>3, IdleShelled DEF Reap
<1>4. ASSUME NEW s, pc[p] = "wait" \/ (pc[p] = "after" /\ ~Piped(p)), EndPipeline(p, s)
      PROVE  Shelled(p)'
    <2>1. fd[p].io = Closed
        BY <1>a, <1>4 DEF Closing
    <2>2. PICK n : pos' = [pos EXCEPT ![p].pl = n, ![p].cm = 1, ![p].rd = 1]
        BY <1>4 DEF EndPipeline
    <2>3. PICK l \in {"command", "listdone"} : pc' = [pc EXCEPT ![p] = l]
        BY <1>4 DEF EndPipeline
    <2>4. fd' = fd /\ pos'[p].cm = 1 /\ pos'[p].rd = 1
        BY <1>a, <1>4, <2>2 DEF EndPipeline, Position
    <2>5. pc'[p] \in {"command", "listdone"}
        BY <1>a, <2>3
    <2>6. QED
        BY <2>1, <2>4, <2>5, FirstShelled, IdleShelled
<1>5. QED
    BY <1>1, <1>2, <1>3, <1>4 DEF Collect, EndWithoutWait, EndWait

-------------------------------------------------------------------------------
(* What a step of p does to the command it was forked for.                     *)

\* A child on its way to its program does nothing else.
LEMMA SetupSteps ==
    ASSUME NEW p \in Procs, Step(p)
    PROVE  /\ pc[p] = "setup" => Redirect(p) \/ RedirectFailsInChild(p)
                                    \/ StartProgram(p) \/ StartSubshell(p)
           /\ Redirect(p) => pc[p] \in {"redir", "setup"}
<1>1. Redirect(p) => pc[p] \in {"redir", "setup"}
    BY DEF Redirect, Redirecting
<1>2. ASSUME pc[p] = "setup", Prepare(p)
      PROVE  Redirect(p) \/ RedirectFailsInChild(p) \/ StartProgram(p) \/ StartSubshell(p)
    BY <1>2 DEF Prepare, MakePipe, PipeFails, ExitAfterPipeError, Fork, Ready, CloseIo,
       ForkFails, ExpansionFails, StartInPlace, RedirectFailsInPlace, StartBuiltin,
       NothingToRun
<1>3. ASSUME pc[p] = "setup" PROVE ~Work(p)
    BY <1>3 DEF Work, Running, Read, Write, BrokenPipe, EndOfInput, WriteFile, ProgramExits,
       ExitBuiltin, BuiltinEnds
<1>4. ASSUME pc[p] = "setup" PROVE ~Collect(p)
    BY <1>4 DEF Collect, NextCommand, StartWait, Reap, EndWithoutWait, EndWait,
       LeaveSubshell
<1>5. QED
    BY <1>1, <1>2, <1>3, <1>4 DEF Step

\* A child is at the command it was forked for until its program starts.
LEMMA AtItsJob ==
    ASSUME NEW p, Child(p), pc[p] = "setup"
    PROVE  Cmd(p) = JobCmd(p) /\ Cmds(p) = JobCmds(p)
BY DEF Child, Cmd, Cmds, List, JobCmd, JobCmds, JobList

\* A process that goes on keeps what its command says.
LEMMA OwnParented ==
    ASSUME IInv, IInv', \A z \in Procs : Standard(z), NEW p \in Procs, Step(p), Forked(p),
           \A k \in Pipes : plug[k].by # 0 => plug'[k] = plug[k], Parented(p)
    PROVE  Parented(p)'
<1>a. /\ TypeOK /\ TypeOK' /\ Positions /\ Place(p) /\ Lifecycle' /\ TopLevel /\ TopLevel'
      /\ Around(p) /\ job \in [Procs -> Job] /\ pos \in [Procs -> Position]
      /\ fd \in [Procs -> FdTable] /\ pc \in [Procs -> Labels]
      /\ life[p] = "live" /\ script' = script
    BY StepAround, ScriptKept DEF IInv, Local, Positions, TypeOK, Step
<1> SUFFICES ASSUME life'[p] = "live", p # Shell PROVE Parented(p)'
    <2>1. CASE life'[p] # "live"
        BY <1>a, <2>1 DEF Lifecycle, Parented, Child, Placed
    <2>2. CASE p = Shell
        BY <1>a, <2>2 DEF TopLevel, Parented, Child, Placed
    <2>3. QED
        BY <2>1, <2>2
<1>1. job'[p] = job[p] /\ job[p].parent \in Procs /\ job[p].parent # 0
    BY <1>a DEF Around, Forked, Procs
<1>2. /\ \A d \in Sides : Restored(job[p].parent)'[d] = Restored(job[p].parent)[d]
      /\ pos'[job[p].parent].list = pos[job[p].parent].list
    <2>1. PICK t \in Procs : job[p].parent = t
        BY <1>1
    <2>2. /\ \A d \in Sides : Restored(t)'[d] = Restored(t)[d]
          /\ pos'[t].list = pos[t].list
        BY <1>a, <2>1, ParentSame
    <2>3. QED
        BY <1>1, <2>1, <2>2 DEF Restored
<1>3. /\ JobCmds(p)' = JobCmds(p) /\ JobCmd(p)' = JobCmd(p) /\ JobAt(p)' = JobAt(p)
      /\ \A d \in Sides : Home(p, d)' = Home(p, d)
    BY <1>a, <1>1, <1>2 DEF JobCmd, JobCmds, JobList, JobAt, Home, Restored
<1>4. JobAt(p) \in Plug /\ JobAt(p).by # 0
    BY <1>a, <1>1 DEF JobAt, Plug, Job
<1>5. \A c, i, len, d, y : Target(plug, c, i, JobAt(p), len, d, y)
                                => Target(plug', c, i, JobAt(p), len, d, y)
    BY <1>4, TargetKept
<1>6. CASE pc[p] # "setup"
    <2>1. \A d \in Sides : Restored(p)'[d] = Restored(p)[d]
        BY <1>a, <1>6, OwnStandard DEF Steady
    <2>2. pc'[p] # "setup"
        <3>1. CASE pc[p] \notin {"setup", "program"}
            BY <3>1, StepMoves DEF Moves
        <3>2. CASE pc[p] = "program"
            <4>1. Work(p)
                BY <3>2 DEF Step, Prepare, MakePipe, PipeFails, ExitAfterPipeError, Fork,
                   Ready, CloseIo, ForkFails, ExpansionFails, StartInPlace, Redirect,
                   Redirecting, RedirectFailsInChild, RedirectFailsInPlace, StartProgram,
                   StartSubshell, StartBuiltin, NothingToRun, Collect, NextCommand,
                   StartWait, Reap, EndWithoutWait, EndWait, LeaveSubshell
            <4>2. QED
                BY <1>a, <3>2, <4>1 DEF Work, Read, Write, BrokenPipe, EndOfInput,
                   WriteFile, ProgramExits, ExitBuiltin, BuiltinEnds, Exit
        <3>3. QED
            BY <1>6, <3>1, <3>2
    <2>3. Placed(p)'
        BY <1>3, <1>5, <1>6, <1>a, <2>1 DEF Parented, Placed
    <2>4. QED
        BY <2>2, <2>3 DEF Parented, Child
<1>7. CASE pc[p] = "setup"
    <2>a. /\ Cmd(p) = JobCmd(p) /\ Cmds(p) = JobCmds(p) /\ Child(p)
          /\ fd[p].saved = Closed /\ Len(JobCmd(p).redirs) \in Nat /\ pos[p].rd \in Nat
        <3>1. Cmd(p) = JobCmd(p) /\ Cmds(p) = JobCmds(p) /\ Child(p)
            BY <1>7, AtItsJob DEF Parented
        <3>2. Len(Cmd(p).redirs) \in Nat
            BY <1>a, <1>7, CmdTypes
        <3>3. QED
            BY <1>a, <1>7, <3>1, <3>2 DEF Standard, Position
    <2>b. ~RedirectFailsInChild(p)
        BY <1>a DEF RedirectFailsInChild, Exit, TypeOK
    <2>1. ASSUME Redirect(p) PROVE Parented(p)'
        <3> DEFINE c == JobCmd(p)
                   r == pos[p].rd
        <3>1. /\ pc'[p] = "setup" /\ fd'[p].std = fd[p].std
              /\ fd'[p].io = [fd[p].io EXCEPT ![c.redirs[r].dir] = File(c.redirs[r].id)]
              /\ pos'[p].list = pos[p].list /\ pos'[p].pl = pos[p].pl
              /\ pos'[p].cm = pos[p].cm /\ pos'[p].rd = r + 1
            BY <1>a, <1>7, <2>a, <2>1 DEF Redirect, Redir, FdTable, Position
        <3>2. /\ Len(c.redirs) \in Nat /\ r \in 1 .. Len(c.redirs)
              /\ fd[p].io \in [Sides -> Descs]
            <4>1. r \in Nat /\ r # 0 /\ r <= Len(c.redirs) /\ fd[p].io \in [Sides -> Descs]
                BY <1>a, <2>a, <2>1 DEF Position, Place, Redirect, Redirecting, FdTable
            <4>2. QED
                BY <2>a, <4>1
        <3>3. \A d \in Sides :
                Target(plug, c, r, JobAt(p), Len(JobCmds(p)), d, fd[p].io[d])
            BY <1>7, <2>a DEF Child
        <3> HIDE DEF c, r
        <3>4. ASSUME NEW d \in Sides
              PROVE  Target(plug, c, r + 1, JobAt(p), Len(JobCmds(p)), d, fd'[p].io[d])
            <4>1. CASE d = c.redirs[r].dir
                BY <3>1, <3>2, <4>1, TargetNext
            <4>2. CASE d # c.redirs[r].dir
                <5>1. fd'[p].io[d] = fd[p].io[d]
                    BY <3>1, <3>2, <4>2
                <5>2. QED
                    BY <3>2, <3>3, <4>2, <5>1, TargetNext
            <4>3. QED
                BY <4>1, <4>2
        <3>5. /\ pos[p].list = pos[job[p].parent].list
              /\ pos[p].pl = job[p].pl /\ pos[p].cm = job[p].cm
              /\ \A d \in Sides : fd[p].std[d] = Home(p, d)
            BY <1>7, <2>a DEF Child
        <3>6. pos'[p].list = pos'[job'[p].parent].list
            BY <1>1, <1>2, <3>1, <3>5
        <3>7. pos'[p].pl = job'[p].pl /\ pos'[p].cm = job'[p].cm
            BY <1>1, <3>1, <3>5
        <3>8. \A d \in Sides :
                /\ fd'[p].std[d] = Home(p, d)'
                /\ Target(plug', JobCmd(p)', pos'[p].rd, JobAt(p)', Len(JobCmds(p)'), d,
                          fd'[p].io[d])
            BY <1>3, <1>5, <3>1, <3>4, <3>5 DEF c
        <3>9. Child(p)'
            BY <3>6, <3>7, <3>8 DEF Child
        <3>10. QED
            BY <3>1, <3>9 DEF Parented, Placed
    <2>2. ASSUME StartProgram(p) \/ StartSubshell(p) PROVE Parented(p)'
        <3>1. /\ pc'[p] # "setup" /\ fd'[p].std = Dup2Result(p) /\ fd'[p].saved = Closed
              /\ pos[p].rd > Len(JobCmd(p).redirs)
            BY <1>a, <2>a, <2>2 DEF StartProgram, StartSubshell, NoFds, Redirected
        <3>2. \A d \in Sides : Restored(p)'[d] = Over(fd[p].io[d], Home(p, d))
            BY <1>7, <2>a, <3>1 DEF Restored, Closed, Dup2Result, Over, Child
        <3>3. \A d \in Sides : fd[p].io[d] \in {Restored(p)'[d], None}
            BY <3>2 DEF Over
        <3>4. \A d \in Sides : Target(plug', JobCmd(p), Len(JobCmd(p).redirs) + 1, JobAt(p),
                                      Len(JobCmds(p)), d, fd[p].io[d])
            BY <1>5, <1>7, <2>a, <3>1, TargetLast DEF Child
        <3>5. Placed(p)'
            <4> SUFFICES ASSUME NEW d \in Sides
                         PROVE  \E y \in {Restored(p)'[d], None} :
                                    /\ Target(plug', JobCmd(p)', Len(JobCmd(p)'.redirs) + 1,
                                              JobAt(p)', Len(JobCmds(p)'), d, y)
                                    /\ Restored(p)'[d] = Over(y, Home(p, d)')
                BY <1>3, <2>a DEF Placed
            <4>1. QED
                BY <1>3, <3>2, <3>3, <3>4
        <3>6. QED
            BY <3>1, <3>5 DEF Parented, Child
    <2>3. QED
        BY <1>7, <2>b, <2>1, <2>2, SetupSteps
<1>8. QED
    BY <1>6, <1>7

\* A child begins with what its shell has set up.
LEMMA ForkParented ==
    ASSUME IInv, NEW p \in Procs, Step(p), Standard(p), Shelled(p), Forked(p),
           NEW q \in Procs, Fork(p, q)
    PROVE  Parented(q)'
<1>a. /\ TypeOK /\ Positions /\ pc \in [Procs -> Labels] /\ pos \in [Procs -> Position]
      /\ fd \in [Procs -> FdTable] /\ job \in [Procs -> Job] /\ script' = script
      /\ life[p] = "live"
    BY ScriptKept DEF IInv, Local, Positions, TypeOK, Step
<1>1. /\ p # q /\ Ready(p) /\ pc'[q] = "setup" /\ plug' = plug
      /\ pos'[q] = pos[p] /\ pos'[p] = pos[p] /\ fd'[q] = fd[p] /\ fd'[p] = fd[p]
      /\ job'[q] = [parent |-> p, pl |-> pos[p].pl, cm |-> pos[p].cm]
    BY <1>a DEF Fork
<1>2. job'[q].parent = p /\ job'[q].pl = pos[p].pl /\ job'[q].cm = pos[p].cm
    BY <1>1
<1>3. JobCmds(q)' = Cmds(p) /\ JobCmd(q)' = Cmd(p) /\ JobAt(q)' = At(p)
    BY <1>a, <1>1, <1>2 DEF JobCmds, JobCmd, JobList, Cmd, Cmds, List, JobAt, At
<1>4. \A d \in Sides : Home(q, d)' = fd[p].std[d]
    <2>1. fd[p].saved = Closed
        BY <1>a, <1>1 DEF Ready, Standard
    <2>2. QED
        BY <1>1, <1>2, <2>1 DEF Home, Restored, Closed
<1>5. pos[p].rd = 1 /\ Len(Cmd(p).redirs) \in Nat
    BY <1>a, <1>1, CmdTypes DEF Shelled, Between, Ready
<1>6. \A d \in Sides : Neighbour(plug, At(p), Len(Cmds(p)), d, fd[p].io[d])
    <2>1. CASE pc[p] = "simple"
        BY <2>1 DEF Shelled, Setting
    <2>2. CASE pc[p] = "command" /\ ~Piped(p)
        <3>1. Neighbour(plug, At(p), Len(Cmds(p)), "out", None)
            BY <2>2 DEF Neighbour, Piped, At
        <3>2. QED
            BY <2>2, <3>1 DEF Shelled, Between, Sides
    <2>3. QED
        BY <1>1, <2>1, <2>2 DEF Ready
<1>7. \A d \in Sides : Target(plug, Cmd(p), 1, At(p), Len(Cmds(p)), d, fd[p].io[d])
    BY <1>5, <1>6, TargetFirst
<1>8. pos'[q].list = pos'[job'[q].parent].list
    BY <1>1, <1>2
<1>9. Child(q)'
    BY <1>1, <1>2, <1>3, <1>4, <1>5, <1>7, <1>8 DEF Child
<1>10. QED
    BY <1>1, <1>9 DEF Parented, Placed

-------------------------------------------------------------------------------
(* The invariant.                                                              *)

\* In the initial state there is the shell, at its terminal, and no pipe.
LEMMA InitPlumb == Init => PlumbInv
<1> SUFFICES ASSUME Init PROVE PlumbInv
    OBVIOUS
<1>1. StatusInv
    BY InitTracked
<1>2. \A k \in Pipes : plug[k].by = 0
    BY DEF Init
<1>3. /\ \A p \in Procs : p # 0 /\ (p # Shell => life[p] = "free" /\ pc[p] = "off")
      /\ \A p \in Procs : pc[p] \in {"command", "off"} /\ pos[p].cm = 1 /\ pos[p].rd = 1
    BY DEF Init, Start, Procs
<1>4. Shell \in Procs
    BY SizesAssumption DEF Shell, Procs
<1>5. \A d \in Sides : /\ fd[Shell].std[d] = Tty
                       /\ fd[Shell].io[d] = None
    BY <1>4 DEF Init, NoFds, Closed
<1>6. fd[Shell].saved = Closed
    BY <1>4 DEF Init, NoFds
<1>7. OnePlug /\ \A p \in Procs : PlugsBehind(p)
    BY <1>2, <1>3 DEF OnePlug, PlugsBehind
<1>8. ASSUME NEW p \in Procs PROVE Standard(p) /\ Forked(p) /\ Parented(p)
    BY <1>3, <1>5, <1>6 DEF Standard, Forked, Parented, Child, Placed, Tty, None
<1>9. ASSUME NEW p \in Procs PROVE Shelled(p)
    <2>1. CASE p = Shell
        <3>1. \A n : Neighbour(plug, At(p), n, "in", None)
            BY <1>3 DEF Neighbour, At
        <3>2. Between(p)
            BY <1>3, <1>5, <2>1, <3>1 DEF Between, Sides
        <3>3. QED
            BY <1>3, <3>2 DEF Shelled, Setting, Kept, AtWork
    <2>2. CASE p # Shell
        BY <1>3, <2>2 DEF Shelled, Between, Setting, Kept, AtWork
    <2>3. QED
        BY <2>1, <2>2
<1>10. QED
    BY <1>1, <1>7, <1>8, <1>9 DEF PlumbInv

\* The invariant is inductive.
LEMMA StepPlumb == PlumbInv /\ [Next]_vars => PlumbInv'
<1> SUFFICES ASSUME PlumbInv, [Next]_vars PROVE PlumbInv'
    OBVIOUS
<1>a. /\ StatusInv /\ IInv /\ TypeOK /\ OnePlug
      /\ \A p \in Procs : PlugsBehind(p) /\ Standard(p) /\ Forked(p)
    BY DEF PlumbInv, StatusInv, IInv
<1>b. StatusInv' /\ IInv'
    <2>1. StatusInv'
        BY <1>a, StepTracked
    <2>2. QED
        BY <2>1 DEF StatusInv
<1>1. ASSUME NEW p \in Procs, Step(p) PROVE PlumbInv'
    <2>1. /\ OnePlug' /\ \A r \in Procs : PlugsBehind(r)'
          /\ \A k \in Pipes : plug[k].by # 0 => plug'[k] = plug[k]
        BY <1>a, <1>b, <1>1, PlugStep
    <2>2. \A r \in Procs : Standard(r)'
        BY <1>a, <1>b, <1>1, StandardStep
    <2>3. \A r \in Procs : Forked(r)'
        BY <1>a, <1>b, <1>1, ForkedStep
    <2>4. ASSUME ~spilled', NEW r \in Procs PROVE Shelled(r)' /\ Parented(r)'
        <3>1. ~spilled /\ \A z \in Procs : Shelled(z) /\ Parented(z)
            <4>1. ~spilled
                BY <1>a, <1>1, <2>4, ScriptKept
            <4>2. QED
                BY <4>1 DEF PlumbInv
        <3>2. ASSUME r # p, ~Fork(p, r) PROVE Shelled(r)' /\ Parented(r)'
            BY <1>a, <1>b, <1>1, <2>1, <3>1, <3>2, OthersShelled, OthersParented
        <3>3. ASSUME Fork(p, r) PROVE Shelled(r)' /\ Parented(r)'
            <4>1. pc'[r] = "setup"
                BY <1>a, <3>3 DEF Fork, TypeOK
            <4>2. Shelled(r)'
                BY <4>1, IdleShelled
            <4>3. Parented(r)'
                BY <1>a, <1>1, <3>1, <3>3, ForkParented
            <4>4. QED
                BY <4>2, <4>3
        <3>4. ASSUME r = p PROVE Shelled(r)' /\ Parented(r)'
            <4>1. Shelled(p)'
                <5>1. CASE Prepare(p)
                    BY <1>a, <1>b, <1>1, <2>1, <3>1, <5>1, PrepareShelled
                <5>2. CASE Work(p)
                    BY <1>a, <1>1, <3>1, <5>2, WorkShelled
                <5>3. CASE Collect(p)
                    BY <1>a, <1>1, <3>1, <5>3, CollectShelled
                <5>4. QED
                    BY <1>1, <5>1, <5>2, <5>3 DEF Step
            <4>2. Parented(p)'
                BY <1>a, <1>b, <1>1, <2>1, <3>1, OwnParented
            <4>3. QED
                BY <3>4, <4>1, <4>2
        <3>5. QED
            BY <3>2, <3>3, <3>4
    <2>5. QED
        BY <1>b, <2>1, <2>2, <2>3, <2>4 DEF PlumbInv
<1>2. ASSUME UNCHANGED vars PROVE PlumbInv'
    <2>1. UNCHANGED <<script, life, pc, pos, fd, job, plug, spilled>>
        BY <1>2 DEF vars
    <2>2. OnePlug' /\ \A p \in Procs : PlugsBehind(p)' /\ Standard(p)' /\ Forked(p)'
        BY <1>a, <2>1 DEF OnePlug, PlugsBehind, Standard, Forked
    <2>3. ASSUME ~spilled', NEW p \in Procs PROVE Shelled(p)' /\ Parented(p)'
        <3>1. Shelled(p) /\ Parented(p)
            BY <2>1, <2>3 DEF PlumbInv
        <3>2. /\ Cmds(p)' = Cmds(p) /\ Cmd(p)' = Cmd(p) /\ (Piped(p)' <=> Piped(p))
              /\ At(p)' = At(p) /\ JobAt(p)' = JobAt(p) /\ JobCmds(p)' = JobCmds(p)
              /\ JobCmd(p)' = JobCmd(p) /\ Restored(p)' = Restored(p)
            BY <2>1 DEF Cmds, Cmd, List, Piped, At, JobAt, JobCmds, JobCmd, JobList, Restored
        <3>3. \A d \in Sides : Home(p, d)' = Home(p, d)
            BY <2>1 DEF Home, Restored
        <3>4. Between(p)' /\ Setting(p)' /\ Kept(p)' /\ AtWork(p)'
            BY <2>1, <3>1, <3>2 DEF Shelled, Between, Setting, Kept, AtWork
        <3>5. Child(p)' /\ Placed(p)'
            BY <2>1, <3>1, <3>2, <3>3 DEF Parented, Child, Placed
        <3>6. QED
            BY <3>4, <3>5 DEF Shelled, Parented
    <2>4. QED
        BY <1>b, <2>2, <2>3 DEF PlumbInv
<1>3. QED
    BY <1>1, <1>2 DEF Next

\* The invariant holds in every reachable state.
LEMMA PlumbInvariant == Spec => []PlumbInv
<1>1. QED
    BY InitPlumb, StepPlumb, PTL DEF Spec

-------------------------------------------------------------------------------
(* The theorem.                                                                *)

\* There is only one pipe for the output of a command.
LEMMA PipeIs ==
    ASSUME OnePlug, NEW p, NEW pl, NEW cm, p # 0,
           NEW k \in Pipes, plug[k] = [by |-> p, pl |-> pl, cm |-> cm]
    PROVE  PipeAfter(p, pl, cm) = k
<1> DEFINE this == [by |-> p, pl |-> pl, cm |-> cm]
<1>1. this.by # 0 /\ plug[k] = this
    OBVIOUS
<1>2. PipeAfter(p, pl, cm) = CHOOSE j \in Pipes : plug[j] = this
    BY DEF PipeAfter
<1> HIDE DEF this
<1>3. \A j \in Pipes : plug[j] = this => j = k
    BY <1>1 DEF OnePlug
<1>4. QED
    BY <1>1, <1>2, <1>3

(* Standard input and output of every program, subshell and builtin are the last
   redirection of that side, else the pipe to the neighbour in its pipeline, else
   what its shell has, as long as no command has left io_fd behind
   (pipe_and_execute_simple_command, process_redirection, dup2_io_fd, execute).   *)
THEOREM EveryPlumbing == Spec => []Plumbing
<1>1. PlumbInv => Plumbing
    <2> SUFFICES ASSUME PlumbInv, ~spilled PROVE Plumbing
        BY DEF Plumbing
    <2>a. /\ IInv /\ TypeOK /\ Positions /\ OnePlug
          /\ \A p \in Procs : Shelled(p) /\ Parented(p) /\ Forked(p)
          /\ \A p \in Procs : Flags(p)
        BY DEF PlumbInv, StatusInv, IInv, Local, Positions
    <2>1. ASSUME NEW q \in Live \ {Shell}, pc[q] # "setup", NEW d \in Sides
          PROVE  Restored(q)[d] = Wanted(q, d)
        <3> DEFINE c == JobCmd(q)
                   n == Len(c.redirs)
                   len == Len(JobCmds(q))
        <3>a. /\ q \in Procs /\ life[q] = "live" /\ q # Shell
              /\ job[q].parent \in Procs /\ job[q].parent # 0
            BY <2>a, <2>1 DEF Live, Forked, Procs
        <3>b. /\ n \in Nat
              /\ \E y \in {Restored(q)[d], None} :
                    /\ Target(plug, c, n + 1, JobAt(q), len, d, y)
                    /\ Restored(q)[d] = Over(y, Home(q, d))
            BY <2>a, <2>1, <3>a DEF Parented, Placed
        <3>1. PICK y \in {Restored(q)[d], None} :
                    /\ Target(plug, c, n + 1, JobAt(q), len, d, y)
                    /\ Restored(q)[d] = Over(y, Home(q, d))
            BY <3>b
        <3>2. CASE Opened(c, n + 1, d, y)
            <4>1. PICK i \in 1 .. n : LastBefore(c, i, n + 1, d) /\ y = File(c.redirs[i].id)
                BY <3>2 DEF Opened
            <4>a. i # 0
                BY <3>b
            <4>b. LastRedir(c, d) = i
                BY <3>b, <4>1, LastRedirIs
            <4>2. LastRedir(c, d) = i /\ i # 0
                BY <4>a, <4>b
            <4>3. Restored(q)[d] = File(c.redirs[i].id)
                BY <3>1, <4>1, DescsDiffer DEF Over
            <4>4. QED
                BY <4>2, <4>3 DEF Wanted
        <3>3. CASE Untouched(c, n + 1, d) /\ Neighbour(plug, JobAt(q), len, d, y)
            <4>1. LastRedir(c, d) = 0
                BY <3>b, <3>3, LastRedirIs
            <4>2. /\ JobAt(q).by = job[q].parent /\ JobAt(q).pl = job[q].pl
                  /\ JobAt(q).cm = job[q].cm
                BY DEF JobAt
            <4>3. CASE d = "in" /\ job[q].cm > 1
                <5>1. PICK k \in Pipes :
                        /\ plug[k] = [by |-> job[q].parent, pl |-> job[q].pl,
                                      cm |-> job[q].cm - 1]
                        /\ y = ReadEnd(k)
                    BY <3>3, <4>2, <4>3 DEF Neighbour
                <5>2. PipeAfter(job[q].parent, job[q].pl, job[q].cm - 1) = k
                    BY <2>a, <3>a, <5>1, PipeIs
                <5>3. Restored(q)[d] = ReadEnd(k)
                    BY <3>1, <5>1, DescsDiffer DEF Over
                <5>4. QED
                    BY <4>1, <4>3, <5>2, <5>3 DEF Wanted
            <4>4. CASE d = "out" /\ job[q].cm < len
                <5>1. PICK k \in Pipes : plug[k] = JobAt(q) /\ y = WriteEnd(k)
                    BY <3>3, <4>2, <4>4 DEF Neighbour
                <5>2. PipeAfter(job[q].parent, job[q].pl, job[q].cm) = k
                    BY <2>a, <3>a, <5>1, PipeIs DEF JobAt
                <5>3. Restored(q)[d] = WriteEnd(k)
                    BY <3>1, <5>1, DescsDiffer DEF Over
                <5>4. QED
                    BY <4>1, <4>4, <5>2, <5>3 DEF Wanted
            <4>5. CASE ~(d = "in" /\ job[q].cm > 1) /\ ~(d = "out" /\ job[q].cm < len)
                <5>1. y = None
                    BY <3>3, <4>2, <4>5 DEF Neighbour
                <5>2. Restored(q)[d] = Home(q, d)
                    BY <3>1, <5>1 DEF Over
                <5>3. QED
                    BY <4>1, <4>5, <5>2 DEF Wanted, Home
            <4>6. QED
                BY <4>3, <4>4, <4>5
        <3>4. QED
            BY <3>1, <3>2, <3>3 DEF Target
    <2>2. ASSUME NEW p \in Live, pc[p] = "builtin", NEW d \in Sides
          PROVE  fd[p].std[d] = IF LastRedir(Cmd(p), d) # 0
                                THEN File(Cmd(p).redirs[LastRedir(Cmd(p), d)].id)
                                ELSE Restored(p)[d]
        <3> DEFINE c == Cmd(p)
                   n == Len(c.redirs)
        <3>a. /\ p \in Procs /\ n \in Nat /\ Len(Cmds(p)) = 1 /\ pos[p].cm = 1
            <4>1. p \in Procs
                BY DEF Live
            <4>2. n \in Nat /\ pos[p].cm \in 1 .. Len(Cmds(p)) /\ Len(Cmds(p)) = 1
                BY <2>a, <2>2, <4>1, CmdTypes, BuiltinAlone
            <4>3. QED
                BY <4>1, <4>2
        <3>1. PICK y \in {fd[p].std[d], None} :
                    /\ Target(plug, c, n + 1, At(p), Len(Cmds(p)), d, y)
                    /\ fd[p].std[d] = Over(y, Restored(p)[d])
            BY <2>a, <2>2, <3>a DEF Shelled, AtWork
        <3>2. CASE Opened(c, n + 1, d, y)
            <4>1. PICK i \in 1 .. n : LastBefore(c, i, n + 1, d) /\ y = File(c.redirs[i].id)
                BY <3>2 DEF Opened
            <4>a. i # 0
                BY <3>a
            <4>b. LastRedir(c, d) = i
                BY <3>a, <4>1, LastRedirIs
            <4>2. LastRedir(c, d) = i /\ i # 0
                BY <4>a, <4>b
            <4>3. fd[p].std[d] = File(c.redirs[i].id)
                BY <3>1, <4>1, DescsDiffer DEF Over
            <4>4. QED
                BY <4>2, <4>3
        <3>3. CASE Untouched(c, n + 1, d) /\ Neighbour(plug, At(p), Len(Cmds(p)), d, y)
            <4>1. LastRedir(c, d) = 0
                BY <3>a, <3>3, LastRedirIs
            <4>2. y = None
                BY <3>a, <3>3 DEF Neighbour, At
            <4>3. QED
                BY <3>1, <4>1, <4>2 DEF Over
        <3>4. QED
            BY <3>1, <3>2, <3>3 DEF Target
    <2>3. QED
        BY <2>1, <2>2 DEF Plumbing
<1>2. QED
    BY PlumbInvariant, <1>1, PTL
=============================================================================
