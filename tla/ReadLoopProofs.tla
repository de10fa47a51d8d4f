---------------------------- MODULE ReadLoopProofs -----------------------------
(* Safety of the main loop under interrupts, for all texts, any number of lines
   and of interrupts: what an interrupt may cost, and when.                    *)
EXTENDS ReadLoop, ListOrderProofs, SequenceTheorems

-------------------------------------------------------------------------------
(* Interrupts and the lines given up for them                                   *)

\* A line that was given up is on its way to the end of its turn with status 130.
GivenUp ==
    \/ pc \in {"got", "body got"} /\ line.null /\ g_signal = SIGINT
    \/ pc = "interrupted" /\ g_signal = SIGINT
    \/ pc \in {"top", "end"} /\ return_status = 128 + SIGINT
    \/ pc = "killed"

Signals ==
    /\ g_signal \in {0, SIGINT}
    /\ g_signal = SIGINT => fresh
    /\ dropped => GivenUp

\* What the readers do: only read_interactive gives a line up, and an empty read
\* that an interrupt caused is never the end of the input.
LEMMA ReadingKeepsSignals ==
    ASSUME Signals, SetupHandler \/ ReadReturns \/ TakeLine \/ Got
    PROVE  Signals'
<1>1. CASE SetupHandler
    BY <1>1 DEF SetupHandler, Signals, GivenUp, Go, io
<1>2. CASE ReadReturns
    BY <1>2 DEF ReadReturns, Signals
<1>3. CASE TakeLine
    <2>1. g_signal' = g_signal /\ fresh' = fresh
        BY <1>3 DEF TakeLine
    <2>2. dropped' => /\ g_signal = SIGINT /\ line' = NoLine
                      /\ pc' \in {"got", "body got"}
        BY <1>3 DEF TakeLine, Go
    <2>3. NoLine.null
        BY Zenon DEF NoLine
    <2>4. dropped' => GivenUp'
        BY <2>1, <2>2, <2>3 DEF GivenUp
    <2>5. QED
        BY <2>1, <2>4 DEF Signals
<1>4. CASE Got
    <2>1. CASE line.null /\ g_signal = SIGINT
        BY <1>4, <2>1 DEF Got, Consume, Go, Signals, GivenUp, SIGINT
    <2>2. CASE ~(line.null /\ g_signal = SIGINT)
        <3>1. ~dropped
            BY <1>4, <2>2 DEF Got, Signals, GivenUp
        <3>2. UNCHANGED <<g_signal, fresh, dropped>>
            BY <1>4, <2>2 DEF Got
        <3>3. QED
            BY <3>1, <3>2 DEF Signals
    <2>3. QED
        BY <2>1, <2>2
<1>5. QED
    BY <1>1, <1>2, <1>3, <1>4

\* What parse_input and the end of a turn do.
LEMMA ParsingKeepsSignals ==
    ASSUME Signals, Parse \/ BodyGot \/ Parsed \/ Interrupted
    PROVE  Signals'
<1>1. CASE Parse
    BY <1>1 DEF Parse, Signals, GivenUp
<1>2. CASE BodyGot
    <2>1. UNCHANGED <<g_signal, fresh, dropped>>
        BY <1>2 DEF BodyGot
    <2>2. dropped => pc' = "interrupted" /\ g_signal = SIGINT
        BY <1>2 DEF BodyGot, Go, Signals, GivenUp
    <2>3. QED
        BY <2>1, <2>2 DEF Signals, GivenUp
<1>3. CASE Parsed
    <2>1. ~dropped
        BY <1>3 DEF Parsed, Signals, GivenUp
    <2>2. g_signal' = 0 /\ dropped' = dropped
        BY <1>3 DEF Parsed, EndTurn
    <2>3. QED
        BY <2>1, <2>2 DEF Signals, SIGINT
<1>4. CASE Interrupted
    <2>1. g_signal' = 0 /\ dropped' = dropped
        BY <1>4 DEF Interrupted, EndTurn, Consume, Signals
    <2>2. dropped => return_status' = 128 + SIGINT /\ pc' \in {"top", "end"}
        BY <1>4 DEF Interrupted, EndTurn, Consume, Go, Signals, GivenUp
    <2>3. dropped' => GivenUp'
        BY <2>1, <2>2 DEF GivenUp
    <2>4. QED
        BY <2>1, <2>3 DEF Signals, SIGINT
<1>5. QED
    BY <1>1, <1>2, <1>3, <1>4

\* While commands run no line has been given up; the wait for children clears the
\* interrupt that was meant for them.
LEMMA RunningKeepsSignals ==
    ASSUME Signals,
           RunBuiltin \/ Fork \/ EndWithoutWait \/ StartWait \/ Reap \/ EndWait
    PROVE  Signals'
<1>1. pc \in {"run", "wait"}
    BY DEF RunBuiltin, Fork, EndWithoutWait, StartWait, Reap, EndWait
<1>2. ~dropped
    BY <1>1 DEF Signals, GivenUp
<1>3. dropped' = dropped
    BY DEF RunBuiltin, Fork, EndWithoutWait, StartWait, Reap, EndWait
<1>4. \/ UNCHANGED <<g_signal, fresh>>
      \/ g_signal' = 0
    BY DEF RunBuiltin, Fork, EndWithoutWait, StartWait, Reap, EndWait
<1>5. QED
    BY <1>2, <1>3, <1>4 DEF Signals, SIGINT

\* Children and interrupts take nothing back.
LEMMA OthersKeepSignals ==
    ASSUME Signals, Child \/ Sigint
    PROVE  Signals'
<1>1. CASE Child
    <2>1. line' = line
        BY <1>1 DEF Child, unchangedByChildren, io
    <2>2. QED
        BY <1>1, <2>1 DEF Child, unchangedByChildren, Signals, GivenUp
<1>2. CASE Sigint
    <2>1. line' = line /\ return_status' = return_status /\ dropped' = dropped
        BY <1>2 DEF Sigint, io
    <2>2. \/ g_signal' = SIGINT /\ fresh' = TRUE /\ pc' = pc
          \/ UNCHANGED <<g_signal, fresh>> /\ pc' = "killed"
        BY <1>2 DEF Sigint, Go
    <2>3. QED
        BY <2>1, <2>2 DEF Signals, GivenUp, SIGINT
<1>3. QED
    BY <1>1, <1>2

\* Signals is inductive.
THEOREM SignalsHold == Spec => []Signals
<1>1. Init => Signals
    BY DEF Init, Signals, SIGINT
<1>2. Signals /\ [Next]_vars => Signals'
    <2> SUFFICES ASSUME Signals, [Next]_vars PROVE Signals'
        OBVIOUS
    <2>1. CASE Next
        BY <2>1, ReadingKeepsSignals, ParsingKeepsSignals, RunningKeepsSignals,
           OthersKeepSignals DEF Next, Shell
    <2>2. CASE UNCHANGED vars
        BY <2>2 DEF vars, Signals, GivenUp
    <2>3. QED
        BY <2>1, <2>2
<1>3. QED
    BY <1>1, <1>2, PTL DEF Spec

\* A line given up because of an interrupt is not run, does not end the shell and
\* leaves status 130, also in a here-document (sig_consume_sigint, read_here_line).
THEOREM DroppedStaysDropped == Spec => []DroppedForGood
<1>1. Signals => DroppedForGood
    BY DEF Signals, GivenUp, DroppedForGood
<1>2. QED
    BY SignalsHold, <1>1, PTL

\* A line is given up only for an interrupt that came since the turn began and since
\* children were last waited for (g_signal = 0 in wait_return_status).
THEOREM OnlyFreshInterruptsDrop == Spec => DropsAreFresh
<1> DEFINE A == dropped' /\ ~dropped => fresh
<1>1. Signals /\ [Next]_vars => [A]_vars
    <2> SUFFICES ASSUME Signals, Next PROVE A
        OBVIOUS
    <2>1. CASE TakeLine
        BY <2>1 DEF TakeLine, Signals
    <2>2. CASE ~TakeLine
        <3>1. dropped' \in {dropped, FALSE}
            BY <2>2 DEF Next, Shell, SetupHandler, ReadReturns, Got, Parse, BodyGot,
               Parsed, Interrupted, EndTurn, RunBuiltin, Fork, EndWithoutWait,
               StartWait, Reap, EndWait, Child, unchangedByChildren, Sigint
        <3>2. QED
            BY <3>1
    <2>3. QED
        BY <2>1, <2>2
<1>2. QED
    BY SignalsHold, <1>1, PTL DEF Spec, DropsAreFresh

-------------------------------------------------------------------------------
(* Types                                                                        *)

\* The commands there are, and what may be left of a text.
AllCommands == UNION {ToSet(t) : t \in Inputs}

LinesRead == [null : BOOLEAN, text : Inputs \cup {<< >>}]

ChildRecords ==
    [kind : Kinds, ended : BOOLEAN, status : Statuses, handler : {"record", "default"}]

\* What is left of the text is commands; while one of them is at work it is there,
\* and the place in it is that of a pipeline.
Working ==
    /\ rest \in Seq(AllCommands)
    /\ pc \in {"body", "body returned", "body got", "run", "wait"} => rest # << >>
    /\ pc \in {"run", "wait"} => pos \in DOMAIN Command.ops /\ next \in Nat \ {0}

Values ==
    /\ is_interactive \in BOOLEAN /\ pc \in Places
    /\ g_signal \in {0, SIGINT} /\ return_status \in Statuses
    /\ should_exit \in BOOLEAN
    /\ line \in LinesRead
    /\ result \in Statuses /\ wait_result \in Statuses
    /\ reads \in 0..MaxReads /\ interrupts \in 0..MaxInterrupts

Started ==
    /\ pid_to_wait = 0 => children = NoChild
    /\ \A k \in DOMAIN children : children[k] \in ChildRecords

Typed == Values /\ Working /\ Started

\* The strengthening says all that TypeOK does.
LEMMA TypedImpliesTypeOK == Typed => TypeOK
<1> SUFFICES ASSUME Typed PROVE TypeOK
    OBVIOUS
<1>1. line.null \in BOOLEAN /\ line.text \in Inputs \cup {<< >>}
    BY DEF Typed, Values, LinesRead
<1>2. \A k \in DOMAIN children : /\ children[k].kind \in Kinds
                                 /\ children[k].handler \in {"record", "default"}
    BY DEF Typed, Started, ChildRecords
<1>3. QED
    BY <1>1, <1>2 DEF TypeOK, Typed, Values, Working, Started

\* Every text that is read is a sequence of commands.
LEMMA TextsAreCommands ==
    /\ \A t \in Inputs \cup {<< >>} : t \in Seq(AllCommands)
    /\ \A c \in AllCommands : IsCommand(c)
<1>1. ASSUME NEW t \in Inputs PROVE t \in Seq(AllCommands)
    <2>1. t \in Seq(ToSet(t)) /\ ToSet(t) \subseteq AllCommands
        BY ReadLoopAssumption DEF AllCommands
    <2>2. QED
        BY <2>1, SeqMonotonic
<1>2. << >> \in Seq(AllCommands)
    OBVIOUS
<1>3. ASSUME NEW c \in AllCommands PROVE IsCommand(c)
    <2>1. PICK t \in Inputs : c \in ToSet(t)
        BY DEF AllCommands
    <2>2. PICK k \in DOMAIN t : c = t[k]
        BY <2>1 DEF ToSet
    <2>3. QED
        BY <2>2, ReadLoopAssumption
<1>4. QED
    BY <1>1, <1>2, <1>3

\* The first command of what is left has a first pipeline.
LEMMA FirstCommand ==
    ASSUME NEW r \in Seq(AllCommands), r # << >>
    PROVE  /\ Head(r).ops \in Seq(Connectors)
           /\ 1 \in DOMAIN Head(r).ops
           /\ Tail(r) \in Seq(AllCommands)
           /\ \A t \in Seq(AllCommands) : /\ r \o t \in Seq(AllCommands)
                                          /\ r \o t # << >>
                                          /\ Head(r \o t) = Head(r)
<1>1. Head(r) \in AllCommands /\ Tail(r) \in Seq(AllCommands)
    BY HeadTailProperties
<1>2. IsCommand(Head(r))
    BY <1>1, TextsAreCommands
<1>3. Head(r).ops \in Seq(Connectors) /\ Head(r).ops # << >>
    BY <1>2 DEF IsCommand
<1>4. 1 \in DOMAIN Head(r).ops
    BY <1>3
<1>5. ASSUME NEW t \in Seq(AllCommands)
      PROVE  r \o t \in Seq(AllCommands) /\ r \o t # << >> /\ Head(r \o t) = Head(r)
    BY ConcatProperties
<1>6. QED
    BY <1>1, <1>3, <1>4, <1>5

\* A pipeline of the command at work is one or more of the kinds.
LEMMA PipelineIsOfKinds ==
    ASSUME Working, pc \in {"run", "wait"}
    PROVE  Pipeline \in Seq(Kinds) /\ Pipeline # << >>
<1>1. Command \in AllCommands
    BY HeadTailProperties DEF Working, Command
<1>2. IsCommand(Command)
    BY <1>1, TextsAreCommands
<1>3. /\ Command.pipelines \in Seq(Seq(Kinds) \ {<< >>})
      /\ Command.ops \in Seq(Connectors)
      /\ Len(Command.ops) = Len(Command.pipelines)
    BY <1>2 DEF IsCommand
<1>4. pos \in 1..Len(Command.pipelines)
    <2>1. pos \in DOMAIN Command.ops
        BY DEF Working
    <2>2. QED
        BY <1>3, <2>1
<1>5. Command.pipelines[pos] \in Seq(Kinds) \ {<< >>}
    BY <1>3, <1>4, ElementOfSeq
<1>6. QED
    BY <1>5 DEF Pipeline

\* get_next stays in the list, and the text loses its first command after it.
LEMMA EndPipelineKeeps ==
    ASSUME Working, pc \in {"run", "wait"}, NEW s \in Statuses, EndPipeline(s),
           result \in Statuses
    PROVE  /\ Working'
           /\ return_status' \in Statuses /\ result' \in Statuses /\ pc' \in Places
<1> DEFINE after == GetNext(Command.ops, pos, s)
<1>1. /\ Command.ops \in Seq(Connectors) /\ pos \in DOMAIN Command.ops
      /\ rest \in Seq(AllCommands) /\ Tail(rest) \in Seq(AllCommands) /\ rest # << >>
    BY FirstCommand DEF Working, Command
<1>2. Len(Command.ops) \in Nat /\ pos \in 1..Len(Command.ops)
    BY <1>1
<1>3. after \in pos+1 .. Len(Command.ops) + 1
    BY <1>2, GetNextMovesForward
<1>4. CASE should_exit \/ after > Len(Command.ops)
    <2>1. pc' = "parse" /\ rest' = Tail(rest) /\ result' = result /\ return_status' = s
        BY <1>4 DEF EndPipeline, Go
    <2>2. QED
        BY <1>1, <2>1 DEF Working, Places
<1>5. CASE ~(should_exit \/ after > Len(Command.ops))
    <2>1. /\ pc' = "run" /\ rest' = rest /\ pos' = after /\ next' = 1
          /\ result' = 0 /\ return_status' = s
        BY <1>5 DEF EndPipeline, Go
    <2>2. after \in DOMAIN Command.ops
        BY <1>2, <1>3, <1>5, <1>1
    <2>3. Command' = Command
        BY <2>1 DEF Command
    <2>4. rest' \in Seq(AllCommands) /\ rest' # << >>
        BY <1>1, <2>1
    <2>5. pos' \in DOMAIN Command'.ops /\ next' \in Nat \ {0}
        BY <2>1, <2>2, <2>3
    <2>6. Working'
        BY <2>4, <2>5 DEF Working
    <2>7. QED
        BY <2>1, <2>6 DEF Places, Statuses
<1>6. QED
    BY <1>4, <1>5

\* The constants that are assigned are of the types.
LEMMA ConstantsTyped ==
    NoLine \in LinesRead /\ {0, 1, 2, 128 + SIGINT} \subseteq Statuses
    BY DEF NoLine, LinesRead, Statuses

\* What the readers return is a text.
LEMMA ReadingKeepsTyped ==
    ASSUME Typed, SetupHandler \/ ReadReturns \/ TakeLine \/ Got
    PROVE  Typed'
<1>1. CASE SetupHandler
    <2>1. UNCHANGED <<is_interactive, g_signal, return_status, should_exit, line,
                      reads, rest, pos, next, result, pid_to_wait, wait_result,
                      children, interrupts>> /\ pc' = "top"
        BY <1>1 DEF SetupHandler, io, exec, Go
    <2>2. QED
        BY <2>1 DEF Typed, Values, Working, Started, Places
<1>2. CASE ReadReturns
    <2>1. /\ UNCHANGED <<is_interactive, g_signal, return_status, should_exit, rest,
                         pos, next, result, pid_to_wait, wait_result, children,
                         interrupts>>
          /\ pc = "top" => pc' = "returned"
          /\ pc = "body" => pc' = "body returned"
          /\ pc \in {"top", "body"}
        BY <1>2 DEF ReadReturns, exec, Go
    <2>2. /\ reads' \in 0..MaxReads
          /\ line' \in LinesRead
        <3>1. CASE reads < MaxReads /\ reads' = reads + 1 /\
                   \E t \in Inputs : line' = [null |-> FALSE, text |-> t]
            BY <3>1, ReadLoopAssumption DEF Typed, Values, LinesRead
        <3>2. CASE reads' = reads /\ line' = [null |-> FALSE, text |-> << >>]
            BY <3>2 DEF Typed, Values, LinesRead
        <3>3. CASE reads' = reads /\ line' = NoLine
            BY <3>3 DEF Typed, Values, LinesRead, NoLine
        <3>4. QED
            BY <1>2, <3>1, <3>2, <3>3 DEF ReadReturns
    <2>3. Working' /\ Started'
        BY <2>1 DEF Typed, Working, Started
    <2>4. Values'
        BY <2>1, <2>2 DEF Typed, Values, Places
    <2>5. QED
        BY <2>3, <2>4 DEF Typed
<1>3. CASE TakeLine
    <2>1. /\ UNCHANGED <<is_interactive, g_signal, return_status, should_exit, reads,
                         rest, pos, next, result, pid_to_wait, wait_result, children,
                         interrupts>>
          /\ pc = "returned" => pc' = "got"
          /\ pc = "body returned" => pc' = "body got"
          /\ pc \in {"returned", "body returned"}
        BY <1>3 DEF TakeLine, exec, Go
    <2>2. line' \in {NoLine, line}
        BY <1>3 DEF TakeLine
    <2>3. line' \in LinesRead
        BY <2>2, ConstantsTyped DEF Typed, Values
    <2>4. Working' /\ Started'
        BY <2>1 DEF Typed, Working, Started
    <2>5. Values'
        BY <2>1, <2>3 DEF Typed, Values, Places
    <2>6. QED
        BY <2>4, <2>5 DEF Typed
<1>4. CASE Got
    <2>1. UNCHANGED <<is_interactive, should_exit, line, reads, pos, next, result,
                      pid_to_wait, wait_result, children, interrupts>>
        BY <1>4 DEF Got, io, exec
    <2>2. /\ pc' \in {"top", "end", "parse"}
          /\ rest' \in {rest, line.text}
          /\ g_signal' \in {0, g_signal}
          /\ return_status' \in {return_status, 128 + SIGINT}
        BY <1>4 DEF Got, Go, Consume
    <2>3. rest' \in Seq(AllCommands)
        BY <2>2, TextsAreCommands DEF Typed, Values, Working, LinesRead
    <2>4. Working' /\ Started'
        BY <2>1, <2>2, <2>3 DEF Typed, Working, Started
    <2>5. Values'
        <3>1. return_status' \in Statuses /\ g_signal' \in {0, SIGINT}
            BY <2>2, ConstantsTyped DEF Typed, Values
        <3>2. QED
            BY <2>1, <2>2, <3>1 DEF Typed, Values, Places
    <2>6. QED
        BY <2>4, <2>5 DEF Typed
<1>5. QED
    BY <1>1, <1>2, <1>3, <1>4

\* A list starts at its first pipeline and the first command of it.
LEMMA StartingAList ==
    ASSUME rest \in Seq(AllCommands), rest # << >>, StartList,
           rest' \in Seq(AllCommands), rest' # << >>, Head(rest') = Head(rest)
    PROVE  /\ Working' /\ result' \in Statuses
           /\ UNCHANGED <<pid_to_wait, wait_result>>
<1>1. pos' = 1 /\ next' = 1 /\ result' = 0 /\ UNCHANGED <<pid_to_wait, wait_result>>
    BY DEF StartList
<1>2. 1 \in DOMAIN Command'.ops
    BY FirstCommand DEF Command
<1>3. pos' \in DOMAIN Command'.ops /\ next' \in Nat \ {0}
    BY <1>1, <1>2
<1>4. QED
    BY <1>1, <1>3 DEF Working, Statuses

\* What is left of a text gets longer only at its end.
LEMMA ParsingKeepsTyped ==
    ASSUME Typed, Parse \/ BodyGot \/ Parsed \/ Interrupted
    PROVE  Typed'
<1>1. ASSUME Parse PROVE Typed'
    <2>1. UNCHANGED <<is_interactive, g_signal, return_status, should_exit, line,
                      reads, rest, children, interrupts>>
        BY <1>1 DEF Parse, io
    <2>2. CASE /\ pc' \in {"parsed", "body", "error"}
               /\ pc' = "body" => rest # << >>
               /\ UNCHANGED exec
        <3>1. UNCHANGED <<pos, next, result, pid_to_wait, wait_result>>
            BY <2>2 DEF exec
        <3>2. Working' /\ Started'
            BY <2>1, <2>2, <3>1 DEF Typed, Working, Started
        <3>3. Values'
            BY <2>1, <2>2, <3>1 DEF Typed, Values, Places
        <3>4. QED
            BY <3>2, <3>3 DEF Typed
    <2>3. CASE pc' = "run" /\ rest # << >> /\ StartList
        <3>1. Working' /\ result' \in Statuses /\ UNCHANGED <<pid_to_wait, wait_result>>
            BY <2>1, <2>3, StartingAList DEF Typed, Working
        <3>2. Values' /\ Started'
            BY <2>1, <2>3, <3>1 DEF Typed, Values, Started, Places
        <3>3. QED
            BY <3>1, <3>2 DEF Typed
    <2>4. QED
        BY <1>1, <2>2, <2>3 DEF Parse, Go
<1>2. ASSUME BodyGot PROVE Typed'
    <2>1. /\ UNCHANGED <<is_interactive, g_signal, return_status, should_exit, line,
                         reads, children, interrupts>>
          /\ rest \in Seq(AllCommands) /\ rest # << >>
        BY <1>2 DEF BodyGot, io, Typed, Working
    <2>2. rest' \in {rest, rest \o line.text}
        BY <1>2 DEF BodyGot
    <2>3. line.text \in Seq(AllCommands)
        BY TextsAreCommands DEF Typed, Values, LinesRead
    <2>4. rest' \in Seq(AllCommands) /\ rest' # << >> /\ Head(rest') = Head(rest)
        BY <2>1, <2>2, <2>3, FirstCommand
    <2>5. CASE pc' \in {"body", "interrupted", "error"} /\ UNCHANGED exec
        <3>1. UNCHANGED <<pos, next, result, pid_to_wait, wait_result>>
            BY <2>5 DEF exec
        <3>2. Working' /\ Started'
            BY <2>1, <2>4, <2>5, <3>1 DEF Typed, Working, Started
        <3>3. Values'
            BY <2>1, <2>5, <3>1 DEF Typed, Values, Places
        <3>4. QED
            BY <3>2, <3>3 DEF Typed
    <2>6. CASE pc' = "run" /\ StartList
        <3>1. Working' /\ result' \in Statuses /\ UNCHANGED <<pid_to_wait, wait_result>>
            BY <2>1, <2>4, <2>6, StartingAList
        <3>2. Values' /\ Started'
            BY <2>1, <2>6, <3>1 DEF Typed, Values, Started, Places
        <3>3. QED
            BY <3>1, <3>2 DEF Typed
    <2>7. QED
        BY <1>2, <2>5, <2>6 DEF BodyGot, Go
<1>3. ASSUME EndTurn, g_signal' \in {0, g_signal},
             return_status' \in {2, return_status, 128 + SIGINT}
      PROVE  Typed'
    <2>1. /\ UNCHANGED <<is_interactive, should_exit, reads, pos, next, result,
                         pid_to_wait, wait_result, children, interrupts>>
          /\ pc' \in {"top", "end"} /\ rest' = << >> /\ line' = NoLine
        BY <1>3 DEF EndTurn, exec, Go
    <2>2. line' \in LinesRead
        BY <2>1, ConstantsTyped
    <2>3. rest' \in Seq(AllCommands)
        BY <2>1
    <2>4. Working' /\ Started'
        BY <2>1, <2>3 DEF Typed, Working, Started
    <2>5. Values'
        <3>1. return_status' \in Statuses /\ g_signal' \in {0, SIGINT}
            BY <1>3, ConstantsTyped DEF Typed, Values
        <3>2. QED
            BY <2>1, <2>2, <3>1 DEF Typed, Values, Places
    <2>6. QED
        BY <2>4, <2>5 DEF Typed
<1>4. QED
    BY <1>1, <1>2, <1>3 DEF Parsed, Interrupted, Consume

\* Starting commands: a child is of the kind that the pipeline names.
LEMMA StartingKeepsTyped ==
    ASSUME Typed, RunBuiltin \/ Fork \/ StartWait
    PROVE  Typed'
<1>1. ASSUME RunBuiltin PROVE Typed'
    <2>1. /\ UNCHANGED <<is_interactive, g_signal, line, reads, rest, pos, pid_to_wait,
                         wait_result, children, interrupts>>
          /\ pc = "run" /\ next' = next + 1
        BY <1>1 DEF RunBuiltin, io
    <2>2. /\ pc' \in {"run", "end"} /\ result' \in {0, 1, 2}
          /\ should_exit' \in {should_exit, TRUE}
        BY <1>1 DEF RunBuiltin, Go
    <2>3. return_status' \in {0, return_status}
        BY <1>1 DEF RunBuiltin
    <2>4. result' \in Statuses /\ return_status' \in Statuses
        BY <2>2, <2>3, ConstantsTyped DEF Typed, Values
    <2>5. Command' = Command
        BY <2>1 DEF Command
    <2>6. Working' /\ Started'
        <3>1. /\ rest' \in Seq(AllCommands) /\ rest' # << >>
              /\ pos' \in DOMAIN Command.ops /\ next' \in Nat \ {0}
            BY <2>1 DEF Typed, Working
        <3>2. Working'
            BY <2>5, <3>1 DEF Working
        <3>3. QED
            BY <2>1, <3>2 DEF Typed, Started
    <2>7. Values'
        BY <2>1, <2>2, <2>4 DEF Typed, Values, Places
    <2>8. QED
        BY <2>6, <2>7 DEF Typed
<1>2. ASSUME Fork PROVE Typed'
    <2> DEFINE child == [kind |-> Pipeline[next], ended |-> FALSE, status |-> 0,
                         handler |-> IF is_interactive THEN "record" ELSE "default"]
    <2>1. /\ UNCHANGED <<is_interactive, pc, g_signal, return_status, should_exit, line,
                         reads, rest, pos, wait_result, interrupts>>
          /\ pc = "run" /\ next <= Len(Pipeline)
          /\ children' = [k \in DOMAIN children \cup {next} |->
                             IF k = next THEN child ELSE children[k]]
          /\ pid_to_wait' = next /\ next' = next + 1 /\ result' = 0
        BY <1>2 DEF Fork, io
    <2>2. next \in 1..Len(Pipeline) /\ Pipeline \in Seq(Kinds)
        BY <2>1, PipelineIsOfKinds DEF Typed, Working
    <2>3. child \in ChildRecords
        BY <2>2, ElementOfSeq, ConstantsTyped DEF ChildRecords
    <2>4. ASSUME NEW k \in DOMAIN children' PROVE children'[k] \in ChildRecords
        <3> HIDE DEF child
        <3>1. children'[k] = child \/ (children'[k] = children[k] /\ k \in DOMAIN children)
            BY <2>1
        <3>2. QED
            BY <2>3, <3>1 DEF Typed, Started
    <2>5. Started'
        <3>1. pid_to_wait' # 0
            BY <2>1, <2>2
        <3>2. QED
            BY <3>1, <2>4 DEF Started
    <2>6. Working'
        BY <2>1 DEF Typed, Working, Command
    <2>7. Values'
        BY <2>1, ConstantsTyped DEF Typed, Values
    <2>8. QED
        BY <2>5, <2>6, <2>7 DEF Typed
<1>3. ASSUME StartWait PROVE Typed'
    <2>1. /\ UNCHANGED <<is_interactive, g_signal, return_status, should_exit, line,
                         reads, rest, pos, next, result, pid_to_wait, children,
                         interrupts>>
          /\ pc = "run" /\ pc' = "wait" /\ wait_result' = 1
        BY <1>3 DEF StartWait, io, Go
    <2>2. Working' /\ Started'
        BY <2>1 DEF Typed, Working, Started, Command
    <2>3. Values'
        BY <2>1, ConstantsTyped DEF Typed, Values, Places
    <2>4. QED
        BY <2>2, <2>3 DEF Typed
<1>4. QED
    BY <1>1, <1>2, <1>3

\* Waiting and the end of a pipeline: the status is one of a command or of a child,
\* and without a child to wait for there is none.
LEMMA WaitingKeepsTyped ==
    ASSUME Typed, EndWithoutWait \/ Reap \/ EndWait
    PROVE  Typed'
<1>1. ASSUME EndWithoutWait PROVE Typed'
    <2>1. /\ UNCHANGED <<is_interactive, g_signal, should_exit, line, reads,
                         pid_to_wait, wait_result, children, interrupts>>
          /\ pc = "run" /\ EndPipeline(result)
        BY <1>1 DEF EndWithoutWait, io
    <2>2. /\ Working' /\ return_status' \in Statuses /\ result' \in Statuses
          /\ pc' \in Places
        BY <2>1, EndPipelineKeeps DEF Typed, Values
    <2>3. QED
        BY <2>1, <2>2 DEF Typed, Values, Started
<1>2. ASSUME Reap PROVE Typed'
    <2>1. UNCHANGED <<is_interactive, pc, g_signal, return_status, should_exit, line,
                      reads, rest, pos, next, result, pid_to_wait, interrupts>>
        BY <1>2 DEF Reap, io
    <2>2. PICK k \in DOMAIN children :
              /\ children' = [j \in DOMAIN children \ {k} |-> children[j]]
              /\ wait_result' = IF k = pid_to_wait THEN children[k].status
                                ELSE wait_result
        BY <1>2 DEF Reap
    <2>3. children[k].status \in Statuses
        BY DEF Typed, Started, ChildRecords
    <2>4. pid_to_wait # 0
        BY <2>2 DEF Typed, Started, NoChild
    <2>5. Started'
        BY <2>1, <2>2, <2>4 DEF Typed, Started
    <2>6. Working'
        BY <2>1 DEF Typed, Working, Command
    <2>7. Values'
        BY <2>1, <2>2, <2>3 DEF Typed, Values
    <2>8. QED
        BY <2>5, <2>6, <2>7 DEF Typed
<1>3. ASSUME EndWait PROVE Typed'
    <2> DEFINE s == IF should_exit \/ result # 0 THEN result ELSE wait_result
    <2>1. /\ UNCHANGED <<is_interactive, should_exit, line, reads, wait_result,
                         children, interrupts>>
          /\ pc = "wait" /\ children = NoChild /\ g_signal' = 0 /\ EndPipeline(s)
        BY <1>3 DEF EndWait, io
    <2>2. s \in Statuses
        BY DEF Typed, Values
    <2>3. /\ Working' /\ return_status' \in Statuses /\ result' \in Statuses
          /\ pc' \in Places
        BY <2>1, <2>2, EndPipelineKeeps DEF Typed, Values
    <2>4. Values'
        BY <2>1, <2>3 DEF Typed, Values
    <2>5. Started'
        BY <2>1 DEF Started, NoChild
    <2>6. QED
        BY <2>3, <2>4, <2>5 DEF Typed
<1>4. QED
    BY <1>1, <1>2, <1>3

\* A child's record keeps its shape, whatever ends it.
LEMMA OthersKeepTyped ==
    ASSUME Typed, Child \/ Sigint
    PROVE  Typed'
<1>1. ASSUME Child PROVE Typed'
    <2>1. UNCHANGED <<is_interactive, pc, g_signal, return_status, should_exit, line,
                      reads, rest, pos, next, result, pid_to_wait, wait_result,
                      interrupts>>
        BY <1>1 DEF Child, unchangedByChildren, io, exec
    <2>2. PICK k \in DOMAIN children : SetDefault(k) \/ ChildEnds(k)
        BY <1>1 DEF Child
    <2>3. pid_to_wait # 0 /\ children[k] \in ChildRecords
        BY DEF Typed, Started, NoChild
    <2>4. CASE SetDefault(k)
        <3>1. children' = [children EXCEPT ![k].handler = "default"]
            BY <2>4 DEF SetDefault
        <3>2. [children[k] EXCEPT !.handler = "default"] \in ChildRecords
            BY <2>3 DEF ChildRecords
        <3>3. Started'
            BY <2>1, <2>3, <3>1, <3>2 DEF Typed, Started
        <3>4. QED
            BY <2>1, <3>3 DEF Typed, Values, Working, Command
    <2>5. CASE ChildEnds(k)
        <3>1. PICK s \in {0, 1} :
                  children' = [children EXCEPT ![k].ended = TRUE, ![k].status = s]
            BY <2>5 DEF ChildEnds
        <3>2. [children[k] EXCEPT !.ended = TRUE, !.status = s] \in ChildRecords
            BY <2>3, ConstantsTyped DEF ChildRecords
        <3>3. Started'
            BY <2>1, <2>3, <3>1, <3>2 DEF Typed, Started
        <3>4. QED
            BY <2>1, <3>3 DEF Typed, Values, Working, Command
    <2>6. QED
        BY <2>2, <2>4, <2>5
<1>2. ASSUME Sigint PROVE Typed'
    <2>1. UNCHANGED <<is_interactive, return_status, should_exit, line, reads, rest,
                      pos, next, result, pid_to_wait, wait_result>>
        BY <1>2 DEF Sigint, io, exec
    <2>2. /\ interrupts < MaxInterrupts /\ interrupts' = interrupts + 1
          /\ children' = [k \in DOMAIN children |-> Struck(children[k])]
          /\ pc' \in {pc, "killed"} /\ g_signal' \in {g_signal, SIGINT}
        BY <1>2 DEF Sigint, Go
    <2>3. ASSUME NEW c \in ChildRecords PROVE Struck(c) \in ChildRecords
        BY ConstantsTyped DEF Struck, ChildRecords
    <2>4. \A k \in DOMAIN children' : children'[k] \in ChildRecords
        BY <2>2, <2>3 DEF Typed, Started
    <2>5. children = NoChild => children' = NoChild
        BY <2>2 DEF NoChild
    <2>6. Started'
        BY <2>1, <2>4, <2>5 DEF Typed, Started
    <2>7. Working'
        BY <2>1, <2>2 DEF Typed, Working, Command
    <2>8. Values'
        <3>1. interrupts' \in 0..MaxInterrupts
            BY <2>2, ReadLoopAssumption DEF Typed, Values
        <3>2. QED
            BY <2>1, <2>2, <3>1 DEF Typed, Values, Places
    <2>9. QED
        BY <2>6, <2>7, <2>8 DEF Typed
<1>3. QED
    BY <1>1, <1>2

\* No step of the loop leaves the range of its variables: the shell never runs a
\* command or a pipeline that is not there and never waits with a child it does not
\* know of.
THEOREM LoopTypesHold == Spec => []TypeOK
<1>1. Init => Typed
    <2> SUFFICES ASSUME Init PROVE Typed
        OBVIOUS
    <2>1. Values
        <3>1. 0 \in 0..MaxReads /\ 0 \in 0..MaxInterrupts
            BY ReadLoopAssumption
        <3>2. 0 \in Statuses /\ NoLine \in LinesRead
            BY ConstantsTyped
        <3>3. QED
            BY <3>1, <3>2 DEF Init, Values, Places
    <2>2. Working /\ Started
        BY DEF Init, Working, Started, NoChild
    <2>3. QED
        BY <2>1, <2>2 DEF Typed
<1>2. Typed /\ [Next]_vars => Typed'
    <2> SUFFICES ASSUME Typed, [Next]_vars PROVE Typed'
        OBVIOUS
    <2>1. CASE Next
        BY <2>1, ReadingKeepsTyped, ParsingKeepsTyped, StartingKeepsTyped,
           WaitingKeepsTyped, OthersKeepTyped DEF Next, Shell
    <2>2. CASE UNCHANGED vars
        BY <2>2 DEF vars, Typed, Values, Working, Started, Command
    <2>3. QED
        BY <2>1, <2>2
<1>3. QED
    BY <1>1, <1>2, TypedImpliesTypeOK, PTL DEF Spec
================================================================================
