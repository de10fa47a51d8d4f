-------------------------------- MODULE Parser --------------------------------
(* One call of parse_input: tokens are taken from the line that was read, pushed
   through the automaton, and every complete command is run as soon as it is
   reduced; after a << the tokens of the line are put aside until its bodies have
   been read (parser/parse_input.c, parse_token_flow.c, shift_reduce.c,
   lexer/lex_heredoc.c, here_body_read.c, here_read_line.c).

   The text is chosen while it is read: a token, a line of a body, the end of the
   line, the end of the input, an interrupt.                                   *)
EXTENDS Grammar, Nodes

CONSTANTS
    Modes,      \* where lines may come from
    Words,      \* the words of commands
    Delims,     \* the words after << and in the bodies of here-documents
    Signs,      \* its operators; "nl" is the newline
    MaxInput,   \* nothing but delimiters and a last newline is typed beyond it
    TempFails   \* whether the file of a here-document may fail to open

ASSUME ParserAssumption ==
    /\ Modes \subseteq {"tty", "file"}
    /\ Signs \subseteq Operators /\ "nl" \in Signs
    /\ (Words \cup Delims) \cap Operators = {}
    /\ MaxInput \in Nat
    /\ TempFails \in BOOLEAN

VARIABLES
    mode,       \* where lines come from: "tty" (readline) or "file" (get_next_line)
    line,       \* c->read_line: [text, at, whole, null]
    input,      \* history: all that has been typed
    tokens,     \* the token arena
    parse,      \* t_parser_state: [flags, tok, look, state, root]
    stack,      \* the symbol stack: [type, token, node, state]
    nodes,      \* the node arena
    body,       \* the here-document being read: [on, fd, writable]
    docs,       \* the file of each here-document: [lines, opened] for reading
    open,       \* the descriptors of here-documents that are open; 0 is standard input
    ran,        \* history: the last token of each list that was run
    phase,      \* "parse", "final" (no more tokens to come) or "over"
    fault       \* what went wrong for good: "none", "null", "overrun" or "loop"

reader == <<mode, line, input>>
heredoc == <<body, docs, open>>
vars == <<mode, line, input, tokens, parse, stack, nodes, body, docs, open, ran,
          phase, fault>>

Flags == {"SAVE_TOKENS", "HERE_BODY", "HAS_SAVED_TOKENS", "HAS_LOOKAHEAD",
          "DONE", "ERROR", "INTERRUPTED"}

Top == stack[Len(stack)]
Delimiter == tokens[nodes[Top.node].token]

Init ==
    /\ mode \in Modes
    /\ line = [text |-> << >>, at |-> 1, whole |-> FALSE, null |-> FALSE]
    /\ input = << >>
    /\ tokens = << >>
    /\ parse = [flags |-> {}, tok |-> 0, look |-> "EOF", state |-> 0, root |-> 0]
    /\ stack = << >>
    /\ nodes = << >>
    /\ body = [on |-> FALSE, fd |-> -1, writable |-> FALSE]
    /\ docs = << >>
    /\ open = {0}
    /\ ran = << >>
    /\ phase = "parse"
    /\ fault = "none"

-------------------------------------------------------------------------------
(* The line that is being read                                                  *)

EndsIn(s, t) == s # << >> /\ Last(s) = t
EndsInNewline(s) == EndsIn(s, "nl")

\* get_next_line ends at a newline, or before one at the end of the file; a line
\* of readline always gets one at its end and may have others, pasted.
MayEnd == line.whole \/ EndsInNewline(line.text) \/ mode = "file"
MayGrow == ~line.whole /\ (mode = "tty" \/ ~EndsInNewline(line.text))

AtEnd == line.at > Len(line.text) /\ MayEnd

\* What may follow in the text: s, unless it is too long.
Types(s) ==
    /\ line.at > Len(line.text) /\ MayGrow
    /\ input' = input \o s
    /\ line' = [line EXCEPT !.text = @ \o s, !.at = @ + Len(s)]
    /\ UNCHANGED mode

\* There is room for more, or for the newline that ends the text.
InBounds(s) ==
    \/ Len(input) < MaxInput
    \/ s = <<"nl">> /\ ~EndsInNewline(input)

-------------------------------------------------------------------------------
(* get_next_token, get_lookahead                                                *)

\* run_parse_iteration wants a lookahead.
Fetching ==
    /\ phase = "parse" /\ fault = "none" /\ parse.root = 0
    /\ "HAS_LOOKAHEAD" \notin parse.flags

Fresh == Fetching /\ parse.flags \cap {"HERE_BODY", "HAS_SAVED_TOKENS"} = {}

\* lex_token delimits the next token of the line.
LexToken(t) ==
    /\ Fresh /\ ~line.null
    /\ Types(<<t>>) /\ InBounds(<<t>>)
    /\ tokens' = Append(tokens, t)
    /\ parse' = [parse EXCEPT !.tok = @ + 1, !.look = ClassifyToken(t),
                              !.flags = @ \cup {"HAS_LOOKAHEAD"}]
    /\ UNCHANGED <<stack, nodes, heredoc, ran, phase, fault>>

StartHereBody(flags) ==
    (flags \ {"SAVE_TOKENS"}) \cup {"HAS_SAVED_TOKENS", "HERE_BODY"}

(* The lexer is at the end of its input and its state is cleared.  The final pass
   begins, unless tokens are being saved: then bodies are read from the start of
   the very same line.                                                         *)
LexEnds ==
    /\ Fresh /\ (line.null \/ AtEnd)
    /\ line' = [line EXCEPT !.at = 1, !.whole = TRUE]
    /\ IF "SAVE_TOKENS" \in parse.flags
       THEN /\ parse' = [parse EXCEPT !.flags = StartHereBody(@)]
            /\ UNCHANGED phase
       ELSE /\ parse' = [parse EXCEPT !.look = "EOF"]
            /\ phase' = "final"
    /\ UNCHANGED <<mode, input, tokens, stack, nodes, heredoc, ran, fault>>

\* A slip for ReplayToken: the newline does not end the saved tokens.
ReplayTokenForEver ==
    /\ Fetching /\ "HERE_BODY" \notin parse.flags /\ "HAS_SAVED_TOKENS" \in parse.flags
    /\ parse.tok < Len(tokens)
    /\ parse' = [parse EXCEPT !.tok = @ + 1, !.look = ClassifyToken(tokens[parse.tok + 1]),
                              !.flags = @ \cup {"HAS_LOOKAHEAD"}]
    /\ UNCHANGED <<reader, tokens, stack, nodes, heredoc, ran, phase, fault>>

\* handle_saved_tokens: the next token is one that was put aside.
ReplayToken ==
    /\ Fetching /\ "HERE_BODY" \notin parse.flags /\ "HAS_SAVED_TOKENS" \in parse.flags
    /\ parse.tok < Len(tokens)
    /\ LET t == tokens[parse.tok + 1]
       IN parse' = [parse EXCEPT !.tok = @ + 1, !.look = ClassifyToken(t),
                        !.flags = (IF t = "nl" THEN @ \ {"HAS_SAVED_TOKENS"} ELSE @)
                                  \cup {"HAS_LOOKAHEAD"}]
    /\ UNCHANGED <<reader, tokens, stack, nodes, heredoc, ran, phase, fault>>

\* A slip for SaveToken: tokens are saved past the end of the line.
SaveTokenOnly ==
    /\ phase = "parse" /\ fault = "none" /\ parse.root = 0
    /\ {"HAS_LOOKAHEAD", "SAVE_TOKENS"} \subseteq parse.flags
    /\ parse' = [parse EXCEPT !.flags = @ \ {"HAS_LOOKAHEAD"}]
    /\ UNCHANGED <<reader, tokens, stack, nodes, heredoc, ran, phase, fault>>

\* handle_here_doc: the lookahead is put aside; at a newline the body is next.
SaveToken ==
    /\ phase = "parse" /\ fault = "none" /\ parse.root = 0
    /\ {"HAS_LOOKAHEAD", "SAVE_TOKENS"} \subseteq parse.flags
    /\ parse' = [parse EXCEPT !.flags =
                    IF tokens[parse.tok] = "nl" THEN StartHereBody(@ \ {"HAS_LOOKAHEAD"})
                    ELSE @ \ {"HAS_LOOKAHEAD"}]
    /\ UNCHANGED <<reader, tokens, stack, nodes, heredoc, ran, phase, fault>>

-------------------------------------------------------------------------------
(* handle_here_body, get_here_doc                                               *)

\* The descriptors that close_heredoc_fds finds in the arena.
HereNodes(ns) == {i \in DOMAIN ns : ns[i].type = "redir" /\ ns[i].flag = "DLESS"}
HereFds(ns) == {ns[i].fd : i \in HereNodes(ns)}

Reading == Fetching /\ "HERE_BODY" \in parse.flags /\ body.on

\* create_here_temp: open for writing and for reading; either may fail.
OpenHere ==
    /\ Fetching /\ "HERE_BODY" \in parse.flags /\ ~body.on
    /\ \E opened \in IF TempFails THEN {{}, {"w"}, {"w", "r"}} ELSE {{"w", "r"}} :
        /\ body' = [on |-> TRUE, writable |-> "w" \in opened,
                    fd |-> IF "r" \in opened THEN Len(docs) + 1 ELSE -1]
        /\ docs' = Append(docs, [lines |-> << >>, opened |-> "r" \in opened])
        /\ open' = IF "r" \in opened THEN open \cup {Len(docs) + 1} ELSE open
    /\ UNCHANGED <<reader, tokens, parse, stack, nodes, ran, phase, fault>>

\* The loop looks at read_line, which a body that ended with the input has freed.
ReadNull ==
    /\ Reading /\ line.null
    /\ fault' = "null"
    /\ UNCHANGED <<reader, tokens, parse, stack, nodes, heredoc, ran, phase>>

\* A slip for EndBody: the body goes to the first here-document in the arena.
EndBodyFirst(fd) ==
    LET here == CHOOSE n \in HereNodes(nodes) : \A m \in HereNodes(nodes) : n <= m
    IN /\ nodes' = [nodes EXCEPT ![here].fd = fd]
       /\ parse' = [parse EXCEPT !.flags = @ \ {"HERE_BODY"}, !.tok = Top.token]
       /\ body' = [body EXCEPT !.on = FALSE]

\* The body is in the node on top of the stack, and its delimiter was its token.
EndBody(fd) ==
    /\ nodes' = [nodes EXCEPT ![Top.node].fd = fd]
    /\ parse' = [parse EXCEPT !.flags = @ \ {"HERE_BODY"}, !.tok = Top.token]
    /\ body' = [body EXCEPT !.on = FALSE]

DelimiterLine ==
    /\ Reading /\ ~line.null
    /\ Types(<<Delimiter, "nl">>)
    /\ EndBody(body.fd)
    /\ UNCHANGED <<tokens, stack, docs, open, ran, phase, fault>>

BodyLine(w) ==
    /\ Reading /\ ~line.null /\ body.writable /\ w # Delimiter
    /\ Types(<<w, "nl">>) /\ InBounds(<<w, "nl">>)
    /\ docs' = [docs EXCEPT ![Len(docs)].lines = Append(@, <<w>>)]
    /\ UNCHANGED <<tokens, parse, stack, nodes, body, open, ran, phase, fault>>

\* A line that has no newline: the command line itself, or the last of a file.
NoNewline(w) ==
    \/ line.at <= Len(line.text) /\ UNCHANGED reader
    \/ mode = "file" /\ Types(<<w>>) /\ InBounds(<<w>>)

\* One character too many is consumed of it, whatever that is.
UnendedLine(w) ==
    /\ Reading /\ ~line.null /\ body.writable
    /\ NoNewline(w)
    /\ fault' = "overrun"
    /\ UNCHANGED <<tokens, parse, stack, nodes, heredoc, ran, phase>>

\* Nothing to write to: the line is not consumed and looked at again, for ever.
UnwritableLine(w) ==
    /\ Reading /\ ~line.null /\ ~body.writable
    /\ NoNewline(w) \/ (w # Delimiter /\ Types(<<w, "nl">>) /\ InBounds(<<w, "nl">>))
    /\ fault' = "loop"
    /\ UNCHANGED <<tokens, parse, stack, nodes, heredoc, ran, phase>>

\* read_here_line: another line is read.
NextLine ==
    /\ Reading /\ ~line.null /\ line.text # << >> /\ AtEnd
    /\ line' = [text |-> << >>, at |-> 1, whole |-> FALSE, null |-> FALSE]
    /\ UNCHANGED <<mode, input, tokens, parse, stack, nodes, heredoc, ran, phase, fault>>

\* There is none: a warning, and the body ends here.
InputEnds ==
    /\ Reading /\ ~line.null /\ line.text # << >> /\ AtEnd
    /\ line' = [line EXCEPT !.null = TRUE]
    /\ EndBody(body.fd)
    /\ UNCHANGED <<mode, input, tokens, stack, docs, open, ran, phase, fault>>

\* SIGINT while a line is awaited (the shell has a handler for it if it is
\* interactive): the whole command line is given up.
Interrupt ==
    /\ mode = "tty" /\ Reading /\ ~line.null /\ line.text # << >> /\ AtEnd
    /\ line' = [line EXCEPT !.null = TRUE]
    /\ parse' = [parse EXCEPT !.flags = (@ \ {"HERE_BODY"}) \cup {"INTERRUPTED"},
                              !.tok = Top.token]
    /\ body' = [body EXCEPT !.on = FALSE]
    /\ open' = open \ ({body.fd} \cup HereFds([nodes EXCEPT ![Top.node].fd = -1]))
    /\ nodes' = [i \in DOMAIN nodes |->
                    IF i \in HereNodes(nodes) THEN [nodes[i] EXCEPT !.fd = -1] ELSE nodes[i]]
    /\ phase' = "over"
    /\ UNCHANGED <<mode, input, tokens, stack, docs, ran, fault>>

-------------------------------------------------------------------------------
(* shift_reduce, and what follows it                                            *)

\* The automaton is to decide on the lookahead.
Deciding ==
    /\ fault = "none" /\ parse.root = 0
    /\ \/ phase = "final"
       \/ /\ phase = "parse" /\ "HAS_LOOKAHEAD" \in parse.flags
          /\ "SAVE_TOKENS" \notin parse.flags

Decision == Action(parse.state, parse.look)

\* The accepting state is reached by a shift of the end of the input.
Shift ==
    /\ Deciding /\ Decision > 0
    /\ IF Decision = YyFinal
       THEN /\ parse' = [parse EXCEPT !.state = Decision,
                            !.flags = (@ \ {"HAS_LOOKAHEAD"}) \cup {"DONE"}]
            /\ phase' = "over"
            /\ UNCHANGED stack
       ELSE /\ parse' = [parse EXCEPT !.state = Decision, !.flags = @ \ {"HAS_LOOKAHEAD"}]
            /\ stack' = Append(stack, [type |-> parse.look, token |-> parse.tok,
                                       node |-> 0, state |-> Decision])
            /\ UNCHANGED phase
    /\ UNCHANGED <<reader, tokens, nodes, heredoc, ran, fault>>

\* The state below the symbols that are popped.
Uncovered(rest) == IF rest = << >> THEN 0 ELSE Last(rest).state

\* A slip for ExecRoot: the commands after the first are never run.
ExecRootFirst(rule, rhs) ==
    IF rule.lhs = "complete_commands" /\ Len(rhs) = 1 THEN Last(rhs).node ELSE 0

\* get_exec_root: a complete command is the last symbol of its rule.
ExecRoot(rule, rhs) == IF rule.lhs = "complete_commands" THEN Last(rhs).node ELSE 0

\* reduce; a complete command is left in root, to be run.  The tables reach YyFinal
\* by a shift only, so the test for it after a reduction is left out.
ReduceBy(rule) ==
    LET depth == Len(stack) - rule.len
        rhs == SubSeq(stack, depth + 1, Len(stack))
        rest == SubSeq(stack, 1, depth)
        result == Reduce(nodes, rule, rhs)
        state == Goto(Uncovered(rest), rule.lhs)
    IN /\ nodes' = result.nodes
       /\ stack' = Append(rest, [type |-> rule.lhs, node |-> result.node, state |-> state,
                                 token |-> IF rhs = << >> THEN parse.tok ELSE Last(rhs).token])
       /\ parse' = [parse EXCEPT !.state = state,
                !.flags = IF rule.handler = "io_here" THEN @ \cup {"SAVE_TOKENS"} ELSE @,
                !.root = ExecRoot(rule, rhs)]

ReduceStep ==
    /\ Deciding /\ Decision < 0
    /\ ReduceBy(Rules[-Decision])
    /\ UNCHANGED <<reader, tokens, heredoc, ran, phase, fault>>

\* A slip for RunPending: the symbol on the stack still names a node.
RunPendingDangling ==
    /\ phase # "over" /\ fault = "none" /\ parse.root # 0
    /\ ran' = Append(ran, Top.token)
    /\ open' = open \ HereFds(nodes)
    /\ nodes' = << >>
    /\ parse' = [parse EXCEPT !.root = 0]
    /\ UNCHANGED <<reader, tokens, stack, body, docs, phase, fault>>

(* check_and_run_pending_exec: the list is run at once, which takes or leaves the
   descriptors of its here-documents; all are closed, and the arena is cleared.  *)
RunPending ==
    /\ phase # "over" /\ fault = "none" /\ parse.root # 0
    /\ ran' = Append(ran, Top.token)
    /\ open' = open \ HereFds(nodes)
    /\ nodes' = << >>
    /\ stack' = [stack EXCEPT ![Len(stack)].node = 0]
    /\ parse' = [parse EXCEPT !.root = 0]
    /\ UNCHANGED <<reader, tokens, body, docs, phase, fault>>

\* A slip for SyntaxError: descriptors are left to the next command line.
SyntaxErrorUnclosed ==
    /\ Deciding /\ Decision = 0
    /\ parse' = [parse EXCEPT !.flags = (@ \ {"HAS_LOOKAHEAD"}) \cup {"ERROR"}]
    /\ phase' = "over"
    /\ UNCHANGED <<reader, tokens, stack, nodes, heredoc, ran, fault>>

SyntaxError ==
    /\ Deciding /\ Decision = 0
    /\ parse' = [parse EXCEPT !.flags = (@ \ {"HAS_LOOKAHEAD"}) \cup {"ERROR"}]
    /\ open' = open \ HereFds(nodes)
    /\ nodes' = [i \in DOMAIN nodes |->
                    IF i \in HereNodes(nodes) THEN [nodes[i] EXCEPT !.fd = -1] ELSE nodes[i]]
    /\ phase' = "over"
    /\ UNCHANGED <<reader, tokens, stack, body, docs, ran, fault>>

-------------------------------------------------------------------------------
NextToken ==
    \/ \E t \in Signs \cup (IF EndsIn(tokens, "<<") THEN Delims ELSE Words) : LexToken(t)
    \/ LexEnds \/ ReplayToken \/ SaveToken

ReadBody ==
    \/ OpenHere \/ ReadNull \/ DelimiterLine \/ NextLine \/ InputEnds \/ Interrupt
    \/ \E w \in Delims : BodyLine(w) \/ UnendedLine(w) \/ UnwritableLine(w)

Advance == Shift \/ ReduceStep \/ RunPending \/ SyntaxError

Next == NextToken \/ ReadBody \/ Advance

Spec == Init /\ [][Next]_vars

\* The input goes on until it ends, and the shell takes its next step.
LiveSpec == Spec /\ WF_vars(Next)

-------------------------------------------------------------------------------
(* Properties                                                                   *)

Symbol == [type : Symbols, token : Nat, node : Nat, state : DOMAIN YyPact]
NodeFlags == RedirOps \cup {"none", "subshell", "AND_IF", "OR_IF"}

\* Every variable stays in its domain, and no link leaves the arena.
TypeOK ==
    /\ mode \in Modes
    /\ line.at \in 1 .. Len(line.text) + 1
    /\ parse.flags \subseteq Flags
    /\ parse.tok \in 0 .. Len(tokens)
    /\ parse.look \in Terminals
    /\ parse.state \in DOMAIN YyPact
    /\ parse.root \in 0 .. Len(nodes)
    /\ \A i \in DOMAIN stack :
        stack[i] \in Symbol /\ stack[i].node <= Len(nodes) /\ stack[i].token <= Len(tokens)
    /\ \A i \in DOMAIN nodes :
        /\ nodes[i].type \in NodeTypes /\ nodes[i].flag \in NodeFlags
        /\ {nodes[i].next, nodes[i].head, nodes[i].redirs} \subseteq 0 .. Len(nodes)
        /\ nodes[i].token \in 0 .. Len(tokens)
        /\ nodes[i].fd \in -1 .. Len(docs)
    /\ open \subseteq 0 .. Len(docs)
    /\ phase \in {"parse", "final", "over"}
    /\ fault \in {"none", "null", "overrun", "loop"}

(* A text is accepted exactly when the grammar derives it, and rejected at the
   first token after which it cannot be completed any more.                     *)
GrammarKept ==
    /\ "DONE" \in parse.flags => Derives(Classes(tokens))
    /\ "ERROR" \in parse.flags =>
        IF parse.look = "EOF" THEN ~Derives(Classes(tokens))
        ELSE /\ ~Viable(Classes(SubSeq(tokens, 1, parse.tok)))
             /\ Viable(Classes(SubSeq(tokens, 1, parse.tok - 1)))

\* The last token that has been run.
Mark == IF ran = << >> THEN 0 ELSE Last(ran)

(* What is run is what was written since the last command that was run: every word
   and operator, in its place, none twice and none left out.                    *)
ListsAsWritten ==
    parse.root # 0 =>
        Yield(nodes, parse.root) = NormalForm(Classes(tokens), Mark + 1, Top.token)

\* When the text has been parsed to its end, all of its commands have been run.
NothingLeftOut ==
    "DONE" \in parse.flags => \A i \in Mark + 1 .. Len(tokens) : tokens[i] = "nl"

\* The last line has no newline; it can only be the end of a file.
Unended == line.whole /\ ~line.null /\ ~EndsInNewline(line.text)

\* The here-document of node n is the k-th of the text.
Place(n) ==
    Cardinality({i \in 2 .. nodes[n].token : tokens[i-1] = "<<"})

(* When a list is run, each of its here-documents has an open descriptor of its
   own, for the lines that follow the command line, up to its own delimiter; or
   -1, when its file could not be opened.                                       *)
OwnBodies ==
    parse.root # 0 =>
        \A n \in HereNodes(nodes) :
            /\ Place(n) \in DOMAIN docs
            /\ IF docs[Place(n)].opened
               THEN /\ nodes[n].fd = Place(n) /\ Place(n) \in open
                    /\ docs[Place(n)].lines = AsRead(input).bodies[Place(n)]
               ELSE nodes[n].fd = -1

BodiesMatch == ~Unended => OwnBodies

(* No line of a body is taken for a command and no command for a line of a body.  *)
TokensAsWritten == ~Unended /\ fault = "none" => tokens = AsRead(input).tokens

(* Whatever way a command line ends, no descriptor of a here-document is left to
   the next one, and standard input is still open.                              *)
DocumentsClosed == phase = "over" /\ ~Unended => open = {0}

(* A command line is parsed to its end, or given up, whatever is typed; the faults
   that are known are excused.                                                  *)
Terminates == <>(phase = "over" \/ fault # "none")

(* A here-document that is not delimited does not crash the shell: the text is not
   looked at after the input has ended ...                                      *)
NeverReadsNull == fault # "null"

\* ... nor beyond the end of its last line.
NeverOverruns == fault # "overrun"

(* A line with a syntax error does nothing: the error is found before any command
   of that line is run.                                                         *)
ErrorRunsNothing ==
    "ERROR" \in parse.flags /\ ran # << >> =>
        \E i \in Mark + 1 .. parse.tok - 1 : tokens[i] = "nl"
=============================================================================
