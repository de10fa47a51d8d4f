# minishell in TLA+

A model of minishell (`srcs/`), a POSIX-like shell in C: TLA+ modules written
from the source, TLC runs that check them on small instances, and TLAPS proofs for every
value of their parameters. Paths below are relative to the repository; line numbers of
every modelled definition are in `PROJECT.json` (`map`).

To check: `tlc -config Executor.cfg MCExecutor` (and the other `.cfg` files, with the
module `PROJECT.json` names), `tlapm ListOrderProofs.tla`, and so for the seven other modules
whose names end in `Proofs`.

## 1. The system

The shell is one process with one thread and one context, `t_ctx`. `shell_loop` (`main.c`)
reads a line; `parse_input` turns it into tokens, pushes them through an LALR
automaton and, *while it is parsing*, calls `execute_list` for every command list that
has become complete. `execute_list` runs pipelines, which fork processes and wait for them.

| component | source | state it keeps | operations | what makes it correct | module |
|---|---|---|---|---|---|
| list order | `execute/execute_list.c` | place in the list, last status | `execute_list`, `get_next*` | a pipeline runs just when its connector agrees with the last status | `ListOrder`, `AndOrList`, `Executor` |
| pipelines, processes | `execute/*.c` | `pipe_fd`, `io_fd`, `is_pipe`, `pid_to_wait`, `return_status`, `should_exit`; the kernel's processes, descriptors and pipes | fork, pipe, dup2, exec, wait | descriptors reach the right command, all children are reaped, the status is the last command's, nothing blocks for ever | `Executor` |
| redirections | `process_redirection.c`, `close_fds.c` | `io_fd`, fd of here-document nodes | open, close, dup2 | the last redirection of a side wins; nothing is left open | `Executor`, `Parser` |
| running builtins | `builtin/execute_builtin*.c` | `saved[2]` | save, redirect, run, restore | descriptors 0 and 1 are restored; forked just when part of a pipeline | `Executor` |
| lexer | `lexer/lookahead*.c`, `lex_*.c` | position in the line, token being built | ten rules, one per character | tokens are what the shell language says | `Lexer` (one line), `Parser` (token stream) |
| here-documents | `lexer/here_*.c`, `parser/parse_token_flow.c` | saved tokens, flags, the temporary file | save, replay, read a body | each body goes to its operator; no command is taken for a body or the reverse | `Parser`; `Expansion` (a line of a body), `ReadLoop` (interrupts) |
| LALR parser | `parser/*.c` | state, symbol stack, node arena | shift, reduce, run, error | exactly the grammar is accepted; the tree is what was written | `Lalr`, `Grammar`, `Nodes`, `Parser` |
| word expansion, command set-up | `expansions/*.c`, `build_command.c`, `quote_remove.c` | field under construction, offsets in arenas | scan, split, remove quotes | fields are those of the shell language | `Expansion` |
| environment, `export`, `unset`, `cd` | `environment/*.c`, `builtin/*.c` | list of variables, working directory | set, unset, `cd`, to and from `envp` | names are unique, PWD is the directory, failed updates are undone where that can be done | `Environment`, `Session`, `Store` |
| path search, canonical paths, number of `exit` | `get_pathname.c`, `ft_split_with_empty.c`, `get_path_canonical_form.c`, `builtin_exit.c` | none | pure functions | agree with a reference definition | `Texts` |
| read loop, signals | `main.c`, `input.c`, `signals/*.c` | `g_signal`, handlers | read, interrupt, consume, wait | an interrupt costs the line it came with and no other | `ReadLoop` |
| `exit` | `builtin/builtin_exit.c` | `should_exit` | leave, refuse | the shell leaves just when it must | `Executor`, `ReadLoop`, `Texts` |
| prompt, `echo`, debug output, arenas, libft, readline | | | | | not modelled (section 7) |

Components interact through calls and through `t_ctx`; there is no lock. What is shared with
other processes is kernel state: pipe ends copied by `fork`, and the process table.

What is hard here, and where tests do not reach (each with its line in `PROJECT.json`,
`hazards`): the interleaving of a pipeline's processes; who still holds which pipe end
when a system call or an expansion fails half way; fields of `t_ctx` that outlive the
command they were set for, or are inherited by a forked subshell; commands that run
while the rest of their line has not been parsed; tokens put aside while bodies are read;
the end of the input, or SIGINT, inside a body; descriptors kept in arena nodes; nodes of an
arena that was cleared; positions in a buffer that is cut while it is written; a flag a
signal handler sets between any two instructions; a directory and the variable that
names it, changed one after the other, either of which may fail.

## 2. Modules

    ListOrder ---+--> Executor --> MCExecutor        Lalr --> Grammar --+--> Parser --> MCParser, ParserProofs
                 |       |  \                               Nodes ------+
                 +--> AndOrList  \-> ExecutorProofs
                 |--> ListOrderProofs --^
                 +--> ReadLoop --> MCReadLoop, ReadLoopProofs (with ListOrderProofs)

    Intervals --> ShellWords --> Lexer --> Expansion --> MCExpansion, ExpansionProofs

    Texts, Environment --+--> Session --> MCSession, SessionProofs
                Store ---+  (INSTANCE, refinement)

    ParserProofs --> GrammarProofs --> InputProofs

- `ListOrder`: `get_next` and its searches, beside `NextRun`, what the shell language asks.
- `AndOrList`: the abstract specification of a list: pipelines one at a time, left to
  right, each only when its connector is satisfied.
- `Executor`: `execute_list` and all below it, for the shell and every process it forks.
  `Promise == INSTANCE AndOrList WITH ...` is the refinement mapping.
- `Lalr`: the tables and the three lookups in them, number for number.
- `Grammar`: the reference for the parser: productions (from
  `notes/shni_grammar_reduced.y`), derivability, viable prefixes, the division of a text in
  tokens and bodies, and a normal form of commands.
- `Nodes`: the node arena, each reduction's effect on it, and reading a tree back (`Yield`).
- `Parser`: one call of `parse_input`, with the reading of here-documents.
- `MCExecutor`, `MCParser`: values of the constants. A definition called a *slip* in
  its comment is a plausible mistake; the mutants of `PROJECT.json` put it in the place of
  the definition that follows it, and the property named there must then fail.
- `Intervals`: the characters, the terminator `Nul` and runs of positions in a sequence. `ShellWords`: the reference for the lexer
  and the expansion: quotations, references, tokens, fields and bodies as sets of positions of
  the text, with nothing of the code's order of work.
- `Lexer`: the ten rules of `lex_token` over one line; `quote_remove_inplace`.
- `Expansion`: the tokens of a line become a command: `build_command` and all below it, with the
  field arena and the argv arena; a line of a here-document.
- `Texts`: `get_path_canonical_form`, `get_pathname`, `ft_split_with_empty`,
  `ft_isnumber`, `ft_split_key_value`, each beside what it is for.
- `Environment`: the list of variables and the functions on it. `Session`: a shell's life with
  it: `init_env`, `export`, `unset`, `cd`, shells started from it. `Store`: the abstract
  specification: a map from names to values.
- `ReadLoop`: `shell_loop`, the readers, a text being parsed and run, children, SIGINT.
- `MCExpansion`, `MCSession`, `MCReadLoop`: values of the constants.
- `ListOrderProofs`, `ExecutorProofs`, `ParserProofs`, `ReadLoopProofs`, `ExpansionProofs`,
  `SessionProofs` (with what it needs of `Texts`): theorems (section 4). `GrammarProofs`: derivations, and
  the tables against the productions; `InputProofs`: what `Parser` makes of what is typed, by both.

### How `Executor` corresponds to the code

`pc[p]` is where process p is: `command` (top of `execute_pipeline`'s loop), `simple` (in
`execute_simple_command`, after the pipe), `forked` (parent after `fork`), `setup` (child
after `fork`), `redir` (redirections in the shell itself), `program`/`builtin` (at work),
`after` (the command returned), `wait` and `failing` (in `wait_return_status`), `listdone`.
`fd[p]` has descriptors 0 and 1 (`std`), `saved[2]`, `io_fd` and `pipe_fd[0]`; `sh[p]` the
fields of `t_ctx` that `fork` copies. An action is a stretch of code between two points
where another process could notice the difference: a system call, or the choice of what
comes next. A pid is the process's number, `pid_to_wait = -1` is 0 and fd -1 is `None`.

Abstractions: pids are not reused; `dup`, `dup2`, `malloc` and `open` for lack of
descriptors do not fail; `fork` and `pipe` may (`Faults`), and `open` does where the script
says so. A program reads its input to the end, if it reads, then writes some units, or
gets SIGPIPE. Reads from a terminal or file return. A failing `execve` is a program that
exits with a status. An empty command name and a name that path search does not find
are one kind, `missing`. A script is any list of lists; `ScriptsAssumption` says
what the parser cannot build: empty lists, and a newline inside the list it hands over.

### How `Parser` corresponds to the code

`parse` is `t_parser_state`, `stack` the `AT_STACK` arena, `nodes` the `AT_COMMAND` arena,
`tokens` the `AT_TOKENS` arena, `line` is `c->read_line` with the lexer's place in it, `body`
and `docs` the here-document being read and what was written. An action is one token
delimited, replayed or put aside, one line of a body, one shift or reduction, or one run of
a complete list. The text is not fixed beforehand: it is chosen as it is read.

Abstractions: a token is a word or an operator; quotes, blanks, comments and expansions are
left out, so a line of a body is one word. A here-document's operator and delimiter are what the
grammar asks, never a name. Writing a body does not fail and does not expand it. Running
a list does not change the parser's state and reads nothing of the script; it may take
descriptors of its here-documents (`open_here_file` moves them to `io_fd`), and what it
leaves is closed right after it, so that `RunPending` closes them all. A descriptor's
number is that of its here-document and 0 is standard input, which is also what a new node's
`fd` is. Arenas do not overflow. Only one call is modelled: `init_parser` resets all of it.
SIGINT is possible where a body's line is awaited, and only from a terminal: otherwise the shell
has no handler and dies. Three faults are absorbing: `null` and `overrun` (undefined
behaviour: the state after it means nothing) and `loop`.

### How `Expansion` corresponds to the code

`buf` is the `AT_FIELDS` arena, one character to a place, the terminator being `Nul`; `slots` is `AT_ARGV`, `exp` is `t_expand_state`, `src` the character of the word
that `scan_word` looks at, `seg` the two indices of `append_segment`. Offsets are kept as
the code keeps them: a field is a position and a length in `buf`, `delimit_segment` writes its
terminator at the index the code computes, and what argv gets is read back from `buf`
at the end. An action is one turn of the code's loops. Abstractions: there is one
variable besides `$?`; characters are those the rules tell apart; arenas do not overflow;
the step `overrun` is an index beyond what has been written and is absorbing.

### How `Session` corresponds to the code

`env` is `t_env.vals`, `envp` what `init_env` has not read, `args` the arguments a builtin has
left. `export` and `unset` take one step per argument, `cd` one step, each with every
combination of allocations that the code checks failing. A name is one symbol, other texts are
sequences of characters, because `cd`, PWD and PATH are about characters. `NULL` and the empty
value are different, as in `t_env_content`. `Rmdir` is another program's step: a directory the
shell is in, or goes back to, may be gone. `Nest` starts a shell from the shell with
`env_to_envp`, and the model goes on with that one. There are no links and no
permissions, so `chdir` fails only for what is not there; `getcwd` fails in a directory that
has been removed.

### How `ReadLoop` corresponds to the code

`pc` is where `shell_loop` is: `top` (before the read), `returned` and `body returned` (the
reader has a line and has not looked at `g_signal` yet), `got`, `body got` (`get_user_input`
has returned), `parse` (between commands of the text), `run`, `wait`
(`wait_return_status`), `parsed`, `error`, `interrupted` (how `parse_input` came back).
SIGINT may come between any two steps; it sets `g_signal` and ends every child whose
handler is the default one again. Whether a builtin is run in the shell (`InPlace`) is read off its
pipeline; that `is_pipe` stays set when a pipeline is left midway (`should_exit`) is not followed
into the rest of the text: no property depends on it for the texts of the run. A text is a list of complete commands, more than one only
when several lines are pasted, and each is a list of pipelines of five kinds of commands; the parser
and the executor behind it are `Parser` and `Executor`. A handler that is set in an
interactive shell is inherited by its children; in others SIGINT has its default action.

## 3. Runs

| run | question | result |
|---|---|---|
| `Executor` | Do pipelines plumb, wait, return statuses and end as they should, whatever fails? | pass, 118 416 states |
| `ExecutorHang` | Does every command line end? | no: `big \| a > $words` waits for ever |
| `ExecutorLoneBuiltin` | Does a builtin alone in its pipeline run in its shell? | no: not in a subshell of a pipeline |
| `ExecutorNewline` | Is list order kept in a subshell of several lines? | no: `get_next` skips over newlines |
| `Parser` | Does the automaton accept the grammar, and does what runs equal what was written? | pass, 113 557 states |
| `HereDoc` | Do bodies, commands and descriptors stay apart? | pass, 302 734 states |
| `HereDocNull` | Is the text left alone after the input has ended? | no: two bodies, one end of input |
| `HereDocOverrun` | Is it left alone beyond its end? | no: a last line without newline |
| `Expansion` | Do lines become the tokens, fields, files and bodies the shell language names? | pass, 546 388 states |
| `Session` | Do the variables and the directory stay right, whatever fails? | pass, 1 244 329 states |
| `ReadLoop` | Does an interrupt cost its own line only, and does the shell end? | pass, 58 086 states |
| `ParserError` | Is a syntax error found before the line's commands run? | no: `ls )` runs `ls` |

What the properties of the passing runs say:

- `NoStrayChildren`: a shell with no pid to wait for has no child, and no process ends while
  it has one, on every early return. `WaitsWithPipesClosed`: who waits holds no pipe end that
  would keep a child from its end of file or SIGPIPE. `Plumbing`: descriptors 0 and 1 of
  all that runs are those the shell language names. `BuiltinsInPipelinesForked`: the shell
  itself runs a builtin only when it is the whole pipeline.
- `PipelineStatus` (action): the status of a pipeline is its last command's, in whatever
  order children are reaped. `ListOrderKept` (action) and `ListPromise` (refinement of
  `AndOrList`): which pipeline runs next. `Terminates`: every script ends.
- `GrammarKept`: a text is accepted exactly when a reference derivation exists, and rejected
  at the first token after which none can exist. `ListsAsWritten`: the tree that is run, read
  back, is the text since the last run: no word, operator or redirection lost, doubled or in
  another place, also after the arena was cleared. `NothingLeftOut`: no command is
  forgotten at the end.
- `BodiesMatch`: when a list is run, each of its here-documents has an open
  descriptor of its own with exactly its lines. `TokensAsWritten`: tokens of commands are
  those outside bodies. `DocumentsClosed`: however a command line ends, no such descriptor
  is left and standard input is open. `Terminates`: the parse ends, or a fault was reached.

- `TokensAsSpecified`, `DelimitersAsSpecified`, `ArgvAsSpecified`, `TargetsAsSpecified`,
  `BodiesAsSpecified`: what the code's one pass over the characters, with its flags and offsets,
  makes of a line is what `ShellWords` says of its positions. `FieldsKept` (action): a field or
  file that has been recorded is never written to again. `Terminates`: no loop stays where it is.
- `UniqueNames`, `ImplementsStore` (refinement): the list is a map. `NestedKeeps`: a shell started
  from a shell finds what its parent could find. `PwdNamesCwd`: a PWD that the shell has set is
  the directory, or leads along one that has been removed. `CdLands`, `CdAtomic` (actions): after a
  cd that succeeds PWD is the directory, even if it was not before, and cd lands where its argument
  leads; a cd that fails leaves PWD alone and goes back if that can be done.
  `CanonicalAsSpecified`, `SearchAsSpecified`, `NumbersAsSpecified`: the
  functions of `Texts` against their references, for all short texts.
- `DroppedForGood`: a line given up for an interrupt is neither run nor taken for the end of the
  input. `DropsAreFresh` (action): an interrupt that was for a program never costs a later line.
  `ComesToAnEnd`: the shell ends, whatever interrupts come when.

Excused, and said in the formulas: behaviours after a last command has left `io_fd` open
(`spilled`: `Plumbing`, `WaitsWithPipesClosed`, `Terminates`), texts whose last line has no
newline (`Unended`: `BodiesMatch`, `TokensAsWritten`, `DocumentsClosed`), and the three
faults (`Terminates` of `Parser`). In `Expansion`, words with several references to a
value that splits and does not end with a blank, or with a quotation of nothing right before
a value that begins with one (`Misjudged`): the length of the field before is taken for
that of the new one, and the text is cut in the wrong place (with v = `x y`, `$v$v` gives the
fields x and y instead of x, yx and y). In `Session`, environments that name a variable
twice or have an empty PWD, PATH or SHLVL (`clean`, for `UniqueNames`, `NestedKeeps` and
`ImplementsStore`), a PWD that somebody else set (`told`, `Honest`), a relative PWD (HOME was
relative), names that end in a dot or have two in a row (`DotsMisread`: in `a.`, `a..` and `..a` a dot
is taken for the name `.` or `..`, or refused; `a.b` and `.a` are read as they are), and a slash too many after a `.` or `..` with another `..` later
(`SlashKept`: the second slash is kept in the form, and the later `..` removes it instead of
a name, so that `cd .//..` in /a stays in /a). The last one came to light when
the proof of `CanonicalFormLeads` did not go through: the paths that were checked then were one character too
short for it. In `ReadLoop`, a program that runs for ever is not ended by an interrupt that
comes between `fork` and `sig_set_default`, or between the forks of a pipeline (`hit`); who
uses the terminal has to interrupt again. These are the findings and hazards listed in
`PROJECT.json`, not modelling artefacts.

One case is in the properties themselves: a cd that fails behind `chdir` goes back by the name in
PWD, and `cd_path` does not look whether that has worked. With `/a/b` removed while the shell is in
it, `cd ..` that cannot update the variables leaves the shell in `/a` and PWD at `/a/b`. `told` says
only who has set PWD, not whether it is right, so such behaviours are part of what is checked:
`PwdNamesCwd` then demands that PWD leads nowhere (`Removed`; if another program made the
directory again, which the model has no step for, it would lead there), `CdAtomic` that the shell is where `cd` was
to go and nowhere else, and `CdLands` that the next `cd` that succeeds puts PWD right.

`ExecutorNewline` needs a list that is not `OneLine`, which the grammar builds only inside a
subshell; `Executor` has one such body as well, whose connectors happen to be harmless
(`newline, or`), so that `ListOrderKept` is checked there too.

### Bounds

- `Executor`: every pipeline of one or two commands over a menu of twelve (each kind of
  command, each way to fail, a side redirected twice) followed by an and-or list; by hand,
  three-command pipelines, nested subshells, and lists of four. `PipeCap = 1` with programs
  that write 2 units, so pipes fill. Six processes and three pipes are as many as those
  scripts can use; with the bounds the `Fork` and `MakePipe` actions are never
  short of a number. Three commands are enough for "first", "between" and "last".
- `Parser`: five tokens, one word, all operators, from a terminal (so newlines may be
  pasted). Five tokens reach every rule and a list after a list that was run.
- `HereDoc`: six tokens and then what ends the text: two here-documents on one line or on
  two, bodies of one line before the delimiter, delimiters equal or not. `Delims` only
  after `<<` and in bodies is a bound: words elsewhere are `Words`.
- `Expansion`: every line of one to four pieces of eleven (a letter, `$`, both quotes, a blank, `>`,
  `&`, `#`, a newline, a reference to the variable and to the status), with no value and with seven
  values: blanks before, after, between and alone. Four pieces are two references and a
  quotation, a word after a redirection, a quotation that nothing closes before another one.
- `Session`: four commands from 22; two are enough to set PWD wrong and use it, three to leave,
  remove and come back. Three directories, one in another. `CdTexts` are all absolute paths of up to
  eight of `/`, `.` and a letter: the shortest path that `SlashKept` excuses and that does go wrong has eight
  (they depend on no state and are compared where an environment has been read); `PathTexts` and `ExitTexts` of four and five characters.
- `ReadLoop`: three lines and three interrupts over eleven texts: one line to be given up, one
  that could be given up wrongly after it and one to see the status; two interrupts may come
  in one turn and one in the next.
- The violation runs have the smallest bounds that show the counterexample.

`CHECK_DEADLOCK FALSE` everywhere: a command that is built, a session with its last command, a shell that has finished its script, or a parse that is
over, stops; a shell that waits for a blocked child stops too, which is what `Terminates`
is for.

### Fairness

`Executor`: `WF_vars(Step(p))` for each process: the kernel schedules every process that can
run. A process blocked in `read`, `write` or `waitpid` has no enabled step, so fairness
asks nothing of it, and a hang is a behaviour that ends. Programs end because they are given finite
work; that is an assumption on programs, not on the shell.
`Parser`: `WF_vars(Next)`: the shell takes its next step, and the input either goes on or ends.
`Expansion`: `WF_vars(Next)`: one thread that does nothing that blocks.
`ReadLoop`: `WF_vars(Shell) /\ WF_vars(Child)`: the kernel runs the shell and its children, and who
is at the terminal types or closes it; nobody has to interrupt anything. `Session` states no
fairness: all its properties are of safety.
In `Parser`, fairness does not ask for an end of input or an interrupt: `MaxInput` bounds the text, and a
document beyond the bound is ended by its delimiter or the input's end.

## 4. What is proved

Every safety property of `Executor`, `Session` and `ReadLoop` that a run checks is a theorem,
for all values of the constants (`ListOrderKept` for lists without newlines), and so are five of the seven of
`Parser` and five of the seven of `Expansion`.

### Executor

For every set of scripts that satisfies `ScriptsAssumption`, any number of processes and pipes, any
pipe capacity and any choice of failing calls (`SizesAssumption`):

| theorem | states | in |
|---|---|---|
| `TypeCorrect` | `Spec => []TypeOK` | `ExecutorProofs` |
| `ChildrenCollected` | `Spec => []NoStrayChildren` | |
| `BuiltinsForked` | `Spec => []BuiltinsInPipelinesForked` | |
| `PipesClosedInWait` | `Spec => []WaitsWithPipesClosed` | |
| `ListPromised` | `Spec => ListPromise`: `Executor` implements `AndOrList` | |
| `StatusIsOfLastCommand` | `Spec => PipelineStatus` | |
| `NextPipelineAgrees` | `Spec => ListOrderKept`, if no list of a script has a newline in it | |
| `EveryPlumbing` | `Spec => []Plumbing` | |
| `GetNextMovesForward` | `get_next` goes forward and stays in the list | `ListOrderProofs` |
| `GetNextIsNextRun` | `get_next` is `NextRun` for every list without newlines | |

None of these safety properties is inductive. `IInv` (in `ExecutorProofs`) adds:

- `Place`: a process that is at a command is at one that exists (needed for types: the
  script is indexed everywhere);
- `Flags`: what `isPipe`, `pid` and `shouldExit` can be at each `pc`: `isPipe` is set from
  the first pipe of a pipeline to its end, so a builtin that runs in place is alone;
- `Closing`: at which `pc` `io_fd` and `pipe_fd` are closed, unless `spilled`;
- `Lifecycle`: `pc[p] = "off"` exactly when p is not live;
- `Parents`: a process has children only while it is live and has a pid to wait for;
- `TopLevel`: the shell itself stays in list 1, the only one `OneLine` is assumed of.

Each conjunct of it has lemmas for the three groups of actions (`Prepare`, `Work`, `Collect`);
`StepInv` puts them together. `ListPromised` uses `IInv`, `GetNextIsNextRun` and
one lemma per way a step changes the shell's place in its list.

`PipelineStatus` speaks of what happened to processes that may have been reaped long ago.
`StatusInv` adds to `IInv`, for each shell p:

- `JobsBehind`: what p forked was forked for a command p has passed or is just leaving, so a
  process forked for the place p is at can only be the last;
- `Flow`: who waits is at the last command and has something to wait for; who was told to leave
  goes straight to the end;
- `Recent`: `pid_to_wait` is a process of p that nobody has reaped before p waits;
- `Decided`: a command that is over has a process, which is `pid_to_wait`, or has none
  and `return_status` says so;
- `Known`: once `pid_to_wait` has been reaped, what was kept is the status it ended with.

`Plumbing` relates the descriptors of a command at work to pipes that other processes made.
`PlumbInv` adds to `StatusInv`: no two pipes are for one place (`OnePlug`) and none is for a place
its shell has not come to (`PlugsBehind`), so that "the pipe before" and "the pipe after" are
unique; live processes have descriptors 0 and 1 and only builtins have any saved (`Standard`);
each process's parent is a shell (`Forked`). Unless `spilled`, `Shelled` follows
`io_fd` and `pipe_fd` through a command in the shell: the neighbour's pipe between commands, after k
redirections what the first k leave, then a builtin's descriptors. `Parented` does so for a child from
`fork` to its program, against the descriptors its parent has.

### Parser

For every set of words, delimiters and operators, lines from either source, texts of any length
and files that may fail to open (`ParserAssumption`, `ParserProofs`; the assumption says that `nl` is an operator
and no word is one):

| theorem | states |
|---|---|
| `TypesKept` | `Spec => []TypeOK` |
| `NothingIsLeftOut` | `Spec => []NothingLeftOut` |
| `DocumentsAreClosed` | `Spec => []DocumentsClosed` |
| `TextDivided` (`InputProofs`) | `Spec => []TokensAsWritten` |
| `BodiesAsWritten` (`InputProofs`) | `Spec => []BodiesMatch` |
| `GrammarIsKept` (`InputProofs`) | `Spec => []GrammarKept` |
| `PathDown` | the right-hand side of a rule that is reduced is on the stack |
| `RuleKept` | a reduction makes a node of the right kind out of nodes of the right kinds |

`ReduceBy` pops as many symbols as its rule has and reads their nodes without a look at what they
are: that this is safe is in the tables alone. `Below` and `Entry` give, for each of the 61 states, the
states it can be entered from and the symbol it is entered with; `Actions` and `Gotos` compare
them with every entry of the tables the code uses, `Rhs` has the right-hand sides, and
`PathDown` follows. `Inv` has one part per thing that can go wrong:

- `Path`: the stack is a path of the automaton and ends in `parse.state`;
- `Bear`: each symbol's node is of the kind that symbol has, nodes refer to the arena, and a
  complete command that is to be run is on top of the stack;
- `Flow`: which token is next: the last one delimited, or, of those put aside, the rest of one line;
- `Saved`: while tokens are put aside, the here-document they wait for is on top of the stack, its
  token is before all of them, and a newline is the last one;
- `Lines`: the lexer is at the end of what has been typed, unless the line is read again as a body;
- `Ends`: the symbol on top ends at the last token the automaton took;
- `Blanks`: with only newlines on the stack there are no nodes, and only newlines since the
  last command that was run (`NothingLeftOut` is its instance at the end);
- `Documents`: what is open is standard input, what nodes hold and the body being read, and a node
  without a descriptor (0, standard input) is the one whose body is next.

`Documents` needs nearly all of the others: `close_heredoc_fds` finds a descriptor only in a node
of the arena, so the node must still be there, be the right one, and no other may hold 0.
It is why a syntax error between a `<<` and its body cannot close standard input, if the line ends
in a newline: the automaton takes no token in between.

`TokensAsWritten` and `BodiesMatch` compare the parser with `AsRead`, which reads what has been typed from
left to right and keeps the delimiters that are due. The parser works in another order: it reads the rest
of a line before the body, once the automaton has taken the delimiter, and afterwards, token by token, hands the
rest to the automaton, which may meet the next `<<` in it. So nothing can be said of one here-document
alone; `Written` (in `InputProofs`) adds to `Inv` a comparison by counting. `Rank(ts, n)` is the number of delimiters
among the first n tokens:

- `Followed`: a `<<` that the automaton has taken is followed by a delimiter, or its state is the one that
  takes nothing else; so what `AsRead` counts as a delimiter is what a rule makes a node of;
- `Counted`: there are as many files as delimiters that the automaton has taken, but for the one whose file is
  still to be made (`Unmade`);
- `BodiesIn`: the k-th body of `AsRead` is in the k-th file, and bodies beyond the files are empty still;
- `DueAfter`: the delimiters that are due in `AsRead` are those of the tokens after the bodies that are over,
  in their order, and a body is being read just when the line of commands has ended and some are due;
- `Owned`: a node's descriptor is that of the file of its own delimiter, or 0 while it waits.

`BodiesMatch` is `Owned` and `BodiesIn` when a list is complete. `DueAfter` is about the tokens
that have been delimited, `Counted` about those that were taken: that both hold over the steps which put tokens
aside and replay them is what a test of one here-document does not show, and why the second
delimiter of a line finds its body after the first one's.

`GrammarKept` compares the tables, which know states, with `Derives`, which knows productions only.
`Derives` is a recursive function over configurations, a form and the number of tokens it is to
derive, and recursion over derivations cannot be unfolded here. What is used of it instead: a set of
configurations that the steps do not leave and that does not contain the end shows that nothing is derived, and one
configuration leads to another when every such set with the first contains the second (`Reaches`). In these
terms a rightmost derivation, read from its end, is a run of the automaton (`GrammarProofs`):

- `At`: each form of a derivation is a path of the automaton, as a stack is, and ends in one state;
- `Lookaheads`, `RuleFollows`: the tokens that may follow in each state, closed under all 44 productions,
  and on each of them the tables shift it or reduce the rule in question, in all 61 states;
- so in a derivation the state and the token ahead decide what comes before: the token was shifted
  (`ShiftDecided`) or the state's rule was reduced (`ReductionDecided`, for every default).

The invariant, `Judged`, is `GrammarKept` and, until there is a verdict, `Parsed` of what the stack spells: the
tokens taken are derived from it (`Backed`), and every program that starts with them and the
one ahead has a derivation that comes by it (`Forced`). A reduction keeps both, on whatever token
its default makes it. Where the tables have an error no such program is left, and the verdict does not
come late either: only ten states can have an error (`Errors`), and in each of them at most a word, and
the parentheses that are open, complete what was taken before to a program (`Completion`), which is
`Viable`. The two together are `ParsedNoFurther`.

### Session and the functions on texts

For every set of environments, commands and directories, with any texts in them
(`SessionAssumption`, `SessionProofs`). Assumed of the world: names of variables are single characters
other than `=`, and `getcwd` gives a directory a name that leads to it from the root, along
directories there are:

| theorem | states |
|---|---|
| `TypesHold` | `Spec => []TypeOK` |
| `NamesAreUnique` | `Spec => []UniqueNames` |
| `FailedCdGoesBack` | `Spec => CdAtomic` |
| `StoreIsImplemented` | `Spec => ImplementsStore`: the list implements the map of `Store` |
| `PwdNamesDirectory` | `Spec => PwdNamesCwd` |
| `ChildFindsTheSame` | `Spec => []NestedKeeps` |
| `CdLandsWhereItLeads` | `Spec => CdLands` |
| `NumbersAreSpecified`, `SearchIsSpecified`, `CanonicalIsSpecified` | the three comparisons of `Texts`, for the texts of any run |

The first invariant (`Inv`) adds to `TypeOK` and `UniqueNames` that while a clean `envp` is being
read no name of the rest is in the list already and PWD, PATH and SHLVL have values where they
are (`Loading`), and that once the shell runs the list has each name once and SHLVL (`Good`).
`FoundInv` is for what is found under a name: all that is kept or left to read is a text
(`TextsOnly`); a PWD that the shell has set is right (`Right`: directories led along it once, and
it leads to the directory of the process or one of them is gone; a removal keeps both, and a `cd` that cannot go
back was in the first case before, so a directory is gone) not when it is read but when the start is over, so the
invariant speaks of `Effective(v)`, what a shell that is still loading will find under v at the
end, which is the list's entry merged with what is left of `envp`. `NestedKeeps` is inductive only with the
same merge: at every turn of the loading loop, what the parent had is what has been loaded or is still to come.

The functions of `Texts` are loops over the characters of a text. `SessionProofs` first proves about them,
for every text (`CharactersAssumption`: the characters the code names are characters):

| theorem | states |
|---|---|
| `NumbersAreRight` | `exit` takes for numbers exactly the texts that are one |
| `PathnameIsFirst` | the search finds the first file that can be executed, else the first file |
| `EntryIsRead` | an entry of `envp` is read back as the name and the value it was written from |
| `CanonicalFormFits` | a canonical form is no longer than its path, which is what `cd` allocates |
| `CanonicalFormIsAbsolute` | with an absolute path no index leaves the buffer |
| `CanonicalFormLeads` | the form leads where the path does and has no `.` or `..` left, but for `DotsMisread` and `SlashKept` |

Each loop is a function from the number of turns to the state. `Induction` is induction up to the
last turn, from the library's natural induction (a property as a *set* of turns, as operators cannot be passed),
and `LoopExists` says such functions exist.
For the last theorem the invariant is `Follows`: after each character of the path, either the
buffer leads where the path read so far does (`Same`), or the first dot of a `..` has been read and the buffer
leads already where the second will (`Half`), or only a last `.` is left (`Over`); together with
what was written there (`Written`: no two slashes in a row, unless one was kept too many).

### Expansion

For every set of lines, values and status over any characters (`ExpansionAssumption`, `LinesAssumption`,
`NamesAssumption`), `ExpansionProofs`:

| theorem | states |
|---|---|
| `ExpansionTypeCorrect` | `Spec => []TypeOK` |
| `RecordedFieldsKept` | `Spec => FieldsKept` |
| `TokensOfEveryLine` | `Spec => []TokensAsSpecified` |
| `DelimitersWithoutQuotes` | `Spec => []DelimitersAsSpecified` |
| `BodyLinesExpanded` | `Spec => []BodiesAsSpecified` |

`ExpInv` has one part for each of the code's data: `LexShape` (the token being built ends where the
lexer stands), `TokensShape`, `WordsShape`, `BufferShape` (the arena ends with a terminator, and
the string at `exp.pos` lies in it) and `Recorded`: each field recorded so far ends, terminator included,
before the part of the arena that is still written. The last one is why nothing that is written
later can reach a recorded field.

Delimiters and bodies are about texts only: for *every* text, `quote_remove` gives what the quotation of
each place says (`QuotesAreRemoved`), and the loop over a line of a here-document gives what
each place of it becomes (`LineIsExpanded`). Both loops are functions of the place where they stand, which go
on from a later one: `PiecesExist` says that there is such a function, and
`DownTo` is the induction, from the end of the text to its beginning. What is claimed of a place holds only where
the loop can stand: outside of any quotation, for `quote_remove`; where no reference that
began before goes on, for the line (`Free`). There, what the places before have made and what is
written from there are together the whole (`Completes`). For quotes the claim is that the
result lists the places that are kept in their order (`Keeps`), which determines it (`KeepsIs`).
`NamesAssumption` says here that `$` is no character of a name (`is_name_body`, `utils/var_utils.c:20`):
otherwise a reference could begin inside the name of another. It says the same of operators, blanks and
quotes, for the tokens.

For the tokens the invariant is `LexRead`, with the two parts a scanner's invariant has. `Placed` says
what the reference, which knows the whole line, thinks of the place where the lexer stands: while a word is
built all its characters belong to words and the one before it does not; while an operator is built
it stands behind a place where one begins; otherwise (`Idle`) it stands outside, at the end of a comment, or
before an operator that ended a word. What the flags and the saved slice do in the code is to
keep this true over quotations, references and comments, of which a rule skips many places at once
(`QuotationSteps`, `ReferenceSteps`, `CommentSteps`). Its last line is about `&`, which is an operator's only
when doubled, and about runs of equal operator characters: the lexer never stands on the second of a pair
without building its first (`Leads`). The other part is that the arena holds exactly the tokens that begin before
the next one will (`Begun`), in their order (`Keeps`).

### Read loop

For every set of texts, any number of lines and interrupts (`ReadLoopAssumption`,
`ReadLoopProofs`):

| theorem | states |
|---|---|
| `LoopTypesHold` | `Spec => []TypeOK` |
| `DroppedStaysDropped` | `Spec => []DroppedForGood` |
| `OnlyFreshInterruptsDrop` | `Spec => DropsAreFresh` |

`Signals` is the invariant for the last two: a pending interrupt is fresh, and a line that was
given up is on its way to the end of its turn with the interrupt still pending, or has
arrived there with status 130. `Typed` is the one for types: it adds that what is left of the text is commands
and that `pos` is a pipeline of the first, for which `GetNextMovesForward` is needed.

## 5. Only model-checked

- Liveness everywhere (`Terminates`, `ComesToAnEnd`): the prover does not treat fairness.
- `ListOrderKept` in subshells of several lines: false in general (`ExecutorNewline`); the theorem
  assumes no newlines, the run has one list with a harmless one.
- Of `Parser`, `ListsAsWritten`: `Yield` is recursive over trees and `NormalForm` over intervals of the text,
  and what such definitions compute for every input is out of the prover's reach. (`AsRead` is recursive
  too, but a function of the length of the text, for which induction is a least counterexample: `UpTo`; and of
  `Derives` only the sets that it does not leave are needed.)
- Of `Expansion`, `ArgvAsSpecified` and `TargetsAsSpecified`: fields are appended, cut in place and
  taken back, so that an invariant would have to say of every offset into the arena which characters of which words have
  become what is there, and what of them is still to be cut.

## 6. Plan

Done, in this order: the executor; the parser with here-documents; lexer and
expansion; variables and directory; the main loop under interrupts; the proofs of section 4. What would
come next:

1. `ListsAsWritten`: with each node the part of the text it is read back as, as data that needs no recursion.
2. `ArgvAsSpecified` of `Expansion`, for words whose values do not split first.

## 7. Not modelled

`echo`, what `env`, `export` and `pwd` print, and the prompt (no state beyond their own
output), `debug/` (compiled only with `-DDEBUG`), the value of the number `exit` gets (`ft_atol`
is in libft), arenas and `libft` (an external submodule, not in the tree), readline. Memory
exhaustion, except in `Session`. Redirections of a subshell, which are opened
without having been expanded, from an arena that does not hold them: what is opened is not defined by the code.
Commands pasted after an `exit` that was refused still run (only `shell_loop` tests
`should_exit`): `ReadLoop` does what the code does and no document says otherwise. The generated tables are modelled as they are; bison is not.
The repository's `README.md:78-87` still lists pipelines, here-documents and signals as
missing; the code is followed, not that list.
