-------------------------------- MODULE Lalr --------------------------------
(* The tables bison made of the grammar (parser/yy_table.c, yy_pact.c,
   rule_dispatch.c) and the three lookups in them: the class of a token, the
   action on a lookahead, the state after a reduction.  A table is a function
   from the indices of the source, and a symbol has the name of the grammar.   *)
EXTENDS Integers, Sequences

\* A table indexed from 0.
Table(s) == [i \in 0 .. Len(s) - 1 |-> s[i + 1]]

SymbolType ==
    [EOF |-> 0, WORD |-> 3, NEWLINE |-> 4, PIPE |-> 5, LESS |-> 6, GREAT |-> 7,
     DLESS |-> 8, DGREAT |-> 9, AND_IF |-> 10, OR_IF |-> 11, OPAR |-> 12, CPAR |-> 13,
     accept |-> 14, program |-> 15, complete_commands |-> 16, and_or |-> 17,
     pipeline |-> 18, command |-> 19, subshell |-> 20, compound_list |-> 21,
     term |-> 22, simple_command |-> 23, cmd_name |-> 24, cmd_word |-> 25,
     cmd_prefix |-> 26, cmd_suffix |-> 27, redirect_list |-> 28, io_redirect |-> 29,
     io_file |-> 30, filename |-> 31, io_here |-> 32, here_end |-> 33,
     newline_list |-> 34, linebreak |-> 35]

Symbols == DOMAIN SymbolType
Terminals == {s \in Symbols : SymbolType[s] < SymbolType.accept}

\* The texts of the operators; "nl" is the newline.
Operators == {"nl", "<<", ">>", "&&", "||", "|", "<", ">", "(", ")"}

\* The class of a token with this text; what is no operator is a word.
ClassifyToken(t) ==
    CASE t = "nl" -> "NEWLINE" [] t = "<<" -> "DLESS" [] t = ">>" -> "DGREAT"
      [] t = "&&" -> "AND_IF"  [] t = "||" -> "OR_IF" [] t = "|" -> "PIPE"
      [] t = "<" -> "LESS"     [] t = ">" -> "GREAT"
      [] t = "(" -> "OPAR"     [] t = ")" -> "CPAR"   [] OTHER -> "WORD"

YyPactNInf == -44
YyLast == 67
YyFinal == 5
NtermOffset == SymbolType.accept

YyTable == Table(<<
    38, 32, 41, 44, 46, 48, 57, 58, 31, 33, 7, 6, 1, 8, 9, 10, 11, 24, 5, 12,
    52, 36, 26, 54, 29, 6, 41, 34, 35, 60, 49, 50, 51, 27, 55, 56, 7, 45, 54, 8,
    9, 10, 11, 39, 59, 12, 8, 9, 10, 11, 42, 0, 0, 8, 9, 10, 11, 53, 0, 0,
    8, 9, 10, 11, 8, 9, 10, 11>>)

YyCheck == Table(<<
    17, 13, 19, 20, 31, 32, 49, 50, 12, 13, 3, 4, 4, 6, 7, 8, 9, 3, 0, 12,
    37, 5, 9, 40, 11, 4, 43, 10, 11, 56, 34, 35, 36, 3, 43, 47, 3, 13, 55, 6,
    7, 8, 9, 3, 51, 12, 6, 7, 8, 9, 3, -1, -1, 6, 7, 8, 9, 3, -1, -1,
    6, 7, 8, 9, 6, 7, 8, 9>>)

YyPact == Table(<<
    8, -44, 18, 21, 33, -44, -44, -44, 14, 14, 30, 14, 8, 8, 17, 16, -44, 58, -44, 40,
    47, -44, -44, -44, -44, -44, -44, -44, -44, -44, 24, 33, 7, -44, 8, 8, 8, 58, -44, -44,
    54, -44, -44, 40, -44, -44, 17, 8, 17, 33, 33, 33, -44, -44, -44, 54, 7, 16, 16, -44,
    17>>)

YyDefAct == Table(<<
    45, 42, 0, 44, 3, 1, 43, 24, 0, 0, 0, 0, 45, 45, 5, 6, 9, 12, 11, 23,
    21, 26, 34, 35, 39, 36, 37, 41, 40, 38, 0, 0, 44, 2, 45, 45, 45, 13, 32, 30,
    22, 28, 25, 20, 27, 14, 18, 15, 4, 0, 0, 0, 33, 31, 29, 19, 16, 7, 8, 10,
    17>>)

YyPGoto == Table(<<
    -44, -44, -44, -27, -43, -7, -44, -44, -44, -44, -44, -44, -44, -9, -44, -17,
    -44, 13, -44, -44, -12, -4>>)

YyDefGoto == Table(<<
    0, 2, 13, 14, 15, 16, 17, 30, 47, 18, 19, 43, 20, 40, 37, 21, 22, 25, 23, 28,
    3, 4>>)

Rule(handler, len, lhs) == [handler |-> handler, len |-> len, lhs |-> lhs]

Rules == Table(<<
    Rule("none", 0, "EOF"), Rule("none", 2, "accept"),
    Rule("program", 3, "program"), Rule("none", 1, "program"),
    Rule("list_append", 3, "complete_commands"), Rule("none", 1, "complete_commands"),
    Rule("none", 1, "and_or"),
    Rule("conditional", 4, "and_or"), Rule("conditional", 4, "and_or"),
    Rule("pipeline_create", 1, "pipeline"), Rule("pipeline_append", 4, "pipeline"),
    Rule("none", 1, "command"), Rule("none", 1, "command"),
    Rule("subshell_redirects", 2, "command"), Rule("subshell", 3, "subshell"),
    Rule("compound_list", 2, "compound_list"), Rule("compound_list", 3, "compound_list"),
    Rule("list_append", 3, "term"), Rule("none", 1, "term"),
    Rule("from_suffix", 3, "simple_command"), Rule("simple", 2, "simple_command"),
    Rule("simple", 1, "simple_command"), Rule("from_suffix", 2, "simple_command"),
    Rule("simple", 1, "simple_command"),
    Rule("from_term", 1, "cmd_name"), Rule("from_term", 1, "cmd_word"),
    Rule("none", 1, "cmd_prefix"), Rule("redir_append", 2, "cmd_prefix"),
    Rule("cmd_suffix", 1, "cmd_suffix"), Rule("cmd_suffix", 2, "cmd_suffix"),
    Rule("cmd_suffix", 1, "cmd_suffix"), Rule("cmd_suffix", 2, "cmd_suffix"),
    Rule("none", 1, "redirect_list"), Rule("redir_append", 2, "redirect_list"),
    Rule("none", 1, "io_redirect"), Rule("none", 1, "io_redirect"),
    Rule("io_file", 2, "io_file"), Rule("io_file", 2, "io_file"),
    Rule("io_file", 2, "io_file"), Rule("from_term", 1, "filename"),
    Rule("io_here", 2, "io_here"), Rule("none", 1, "here_end"),
    Rule("none", 1, "newline_list"), Rule("none", 2, "newline_list"),
    Rule("none", 1, "linebreak"), Rule("none", 0, "linebreak")>>)

\* The entry of YyTable for key in the row that starts at base is valid.
Matches(base, key) == base + key \in 0 .. YyLast /\ YyCheck[base + key] = key

(* What to do in a state with a lookahead: n > 0 shifts to state n, n < 0 reduces
   by rule -n, 0 is a syntax error.                                            *)
Action(state, look) ==
    LET base == YyPact[state]
        key == SymbolType[look]
    IN IF base # YyPactNInf /\ Matches(base, key) THEN YyTable[base + key] ELSE -YyDefAct[state]

\* A slip for Goto: the state that is uncovered makes no difference.
GotoDefault(state, lhs) == YyDefGoto[SymbolType[lhs] - NtermOffset]

\* The state after a reduction to lhs that uncovers state.
Goto(state, lhs) ==
    LET nt == SymbolType[lhs] - NtermOffset
        base == YyPGoto[nt]
    IN IF Matches(base, state) THEN YyTable[base + state] ELSE YyDefGoto[nt]
=============================================================================
