------------------------------ MODULE ParserProofs ------------------------------
(* A command line is parsed with its links in the arenas, to its end or to a point
   where nothing is left behind: TypeOK, NothingLeftOut and DocumentsClosed hold
   in every state that Parser reaches, whatever the words, the delimiters and the
   length of the text.

   The stack is a path of the automaton, so every reduction finds the symbols of
   its rule on it (PathDown); every handler of a rule makes a node of the kind of
   its left-hand side out of nodes of the kinds of its symbols (RuleKept); and
   tokens are put aside from a << to the end of its line only.                   *)
EXTENDS Parser, TLAPS

-------------------------------------------------------------------------------
(* The tables: from where each state is entered, and with what symbol         *)

\* The states of the automaton.
States == 0 .. 60

CommandStarts == {4, 31, 32, 49, 50, 51, 56}
RedirStarts == CommandStarts \cup {17, 19, 20, 37, 40, 43, 55}
BreakStarts == {0, 12, 13, 34, 35, 36, 47}

\* The states from which each state is entered, by a shift or after a reduction.
Below == Table(<<
    {}, BreakStarts, {0}, {0, 12, 34, 35, 36}, {0}, {2}, {3, 32, 56}, CommandStarts,
    RedirStarts, RedirStarts, RedirStarts, RedirStarts, CommandStarts, {4}, {4},
    {4, 31, 32, 56}, {4, 31, 32, 49, 50, 56}, CommandStarts, CommandStarts, CommandStarts,
    CommandStarts, CommandStarts, RedirStarts, RedirStarts, {8, 9, 11}, {8}, {9}, {10}, {10},
    {11}, {12}, {12}, {13}, {13}, {14, 46, 48, 60}, {14, 46, 48, 60}, {15, 57, 58}, {17}, {17},
    {19, 43}, {19}, {19, 43}, {20}, {20}, {20}, {30}, {31}, {31}, {32}, {34}, {35}, {36},
    {37}, {40, 55}, {40, 55}, {43}, {47}, {49}, {50}, {51}, {56}>>)

\* The symbol each state is entered with.
Entry == Table(<<
    "EOF", "NEWLINE", "program", "newline_list", "linebreak", "EOF", "NEWLINE", "WORD",
    "LESS", "GREAT", "DLESS", "DGREAT", "OPAR", "complete_commands", "and_or", "pipeline",
    "command", "subshell", "simple_command", "cmd_name", "cmd_prefix", "io_redirect",
    "io_file", "io_here", "WORD", "filename", "filename", "WORD", "here_end", "filename",
    "compound_list", "linebreak", "newline_list", "linebreak", "AND_IF", "OR_IF", "PIPE",
    "redirect_list", "io_redirect", "WORD", "cmd_suffix", "io_redirect", "WORD", "cmd_word",
    "io_redirect", "CPAR", "and_or", "term", "and_or", "linebreak", "linebreak", "linebreak",
    "io_redirect", "WORD", "io_redirect", "cmd_suffix", "newline_list", "pipeline", "pipeline",
    "command", "and_or">>)

\* State t is entered from s, with symbol x.
Leads(s, t, x) == t \in States /\ s \in Below[t] /\ Entry[t] = x
Lands(s, x) == Leads(s, Goto(s, x), x)

\* The states that have a row in the table of actions, by the place of the row.
LEMMA RowOf ==
    ASSUME NEW s \in States, YyPact[s] # YyPactNInf
    PROVE  \/ YyPact[s] = 7 /\ s \in {32, 56}
           \/ YyPact[s] = 8 /\ s \in {0, 12, 13, 34, 35, 36, 47}
           \/ YyPact[s] = 14 /\ s \in {8, 9, 11}
           \/ YyPact[s] = 16 /\ s \in {15, 57, 58}
           \/ YyPact[s] = 17 /\ s \in {14, 46, 48, 60}
           \/ YyPact[s] = 18 /\ s \in {2}
           \/ YyPact[s] = 21 /\ s \in {3}
           \/ YyPact[s] = 24 /\ s \in {30}
           \/ YyPact[s] = 30 /\ s \in {10}
           \/ YyPact[s] = 33 /\ s \in {4, 31, 49, 50, 51}
           \/ YyPact[s] = 40 /\ s \in {19, 43}
           \/ YyPact[s] = 47 /\ s \in {20}
           \/ YyPact[s] = 54 /\ s \in {40, 55}
           \/ YyPact[s] = 58 /\ s \in {17, 37}
BY SMTT(60) DEF YyPact, YyPactNInf, Table, States

\* What stands in each row.
LEMMA Entries ==
    ASSUME NEW b \in {7, 8, 14, 16, 17, 18, 21, 24, 30, 33, 40, 47, 54, 58}, NEW t \in Terminals, Matches(b, SymbolType[t])
    PROVE  \/ b = 7 /\ <<t, YyTable[b + SymbolType[t]]>> \in
                  {<<"WORD", 7>>, <<"NEWLINE", 6>>, <<"LESS", 8>>, <<"GREAT", 9>>, <<"DLESS", 10>>, <<"DGREAT", 11>>, <<"OPAR", 12>>}
           \/ b = 8 /\ <<t, YyTable[b + SymbolType[t]]>> \in
                  {<<"NEWLINE", 1>>}
           \/ b = 14 /\ <<t, YyTable[b + SymbolType[t]]>> \in
                  {<<"WORD", 24>>}
           \/ b = 16 /\ <<t, YyTable[b + SymbolType[t]]>> \in
                  {<<"PIPE", 36>>}
           \/ b = 17 /\ <<t, YyTable[b + SymbolType[t]]>> \in
                  {<<"AND_IF", 34>>, <<"OR_IF", 35>>}
           \/ b = 18 /\ <<t, YyTable[b + SymbolType[t]]>> \in
                  {<<"EOF", 5>>}
           \/ b = 21 /\ <<t, YyTable[b + SymbolType[t]]>> \in
                  {<<"NEWLINE", 6>>}
           \/ b = 24 /\ <<t, YyTable[b + SymbolType[t]]>> \in
                  {<<"CPAR", 45>>}
           \/ b = 30 /\ <<t, YyTable[b + SymbolType[t]]>> \in
                  {<<"WORD", 27>>}
           \/ b = 33 /\ <<t, YyTable[b + SymbolType[t]]>> \in
                  {<<"WORD", 7>>, <<"LESS", 8>>, <<"GREAT", 9>>, <<"DLESS", 10>>, <<"DGREAT", 11>>, <<"OPAR", 12>>}
           \/ b = 40 /\ <<t, YyTable[b + SymbolType[t]]>> \in
                  {<<"WORD", 39>>, <<"LESS", 8>>, <<"GREAT", 9>>, <<"DLESS", 10>>, <<"DGREAT", 11>>}
           \/ b = 47 /\ <<t, YyTable[b + SymbolType[t]]>> \in
                  {<<"WORD", 42>>, <<"LESS", 8>>, <<"GREAT", 9>>, <<"DLESS", 10>>, <<"DGREAT", 11>>}
           \/ b = 54 /\ <<t, YyTable[b + SymbolType[t]]>> \in
                  {<<"WORD", 53>>, <<"LESS", 8>>, <<"GREAT", 9>>, <<"DLESS", 10>>, <<"DGREAT", 11>>}
           \/ b = 58 /\ <<t, YyTable[b + SymbolType[t]]>> \in
                  {<<"LESS", 8>>, <<"GREAT", 9>>, <<"DLESS", 10>>, <<"DGREAT", 11>>}
<1>1. ASSUME b = 7
      PROVE  \/ t = "WORD" /\ YyTable[7 + SymbolType[t]] = 7
             \/ t = "NEWLINE" /\ YyTable[7 + SymbolType[t]] = 6
             \/ t = "LESS" /\ YyTable[7 + SymbolType[t]] = 8
             \/ t = "GREAT" /\ YyTable[7 + SymbolType[t]] = 9
             \/ t = "DLESS" /\ YyTable[7 + SymbolType[t]] = 10
             \/ t = "DGREAT" /\ YyTable[7 + SymbolType[t]] = 11
             \/ t = "OPAR" /\ YyTable[7 + SymbolType[t]] = 12
    BY <1>1 DEF Terminals, Symbols, SymbolType, Matches, YyCheck, YyTable, Table, YyLast
<1>2. ASSUME b = 8
      PROVE  \/ t = "NEWLINE" /\ YyTable[8 + SymbolType[t]] = 1
    BY <1>2 DEF Terminals, Symbols, SymbolType, Matches, YyCheck, YyTable, Table, YyLast
<1>3. ASSUME b = 14
      PROVE  \/ t = "WORD" /\ YyTable[14 + SymbolType[t]] = 24
    BY <1>3 DEF Terminals, Symbols, SymbolType, Matches, YyCheck, YyTable, Table, YyLast
<1>4. ASSUME b = 16
      PROVE  \/ t = "PIPE" /\ YyTable[16 + SymbolType[t]] = 36
    BY <1>4 DEF Terminals, Symbols, SymbolType, Matches, YyCheck, YyTable, Table, YyLast
<1>5. ASSUME b = 17
      PROVE  \/ t = "AND_IF" /\ YyTable[17 + SymbolType[t]] = 34
             \/ t = "OR_IF" /\ YyTable[17 + SymbolType[t]] = 35
    BY <1>5 DEF Terminals, Symbols, SymbolType, Matches, YyCheck, YyTable, Table, YyLast
<1>6. ASSUME b = 18
      PROVE  \/ t = "EOF" /\ YyTable[18 + SymbolType[t]] = 5
    BY <1>6 DEF Terminals, Symbols, SymbolType, Matches, YyCheck, YyTable, Table, YyLast
<1>7. ASSUME b = 21
      PROVE  \/ t = "NEWLINE" /\ YyTable[21 + SymbolType[t]] = 6
    BY <1>7 DEF Terminals, Symbols, SymbolType, Matches, YyCheck, YyTable, Table, YyLast
<1>8. ASSUME b = 24
      PROVE  \/ t = "CPAR" /\ YyTable[24 + SymbolType[t]] = 45
    BY <1>8 DEF Terminals, Symbols, SymbolType, Matches, YyCheck, YyTable, Table, YyLast
<1>9. ASSUME b = 30
      PROVE  \/ t = "WORD" /\ YyTable[30 + SymbolType[t]] = 27
    BY <1>9 DEF Terminals, Symbols, SymbolType, Matches, YyCheck, YyTable, Table, YyLast
<1>10. ASSUME b = 33
      PROVE  \/ t = "WORD" /\ YyTable[33 + SymbolType[t]] = 7
             \/ t = "LESS" /\ YyTable[33 + SymbolType[t]] = 8
             \/ t = "GREAT" /\ YyTable[33 + SymbolType[t]] = 9
             \/ t = "DLESS" /\ YyTable[33 + SymbolType[t]] = 10
             \/ t = "DGREAT" /\ YyTable[33 + SymbolType[t]] = 11
             \/ t = "OPAR" /\ YyTable[33 + SymbolType[t]] = 12
    BY <1>10 DEF Terminals, Symbols, SymbolType, Matches, YyCheck, YyTable, Table, YyLast
<1>11. ASSUME b = 40
      PROVE  \/ t = "WORD" /\ YyTable[40 + SymbolType[t]] = 39
             \/ t = "LESS" /\ YyTable[40 + SymbolType[t]] = 8
             \/ t = "GREAT" /\ YyTable[40 + SymbolType[t]] = 9
             \/ t = "DLESS" /\ YyTable[40 + SymbolType[t]] = 10
             \/ t = "DGREAT" /\ YyTable[40 + SymbolType[t]] = 11
    BY <1>11 DEF Terminals, Symbols, SymbolType, Matches, YyCheck, YyTable, Table, YyLast
<1>12. ASSUME b = 47
      PROVE  \/ t = "WORD" /\ YyTable[47 + SymbolType[t]] = 42
             \/ t = "LESS" /\ YyTable[47 + SymbolType[t]] = 8
             \/ t = "GREAT" /\ YyTable[47 + SymbolType[t]] = 9
             \/ t = "DLESS" /\ YyTable[47 + SymbolType[t]] = 10
             \/ t = "DGREAT" /\ YyTable[47 + SymbolType[t]] = 11
    BY <1>12 DEF Terminals, Symbols, SymbolType, Matches, YyCheck, YyTable, Table, YyLast
<1>13. ASSUME b = 54
      PROVE  \/ t = "WORD" /\ YyTable[54 + SymbolType[t]] = 53
             \/ t = "LESS" /\ YyTable[54 + SymbolType[t]] = 8
             \/ t = "GREAT" /\ YyTable[54 + SymbolType[t]] = 9
             \/ t = "DLESS" /\ YyTable[54 + SymbolType[t]] = 10
             \/ t = "DGREAT" /\ YyTable[54 + SymbolType[t]] = 11
    BY <1>13 DEF Terminals, Symbols, SymbolType, Matches, YyCheck, YyTable, Table, YyLast
<1>14. ASSUME b = 58
      PROVE  \/ t = "LESS" /\ YyTable[58 + SymbolType[t]] = 8
             \/ t = "GREAT" /\ YyTable[58 + SymbolType[t]] = 9
             \/ t = "DLESS" /\ YyTable[58 + SymbolType[t]] = 10
             \/ t = "DGREAT" /\ YyTable[58 + SymbolType[t]] = 11
    BY <1>14 DEF Terminals, Symbols, SymbolType, Matches, YyCheck, YyTable, Table, YyLast
<1>15. QED
    BY <1>1, <1>2, <1>3, <1>4, <1>5, <1>6, <1>7, <1>8, <1>9, <1>10, <1>11, <1>12, <1>13, <1>14

\* An entry of the table shifts to a state that is entered with the lookahead.
LEMMA ShiftLeads ==
    ASSUME NEW s \in States, NEW t \in Terminals,
           YyPact[s] # YyPactNInf, Matches(YyPact[s], SymbolType[t])
    PROVE  Leads(s, YyTable[YyPact[s] + SymbolType[t]], t)
<1>1. CASE YyPact[s] = 7 /\ s \in {32, 56}
    BY <1>1, Entries DEF Leads, States, Below, Entry, Table, CommandStarts, RedirStarts, BreakStarts
<1>2. CASE YyPact[s] = 8 /\ s \in {0, 12, 13, 34, 35, 36, 47}
    BY <1>2, Entries DEF Leads, States, Below, Entry, Table, CommandStarts, RedirStarts, BreakStarts
<1>3. CASE YyPact[s] = 14 /\ s \in {8, 9, 11}
    BY <1>3, Entries DEF Leads, States, Below, Entry, Table, CommandStarts, RedirStarts, BreakStarts
<1>4. CASE YyPact[s] = 16 /\ s \in {15, 57, 58}
    BY <1>4, Entries DEF Leads, States, Below, Entry, Table, CommandStarts, RedirStarts, BreakStarts
<1>5. CASE YyPact[s] = 17 /\ s \in {14, 46, 48, 60}
    BY <1>5, Entries DEF Leads, States, Below, Entry, Table, CommandStarts, RedirStarts, BreakStarts
<1>6. CASE YyPact[s] = 18 /\ s \in {2}
    BY <1>6, Entries DEF Leads, States, Below, Entry, Table, CommandStarts, RedirStarts, BreakStarts
<1>7. CASE YyPact[s] = 21 /\ s \in {3}
    BY <1>7, Entries DEF Leads, States, Below, Entry, Table, CommandStarts, RedirStarts, BreakStarts
<1>8. CASE YyPact[s] = 24 /\ s \in {30}
    BY <1>8, Entries DEF Leads, States, Below, Entry, Table, CommandStarts, RedirStarts, BreakStarts
<1>9. CASE YyPact[s] = 30 /\ s \in {10}
    BY <1>9, Entries DEF Leads, States, Below, Entry, Table, CommandStarts, RedirStarts, BreakStarts
<1>10. CASE YyPact[s] = 33 /\ s \in {4, 31, 49, 50, 51}
    BY <1>10, Entries DEF Leads, States, Below, Entry, Table, CommandStarts, RedirStarts, BreakStarts
<1>11. CASE YyPact[s] = 40 /\ s \in {19, 43}
    BY <1>11, Entries DEF Leads, States, Below, Entry, Table, CommandStarts, RedirStarts, BreakStarts
<1>12. CASE YyPact[s] = 47 /\ s \in {20}
    BY <1>12, Entries DEF Leads, States, Below, Entry, Table, CommandStarts, RedirStarts, BreakStarts
<1>13. CASE YyPact[s] = 54 /\ s \in {40, 55}
    BY <1>13, Entries DEF Leads, States, Below, Entry, Table, CommandStarts, RedirStarts, BreakStarts
<1>14. CASE YyPact[s] = 58 /\ s \in {17, 37}
    BY <1>14, Entries DEF Leads, States, Below, Entry, Table, CommandStarts, RedirStarts, BreakStarts
<1>15. QED
    BY <1>1, <1>2, <1>3, <1>4, <1>5, <1>6, <1>7, <1>8, <1>9, <1>10, <1>11, <1>12, <1>13, <1>14, RowOf

\* The default action of a state is an error or a rule.
LEMMA Defaults == \A s \in States : YyDefAct[s] \in 0 .. 45
BY SMTT(60) DEF States, YyDefAct, Table

(* In every state and for every lookahead: a shift enters a state with it, anything else
   is the default.                                                              *)
LEMMA Actions ==
    ASSUME NEW s \in States, NEW t \in Terminals
    PROVE  /\ Action(s, t) \in Int
           /\ Action(s, t) > 0 => Leads(s, Action(s, t), t)
           /\ Action(s, t) < 0 => -Action(s, t) = YyDefAct[s] /\ YyDefAct[s] # 0
<1>1. CASE YyPact[s] # YyPactNInf /\ Matches(YyPact[s], SymbolType[t])
    <2>1. Leads(s, YyTable[YyPact[s] + SymbolType[t]], t)
        BY <1>1, ShiftLeads
    <2>2. Action(s, t) = YyTable[YyPact[s] + SymbolType[t]]
        BY <1>1 DEF Action
    <2>3. QED
        BY <2>1, <2>2 DEF Leads, States
<1>2. CASE ~(YyPact[s] # YyPactNInf /\ Matches(YyPact[s], SymbolType[t]))
    <2>1. Action(s, t) = -YyDefAct[s]
        BY <1>2 DEF Action
    <2>2. QED
        BY <2>1, Defaults
<1>3. QED
    BY <1>1, <1>2

\* The entries of the table of states after reductions.
LEMMA GotoValues ==
    /\ \A s \in {0} : Goto(s, "program") = 2
    /\ \A s \in {4} : Goto(s, "complete_commands") = 13
    /\ \A s \in {4} : Goto(s, "and_or") = 14
    /\ \A s \in {31} : Goto(s, "and_or") = 46
    /\ \A s \in {32} : Goto(s, "and_or") = 48
    /\ \A s \in {56} : Goto(s, "and_or") = 60
    /\ \A s \in {4, 31, 32, 56} : Goto(s, "pipeline") = 15
    /\ \A s \in {49} : Goto(s, "pipeline") = 57
    /\ \A s \in {50} : Goto(s, "pipeline") = 58
    /\ \A s \in {4, 31, 32, 49, 50, 56} : Goto(s, "command") = 16
    /\ \A s \in {51} : Goto(s, "command") = 59
    /\ \A s \in {4, 31, 32, 49, 50, 51, 56} : Goto(s, "subshell") = 17
    /\ \A s \in {12} : Goto(s, "compound_list") = 30
    /\ \A s \in {31} : Goto(s, "term") = 47
    /\ \A s \in {4, 31, 32, 49, 50, 51, 56} : Goto(s, "simple_command") = 18
    /\ \A s \in {4, 31, 32, 49, 50, 51, 56} : Goto(s, "cmd_name") = 19
    /\ \A s \in {20} : Goto(s, "cmd_word") = 43
    /\ \A s \in {4, 31, 32, 49, 50, 51, 56} : Goto(s, "cmd_prefix") = 20
    /\ \A s \in {19} : Goto(s, "cmd_suffix") = 40
    /\ \A s \in {43} : Goto(s, "cmd_suffix") = 55
    /\ \A s \in {17} : Goto(s, "redirect_list") = 37
    /\ \A s \in {4, 31, 32, 49, 50, 51, 56} : Goto(s, "io_redirect") = 21
    /\ \A s \in {17} : Goto(s, "io_redirect") = 38
    /\ \A s \in {19, 43} : Goto(s, "io_redirect") = 41
    /\ \A s \in {20} : Goto(s, "io_redirect") = 44
    /\ \A s \in {37} : Goto(s, "io_redirect") = 52
    /\ \A s \in {40, 55} : Goto(s, "io_redirect") = 54
    /\ \A s \in {4, 17, 19, 20, 31, 32, 37, 40, 43, 49, 50, 51, 55, 56} : Goto(s, "io_file") = 22
    /\ \A s \in {8} : Goto(s, "filename") = 25
    /\ \A s \in {9} : Goto(s, "filename") = 26
    /\ \A s \in {11} : Goto(s, "filename") = 29
    /\ \A s \in {4, 17, 19, 20, 31, 32, 37, 40, 43, 49, 50, 51, 55, 56} : Goto(s, "io_here") = 23
    /\ \A s \in {10} : Goto(s, "here_end") = 28
    /\ \A s \in {0, 12, 34, 35, 36} : Goto(s, "newline_list") = 3
    /\ \A s \in {13} : Goto(s, "newline_list") = 32
    /\ \A s \in {47} : Goto(s, "newline_list") = 56
    /\ \A s \in {0} : Goto(s, "linebreak") = 4
    /\ \A s \in {12} : Goto(s, "linebreak") = 31
    /\ \A s \in {13} : Goto(s, "linebreak") = 33
    /\ \A s \in {34} : Goto(s, "linebreak") = 49
    /\ \A s \in {35} : Goto(s, "linebreak") = 50
    /\ \A s \in {36} : Goto(s, "linebreak") = 51
<1> USE DEF Goto, Matches, SymbolType, NtermOffset, YyPGoto, YyDefGoto, YyTable, YyCheck,
           YyLast, Table
<1>1. \A s \in {0} : Goto(s, "program") = 2
    OBVIOUS
<1>2. \A s \in {4} : Goto(s, "complete_commands") = 13
    OBVIOUS
<1>3. \A s \in {4} : Goto(s, "and_or") = 14
    OBVIOUS
<1>4. \A s \in {31} : Goto(s, "and_or") = 46
    OBVIOUS
<1>5. \A s \in {32} : Goto(s, "and_or") = 48
    OBVIOUS
<1>6. \A s \in {56} : Goto(s, "and_or") = 60
    OBVIOUS
<1>7. \A s \in {4, 31, 32, 56} : Goto(s, "pipeline") = 15
    OBVIOUS
<1>8. \A s \in {49} : Goto(s, "pipeline") = 57
    OBVIOUS
<1>9. \A s \in {50} : Goto(s, "pipeline") = 58
    OBVIOUS
<1>10. \A s \in {4, 31, 32, 49, 50, 56} : Goto(s, "command") = 16
    OBVIOUS
<1>11. \A s \in {51} : Goto(s, "command") = 59
    OBVIOUS
<1>12. \A s \in {4, 31, 32, 49, 50, 51, 56} : Goto(s, "subshell") = 17
    OBVIOUS
<1>13. \A s \in {12} : Goto(s, "compound_list") = 30
    OBVIOUS
<1>14. \A s \in {31} : Goto(s, "term") = 47
    OBVIOUS
<1>15. \A s \in {4, 31, 32, 49, 50, 51, 56} : Goto(s, "simple_command") = 18
    OBVIOUS
<1>16. \A s \in {4, 31, 32, 49, 50, 51, 56} : Goto(s, "cmd_name") = 19
    OBVIOUS
<1>17. \A s \in {20} : Goto(s, "cmd_word") = 43
    OBVIOUS
<1>18. \A s \in {4, 31, 32, 49, 50, 51, 56} : Goto(s, "cmd_prefix") = 20
    OBVIOUS
<1>19. \A s \in {19} : Goto(s, "cmd_suffix") = 40
    OBVIOUS
<1>20. \A s \in {43} : Goto(s, "cmd_suffix") = 55
    OBVIOUS
<1>21. \A s \in {17} : Goto(s, "redirect_list") = 37
    OBVIOUS
<1>22. \A s \in {4, 31, 32, 49, 50, 51, 56} : Goto(s, "io_redirect") = 21
    OBVIOUS
<1>23. \A s \in {17} : Goto(s, "io_redirect") = 38
    OBVIOUS
<1>24. \A s \in {19, 43} : Goto(s, "io_redirect") = 41
    OBVIOUS
<1>25. \A s \in {20} : Goto(s, "io_redirect") = 44
    OBVIOUS
<1>26. \A s \in {37} : Goto(s, "io_redirect") = 52
    OBVIOUS
<1>27. \A s \in {40, 55} : Goto(s, "io_redirect") = 54
    OBVIOUS
<1>28. \A s \in {4, 17, 19, 20, 31, 32, 37, 40, 43, 49, 50, 51, 55, 56} : Goto(s, "io_file") = 22
    OBVIOUS
<1>29. \A s \in {8} : Goto(s, "filename") = 25
    OBVIOUS
<1>30. \A s \in {9} : Goto(s, "filename") = 26
    OBVIOUS
<1>31. \A s \in {11} : Goto(s, "filename") = 29
    OBVIOUS
<1>32. \A s \in {4, 17, 19, 20, 31, 32, 37, 40, 43, 49, 50, 51, 55, 56} : Goto(s, "io_here") = 23
    OBVIOUS
<1>33. \A s \in {10} : Goto(s, "here_end") = 28
    OBVIOUS
<1>34. \A s \in {0, 12, 34, 35, 36} : Goto(s, "newline_list") = 3
    OBVIOUS
<1>35. \A s \in {13} : Goto(s, "newline_list") = 32
    OBVIOUS
<1>36. \A s \in {47} : Goto(s, "newline_list") = 56
    OBVIOUS
<1>37. \A s \in {0} : Goto(s, "linebreak") = 4
    OBVIOUS
<1>38. \A s \in {12} : Goto(s, "linebreak") = 31
    OBVIOUS
<1>39. \A s \in {13} : Goto(s, "linebreak") = 33
    OBVIOUS
<1>40. \A s \in {34} : Goto(s, "linebreak") = 49
    OBVIOUS
<1>41. \A s \in {35} : Goto(s, "linebreak") = 50
    OBVIOUS
<1>42. \A s \in {36} : Goto(s, "linebreak") = 51
    OBVIOUS
<1> HIDE DEF Goto, Matches, SymbolType, NtermOffset, YyPGoto, YyDefGoto, YyTable, YyCheck,
           YyLast, Table
<1>0. QED
    BY ONLY <1>1, <1>2, <1>3, <1>4, <1>5, <1>6, <1>7, <1>8, <1>9, <1>10, <1>11, <1>12, <1>13, <1>14, <1>15, <1>16, <1>17, <1>18, <1>19, <1>20, <1>21, <1>22, <1>23, <1>24, <1>25, <1>26, <1>27, <1>28, <1>29, <1>30, <1>31, <1>32, <1>33, <1>34, <1>35, <1>36, <1>37, <1>38, <1>39, <1>40, <1>41, <1>42

\* Each of them is a state that is entered with the left-hand side.
LEMMA GotoLeads ==
    /\ \A s \in {0} : Leads(s, 2, "program")
    /\ \A s \in {4} : Leads(s, 13, "complete_commands")
    /\ \A s \in {4} : Leads(s, 14, "and_or")
    /\ \A s \in {31} : Leads(s, 46, "and_or")
    /\ \A s \in {32} : Leads(s, 48, "and_or")
    /\ \A s \in {56} : Leads(s, 60, "and_or")
    /\ \A s \in {4, 31, 32, 56} : Leads(s, 15, "pipeline")
    /\ \A s \in {49} : Leads(s, 57, "pipeline")
    /\ \A s \in {50} : Leads(s, 58, "pipeline")
    /\ \A s \in {4, 31, 32, 49, 50, 56} : Leads(s, 16, "command")
    /\ \A s \in {51} : Leads(s, 59, "command")
    /\ \A s \in {4, 31, 32, 49, 50, 51, 56} : Leads(s, 17, "subshell")
    /\ \A s \in {12} : Leads(s, 30, "compound_list")
    /\ \A s \in {31} : Leads(s, 47, "term")
    /\ \A s \in {4, 31, 32, 49, 50, 51, 56} : Leads(s, 18, "simple_command")
    /\ \A s \in {4, 31, 32, 49, 50, 51, 56} : Leads(s, 19, "cmd_name")
    /\ \A s \in {20} : Leads(s, 43, "cmd_word")
    /\ \A s \in {4, 31, 32, 49, 50, 51, 56} : Leads(s, 20, "cmd_prefix")
    /\ \A s \in {19} : Leads(s, 40, "cmd_suffix")
    /\ \A s \in {43} : Leads(s, 55, "cmd_suffix")
    /\ \A s \in {17} : Leads(s, 37, "redirect_list")
    /\ \A s \in {4, 31, 32, 49, 50, 51, 56} : Leads(s, 21, "io_redirect")
    /\ \A s \in {17} : Leads(s, 38, "io_redirect")
    /\ \A s \in {19, 43} : Leads(s, 41, "io_redirect")
    /\ \A s \in {20} : Leads(s, 44, "io_redirect")
    /\ \A s \in {37} : Leads(s, 52, "io_redirect")
    /\ \A s \in {40, 55} : Leads(s, 54, "io_redirect")
    /\ \A s \in {4, 17, 19, 20, 31, 32, 37, 40, 43, 49, 50, 51, 55, 56} : Leads(s, 22, "io_file")
    /\ \A s \in {8} : Leads(s, 25, "filename")
    /\ \A s \in {9} : Leads(s, 26, "filename")
    /\ \A s \in {11} : Leads(s, 29, "filename")
    /\ \A s \in {4, 17, 19, 20, 31, 32, 37, 40, 43, 49, 50, 51, 55, 56} : Leads(s, 23, "io_here")
    /\ \A s \in {10} : Leads(s, 28, "here_end")
    /\ \A s \in {0, 12, 34, 35, 36} : Leads(s, 3, "newline_list")
    /\ \A s \in {13} : Leads(s, 32, "newline_list")
    /\ \A s \in {47} : Leads(s, 56, "newline_list")
    /\ \A s \in {0} : Leads(s, 4, "linebreak")
    /\ \A s \in {12} : Leads(s, 31, "linebreak")
    /\ \A s \in {13} : Leads(s, 33, "linebreak")
    /\ \A s \in {34} : Leads(s, 49, "linebreak")
    /\ \A s \in {35} : Leads(s, 50, "linebreak")
    /\ \A s \in {36} : Leads(s, 51, "linebreak")
<1> USE DEF Leads, States, Below, Entry, Table, CommandStarts, RedirStarts, BreakStarts
<1>1. \A s \in {0} : Leads(s, 2, "program")
    OBVIOUS
<1>2. \A s \in {4} : Leads(s, 13, "complete_commands")
    OBVIOUS
<1>3. \A s \in {4} : Leads(s, 14, "and_or")
    OBVIOUS
<1>4. \A s \in {31} : Leads(s, 46, "and_or")
    OBVIOUS
<1>5. \A s \in {32} : Leads(s, 48, "and_or")
    OBVIOUS
<1>6. \A s \in {56} : Leads(s, 60, "and_or")
    OBVIOUS
<1>7. \A s \in {4, 31, 32, 56} : Leads(s, 15, "pipeline")
    OBVIOUS
<1>8. \A s \in {49} : Leads(s, 57, "pipeline")
    OBVIOUS
<1>9. \A s \in {50} : Leads(s, 58, "pipeline")
    OBVIOUS
<1>10. \A s \in {4, 31, 32, 49, 50, 56} : Leads(s, 16, "command")
    OBVIOUS
<1>11. \A s \in {51} : Leads(s, 59, "command")
    OBVIOUS
<1>12. \A s \in {4, 31, 32, 49, 50, 51, 56} : Leads(s, 17, "subshell")
    OBVIOUS
<1>13. \A s \in {12} : Leads(s, 30, "compound_list")
    OBVIOUS
<1>14. \A s \in {31} : Leads(s, 47, "term")
    OBVIOUS
<1>15. \A s \in {4, 31, 32, 49, 50, 51, 56} : Leads(s, 18, "simple_command")
    OBVIOUS
<1>16. \A s \in {4, 31, 32, 49, 50, 51, 56} : Leads(s, 19, "cmd_name")
    OBVIOUS
<1>17. \A s \in {20} : Leads(s, 43, "cmd_word")
    OBVIOUS
<1>18. \A s \in {4, 31, 32, 49, 50, 51, 56} : Leads(s, 20, "cmd_prefix")
    OBVIOUS
<1>19. \A s \in {19} : Leads(s, 40, "cmd_suffix")
    OBVIOUS
<1>20. \A s \in {43} : Leads(s, 55, "cmd_suffix")
    OBVIOUS
<1>21. \A s \in {17} : Leads(s, 37, "redirect_list")
    OBVIOUS
<1>22. \A s \in {4, 31, 32, 49, 50, 51, 56} : Leads(s, 21, "io_redirect")
    OBVIOUS
<1>23. \A s \in {17} : Leads(s, 38, "io_redirect")
    OBVIOUS
<1>24. \A s \in {19, 43} : Leads(s, 41, "io_redirect")
    OBVIOUS
<1>25. \A s \in {20} : Leads(s, 44, "io_redirect")
    OBVIOUS
<1>26. \A s \in {37} : Leads(s, 52, "io_redirect")
    OBVIOUS
<1>27. \A s \in {40, 55} : Leads(s, 54, "io_redirect")
    OBVIOUS
<1>28. \A s \in {4, 17, 19, 20, 31, 32, 37, 40, 43, 49, 50, 51, 55, 56} : Leads(s, 22, "io_file")
    OBVIOUS
<1>29. \A s \in {8} : Leads(s, 25, "filename")
    OBVIOUS
<1>30. \A s \in {9} : Leads(s, 26, "filename")
    OBVIOUS
<1>31. \A s \in {11} : Leads(s, 29, "filename")
    OBVIOUS
<1>32. \A s \in {4, 17, 19, 20, 31, 32, 37, 40, 43, 49, 50, 51, 55, 56} : Leads(s, 23, "io_here")
    OBVIOUS
<1>33. \A s \in {10} : Leads(s, 28, "here_end")
    OBVIOUS
<1>34. \A s \in {0, 12, 34, 35, 36} : Leads(s, 3, "newline_list")
    OBVIOUS
<1>35. \A s \in {13} : Leads(s, 32, "newline_list")
    OBVIOUS
<1>36. \A s \in {47} : Leads(s, 56, "newline_list")
    OBVIOUS
<1>37. \A s \in {0} : Leads(s, 4, "linebreak")
    OBVIOUS
<1>38. \A s \in {12} : Leads(s, 31, "linebreak")
    OBVIOUS
<1>39. \A s \in {13} : Leads(s, 33, "linebreak")
    OBVIOUS
<1>40. \A s \in {34} : Leads(s, 49, "linebreak")
    OBVIOUS
<1>41. \A s \in {35} : Leads(s, 50, "linebreak")
    OBVIOUS
<1>42. \A s \in {36} : Leads(s, 51, "linebreak")
    OBVIOUS
<1> HIDE DEF Leads, States, Below, Entry, Table, CommandStarts, RedirStarts, BreakStarts
<1>0. QED
    BY ONLY <1>1, <1>2, <1>3, <1>4, <1>5, <1>6, <1>7, <1>8, <1>9, <1>10, <1>11, <1>12, <1>13, <1>14, <1>15, <1>16, <1>17, <1>18, <1>19, <1>20, <1>21, <1>22, <1>23, <1>24, <1>25, <1>26, <1>27, <1>28, <1>29, <1>30, <1>31, <1>32, <1>33, <1>34, <1>35, <1>36, <1>37, <1>38, <1>39, <1>40, <1>41, <1>42

\* The states that can be uncovered by a reduction, for each left-hand side.
LEMMA Gotos ==
    /\ \A s \in {0} : Lands(s, "program")
    /\ \A s \in {4} : Lands(s, "complete_commands")
    /\ \A s \in {4, 31, 32, 56} : Lands(s, "and_or")
    /\ \A s \in {4, 31, 32, 49, 50, 56} : Lands(s, "pipeline")
    /\ \A s \in {4, 31, 32, 49, 50, 51, 56} : Lands(s, "command")
    /\ \A s \in {4, 31, 32, 49, 50, 51, 56} : Lands(s, "subshell")
    /\ \A s \in {12} : Lands(s, "compound_list")
    /\ \A s \in {31} : Lands(s, "term")
    /\ \A s \in {4, 31, 32, 49, 50, 51, 56} : Lands(s, "simple_command")
    /\ \A s \in {4, 31, 32, 49, 50, 51, 56} : Lands(s, "cmd_name")
    /\ \A s \in {20} : Lands(s, "cmd_word")
    /\ \A s \in {4, 31, 32, 49, 50, 51, 56} : Lands(s, "cmd_prefix")
    /\ \A s \in {19, 43} : Lands(s, "cmd_suffix")
    /\ \A s \in {17} : Lands(s, "redirect_list")
    /\ \A s \in {4, 17, 19, 20, 31, 32, 37, 40, 43, 49, 50, 51, 55, 56} : Lands(s, "io_redirect")
    /\ \A s \in {4, 17, 19, 20, 31, 32, 37, 40, 43, 49, 50, 51, 55, 56} : Lands(s, "io_file")
    /\ \A s \in {8, 9, 11} : Lands(s, "filename")
    /\ \A s \in {4, 17, 19, 20, 31, 32, 37, 40, 43, 49, 50, 51, 55, 56} : Lands(s, "io_here")
    /\ \A s \in {10} : Lands(s, "here_end")
    /\ \A s \in {0, 12, 13, 34, 35, 36, 47} : Lands(s, "newline_list")
    /\ \A s \in {0, 12, 13, 34, 35, 36} : Lands(s, "linebreak")
BY GotoValues, GotoLeads DEF Lands

\* The right-hand side of each rule.
Rhs == Table(<<
    << >>, <<"program", "EOF">>, <<"linebreak", "complete_commands", "linebreak">>,
    <<"linebreak">>, <<"complete_commands", "newline_list", "and_or">>, <<"and_or">>,
    <<"pipeline">>, <<"and_or", "AND_IF", "linebreak", "pipeline">>,
    <<"and_or", "OR_IF", "linebreak", "pipeline">>, <<"command">>,
    <<"pipeline", "PIPE", "linebreak", "command">>, <<"simple_command">>,
    <<"subshell">>, <<"subshell", "redirect_list">>,
    <<"OPAR", "compound_list", "CPAR">>, <<"linebreak", "term">>,
    <<"linebreak", "term", "newline_list">>, <<"term", "newline_list", "and_or">>,
    <<"and_or">>, <<"cmd_prefix", "cmd_word", "cmd_suffix">>,
    <<"cmd_prefix", "cmd_word">>, <<"cmd_prefix">>, <<"cmd_name", "cmd_suffix">>,
    <<"cmd_name">>, <<"WORD">>, <<"WORD">>, <<"io_redirect">>,
    <<"cmd_prefix", "io_redirect">>, <<"io_redirect">>, <<"cmd_suffix", "io_redirect">>,
    <<"WORD">>, <<"cmd_suffix", "WORD">>, <<"io_redirect">>,
    <<"redirect_list", "io_redirect">>, <<"io_file">>, <<"io_here">>,
    <<"LESS", "filename">>, <<"GREAT", "filename">>, <<"DGREAT", "filename">>,
    <<"WORD">>, <<"DLESS", "here_end">>, <<"WORD">>, <<"NEWLINE">>,
    <<"newline_list", "NEWLINE">>, <<"newline_list">>, << >>>>)

\* On the path below state u are the symbols a, b, ... of a right-hand side, and what is
\* left when they are popped has a state for x.
Fits1(u, x, a) == Entry[u] = a /\ \A q \in Below[u] : Lands(q, x)
Fits2(u, x, a, b) == Entry[u] = b /\ \A q \in Below[u] : Fits1(q, x, a)
Fits3(u, x, a, b, c) == Entry[u] = c /\ \A q \in Below[u] : Fits2(q, x, a, b)
Fits4(u, x, a, b, c, d) == Entry[u] = d /\ \A q \in Below[u] : Fits3(q, x, a, b, c)

Fits(u, r) ==
    LET x == Rules[r].lhs
        w == Rhs[r]
    IN CASE Len(w) = 0 -> Lands(u, x)
         [] Len(w) = 1 -> Fits1(u, x, w[1])
         [] Len(w) = 2 -> Fits2(u, x, w[1], w[2])
         [] Len(w) = 3 -> Fits3(u, x, w[1], w[2], w[3])
         [] Len(w) = 4 -> Fits4(u, x, w[1], w[2], w[3], w[4])

\* Rule r has this handler, left-hand side and right-hand side.
Shape(r, h, x, w) == Rules[r] = Rule(h, Len(w), x) /\ Rhs[r] = w

\* The states that have a rule for a default.
LEMMA RuleOf ==
    ASSUME NEW s \in States \ {YyFinal}, YyDefAct[s] # 0
    PROVE  \/ YyDefAct[s] = 2 /\ s \in {33}
           \/ YyDefAct[s] = 3 /\ s \in {4}
           \/ YyDefAct[s] = 4 /\ s \in {48}
           \/ YyDefAct[s] = 5 /\ s \in {14}
           \/ YyDefAct[s] = 6 /\ s \in {15}
           \/ YyDefAct[s] = 7 /\ s \in {57}
           \/ YyDefAct[s] = 8 /\ s \in {58}
           \/ YyDefAct[s] = 9 /\ s \in {16}
           \/ YyDefAct[s] = 10 /\ s \in {59}
           \/ YyDefAct[s] = 11 /\ s \in {18}
           \/ YyDefAct[s] = 12 /\ s \in {17}
           \/ YyDefAct[s] = 13 /\ s \in {37}
           \/ YyDefAct[s] = 14 /\ s \in {45}
           \/ YyDefAct[s] = 15 /\ s \in {47}
           \/ YyDefAct[s] = 16 /\ s \in {56}
           \/ YyDefAct[s] = 17 /\ s \in {60}
           \/ YyDefAct[s] = 18 /\ s \in {46}
           \/ YyDefAct[s] = 19 /\ s \in {55}
           \/ YyDefAct[s] = 20 /\ s \in {43}
           \/ YyDefAct[s] = 21 /\ s \in {20}
           \/ YyDefAct[s] = 22 /\ s \in {40}
           \/ YyDefAct[s] = 23 /\ s \in {19}
           \/ YyDefAct[s] = 24 /\ s \in {7}
           \/ YyDefAct[s] = 25 /\ s \in {42}
           \/ YyDefAct[s] = 26 /\ s \in {21}
           \/ YyDefAct[s] = 27 /\ s \in {44}
           \/ YyDefAct[s] = 28 /\ s \in {41}
           \/ YyDefAct[s] = 29 /\ s \in {54}
           \/ YyDefAct[s] = 30 /\ s \in {39}
           \/ YyDefAct[s] = 31 /\ s \in {53}
           \/ YyDefAct[s] = 32 /\ s \in {38}
           \/ YyDefAct[s] = 33 /\ s \in {52}
           \/ YyDefAct[s] = 34 /\ s \in {22}
           \/ YyDefAct[s] = 35 /\ s \in {23}
           \/ YyDefAct[s] = 36 /\ s \in {25}
           \/ YyDefAct[s] = 37 /\ s \in {26}
           \/ YyDefAct[s] = 38 /\ s \in {29}
           \/ YyDefAct[s] = 39 /\ s \in {24}
           \/ YyDefAct[s] = 40 /\ s \in {28}
           \/ YyDefAct[s] = 41 /\ s \in {27}
           \/ YyDefAct[s] = 42 /\ s \in {1}
           \/ YyDefAct[s] = 43 /\ s \in {6}
           \/ YyDefAct[s] = 44 /\ s \in {3, 32}
           \/ YyDefAct[s] = 45 /\ s \in {0, 12, 13, 34, 35, 36}
BY SMTT(60) DEF YyDefAct, YyFinal, Table, States

\* Rules 2 to 11.
LEMMA Rules2To11 ==
    /\ Shape(2, "program", "program", <<"linebreak", "complete_commands", "linebreak">>)
    /\ Shape(3, "none", "program", <<"linebreak">>)
    /\ Shape(4, "list_append", "complete_commands", <<"complete_commands", "newline_list", "and_or">>)
    /\ Shape(5, "none", "complete_commands", <<"and_or">>)
    /\ Shape(6, "none", "and_or", <<"pipeline">>)
    /\ Shape(7, "conditional", "and_or", <<"and_or", "AND_IF", "linebreak", "pipeline">>)
    /\ Shape(8, "conditional", "and_or", <<"and_or", "OR_IF", "linebreak", "pipeline">>)
    /\ Shape(9, "pipeline_create", "pipeline", <<"command">>)
    /\ Shape(10, "pipeline_append", "pipeline", <<"pipeline", "PIPE", "linebreak", "command">>)
    /\ Shape(11, "none", "command", <<"simple_command">>)
BY DEF Shape, Rules, Rule, Rhs, Table

\* Rules 12 to 21.
LEMMA Rules12To21 ==
    /\ Shape(12, "none", "command", <<"subshell">>)
    /\ Shape(13, "subshell_redirects", "command", <<"subshell", "redirect_list">>)
    /\ Shape(14, "subshell", "subshell", <<"OPAR", "compound_list", "CPAR">>)
    /\ Shape(15, "compound_list", "compound_list", <<"linebreak", "term">>)
    /\ Shape(16, "compound_list", "compound_list", <<"linebreak", "term", "newline_list">>)
    /\ Shape(17, "list_append", "term", <<"term", "newline_list", "and_or">>)
    /\ Shape(18, "none", "term", <<"and_or">>)
    /\ Shape(19, "from_suffix", "simple_command", <<"cmd_prefix", "cmd_word", "cmd_suffix">>)
    /\ Shape(20, "simple", "simple_command", <<"cmd_prefix", "cmd_word">>)
    /\ Shape(21, "simple", "simple_command", <<"cmd_prefix">>)
BY DEF Shape, Rules, Rule, Rhs, Table

\* Rules 22 to 31.
LEMMA Rules22To31 ==
    /\ Shape(22, "from_suffix", "simple_command", <<"cmd_name", "cmd_suffix">>)
    /\ Shape(23, "simple", "simple_command", <<"cmd_name">>)
    /\ Shape(24, "from_term", "cmd_name", <<"WORD">>)
    /\ Shape(25, "from_term", "cmd_word", <<"WORD">>)
    /\ Shape(26, "none", "cmd_prefix", <<"io_redirect">>)
    /\ Shape(27, "redir_append", "cmd_prefix", <<"cmd_prefix", "io_redirect">>)
    /\ Shape(28, "cmd_suffix", "cmd_suffix", <<"io_redirect">>)
    /\ Shape(29, "cmd_suffix", "cmd_suffix", <<"cmd_suffix", "io_redirect">>)
    /\ Shape(30, "cmd_suffix", "cmd_suffix", <<"WORD">>)
    /\ Shape(31, "cmd_suffix", "cmd_suffix", <<"cmd_suffix", "WORD">>)
BY DEF Shape, Rules, Rule, Rhs, Table

\* Rules 32 to 39.
LEMMA Rules32To39 ==
    /\ Shape(32, "none", "redirect_list", <<"io_redirect">>)
    /\ Shape(33, "redir_append", "redirect_list", <<"redirect_list", "io_redirect">>)
    /\ Shape(34, "none", "io_redirect", <<"io_file">>)
    /\ Shape(35, "none", "io_redirect", <<"io_here">>)
    /\ Shape(36, "io_file", "io_file", <<"LESS", "filename">>)
    /\ Shape(37, "io_file", "io_file", <<"GREAT", "filename">>)
    /\ Shape(38, "io_file", "io_file", <<"DGREAT", "filename">>)
    /\ Shape(39, "from_term", "filename", <<"WORD">>)
BY DEF Shape, Rules, Rule, Rhs, Table

\* Rules 40 to 45.
LEMMA Rules40To45 ==
    /\ Shape(40, "io_here", "io_here", <<"DLESS", "here_end">>)
    /\ Shape(41, "none", "here_end", <<"WORD">>)
    /\ Shape(42, "none", "newline_list", <<"NEWLINE">>)
    /\ Shape(43, "none", "newline_list", <<"newline_list", "NEWLINE">>)
    /\ Shape(44, "none", "linebreak", <<"newline_list">>)
    /\ Shape(45, "none", "linebreak", << >>)
BY DEF Shape, Rules, Rule, Rhs, Table

\* The states of rules 2 to 11.
LEMMA Fits2To11 ==
    /\ Fits3(33, "program", "linebreak", "complete_commands", "linebreak")
    /\ Fits1(4, "program", "linebreak")
    /\ Fits3(48, "complete_commands", "complete_commands", "newline_list", "and_or")
    /\ Fits1(14, "complete_commands", "and_or")
    /\ Fits1(15, "and_or", "pipeline")
    /\ Fits4(57, "and_or", "and_or", "AND_IF", "linebreak", "pipeline")
    /\ Fits4(58, "and_or", "and_or", "OR_IF", "linebreak", "pipeline")
    /\ Fits1(16, "pipeline", "command")
    /\ Fits4(59, "pipeline", "pipeline", "PIPE", "linebreak", "command")
    /\ Fits1(18, "command", "simple_command")
<1> USE Gotos DEF Fits1, Fits2, Fits3, Fits4, Below, Entry, Table, CommandStarts,
           RedirStarts, BreakStarts
<1>1. Fits3(33, "program", "linebreak", "complete_commands", "linebreak")
    OBVIOUS
<1>2. Fits1(4, "program", "linebreak")
    OBVIOUS
<1>3. Fits3(48, "complete_commands", "complete_commands", "newline_list", "and_or")
    OBVIOUS
<1>4. Fits1(14, "complete_commands", "and_or")
    OBVIOUS
<1>5. Fits1(15, "and_or", "pipeline")
    OBVIOUS
<1>6. Fits4(57, "and_or", "and_or", "AND_IF", "linebreak", "pipeline")
    OBVIOUS
<1>7. Fits4(58, "and_or", "and_or", "OR_IF", "linebreak", "pipeline")
    OBVIOUS
<1>8. Fits1(16, "pipeline", "command")
    OBVIOUS
<1>9. Fits4(59, "pipeline", "pipeline", "PIPE", "linebreak", "command")
    OBVIOUS
<1>10. Fits1(18, "command", "simple_command")
    OBVIOUS
<1>0. QED
    BY ONLY <1>1, <1>2, <1>3, <1>4, <1>5, <1>6, <1>7, <1>8, <1>9, <1>10

\* The states of rules 12 to 21.
LEMMA Fits12To21 ==
    /\ Fits1(17, "command", "subshell")
    /\ Fits2(37, "command", "subshell", "redirect_list")
    /\ Fits3(45, "subshell", "OPAR", "compound_list", "CPAR")
    /\ Fits2(47, "compound_list", "linebreak", "term")
    /\ Fits3(56, "compound_list", "linebreak", "term", "newline_list")
    /\ Fits3(60, "term", "term", "newline_list", "and_or")
    /\ Fits1(46, "term", "and_or")
    /\ Fits3(55, "simple_command", "cmd_prefix", "cmd_word", "cmd_suffix")
    /\ Fits2(43, "simple_command", "cmd_prefix", "cmd_word")
    /\ Fits1(20, "simple_command", "cmd_prefix")
<1> USE Gotos DEF Fits1, Fits2, Fits3, Fits4, Below, Entry, Table, CommandStarts,
           RedirStarts, BreakStarts
<1>1. Fits1(17, "command", "subshell")
    OBVIOUS
<1>2. Fits2(37, "command", "subshell", "redirect_list")
    OBVIOUS
<1>3. Fits3(45, "subshell", "OPAR", "compound_list", "CPAR")
    OBVIOUS
<1>4. Fits2(47, "compound_list", "linebreak", "term")
    OBVIOUS
<1>5. Fits3(56, "compound_list", "linebreak", "term", "newline_list")
    OBVIOUS
<1>6. Fits3(60, "term", "term", "newline_list", "and_or")
    OBVIOUS
<1>7. Fits1(46, "term", "and_or")
    OBVIOUS
<1>8. Fits3(55, "simple_command", "cmd_prefix", "cmd_word", "cmd_suffix")
    OBVIOUS
<1>9. Fits2(43, "simple_command", "cmd_prefix", "cmd_word")
    OBVIOUS
<1>10. Fits1(20, "simple_command", "cmd_prefix")
    OBVIOUS
<1>0. QED
    BY ONLY <1>1, <1>2, <1>3, <1>4, <1>5, <1>6, <1>7, <1>8, <1>9, <1>10

\* The states of rules 22 to 31.
LEMMA Fits22To31 ==
    /\ Fits2(40, "simple_command", "cmd_name", "cmd_suffix")
    /\ Fits1(19, "simple_command", "cmd_name")
    /\ Fits1(7, "cmd_name", "WORD")
    /\ Fits1(42, "cmd_word", "WORD")
    /\ Fits1(21, "cmd_prefix", "io_redirect")
    /\ Fits2(44, "cmd_prefix", "cmd_prefix", "io_redirect")
    /\ Fits1(41, "cmd_suffix", "io_redirect")
    /\ Fits2(54, "cmd_suffix", "cmd_suffix", "io_redirect")
    /\ Fits1(39, "cmd_suffix", "WORD")
    /\ Fits2(53, "cmd_suffix", "cmd_suffix", "WORD")
<1> USE Gotos DEF Fits1, Fits2, Fits3, Fits4, Below, Entry, Table, CommandStarts,
           RedirStarts, BreakStarts
<1>1. Fits2(40, "simple_command", "cmd_name", "cmd_suffix")
    OBVIOUS
<1>2. Fits1(19, "simple_command", "cmd_name")
    OBVIOUS
<1>3. Fits1(7, "cmd_name", "WORD")
    OBVIOUS
<1>4. Fits1(42, "cmd_word", "WORD")
    OBVIOUS
<1>5. Fits1(21, "cmd_prefix", "io_redirect")
    OBVIOUS
<1>6. Fits2(44, "cmd_prefix", "cmd_prefix", "io_redirect")
    OBVIOUS
<1>7. Fits1(41, "cmd_suffix", "io_redirect")
    OBVIOUS
<1>8. Fits2(54, "cmd_suffix", "cmd_suffix", "io_redirect")
    OBVIOUS
<1>9. Fits1(39, "cmd_suffix", "WORD")
    OBVIOUS
<1>10. Fits2(53, "cmd_suffix", "cmd_suffix", "WORD")
    OBVIOUS
<1>0. QED
    BY ONLY <1>1, <1>2, <1>3, <1>4, <1>5, <1>6, <1>7, <1>8, <1>9, <1>10

\* The states of rules 32 to 39.
LEMMA Fits32To39 ==
    /\ Fits1(38, "redirect_list", "io_redirect")
    /\ Fits2(52, "redirect_list", "redirect_list", "io_redirect")
    /\ Fits1(22, "io_redirect", "io_file")
    /\ Fits1(23, "io_redirect", "io_here")
    /\ Fits2(25, "io_file", "LESS", "filename")
    /\ Fits2(26, "io_file", "GREAT", "filename")
    /\ Fits2(29, "io_file", "DGREAT", "filename")
    /\ Fits1(24, "filename", "WORD")
<1> USE Gotos DEF Fits1, Fits2, Fits3, Fits4, Below, Entry, Table, CommandStarts,
           RedirStarts, BreakStarts
<1>1. Fits1(38, "redirect_list", "io_redirect")
    OBVIOUS
<1>2. Fits2(52, "redirect_list", "redirect_list", "io_redirect")
    OBVIOUS
<1>3. Fits1(22, "io_redirect", "io_file")
    OBVIOUS
<1>4. Fits1(23, "io_redirect", "io_here")
    OBVIOUS
<1>5. Fits2(25, "io_file", "LESS", "filename")
    OBVIOUS
<1>6. Fits2(26, "io_file", "GREAT", "filename")
    OBVIOUS
<1>7. Fits2(29, "io_file", "DGREAT", "filename")
    OBVIOUS
<1>8. Fits1(24, "filename", "WORD")
    OBVIOUS
<1>0. QED
    BY ONLY <1>1, <1>2, <1>3, <1>4, <1>5, <1>6, <1>7, <1>8

\* The states of rules 40 to 45.
LEMMA Fits40To45 ==
    /\ Fits2(28, "io_here", "DLESS", "here_end")
    /\ Fits1(27, "here_end", "WORD")
    /\ Fits1(1, "newline_list", "NEWLINE")
    /\ Fits2(6, "newline_list", "newline_list", "NEWLINE")
    /\ Fits1(3, "linebreak", "newline_list")
    /\ Fits1(32, "linebreak", "newline_list")
    /\ Lands(0, "linebreak")
    /\ Lands(12, "linebreak")
    /\ Lands(13, "linebreak")
    /\ Lands(34, "linebreak")
    /\ Lands(35, "linebreak")
    /\ Lands(36, "linebreak")
<1> USE Gotos DEF Fits1, Fits2, Fits3, Fits4, Below, Entry, Table, CommandStarts,
           RedirStarts, BreakStarts
<1>1. Fits2(28, "io_here", "DLESS", "here_end")
    OBVIOUS
<1>2. Fits1(27, "here_end", "WORD")
    OBVIOUS
<1>3. Fits1(1, "newline_list", "NEWLINE")
    OBVIOUS
<1>4. Fits2(6, "newline_list", "newline_list", "NEWLINE")
    OBVIOUS
<1>5. Fits1(3, "linebreak", "newline_list")
    OBVIOUS
<1>6. Fits1(32, "linebreak", "newline_list")
    OBVIOUS
<1>7. Lands(0, "linebreak")
    OBVIOUS
<1>8. Lands(12, "linebreak")
    OBVIOUS
<1>9. Lands(13, "linebreak")
    OBVIOUS
<1>10. Lands(34, "linebreak")
    OBVIOUS
<1>11. Lands(35, "linebreak")
    OBVIOUS
<1>12. Lands(36, "linebreak")
    OBVIOUS
<1>0. QED
    BY ONLY <1>1, <1>2, <1>3, <1>4, <1>5, <1>6, <1>7, <1>8, <1>9, <1>10, <1>11, <1>12

\* Every state that reduces by default does so over the right-hand side of its rule.
LEMMA Reductions ==
    ASSUME NEW s \in States \ {YyFinal}, YyDefAct[s] # 0
    PROVE  YyDefAct[s] \in 2 .. 45 /\ Fits(s, YyDefAct[s])
<1>1. CASE YyDefAct[s] = 2 /\ s \in {33}
    BY <1>1, Rules2To11, Fits2To11 DEF Fits, Shape, Rule
<1>2. CASE YyDefAct[s] = 3 /\ s \in {4}
    BY <1>2, Rules2To11, Fits2To11 DEF Fits, Shape, Rule
<1>3. CASE YyDefAct[s] = 4 /\ s \in {48}
    BY <1>3, Rules2To11, Fits2To11 DEF Fits, Shape, Rule
<1>4. CASE YyDefAct[s] = 5 /\ s \in {14}
    BY <1>4, Rules2To11, Fits2To11 DEF Fits, Shape, Rule
<1>5. CASE YyDefAct[s] = 6 /\ s \in {15}
    BY <1>5, Rules2To11, Fits2To11 DEF Fits, Shape, Rule
<1>6. CASE YyDefAct[s] = 7 /\ s \in {57}
    BY <1>6, Rules2To11, Fits2To11 DEF Fits, Shape, Rule
<1>7. CASE YyDefAct[s] = 8 /\ s \in {58}
    BY <1>7, Rules2To11, Fits2To11 DEF Fits, Shape, Rule
<1>8. CASE YyDefAct[s] = 9 /\ s \in {16}
    BY <1>8, Rules2To11, Fits2To11 DEF Fits, Shape, Rule
<1>9. CASE YyDefAct[s] = 10 /\ s \in {59}
    BY <1>9, Rules2To11, Fits2To11 DEF Fits, Shape, Rule
<1>10. CASE YyDefAct[s] = 11 /\ s \in {18}
    BY <1>10, Rules2To11, Fits2To11 DEF Fits, Shape, Rule
<1>11. CASE YyDefAct[s] = 12 /\ s \in {17}
    BY <1>11, Rules12To21, Fits12To21 DEF Fits, Shape, Rule
<1>12. CASE YyDefAct[s] = 13 /\ s \in {37}
    BY <1>12, Rules12To21, Fits12To21 DEF Fits, Shape, Rule
<1>13. CASE YyDefAct[s] = 14 /\ s \in {45}
    BY <1>13, Rules12To21, Fits12To21 DEF Fits, Shape, Rule
<1>14. CASE YyDefAct[s] = 15 /\ s \in {47}
    BY <1>14, Rules12To21, Fits12To21 DEF Fits, Shape, Rule
<1>15. CASE YyDefAct[s] = 16 /\ s \in {56}
    BY <1>15, Rules12To21, Fits12To21 DEF Fits, Shape, Rule
<1>16. CASE YyDefAct[s] = 17 /\ s \in {60}
    BY <1>16, Rules12To21, Fits12To21 DEF Fits, Shape, Rule
<1>17. CASE YyDefAct[s] = 18 /\ s \in {46}
    BY <1>17, Rules12To21, Fits12To21 DEF Fits, Shape, Rule
<1>18. CASE YyDefAct[s] = 19 /\ s \in {55}
    BY <1>18, Rules12To21, Fits12To21 DEF Fits, Shape, Rule
<1>19. CASE YyDefAct[s] = 20 /\ s \in {43}
    BY <1>19, Rules12To21, Fits12To21 DEF Fits, Shape, Rule
<1>20. CASE YyDefAct[s] = 21 /\ s \in {20}
    BY <1>20, Rules12To21, Fits12To21 DEF Fits, Shape, Rule
<1>21. CASE YyDefAct[s] = 22 /\ s \in {40}
    BY <1>21, Rules22To31, Fits22To31 DEF Fits, Shape, Rule
<1>22. CASE YyDefAct[s] = 23 /\ s \in {19}
    BY <1>22, Rules22To31, Fits22To31 DEF Fits, Shape, Rule
<1>23. CASE YyDefAct[s] = 24 /\ s \in {7}
    BY <1>23, Rules22To31, Fits22To31 DEF Fits, Shape, Rule
<1>24. CASE YyDefAct[s] = 25 /\ s \in {42}
    BY <1>24, Rules22To31, Fits22To31 DEF Fits, Shape, Rule
<1>25. CASE YyDefAct[s] = 26 /\ s \in {21}
    BY <1>25, Rules22To31, Fits22To31 DEF Fits, Shape, Rule
<1>26. CASE YyDefAct[s] = 27 /\ s \in {44}
    BY <1>26, Rules22To31, Fits22To31 DEF Fits, Shape, Rule
<1>27. CASE YyDefAct[s] = 28 /\ s \in {41}
    BY <1>27, Rules22To31, Fits22To31 DEF Fits, Shape, Rule
<1>28. CASE YyDefAct[s] = 29 /\ s \in {54}
    BY <1>28, Rules22To31, Fits22To31 DEF Fits, Shape, Rule
<1>29. CASE YyDefAct[s] = 30 /\ s \in {39}
    BY <1>29, Rules22To31, Fits22To31 DEF Fits, Shape, Rule
<1>30. CASE YyDefAct[s] = 31 /\ s \in {53}
    BY <1>30, Rules22To31, Fits22To31 DEF Fits, Shape, Rule
<1>31. CASE YyDefAct[s] = 32 /\ s \in {38}
    BY <1>31, Rules32To39, Fits32To39 DEF Fits, Shape, Rule
<1>32. CASE YyDefAct[s] = 33 /\ s \in {52}
    BY <1>32, Rules32To39, Fits32To39 DEF Fits, Shape, Rule
<1>33. CASE YyDefAct[s] = 34 /\ s \in {22}
    BY <1>33, Rules32To39, Fits32To39 DEF Fits, Shape, Rule
<1>34. CASE YyDefAct[s] = 35 /\ s \in {23}
    BY <1>34, Rules32To39, Fits32To39 DEF Fits, Shape, Rule
<1>35. CASE YyDefAct[s] = 36 /\ s \in {25}
    BY <1>35, Rules32To39, Fits32To39 DEF Fits, Shape, Rule
<1>36. CASE YyDefAct[s] = 37 /\ s \in {26}
    BY <1>36, Rules32To39, Fits32To39 DEF Fits, Shape, Rule
<1>37. CASE YyDefAct[s] = 38 /\ s \in {29}
    BY <1>37, Rules32To39, Fits32To39 DEF Fits, Shape, Rule
<1>38. CASE YyDefAct[s] = 39 /\ s \in {24}
    BY <1>38, Rules32To39, Fits32To39 DEF Fits, Shape, Rule
<1>39. CASE YyDefAct[s] = 40 /\ s \in {28}
    BY <1>39, Rules40To45, Fits40To45 DEF Fits, Shape, Rule
<1>40. CASE YyDefAct[s] = 41 /\ s \in {27}
    BY <1>40, Rules40To45, Fits40To45 DEF Fits, Shape, Rule
<1>41. CASE YyDefAct[s] = 42 /\ s \in {1}
    BY <1>41, Rules40To45, Fits40To45 DEF Fits, Shape, Rule
<1>42. CASE YyDefAct[s] = 43 /\ s \in {6}
    BY <1>42, Rules40To45, Fits40To45 DEF Fits, Shape, Rule
<1>43. CASE YyDefAct[s] = 44 /\ s \in {3, 32}
    BY <1>43, Rules40To45, Fits40To45 DEF Fits, Shape, Rule
<1>44. CASE YyDefAct[s] = 45 /\ s \in {0, 12, 13, 34, 35, 36}
    BY <1>44, Rules40To45, Fits40To45 DEF Fits, Shape, Rule
<1>0. QED
    BY RuleOf, <1>1, <1>2, <1>3, <1>4, <1>5, <1>6, <1>7, <1>8, <1>9, <1>10, <1>11, <1>12, <1>13, <1>14, <1>15, <1>16, <1>17, <1>18, <1>19, <1>20, <1>21, <1>22, <1>23, <1>24, <1>25, <1>26, <1>27, <1>28, <1>29, <1>30, <1>31, <1>32, <1>33, <1>34, <1>35, <1>36, <1>37, <1>38, <1>39, <1>40, <1>41, <1>42, <1>43, <1>44

-------------------------------------------------------------------------------
(* The node arena                                                             *)

(* What each symbol with a node has for a node.                                *)
Pipelines == {"pipeline", "and_or", "term", "compound_list"}
Commands == {"command", "subshell", "simple_command", "cmd_suffix"}
Arguments == {"cmd_name", "cmd_word"}
Redirections == {"redirect_list", "cmd_prefix", "io_redirect", "io_file", "filename", "io_here"}
Bearing == Pipelines \cup Commands \cup Arguments \cup Redirections

Kind(x) ==
    IF x \in Pipelines THEN "pipeline"
    ELSE IF x \in Commands THEN "command"
    ELSE IF x \in Arguments THEN "arg" ELSE "redir"

\* The nodes of an arena of n, where t tokens and d documents have been read.
NodeSet(n, t, d) ==
    [type : NodeTypes, flag : NodeFlags, next : 0 .. n, head : 0 .. n, redirs : 0 .. n,
     token : 0 .. t, fd : -1 .. d]
Arena(ns, t, d) == ns \in Seq(NodeSet(Len(ns), t, d))

\* The node of a symbol is one of its kind.
Carries(ns, x, n) ==
    IF x \in Bearing
    THEN /\ n \in 1 .. Len(ns) /\ ns[n].type = Kind(x)
         /\ x \in {"pipeline", "filename"} => ns[n].flag # "DLESS"
    ELSE n = 0

(* What happens to the nodes an arena had: kind and descriptor are kept, and none
   becomes or ceases to be a here-document's; new nodes are none.               *)
Grows(ns, ms) ==
    /\ Len(ns) <= Len(ms)
    /\ \A i \in 1 .. Len(ns) : /\ ms[i].type = ns[i].type /\ ms[i].fd = ns[i].fd
                               /\ ms[i].token = ns[i].token
                               /\ (ms[i].flag = "DLESS") <=> (ns[i].flag = "DLESS")
    /\ \A i \in (Len(ns) + 1) .. Len(ms) : ms[i].fd = 0 /\ ms[i].flag # "DLESS"

\* One field of one node is set anew.
WithNext(ns, x, v) == [ns EXCEPT ![x].next = v]
WithHead(ns, x, v) == [ns EXCEPT ![x].head = v]
WithRedirs(ns, x, v) == [ns EXCEPT ![x].redirs = v]
WithFlag(ns, x, v) == [ns EXCEPT ![x].flag = v]

\* A node is replaced.
WithNode(ns, x, y) == [ns EXCEPT ![x] = y]

\* One arena becomes another.
Turned(ns, ms, t, d) == Arena(ms, t, d) /\ Grows(ns, ms)

\* Symbols without a node.
LEMMA NoNode ==
    \A x \in Symbols :
        (x \in Terminals \/ x \in {"program", "complete_commands", "linebreak", "newline_list",
                                  "here_end", "accept"}) => x \notin Bearing
BY DEF Bearing, Pipelines, Commands, Arguments, Redirections, Symbols, Terminals, SymbolType

\* What is kept is kept by two steps.
LEMMA GrowsOn ==
    ASSUME NEW ns, NEW ms, NEW os, NEW t \in Nat, NEW d \in Nat, Arena(ns, t, d),
           Turned(ns, ms, t, d), Turned(ms, os, t, d)
    PROVE  Turned(ns, os, t, d)
<1>1. Len(ns) \in Nat /\ Len(ms) \in Nat /\ Len(os) \in Nat
    BY DEF Turned, Arena
<1>2. Len(ns) <= Len(ms) /\ Len(ms) <= Len(os)
    BY DEF Turned, Grows
<1>3. ASSUME NEW i \in 1 .. Len(ns)
      PROVE  /\ os[i].type = ns[i].type /\ os[i].fd = ns[i].fd
             /\ os[i].token = ns[i].token
             /\ (os[i].flag = "DLESS") <=> (ns[i].flag = "DLESS")
    <2>1. i \in 1 .. Len(ms)
        BY <1>1, <1>2
    <2>2. QED
        BY <2>1 DEF Turned, Grows
<1>4. ASSUME NEW i \in (Len(ns) + 1) .. Len(os)
      PROVE  os[i].fd = 0 /\ os[i].flag # "DLESS"
    <2>1. i \in (Len(ns) + 1) .. Len(ms) \/ i \in (Len(ms) + 1) .. Len(os)
        BY <1>1, <1>2
    <2>2. QED
        BY <2>1 DEF Turned, Grows
<1>5. Grows(ns, os)
    BY <1>1, <1>2, <1>3, <1>4 DEF Grows
<1>6. QED
    BY <1>5 DEF Turned

\* A symbol still has its node when the arena has grown.
LEMMA CarriesOn ==
    ASSUME NEW ns, NEW ms, NEW t \in Nat, NEW d \in Nat, Arena(ns, t, d), Turned(ns, ms, t, d),
           NEW x, NEW n, Carries(ns, x, n)
    PROVE  Carries(ms, x, n)
<1>1. Len(ns) \in Nat /\ Len(ms) \in Nat
    BY DEF Turned, Arena
<1>2. QED
    BY <1>1 DEF Turned, Grows, Carries

\* A new node at the end.
LEMMA AllocIs ==
    ASSUME NEW ns, NEW t \in Nat, NEW d \in Nat, Arena(ns, t, d),
           NEW node \in NodeSet(Len(ns) + 1, t, d)
    PROVE  /\ Alloc(ns, node).nodes = Append(ns, node) /\ Alloc(ns, node).node = Len(ns) + 1
           /\ Arena(Append(ns, node), t, d)
           /\ Len(Append(ns, node)) = Len(ns) + 1 /\ Append(ns, node)[Len(ns) + 1] = node
           /\ \A i \in 1 .. Len(ns) : Append(ns, node)[i] = ns[i]
           /\ node.fd = 0 /\ node.flag # "DLESS" => Turned(ns, Append(ns, node), t, d)
<1>1. PICK L \in Nat : L = Len(ns)
    BY DEF Arena
<1>2. NodeSet(L, t, d) \subseteq NodeSet(L + 1, t, d)
    BY DEF NodeSet
<1>3. ns \in Seq(NodeSet(L + 1, t, d))
    BY <1>1, <1>2 DEF Arena
<1>4. PICK ms : ms = Append(ns, node)
    OBVIOUS
<1>5. /\ ms \in Seq(NodeSet(L + 1, t, d)) /\ Len(ms) = L + 1 /\ ms[L + 1] = node
      /\ \A i \in 1 .. L : ms[i] = ns[i]
    BY <1>1, <1>3, <1>4
<1>6. ASSUME node.fd = 0, node.flag # "DLESS" PROVE Grows(ns, ms)
    <2>1. \A i \in (L + 1) .. (L + 1) : i = L + 1
        OBVIOUS
    <2>2. QED
        BY <1>1, <1>5, <1>6, <2>1 DEF Grows
<1>7. QED
    BY <1>1, <1>4, <1>5, <1>6 DEF Alloc, Result, Arena, Turned

\* A link of a node set anew, whichever node it is, and if there is such a node.
LEMMA FieldSet ==
    ASSUME NEW ns, NEW t \in Nat, NEW d \in Nat, Arena(ns, t, d), NEW x, NEW v \in 0 .. Len(ns)
    PROVE  /\ Turned(ns, WithNext(ns, x, v), t, d)
           /\ Turned(ns, WithHead(ns, x, v), t, d)
           /\ Turned(ns, WithRedirs(ns, x, v), t, d)
           /\ Len(WithNext(ns, x, v)) = Len(ns)
           /\ Len(WithHead(ns, x, v)) = Len(ns)
           /\ Len(WithRedirs(ns, x, v)) = Len(ns)
<1>1. PICK L \in Nat : L = Len(ns)
    BY DEF Arena
<1>2. ns \in Seq(NodeSet(L, t, d)) /\ v \in 0 .. L /\ DOMAIN ns = 1 .. L
    BY <1>1 DEF Arena
<1>3. ASSUME NEW y \in NodeSet(L, t, d)
      PROVE  /\ [y EXCEPT !.next = v] \in NodeSet(L, t, d)
             /\ [y EXCEPT !.head = v] \in NodeSet(L, t, d)
             /\ [y EXCEPT !.redirs = v] \in NodeSet(L, t, d)
    BY <1>2 DEF NodeSet
<1>4. ASSUME NEW y, y \in NodeSet(L, t, d), x \in 1 .. L,
             y.type = ns[x].type /\ y.fd = ns[x].fd /\ y.flag = ns[x].flag /\ y.token = ns[x].token
      PROVE  Turned(ns, WithNode(ns, x, y), t, d) /\ Len(WithNode(ns, x, y)) = Len(ns)
    <2> PICK ms : ms = WithNode(ns, x, y)
        OBVIOUS
    <2>1. /\ ms \in Seq(NodeSet(L, t, d)) /\ Len(ms) = L
          /\ \A i \in 1 .. L : ms[i] = IF i = x THEN y ELSE ns[i]
        BY <1>2, <1>4 DEF WithNode
    <2>2. Grows(ns, ms)
        BY <1>1, <1>4, <2>1 DEF Grows
    <2>3. QED
        BY <1>1, <2>1, <2>2 DEF Turned, Arena
<1>5. CASE x \in 1 .. L
    <2>1. ns[x] \in NodeSet(L, t, d)
        BY <1>2, <1>5
    <2>2. PICK y1, y2, y3 : /\ y1 = [ns[x] EXCEPT !.next = v]
                            /\ y2 = [ns[x] EXCEPT !.head = v]
                            /\ y3 = [ns[x] EXCEPT !.redirs = v]
        OBVIOUS
    <2>3. /\ y1 \in NodeSet(L, t, d) /\ y2 \in NodeSet(L, t, d) /\ y3 \in NodeSet(L, t, d)
          /\ y1.type = ns[x].type /\ y1.fd = ns[x].fd /\ y1.flag = ns[x].flag
          /\ y1.token = ns[x].token
          /\ y2.type = ns[x].type /\ y2.fd = ns[x].fd /\ y2.flag = ns[x].flag
          /\ y2.token = ns[x].token
          /\ y3.type = ns[x].type /\ y3.fd = ns[x].fd /\ y3.flag = ns[x].flag
          /\ y3.token = ns[x].token
        BY <1>3, <2>1, <2>2 DEF NodeSet
    <2>4. /\ WithNext(ns, x, v) = WithNode(ns, x, y1)
          /\ WithHead(ns, x, v) = WithNode(ns, x, y2)
          /\ WithRedirs(ns, x, v) = WithNode(ns, x, y3)
        BY <2>2 DEF WithNext, WithHead, WithRedirs, WithNode
    <2>5. QED
        BY <1>4, <1>5, <2>3, <2>4
<1>6. CASE x \notin 1 .. L
    <2>1. /\ WithNext(ns, x, v) = ns
          /\ WithHead(ns, x, v) = ns
          /\ WithRedirs(ns, x, v) = ns
        BY <1>2, <1>6 DEF WithNext, WithHead, WithRedirs
    <2>2. Turned(ns, ns, t, d)
        BY <1>1 DEF Turned, Grows
    <2>3. QED
        BY <2>1, <2>2
<1>7. QED
    BY <1>5, <1>6

\* Another flag, of a node that is no here-document's and does not become one.
LEMMA FlagSet ==
    ASSUME NEW ns, NEW t \in Nat, NEW d \in Nat, Arena(ns, t, d), NEW x \in 1 .. Len(ns),
           ns[x].flag # "DLESS", NEW f \in NodeFlags, f # "DLESS"
    PROVE  /\ Turned(ns, WithFlag(ns, x, f), t, d)
           /\ Len(WithFlag(ns, x, f)) = Len(ns)
<1>1. PICK L \in Nat : L = Len(ns)
    BY DEF Arena
<1>2. ns \in Seq(NodeSet(L, t, d))
    BY <1>1 DEF Arena
<1>3. PICK y : y = [ns[x] EXCEPT !.flag = f]
    OBVIOUS
<1>4. y \in NodeSet(L, t, d) /\ y.type = ns[x].type /\ y.fd = ns[x].fd /\ y.flag = f
      /\ y.token = ns[x].token
    <2>1. ns[x] \in NodeSet(L, t, d)
        BY <1>1, <1>2
    <2>2. QED
        BY <1>3, <2>1 DEF NodeSet
<1>5. PICK ms : ms = [ns EXCEPT ![x] = y]
    OBVIOUS
<1>6. /\ ms = WithFlag(ns, x, f) /\ ms \in Seq(NodeSet(L, t, d)) /\ Len(ms) = L
      /\ \A i \in 1 .. L : ms[i] = IF i = x THEN y ELSE ns[i]
    BY <1>1, <1>2, <1>3, <1>4, <1>5 DEF WithFlag
<1>7. Grows(ns, ms)
    BY <1>1, <1>4, <1>6 DEF Grows
<1>8. QED
    BY <1>1, <1>6, <1>7 DEF Turned, Arena

\* append_node_to_tail keeps all nodes, wherever the end of the chain is.
LEMMA LinkedIs ==
    ASSUME NEW ns, NEW t \in Nat, NEW d \in Nat, Arena(ns, t, d),
           NEW head \in 0 .. Len(ns), NEW new \in 0 .. Len(ns)
    PROVE  /\ Turned(ns, Linked(ns, head, new).nodes, t, d)
           /\ Len(Linked(ns, head, new).nodes) = Len(ns)
           /\ Linked(ns, head, new).node = (IF head = 0 THEN new ELSE head)
           /\ Linked(ns, head, new).node \in 0 .. Len(ns)
<1>1. CASE head = 0
    <2>1. Linked(ns, head, new) = Result(ns, new)
        BY <1>1 DEF Linked
    <2>2. Turned(ns, ns, t, d)
        BY DEF Turned, Grows, Arena
    <2>3. QED
        BY <1>1, <2>1, <2>2 DEF Result
<1>2. CASE head # 0
    <2>1. PICK x : x = TailOf(ns, head)
        OBVIOUS
    <2>2. PICK ms : ms = WithNext(ns, x, new)
        OBVIOUS
    <2>3. Linked(ns, head, new) = Result(ms, head)
        BY <1>2, <2>1, <2>2 DEF Linked, WithNext
    <2>4. Turned(ns, ms, t, d) /\ Len(ms) = Len(ns)
        BY <2>2, FieldSet
    <2>5. QED
        BY <1>2, <2>3, <2>4 DEF Result
<1>3. QED
    BY <1>1, <1>2

-------------------------------------------------------------------------------
(* The handlers of the rules                                                  *)

\* What a reduction to x leaves: all nodes are kept and x has the node it should; a
\* complete command has one until it is run.
Kept(ns, t, d, res, x) ==
    /\ Turned(ns, res.nodes, t, d)
    /\ IF x = "complete_commands" THEN res.node \in 1 .. Len(res.nodes)
       ELSE Carries(res.nodes, x, res.node)

\* A new node that is no here-document's.
LEMMA NewKept ==
    ASSUME NEW ns, NEW t \in Nat, NEW d \in Nat, Arena(ns, t, d), NEW x \in Bearing,
           NEW node \in NodeSet(Len(ns) + 1, t, d), node.type = Kind(x),
           node.fd = 0, node.flag # "DLESS"
    PROVE  Kept(ns, t, d, Alloc(ns, node), x)
<1>2. PICK ms : ms = Append(ns, node)
    OBVIOUS
<1>3. Alloc(ns, node).nodes = ms /\ Alloc(ns, node).node = Len(ns) + 1
    BY <1>2 DEF Alloc, Result
<1>6. Turned(ns, ms, t, d)
    BY <1>2, AllocIs
<1>7. Len(ms) = Len(ns) + 1
    BY <1>2, AllocIs
<1>8. ms[Len(ns) + 1] = node
    BY <1>2, AllocIs
<1>4. x # "complete_commands"
    BY DEF Bearing, Pipelines, Commands, Arguments, Redirections
<1>1. Len(ns) \in Nat
    BY DEF Arena
<1>5. QED
    BY <1>1, <1>3, <1>4, <1>6, <1>7, <1>8 DEF Kept, Carries

\* reduce_from_term.
LEMMA FromTermKept ==
    ASSUME NEW ns, NEW t \in Nat, NEW d \in Nat, Arena(ns, t, d), NEW rhs,
           rhs[Len(rhs)].token \in 0 .. t
    PROVE  /\ \A x \in {"cmd_name", "cmd_word", "filename"} :
                Kept(ns, t, d, ReduceFromTerm(ns, rhs, x), x)
           /\ LET res == ReduceFromTerm(ns, rhs, "cmd_suffix")
              IN Turned(ns, res.nodes, t, d) /\ res.node \in 0 .. Len(res.nodes)
<1> DEFINE y(x) == [Node(IF x = "filename" THEN "redir" ELSE "arg")
                        EXCEPT !.token = rhs[Len(rhs)].token]
<1>1. PICK L \in Nat : L = Len(ns)
    BY DEF Arena
<1>2. ASSUME NEW x
      PROVE  /\ y(x) \in NodeSet(L + 1, t, d) /\ y(x).fd = 0 /\ y(x).flag # "DLESS"
             /\ y(x).type = IF x = "filename" THEN "redir" ELSE "arg"
    BY DEF Node, NodeSet, NodeTypes, NodeFlags
<1>3. ASSUME NEW x PROVE ReduceFromTerm(ns, rhs, x) = Alloc(ns, y(x))
    BY DEF ReduceFromTerm
<1>4. ASSUME NEW x \in {"cmd_name", "cmd_word", "filename"}
      PROVE  x \in Bearing /\ Kind(x) = IF x = "filename" THEN "redir" ELSE "arg"
    BY DEF Bearing, Kind, Pipelines, Commands, Arguments, Redirections
<1> HIDE DEF y
<1>5. ASSUME NEW x \in {"cmd_name", "cmd_word", "filename"}
      PROVE  Kept(ns, t, d, ReduceFromTerm(ns, rhs, x), x)
    BY <1>1, <1>2, <1>3, <1>4, NewKept
<1>6. PICK z : z = y("cmd_suffix")
    OBVIOUS
<1>7. PICK ms : ms = Append(ns, z)
    OBVIOUS
<1>8. Turned(ns, ms, t, d) /\ Len(ms) = L + 1 /\ Alloc(ns, z).nodes = ms /\ Alloc(ns, z).node = L + 1
    BY <1>1, <1>2, <1>6, <1>7, AllocIs
<1>9. QED
    BY <1>1, <1>3, <1>5, <1>6, <1>8

\* reduce_pipeline, when the pipeline starts.
LEMMA PipelineCreateKept ==
    ASSUME NEW ns, NEW t \in Nat, NEW d \in Nat, Arena(ns, t, d), NEW rhs,
           rhs[1].node \in 0 .. Len(ns)
    PROVE  Kept(ns, t, d, ReducePipelineCreate(ns, rhs), "pipeline")
<1>1. PICK v : v = rhs[1].node
    OBVIOUS
<1>2. PICK y : y = [Node("pipeline") EXCEPT !.head = v]
    OBVIOUS
<1>3. /\ y \in NodeSet(Len(ns) + 1, t, d) /\ y.fd = 0 /\ y.flag # "DLESS"
      /\ y.type = "pipeline"
    <2>1. y = [type |-> "pipeline", flag |-> "none", next |-> 0, head |-> v, redirs |-> 0,
               token |-> 0, fd |-> 0]
        BY <1>2 DEF Node
    <2>2. "pipeline" \in NodeTypes /\ "none" \in NodeFlags
        BY DEF NodeTypes, NodeFlags
    <2>3. Len(ns) \in Nat
        BY DEF Arena
    <2>4. QED
        BY <1>1, <2>1, <2>2, <2>3 DEF NodeSet
<1>4. "pipeline" \in Bearing /\ Kind("pipeline") = "pipeline"
    BY DEF Bearing, Kind, Pipelines, Commands, Arguments, Redirections
<1>5. QED
    BY <1>1, <1>2, <1>3, <1>4, NewKept DEF ReducePipelineCreate

\* reduce_subshell.
LEMMA SubshellKept ==
    ASSUME NEW ns, NEW t \in Nat, NEW d \in Nat, Arena(ns, t, d), NEW rhs,
           rhs[2].node \in 0 .. Len(ns)
    PROVE  Kept(ns, t, d, ReduceSubshell(ns, rhs), "subshell")
<1>1. PICK v : v = rhs[2].node
    OBVIOUS
<1>2. PICK y : y = [Node("command") EXCEPT !.flag = "subshell", !.head = v]
    OBVIOUS
<1>3. /\ y \in NodeSet(Len(ns) + 1, t, d) /\ y.fd = 0 /\ y.flag # "DLESS"
      /\ y.type = "command"
    <2>1. y = [type |-> "command", flag |-> "subshell", next |-> 0, head |-> v, redirs |-> 0,
               token |-> 0, fd |-> 0]
        BY <1>2 DEF Node
    <2>2. "command" \in NodeTypes /\ "subshell" \in NodeFlags
        BY DEF NodeTypes, NodeFlags
    <2>3. Len(ns) \in Nat
        BY DEF Arena
    <2>4. QED
        BY <1>1, <2>1, <2>2, <2>3 DEF NodeSet
<1>4. "subshell" \in Bearing /\ Kind("subshell") = "command"
    BY DEF Bearing, Kind, Pipelines, Commands, Arguments, Redirections
<1>5. QED
    BY <1>1, <1>2, <1>3, <1>4, NewKept DEF ReduceSubshell

\* reduce_simple_command.
LEMMA SimpleKept ==
    ASSUME NEW ns, NEW t \in Nat, NEW d \in Nat, Arena(ns, t, d), NEW rhs,
           rhs[1].node \in 0 .. Len(ns), Len(rhs) = 2 => rhs[2].node \in 0 .. Len(ns)
    PROVE  Kept(ns, t, d, ReduceSimpleCommand(ns, rhs), "simple_command")
<1>1. PICK v, w : v = rhs[1].node /\ w = IF Len(rhs) = 2 THEN rhs[2].node ELSE 0
    OBVIOUS
<1>2. PICK y : y = IF rhs[1].type = "cmd_prefix"
                   THEN [Node("command") EXCEPT !.redirs = v, !.head = w]
                   ELSE [Node("command") EXCEPT !.head = v]
    OBVIOUS
<1>3. /\ y \in NodeSet(Len(ns) + 1, t, d) /\ y.fd = 0 /\ y.flag # "DLESS"
      /\ y.type = "command"
    <2>1. v \in 0 .. Len(ns) /\ w \in 0 .. Len(ns) /\ Len(ns) \in Nat
        BY <1>1 DEF Arena
    <2>2. "command" \in NodeTypes /\ "none" \in NodeFlags
        BY DEF NodeTypes, NodeFlags
    <2>3. CASE rhs[1].type = "cmd_prefix"
        <3>1. y = [type |-> "command", flag |-> "none", next |-> 0, head |-> w, redirs |-> v,
                   token |-> 0, fd |-> 0]
            BY <1>2, <2>3 DEF Node
        <3>2. QED
            BY <2>1, <2>2, <3>1 DEF NodeSet
    <2>4. CASE rhs[1].type # "cmd_prefix"
        <3>1. y = [type |-> "command", flag |-> "none", next |-> 0, head |-> v, redirs |-> 0,
                   token |-> 0, fd |-> 0]
            BY <1>2, <2>4 DEF Node
        <3>2. QED
            BY <2>1, <2>2, <3>1 DEF NodeSet
    <2>5. QED
        BY <2>3, <2>4
<1>4. "simple_command" \in Bearing /\ Kind("simple_command") = "command"
    BY DEF Bearing, Kind, Pipelines, Commands, Arguments, Redirections
<1>5. QED
    BY <1>1, <1>2, <1>3, <1>4, NewKept DEF ReduceSimpleCommand

\* reduce_io_here makes the only nodes of here-documents; their descriptor is 0 at first.
LEMMA IoHereIs ==
    ASSUME NEW ns, NEW t \in Nat, NEW d \in Nat, Arena(ns, t, d), NEW rhs,
           rhs[2].token \in 0 .. t
    PROVE  /\ Arena(ReduceIoHere(ns, rhs).nodes, t, d)
           /\ Len(ReduceIoHere(ns, rhs).nodes) = Len(ns) + 1
           /\ ReduceIoHere(ns, rhs).node = Len(ns) + 1
           /\ \A i \in 1 .. Len(ns) : ReduceIoHere(ns, rhs).nodes[i] = ns[i]
           /\ LET new == ReduceIoHere(ns, rhs).nodes[Len(ns) + 1]
              IN /\ new.type = "redir" /\ new.flag = "DLESS" /\ new.fd = 0
                 /\ new.token = rhs[2].token
<1>1. PICK v : v = rhs[2].token
    OBVIOUS
<1>2. PICK y : y = [Node("redir") EXCEPT !.flag = "DLESS", !.token = v]
    OBVIOUS
<1>3. y \in NodeSet(Len(ns) + 1, t, d)
    <2>1. y = [type |-> "redir", flag |-> "DLESS", next |-> 0, head |-> 0, redirs |-> 0,
               token |-> v, fd |-> 0]
        BY <1>2 DEF Node
    <2>2. "redir" \in NodeTypes /\ "DLESS" \in NodeFlags
        BY DEF NodeTypes, NodeFlags, RedirOps
    <2>3. Len(ns) \in Nat
        BY DEF Arena
    <2>4. QED
        BY <1>1, <2>1, <2>2, <2>3 DEF NodeSet
<1>4. PICK ms : ms = Append(ns, y)
    OBVIOUS
<1>5. ReduceIoHere(ns, rhs) = Alloc(ns, y)
    BY <1>1, <1>2 DEF ReduceIoHere
<1>6. Alloc(ns, y).nodes = ms /\ Alloc(ns, y).node = Len(ns) + 1
    BY <1>4 DEF Alloc, Result
<1>7. Arena(ms, t, d)
    BY <1>3, <1>4, AllocIs
<1>8. Len(ms) = Len(ns) + 1
    BY <1>3, <1>4, AllocIs
<1>9. ms[Len(ns) + 1] = y /\ \A i \in 1 .. Len(ns) : ms[i] = ns[i]
    <2>1. ms[Len(ns) + 1] = y
        BY <1>3, <1>4, AllocIs
    <2>2. \A i \in 1 .. Len(ns) : ms[i] = ns[i]
        BY <1>3, <1>4, AllocIs
    <2>3. QED
        BY <2>1, <2>2
<1>10. y.type = "redir" /\ y.flag = "DLESS" /\ y.fd = 0 /\ y.token = v
    BY <1>2 DEF Node
<1>11. QED
    BY <1>1, <1>5, <1>6, <1>7, <1>8, <1>9, <1>10

\* A symbol with a node has one of the arena.
LEMMA CarriedIs ==
    ASSUME NEW ns, NEW t \in Nat, NEW d \in Nat, Arena(ns, t, d), NEW x, NEW n, Carries(ns, x, n)
    PROVE  /\ n \in 0 .. Len(ns)
           /\ x \in Bearing => n \in 1 .. Len(ns) /\ ns[n] \in NodeSet(Len(ns), t, d)
<1>1. PICK L \in Nat : L = Len(ns)
    BY DEF Arena
<1>2. n \in 0 .. L /\ (x \in Bearing => n \in 1 .. L)
    BY <1>1 DEF Carries
<1>3. ns \in Seq(NodeSet(L, t, d))
    BY <1>1 DEF Arena
<1>4. QED
    BY <1>1, <1>2, <1>3

\* What a chain is made longer at, it keeps.
LEMMA ChainKept ==
    ASSUME NEW ns, NEW t \in Nat, NEW d \in Nat, Arena(ns, t, d), NEW x \in Bearing, NEW head,
           Carries(ns, x, head), NEW new \in 0 .. Len(ns)
    PROVE  Kept(ns, t, d, Linked(ns, head, new), x)
<1>1. head \in 1 .. Len(ns)
    BY CarriedIs
<1>2. Len(ns) \in Nat
    BY DEF Arena
<1>3. PICK res : res = Linked(ns, head, new)
    OBVIOUS
<1>4. head \in 0 .. Len(ns) /\ head # 0
    BY <1>1, <1>2
<1>5. Turned(ns, res.nodes, t, d) /\ res.node = head
    BY <1>3, <1>4, LinkedIs
<1>6. Carries(res.nodes, x, head)
    BY <1>5, CarriesOn
<1>7. x # "complete_commands"
    BY DEF Bearing, Pipelines, Commands, Arguments, Redirections
<1>8. QED
    BY <1>3, <1>5, <1>6, <1>7 DEF Kept

\* reduce_list_append, reduce_redir_append.
LEMMA ListAppendKept ==
    ASSUME NEW ns, NEW t \in Nat, NEW d \in Nat, Arena(ns, t, d), NEW rhs, NEW x \in Bearing,
           Carries(ns, x, rhs[1].node), rhs[Len(rhs)].node \in 0 .. Len(ns)
    PROVE  Kept(ns, t, d, ReduceListAppend(ns, rhs), x)
<1>1. PICK head, new : head = rhs[1].node /\ new = rhs[Len(rhs)].node
    OBVIOUS
<1>2. QED
    BY <1>1, ChainKept DEF ReduceListAppend

\* The next complete command, when those before it have been run.
LEMMA CompleteKept ==
    ASSUME NEW ns, NEW t \in Nat, NEW d \in Nat, Arena(ns, t, d), NEW rhs,
           rhs[1].node = 0, rhs[Len(rhs)].node \in 1 .. Len(ns)
    PROVE  Kept(ns, t, d, ReduceListAppend(ns, rhs), "complete_commands")
<1>1. PICK new : new = rhs[Len(rhs)].node
    OBVIOUS
<1>2. ReduceListAppend(ns, rhs) = Result(ns, new)
    BY <1>1 DEF ReduceListAppend, Linked
<1>3. Turned(ns, ns, t, d)
    BY DEF Turned, Grows, Arena
<1>4. QED
    BY <1>1, <1>2, <1>3 DEF Kept, Result

\* reduce_io_file.
LEMMA IoFileKept ==
    ASSUME NEW ns, NEW t \in Nat, NEW d \in Nat, Arena(ns, t, d), NEW rhs,
           rhs[1].type \in {"LESS", "GREAT", "DGREAT"}, Carries(ns, "filename", rhs[2].node)
    PROVE  Kept(ns, t, d, ReduceIoFile(ns, rhs), "io_file")
<1>1. PICK n, f : n = rhs[2].node /\ f = rhs[1].type
    OBVIOUS
<1>2. n \in 1 .. Len(ns) /\ ns[n].type = "redir" /\ ns[n].flag # "DLESS"
    BY <1>1 DEF Carries, Kind, Bearing, Pipelines, Commands, Arguments, Redirections
<1>3. f \in NodeFlags /\ f # "DLESS"
    BY <1>1 DEF NodeFlags, RedirOps
<1>4. PICK ms : ms = WithFlag(ns, n, f)
    OBVIOUS
<1>5. Turned(ns, ms, t, d)
    BY <1>2, <1>3, <1>4, FlagSet
<1>6. ReduceIoFile(ns, rhs) = Result(ms, n)
    BY <1>1, <1>4 DEF ReduceIoFile, WithFlag
<1>7. Carries(ms, "io_file", n)
    <2>1. "io_file" \in Bearing /\ Kind("io_file") = "redir" /\ "io_file" \notin {"pipeline", "filename"}
        BY DEF Kind, Bearing, Pipelines, Commands, Arguments, Redirections
    <2>2. Len(ns) \in Nat /\ Len(ms) \in Nat
        BY <1>5 DEF Arena, Turned
    <2>3. QED
        BY <1>2, <1>5, <2>1, <2>2 DEF Carries, Turned, Grows
<1>8. QED
    BY <1>5, <1>6, <1>7 DEF Kept, Result

\* reduce_conditional: the connector of a pipeline, and the pipeline at the end of its list.
LEMMA ConditionalKept ==
    ASSUME NEW ns, NEW t \in Nat, NEW d \in Nat, Arena(ns, t, d), NEW rhs,
           rhs[2].type \in {"AND_IF", "OR_IF"}, Carries(ns, "and_or", rhs[1].node),
           Carries(ns, "pipeline", rhs[4].node), Len(rhs) = 4
    PROVE  Kept(ns, t, d, ReduceConditional(ns, rhs), "and_or")
<1>1. PICK n, f : n = rhs[4].node /\ f = rhs[2].type
    OBVIOUS
<1>2. "and_or" \in Bearing /\ "pipeline" \in Bearing
    BY DEF Bearing, Pipelines, Commands, Arguments, Redirections
<1>3. n \in 1 .. Len(ns) /\ ns[n].flag # "DLESS"
    BY <1>1, <1>2 DEF Carries
<1>4. f \in NodeFlags /\ f # "DLESS"
    BY <1>1 DEF NodeFlags, RedirOps
<1>5. PICK ms : ms = WithFlag(ns, n, f)
    OBVIOUS
<1>6. Turned(ns, ms, t, d) /\ Len(ms) = Len(ns)
    BY <1>3, <1>4, <1>5, FlagSet
<1>7. ReduceConditional(ns, rhs) = ReduceListAppend(ms, rhs)
    BY <1>1, <1>5 DEF ReduceConditional, WithFlag
<1>8. Carries(ms, "and_or", rhs[1].node)
    <2>1. PICK m : m = rhs[1].node
        OBVIOUS
    <2>2. QED
        BY <1>6, <2>1, CarriesOn
<1>9. Arena(ms, t, d) /\ Len(ns) \in Nat
    BY <1>6 DEF Turned, Arena
<1>10. rhs[Len(rhs)].node \in 0 .. Len(ms)
    BY <1>1, <1>3, <1>6, <1>9
<1>11. PICK res : res = ReduceListAppend(ms, rhs)
    OBVIOUS
<1>12. Kept(ms, t, d, res, "and_or")
    BY <1>2, <1>8, <1>9, <1>10, <1>11, ListAppendKept
<1>13. Turned(ns, res.nodes, t, d)
    <2>1. PICK os : os = res.nodes
        OBVIOUS
    <2>2. Turned(ms, os, t, d)
        BY <1>12, <2>1 DEF Kept
    <2>3. QED
        BY <1>6, <2>1, <2>2, GrowsOn
<1>14. QED
    BY <1>7, <1>11, <1>12, <1>13 DEF Kept

\* reduce_subshell, with redirections.
LEMMA SubshellRedirectsKept ==
    ASSUME NEW ns, NEW t \in Nat, NEW d \in Nat, Arena(ns, t, d), NEW rhs,
           Carries(ns, "subshell", rhs[1].node), rhs[2].node \in 0 .. Len(ns)
    PROVE  Kept(ns, t, d, ReduceSubshellRedirects(ns, rhs), "command")
<1>1. PICK n, v : n = rhs[1].node /\ v = rhs[2].node
    OBVIOUS
<1>2. PICK ms : ms = WithRedirs(ns, n, v)
    OBVIOUS
<1>3. Turned(ns, ms, t, d)
    BY <1>1, <1>2, FieldSet
<1>4. ReduceSubshellRedirects(ns, rhs) = Result(ms, n)
    BY <1>1, <1>2 DEF ReduceSubshellRedirects, WithRedirs
<1>5. Carries(ns, "command", n)
    BY <1>1 DEF Carries, Kind, Bearing, Pipelines, Commands, Arguments, Redirections
<1>6. Carries(ms, "command", n)
    BY <1>3, <1>5, CarriesOn
<1>7. QED
    BY <1>3, <1>4, <1>6 DEF Kept, Result

\* A chain that was made longer is hung at a node again.
LEMMA HungKept ==
    ASSUME NEW ns, NEW t \in Nat, NEW d \in Nat, Arena(ns, t, d), NEW ms, Turned(ns, ms, t, d),
           NEW x \in Bearing, NEW n, Carries(ns, x, n), NEW v \in 0 .. Len(ms)
    PROVE  /\ Kept(ns, t, d, Result(WithHead(ms, n, v), n), x)
           /\ Kept(ns, t, d, Result(WithRedirs(ms, n, v), n), x)
<1>1. Arena(ms, t, d)
    BY DEF Turned
<1>2. PICK hs, rs : hs = WithHead(ms, n, v) /\ rs = WithRedirs(ms, n, v)
    OBVIOUS
<1>3. Turned(ms, hs, t, d)
    BY <1>1, <1>2, FieldSet
<1>4. Turned(ms, rs, t, d)
    BY <1>1, <1>2, FieldSet
<1>5. Turned(ns, hs, t, d)
    BY <1>3, GrowsOn
<1>6. Turned(ns, rs, t, d)
    BY <1>4, GrowsOn
<1>7. Carries(hs, x, n)
    BY <1>5, CarriesOn
<1>8. Carries(rs, x, n)
    BY <1>6, CarriesOn
<1>9. x # "complete_commands"
    BY DEF Bearing, Pipelines, Commands, Arguments, Redirections
<1>10. QED
    BY <1>2, <1>5, <1>6, <1>7, <1>8, <1>9 DEF Kept, Result

\* reduce_pipeline, when the pipeline goes on.
LEMMA PipelineAppendKept ==
    ASSUME NEW ns, NEW t \in Nat, NEW d \in Nat, Arena(ns, t, d), NEW rhs,
           Carries(ns, "pipeline", rhs[1].node), rhs[4].node \in 0 .. Len(ns)
    PROVE  Kept(ns, t, d, ReducePipelineAppend(ns, rhs), "pipeline")
<1>1. PICK n, new : n = rhs[1].node /\ new = rhs[4].node
    OBVIOUS
<1>2. "pipeline" \in Bearing
    BY DEF Bearing, Pipelines, Commands, Arguments, Redirections
<1>3. ns[n] \in NodeSet(Len(ns), t, d)
    BY <1>1, <1>2, CarriedIs
<1>4. PICK head : head = ns[n].head
    OBVIOUS
<1>5. head \in 0 .. Len(ns)
    BY <1>3, <1>4 DEF NodeSet
<1>6. PICK commands : commands = Linked(ns, head, new)
    OBVIOUS
<1>7. Turned(ns, commands.nodes, t, d) /\ Len(commands.nodes) = Len(ns)
    BY <1>1, <1>5, <1>6, LinkedIs
<1>8. commands.node \in 0 .. Len(ns)
    BY <1>1, <1>5, <1>6, LinkedIs
<1>9. PICK ms, v : ms = commands.nodes /\ v = commands.node
    OBVIOUS
<1>10. ReducePipelineAppend(ns, rhs) = Result(WithHead(ms, n, v), n)
    BY <1>1, <1>4, <1>6, <1>9 DEF ReducePipelineAppend, WithHead
<1>11. Turned(ns, ms, t, d) /\ v \in 0 .. Len(ms)
    BY <1>7, <1>8, <1>9
<1>12. Carries(ns, "pipeline", n)
    BY <1>1
<1>13. QED
    BY <1>2, <1>10, <1>11, <1>12, HungKept

\* reduce_cmd_suffix, from the command it has or has just made.
LEMMA SuffixGrown ==
    ASSUME NEW ns, NEW t \in Nat, NEW d \in Nat, Arena(ns, t, d), NEW cmd,
           Carries(ns, "cmd_suffix", cmd), NEW old, old = ns[cmd],
           NEW ms, Turned(ns, ms, t, d), NEW new \in 0 .. Len(ms)
    PROVE  LET redirs == Linked(ms, old.redirs, new)
               args == Linked(ms, old.head, new)
           IN /\ Kept(ns, t, d, Result(WithRedirs(redirs.nodes, cmd, redirs.node), cmd), "cmd_suffix")
              /\ Kept(ns, t, d, Result(WithHead(args.nodes, cmd, args.node), cmd), "cmd_suffix")
<1>1. "cmd_suffix" \in Bearing
    BY DEF Bearing, Pipelines, Commands, Arguments, Redirections
<1>2. old \in NodeSet(Len(ns), t, d)
    BY <1>1, CarriedIs
<1>3. Len(ns) \in Nat /\ Len(ms) \in Nat /\ Len(ns) <= Len(ms) /\ Arena(ms, t, d)
    BY DEF Turned, Grows, Arena
<1>4. PICK h, r : h = old.head /\ r = old.redirs
    OBVIOUS
<1>5. h \in 0 .. Len(ms) /\ r \in 0 .. Len(ms)
    <2>1. h \in 0 .. Len(ns) /\ r \in 0 .. Len(ns)
        BY <1>2, <1>4 DEF NodeSet
    <2>2. QED
        BY <1>3, <2>1
<1>6. ASSUME NEW c \in 0 .. Len(ms), NEW res, res = Linked(ms, c, new)
      PROVE  /\ Kept(ns, t, d, Result(WithRedirs(res.nodes, cmd, res.node), cmd), "cmd_suffix")
             /\ Kept(ns, t, d, Result(WithHead(res.nodes, cmd, res.node), cmd), "cmd_suffix")
    <2>1. PICK os, v : os = res.nodes /\ v = res.node
        OBVIOUS
    <2>2. Turned(ms, os, t, d) /\ Len(os) = Len(ms)
        BY <1>3, <1>6, <2>1, LinkedIs
    <2>3. v \in 0 .. Len(ms)
        BY <1>3, <1>6, <2>1, LinkedIs
    <2>4. Turned(ns, os, t, d)
        BY <2>2, GrowsOn
    <2>5. v \in 0 .. Len(os)
        BY <2>2, <2>3
    <2>6. QED
        BY <1>1, <2>1, <2>4, <2>5, HungKept
<1>7. QED
    BY <1>4, <1>5, <1>6

\* reduce_cmd_suffix.
LEMMA CmdSuffixKept ==
    ASSUME NEW ns, NEW t \in Nat, NEW d \in Nat, Arena(ns, t, d), NEW rhs,
           Len(rhs) = 1 \/ Len(rhs) = 2, Len(rhs) = 2 => Carries(ns, "cmd_suffix", rhs[1].node),
           rhs[Len(rhs)].token \in 0 .. t, rhs[Len(rhs)].node \in 0 .. Len(ns)
    PROVE  Kept(ns, t, d, ReduceCmdSuffix(ns, rhs, "cmd_suffix"), "cmd_suffix")
<1>1. PICK last : last = rhs[Len(rhs)]
    OBVIOUS
<1>2. PICK cmd : cmd = IF Len(rhs) = 1 THEN Alloc(ns, Node("command")) ELSE Result(ns, rhs[1].node)
    OBVIOUS
<1>3. PICK cs, c : cs = cmd.nodes /\ c = cmd.node
    OBVIOUS
<1>4. Turned(ns, cs, t, d) /\ Carries(cs, "cmd_suffix", c)
    <2>1. CASE Len(rhs) = 1
        <3>1. PICK y : y = Node("command")
            OBVIOUS
        <3>2. y \in NodeSet(Len(ns) + 1, t, d) /\ y.fd = 0 /\ y.flag # "DLESS" /\ y.type = "command"
            <4>1. y = [type |-> "command", flag |-> "none", next |-> 0, head |-> 0, redirs |-> 0,
                       token |-> 0, fd |-> 0]
                BY <3>1 DEF Node
            <4>2. Len(ns) \in Nat
                BY DEF Arena
            <4>3. QED
                BY <4>1, <4>2 DEF NodeSet, NodeTypes, NodeFlags
        <3>3. "cmd_suffix" \in Bearing /\ Kind("cmd_suffix") = "command"
            BY DEF Bearing, Kind, Pipelines, Commands, Arguments, Redirections
        <3>4. Kept(ns, t, d, Alloc(ns, y), "cmd_suffix")
            BY <3>2, <3>3, NewKept
        <3>5. QED
            BY <1>2, <1>3, <2>1, <3>1, <3>4 DEF Kept
    <2>2. CASE Len(rhs) = 2
        <3>1. cs = ns /\ c = rhs[1].node
            BY <1>2, <1>3, <2>2 DEF Result
        <3>2. Turned(ns, ns, t, d)
            BY DEF Turned, Grows, Arena
        <3>3. QED
            BY <2>2, <3>1, <3>2
    <2>3. QED
        BY <2>1, <2>2
<1>5. Arena(cs, t, d)
    BY <1>4 DEF Turned
<1>6. PICK new : new = IF last.type = "io_redirect" THEN Result(cs, last.node)
                       ELSE ReduceFromTerm(cs, rhs, "cmd_suffix")
    OBVIOUS
<1>7. PICK ms, n : ms = new.nodes /\ n = new.node
    OBVIOUS
<1>8. Turned(cs, ms, t, d) /\ n \in 0 .. Len(ms)
    <2>1. CASE last.type = "io_redirect"
        <3>1. ms = cs /\ n = last.node
            BY <1>6, <1>7, <2>1 DEF Result
        <3>2. Turned(cs, cs, t, d)
            BY <1>5 DEF Turned, Grows, Arena
        <3>3. Len(ns) <= Len(cs) /\ Len(ns) \in Nat /\ Len(cs) \in Nat
            BY <1>4 DEF Turned, Grows, Arena
        <3>4. QED
            BY <1>1, <3>1, <3>2, <3>3
    <2>2. CASE last.type # "io_redirect"
        <3>2. LET res == ReduceFromTerm(cs, rhs, "cmd_suffix")
              IN Turned(cs, res.nodes, t, d) /\ res.node \in 0 .. Len(res.nodes)
            BY <1>5, FromTermKept
        <3>3. QED
            BY <1>6, <1>7, <2>2, <3>2
    <2>3. QED
        BY <2>1, <2>2
<1>9. PICK old : old = cs[c]
    OBVIOUS
<1>10. PICK redirs, args : redirs = Linked(ms, old.redirs, n) /\ args = Linked(ms, old.head, n)
    OBVIOUS
<1>11. PICK res : res = IF last.type = "io_redirect"
                        THEN Result(WithRedirs(redirs.nodes, c, redirs.node), c)
                        ELSE Result(WithHead(args.nodes, c, args.node), c)
    OBVIOUS
<1>12. ReduceCmdSuffix(ns, rhs, "cmd_suffix") = res
    BY <1>1, <1>2, <1>3, <1>6, <1>7, <1>9, <1>10, <1>11 DEF ReduceCmdSuffix, WithRedirs, WithHead
<1>13. Kept(cs, t, d, res, "cmd_suffix")
    <2>1. /\ Kept(cs, t, d, Result(WithRedirs(redirs.nodes, c, redirs.node), c), "cmd_suffix")
          /\ Kept(cs, t, d, Result(WithHead(args.nodes, c, args.node), c), "cmd_suffix")
        BY <1>4, <1>5, <1>8, <1>9, <1>10, SuffixGrown
    <2>2. QED
        BY <1>11, <2>1
<1>14. Turned(ns, res.nodes, t, d)
    <2>1. PICK os : os = res.nodes
        OBVIOUS
    <2>2. Turned(cs, os, t, d)
        BY <1>13, <2>1 DEF Kept
    <2>3. QED
        BY <1>4, <2>1, <2>2, GrowsOn
<1>15. QED
    BY <1>12, <1>13, <1>14 DEF Kept

\* reduce_from_suffix.
LEMMA FromSuffixKept ==
    ASSUME NEW ns, NEW t \in Nat, NEW d \in Nat, Arena(ns, t, d), NEW rhs,
           Len(rhs) = 2 \/ Len(rhs) = 3, Carries(ns, "cmd_suffix", rhs[Len(rhs)].node),
           rhs[Len(rhs) - 1].node \in 0 .. Len(ns),
           Len(rhs) = 3 => rhs[1].node \in 0 .. Len(ns)
    PROVE  Kept(ns, t, d, ReduceFromSuffix(ns, rhs), "simple_command")
<1>1. PICK cmd, name : cmd = rhs[Len(rhs)].node /\ name = rhs[Len(rhs) - 1].node
    OBVIOUS
<1>2. /\ "simple_command" \in Bearing /\ "cmd_suffix" \in Bearing
      /\ Kind("simple_command") = Kind("cmd_suffix")
      /\ {"simple_command", "cmd_suffix"} \cap {"pipeline", "filename"} = {}
    BY DEF Bearing, Kind, Pipelines, Commands, Arguments, Redirections
<1>3. Carries(ns, "simple_command", cmd)
    BY <1>1, <1>2 DEF Carries
<1>4. ns[cmd] \in NodeSet(Len(ns), t, d)
    BY <1>2, <1>3, CarriedIs
<1>5. PICK head : head = ns[cmd].head
    OBVIOUS
<1>6. head \in 0 .. Len(ns)
    BY <1>4, <1>5 DEF NodeSet
<1>7. PICK args : args = Linked(ns, name, head)
    OBVIOUS
<1>8. PICK as, a : as = args.nodes /\ a = args.node
    OBVIOUS
<1>9. Turned(ns, as, t, d) /\ Len(as) = Len(ns)
    BY <1>1, <1>6, <1>7, <1>8, LinkedIs
<1>10. a \in 0 .. Len(ns)
    BY <1>1, <1>6, <1>7, <1>8, LinkedIs
<1>11. PICK named : named = WithHead(as, cmd, a)
    OBVIOUS
<1>12. Kept(ns, t, d, Result(named, cmd), "simple_command")
    <2>1. a \in 0 .. Len(as)
        BY <1>9, <1>10
    <2>2. QED
        BY <1>2, <1>3, <1>9, <1>11, <2>1, HungKept
<1>13. PICK redirs : redirs = Linked(named, rhs[1].node, named[cmd].redirs)
    OBVIOUS
<1>14. ReduceFromSuffix(ns, rhs) =
            IF Len(rhs) = 3 THEN Result(WithRedirs(redirs.nodes, cmd, redirs.node), cmd)
            ELSE Result(named, cmd)
    <2>1. ReduceFromSuffix(ns, rhs) =
            LET c == rhs[Len(rhs)].node
                as1 == Linked(ns, rhs[Len(rhs) - 1].node, ns[c].head)
                named1 == WithHead(as1.nodes, c, as1.node)
                rs1 == Linked(named1, rhs[1].node, named1[c].redirs)
            IN IF Len(rhs) = 3 THEN Result(WithRedirs(rs1.nodes, c, rs1.node), c)
               ELSE Result(named1, c)
        BY DEF ReduceFromSuffix, WithRedirs, WithHead
    <2>2. QED
        BY <1>1, <1>5, <1>7, <1>8, <1>11, <1>13, <2>1
<1>15. Turned(ns, named, t, d) /\ Carries(named, "simple_command", cmd)
    BY <1>2, <1>12 DEF Kept, Result
<1>16. CASE Len(rhs) = 3
    <2>1. PICK prefix, r : prefix = rhs[1].node /\ r = named[cmd].redirs
        OBVIOUS
    <2>2. Arena(named, t, d) /\ Len(ns) \in Nat /\ Len(named) \in Nat /\ Len(ns) <= Len(named)
        BY <1>15 DEF Turned, Grows, Arena
    <2>3. named[cmd] \in NodeSet(Len(named), t, d)
        BY <1>2, <1>15, <2>2, CarriedIs
    <2>4. prefix \in 0 .. Len(named) /\ r \in 0 .. Len(named)
        <3>1. r \in 0 .. Len(named)
            BY <2>1, <2>3 DEF NodeSet
        <3>2. prefix \in 0 .. Len(ns)
            BY <1>16, <2>1
        <3>3. QED
            BY <2>2, <3>1, <3>2
    <2>5. PICK os, v : os = redirs.nodes /\ v = redirs.node
        OBVIOUS
    <2>6. /\ Turned(named, os, t, d) /\ Len(os) = Len(named)
          /\ v \in 0 .. Len(named)
        <3>1. redirs = Linked(named, prefix, r)
            BY <1>13, <2>1
        <3>2. /\ Turned(named, Linked(named, prefix, r).nodes, t, d)
              /\ Len(Linked(named, prefix, r).nodes) = Len(named)
              /\ Linked(named, prefix, r).node \in 0 .. Len(named)
            BY <2>2, <2>4, LinkedIs
        <3>3. QED
            BY <2>5, <3>1, <3>2
    <2>7. v \in 0 .. Len(named)
        BY <2>6
    <2>8. Turned(ns, os, t, d)
        BY <1>15, <2>6, GrowsOn
    <2>9. v \in 0 .. Len(os)
        BY <2>6, <2>7
    <2>10. Kept(ns, t, d, Result(WithRedirs(os, cmd, v), cmd), "simple_command")
        BY <1>2, <1>3, <2>8, <2>9, HungKept
    <2>11. QED
        BY <1>14, <1>16, <2>5, <2>10
<1>17. CASE Len(rhs) = 2
    BY <1>12, <1>14, <1>17
<1>18. QED
    BY <1>16, <1>17

-------------------------------------------------------------------------------
(* The rules                                                                  *)

\* A sequence with a length is not empty.
LEMMA NonEmpty == \A s : (Len(s) = 1 \/ Len(s) = 2) => s # << >>
OBVIOUS

\* A symbol passes its node on.
Passes(ns, a, x, n) ==
    Carries(ns, a, n) =>
        IF x = "complete_commands" THEN n \in 1 .. Len(ns) ELSE Carries(ns, x, n)

\* Where a rule has no handler, the node of its first symbol is that of its left-hand side.
LEMMA Passed ==
    ASSUME NEW ns, NEW n
    PROVE
           /\ Passes(ns, "NEWLINE", "newline_list", n)
           /\ Passes(ns, "WORD", "here_end", n)
           /\ Passes(ns, "and_or", "complete_commands", n)
           /\ Passes(ns, "and_or", "term", n)
           /\ Passes(ns, "io_file", "io_redirect", n)
           /\ Passes(ns, "io_here", "io_redirect", n)
           /\ Passes(ns, "io_redirect", "cmd_prefix", n)
           /\ Passes(ns, "io_redirect", "redirect_list", n)
           /\ Passes(ns, "linebreak", "program", n)
           /\ Passes(ns, "newline_list", "linebreak", n)
           /\ Passes(ns, "newline_list", "newline_list", n)
           /\ Passes(ns, "pipeline", "and_or", n)
           /\ Passes(ns, "simple_command", "command", n)
           /\ Passes(ns, "subshell", "command", n)
<1> USE DEF Passes, Carries, Kind, Bearing, Pipelines, Commands, Arguments, Redirections
<1>1. Passes(ns, "NEWLINE", "newline_list", n)
    OBVIOUS
<1>2. Passes(ns, "WORD", "here_end", n)
    OBVIOUS
<1>3. Passes(ns, "and_or", "complete_commands", n)
    OBVIOUS
<1>4. Passes(ns, "and_or", "term", n)
    OBVIOUS
<1>5. Passes(ns, "io_file", "io_redirect", n)
    OBVIOUS
<1>6. Passes(ns, "io_here", "io_redirect", n)
    OBVIOUS
<1>7. Passes(ns, "io_redirect", "cmd_prefix", n)
    OBVIOUS
<1>8. Passes(ns, "io_redirect", "redirect_list", n)
    OBVIOUS
<1>9. Passes(ns, "linebreak", "program", n)
    OBVIOUS
<1>10. Passes(ns, "newline_list", "linebreak", n)
    OBVIOUS
<1>11. Passes(ns, "newline_list", "newline_list", n)
    OBVIOUS
<1>12. Passes(ns, "pipeline", "and_or", n)
    OBVIOUS
<1>13. Passes(ns, "simple_command", "command", n)
    OBVIOUS
<1>14. Passes(ns, "subshell", "command", n)
    OBVIOUS
<1>0. QED
    BY ONLY <1>1, <1>2, <1>3, <1>4, <1>5, <1>6, <1>7, <1>8, <1>9, <1>10, <1>11, <1>12, <1>13, <1>14

\* The handler of each rule.
LEMMA Handlers ==
    ASSUME NEW ns, NEW rule, NEW rhs
    PROVE
           /\ rule.handler = "none" => Reduce(ns, rule, rhs) = Result(ns, IF rhs = << >> THEN 0 ELSE rhs[1].node)
           /\ rule.handler = "program" => Reduce(ns, rule, rhs) = Result(ns, rhs[2].node)
           /\ rule.handler = "compound_list" => Reduce(ns, rule, rhs) = Result(ns, rhs[2].node)
           /\ rule.handler = "list_append" => Reduce(ns, rule, rhs) = ReduceListAppend(ns, rhs)
           /\ rule.handler = "redir_append" => Reduce(ns, rule, rhs) = ReduceListAppend(ns, rhs)
           /\ rule.handler = "conditional" => Reduce(ns, rule, rhs) = ReduceConditional(ns, rhs)
           /\ rule.handler = "pipeline_create" => Reduce(ns, rule, rhs) = ReducePipelineCreate(ns, rhs)
           /\ rule.handler = "pipeline_append" => Reduce(ns, rule, rhs) = ReducePipelineAppend(ns, rhs)
           /\ rule.handler = "subshell" => Reduce(ns, rule, rhs) = ReduceSubshell(ns, rhs)
           /\ rule.handler = "subshell_redirects" => Reduce(ns, rule, rhs) = ReduceSubshellRedirects(ns, rhs)
           /\ rule.handler = "simple" => Reduce(ns, rule, rhs) = ReduceSimpleCommand(ns, rhs)
           /\ rule.handler = "from_suffix" => Reduce(ns, rule, rhs) = ReduceFromSuffix(ns, rhs)
           /\ rule.handler = "from_term" => Reduce(ns, rule, rhs) = ReduceFromTerm(ns, rhs, rule.lhs)
           /\ rule.handler = "cmd_suffix" => Reduce(ns, rule, rhs) = ReduceCmdSuffix(ns, rhs, rule.lhs)
           /\ rule.handler = "io_file" => Reduce(ns, rule, rhs) = ReduceIoFile(ns, rhs)
           /\ rule.handler = "io_here" => Reduce(ns, rule, rhs) = ReduceIoHere(ns, rhs)
<1>1. rule.handler = "none" => Reduce(ns, rule, rhs) = Result(ns, IF rhs = << >> THEN 0 ELSE rhs[1].node)
    BY DEF Reduce
<1>2. rule.handler = "program" => Reduce(ns, rule, rhs) = Result(ns, rhs[2].node)
    BY DEF Reduce
<1>3. rule.handler = "compound_list" => Reduce(ns, rule, rhs) = Result(ns, rhs[2].node)
    BY DEF Reduce
<1>4. rule.handler = "list_append" => Reduce(ns, rule, rhs) = ReduceListAppend(ns, rhs)
    BY DEF Reduce
<1>5. rule.handler = "redir_append" => Reduce(ns, rule, rhs) = ReduceListAppend(ns, rhs)
    BY DEF Reduce
<1>6. rule.handler = "conditional" => Reduce(ns, rule, rhs) = ReduceConditional(ns, rhs)
    BY DEF Reduce
<1>7. rule.handler = "pipeline_create" => Reduce(ns, rule, rhs) = ReducePipelineCreate(ns, rhs)
    BY DEF Reduce
<1>8. rule.handler = "pipeline_append" => Reduce(ns, rule, rhs) = ReducePipelineAppend(ns, rhs)
    BY DEF Reduce
<1>9. rule.handler = "subshell" => Reduce(ns, rule, rhs) = ReduceSubshell(ns, rhs)
    BY DEF Reduce
<1>10. rule.handler = "subshell_redirects" => Reduce(ns, rule, rhs) = ReduceSubshellRedirects(ns, rhs)
    BY DEF Reduce
<1>11. rule.handler = "simple" => Reduce(ns, rule, rhs) = ReduceSimpleCommand(ns, rhs)
    BY DEF Reduce
<1>12. rule.handler = "from_suffix" => Reduce(ns, rule, rhs) = ReduceFromSuffix(ns, rhs)
    BY DEF Reduce
<1>13. rule.handler = "from_term" => Reduce(ns, rule, rhs) = ReduceFromTerm(ns, rhs, rule.lhs)
    BY DEF Reduce
<1>14. rule.handler = "cmd_suffix" => Reduce(ns, rule, rhs) = ReduceCmdSuffix(ns, rhs, rule.lhs)
    BY DEF Reduce
<1>15. rule.handler = "io_file" => Reduce(ns, rule, rhs) = ReduceIoFile(ns, rhs)
    BY DEF Reduce
<1>16. rule.handler = "io_here" => Reduce(ns, rule, rhs) = ReduceIoHere(ns, rhs)
    BY DEF Reduce
<1>0. QED
    BY ONLY <1>1, <1>2, <1>3, <1>4, <1>5, <1>6, <1>7, <1>8, <1>9, <1>10, <1>11, <1>12, <1>13, <1>14, <1>15, <1>16

\* The symbols of a right-hand side, with the nodes they should have.
Borne(ns, t, rhs, w) ==
    /\ rhs \in Seq(Symbol) /\ Len(rhs) = Len(w)
    /\ \A k \in 1 .. Len(w) : /\ rhs[k].type = w[k] /\ Carries(ns, rhs[k].type, rhs[k].node)
                              /\ rhs[k].token \in 0 .. t

\* Every reduction but that of a here-document keeps the nodes.
THEOREM RuleKept ==
    ASSUME NEW ns, NEW t \in Nat, NEW d \in Nat, Arena(ns, t, d), NEW rhs, NEW r \in 2 .. 45,
           Borne(ns, t, rhs, Rhs[r]), r # 40
    PROVE  Kept(ns, t, d, Reduce(ns, Rules[r], rhs), Rules[r].lhs)
<1>0. Turned(ns, ns, t, d)
    BY DEF Turned, Grows, Arena
<1>a. (Len(rhs) = 1 \/ Len(rhs) = 2) => rhs # << >>
    BY NonEmpty, Zenon
<1>1. CASE r = 2
    <2>1. /\ Rules[r].handler = "program" /\ Rules[r].lhs = "program"
          /\ Len(rhs) = 3
          /\ rhs[1].type = "linebreak" /\ Carries(ns, "linebreak", rhs[1].node) /\ rhs[1].token \in 0 .. t
          /\ rhs[2].type = "complete_commands" /\ Carries(ns, "complete_commands", rhs[2].node) /\ rhs[2].token \in 0 .. t
          /\ rhs[3].type = "linebreak" /\ Carries(ns, "linebreak", rhs[3].node) /\ rhs[3].token \in 0 .. t
        BY <1>1, Rules2To11 DEF Shape, Rule, Borne
    <2>2. Reduce(ns, Rules[r], rhs) = Result(ns, rhs[2].node)
        BY <2>1, Handlers
    <2>3. Carries(ns, "program", rhs[2].node)
        BY <2>1 DEF Carries, Bearing, Pipelines, Commands, Arguments, Redirections
    <2>4. QED
        BY <1>0, <2>1, <2>2, <2>3 DEF Kept, Result
<1>2. CASE r = 3
    <2>1. /\ Rules[r].handler = "none" /\ Rules[r].lhs = "program"
          /\ Len(rhs) = 1
          /\ rhs[1].type = "linebreak" /\ Carries(ns, "linebreak", rhs[1].node) /\ rhs[1].token \in 0 .. t
        BY <1>2, Rules2To11 DEF Shape, Rule, Borne
    <2>2. Reduce(ns, Rules[r], rhs) = Result(ns, IF rhs = << >> THEN 0 ELSE rhs[1].node)
        BY <2>1, Handlers
    <2>6. rhs # << >>
        BY <1>a, <2>1
    <2>5. Reduce(ns, Rules[r], rhs) = Result(ns, rhs[1].node)
        BY <2>2, <2>6
    <2>3. Passes(ns, "linebreak", "program", rhs[1].node)
        BY Passed
    <2>4. QED
        BY <1>0, <2>1, <2>3, <2>5 DEF Kept, Result, Passes
<1>3. CASE r = 4
    <2>1. /\ Rules[r].handler = "list_append" /\ Rules[r].lhs = "complete_commands"
          /\ Len(rhs) = 3
          /\ rhs[1].type = "complete_commands" /\ Carries(ns, "complete_commands", rhs[1].node) /\ rhs[1].token \in 0 .. t
          /\ rhs[2].type = "newline_list" /\ Carries(ns, "newline_list", rhs[2].node) /\ rhs[2].token \in 0 .. t
          /\ rhs[3].type = "and_or" /\ Carries(ns, "and_or", rhs[3].node) /\ rhs[3].token \in 0 .. t
        BY <1>3, Rules2To11 DEF Shape, Rule, Borne
    <2>2. Reduce(ns, Rules[r], rhs) = ReduceListAppend(ns, rhs)
        BY <2>1, Handlers
    <2>3. rhs[1].node = 0
        BY <2>1 DEF Carries, Bearing, Pipelines, Commands, Arguments, Redirections
    <2>4. "and_or" \in Bearing
        BY DEF Bearing, Pipelines, Commands, Arguments, Redirections
    <2>5. rhs[Len(rhs)].node \in 1 .. Len(ns)
        BY <2>1, <2>4, CarriedIs
    <2>6. QED
        BY <2>1, <2>2, <2>3, <2>5, CompleteKept
<1>4. CASE r = 5
    <2>1. /\ Rules[r].handler = "none" /\ Rules[r].lhs = "complete_commands"
          /\ Len(rhs) = 1
          /\ rhs[1].type = "and_or" /\ Carries(ns, "and_or", rhs[1].node) /\ rhs[1].token \in 0 .. t
        BY <1>4, Rules2To11 DEF Shape, Rule, Borne
    <2>2. Reduce(ns, Rules[r], rhs) = Result(ns, IF rhs = << >> THEN 0 ELSE rhs[1].node)
        BY <2>1, Handlers
    <2>6. rhs # << >>
        BY <1>a, <2>1
    <2>5. Reduce(ns, Rules[r], rhs) = Result(ns, rhs[1].node)
        BY <2>2, <2>6
    <2>3. Passes(ns, "and_or", "complete_commands", rhs[1].node)
        BY Passed
    <2>4. QED
        BY <1>0, <2>1, <2>3, <2>5 DEF Kept, Result, Passes
<1>5. CASE r = 6
    <2>1. /\ Rules[r].handler = "none" /\ Rules[r].lhs = "and_or"
          /\ Len(rhs) = 1
          /\ rhs[1].type = "pipeline" /\ Carries(ns, "pipeline", rhs[1].node) /\ rhs[1].token \in 0 .. t
        BY <1>5, Rules2To11 DEF Shape, Rule, Borne
    <2>2. Reduce(ns, Rules[r], rhs) = Result(ns, IF rhs = << >> THEN 0 ELSE rhs[1].node)
        BY <2>1, Handlers
    <2>6. rhs # << >>
        BY <1>a, <2>1
    <2>5. Reduce(ns, Rules[r], rhs) = Result(ns, rhs[1].node)
        BY <2>2, <2>6
    <2>3. Passes(ns, "pipeline", "and_or", rhs[1].node)
        BY Passed
    <2>4. QED
        BY <1>0, <2>1, <2>3, <2>5 DEF Kept, Result, Passes
<1>6. CASE r = 7
    <2>1. /\ Rules[r].handler = "conditional" /\ Rules[r].lhs = "and_or"
          /\ Len(rhs) = 4
          /\ rhs[1].type = "and_or" /\ Carries(ns, "and_or", rhs[1].node) /\ rhs[1].token \in 0 .. t
          /\ rhs[2].type = "AND_IF" /\ Carries(ns, "AND_IF", rhs[2].node) /\ rhs[2].token \in 0 .. t
          /\ rhs[3].type = "linebreak" /\ Carries(ns, "linebreak", rhs[3].node) /\ rhs[3].token \in 0 .. t
          /\ rhs[4].type = "pipeline" /\ Carries(ns, "pipeline", rhs[4].node) /\ rhs[4].token \in 0 .. t
        BY <1>6, Rules2To11 DEF Shape, Rule, Borne
    <2>2. Reduce(ns, Rules[r], rhs) = ReduceConditional(ns, rhs)
        BY <2>1, Handlers
    <2>3. QED
        BY <2>1, <2>2, ConditionalKept
<1>7. CASE r = 8
    <2>1. /\ Rules[r].handler = "conditional" /\ Rules[r].lhs = "and_or"
          /\ Len(rhs) = 4
          /\ rhs[1].type = "and_or" /\ Carries(ns, "and_or", rhs[1].node) /\ rhs[1].token \in 0 .. t
          /\ rhs[2].type = "OR_IF" /\ Carries(ns, "OR_IF", rhs[2].node) /\ rhs[2].token \in 0 .. t
          /\ rhs[3].type = "linebreak" /\ Carries(ns, "linebreak", rhs[3].node) /\ rhs[3].token \in 0 .. t
          /\ rhs[4].type = "pipeline" /\ Carries(ns, "pipeline", rhs[4].node) /\ rhs[4].token \in 0 .. t
        BY <1>7, Rules2To11 DEF Shape, Rule, Borne
    <2>2. Reduce(ns, Rules[r], rhs) = ReduceConditional(ns, rhs)
        BY <2>1, Handlers
    <2>3. QED
        BY <2>1, <2>2, ConditionalKept
<1>8. CASE r = 9
    <2>1. /\ Rules[r].handler = "pipeline_create" /\ Rules[r].lhs = "pipeline"
          /\ Len(rhs) = 1
          /\ rhs[1].type = "command" /\ Carries(ns, "command", rhs[1].node) /\ rhs[1].token \in 0 .. t
        BY <1>8, Rules2To11 DEF Shape, Rule, Borne
    <2>2. Reduce(ns, Rules[r], rhs) = ReducePipelineCreate(ns, rhs)
        BY <2>1, Handlers
    <2>3. rhs[1].node \in 0 .. Len(ns)
        BY <2>1, CarriedIs
    <2>4. QED
        BY <2>1, <2>2, <2>3, PipelineCreateKept
<1>9. CASE r = 10
    <2>1. /\ Rules[r].handler = "pipeline_append" /\ Rules[r].lhs = "pipeline"
          /\ Len(rhs) = 4
          /\ rhs[1].type = "pipeline" /\ Carries(ns, "pipeline", rhs[1].node) /\ rhs[1].token \in 0 .. t
          /\ rhs[2].type = "PIPE" /\ Carries(ns, "PIPE", rhs[2].node) /\ rhs[2].token \in 0 .. t
          /\ rhs[3].type = "linebreak" /\ Carries(ns, "linebreak", rhs[3].node) /\ rhs[3].token \in 0 .. t
          /\ rhs[4].type = "command" /\ Carries(ns, "command", rhs[4].node) /\ rhs[4].token \in 0 .. t
        BY <1>9, Rules2To11 DEF Shape, Rule, Borne
    <2>2. Reduce(ns, Rules[r], rhs) = ReducePipelineAppend(ns, rhs)
        BY <2>1, Handlers
    <2>3. rhs[4].node \in 0 .. Len(ns)
        BY <2>1, CarriedIs
    <2>4. QED
        BY <2>1, <2>2, <2>3, PipelineAppendKept
<1>10. CASE r = 11
    <2>1. /\ Rules[r].handler = "none" /\ Rules[r].lhs = "command"
          /\ Len(rhs) = 1
          /\ rhs[1].type = "simple_command" /\ Carries(ns, "simple_command", rhs[1].node) /\ rhs[1].token \in 0 .. t
        BY <1>10, Rules2To11 DEF Shape, Rule, Borne
    <2>2. Reduce(ns, Rules[r], rhs) = Result(ns, IF rhs = << >> THEN 0 ELSE rhs[1].node)
        BY <2>1, Handlers
    <2>6. rhs # << >>
        BY <1>a, <2>1
    <2>5. Reduce(ns, Rules[r], rhs) = Result(ns, rhs[1].node)
        BY <2>2, <2>6
    <2>3. Passes(ns, "simple_command", "command", rhs[1].node)
        BY Passed
    <2>4. QED
        BY <1>0, <2>1, <2>3, <2>5 DEF Kept, Result, Passes
<1>11. CASE r = 12
    <2>1. /\ Rules[r].handler = "none" /\ Rules[r].lhs = "command"
          /\ Len(rhs) = 1
          /\ rhs[1].type = "subshell" /\ Carries(ns, "subshell", rhs[1].node) /\ rhs[1].token \in 0 .. t
        BY <1>11, Rules12To21 DEF Shape, Rule, Borne
    <2>2. Reduce(ns, Rules[r], rhs) = Result(ns, IF rhs = << >> THEN 0 ELSE rhs[1].node)
        BY <2>1, Handlers
    <2>6. rhs # << >>
        BY <1>a, <2>1
    <2>5. Reduce(ns, Rules[r], rhs) = Result(ns, rhs[1].node)
        BY <2>2, <2>6
    <2>3. Passes(ns, "subshell", "command", rhs[1].node)
        BY Passed
    <2>4. QED
        BY <1>0, <2>1, <2>3, <2>5 DEF Kept, Result, Passes
<1>12. CASE r = 13
    <2>1. /\ Rules[r].handler = "subshell_redirects" /\ Rules[r].lhs = "command"
          /\ Len(rhs) = 2
          /\ rhs[1].type = "subshell" /\ Carries(ns, "subshell", rhs[1].node) /\ rhs[1].token \in 0 .. t
          /\ rhs[2].type = "redirect_list" /\ Carries(ns, "redirect_list", rhs[2].node) /\ rhs[2].token \in 0 .. t
        BY <1>12, Rules12To21 DEF Shape, Rule, Borne
    <2>2. Reduce(ns, Rules[r], rhs) = ReduceSubshellRedirects(ns, rhs)
        BY <2>1, Handlers
    <2>3. rhs[2].node \in 0 .. Len(ns)
        BY <2>1, CarriedIs
    <2>4. QED
        BY <2>1, <2>2, <2>3, SubshellRedirectsKept
<1>13. CASE r = 14
    <2>1. /\ Rules[r].handler = "subshell" /\ Rules[r].lhs = "subshell"
          /\ Len(rhs) = 3
          /\ rhs[1].type = "OPAR" /\ Carries(ns, "OPAR", rhs[1].node) /\ rhs[1].token \in 0 .. t
          /\ rhs[2].type = "compound_list" /\ Carries(ns, "compound_list", rhs[2].node) /\ rhs[2].token \in 0 .. t
          /\ rhs[3].type = "CPAR" /\ Carries(ns, "CPAR", rhs[3].node) /\ rhs[3].token \in 0 .. t
        BY <1>13, Rules12To21 DEF Shape, Rule, Borne
    <2>2. Reduce(ns, Rules[r], rhs) = ReduceSubshell(ns, rhs)
        BY <2>1, Handlers
    <2>3. rhs[2].node \in 0 .. Len(ns)
        BY <2>1, CarriedIs
    <2>4. QED
        BY <2>1, <2>2, <2>3, SubshellKept
<1>14. CASE r = 15
    <2>1. /\ Rules[r].handler = "compound_list" /\ Rules[r].lhs = "compound_list"
          /\ Len(rhs) = 2
          /\ rhs[1].type = "linebreak" /\ Carries(ns, "linebreak", rhs[1].node) /\ rhs[1].token \in 0 .. t
          /\ rhs[2].type = "term" /\ Carries(ns, "term", rhs[2].node) /\ rhs[2].token \in 0 .. t
        BY <1>14, Rules12To21 DEF Shape, Rule, Borne
    <2>2. Reduce(ns, Rules[r], rhs) = Result(ns, rhs[2].node)
        BY <2>1, Handlers
    <2>3. Carries(ns, "compound_list", rhs[2].node)
        BY <2>1 DEF Carries, Kind, Bearing, Pipelines, Commands, Arguments, Redirections
    <2>4. QED
        BY <1>0, <2>1, <2>2, <2>3 DEF Kept, Result
<1>15. CASE r = 16
    <2>1. /\ Rules[r].handler = "compound_list" /\ Rules[r].lhs = "compound_list"
          /\ Len(rhs) = 3
          /\ rhs[1].type = "linebreak" /\ Carries(ns, "linebreak", rhs[1].node) /\ rhs[1].token \in 0 .. t
          /\ rhs[2].type = "term" /\ Carries(ns, "term", rhs[2].node) /\ rhs[2].token \in 0 .. t
          /\ rhs[3].type = "newline_list" /\ Carries(ns, "newline_list", rhs[3].node) /\ rhs[3].token \in 0 .. t
        BY <1>15, Rules12To21 DEF Shape, Rule, Borne
    <2>2. Reduce(ns, Rules[r], rhs) = Result(ns, rhs[2].node)
        BY <2>1, Handlers
    <2>3. Carries(ns, "compound_list", rhs[2].node)
        BY <2>1 DEF Carries, Kind, Bearing, Pipelines, Commands, Arguments, Redirections
    <2>4. QED
        BY <1>0, <2>1, <2>2, <2>3 DEF Kept, Result
<1>16. CASE r = 17
    <2>1. /\ Rules[r].handler = "list_append" /\ Rules[r].lhs = "term"
          /\ Len(rhs) = 3
          /\ rhs[1].type = "term" /\ Carries(ns, "term", rhs[1].node) /\ rhs[1].token \in 0 .. t
          /\ rhs[2].type = "newline_list" /\ Carries(ns, "newline_list", rhs[2].node) /\ rhs[2].token \in 0 .. t
          /\ rhs[3].type = "and_or" /\ Carries(ns, "and_or", rhs[3].node) /\ rhs[3].token \in 0 .. t
        BY <1>16, Rules12To21 DEF Shape, Rule, Borne
    <2>2. Reduce(ns, Rules[r], rhs) = ReduceListAppend(ns, rhs)
        BY <2>1, Handlers
    <2>3. "term" \in Bearing
        BY DEF Bearing, Pipelines, Commands, Arguments, Redirections
    <2>4. rhs[Len(rhs)].node \in 0 .. Len(ns)
        BY <2>1, CarriedIs
    <2>5. QED
        BY <2>1, <2>2, <2>3, <2>4, ListAppendKept
<1>17. CASE r = 18
    <2>1. /\ Rules[r].handler = "none" /\ Rules[r].lhs = "term"
          /\ Len(rhs) = 1
          /\ rhs[1].type = "and_or" /\ Carries(ns, "and_or", rhs[1].node) /\ rhs[1].token \in 0 .. t
        BY <1>17, Rules12To21 DEF Shape, Rule, Borne
    <2>2. Reduce(ns, Rules[r], rhs) = Result(ns, IF rhs = << >> THEN 0 ELSE rhs[1].node)
        BY <2>1, Handlers
    <2>6. rhs # << >>
        BY <1>a, <2>1
    <2>5. Reduce(ns, Rules[r], rhs) = Result(ns, rhs[1].node)
        BY <2>2, <2>6
    <2>3. Passes(ns, "and_or", "term", rhs[1].node)
        BY Passed
    <2>4. QED
        BY <1>0, <2>1, <2>3, <2>5 DEF Kept, Result, Passes
<1>18. CASE r = 19
    <2>1. /\ Rules[r].handler = "from_suffix" /\ Rules[r].lhs = "simple_command"
          /\ Len(rhs) = 3
          /\ rhs[1].type = "cmd_prefix" /\ Carries(ns, "cmd_prefix", rhs[1].node) /\ rhs[1].token \in 0 .. t
          /\ rhs[2].type = "cmd_word" /\ Carries(ns, "cmd_word", rhs[2].node) /\ rhs[2].token \in 0 .. t
          /\ rhs[3].type = "cmd_suffix" /\ Carries(ns, "cmd_suffix", rhs[3].node) /\ rhs[3].token \in 0 .. t
        BY <1>18, Rules12To21 DEF Shape, Rule, Borne
    <2>2. Reduce(ns, Rules[r], rhs) = ReduceFromSuffix(ns, rhs)
        BY <2>1, Handlers
    <2>3. Carries(ns, "cmd_suffix", rhs[Len(rhs)].node)
        BY <2>1
    <2>4. rhs[Len(rhs) - 1].node \in 0 .. Len(ns)
        BY <2>1, CarriedIs
    <2>5. rhs[1].node \in 0 .. Len(ns)
        BY <2>1, CarriedIs
    <2>7. (Len(rhs) = 2 \/ Len(rhs) = 3) /\ (Len(rhs) = 3 => rhs[1].node \in 0 .. Len(ns))
        BY <2>1, <2>5
    <2>6. QED
        BY <2>1, <2>2, <2>3, <2>4, <2>7, FromSuffixKept
<1>19. CASE r = 20
    <2>1. /\ Rules[r].handler = "simple" /\ Rules[r].lhs = "simple_command"
          /\ Len(rhs) = 2
          /\ rhs[1].type = "cmd_prefix" /\ Carries(ns, "cmd_prefix", rhs[1].node) /\ rhs[1].token \in 0 .. t
          /\ rhs[2].type = "cmd_word" /\ Carries(ns, "cmd_word", rhs[2].node) /\ rhs[2].token \in 0 .. t
        BY <1>19, Rules12To21 DEF Shape, Rule, Borne
    <2>2. Reduce(ns, Rules[r], rhs) = ReduceSimpleCommand(ns, rhs)
        BY <2>1, Handlers
    <2>3. rhs[1].node \in 0 .. Len(ns) /\ rhs[2].node \in 0 .. Len(ns)
        BY <2>1, CarriedIs
    <2>4. QED
        BY <2>1, <2>2, <2>3, SimpleKept
<1>20. CASE r = 21
    <2>1. /\ Rules[r].handler = "simple" /\ Rules[r].lhs = "simple_command"
          /\ Len(rhs) = 1
          /\ rhs[1].type = "cmd_prefix" /\ Carries(ns, "cmd_prefix", rhs[1].node) /\ rhs[1].token \in 0 .. t
        BY <1>20, Rules12To21 DEF Shape, Rule, Borne
    <2>2. Reduce(ns, Rules[r], rhs) = ReduceSimpleCommand(ns, rhs)
        BY <2>1, Handlers
    <2>3. rhs[1].node \in 0 .. Len(ns)
        BY <2>1, CarriedIs
    <2>4. QED
        BY <2>1, <2>2, <2>3, SimpleKept
<1>21. CASE r = 22
    <2>1. /\ Rules[r].handler = "from_suffix" /\ Rules[r].lhs = "simple_command"
          /\ Len(rhs) = 2
          /\ rhs[1].type = "cmd_name" /\ Carries(ns, "cmd_name", rhs[1].node) /\ rhs[1].token \in 0 .. t
          /\ rhs[2].type = "cmd_suffix" /\ Carries(ns, "cmd_suffix", rhs[2].node) /\ rhs[2].token \in 0 .. t
        BY <1>21, Rules22To31 DEF Shape, Rule, Borne
    <2>2. Reduce(ns, Rules[r], rhs) = ReduceFromSuffix(ns, rhs)
        BY <2>1, Handlers
    <2>3. Carries(ns, "cmd_suffix", rhs[Len(rhs)].node)
        BY <2>1
    <2>4. rhs[Len(rhs) - 1].node \in 0 .. Len(ns)
        BY <2>1, CarriedIs
    <2>7. (Len(rhs) = 2 \/ Len(rhs) = 3) /\ (Len(rhs) = 3 => rhs[1].node \in 0 .. Len(ns))
        BY <2>1
    <2>6. QED
        BY <2>1, <2>2, <2>3, <2>4, <2>7, FromSuffixKept
<1>22. CASE r = 23
    <2>1. /\ Rules[r].handler = "simple" /\ Rules[r].lhs = "simple_command"
          /\ Len(rhs) = 1
          /\ rhs[1].type = "cmd_name" /\ Carries(ns, "cmd_name", rhs[1].node) /\ rhs[1].token \in 0 .. t
        BY <1>22, Rules22To31 DEF Shape, Rule, Borne
    <2>2. Reduce(ns, Rules[r], rhs) = ReduceSimpleCommand(ns, rhs)
        BY <2>1, Handlers
    <2>3. rhs[1].node \in 0 .. Len(ns)
        BY <2>1, CarriedIs
    <2>4. QED
        BY <2>1, <2>2, <2>3, SimpleKept
<1>23. CASE r = 24
    <2>1. /\ Rules[r].handler = "from_term" /\ Rules[r].lhs = "cmd_name"
          /\ Len(rhs) = 1
          /\ rhs[1].type = "WORD" /\ Carries(ns, "WORD", rhs[1].node) /\ rhs[1].token \in 0 .. t
        BY <1>23, Rules22To31 DEF Shape, Rule, Borne
    <2>2. Reduce(ns, Rules[r], rhs) = ReduceFromTerm(ns, rhs, "cmd_name")
        BY <2>1, Handlers
    <2>3. rhs[Len(rhs)].token \in 0 .. t
        BY <2>1
    <2>4. QED
        BY <2>1, <2>2, <2>3, FromTermKept
<1>24. CASE r = 25
    <2>1. /\ Rules[r].handler = "from_term" /\ Rules[r].lhs = "cmd_word"
          /\ Len(rhs) = 1
          /\ rhs[1].type = "WORD" /\ Carries(ns, "WORD", rhs[1].node) /\ rhs[1].token \in 0 .. t
        BY <1>24, Rules22To31 DEF Shape, Rule, Borne
    <2>2. Reduce(ns, Rules[r], rhs) = ReduceFromTerm(ns, rhs, "cmd_word")
        BY <2>1, Handlers
    <2>3. rhs[Len(rhs)].token \in 0 .. t
        BY <2>1
    <2>4. QED
        BY <2>1, <2>2, <2>3, FromTermKept
<1>25. CASE r = 26
    <2>1. /\ Rules[r].handler = "none" /\ Rules[r].lhs = "cmd_prefix"
          /\ Len(rhs) = 1
          /\ rhs[1].type = "io_redirect" /\ Carries(ns, "io_redirect", rhs[1].node) /\ rhs[1].token \in 0 .. t
        BY <1>25, Rules22To31 DEF Shape, Rule, Borne
    <2>2. Reduce(ns, Rules[r], rhs) = Result(ns, IF rhs = << >> THEN 0 ELSE rhs[1].node)
        BY <2>1, Handlers
    <2>6. rhs # << >>
        BY <1>a, <2>1
    <2>5. Reduce(ns, Rules[r], rhs) = Result(ns, rhs[1].node)
        BY <2>2, <2>6
    <2>3. Passes(ns, "io_redirect", "cmd_prefix", rhs[1].node)
        BY Passed
    <2>4. QED
        BY <1>0, <2>1, <2>3, <2>5 DEF Kept, Result, Passes
<1>26. CASE r = 27
    <2>1. /\ Rules[r].handler = "redir_append" /\ Rules[r].lhs = "cmd_prefix"
          /\ Len(rhs) = 2
          /\ rhs[1].type = "cmd_prefix" /\ Carries(ns, "cmd_prefix", rhs[1].node) /\ rhs[1].token \in 0 .. t
          /\ rhs[2].type = "io_redirect" /\ Carries(ns, "io_redirect", rhs[2].node) /\ rhs[2].token \in 0 .. t
        BY <1>26, Rules22To31 DEF Shape, Rule, Borne
    <2>2. Reduce(ns, Rules[r], rhs) = ReduceListAppend(ns, rhs)
        BY <2>1, Handlers
    <2>3. "cmd_prefix" \in Bearing
        BY DEF Bearing, Pipelines, Commands, Arguments, Redirections
    <2>4. rhs[Len(rhs)].node \in 0 .. Len(ns)
        BY <2>1, CarriedIs
    <2>5. QED
        BY <2>1, <2>2, <2>3, <2>4, ListAppendKept
<1>27. CASE r = 28
    <2>1. /\ Rules[r].handler = "cmd_suffix" /\ Rules[r].lhs = "cmd_suffix"
          /\ Len(rhs) = 1
          /\ rhs[1].type = "io_redirect" /\ Carries(ns, "io_redirect", rhs[1].node) /\ rhs[1].token \in 0 .. t
        BY <1>27, Rules22To31 DEF Shape, Rule, Borne
    <2>2. Reduce(ns, Rules[r], rhs) = ReduceCmdSuffix(ns, rhs, "cmd_suffix")
        BY <2>1, Handlers
    <2>3. rhs[Len(rhs)].token \in 0 .. t /\ rhs[Len(rhs)].node \in 0 .. Len(ns)
        BY <2>1, CarriedIs
    <2>4. (Len(rhs) = 1 \/ Len(rhs) = 2) /\ (Len(rhs) = 2 => Carries(ns, "cmd_suffix", rhs[1].node))
        BY <2>1
    <2>5. QED
        BY <2>1, <2>2, <2>3, <2>4, CmdSuffixKept
<1>28. CASE r = 29
    <2>1. /\ Rules[r].handler = "cmd_suffix" /\ Rules[r].lhs = "cmd_suffix"
          /\ Len(rhs) = 2
          /\ rhs[1].type = "cmd_suffix" /\ Carries(ns, "cmd_suffix", rhs[1].node) /\ rhs[1].token \in 0 .. t
          /\ rhs[2].type = "io_redirect" /\ Carries(ns, "io_redirect", rhs[2].node) /\ rhs[2].token \in 0 .. t
        BY <1>28, Rules22To31 DEF Shape, Rule, Borne
    <2>2. Reduce(ns, Rules[r], rhs) = ReduceCmdSuffix(ns, rhs, "cmd_suffix")
        BY <2>1, Handlers
    <2>3. rhs[Len(rhs)].token \in 0 .. t /\ rhs[Len(rhs)].node \in 0 .. Len(ns)
        BY <2>1, CarriedIs
    <2>4. (Len(rhs) = 1 \/ Len(rhs) = 2) /\ (Len(rhs) = 2 => Carries(ns, "cmd_suffix", rhs[1].node))
        BY <2>1
    <2>5. QED
        BY <2>1, <2>2, <2>3, <2>4, CmdSuffixKept
<1>29. CASE r = 30
    <2>1. /\ Rules[r].handler = "cmd_suffix" /\ Rules[r].lhs = "cmd_suffix"
          /\ Len(rhs) = 1
          /\ rhs[1].type = "WORD" /\ Carries(ns, "WORD", rhs[1].node) /\ rhs[1].token \in 0 .. t
        BY <1>29, Rules22To31 DEF Shape, Rule, Borne
    <2>2. Reduce(ns, Rules[r], rhs) = ReduceCmdSuffix(ns, rhs, "cmd_suffix")
        BY <2>1, Handlers
    <2>3. rhs[Len(rhs)].token \in 0 .. t /\ rhs[Len(rhs)].node \in 0 .. Len(ns)
        BY <2>1, CarriedIs
    <2>4. (Len(rhs) = 1 \/ Len(rhs) = 2) /\ (Len(rhs) = 2 => Carries(ns, "cmd_suffix", rhs[1].node))
        BY <2>1
    <2>5. QED
        BY <2>1, <2>2, <2>3, <2>4, CmdSuffixKept
<1>30. CASE r = 31
    <2>1. /\ Rules[r].handler = "cmd_suffix" /\ Rules[r].lhs = "cmd_suffix"
          /\ Len(rhs) = 2
          /\ rhs[1].type = "cmd_suffix" /\ Carries(ns, "cmd_suffix", rhs[1].node) /\ rhs[1].token \in 0 .. t
          /\ rhs[2].type = "WORD" /\ Carries(ns, "WORD", rhs[2].node) /\ rhs[2].token \in 0 .. t
        BY <1>30, Rules22To31 DEF Shape, Rule, Borne
    <2>2. Reduce(ns, Rules[r], rhs) = ReduceCmdSuffix(ns, rhs, "cmd_suffix")
        BY <2>1, Handlers
    <2>3. rhs[Len(rhs)].token \in 0 .. t /\ rhs[Len(rhs)].node \in 0 .. Len(ns)
        BY <2>1, CarriedIs
    <2>4. (Len(rhs) = 1 \/ Len(rhs) = 2) /\ (Len(rhs) = 2 => Carries(ns, "cmd_suffix", rhs[1].node))
        BY <2>1
    <2>5. QED
        BY <2>1, <2>2, <2>3, <2>4, CmdSuffixKept
<1>31. CASE r = 32
    <2>1. /\ Rules[r].handler = "none" /\ Rules[r].lhs = "redirect_list"
          /\ Len(rhs) = 1
          /\ rhs[1].type = "io_redirect" /\ Carries(ns, "io_redirect", rhs[1].node) /\ rhs[1].token \in 0 .. t
        BY <1>31, Rules32To39 DEF Shape, Rule, Borne
    <2>2. Reduce(ns, Rules[r], rhs) = Result(ns, IF rhs = << >> THEN 0 ELSE rhs[1].node)
        BY <2>1, Handlers
    <2>6. rhs # << >>
        BY <1>a, <2>1
    <2>5. Reduce(ns, Rules[r], rhs) = Result(ns, rhs[1].node)
        BY <2>2, <2>6
    <2>3. Passes(ns, "io_redirect", "redirect_list", rhs[1].node)
        BY Passed
    <2>4. QED
        BY <1>0, <2>1, <2>3, <2>5 DEF Kept, Result, Passes
<1>32. CASE r = 33
    <2>1. /\ Rules[r].handler = "redir_append" /\ Rules[r].lhs = "redirect_list"
          /\ Len(rhs) = 2
          /\ rhs[1].type = "redirect_list" /\ Carries(ns, "redirect_list", rhs[1].node) /\ rhs[1].token \in 0 .. t
          /\ rhs[2].type = "io_redirect" /\ Carries(ns, "io_redirect", rhs[2].node) /\ rhs[2].token \in 0 .. t
        BY <1>32, Rules32To39 DEF Shape, Rule, Borne
    <2>2. Reduce(ns, Rules[r], rhs) = ReduceListAppend(ns, rhs)
        BY <2>1, Handlers
    <2>3. "redirect_list" \in Bearing
        BY DEF Bearing, Pipelines, Commands, Arguments, Redirections
    <2>4. rhs[Len(rhs)].node \in 0 .. Len(ns)
        BY <2>1, CarriedIs
    <2>5. QED
        BY <2>1, <2>2, <2>3, <2>4, ListAppendKept
<1>33. CASE r = 34
    <2>1. /\ Rules[r].handler = "none" /\ Rules[r].lhs = "io_redirect"
          /\ Len(rhs) = 1
          /\ rhs[1].type = "io_file" /\ Carries(ns, "io_file", rhs[1].node) /\ rhs[1].token \in 0 .. t
        BY <1>33, Rules32To39 DEF Shape, Rule, Borne
    <2>2. Reduce(ns, Rules[r], rhs) = Result(ns, IF rhs = << >> THEN 0 ELSE rhs[1].node)
        BY <2>1, Handlers
    <2>6. rhs # << >>
        BY <1>a, <2>1
    <2>5. Reduce(ns, Rules[r], rhs) = Result(ns, rhs[1].node)
        BY <2>2, <2>6
    <2>3. Passes(ns, "io_file", "io_redirect", rhs[1].node)
        BY Passed
    <2>4. QED
        BY <1>0, <2>1, <2>3, <2>5 DEF Kept, Result, Passes
<1>34. CASE r = 35
    <2>1. /\ Rules[r].handler = "none" /\ Rules[r].lhs = "io_redirect"
          /\ Len(rhs) = 1
          /\ rhs[1].type = "io_here" /\ Carries(ns, "io_here", rhs[1].node) /\ rhs[1].token \in 0 .. t
        BY <1>34, Rules32To39 DEF Shape, Rule, Borne
    <2>2. Reduce(ns, Rules[r], rhs) = Result(ns, IF rhs = << >> THEN 0 ELSE rhs[1].node)
        BY <2>1, Handlers
    <2>6. rhs # << >>
        BY <1>a, <2>1
    <2>5. Reduce(ns, Rules[r], rhs) = Result(ns, rhs[1].node)
        BY <2>2, <2>6
    <2>3. Passes(ns, "io_here", "io_redirect", rhs[1].node)
        BY Passed
    <2>4. QED
        BY <1>0, <2>1, <2>3, <2>5 DEF Kept, Result, Passes
<1>35. CASE r = 36
    <2>1. /\ Rules[r].handler = "io_file" /\ Rules[r].lhs = "io_file"
          /\ Len(rhs) = 2
          /\ rhs[1].type = "LESS" /\ Carries(ns, "LESS", rhs[1].node) /\ rhs[1].token \in 0 .. t
          /\ rhs[2].type = "filename" /\ Carries(ns, "filename", rhs[2].node) /\ rhs[2].token \in 0 .. t
        BY <1>35, Rules32To39 DEF Shape, Rule, Borne
    <2>2. Reduce(ns, Rules[r], rhs) = ReduceIoFile(ns, rhs)
        BY <2>1, Handlers
    <2>3. QED
        BY <2>1, <2>2, IoFileKept
<1>36. CASE r = 37
    <2>1. /\ Rules[r].handler = "io_file" /\ Rules[r].lhs = "io_file"
          /\ Len(rhs) = 2
          /\ rhs[1].type = "GREAT" /\ Carries(ns, "GREAT", rhs[1].node) /\ rhs[1].token \in 0 .. t
          /\ rhs[2].type = "filename" /\ Carries(ns, "filename", rhs[2].node) /\ rhs[2].token \in 0 .. t
        BY <1>36, Rules32To39 DEF Shape, Rule, Borne
    <2>2. Reduce(ns, Rules[r], rhs) = ReduceIoFile(ns, rhs)
        BY <2>1, Handlers
    <2>3. QED
        BY <2>1, <2>2, IoFileKept
<1>37. CASE r = 38
    <2>1. /\ Rules[r].handler = "io_file" /\ Rules[r].lhs = "io_file"
          /\ Len(rhs) = 2
          /\ rhs[1].type = "DGREAT" /\ Carries(ns, "DGREAT", rhs[1].node) /\ rhs[1].token \in 0 .. t
          /\ rhs[2].type = "filename" /\ Carries(ns, "filename", rhs[2].node) /\ rhs[2].token \in 0 .. t
        BY <1>37, Rules32To39 DEF Shape, Rule, Borne
    <2>2. Reduce(ns, Rules[r], rhs) = ReduceIoFile(ns, rhs)
        BY <2>1, Handlers
    <2>3. QED
        BY <2>1, <2>2, IoFileKept
<1>38. CASE r = 39
    <2>1. /\ Rules[r].handler = "from_term" /\ Rules[r].lhs = "filename"
          /\ Len(rhs) = 1
          /\ rhs[1].type = "WORD" /\ Carries(ns, "WORD", rhs[1].node) /\ rhs[1].token \in 0 .. t
        BY <1>38, Rules32To39 DEF Shape, Rule, Borne
    <2>2. Reduce(ns, Rules[r], rhs) = ReduceFromTerm(ns, rhs, "filename")
        BY <2>1, Handlers
    <2>3. rhs[Len(rhs)].token \in 0 .. t
        BY <2>1
    <2>4. QED
        BY <2>1, <2>2, <2>3, FromTermKept
<1>39. CASE r = 41
    <2>1. /\ Rules[r].handler = "none" /\ Rules[r].lhs = "here_end"
          /\ Len(rhs) = 1
          /\ rhs[1].type = "WORD" /\ Carries(ns, "WORD", rhs[1].node) /\ rhs[1].token \in 0 .. t
        BY <1>39, Rules40To45 DEF Shape, Rule, Borne
    <2>2. Reduce(ns, Rules[r], rhs) = Result(ns, IF rhs = << >> THEN 0 ELSE rhs[1].node)
        BY <2>1, Handlers
    <2>6. rhs # << >>
        BY <1>a, <2>1
    <2>5. Reduce(ns, Rules[r], rhs) = Result(ns, rhs[1].node)
        BY <2>2, <2>6
    <2>3. Passes(ns, "WORD", "here_end", rhs[1].node)
        BY Passed
    <2>4. QED
        BY <1>0, <2>1, <2>3, <2>5 DEF Kept, Result, Passes
<1>40. CASE r = 42
    <2>1. /\ Rules[r].handler = "none" /\ Rules[r].lhs = "newline_list"
          /\ Len(rhs) = 1
          /\ rhs[1].type = "NEWLINE" /\ Carries(ns, "NEWLINE", rhs[1].node) /\ rhs[1].token \in 0 .. t
        BY <1>40, Rules40To45 DEF Shape, Rule, Borne
    <2>2. Reduce(ns, Rules[r], rhs) = Result(ns, IF rhs = << >> THEN 0 ELSE rhs[1].node)
        BY <2>1, Handlers
    <2>6. rhs # << >>
        BY <1>a, <2>1
    <2>5. Reduce(ns, Rules[r], rhs) = Result(ns, rhs[1].node)
        BY <2>2, <2>6
    <2>3. Passes(ns, "NEWLINE", "newline_list", rhs[1].node)
        BY Passed
    <2>4. QED
        BY <1>0, <2>1, <2>3, <2>5 DEF Kept, Result, Passes
<1>41. CASE r = 43
    <2>1. /\ Rules[r].handler = "none" /\ Rules[r].lhs = "newline_list"
          /\ Len(rhs) = 2
          /\ rhs[1].type = "newline_list" /\ Carries(ns, "newline_list", rhs[1].node) /\ rhs[1].token \in 0 .. t
          /\ rhs[2].type = "NEWLINE" /\ Carries(ns, "NEWLINE", rhs[2].node) /\ rhs[2].token \in 0 .. t
        BY <1>41, Rules40To45 DEF Shape, Rule, Borne
    <2>2. Reduce(ns, Rules[r], rhs) = Result(ns, IF rhs = << >> THEN 0 ELSE rhs[1].node)
        BY <2>1, Handlers
    <2>6. rhs # << >>
        BY <1>a, <2>1
    <2>5. Reduce(ns, Rules[r], rhs) = Result(ns, rhs[1].node)
        BY <2>2, <2>6
    <2>3. Passes(ns, "newline_list", "newline_list", rhs[1].node)
        BY Passed
    <2>4. QED
        BY <1>0, <2>1, <2>3, <2>5 DEF Kept, Result, Passes
<1>42. CASE r = 44
    <2>1. /\ Rules[r].handler = "none" /\ Rules[r].lhs = "linebreak"
          /\ Len(rhs) = 1
          /\ rhs[1].type = "newline_list" /\ Carries(ns, "newline_list", rhs[1].node) /\ rhs[1].token \in 0 .. t
        BY <1>42, Rules40To45 DEF Shape, Rule, Borne
    <2>2. Reduce(ns, Rules[r], rhs) = Result(ns, IF rhs = << >> THEN 0 ELSE rhs[1].node)
        BY <2>1, Handlers
    <2>6. rhs # << >>
        BY <1>a, <2>1
    <2>5. Reduce(ns, Rules[r], rhs) = Result(ns, rhs[1].node)
        BY <2>2, <2>6
    <2>3. Passes(ns, "newline_list", "linebreak", rhs[1].node)
        BY Passed
    <2>4. QED
        BY <1>0, <2>1, <2>3, <2>5 DEF Kept, Result, Passes
<1>43. CASE r = 45
    <2>1. /\ Rules[r].handler = "none" /\ Rules[r].lhs = "linebreak"
          /\ rhs = << >>
        BY <1>43, Rules40To45 DEF Shape, Rule, Borne
    <2>2. Reduce(ns, Rules[r], rhs) = Result(ns, IF rhs = << >> THEN 0 ELSE rhs[1].node)
        BY <2>1, Handlers
    <2>3. QED
        BY <1>0, <2>1, <2>2 DEF Kept, Result, Carries, Bearing, Pipelines, Commands, Arguments, Redirections
<1>44. QED
    BY <1>1, <1>2, <1>3, <1>4, <1>5, <1>6, <1>7, <1>8, <1>9, <1>10, <1>11, <1>12, <1>13, <1>14, <1>15, <1>16, <1>17, <1>18, <1>19, <1>20, <1>21, <1>22, <1>23, <1>24, <1>25, <1>26, <1>27, <1>28, <1>29, <1>30, <1>31, <1>32, <1>33, <1>34, <1>35, <1>36, <1>37, <1>38, <1>39, <1>40, <1>41, <1>42, <1>43

-------------------------------------------------------------------------------
(* The invariant                                                              *)

Texts == Words \cup Delims \cup Signs

\* The variables that the rest takes for granted.
Shapes ==
    /\ mode \in Modes
    /\ line \in [text : Seq(Texts), at : Nat, whole : BOOLEAN, null : BOOLEAN]
    /\ tokens \in Seq(Texts)
    /\ parse \in [flags : SUBSET Flags, tok : Nat, look : Terminals, state : States, root : Nat]
    /\ body \in [on : BOOLEAN, fd : Int, writable : BOOLEAN]
    /\ docs \in Seq([lines : Seq(Seq(Delims)), opened : BOOLEAN])
    /\ ran \in Seq(Nat)
    /\ phase \in {"parse", "final", "over"}
    /\ fault \in {"none", "null", "overrun", "loop"}

\* The state after the first i symbols of a stack.
Under(st, i) == IF i = 0 THEN 0 ELSE st[i].state

\* The stack is a path of the automaton.
StackPath(st) ==
    /\ st \in Seq(Symbol)
    /\ \A i \in 1 .. Len(st) :
        Leads(Under(st, i - 1), st[i].state, st[i].type) /\ st[i].type # "EOF"

\* It ends in the state of the parser, unless the text has been accepted.
Path ==
    /\ StackPath(stack)
    /\ parse.state = IF "DONE" \in parse.flags THEN YyFinal ELSE Under(stack, Len(stack))
    /\ "DONE" \in parse.flags => phase = "over" /\ Under(stack, Len(stack)) = 2

\* Each symbol of a stack has the node it should; the last may be a complete command.
Held(ns, st, root, t) ==
    \A i \in 1 .. Len(st) :
        /\ st[i].token <= t
        /\ IF i = Len(st) /\ root # 0 THEN st[i].node <= Len(ns)
           ELSE Carries(ns, st[i].type, st[i].node)

Bear ==
    /\ Arena(nodes, Len(tokens), Len(docs))
    /\ Held(nodes, stack, parse.root, Len(tokens))
    /\ parse.root \in 0 .. Len(nodes)
    /\ parse.root # 0 => phase # "over" /\ stack # << >> /\ Top.type = "complete_commands"

\* Tokens are put aside: they are not for the automaton yet.
PutAside == phase = "parse" /\ parse.flags \cap {"SAVE_TOKENS", "HERE_BODY"} # {}

\* The last token that the automaton has taken.
Consumed ==
    IF PutAside THEN Top.token
    ELSE IF "HAS_LOOKAHEAD" \in parse.flags THEN parse.tok - 1 ELSE parse.tok

\* The tokens from i on are the rest of one line.
OneLine(i) ==
    /\ i <= Len(tokens) /\ tokens[Len(tokens)] = "nl"
    /\ \A k \in i .. Len(tokens) - 1 : tokens[k] # "nl"

\* Where the next token comes from.
Flow ==
    /\ parse.tok <= Len(tokens)
    /\ phase = "parse" =>
        /\ "HAS_LOOKAHEAD" \in parse.flags =>
            parse.tok >= 1 /\ parse.look = ClassifyToken(tokens[parse.tok])
        /\ "HAS_SAVED_TOKENS" \notin parse.flags => parse.tok = Len(tokens)
        /\ {"HAS_SAVED_TOKENS", "HAS_LOOKAHEAD"} \subseteq parse.flags => tokens[parse.tok] # "nl"
        /\ "HAS_SAVED_TOKENS" \in parse.flags /\ "HERE_BODY" \notin parse.flags
            => OneLine(parse.tok + 1)
        /\ "HERE_BODY" \in parse.flags =>
            /\ "HAS_LOOKAHEAD" \notin parse.flags /\ "HAS_SAVED_TOKENS" \in parse.flags
            /\ "SAVE_TOKENS" \notin parse.flags
    /\ phase = "final" =>
        /\ parse.look = "EOF" /\ parse.tok = Len(tokens)
        /\ parse.flags \cap {"HAS_LOOKAHEAD", "HERE_BODY", "HAS_SAVED_TOKENS"} = {}
    /\ phase = "over" => "HERE_BODY" \notin parse.flags
    /\ "DONE" \in parse.flags => parse.tok = Len(tokens) /\ "HAS_LOOKAHEAD" \notin parse.flags

\* What is put aside is the rest of the line, after a here-document.
Saved ==
    PutAside =>
        /\ parse.root = 0 /\ stack # << >> /\ Top.type = "io_here"
        /\ Top.token >= 1 /\ nodes[Top.node].token = Top.token
        /\ "SAVE_TOKENS" \in parse.flags =>
            /\ Top.token < parse.tok
            /\ \A k \in Top.token + 1 .. parse.tok :
                tokens[k] = "nl" => k = parse.tok /\ "HAS_LOOKAHEAD" \in parse.flags
        /\ "HERE_BODY" \in parse.flags /\ ~line.whole => OneLine(Top.token + 1)

\* How much of the line has been read.
Lines ==
    /\ line.at \in 1 .. Len(line.text) + 1
    /\ phase = "parse" =>
        IF line.whole
        THEN "HERE_BODY" \in parse.flags /\ ~line.null /\ line.at = 1
        ELSE /\ line.at = Len(line.text) + 1
             /\ line.null \/ EndsInNewline(line.text) \/ "HERE_BODY" \in parse.flags
                => EndsInNewline(tokens)

\* Where the symbol on top of the stack ends in the text.
Ends ==
    phase # "over" /\ stack # << >> =>
        /\ Top.type \notin {"linebreak", "program"} => Top.token = Consumed
        /\ Top.type \in Terminals \cup {"here_end"} => Top.token >= 1
        /\ Top.type \in Terminals => ClassifyToken(tokens[Top.token]) = Top.type
        /\ phase = "parse" /\ Top.type = "here_end" => "HAS_LOOKAHEAD" \in parse.flags

\* When nothing but newlines is left on the stack, all commands have been run.
Blank == {"NEWLINE", "newline_list", "linebreak", "complete_commands", "program"}
AllBlank(st) == \A i \in 1 .. Len(st) : st[i].type \in Blank

Blanks ==
    (phase # "over" \/ "DONE" \in parse.flags) /\ parse.root = 0 /\ AllBlank(stack) =>
        /\ nodes = << >>
        /\ \A k \in Mark + 1 .. Consumed : tokens[k] = "nl"

\* What is open while commands are parsed.
InUse ==
    ({0} \cup HereFds(nodes) \cup (IF body.on THEN {body.fd} ELSE {})) \ {-1}

\* The descriptors of here-documents.
Documents ==
    /\ body.fd \in -1 .. Len(docs) /\ body.fd # 0
    /\ open \subseteq 0 .. Len(docs)
    /\ body.on => "HERE_BODY" \in parse.flags /\ phase = "parse"
    /\ PutAside => Top.node \in HereNodes(nodes) /\ nodes[Top.node].fd = 0
    /\ ~Unended =>
        /\ phase = "over" => open = {0}
        /\ phase = "final" => parse.state \notin {27, 28}
        /\ phase # "over" =>
            /\ open = InUse
            /\ \A i \in HereNodes(nodes) : nodes[i].fd = 0 => PutAside /\ i = Top.node

\* The inductive invariant.
Inv == Shapes /\ Path /\ Bear /\ Flow /\ Saved /\ Lines /\ Ends /\ Blanks /\ Documents

-------------------------------------------------------------------------------
(* Paths of the automaton                                                     *)

\* The classes of tokens.
LEMMA ClassesKnown ==
    \A t : /\ ClassifyToken(t) \in Terminals /\ ClassifyToken(t) # "EOF"
           /\ (ClassifyToken(t) = "NEWLINE") <=> (t = "nl")
<1>1. ASSUME NEW t PROVE ClassifyToken(t) \in Terminals
    BY DEF ClassifyToken, Terminals, Symbols, SymbolType
<1>2. ASSUME NEW t PROVE ClassifyToken(t) # "EOF"
    BY DEF ClassifyToken
<1>3. ASSUME NEW t PROVE (ClassifyToken(t) = "NEWLINE") <=> (t = "nl")
    BY DEF ClassifyToken
<1>4. QED
    BY <1>1, <1>2, <1>3

\* Where the states that matter by name are on the path.
LEMMA Landmarks ==
    ASSUME NEW s, NEW t, NEW x, Leads(s, t, x)
    PROVE  /\ t \in States \ {0} /\ s \in States
           /\ t = 5 => s = 2 /\ x = "EOF"
           /\ x = "EOF" => t = 5
           /\ t = 2 => s = 0 /\ x = "program"
           /\ t = 4 => s = 0 /\ x = "linebreak"
           /\ x = "complete_commands" => s = 4
           /\ t = 27 => x = "WORD"
           /\ (t = 28) <=> (x = "here_end")
           /\ s # 27 /\ s # 28
<1>1. t \in States /\ s \in Below[t] /\ Entry[t] = x
    BY DEF Leads
<1>2. t # 0
    BY <1>1 DEF Below, Table
<1>3. s \in States /\ s # 27 /\ s # 28
    BY <1>1, SMTT(60) DEF States, Below, Table, CommandStarts, RedirStarts, BreakStarts
<1>4. /\ t = 5 => s = 2 /\ x = "EOF"
      /\ t = 2 => s = 0 /\ x = "program"
      /\ t = 4 => s = 0 /\ x = "linebreak"
      /\ t = 13 => s = 4
      /\ t = 27 => x = "WORD"
      /\ t = 28 => x = "here_end"
    BY <1>1 DEF Below, Entry, Table
<1>5. /\ x = "EOF" => t \in {0, 5}
      /\ x = "complete_commands" => t = 13
      /\ x = "here_end" => t = 28
    BY <1>1, SMTT(60) DEF States, Entry, Table
<1>6. QED
    BY <1>1, <1>2, <1>3, <1>4, <1>5

\* The states of a path.
LEMMA OnPath ==
    ASSUME NEW st, StackPath(st)
    PROVE  /\ \A i \in 1 .. Len(st) : Under(st, i) \in States \ {0, 5}
           /\ \A i \in 0 .. Len(st) : Under(st, i) \in States \ {5}
           /\ Len(st) \in Nat
<1>1. ASSUME NEW i \in 1 .. Len(st) PROVE Under(st, i) \in States \ {0, 5}
    <2>1. Leads(Under(st, i - 1), st[i].state, st[i].type) /\ st[i].type # "EOF"
        BY DEF StackPath
    <2>2. Under(st, i) = st[i].state
        BY DEF Under
    <2>3. QED
        BY <2>1, <2>2, Landmarks
<1>2. Under(st, 0) = 0
    BY DEF Under
<1>3. Len(st) \in Nat
    BY DEF StackPath
<1>4. \A i \in 0 .. Len(st) : i = 0 \/ i \in 1 .. Len(st)
    BY <1>3
<1>5. 0 \in States \ {5}
    BY DEF States
<1>6. QED
    BY <1>1, <1>2, <1>3, <1>4, <1>5

\* One step down.
LEMMA Down ==
    ASSUME NEW st, StackPath(st), NEW i \in 0 .. Len(st), NEW a, a # "EOF",
           Entry[Under(st, i)] = a
    PROVE  i \in 1 .. Len(st) /\ st[i].type = a /\ Under(st, i - 1) \in Below[Under(st, i)]
<1>1. Len(st) \in Nat
    BY OnPath
<1>2. i # 0
    BY DEF Under, Entry, Table
<1>3. i \in 1 .. Len(st)
    BY <1>1, <1>2
<1>4. Leads(Under(st, i - 1), st[i].state, st[i].type) /\ Under(st, i) = st[i].state
    BY <1>3 DEF StackPath, Under
<1>5. QED
    BY <1>3, <1>4 DEF Leads

\* What each rule is.
RuleKnown(r) ==
    LET x == Rules[r].lhs
        w == Rhs[r]
    IN /\ Rules[r].len = Len(w) /\ Len(w) \in 0 .. 4 /\ x \in Symbols \ Terminals
       /\ \A k \in 1 .. Len(w) : w[k] # "EOF"
       /\ (Rules[r].handler = "io_here") <=> (r = 40)
       /\ (x = "io_here") <=> (r = 40)
       /\ (x = "here_end") <=> (r = 41)
       /\ x = "here_end" => Len(w) = 1 /\ w[1] = "WORD"
       /\ x = "complete_commands" => Len(w) > 0 /\ w[Len(w)] = "and_or"
       /\ x \notin {"linebreak", "program"} =>
            Len(w) > 0 /\ w[Len(w)] \notin {"linebreak", "program"}
       /\ x \in Blank /\ x # "complete_commands" =>
            /\ Rules[r].handler \in {"none", "program"}
            /\ \A k \in 1 .. Len(w) : w[k] \in Blank

\* Every rule is so.
LEMMA RulesKnown == \A r \in 2 .. 45 : RuleKnown(r)
<1> SUFFICES ASSUME NEW r \in 2 .. 45 PROVE RuleKnown(r)
    OBVIOUS
<1>1. CASE r = 2
    BY <1>1, Rules2To11, SMTT(60) DEF RuleKnown, Shape, Rule, Symbols, Terminals, SymbolType, Blank
<1>2. CASE r = 3
    BY <1>2, Rules2To11, SMTT(60) DEF RuleKnown, Shape, Rule, Symbols, Terminals, SymbolType, Blank
<1>3. CASE r = 4
    BY <1>3, Rules2To11, SMTT(60) DEF RuleKnown, Shape, Rule, Symbols, Terminals, SymbolType, Blank
<1>4. CASE r = 5
    BY <1>4, Rules2To11, SMTT(60) DEF RuleKnown, Shape, Rule, Symbols, Terminals, SymbolType, Blank
<1>5. CASE r = 6
    BY <1>5, Rules2To11, SMTT(60) DEF RuleKnown, Shape, Rule, Symbols, Terminals, SymbolType, Blank
<1>6. CASE r = 7
    BY <1>6, Rules2To11, SMTT(60) DEF RuleKnown, Shape, Rule, Symbols, Terminals, SymbolType, Blank
<1>7. CASE r = 8
    BY <1>7, Rules2To11, SMTT(60) DEF RuleKnown, Shape, Rule, Symbols, Terminals, SymbolType, Blank
<1>8. CASE r = 9
    BY <1>8, Rules2To11, SMTT(60) DEF RuleKnown, Shape, Rule, Symbols, Terminals, SymbolType, Blank
<1>9. CASE r = 10
    BY <1>9, Rules2To11, SMTT(60) DEF RuleKnown, Shape, Rule, Symbols, Terminals, SymbolType, Blank
<1>10. CASE r = 11
    BY <1>10, Rules2To11, SMTT(60) DEF RuleKnown, Shape, Rule, Symbols, Terminals, SymbolType, Blank
<1>11. CASE r = 12
    BY <1>11, Rules12To21, SMTT(60) DEF RuleKnown, Shape, Rule, Symbols, Terminals, SymbolType, Blank
<1>12. CASE r = 13
    BY <1>12, Rules12To21, SMTT(60) DEF RuleKnown, Shape, Rule, Symbols, Terminals, SymbolType, Blank
<1>13. CASE r = 14
    BY <1>13, Rules12To21, SMTT(60) DEF RuleKnown, Shape, Rule, Symbols, Terminals, SymbolType, Blank
<1>14. CASE r = 15
    BY <1>14, Rules12To21, SMTT(60) DEF RuleKnown, Shape, Rule, Symbols, Terminals, SymbolType, Blank
<1>15. CASE r = 16
    BY <1>15, Rules12To21, SMTT(60) DEF RuleKnown, Shape, Rule, Symbols, Terminals, SymbolType, Blank
<1>16. CASE r = 17
    BY <1>16, Rules12To21, SMTT(60) DEF RuleKnown, Shape, Rule, Symbols, Terminals, SymbolType, Blank
<1>17. CASE r = 18
    BY <1>17, Rules12To21, SMTT(60) DEF RuleKnown, Shape, Rule, Symbols, Terminals, SymbolType, Blank
<1>18. CASE r = 19
    BY <1>18, Rules12To21, SMTT(60) DEF RuleKnown, Shape, Rule, Symbols, Terminals, SymbolType, Blank
<1>19. CASE r = 20
    BY <1>19, Rules12To21, SMTT(60) DEF RuleKnown, Shape, Rule, Symbols, Terminals, SymbolType, Blank
<1>20. CASE r = 21
    BY <1>20, Rules12To21, SMTT(60) DEF RuleKnown, Shape, Rule, Symbols, Terminals, SymbolType, Blank
<1>21. CASE r = 22
    BY <1>21, Rules22To31, SMTT(60) DEF RuleKnown, Shape, Rule, Symbols, Terminals, SymbolType, Blank
<1>22. CASE r = 23
    BY <1>22, Rules22To31, SMTT(60) DEF RuleKnown, Shape, Rule, Symbols, Terminals, SymbolType, Blank
<1>23. CASE r = 24
    BY <1>23, Rules22To31, SMTT(60) DEF RuleKnown, Shape, Rule, Symbols, Terminals, SymbolType, Blank
<1>24. CASE r = 25
    BY <1>24, Rules22To31, SMTT(60) DEF RuleKnown, Shape, Rule, Symbols, Terminals, SymbolType, Blank
<1>25. CASE r = 26
    BY <1>25, Rules22To31, SMTT(60) DEF RuleKnown, Shape, Rule, Symbols, Terminals, SymbolType, Blank
<1>26. CASE r = 27
    BY <1>26, Rules22To31, SMTT(60) DEF RuleKnown, Shape, Rule, Symbols, Terminals, SymbolType, Blank
<1>27. CASE r = 28
    BY <1>27, Rules22To31, SMTT(60) DEF RuleKnown, Shape, Rule, Symbols, Terminals, SymbolType, Blank
<1>28. CASE r = 29
    BY <1>28, Rules22To31, SMTT(60) DEF RuleKnown, Shape, Rule, Symbols, Terminals, SymbolType, Blank
<1>29. CASE r = 30
    BY <1>29, Rules22To31, SMTT(60) DEF RuleKnown, Shape, Rule, Symbols, Terminals, SymbolType, Blank
<1>30. CASE r = 31
    BY <1>30, Rules22To31, SMTT(60) DEF RuleKnown, Shape, Rule, Symbols, Terminals, SymbolType, Blank
<1>31. CASE r = 32
    BY <1>31, Rules32To39, SMTT(60) DEF RuleKnown, Shape, Rule, Symbols, Terminals, SymbolType, Blank
<1>32. CASE r = 33
    BY <1>32, Rules32To39, SMTT(60) DEF RuleKnown, Shape, Rule, Symbols, Terminals, SymbolType, Blank
<1>33. CASE r = 34
    BY <1>33, Rules32To39, SMTT(60) DEF RuleKnown, Shape, Rule, Symbols, Terminals, SymbolType, Blank
<1>34. CASE r = 35
    BY <1>34, Rules32To39, SMTT(60) DEF RuleKnown, Shape, Rule, Symbols, Terminals, SymbolType, Blank
<1>35. CASE r = 36
    BY <1>35, Rules32To39, SMTT(60) DEF RuleKnown, Shape, Rule, Symbols, Terminals, SymbolType, Blank
<1>36. CASE r = 37
    BY <1>36, Rules32To39, SMTT(60) DEF RuleKnown, Shape, Rule, Symbols, Terminals, SymbolType, Blank
<1>37. CASE r = 38
    BY <1>37, Rules32To39, SMTT(60) DEF RuleKnown, Shape, Rule, Symbols, Terminals, SymbolType, Blank
<1>38. CASE r = 39
    BY <1>38, Rules32To39, SMTT(60) DEF RuleKnown, Shape, Rule, Symbols, Terminals, SymbolType, Blank
<1>39. CASE r = 40
    BY <1>39, Rules40To45, SMTT(60) DEF RuleKnown, Shape, Rule, Symbols, Terminals, SymbolType, Blank
<1>40. CASE r = 41
    BY <1>40, Rules40To45, SMTT(60) DEF RuleKnown, Shape, Rule, Symbols, Terminals, SymbolType, Blank
<1>41. CASE r = 42
    <2>1. /\ Rules[r].handler = "none" /\ Rules[r].len = 1 /\ Rules[r].lhs = "newline_list"
          /\ Len(Rhs[r]) = 1 /\ Rhs[r][1] = "NEWLINE"
        BY <1>41, Rules40To45 DEF Shape, Rule
    <2>2. QED
        BY <1>41, <2>1 DEF RuleKnown, Symbols, Terminals, SymbolType, Blank
<1>42. CASE r = 43
    <2>1. /\ Rules[r].handler = "none" /\ Rules[r].len = 2 /\ Rules[r].lhs = "newline_list"
          /\ Len(Rhs[r]) = 2 /\ Rhs[r][1] = "newline_list" /\ Rhs[r][2] = "NEWLINE"
        BY <1>42, Rules40To45 DEF Shape, Rule
    <2>2. QED
        BY <1>42, <2>1 DEF RuleKnown, Symbols, Terminals, SymbolType, Blank
<1>43. CASE r = 44
    BY <1>43, Rules40To45, SMTT(60) DEF RuleKnown, Shape, Rule, Symbols, Terminals, SymbolType, Blank
<1>44. CASE r = 45
    BY <1>44, Rules40To45, SMTT(60) DEF RuleKnown, Shape, Rule, Symbols, Terminals, SymbolType, Blank
<1>0. QED
    BY <1>1, <1>2, <1>3, <1>4, <1>5, <1>6, <1>7, <1>8, <1>9, <1>10, <1>11, <1>12, <1>13, <1>14, <1>15, <1>16, <1>17, <1>18, <1>19, <1>20, <1>21, <1>22, <1>23, <1>24, <1>25, <1>26, <1>27, <1>28, <1>29, <1>30, <1>31, <1>32, <1>33, <1>34, <1>35, <1>36, <1>37, <1>38, <1>39, <1>40, <1>41, <1>42, <1>43, <1>44

\* The symbols of w are on top of a stack.
OnTop(st, w) ==
    /\ Len(w) <= Len(st)
    /\ \A k \in 1 .. Len(w) : st[Len(st) - Len(w) + k].type = w[k]

\* A right-hand side is on top of a path that ends in a state with its rule, and there is
\* a state for the left-hand side when it is popped.
THEOREM PathDown ==
    ASSUME NEW st, StackPath(st), NEW r, r = YyDefAct[Under(st, Len(st))], r # 0
    PROVE  /\ r \in 2 .. 45 /\ OnTop(st, Rhs[r])
           /\ Lands(Under(st, Len(st) - Len(Rhs[r])), Rules[r].lhs)
<1>0. PICK L \in Nat : L = Len(st)
    BY OnPath
<1>1. PICK u : L = Len(st) /\ u = Under(st, L)
    BY <1>0
<1>2. u \in States \ {YyFinal}
    BY <1>1, OnPath DEF YyFinal
<1>3. r \in 2 .. 45 /\ Fits(u, r) /\ RuleKnown(r)
    BY <1>1, <1>2, Reductions, RulesKnown
<1>4. PICK w, x : w = Rhs[r] /\ x = Rules[r].lhs
    OBVIOUS
<1>5. Len(w) \in 0 .. 4 /\ \A k \in 1 .. Len(w) : w[k] # "EOF"
    BY <1>3, <1>4 DEF RuleKnown
<1>6. ASSUME NEW i \in 0 .. L, NEW a, a # "EOF", Entry[Under(st, i)] = a
      PROVE  i >= 1 /\ st[i].type = a /\ Under(st, i - 1) \in Below[Under(st, i)]
    BY <1>1, <1>6, Down
<1> DEFINE Fit == /\ Len(w) <= L
                  /\ \A k \in 1 .. Len(w) : st[L - Len(w) + k].type = w[k]
                  /\ Lands(Under(st, L - Len(w)), x)
<1>7. ASSUME Len(w) = 0 PROVE Fit
    <2>1. Lands(u, x)
        BY <1>3, <1>4, <1>7 DEF Fits
    <2>2. L - 0 = L
        OBVIOUS
    <2>3. QED
        BY <1>1, <1>7, <2>1, <2>2
<1>8. ASSUME Len(w) = 1 PROVE Fit
    <2>1. Fits1(u, x, w[1]) /\ w[1] # "EOF"
        BY <1>3, <1>4, <1>5, <1>8 DEF Fits
    <2>2. L >= 1 /\ st[L].type = w[1] /\ Under(st, L - 1) \in Below[u]
        BY <1>1, <1>6, <2>1 DEF Fits1
    <2>3. Lands(Under(st, L - 1), x)
        BY <2>1, <2>2 DEF Fits1
    <2>4. QED
        BY <1>1, <1>8, <2>2, <2>3
<1>9. ASSUME Len(w) = 2 PROVE Fit
    <2>1. Fits2(u, x, w[1], w[2]) /\ w[1] # "EOF" /\ w[2] # "EOF"
        BY <1>3, <1>4, <1>5, <1>9 DEF Fits
    <2>2. L >= 1 /\ st[L].type = w[2] /\ Under(st, L - 1) \in Below[u]
        BY <1>1, <1>6, <2>1 DEF Fits2
    <2>3. Fits1(Under(st, L - 1), x, w[1])
        BY <2>1, <2>2 DEF Fits2
    <2>4. L - 1 \in 0 .. L
        BY <2>2
    <2>5. /\ L - 1 >= 1 /\ st[L - 1].type = w[1]
          /\ Under(st, (L - 1) - 1) \in Below[Under(st, L - 1)]
        BY <1>6, <2>1, <2>3, <2>4 DEF Fits1
    <2>6. (L - 1) - 1 = L - 2
        OBVIOUS
    <2>7. Lands(Under(st, L - 2), x)
        BY <2>3, <2>5, <2>6 DEF Fits1
    <2>8. QED
        BY <1>1, <1>9, <2>2, <2>5, <2>7
<1>10. ASSUME Len(w) = 3 PROVE Fit
    <2>1. Fits3(u, x, w[1], w[2], w[3]) /\ w[1] # "EOF" /\ w[2] # "EOF" /\ w[3] # "EOF"
        BY <1>3, <1>4, <1>5, <1>10 DEF Fits
    <2>2. L >= 1 /\ st[L].type = w[3] /\ Under(st, L - 1) \in Below[u]
        BY <1>1, <1>6, <2>1 DEF Fits3
    <2>3. Fits2(Under(st, L - 1), x, w[1], w[2])
        BY <2>1, <2>2 DEF Fits3
    <2>4. L - 1 \in 0 .. L
        BY <2>2
    <2>5. /\ L - 1 >= 1 /\ st[L - 1].type = w[2]
          /\ Under(st, (L - 1) - 1) \in Below[Under(st, L - 1)]
        BY <1>6, <2>1, <2>3, <2>4 DEF Fits2
    <2>6. (L - 1) - 1 = L - 2
        OBVIOUS
    <2>7. Fits1(Under(st, L - 2), x, w[1])
        BY <2>3, <2>5, <2>6 DEF Fits2
    <2>8. L - 2 \in 0 .. L
        BY <2>5
    <2>9. /\ L - 2 >= 1 /\ st[L - 2].type = w[1]
          /\ Under(st, (L - 2) - 1) \in Below[Under(st, L - 2)]
        BY <1>6, <2>1, <2>7, <2>8 DEF Fits1
    <2>10. (L - 2) - 1 = L - 3
        OBVIOUS
    <2>11. Lands(Under(st, L - 3), x)
        BY <2>7, <2>9, <2>10 DEF Fits1
    <2>12. \A k \in 1 .. 3 : k = 1 \/ k = 2 \/ k = 3
        OBVIOUS
    <2>13. L - 3 + 1 = L - 2 /\ L - 3 + 2 = L - 1 /\ L - 3 + 3 = L
        OBVIOUS
    <2>14. QED
        BY <1>10, <2>2, <2>5, <2>9, <2>11, <2>12, <2>13
<1>11. ASSUME Len(w) = 4 PROVE Fit
    <2>1. /\ Fits4(u, x, w[1], w[2], w[3], w[4])
          /\ w[1] # "EOF" /\ w[2] # "EOF" /\ w[3] # "EOF" /\ w[4] # "EOF"
        BY <1>3, <1>4, <1>5, <1>11 DEF Fits
    <2>2. L >= 1 /\ st[L].type = w[4] /\ Under(st, L - 1) \in Below[u]
        BY <1>1, <1>6, <2>1 DEF Fits4
    <2>3. Fits3(Under(st, L - 1), x, w[1], w[2], w[3])
        BY <2>1, <2>2 DEF Fits4
    <2>4. L - 1 \in 0 .. L
        BY <2>2
    <2>5. /\ L - 1 >= 1 /\ st[L - 1].type = w[3]
          /\ Under(st, (L - 1) - 1) \in Below[Under(st, L - 1)]
        BY <1>6, <2>1, <2>3, <2>4 DEF Fits3
    <2>6. (L - 1) - 1 = L - 2
        OBVIOUS
    <2>7. Fits2(Under(st, L - 2), x, w[1], w[2])
        BY <2>3, <2>5, <2>6 DEF Fits3
    <2>8. L - 2 \in 0 .. L
        BY <2>5
    <2>9. /\ L - 2 >= 1 /\ st[L - 2].type = w[2]
          /\ Under(st, (L - 2) - 1) \in Below[Under(st, L - 2)]
        BY <1>6, <2>1, <2>7, <2>8 DEF Fits2
    <2>10. (L - 2) - 1 = L - 3
        OBVIOUS
    <2>11. Fits1(Under(st, L - 3), x, w[1])
        BY <2>7, <2>9, <2>10 DEF Fits2
    <2>12. L - 3 \in 0 .. L
        BY <2>9
    <2>13. /\ L - 3 >= 1 /\ st[L - 3].type = w[1]
           /\ Under(st, (L - 3) - 1) \in Below[Under(st, L - 3)]
        BY <1>6, <2>1, <2>11, <2>12 DEF Fits1
    <2>14. (L - 3) - 1 = L - 4
        OBVIOUS
    <2>15. Lands(Under(st, L - 4), x)
        BY <2>11, <2>13, <2>14 DEF Fits1
    <2>16. \A k \in 1 .. 4 : k = 1 \/ k = 2 \/ k = 3 \/ k = 4
        OBVIOUS
    <2>17. L - 4 + 1 = L - 3 /\ L - 4 + 2 = L - 2 /\ L - 4 + 3 = L - 1 /\ L - 4 + 4 = L
        OBVIOUS
    <2>18. QED
        BY <1>11, <2>2, <2>5, <2>9, <2>13, <2>15, <2>16, <2>17
<1>12. Fit
    BY <1>5, <1>7, <1>8, <1>9, <1>10, <1>11
<1>13. OnTop(st, Rhs[r])
    BY <1>1, <1>4, <1>12 DEF OnTop
<1>14. QED
    BY <1>1, <1>3, <1>4, <1>12, <1>13

-------------------------------------------------------------------------------
(* A token of the line                                                        *)

\* A token is added at the end.
LEMMA Longer ==
    ASSUME NEW X, NEW s \in Seq(X), NEW t \in X
    PROVE  /\ Append(s, t) \in Seq(X) /\ Len(Append(s, t)) = Len(s) + 1 /\ Len(s) \in Nat
           /\ Append(s, t)[Len(s) + 1] = t
           /\ \A i \in 1 .. Len(s) : Append(s, t)[i] = s[i]
OBVIOUS

\* The text of a line that grows.
LEMMA TextGrows ==
    ASSUME NEW X, NEW s \in Seq(X), NEW u \in Seq(X), Len(u) > 0
    PROVE  /\ s \o u \in Seq(X) /\ Len(s \o u) = Len(s) + Len(u)
           /\ Len(s) \in Nat /\ Len(u) \in Nat
           /\ EndsInNewline(s \o u) = (u[Len(u)] = "nl")
<1>1. PICK v : v = s \o u
    OBVIOUS
<1>2. v \in Seq(X) /\ Len(v) = Len(s) + Len(u) /\ Len(s) \in Nat /\ Len(u) \in Nat
    BY <1>1
<1>3. v[Len(v)] = u[Len(u)] /\ v # << >>
    BY <1>1, <1>2
<1>4. EndsInNewline(v) = (u[Len(u)] = "nl")
    BY <1>3 DEF EndsInNewline, EndsIn, Last
<1>5. QED
    BY <1>1, <1>2, <1>4

\* A table of more tokens or documents has the same nodes.
LEMMA ArenaGrows ==
    ASSUME NEW ns, NEW t \in Nat, NEW d \in Nat, Arena(ns, t, d), NEW u \in Nat, NEW e \in Nat,
           t <= u, d <= e
    PROVE  Arena(ns, u, e)
<1>1. PICK n : n = Len(ns)
    OBVIOUS
<1>2. NodeSet(n, t, d) \subseteq NodeSet(n, u, e)
    BY DEF NodeSet
<1>3. QED
    BY <1>1, <1>2 DEF Arena

\* The symbols of a stack.
LEMMA SymbolIs ==
    ASSUME NEW st \in Seq(Symbol), NEW i \in 1 .. Len(st)
    PROVE  /\ st[i] \in Symbol /\ st[i].type \in Symbols /\ st[i].token \in Nat
           /\ st[i].node \in Nat /\ st[i].state \in DOMAIN YyPact
<1>1. st[i] \in Symbol
    OBVIOUS
<1>2. QED
    BY <1>1 DEF Symbol

\* The symbol on top.
LEMMA TopIs ==
    ASSUME Inv, stack # << >>
    PROVE  /\ Len(stack) \in Nat /\ Len(stack) >= 1 /\ Top = stack[Len(stack)] /\ Top \in Symbol
           /\ Top.token \in 0 .. Len(tokens) /\ Top.node \in Nat /\ Top.type \in Symbols
           /\ Len(tokens) \in Nat
<1>1. stack \in Seq(Symbol)
    BY DEF Inv, Path, StackPath
<1>2. Len(stack) \in 1 .. Len(stack) /\ Len(stack) \in Nat /\ Len(stack) >= 1
    BY <1>1
<1>3. Top = stack[Len(stack)]
    BY DEF Top
<1>4. /\ Top \in Symbol /\ Top.type \in Symbols /\ Top.token \in Nat /\ Top.node \in Nat
    BY <1>1, <1>2, <1>3, SymbolIs
<1>5. Top.token <= Len(tokens)
    BY <1>2, <1>3 DEF Inv, Bear, Held
<1>6. Len(tokens) \in Nat
    BY DEF Inv, Shapes
<1>7. QED
    BY <1>2, <1>3, <1>4, <1>5, <1>6

\* What is put aside is not blank.
LEMMA NotBlank ==
    ASSUME Inv, PutAside
    PROVE  ~AllBlank(stack) /\ stack # << >> /\ Top.type = "io_here"
<1>1. stack # << >> /\ Top.type = "io_here"
    BY DEF Inv, Saved
<1>2. Len(stack) \in 1 .. Len(stack) /\ Top = stack[Len(stack)]
    BY <1>1, TopIs
<1>3. QED
    BY <1>1, <1>2 DEF AllBlank, Blank

\* The same symbols with more tokens.
LEMMA HeldOn ==
    ASSUME NEW ns, NEW st, NEW root, NEW t \in Nat, NEW u \in Nat, t <= u,
           st \in Seq(Symbol), Held(ns, st, root, t)
    PROVE  Held(ns, st, root, u)
<1>1. ASSUME NEW i \in 1 .. Len(st) PROVE st[i].token \in Nat
    BY SymbolIs
<1>2. QED
    BY <1>1 DEF Held

\* lex_token.
LEMMA LexTokenKeeps ==
    ASSUME Inv, NEW t \in Texts, LexToken(t)
    PROVE  Inv'
<1> USE DEF Inv
<1>1. /\ phase = "parse" /\ fault = "none" /\ parse.root = 0
      /\ "HAS_LOOKAHEAD" \notin parse.flags /\ "HERE_BODY" \notin parse.flags
      /\ "HAS_SAVED_TOKENS" \notin parse.flags
      /\ line.null = FALSE
    BY DEF LexToken, Fresh, Fetching, Shapes
<1>2. line.at = Len(line.text) + 1 /\ line.whole = FALSE
    BY <1>1 DEF LexToken, Types, MayGrow, Lines, Shapes
<1>3. /\ tokens' \in Seq(Texts) /\ Len(tokens') = Len(tokens) + 1 /\ Len(tokens) \in Nat
      /\ tokens'[Len(tokens) + 1] = t
      /\ \A i \in 1 .. Len(tokens) : tokens'[i] = tokens[i]
    BY Longer DEF LexToken, Shapes
<1>4. /\ parse' \in [flags : SUBSET Flags, tok : Nat, look : Terminals, state : States, root : Nat]
      /\ parse'.tok = Len(tokens) + 1 /\ parse'.look = ClassifyToken(t)
      /\ parse'.flags = parse.flags \cup {"HAS_LOOKAHEAD"}
      /\ parse'.state = parse.state /\ parse'.root = 0
    <2>1. ClassifyToken(t) \in Terminals
        BY ClassesKnown
    <2>2. parse.tok = Len(tokens)
        BY <1>1 DEF Flow
    <2>3. PICK p, c, F : p = parse /\ c = ClassifyToken(t) /\ F = parse.flags \cup {"HAS_LOOKAHEAD"}
        OBVIOUS
    <2>4. parse' = [p EXCEPT !.tok = Len(tokens) + 1, !.look = c, !.flags = F]
        BY <2>2, <2>3 DEF LexToken
    <2>5. F \in SUBSET Flags /\ p.root = 0
        BY <1>1, <2>3 DEF Shapes, Flags
    <2>6. QED
        <3>1. p \in [flags : SUBSET Flags, tok : Nat, look : Terminals, state : States, root : Nat]
            BY <2>3 DEF Shapes
        <3>2. PICK n : n = Len(tokens) + 1
            OBVIOUS
        <3>3. n \in Nat /\ c \in Terminals
            BY <1>3, <2>1, <2>3, <3>2
        <3>4. /\ parse' \in [flags : SUBSET Flags, tok : Nat, look : Terminals, state : States, root : Nat]
              /\ parse'.tok = n /\ parse'.look = c /\ parse'.flags = F
              /\ parse'.state = p.state /\ parse'.root = p.root
            BY <2>4, <2>5, <3>1, <3>2, <3>3
        <3>5. QED
            BY <2>3, <2>5, <3>2, <3>4
<1>5. /\ line' \in [text : Seq(Texts), at : Nat, whole : BOOLEAN, null : BOOLEAN]
      /\ line'.at = Len(line'.text) + 1 /\ line'.whole = FALSE /\ line'.null = FALSE
      /\ EndsInNewline(line'.text) <=> (t = "nl")
      /\ Len(line'.text) \in Nat
    <2>0. PICK u : u = <<t>>
        OBVIOUS
    <2>1. PICK s : s = line.text \o u
        OBVIOUS
    <2>2. u \in Seq(Texts) /\ Len(u) = 1 /\ u[1] = t
        BY <2>0
    <2>3. line.text \in Seq(Texts)
        BY DEF Shapes
    <2>4. /\ s \in Seq(Texts) /\ Len(s) = Len(line.text) + 1 /\ Len(line.text) \in Nat
          /\ EndsInNewline(s) <=> (t = "nl")
        <3>1. Len(u) > 0
            BY <2>2
        <3>2. s \in Seq(Texts) /\ Len(s) = Len(line.text) + Len(u) /\ Len(line.text) \in Nat
            BY <2>1, <2>2, <2>3, <3>1, TextGrows
        <3>3. EndsInNewline(s) = (u[Len(u)] = "nl")
            BY <2>1, <2>2, <2>3, <3>1, TextGrows
        <3>4. QED
            BY <2>2, <3>2, <3>3
    <2>5. line' = [line EXCEPT !.text = s, !.at = line.at + 1]
        BY <2>0, <2>1, <2>2 DEF LexToken, Types
    <2>6. line'.text = s /\ line'.at = line.at + 1 /\ line'.whole = FALSE /\ line'.null = FALSE
        BY <1>1, <1>2, <2>5 DEF Shapes
    <2>7. line' \in [text : Seq(Texts), at : Nat, whole : BOOLEAN, null : BOOLEAN]
        <3>1. PICK l, a : l = line /\ a = line.at + 1
            OBVIOUS
        <3>2. a \in Nat /\ l \in [text : Seq(Texts), at : Nat, whole : BOOLEAN, null : BOOLEAN]
            BY <1>2, <2>4, <3>1 DEF Shapes
        <3>3. line' = [l EXCEPT !.text = s, !.at = a]
            BY <2>5, <3>1
        <3>4. QED
            BY <2>4, <3>2, <3>3
    <2>8. QED
        BY <1>2, <2>4, <2>6, <2>7
<1>6. /\ mode' = mode /\ stack' = stack /\ nodes' = nodes /\ body' = body /\ docs' = docs
      /\ open' = open /\ ran' = ran /\ phase' = phase /\ fault' = fault
    BY DEF LexToken, Types, heredoc
<1>7. Top' = Top
    BY <1>6 DEF Top
<1>8. PutAside' <=> PutAside
    BY <1>4, <1>6 DEF PutAside
<1>9. Consumed' = Consumed /\ (~PutAside => Consumed = Len(tokens))
    BY <1>1, <1>4, <1>6, <1>7, <1>8, <1>3 DEF Consumed, Flow, Shapes
<1>10. PutAside => stack # << >> /\ Top.type = "io_here"
    BY DEF Saved
<1>20. Shapes'
    BY <1>3, <1>4, <1>5, <1>6 DEF Shapes
<1>21. Path'
    BY <1>4, <1>6 DEF Path
<1>22. Bear'
    <2>1. Arena(nodes, Len(tokens) + 1, Len(docs))
        BY <1>3, ArenaGrows DEF Bear, Shapes
    <2>2. Held(nodes, stack, 0, Len(tokens) + 1)
        BY <1>1, <1>3, HeldOn DEF Bear, Path, StackPath
    <2>3. QED
        BY <1>1, <1>3, <1>4, <1>6, <1>7, <2>1, <2>2 DEF Bear
<1>23. Flow'
    BY <1>1, <1>3, <1>4, <1>6 DEF Flow, OneLine, Path
<1>24. Saved'
    <2>1. ASSUME PutAside
          PROVE  /\ "SAVE_TOKENS" \in parse.flags /\ Top.token < Len(tokens)
                 /\ \A k \in Top.token + 1 .. Len(tokens) : tokens[k] # "nl"
                 /\ Top.token \in Nat
        <3>1. "SAVE_TOKENS" \in parse.flags
            BY <1>1, <2>1 DEF PutAside
        <3>2. Top.token \in Nat
            BY <2>1, <1>10, TopIs
        <3>3. QED
            BY <1>1, <2>1, <3>1, <3>2 DEF Saved, Flow
    <2>2. QED
        BY <1>1, <1>3, <1>4, <1>6, <1>7, <1>8, <2>1 DEF Saved
<1>25. Lines'
    <2>1. EndsInNewline(tokens') <=> (t = "nl")
        BY <1>3 DEF EndsInNewline, EndsIn, Last
    <2>2. QED
        BY <1>1, <1>4, <1>5, <1>6, <2>1 DEF Lines
<1>26. Ends'
    <2>1. ASSUME stack # << >> PROVE Top.token \in 0 .. Len(tokens)
        BY <2>1, TopIs
    <2>2. QED
        BY <1>1, <1>3, <1>4, <1>6, <1>7, <1>9, <2>1 DEF Ends
<1>27. Blanks'
    <2>1. PutAside => ~AllBlank(stack)
        BY NotBlank
    <2>2. Mark' = Mark /\ Mark \in Nat
        BY <1>6 DEF Mark, Shapes, Last
    <2>3. ASSUME ~PutAside, NEW k \in Mark + 1 .. Consumed
          PROVE  k \in 1 .. Len(tokens)
        BY <1>3, <1>9, <2>2, <2>3
    <2>4. QED
        BY <1>1, <1>3, <1>4, <1>6, <1>9, <2>1, <2>2, <2>3 DEF Blanks
<1>28. Documents'
    <2>1. Unended' <=> Unended
        BY <1>2, <1>5 DEF Unended
    <2>2. InUse' = InUse /\ HereNodes(nodes)' = HereNodes(nodes)
        BY <1>6 DEF InUse, HereFds, HereNodes
    <2>3. QED
        BY <1>4, <1>6, <1>7, <1>8, <2>1, <2>2 DEF Documents
<1>29. QED
    BY <1>20, <1>21, <1>22, <1>23, <1>24, <1>25, <1>26, <1>27, <1>28

-------------------------------------------------------------------------------
(* The bodies of here-documents                                               *)

\* The descriptor of a node is set.
WithFd(ns, x, v) == [ns EXCEPT ![x].fd = v]

\* A descriptor that is set leaves all else in the arena.
LEMMA FdSet ==
    ASSUME NEW ns, NEW t \in Nat, NEW d \in Nat, Arena(ns, t, d), NEW x \in 1 .. Len(ns),
           NEW v \in -1 .. d
    PROVE  /\ Arena(WithFd(ns, x, v), t, d)
           /\ Len(WithFd(ns, x, v)) = Len(ns)
           /\ \A i \in 1 .. Len(ns) :
                /\ WithFd(ns, x, v)[i].type = ns[i].type
                /\ WithFd(ns, x, v)[i].flag = ns[i].flag
                /\ WithFd(ns, x, v)[i].token = ns[i].token
                /\ WithFd(ns, x, v)[i].fd = IF i = x THEN v ELSE ns[i].fd
<1>1. PICK L \in Nat : L = Len(ns)
    BY DEF Arena
<1>2. ns \in Seq(NodeSet(L, t, d))
    BY <1>1 DEF Arena
<1>3. PICK y : y = [ns[x] EXCEPT !.fd = v]
    OBVIOUS
<1>4. /\ y \in NodeSet(L, t, d) /\ y.type = ns[x].type /\ y.flag = ns[x].flag
      /\ y.token = ns[x].token /\ y.fd = v
    <2>1. PICK z : z = ns[x]
        OBVIOUS
    <2>2. z \in NodeSet(L, t, d)
        BY <1>1, <1>2, <2>1
    <2>3. y = [z EXCEPT !.fd = v]
        BY <1>3, <2>1
    <2>4. QED
        BY <2>1, <2>2, <2>3 DEF NodeSet
<1>5. PICK ms : ms = WithFd(ns, x, v)
    OBVIOUS
<1>6. ms = [ns EXCEPT ![x] = y]
    BY <1>3, <1>5 DEF WithFd
<1>7. ms \in Seq(NodeSet(L, t, d)) /\ Len(ms) = L
    BY <1>1, <1>2, <1>4, <1>6
<1>8. \A i \in 1 .. L : ms[i] = IF i = x THEN y ELSE ns[i]
    BY <1>1, <1>2, <1>6
<1>9. Arena(ms, t, d)
    BY <1>7 DEF Arena
<1>10. \A i \in 1 .. L : /\ ms[i].type = ns[i].type /\ ms[i].flag = ns[i].flag
                         /\ ms[i].token = ns[i].token
                         /\ ms[i].fd = IF i = x THEN v ELSE ns[i].fd
    BY <1>4, <1>8
<1>11. QED
    BY <1>1, <1>5, <1>7, <1>9, <1>10

\* Symbols are held as before when no node changes its type or flag.
LEMMA HeldSame ==
    ASSUME NEW ns, NEW ms, Len(ms) = Len(ns),
           \A i \in 1 .. Len(ns) : ms[i].type = ns[i].type /\ ms[i].flag = ns[i].flag,
           NEW st, NEW root, NEW t, Held(ns, st, root, t)
    PROVE  Held(ms, st, root, t)
<1>1. ASSUME NEW x, NEW n, Carries(ns, x, n) PROVE Carries(ms, x, n)
    BY <1>1 DEF Carries
<1>2. QED
    BY <1>1 DEF Held

\* While a body is read, the symbol on top is its here-document.
LEMMA InBody ==
    ASSUME Inv, Reading
    PROVE  /\ phase = "parse" /\ fault = "none" /\ parse.root = 0 /\ body.on = TRUE
           /\ "HERE_BODY" \in parse.flags /\ "HAS_LOOKAHEAD" \notin parse.flags
           /\ "HAS_SAVED_TOKENS" \in parse.flags /\ "SAVE_TOKENS" \notin parse.flags
           /\ "DONE" \notin parse.flags
           /\ PutAside /\ ~AllBlank(stack) /\ stack # << >> /\ Top.type = "io_here"
           /\ Top.node \in 1 .. Len(nodes) /\ Top.token \in 1 .. Len(tokens)
           /\ nodes[Top.node].token = Top.token /\ Top.node \in HereNodes(nodes)
           /\ Delimiter \in Texts
<1>1. /\ phase = "parse" /\ fault = "none" /\ parse.root = 0 /\ body.on = TRUE
      /\ "HERE_BODY" \in parse.flags
    BY DEF Reading, Fetching, Inv, Shapes
<1>2. /\ "HAS_LOOKAHEAD" \notin parse.flags
      /\ "HAS_SAVED_TOKENS" \in parse.flags /\ "SAVE_TOKENS" \notin parse.flags
    BY <1>1 DEF Inv, Flow
<1>3. "DONE" \notin parse.flags
    BY <1>1 DEF Inv, Path
<1>4. PutAside
    BY <1>1 DEF PutAside
<1>5. ~AllBlank(stack) /\ stack # << >> /\ Top.type = "io_here"
    BY <1>4, NotBlank
<1>6. Top.node \in HereNodes(nodes)
    BY <1>4 DEF Inv, Documents
<1>7. Top.node \in 1 .. Len(nodes)
    BY <1>6 DEF HereNodes, Inv, Bear, Arena
<1>8. Top.token \in 1 .. Len(tokens) /\ nodes[Top.node].token = Top.token
    BY <1>4, <1>5, TopIs DEF Inv, Saved
<1>9. Delimiter \in Texts
    BY <1>8 DEF Delimiter, Inv, Shapes
<1>10. QED
    BY <1>1, <1>2, <1>3, <1>4, <1>5, <1>6, <1>7, <1>8, <1>9

\* What is typed while a body is read goes to the end of the line.
LEMMA Typed ==
    ASSUME Inv, phase = "parse", NEW u \in Seq(Texts), Len(u) > 0, Types(u)
    PROVE  /\ line' \in [text : Seq(Texts), at : Nat, whole : BOOLEAN, null : BOOLEAN]
           /\ line.whole = FALSE /\ line'.whole = FALSE /\ line'.null = line.null
           /\ line'.at = Len(line'.text) + 1 /\ Len(line'.text) \in Nat
           /\ mode' = mode
<1>1. line.whole = FALSE /\ mode' = mode
    BY DEF Types, MayGrow, Inv, Shapes
<1>2. line.at = Len(line.text) + 1
    BY <1>1 DEF Inv, Lines
<1>3. PICK s : s = line.text \o u
    OBVIOUS
<1>4. s \in Seq(Texts) /\ Len(s) = Len(line.text) + Len(u) /\ Len(line.text) \in Nat /\ Len(u) \in Nat
    BY <1>3, TextGrows DEF Inv, Shapes
<1>5. PICK l, a : l = line /\ a = line.at + Len(u)
    OBVIOUS
<1>6. a \in Nat /\ a = Len(s) + 1
    BY <1>2, <1>4, <1>5
<1>7. line' = [l EXCEPT !.text = s, !.at = a]
    BY <1>3, <1>5 DEF Types
<1>8. l \in [text : Seq(Texts), at : Nat, whole : BOOLEAN, null : BOOLEAN]
    BY <1>5 DEF Inv, Shapes
<1>9. /\ line' \in [text : Seq(Texts), at : Nat, whole : BOOLEAN, null : BOOLEAN]
      /\ line'.text = s /\ line'.at = a /\ line'.whole = l.whole /\ line'.null = l.null
    BY <1>4, <1>6, <1>7, <1>8
<1>10. QED
    BY <1>1, <1>4, <1>5, <1>6, <1>9

\* The body goes on: a line more, or less, is on the way.
LEMMA GoesOn ==
    ASSUME Inv, Reading,
           UNCHANGED <<mode, tokens, parse, stack, nodes, body, open, ran, phase>>,
           docs' \in Seq([lines : Seq(Seq(Delims)), opened : BOOLEAN]), Len(docs') = Len(docs),
           line' \in [text : Seq(Texts), at : Nat, whole : BOOLEAN, null : BOOLEAN],
           line'.whole = line.whole,
           \/ line' = line
           \/ line'.whole = FALSE /\ line'.at = Len(line'.text) + 1 /\ Len(line'.text) \in Nat,
           fault' \in {"none", "null", "overrun", "loop"}
    PROVE  Inv'
<1> USE DEF Inv
<1>1. /\ mode' = mode /\ tokens' = tokens /\ parse' = parse /\ stack' = stack /\ nodes' = nodes
      /\ body' = body /\ open' = open /\ ran' = ran /\ phase' = phase
    OBVIOUS
<1>2. Top' = Top
    BY <1>1 DEF Top
<1>3. PutAside' = PutAside
    BY <1>1 DEF PutAside
<1>4. Consumed' = Consumed
    BY <1>1, <1>2, <1>3 DEF Consumed
<1>5. "HERE_BODY" \in parse.flags /\ phase = "parse"
    BY InBody
<1>6. Shapes'
    BY <1>1 DEF Shapes
<1>7. Path'
    BY <1>1 DEF Path
<1>8. Bear'
    BY <1>1, <1>2 DEF Bear
<1>9. Flow'
    BY <1>1 DEF Flow, OneLine
<1>10. Saved'
    BY <1>1, <1>2, <1>3 DEF Saved, OneLine
<1>11. Lines'
    <2>1. CASE line' = line
        BY <1>1, <2>1 DEF Lines
    <2>2. CASE line'.whole = FALSE /\ line'.at = Len(line'.text) + 1 /\ Len(line'.text) \in Nat
        <3>1. EndsInNewline(tokens)
            BY <1>5, <2>2 DEF Lines
        <3>2. QED
            BY <1>1, <1>5, <2>2, <3>1 DEF Lines
    <2>3. QED
        BY <2>1, <2>2
<1>12. Ends'
    BY <1>1, <1>2, <1>4 DEF Ends
<1>13. Blanks'
    <2>1. Mark' = Mark
        BY <1>1 DEF Mark
    <2>2. QED
        BY <1>1, <1>4, <2>1 DEF Blanks
<1>14. Documents'
    <2>1. Unended' = Unended
        BY DEF Unended, Shapes
    <2>2. InUse' = InUse
        BY <1>1 DEF InUse, HereFds, HereNodes
    <2>3. QED
        BY <1>1, <1>2, <1>3, <2>1, <2>2 DEF Documents
<1>15. QED
    BY <1>6, <1>7, <1>8, <1>9, <1>10, <1>11, <1>12, <1>13, <1>14

\* The start of a body, by create_here_temp.
LEMMA OpenHereKeeps ==
    ASSUME Inv, OpenHere
    PROVE  Inv'
<1> USE DEF Inv
<1>1. /\ phase = "parse" /\ fault = "none" /\ parse.root = 0 /\ body.on = FALSE
      /\ "HERE_BODY" \in parse.flags
    BY DEF OpenHere, Fetching, Shapes
<1>2. /\ mode' = mode /\ line' = line /\ tokens' = tokens /\ parse' = parse /\ stack' = stack
      /\ nodes' = nodes /\ ran' = ran /\ phase' = phase /\ fault' = fault
    BY DEF OpenHere, reader
<1>3. PICK opened \in {{}, {"w"}, {"w", "r"}} :
        /\ body' = [on |-> TRUE, writable |-> "w" \in opened,
                    fd |-> IF "r" \in opened THEN Len(docs) + 1 ELSE -1]
        /\ docs' = Append(docs, [lines |-> << >>, opened |-> "r" \in opened])
        /\ open' = IF "r" \in opened THEN open \cup {Len(docs) + 1} ELSE open
    BY DEF OpenHere
<1>4. /\ docs' \in Seq([lines : Seq(Seq(Delims)), opened : BOOLEAN]) /\ Len(docs') = Len(docs) + 1
      /\ Len(docs) \in Nat
    <2>1. PICK e : e = [lines |-> << >>, opened |-> "r" \in opened]
        OBVIOUS
    <2>3. << >> \in Seq(Seq(Delims))
        <3>1. PICK S : S = Seq(Delims)
            OBVIOUS
        <3>2. << >> \in Seq(S)
            OBVIOUS
        <3>3. QED
            BY <3>1, <3>2, Zenon
    <2>4. e \in [lines : Seq(Seq(Delims)), opened : BOOLEAN]
        BY <2>1, <2>3
    <2>5. docs' = Append(docs, e)
        BY <1>3, <2>1
    <2>6. QED
        BY <2>4, <2>5 DEF Shapes
<1>5. /\ body' \in [on : BOOLEAN, fd : Int, writable : BOOLEAN] /\ body'.on = TRUE
      /\ body'.fd = IF "r" \in opened THEN Len(docs) + 1 ELSE -1
    BY <1>3, <1>4
<1>6. Top' = Top /\ PutAside' = PutAside
    BY <1>2 DEF Top, PutAside
<1>7. Consumed' = Consumed
    BY <1>2, <1>6 DEF Consumed
<1>8. Shapes'
    BY <1>2, <1>4, <1>5 DEF Shapes
<1>9. Path'
    BY <1>2 DEF Path
<1>10. Bear'
    <2>1. Arena(nodes, Len(tokens), Len(docs) + 1)
        BY <1>4, ArenaGrows DEF Bear, Shapes
    <2>2. QED
        BY <1>2, <1>4, <1>6, <2>1 DEF Bear
<1>11. Flow'
    BY <1>2 DEF Flow, OneLine
<1>12. Saved'
    BY <1>2, <1>6 DEF Saved, OneLine
<1>13. Lines'
    BY <1>2 DEF Lines
<1>14. Ends'
    BY <1>2, <1>6, <1>7 DEF Ends
<1>15. Blanks'
    <2>1. Mark' = Mark
        BY <1>2 DEF Mark
    <2>2. QED
        BY <1>2, <1>7, <2>1 DEF Blanks
<1>16. Documents'
    <2>1. Unended' = Unended
        BY <1>2 DEF Unended
    <2>2. HereFds(nodes)' = HereFds(nodes) /\ HereNodes(nodes)' = HereNodes(nodes)
        BY <1>2 DEF HereFds, HereNodes
    <2>3. open = InUse => open' = InUse'
        BY <1>1, <1>3, <1>4, <1>5, <2>2 DEF InUse
    <2>4. body'.fd \in -1 .. Len(docs') /\ body'.fd # 0 /\ open' \subseteq 0 .. Len(docs')
        <3>1. open \subseteq 0 .. Len(docs)
            BY DEF Documents
        <3>2. PICK d \in Nat : d = Len(docs) /\ Len(docs') = d + 1
            BY <1>4
        <3>3. open' \subseteq open \cup {d + 1}
            BY <1>3, <3>2
        <3>4. open' \subseteq 0 .. d + 1
            BY <3>1, <3>2, <3>3
        <3>5. body'.fd = d + 1 \/ body'.fd = -1
            BY <1>5, <3>2
        <3>6. QED
            BY <3>2, <3>4, <3>5
    <2>5. QED
        BY <1>1, <1>2, <1>6, <2>1, <2>2, <2>3, <2>4 DEF Documents
<1>17. QED
    BY <1>8, <1>9, <1>10, <1>11, <1>12, <1>13, <1>14, <1>15, <1>16

\* The body gets its node and the put aside tokens are next.
LEMMA EndBodyKeeps ==
    ASSUME Inv, Reading, EndBody(body.fd), line.whole = FALSE,
           UNCHANGED <<mode, tokens, stack, docs, open, ran, phase, fault>>,
           line' \in [text : Seq(Texts), at : Nat, whole : BOOLEAN, null : BOOLEAN],
           line'.whole = FALSE, line'.at = Len(line'.text) + 1, Len(line'.text) \in Nat
    PROVE  Inv'
<1> USE DEF Inv
<1>1. /\ phase = "parse" /\ fault = "none" /\ parse.root = 0 /\ body.on = TRUE
      /\ "HERE_BODY" \in parse.flags /\ "HAS_LOOKAHEAD" \notin parse.flags
      /\ "HAS_SAVED_TOKENS" \in parse.flags /\ "SAVE_TOKENS" \notin parse.flags
      /\ "DONE" \notin parse.flags
      /\ PutAside /\ ~AllBlank(stack) /\ stack # << >> /\ Top.type = "io_here"
      /\ Top.node \in 1 .. Len(nodes) /\ Top.token \in 1 .. Len(tokens)
      /\ nodes[Top.node].token = Top.token /\ Top.node \in HereNodes(nodes)
    BY InBody
<1>2. /\ mode' = mode /\ tokens' = tokens /\ stack' = stack
      /\ docs' = docs /\ open' = open /\ ran' = ran /\ phase' = phase /\ fault' = fault
    OBVIOUS
<1>3. PICK L \in Nat, t \in Nat, d \in Nat : L = Len(nodes) /\ t = Len(tokens) /\ d = Len(docs)
    BY DEF Bear, Arena, Shapes
<1>4. PICK x \in 1 .. L, v \in -1 .. d : x = Top.node /\ v = body.fd /\ v # 0
    BY <1>1, <1>3 DEF Documents
<1>5. nodes' = WithFd(nodes, x, v)
    BY <1>4 DEF EndBody, WithFd
<1>6. Arena(nodes, t, d) /\ x \in 1 .. Len(nodes)
    BY <1>3 DEF Bear
<1>7. /\ Arena(nodes', t, d) /\ Len(nodes') = L
      /\ \A i \in 1 .. L : /\ nodes'[i].type = nodes[i].type /\ nodes'[i].flag = nodes[i].flag
                           /\ nodes'[i].token = nodes[i].token
                           /\ nodes'[i].fd = IF i = x THEN v ELSE nodes[i].fd
    <2>1. Arena(nodes', t, d)
        BY <1>5, <1>6, FdSet
    <2>2. Len(nodes') = L
        BY <1>3, <1>5, <1>6, FdSet
    <2>3. \A i \in 1 .. Len(nodes) :
            /\ nodes'[i].type = nodes[i].type /\ nodes'[i].flag = nodes[i].flag
            /\ nodes'[i].token = nodes[i].token
            /\ nodes'[i].fd = IF i = x THEN v ELSE nodes[i].fd
        BY <1>5, <1>6, FdSet
    <2>4. QED
        BY <1>3, <2>1, <2>2, <2>3
<1>8. /\ parse' \in [flags : SUBSET Flags, tok : Nat, look : Terminals, state : States, root : Nat]
      /\ parse'.flags = parse.flags \ {"HERE_BODY"} /\ parse'.tok = Top.token
      /\ parse'.look = parse.look /\ parse'.state = parse.state /\ parse'.root = 0
    <2>1. PICK p, F, k : p = parse /\ F = parse.flags \ {"HERE_BODY"} /\ k = Top.token
        OBVIOUS
    <2>2. p \in [flags : SUBSET Flags, tok : Nat, look : Terminals, state : States, root : Nat]
        BY <2>1 DEF Shapes
    <2>3. F \in SUBSET Flags /\ k \in Nat
        BY <1>1, <2>1 DEF Shapes
    <2>4. parse' = [p EXCEPT !.flags = F, !.tok = k]
        BY <2>1 DEF EndBody
    <2>5. QED
        BY <1>1, <2>1, <2>2, <2>3, <2>4
<1>9. /\ body' \in [on : BOOLEAN, fd : Int, writable : BOOLEAN] /\ body'.on = FALSE
      /\ body'.fd = v
    BY <1>4 DEF EndBody, Shapes
<1>10. Top' = Top
    BY <1>2 DEF Top
<1>11. ~PutAside'
    BY <1>1, <1>8 DEF PutAside
<1>12. Consumed = Top.token /\ Consumed' = Top.token
    BY <1>1, <1>8, <1>10, <1>11 DEF Consumed
<1>13. HereNodes(nodes)' = HereNodes(nodes)
    <2>1. DOMAIN nodes = 1 .. L /\ DOMAIN nodes' = 1 .. L
        BY <1>3, <1>6, <1>7 DEF Arena
    <2>2. QED
        BY <1>7, <2>1 DEF HereNodes
<1>20. Shapes'
    BY <1>2, <1>8, <1>9 DEF Shapes
<1>21. Path'
    BY <1>1, <1>2, <1>8 DEF Path
<1>22. Bear'
    <2>1. Held(nodes', stack, parse.root, Len(tokens))
        BY <1>3, <1>7, HeldSame DEF Bear
    <2>2. QED
        BY <1>1, <1>2, <1>3, <1>7, <1>8, <2>1 DEF Bear
<1>23. Flow'
    <2>1. OneLine(Top.token + 1)
        BY <1>1 DEF Saved
    <2>2. OneLine(parse.tok + 1)'
        BY <1>2, <1>8, <2>1 DEF OneLine
    <2>3. QED
        BY <1>1, <1>2, <1>3, <1>8, <2>2 DEF Flow
<1>24. Saved'
    BY <1>11 DEF Saved
<1>25. Lines'
    <2>1. EndsInNewline(tokens)
        BY <1>1 DEF Lines
    <2>2. QED
        BY <1>2, <2>1 DEF Lines
<1>26. Ends'
    <2>1. Top.type # "here_end" /\ Top.type \notin Terminals
        BY <1>1 DEF Terminals, Symbols, SymbolType
    <2>2. QED
        BY <1>1, <1>2, <1>10, <1>12, <2>1 DEF Ends
<1>27. Blanks'
    BY <1>1, <1>2 DEF Blanks
<1>28. Documents'
    <2>1. ~Unended
        BY DEF Unended
    <2>2. open = InUse /\ \A i \in HereNodes(nodes) : nodes[i].fd = 0 => i = x
        BY <1>1, <1>4, <2>1 DEF Documents
    <2>3. \A i \in HereNodes(nodes) : i \in 1 .. L
        BY <1>3, <1>6 DEF HereNodes, Arena
    <2>4. nodes[x].fd = 0
        BY <1>1, <1>4 DEF Documents
    <2>5. HereFds(nodes)' = {nodes'[i].fd : i \in HereNodes(nodes)}
        BY <1>13 DEF HereFds
    <2>6. HereFds(nodes)' \subseteq HereFds(nodes) \cup {v}
        BY <1>7, <2>3, <2>5 DEF HereFds
    <2>7. HereFds(nodes) \subseteq HereFds(nodes)' \cup {0} /\ v \in HereFds(nodes)'
        <3>1. nodes'[x].fd = v /\ x \in HereNodes(nodes)
            BY <1>1, <1>4, <1>7
        <3>2. \A i \in HereNodes(nodes) : nodes[i].fd = nodes'[i].fd \/ nodes[i].fd = 0
            BY <1>7, <2>3, <2>4
        <3>3. QED
            BY <2>5, <3>1, <3>2 DEF HereFds
    <2>8. InUse' = ({0} \cup HereFds(nodes)' \cup {}) \ {-1}
        BY <1>9 DEF InUse
    <2>9. InUse = ({0} \cup HereFds(nodes) \cup {v}) \ {-1}
        BY <1>1, <1>4 DEF InUse
    <2>10. InUse' = InUse
        BY <2>6, <2>7, <2>8, <2>9
    <2>11. \A i \in HereNodes(nodes) : nodes'[i].fd # 0
        BY <1>4, <1>7, <2>2, <2>3
    <2>12. body'.fd \in -1 .. Len(docs) /\ body'.fd # 0
        BY <1>3, <1>4, <1>9
    <2>13. QED
        BY <1>1, <1>2, <1>9, <1>11, <1>13, <2>2, <2>10, <2>11, <2>12 DEF Documents
<1>29. QED
    BY <1>20, <1>21, <1>22, <1>23, <1>24, <1>25, <1>26, <1>27, <1>28

\* The delimiter ends a body.
LEMMA DelimiterLineKeeps ==
    ASSUME Inv, DelimiterLine
    PROVE  Inv'
<1>1. Reading /\ Types(<<Delimiter, "nl">>) /\ EndBody(body.fd)
    BY DEF DelimiterLine
<1>2. phase = "parse" /\ Delimiter \in Texts
    BY <1>1, InBody
<1>3. PICK u : u = <<Delimiter, "nl">>
    OBVIOUS
<1>4. "nl" \in Texts
    BY ParserAssumption DEF Texts
<1>5. u \in Seq(Texts) /\ Len(u) > 0
    BY <1>2, <1>3, <1>4
<1>6. /\ line' \in [text : Seq(Texts), at : Nat, whole : BOOLEAN, null : BOOLEAN]
      /\ line.whole = FALSE /\ line'.whole = FALSE
      /\ line'.at = Len(line'.text) + 1 /\ Len(line'.text) \in Nat
      /\ mode' = mode
    BY <1>1, <1>2, <1>3, <1>5, Typed
<1>7. UNCHANGED <<mode, tokens, stack, docs, open, ran, phase, fault>>
    BY <1>6 DEF DelimiterLine
<1>8. QED
    BY <1>1, <1>6, <1>7, EndBodyKeeps

\* What is typed while a body is read, when nothing else changes.
LEMMA TypedKeeps ==
    ASSUME Inv, Reading, NEW u \in Seq(Texts), Len(u) > 0, Types(u),
           UNCHANGED <<tokens, parse, stack, nodes, body, open, ran, phase>>,
           docs' \in Seq([lines : Seq(Seq(Delims)), opened : BOOLEAN]), Len(docs') = Len(docs),
           fault' \in {"none", "null", "overrun", "loop"}
    PROVE  Inv'
<1>1. phase = "parse"
    BY InBody
<1>2. /\ line' \in [text : Seq(Texts), at : Nat, whole : BOOLEAN, null : BOOLEAN]
      /\ line.whole = FALSE /\ line'.whole = FALSE
      /\ line'.at = Len(line'.text) + 1 /\ Len(line'.text) \in Nat
      /\ mode' = mode
    BY <1>1, Typed
<1>3. QED
    BY <1>2, GoesOn

\* A line of a body.
LEMMA BodyLineKeeps ==
    ASSUME Inv, NEW w \in Delims, BodyLine(w)
    PROVE  Inv'
<1>1. Reading /\ Types(<<w, "nl">>)
    BY DEF BodyLine
<1>2. PICK u : u = <<w, "nl">>
    OBVIOUS
<1>3. "nl" \in Texts /\ w \in Texts
    BY ParserAssumption DEF Texts
<1>4. u \in Seq(Texts) /\ Len(u) > 0
    BY <1>2, <1>3
<1>5. /\ docs' \in Seq([lines : Seq(Seq(Delims)), opened : BOOLEAN])
      /\ Len(docs') = Len(docs)
    <2>1. PICK D : D = [lines : Seq(Seq(Delims)), opened : BOOLEAN]
        OBVIOUS
    <2>2. docs \in Seq(D)
        BY <2>1 DEF Inv, Shapes
    <2>3. PICK k : k = Len(docs)
        OBVIOUS
    <2>4. CASE k \notin DOMAIN docs
        <3>1. docs' = docs
            BY <2>2, <2>3, <2>4 DEF BodyLine
        <3>2. QED
            BY <2>1, <2>2, <3>1
    <2>5. CASE k \in DOMAIN docs
        <3>1. docs[k] \in D
            BY <2>2, <2>5
        <3>2. PICK S : S = Seq(Delims)
            OBVIOUS
        <3>3. <<w>> \in S
            BY <3>2
        <3>4. docs[k].lines \in Seq(S) /\ D = [lines : Seq(S), opened : BOOLEAN]
            BY <2>1, <3>1, <3>2
        <3>5. PICK ls : ls = Append(docs[k].lines, <<w>>)
            OBVIOUS
        <3>6. ls \in Seq(S)
            BY <3>3, <3>4, <3>5
        <3>7. PICK e : e = [docs[k] EXCEPT !.lines = ls]
            OBVIOUS
        <3>8. e \in D
            BY <3>1, <3>4, <3>6, <3>7
        <3>9. docs' = [docs EXCEPT ![k] = e]
            BY <2>3, <3>5, <3>7 DEF BodyLine
        <3>10. docs' \in Seq(D) /\ Len(docs') = Len(docs)
            <4>1. PICK s, q : s = docs /\ q = [s EXCEPT ![k] = e]
                OBVIOUS
            <4>2. s \in Seq(D) /\ k \in 1 .. Len(s)
                BY <2>2, <2>5, <4>1
            <4>3. q \in Seq(D) /\ Len(q) = Len(s)
                BY <3>8, <4>1, <4>2
            <4>4. QED
                BY <3>9, <4>1, <4>3
        <3>11. QED
            BY <2>1, <3>10
    <2>6. QED
        BY <2>4, <2>5
<1>6. /\ UNCHANGED <<tokens, parse, stack, nodes, body, open, ran, phase>>
      /\ fault' \in {"none", "null", "overrun", "loop"}
    BY DEF BodyLine, Inv, Shapes
<1>7. Types(u)
    BY <1>1, <1>2
<1>8. QED
    BY <1>1, <1>4, <1>5, <1>6, <1>7, TypedKeeps

\* The faults of get_here_doc.
LEMMA FaultKeeps ==
    ASSUME Inv, Reading, UNCHANGED <<tokens, parse, stack, nodes, heredoc, ran, phase>>,
           fault' \in {"none", "null", "overrun", "loop"},
           \/ UNCHANGED reader
           \/ \E w \in Delims : Types(<<w>>) \/ Types(<<w, "nl">>)
    PROVE  Inv'
<1>1. /\ UNCHANGED <<tokens, parse, stack, nodes, body, open, ran, phase>>
      /\ docs' = docs
    BY DEF heredoc
<1>2. /\ docs' \in Seq([lines : Seq(Seq(Delims)), opened : BOOLEAN]) /\ Len(docs') = Len(docs)
    BY <1>1 DEF Inv, Shapes
<1>3. CASE UNCHANGED reader
    <2>1. mode' = mode /\ line' = line
        BY <1>3 DEF reader
    <2>2. line' \in [text : Seq(Texts), at : Nat, whole : BOOLEAN, null : BOOLEAN]
        BY <2>1 DEF Inv, Shapes
    <2>3. QED
        BY <1>1, <1>2, <2>1, <2>2, GoesOn
<1>4. ASSUME NEW w \in Delims, Types(<<w>>) \/ Types(<<w, "nl">>) PROVE Inv'
    <2>1. "nl" \in Texts /\ w \in Texts
        BY ParserAssumption DEF Texts
    <2>2. PICK u : u \in Seq(Texts) /\ Len(u) > 0 /\ Types(u)
        <3>1. CASE Types(<<w>>)
            <4>1. PICK v : v = <<w>>
                OBVIOUS
            <4>2. v \in Seq(Texts) /\ Len(v) > 0
                BY <2>1, <4>1
            <4>3. QED
                BY <3>1, <4>1, <4>2
        <3>2. CASE Types(<<w, "nl">>)
            <4>1. PICK v : v = <<w, "nl">>
                OBVIOUS
            <4>2. v \in Seq(Texts) /\ Len(v) > 0
                BY <2>1, <4>1
            <4>3. QED
                BY <3>2, <4>1, <4>2
        <3>3. QED
            BY <1>4, <3>1, <3>2
    <2>3. QED
        BY <1>1, <1>2, <2>2, TypedKeeps
<1>5. QED
    BY <1>3, <1>4

\* The three ways to go wrong for good.
LEMMA FaultsKeep ==
    ASSUME Inv, ReadNull \/ \E w \in Delims : UnendedLine(w) \/ UnwritableLine(w)
    PROVE  Inv'
<1>1. CASE ReadNull
    BY <1>1, FaultKeeps DEF ReadNull
<1>2. ASSUME NEW w \in Delims, UnendedLine(w) PROVE Inv'
    BY <1>2, FaultKeeps DEF UnendedLine, NoNewline
<1>3. ASSUME NEW w \in Delims, UnwritableLine(w) PROVE Inv'
    BY <1>3, FaultKeeps DEF UnwritableLine, NoNewline
<1>4. QED
    BY <1>1, <1>2, <1>3

\* A line that has been read to its end while a body is read.
LEMMA LineDone ==
    ASSUME Inv, Reading, line.text # << >>, AtEnd
    PROVE  line.whole = FALSE /\ line.at = Len(line.text) + 1 /\ Len(line.text) \in Nat
<1>1. phase = "parse"
    BY InBody
<1>2. line.text \in Seq(Texts) /\ line.at \in Nat /\ line.whole \in BOOLEAN
    BY DEF Inv, Shapes
<1>3. Len(line.text) > 0 /\ Len(line.text) \in Nat
    BY <1>2
<1>4. line.whole = FALSE
    BY <1>1, <1>2, <1>3 DEF Inv, Lines, AtEnd
<1>5. QED
    BY <1>1, <1>3, <1>4 DEF Inv, Lines

\* read_here_line.
LEMMA NextLineKeeps ==
    ASSUME Inv, NextLine
    PROVE  Inv'
<1>1. Reading /\ line.whole = FALSE
    BY LineDone DEF NextLine
<1>2. PICK s : s = << >>
    OBVIOUS
<1>3. s \in Seq(Texts) /\ Len(s) = 0
    BY <1>2
<1>4. line' = [text |-> s, at |-> 1, whole |-> FALSE, null |-> FALSE]
    BY <1>2 DEF NextLine
<1>5. /\ line' \in [text : Seq(Texts), at : Nat, whole : BOOLEAN, null : BOOLEAN]
      /\ line'.whole = FALSE /\ line'.at = Len(line'.text) + 1 /\ Len(line'.text) \in Nat
    BY <1>3, <1>4
<1>6. UNCHANGED <<mode, tokens, parse, stack, nodes, body, open, ran, phase>>
    BY DEF NextLine, heredoc
<1>7. /\ docs' \in Seq([lines : Seq(Seq(Delims)), opened : BOOLEAN]) /\ Len(docs') = Len(docs)
      /\ fault' \in {"none", "null", "overrun", "loop"}
    BY DEF NextLine, heredoc, Inv, Shapes
<1>8. QED
    BY <1>1, <1>5, <1>6, <1>7, GoesOn

\* The line that is null after the input.
LEMMA NullLine ==
    ASSUME Inv, Reading, line.text # << >>, AtEnd, line' = [line EXCEPT !.null = TRUE]
    PROVE  /\ line' \in [text : Seq(Texts), at : Nat, whole : BOOLEAN, null : BOOLEAN]
           /\ line.whole = FALSE /\ line'.whole = FALSE
           /\ line'.at = Len(line'.text) + 1 /\ Len(line'.text) \in Nat
<1>1. line.whole = FALSE /\ line.at = Len(line.text) + 1 /\ Len(line.text) \in Nat
    BY LineDone
<1>2. line \in [text : Seq(Texts), at : Nat, whole : BOOLEAN, null : BOOLEAN]
    BY DEF Inv, Shapes
<1>3. /\ line' \in [text : Seq(Texts), at : Nat, whole : BOOLEAN, null : BOOLEAN]
      /\ line'.whole = line.whole /\ line'.at = line.at /\ line'.text = line.text
    BY <1>2
<1>4. QED
    BY <1>1, <1>3

\* The input ends in a body.
LEMMA InputEndsKeeps ==
    ASSUME Inv, InputEnds
    PROVE  Inv'
<1>1. /\ Reading /\ line.text # << >> /\ AtEnd /\ line' = [line EXCEPT !.null = TRUE]
      /\ EndBody(body.fd)
      /\ UNCHANGED <<mode, tokens, stack, docs, open, ran, phase, fault>>
    BY DEF InputEnds
<1>2. /\ line' \in [text : Seq(Texts), at : Nat, whole : BOOLEAN, null : BOOLEAN]
      /\ line.whole = FALSE /\ line'.whole = FALSE
      /\ line'.at = Len(line'.text) + 1 /\ Len(line'.text) \in Nat
    BY <1>1, NullLine
<1>3. QED
    BY <1>1, <1>2, EndBodyKeeps

-------------------------------------------------------------------------------
(* Command lines that are given up                                            *)

\* No node has the descriptor of a here-document any more.
WithoutFds(ns) ==
    [i \in DOMAIN ns |-> IF i \in HereNodes(ns) THEN [ns[i] EXCEPT !.fd = -1] ELSE ns[i]]

\* Nothing else changes in the arena.
LEMMA FdsGone ==
    ASSUME NEW ns, NEW t \in Nat, NEW d \in Nat, Arena(ns, t, d)
    PROVE  /\ Arena(WithoutFds(ns), t, d) /\ Len(WithoutFds(ns)) = Len(ns)
           /\ \A i \in 1 .. Len(ns) : /\ WithoutFds(ns)[i].type = ns[i].type
                                      /\ WithoutFds(ns)[i].flag = ns[i].flag
<1>1. PICK L \in Nat : L = Len(ns)
    BY DEF Arena
<1>2. PICK N : N = NodeSet(L, t, d)
    OBVIOUS
<1>3. ns \in Seq(N) /\ DOMAIN ns = 1 .. L
    BY <1>1, <1>2 DEF Arena
<1>4. PICK ms : ms = WithoutFds(ns)
    OBVIOUS
<1>5. DOMAIN ms = 1 .. L /\ ms = [i \in 1 .. L |-> ms[i]]
    BY <1>3, <1>4 DEF WithoutFds
<1>6. ASSUME NEW i \in 1 .. L
      PROVE  ms[i] \in N /\ ms[i].type = ns[i].type /\ ms[i].flag = ns[i].flag
    <2>1. ns[i] \in N
        BY <1>3
    <2>2. ms[i] = [ns[i] EXCEPT !.fd = -1] \/ ms[i] = ns[i]
        BY <1>3, <1>4 DEF WithoutFds
    <2>3. CASE ms[i] = [ns[i] EXCEPT !.fd = -1]
        <3>1. PICK y, z : y = ns[i] /\ z = [y EXCEPT !.fd = -1]
            OBVIOUS
        <3>2. -1 \in -1 .. d
            OBVIOUS
        <3>3. z \in N /\ z.type = y.type /\ z.flag = y.flag
            BY <1>2, <2>1, <3>1, <3>2 DEF NodeSet
        <3>4. QED
            BY <2>3, <3>1, <3>3
    <2>4. QED
        BY <2>1, <2>2, <2>3
<1>7. ms \in Seq(N) /\ Len(ms) = L
    BY <1>5, <1>6
<1>8. QED
    BY <1>1, <1>2, <1>4, <1>6, <1>7 DEF Arena

\* The command line is given up.
LEMMA GivenUp ==
    ASSUME Inv, parse.root = 0, nodes' = WithoutFds(nodes), phase' = "over",
           UNCHANGED <<mode, tokens, stack, docs, ran, fault>>, "DONE" \notin parse.flags,
           parse' \in [flags : SUBSET Flags, tok : Nat, look : Terminals, state : States, root : Nat],
           parse'.state = parse.state, parse'.root = 0, parse'.tok <= Len(tokens),
           "DONE" \notin parse'.flags, "HERE_BODY" \notin parse'.flags,
           body' \in [on : BOOLEAN, fd : Int, writable : BOOLEAN],
           body'.on = FALSE, body'.fd = body.fd,
           line' \in [text : Seq(Texts), at : Nat, whole : BOOLEAN, null : BOOLEAN],
           line'.at \in 1 .. Len(line'.text) + 1,
           open' \subseteq open, ~Unended' => open' = {0}
    PROVE  Inv'
<1> USE DEF Inv
<1>1. /\ mode' = mode /\ tokens' = tokens /\ stack' = stack
      /\ docs' = docs /\ ran' = ran /\ fault' = fault
    OBVIOUS
<1>2. PICK t \in Nat, d \in Nat : t = Len(tokens) /\ d = Len(docs)
    BY DEF Shapes
<1>3. Arena(nodes, t, d)
    BY <1>2 DEF Bear
<1>4. /\ Arena(nodes', t, d) /\ Len(nodes') = Len(nodes)
      /\ \A i \in 1 .. Len(nodes) : nodes'[i].type = nodes[i].type /\ nodes'[i].flag = nodes[i].flag
    BY <1>3, FdsGone
<1>5. ~PutAside'
    BY DEF PutAside
<1>10. Shapes'
    BY <1>1 DEF Shapes
<1>11. Path'
    BY <1>1 DEF Path
<1>12. Bear'
    <2>1. Held(nodes', stack, 0, Len(tokens))
        <3>1. Held(nodes, stack, 0, Len(tokens))
            BY DEF Bear
        <3>2. PICK ms : ms = nodes'
            OBVIOUS
        <3>3. Held(ms, stack, 0, Len(tokens))
            BY <1>4, <3>1, <3>2, HeldSame
        <3>4. QED
            BY <3>2, <3>3
    <2>2. Len(nodes') \in Nat
        BY <1>4 DEF Arena
    <2>3. QED
        BY <1>1, <1>2, <1>4, <2>1, <2>2 DEF Bear
<1>13. Flow'
    BY <1>1 DEF Flow
<1>14. Saved'
    BY <1>5 DEF Saved
<1>15. Lines'
    BY DEF Lines
<1>16. Ends'
    BY DEF Ends
<1>17. Blanks'
    BY DEF Blanks
<1>18. Documents'
    BY <1>1, <1>5 DEF Documents
<1>19. QED
    BY <1>10, <1>11, <1>12, <1>13, <1>14, <1>15, <1>16, <1>17, <1>18

\* An interrupt in a body.
LEMMA InterruptKeeps ==
    ASSUME Inv, Interrupt
    PROVE  Inv'
<1>1. /\ Reading /\ line.text # << >> /\ AtEnd /\ line' = [line EXCEPT !.null = TRUE]
      /\ nodes' = WithoutFds(nodes) /\ phase' = "over"
      /\ UNCHANGED <<mode, tokens, stack, docs, ran, fault>>
    BY DEF Interrupt, WithoutFds
<1>2. /\ line' \in [text : Seq(Texts), at : Nat, whole : BOOLEAN, null : BOOLEAN]
      /\ line.whole = FALSE /\ line'.at \in 1 .. Len(line'.text) + 1
    <2>1. /\ line' \in [text : Seq(Texts), at : Nat, whole : BOOLEAN, null : BOOLEAN]
          /\ line.whole = FALSE /\ line'.at = Len(line'.text) + 1 /\ Len(line'.text) \in Nat
        BY <1>1, NullLine
    <2>2. QED
        BY <2>1
<1>3. /\ phase = "parse" /\ parse.root = 0 /\ "DONE" \notin parse.flags
      /\ "SAVE_TOKENS" \notin parse.flags /\ body.on = TRUE
      /\ Top.node \in 1 .. Len(nodes) /\ Top.token \in 1 .. Len(tokens)
      /\ Top.node \in HereNodes(nodes) /\ PutAside
    BY <1>1, InBody
<1>4. /\ parse' \in [flags : SUBSET Flags, tok : Nat, look : Terminals, state : States, root : Nat]
      /\ parse'.flags = (parse.flags \ {"HERE_BODY"}) \cup {"INTERRUPTED"}
      /\ parse'.tok = Top.token /\ parse'.state = parse.state /\ parse'.root = 0
    <2>1. PICK p, F, k : /\ p = parse /\ F = (parse.flags \ {"HERE_BODY"}) \cup {"INTERRUPTED"}
                         /\ k = Top.token
        OBVIOUS
    <2>2. p \in [flags : SUBSET Flags, tok : Nat, look : Terminals, state : States, root : Nat]
        BY <2>1 DEF Inv, Shapes
    <2>3. F \in SUBSET Flags /\ k \in Nat
        BY <1>3, <2>1 DEF Inv, Shapes, Flags
    <2>4. parse' = [p EXCEPT !.flags = F, !.tok = k]
        BY <2>1 DEF Interrupt
    <2>5. QED
        BY <1>3, <2>1, <2>2, <2>3, <2>4
<1>5. /\ body' \in [on : BOOLEAN, fd : Int, writable : BOOLEAN]
      /\ body'.on = FALSE /\ body'.fd = body.fd
    BY DEF Interrupt, Inv, Shapes
<1>6. Len(tokens) \in Nat
    BY DEF Inv, Shapes
<1>7. PICK L \in Nat, t \in Nat, d \in Nat : L = Len(nodes) /\ t = Len(tokens) /\ d = Len(docs)
    BY DEF Inv, Bear, Arena, Shapes
<1>8. PICK x \in 1 .. L : x = Top.node
    BY <1>3, <1>7
<1>9. PICK ms : ms = WithFd(nodes, x, -1)
    OBVIOUS
<1>10. /\ Arena(ms, t, d) /\ Len(ms) = L
       /\ \A i \in 1 .. L : /\ ms[i].type = nodes[i].type /\ ms[i].flag = nodes[i].flag
                            /\ ms[i].fd = IF i = x THEN -1 ELSE nodes[i].fd
    <2>1. Arena(nodes, t, d) /\ -1 \in -1 .. d /\ x \in 1 .. Len(nodes)
        BY <1>7 DEF Inv, Bear
    <2>2. Arena(ms, t, d)
        BY <1>9, <2>1, FdSet
    <2>3. Len(ms) = L
        BY <1>7, <1>9, <2>1, FdSet
    <2>4. \A i \in 1 .. Len(nodes) : /\ ms[i].type = nodes[i].type /\ ms[i].flag = nodes[i].flag
                                     /\ ms[i].fd = IF i = x THEN -1 ELSE nodes[i].fd
        BY <1>9, <2>1, FdSet
    <2>5. QED
        BY <1>7, <2>2, <2>3, <2>4
<1>11. open' = open \ ({body.fd} \cup HereFds(ms))
    BY <1>8, <1>9 DEF Interrupt, WithFd
<1>12. HereNodes(ms) = HereNodes(nodes) /\ HereNodes(nodes) \subseteq 1 .. L
    <2>1. DOMAIN ms = 1 .. L /\ DOMAIN nodes = 1 .. L
        BY <1>7, <1>10 DEF Inv, Bear, Arena
    <2>2. QED
        BY <1>10, <2>1 DEF HereNodes
<1>13. open' = {0}
    <2>1. ~Unended
        BY <1>2 DEF Unended
    <2>2. /\ open = InUse /\ body.fd # 0
          /\ \A i \in HereNodes(nodes) : nodes[i].fd = 0 => i = x
        BY <1>3, <1>8, <2>1 DEF Inv, Documents
    <2>3. nodes[x].fd = 0
        BY <1>3, <1>8 DEF Inv, Documents
    <2>4. \A i \in HereNodes(nodes) : ms[i].fd # 0
        BY <1>10, <1>12, <2>2
    <2>5. \A i \in HereNodes(nodes) : nodes[i].fd = 0 \/ nodes[i].fd = ms[i].fd
        BY <1>10, <1>12, <2>3
    <2>6. HereFds(nodes) \subseteq {0} \cup HereFds(ms) /\ 0 \notin HereFds(ms)
        BY <1>12, <2>4, <2>5 DEF HereFds
    <2>7. open = ({0} \cup HereFds(nodes) \cup {body.fd}) \ {-1}
        BY <1>3, <2>2 DEF InUse
    <2>8. QED
        BY <1>11, <2>2, <2>6, <2>7
<1>14. open' \subseteq open
    BY <1>11
<1>15. parse'.tok <= Len(tokens) /\ "DONE" \notin parse'.flags /\ "HERE_BODY" \notin parse'.flags
    BY <1>3, <1>4, <1>6
<1>16. QED
    BY <1>1, <1>2, <1>3, <1>4, <1>5, <1>13, <1>14, <1>15, GivenUp

\* While the automaton decides, nothing is put aside.
LEMMA DecidingIs ==
    ASSUME Inv, Deciding
    PROVE  /\ fault = "none" /\ parse.root = 0 /\ ~PutAside /\ phase # "over"
           /\ "HERE_BODY" \notin parse.flags /\ body.on = FALSE /\ "DONE" \notin parse.flags
           /\ parse.state = Under(stack, Len(stack))
           /\ phase = "parse" => "HAS_LOOKAHEAD" \in parse.flags /\ "SAVE_TOKENS" \notin parse.flags
           /\ phase = "final" => "HAS_LOOKAHEAD" \notin parse.flags /\ parse.look = "EOF"
           /\ phase = "parse" \/ phase = "final"
           /\ Decision \in Int
           /\ Decision > 0 => Leads(parse.state, Decision, parse.look)
           /\ Decision < 0 => -Decision = YyDefAct[parse.state] /\ YyDefAct[parse.state] # 0
           /\ parse.state \in States \ {5} /\ parse.look \in Terminals
<1> USE DEF Inv
<1>1. /\ fault = "none" /\ parse.root = 0 /\ phase # "over"
      /\ phase = "parse" => "HAS_LOOKAHEAD" \in parse.flags /\ "SAVE_TOKENS" \notin parse.flags
      /\ phase = "parse" \/ phase = "final"
    BY DEF Deciding
<1>2. "HERE_BODY" \notin parse.flags
    BY <1>1 DEF Flow
<1>3. ~PutAside
    BY <1>1, <1>2 DEF PutAside
<1>4. body.on = FALSE
    BY <1>2 DEF Documents, Shapes
<1>5. "DONE" \notin parse.flags /\ parse.state = Under(stack, Len(stack)) /\ StackPath(stack)
    BY <1>1 DEF Path
<1>6. phase = "final" => "HAS_LOOKAHEAD" \notin parse.flags /\ parse.look = "EOF"
    BY DEF Flow
<1>7. parse.look \in Terminals
    BY DEF Shapes
<1>8. Len(stack) \in 0 .. Len(stack)
    BY <1>5, OnPath
<1>9. parse.state \in States \ {5}
    BY <1>5, <1>8, OnPath
<1>10. /\ Decision \in Int
       /\ Decision > 0 => Leads(parse.state, Decision, parse.look)
       /\ Decision < 0 => -Decision = YyDefAct[parse.state] /\ YyDefAct[parse.state] # 0
    BY <1>7, <1>9, Actions DEF Decision
<1>11. QED
    BY <1>1, <1>2, <1>3, <1>4, <1>5, <1>6, <1>7, <1>9, <1>10

\* A syntax error.
LEMMA SyntaxErrorKeeps ==
    ASSUME Inv, SyntaxError
    PROVE  Inv'
<1>1. /\ parse.root = 0 /\ ~PutAside /\ phase # "over" /\ "HERE_BODY" \notin parse.flags
      /\ body.on = FALSE /\ "DONE" \notin parse.flags
    BY DecidingIs DEF SyntaxError
<1>2. /\ nodes' = WithoutFds(nodes) /\ phase' = "over"
      /\ UNCHANGED <<mode, tokens, stack, docs, ran, fault>>
      /\ mode' = mode /\ line' = line /\ body' = body
    BY DEF SyntaxError, WithoutFds, reader
<1>3. /\ parse' \in [flags : SUBSET Flags, tok : Nat, look : Terminals, state : States, root : Nat]
      /\ parse'.flags = (parse.flags \ {"HAS_LOOKAHEAD"}) \cup {"ERROR"}
      /\ parse'.tok = parse.tok /\ parse'.state = parse.state /\ parse'.root = 0
    <2>1. PICK p, F : p = parse /\ F = (parse.flags \ {"HAS_LOOKAHEAD"}) \cup {"ERROR"}
        OBVIOUS
    <2>2. p \in [flags : SUBSET Flags, tok : Nat, look : Terminals, state : States, root : Nat]
        BY <2>1 DEF Inv, Shapes
    <2>3. F \in SUBSET Flags
        BY <2>1 DEF Inv, Shapes, Flags
    <2>4. parse' = [p EXCEPT !.flags = F]
        BY <2>1 DEF SyntaxError
    <2>5. QED
        BY <1>1, <2>1, <2>2, <2>3, <2>4
<1>4. open' = open \ HereFds(nodes)
    BY DEF SyntaxError
<1>5. ASSUME ~Unended' PROVE open' = {0}
    <2>1. ~Unended
        BY <1>2, <1>5 DEF Unended
    <2>2. open = InUse /\ \A i \in HereNodes(nodes) : nodes[i].fd # 0
        BY <1>1, <2>1 DEF Inv, Documents
    <2>3. 0 \notin HereFds(nodes)
        BY <2>2 DEF HereFds
    <2>4. open = ({0} \cup HereFds(nodes) \cup {}) \ {-1}
        BY <1>1, <2>2 DEF InUse
    <2>5. QED
        BY <1>4, <2>3, <2>4
<1>6. /\ body' \in [on : BOOLEAN, fd : Int, writable : BOOLEAN]
      /\ body'.on = FALSE /\ body'.fd = body.fd
    BY <1>1, <1>2 DEF Inv, Shapes
<1>7. /\ line' \in [text : Seq(Texts), at : Nat, whole : BOOLEAN, null : BOOLEAN]
      /\ line'.at \in 1 .. Len(line'.text) + 1
    BY <1>2 DEF Inv, Shapes, Lines
<1>8. parse'.tok <= Len(tokens) /\ "DONE" \notin parse'.flags /\ "HERE_BODY" \notin parse'.flags
    BY <1>1, <1>3 DEF Inv, Flow
<1>9. QED
    BY <1>1, <1>2, <1>3, <1>4, <1>5, <1>6, <1>7, <1>8, GivenUp

-------------------------------------------------------------------------------
(* The end of the line, and tokens put aside                                  *)

\* The state of the parser is that of the symbol on top.
LEMMA TopState ==
    ASSUME Inv, phase # "over"
    PROVE  /\ parse.state = Under(stack, Len(stack)) /\ Len(stack) \in Nat
           /\ stack = << >> => parse.state = 0
           /\ stack # << >> => /\ parse.state = Top.state
                               /\ Leads(Under(stack, Len(stack) - 1), Top.state, Top.type)
<1>1. StackPath(stack) /\ parse.state = Under(stack, Len(stack))
    BY DEF Inv, Path
<1>2. Len(stack) \in Nat
    BY <1>1, OnPath
<1>3. ASSUME stack = << >> PROVE parse.state = 0
    BY <1>1, <1>3 DEF Under
<1>4. ASSUME stack # << >>
      PROVE  /\ parse.state = Top.state
             /\ Leads(Under(stack, Len(stack) - 1), Top.state, Top.type)
    <2>1. Len(stack) \in 1 .. Len(stack) /\ Len(stack) # 0 /\ Top = stack[Len(stack)]
        BY <1>4, TopIs
    <2>2. QED
        BY <1>1, <2>1 DEF StackPath, Under
<1>5. QED
    BY <1>1, <1>2, <1>3, <1>4

\* The end of the text, while tokens are taken.
LEMMA LexEndsKeeps ==
    ASSUME Inv, LexEnds
    PROVE  Inv'
<1> USE DEF Inv
<1>1. /\ phase = "parse" /\ fault = "none" /\ parse.root = 0
      /\ "HAS_LOOKAHEAD" \notin parse.flags /\ "HERE_BODY" \notin parse.flags
      /\ "HAS_SAVED_TOKENS" \notin parse.flags /\ "DONE" \notin parse.flags
    BY DEF LexEnds, Fresh, Fetching, Path
<1>2. /\ mode' = mode /\ tokens' = tokens /\ stack' = stack /\ nodes' = nodes /\ body' = body
      /\ docs' = docs /\ open' = open /\ ran' = ran /\ fault' = fault
    BY DEF LexEnds, heredoc
<1>3. line.whole = FALSE /\ line.at = Len(line.text) + 1
    BY <1>1 DEF Lines, Shapes
<1>4. line.null = TRUE \/ EndsInNewline(line.text) => EndsInNewline(tokens)
    BY <1>1, <1>3 DEF Lines
<1>5. /\ line' \in [text : Seq(Texts), at : Nat, whole : BOOLEAN, null : BOOLEAN]
      /\ line'.text = line.text /\ line'.at = 1 /\ line'.whole = TRUE /\ line'.null = line.null
      /\ Len(line.text) \in Nat
    <2>1. PICK l : l = line
        OBVIOUS
    <2>2. l \in [text : Seq(Texts), at : Nat, whole : BOOLEAN, null : BOOLEAN]
        BY <2>1 DEF Shapes
    <2>3. line' = [l EXCEPT !.at = 1, !.whole = TRUE]
        BY <2>1 DEF LexEnds
    <2>4. /\ line' \in [text : Seq(Texts), at : Nat, whole : BOOLEAN, null : BOOLEAN]
          /\ line'.text = l.text /\ line'.at = 1 /\ line'.whole = TRUE /\ line'.null = l.null
        BY <2>2, <2>3
    <2>5. Len(l.text) \in Nat
        BY <2>2
    <2>6. QED
        BY <2>1, <2>4, <2>5
<1>6. parse.tok = Len(tokens) /\ Len(tokens) \in Nat
    BY <1>1 DEF Flow, Shapes
<1>7. Top' = Top /\ Mark' = Mark /\ HereNodes(nodes)' = HereNodes(nodes) /\ InUse' = InUse
    BY <1>2 DEF Top, Mark, HereNodes, HereFds, InUse
<1>8. body.on = FALSE
    BY <1>1 DEF Documents, Shapes
<1>9. CASE "SAVE_TOKENS" \in parse.flags
    <2>1. /\ parse' \in [flags : SUBSET Flags, tok : Nat, look : Terminals, state : States, root : Nat]
          /\ parse'.flags = StartHereBody(parse.flags)
          /\ parse'.tok = parse.tok /\ parse'.state = parse.state /\ parse'.root = 0
          /\ parse'.look = parse.look
        <3>1. PICK p, F : p = parse /\ F = StartHereBody(parse.flags)
            OBVIOUS
        <3>2. p \in [flags : SUBSET Flags, tok : Nat, look : Terminals, state : States, root : Nat]
            BY <3>1 DEF Shapes
        <3>3. F \in SUBSET Flags
            BY <3>1 DEF Shapes, Flags, StartHereBody
        <3>4. parse' = [p EXCEPT !.flags = F]
            BY <1>9, <3>1 DEF LexEnds
        <3>5. QED
            BY <1>1, <3>1, <3>2, <3>3, <3>4
    <2>2. phase' = phase
        BY <1>9 DEF LexEnds
    <2>3. PutAside /\ PutAside'
        BY <1>1, <1>9, <2>1, <2>2 DEF PutAside, StartHereBody
    <2>4. stack # << >> /\ Top.type = "io_here" /\ ~AllBlank(stack)
        BY <2>3, NotBlank
    <2>5. Consumed' = Consumed
        BY <1>7, <2>3 DEF Consumed
    <2>6. ~EndsInNewline(tokens)
        <3>1. /\ Top.token < parse.tok
              /\ \A k \in Top.token + 1 .. parse.tok : tokens[k] # "nl"
            BY <1>1, <1>9, <2>3 DEF Saved
        <3>2. Top.token \in Nat
            BY <2>4, TopIs
        <3>3. parse.tok \in Top.token + 1 .. parse.tok
            BY <1>6, <3>1, <3>2
        <3>4. tokens[Len(tokens)] # "nl"
            BY <1>6, <3>1, <3>3
        <3>5. QED
            BY <3>4 DEF EndsInNewline, EndsIn, Last
    <2>7. line.null = FALSE /\ ~EndsInNewline(line.text)
        BY <1>4, <2>6 DEF Shapes
    <2>8. Unended'
        BY <1>5, <2>7 DEF Unended
    <2>10. Shapes'
        BY <1>2, <1>5, <2>1, <2>2 DEF Shapes
    <2>11. Path'
        BY <1>1, <1>2, <2>1, <2>2 DEF Path, StartHereBody
    <2>12. Bear'
        BY <1>1, <1>2, <1>7, <2>1, <2>2 DEF Bear
    <2>13. Flow'
        BY <1>1, <1>2, <1>6, <2>1, <2>2 DEF Flow, StartHereBody
    <2>14. Saved'
        <3>1. "SAVE_TOKENS" \notin parse'.flags
            BY <2>1 DEF StartHereBody
        <3>2. QED
            BY <1>2, <1>5, <1>7, <2>1, <2>3, <3>1 DEF Saved
    <2>15. Lines'
        BY <1>2, <1>5, <2>1, <2>2, <2>7 DEF Lines, StartHereBody
    <2>16. Ends'
        <3>1. Top.type # "here_end"
            BY <2>4
        <3>2. QED
            BY <1>1, <1>2, <1>7, <2>2, <2>5, <3>1 DEF Ends
    <2>17. Blanks'
        BY <1>1, <1>2, <2>1, <2>2, <2>4 DEF Blanks
    <2>18. Documents'
        BY <1>2, <1>7, <1>8, <2>1, <2>3, <2>8 DEF Documents
    <2>19. QED
        BY <2>10, <2>11, <2>12, <2>13, <2>14, <2>15, <2>16, <2>17, <2>18
<1>10. CASE "SAVE_TOKENS" \notin parse.flags
    <2>1. /\ parse' \in [flags : SUBSET Flags, tok : Nat, look : Terminals, state : States, root : Nat]
          /\ parse'.flags = parse.flags
          /\ parse'.tok = parse.tok /\ parse'.state = parse.state /\ parse'.root = 0
          /\ parse'.look = "EOF"
        <3>1. PICK p : p = parse
            OBVIOUS
        <3>2. p \in [flags : SUBSET Flags, tok : Nat, look : Terminals, state : States, root : Nat]
            BY <3>1 DEF Shapes
        <3>3. "EOF" \in Terminals
            BY DEF Terminals, Symbols, SymbolType
        <3>4. parse' = [p EXCEPT !.look = "EOF"]
            BY <1>10, <3>1 DEF LexEnds
        <3>5. QED
            BY <1>1, <3>1, <3>2, <3>3, <3>4
    <2>2. phase' = "final"
        BY <1>10 DEF LexEnds
    <2>3. ~PutAside /\ ~PutAside'
        BY <1>1, <1>10, <2>1, <2>2 DEF PutAside
    <2>5. Consumed' = Consumed /\ Consumed = Len(tokens)
        BY <1>1, <1>6, <1>7, <2>1, <2>3 DEF Consumed
    <2>6. ASSUME ~Unended' PROVE parse.state \notin {27, 28}
        <3>1. EndsInNewline(tokens)
            BY <1>4, <1>5, <2>6 DEF Unended
        <3>2. tokens[Len(tokens)] = "nl"
            BY <3>1 DEF EndsInNewline, EndsIn, Last
        <3>3. ASSUME parse.state = 27 \/ parse.state = 28 PROVE FALSE
            <4>1. /\ stack # << >> /\ parse.state = Top.state
                  /\ Leads(Under(stack, Len(stack) - 1), Top.state, Top.type)
                BY <1>1, <3>3, TopState
            <4>2. CASE parse.state = 27
                <5>1. Top.type = "WORD"
                    BY <4>1, <4>2, Landmarks
                <5>2. Top.type \in Terminals /\ Top.type \notin {"linebreak", "program"}
                    BY <5>1 DEF Terminals, Symbols, SymbolType
                <5>3. Top.token = Len(tokens) /\ ClassifyToken(tokens[Top.token]) = "WORD"
                    BY <1>1, <2>5, <4>1, <5>1, <5>2 DEF Ends
                <5>4. QED
                    BY <3>2, <5>3, ClassesKnown
            <4>3. CASE parse.state = 28
                <5>1. Top.type = "here_end"
                    BY <4>1, <4>3, Landmarks
                <5>2. QED
                    BY <1>1, <4>1, <5>1 DEF Ends
            <4>4. QED
                BY <3>3, <4>2, <4>3
        <3>4. QED
            BY <3>3
    <2>10. Shapes'
        BY <1>2, <1>5, <2>1, <2>2 DEF Shapes
    <2>11. Path'
        BY <1>1, <1>2, <2>1, <2>2 DEF Path
    <2>12. Bear'
        BY <1>1, <1>2, <1>7, <2>1, <2>2 DEF Bear
    <2>13. Flow'
        BY <1>1, <1>2, <1>6, <2>1, <2>2 DEF Flow
    <2>14. Saved'
        BY <2>3 DEF Saved
    <2>15. Lines'
        BY <1>2, <1>5, <2>1, <2>2 DEF Lines
    <2>16. Ends'
        BY <1>1, <1>2, <1>7, <2>2, <2>5 DEF Ends
    <2>17. Blanks'
        BY <1>1, <1>2, <1>7, <2>1, <2>2, <2>5 DEF Blanks
    <2>18. Documents'
        <3>1. ~Unended
            BY <1>3 DEF Unended
        <3>2. QED
            BY <1>1, <1>2, <1>7, <1>8, <2>1, <2>2, <2>3, <2>6, <3>1 DEF Documents
    <2>19. QED
        BY <2>10, <2>11, <2>12, <2>13, <2>14, <2>15, <2>16, <2>17, <2>18
<1>11. QED
    BY <1>9, <1>10

\* A token that was put aside.
LEMMA ReplayTokenKeeps ==
    ASSUME Inv, ReplayToken
    PROVE  Inv'
<1> USE DEF Inv
<1>1. /\ phase = "parse" /\ fault = "none" /\ parse.root = 0
      /\ "HAS_LOOKAHEAD" \notin parse.flags /\ "HERE_BODY" \notin parse.flags
      /\ "HAS_SAVED_TOKENS" \in parse.flags /\ "DONE" \notin parse.flags
      /\ parse.tok < Len(tokens)
    BY DEF ReplayToken, Fetching, Path
<1>2. /\ mode' = mode /\ line' = line /\ tokens' = tokens /\ stack' = stack /\ nodes' = nodes
      /\ body' = body /\ docs' = docs /\ open' = open /\ ran' = ran /\ phase' = phase
      /\ fault' = fault
    BY DEF ReplayToken, heredoc, reader
<1>3. PICK t : t = tokens[parse.tok + 1]
    OBVIOUS
<1>4. Len(tokens) \in Nat /\ parse.tok \in Nat
    BY DEF Shapes
<1>5. OneLine(parse.tok + 1)
    BY <1>1 DEF Flow
<1>6. /\ parse' \in [flags : SUBSET Flags, tok : Nat, look : Terminals, state : States, root : Nat]
      /\ parse'.flags = (IF t = "nl" THEN parse.flags \ {"HAS_SAVED_TOKENS"} ELSE parse.flags)
                        \cup {"HAS_LOOKAHEAD"}
      /\ parse'.tok = parse.tok + 1 /\ parse'.state = parse.state /\ parse'.root = 0
      /\ parse'.look = ClassifyToken(t)
    <2>1. PICK p, F, c, k :
            /\ p = parse /\ c = ClassifyToken(t) /\ k = parse.tok + 1
            /\ F = (IF t = "nl" THEN parse.flags \ {"HAS_SAVED_TOKENS"} ELSE parse.flags)
                   \cup {"HAS_LOOKAHEAD"}
        OBVIOUS
    <2>2. p \in [flags : SUBSET Flags, tok : Nat, look : Terminals, state : States, root : Nat]
        BY <2>1 DEF Shapes
    <2>3. F \in SUBSET Flags
        BY <2>1 DEF Shapes, Flags
    <2>4. c \in Terminals /\ k \in Nat
        BY <1>4, <2>1, ClassesKnown
    <2>5. parse' = [p EXCEPT !.tok = k, !.look = c, !.flags = F]
        BY <1>3, <2>1 DEF ReplayToken
    <2>6. QED
        BY <1>1, <2>1, <2>2, <2>3, <2>4, <2>5
<1>7. Top' = Top /\ Mark' = Mark /\ HereNodes(nodes)' = HereNodes(nodes) /\ InUse' = InUse
    BY <1>2 DEF Top, Mark, HereNodes, HereFds, InUse
<1>8. PutAside' = PutAside
    BY <1>1, <1>2, <1>6 DEF PutAside
<1>9. Consumed' = Consumed
    BY <1>1, <1>4, <1>6, <1>7, <1>8 DEF Consumed
<1>10. Shapes'
    BY <1>2, <1>6 DEF Shapes
<1>11. Path'
    BY <1>1, <1>2, <1>6 DEF Path
<1>12. Bear'
    BY <1>1, <1>2, <1>6, <1>7 DEF Bear
<1>13. Flow'
    <2>1. ASSUME t = "nl" PROVE parse.tok + 1 = Len(tokens)
        <3>1. PICK k, L \in Nat : k = parse.tok + 1 /\ L = Len(tokens) /\ k \in Nat /\ k <= L
            BY <1>1, <1>4
        <3>2. tokens[k] = "nl" /\ \A i \in k .. L - 1 : tokens[i] # "nl"
            BY <1>3, <1>5, <2>1, <3>1 DEF OneLine
        <3>3. k \notin k .. L - 1
            BY <3>2
        <3>4. QED
            BY <3>1, <3>3
    <2>2. ASSUME t # "nl" PROVE OneLine(parse.tok + 1 + 1)
        <3>1. parse.tok + 1 # Len(tokens)
            BY <1>3, <1>5, <2>2 DEF OneLine
        <3>2. QED
            BY <1>1, <1>4, <1>5, <3>1 DEF OneLine
    <2>3. (OneLine(parse.tok + 1))' = OneLine(parse.tok + 1 + 1)
        BY <1>2, <1>6 DEF OneLine
    <2>4. parse'.tok >= 1 /\ parse'.tok <= Len(tokens)
        BY <1>1, <1>4, <1>6
    <2>5. QED
        BY <1>1, <1>2, <1>3, <1>6, <2>1, <2>2, <2>3, <2>4 DEF Flow
<1>14. Saved'
    <2>1. ASSUME PutAside
          PROVE  /\ "SAVE_TOKENS" \in parse.flags /\ Top.token < parse.tok /\ Top.token \in Nat
                 /\ \A k \in Top.token + 1 .. parse.tok : tokens[k] # "nl"
        <3>1. "SAVE_TOKENS" \in parse.flags
            BY <1>1, <2>1 DEF PutAside
        <3>2. stack # << >>
            BY <2>1, NotBlank
        <3>3. Top.token \in Nat
            BY <3>2, TopIs
        <3>4. QED
            BY <1>1, <2>1, <3>1, <3>3 DEF Saved
    <2>2. QED
        BY <1>1, <1>2, <1>4, <1>6, <1>7, <1>8, <2>1 DEF Saved
<1>15. Lines'
    BY <1>1, <1>2, <1>6 DEF Lines
<1>16. Ends'
    BY <1>1, <1>2, <1>6, <1>7, <1>9 DEF Ends
<1>17. Blanks'
    BY <1>1, <1>2, <1>6, <1>7, <1>9 DEF Blanks
<1>18. Documents'
    <2>1. Unended' = Unended
        BY <1>2 DEF Unended
    <2>2. body.on = FALSE
        BY <1>1 DEF Documents, Shapes
    <2>3. QED
        BY <1>1, <1>2, <1>6, <1>7, <1>8, <2>1, <2>2 DEF Documents
<1>19. QED
    BY <1>10, <1>11, <1>12, <1>13, <1>14, <1>15, <1>16, <1>17, <1>18

\* The lookahead is put aside.
LEMMA SaveTokenKeeps ==
    ASSUME Inv, SaveToken
    PROVE  Inv'
<1> USE DEF Inv
<1>1. /\ phase = "parse" /\ fault = "none" /\ parse.root = 0
      /\ "HAS_LOOKAHEAD" \in parse.flags /\ "SAVE_TOKENS" \in parse.flags
      /\ "HERE_BODY" \notin parse.flags /\ "DONE" \notin parse.flags
    BY DEF SaveToken, Path, Flow
<1>2. /\ mode' = mode /\ line' = line /\ tokens' = tokens /\ stack' = stack /\ nodes' = nodes
      /\ body' = body /\ docs' = docs /\ open' = open /\ ran' = ran /\ phase' = phase
      /\ fault' = fault
    BY DEF SaveToken, heredoc, reader
<1>3. PICK t : t = tokens[parse.tok]
    OBVIOUS
<1>4. Len(tokens) \in Nat /\ parse.tok \in Nat /\ parse.tok <= Len(tokens)
    BY DEF Shapes, Flow
<1>6. /\ parse' \in [flags : SUBSET Flags, tok : Nat, look : Terminals, state : States, root : Nat]
      /\ parse'.flags = (IF t = "nl" THEN StartHereBody(parse.flags \ {"HAS_LOOKAHEAD"})
                         ELSE parse.flags \ {"HAS_LOOKAHEAD"})
      /\ parse'.tok = parse.tok /\ parse'.state = parse.state /\ parse'.root = 0
      /\ parse'.look = parse.look
    <2>1. PICK p, F :
            /\ p = parse
            /\ F = (IF t = "nl" THEN StartHereBody(parse.flags \ {"HAS_LOOKAHEAD"})
                    ELSE parse.flags \ {"HAS_LOOKAHEAD"})
        OBVIOUS
    <2>2. p \in [flags : SUBSET Flags, tok : Nat, look : Terminals, state : States, root : Nat]
        BY <2>1 DEF Shapes
    <2>3. F \in SUBSET Flags
        BY <2>1 DEF Shapes, Flags, StartHereBody
    <2>5. parse' = [p EXCEPT !.flags = F]
        BY <1>3, <2>1 DEF SaveToken
    <2>6. QED
        BY <1>1, <2>1, <2>2, <2>3, <2>5
<1>7. Top' = Top /\ Mark' = Mark /\ HereNodes(nodes)' = HereNodes(nodes) /\ InUse' = InUse
    BY <1>2 DEF Top, Mark, HereNodes, HereFds, InUse
<1>8. PutAside' /\ PutAside
    BY <1>1, <1>2, <1>6 DEF PutAside, StartHereBody
<1>9. Consumed' = Consumed
    BY <1>7, <1>8 DEF Consumed
<1>a. stack # << >> /\ Top.type = "io_here" /\ ~AllBlank(stack)
    BY <1>8, NotBlank
<1>b. Top.token \in Nat
    BY <1>a, TopIs
<1>c. /\ Top.token < parse.tok
      /\ \A k \in Top.token + 1 .. parse.tok : tokens[k] = "nl" => k = parse.tok
    BY <1>1, <1>8 DEF Saved
<1>d. ASSUME t = "nl" PROVE parse.tok = Len(tokens) /\ tokens[Len(tokens)] = "nl"
    BY <1>1, <1>3, <1>d DEF Flow
<1>10. Shapes'
    BY <1>2, <1>6 DEF Shapes
<1>11. Path'
    BY <1>1, <1>2, <1>6 DEF Path, StartHereBody
<1>12. Bear'
    BY <1>1, <1>2, <1>6, <1>7 DEF Bear
<1>13. Flow'
    BY <1>1, <1>2, <1>3, <1>4, <1>6 DEF Flow, OneLine, StartHereBody
<1>14. Saved'
    <2>1. ASSUME t = "nl" PROVE OneLine(Top.token + 1)
        BY <1>4, <1>b, <1>c, <1>d, <2>1 DEF OneLine
    <2>2. (OneLine(Top.token + 1))' = OneLine(Top.token + 1)
        BY <1>2, <1>7 DEF OneLine
    <2>3. CASE t = "nl"
        <3>1. "SAVE_TOKENS" \notin parse'.flags
            BY <1>6, <2>3 DEF StartHereBody
        <3>2. QED
            BY <1>2, <1>6, <1>7, <1>8, <2>1, <2>2, <2>3, <3>1 DEF Saved
    <2>4. CASE t # "nl"
        <3>1. "HERE_BODY" \notin parse'.flags
            BY <1>1, <1>6, <2>4
        <3>2. \A k \in Top.token + 1 .. parse.tok : tokens[k] # "nl"
            BY <1>3, <1>c, <2>4
        <3>3. QED
            BY <1>2, <1>6, <1>7, <1>8, <1>c, <3>1, <3>2 DEF Saved
    <2>5. QED
        BY <2>3, <2>4
<1>15. Lines'
    <2>1. line.whole = FALSE
        BY <1>1 DEF Lines, Shapes
    <2>2. ASSUME t = "nl" PROVE EndsInNewline(tokens)
        BY <1>4, <1>b, <1>c, <1>d, <2>2 DEF EndsInNewline, EndsIn, Last
    <2>3. "HERE_BODY" \in parse'.flags => t = "nl"
        BY <1>1, <1>6
    <2>4. QED
        BY <1>1, <1>2, <2>1, <2>2, <2>3 DEF Lines
<1>16. Ends'
    <2>1. Top.type # "here_end"
        BY <1>a
    <2>2. QED
        BY <1>1, <1>2, <1>7, <1>9, <2>1 DEF Ends
<1>17. Blanks'
    BY <1>2, <1>a DEF Blanks
<1>18. Documents'
    <2>1. Unended' = Unended
        BY <1>2 DEF Unended
    <2>2. body.on = FALSE
        BY <1>1 DEF Documents, Shapes
    <2>3. QED
        BY <1>1, <1>2, <1>6, <1>7, <1>8, <2>1, <2>2 DEF Documents
<1>19. QED
    BY <1>10, <1>11, <1>12, <1>13, <1>14, <1>15, <1>16, <1>17, <1>18

-------------------------------------------------------------------------------
(* Shifts                                                                     *)

\* What is on a stack once all above its first m symbols is replaced by e.
Pushed(st, m, e, new) ==
    /\ new \in Seq(Symbol) /\ Len(new) = m + 1 /\ new[m + 1] = e
    /\ \A i \in 1 .. m : new[i] = st[i]

\* The path goes on from there.
LEMMA PathOn ==
    ASSUME NEW st, StackPath(st), NEW m \in 0 .. Len(st), NEW e \in Symbol,
           Leads(Under(st, m), e.state, e.type), e.type # "EOF", NEW new, Pushed(st, m, e, new)
    PROVE  StackPath(new) /\ Under(new, Len(new)) = e.state /\ new # << >>
<1>1. Len(st) \in Nat /\ m \in Nat /\ Len(new) = m + 1 /\ new[m + 1] = e
    BY OnPath DEF Pushed
<1>2. ASSUME NEW i \in 0 .. m PROVE Under(new, i) = Under(st, i)
    BY <1>1 DEF Under, Pushed
<1>3. ASSUME NEW i \in 1 .. m
      PROVE  Leads(Under(new, i - 1), new[i].state, new[i].type) /\ new[i].type # "EOF"
    <2>1. i \in 1 .. Len(st) /\ i - 1 \in 0 .. m /\ new[i] = st[i]
        BY <1>1 DEF Pushed
    <2>2. QED
        BY <1>2, <2>1 DEF StackPath
<1>4. Leads(Under(new, (m + 1) - 1), new[m + 1].state, new[m + 1].type) /\ new[m + 1].type # "EOF"
    <2>1. (m + 1) - 1 = m /\ m \in 0 .. m
        BY <1>1
    <2>2. QED
        BY <1>1, <1>2, <2>1
<1>5. \A i \in 1 .. Len(new) : i \in 1 .. m \/ i = m + 1
    BY <1>1
<1>6. StackPath(new)
    BY <1>3, <1>4, <1>5 DEF StackPath, Pushed
<1>7. Under(new, Len(new)) = e.state
    BY <1>1 DEF Under
<1>8. new # << >>
    BY <1>1
<1>9. QED
    BY <1>6, <1>7, <1>8

\* The end of the text is shifted: it has been accepted.
LEMMA AcceptKeeps ==
    ASSUME Inv, Shift, Decision = YyFinal
    PROVE  Inv'
<1> USE DEF Inv
<1>0. Deciding
    BY DEF Shift
<1>1. /\ fault = "none" /\ parse.root = 0 /\ ~PutAside /\ phase # "over"
      /\ "HERE_BODY" \notin parse.flags /\ body.on = FALSE /\ "DONE" \notin parse.flags
    BY <1>0, DecidingIs
<1>2. parse.state = 2 /\ parse.look = "EOF"
    <2>1. Leads(parse.state, 5, parse.look)
        BY <1>0, DecidingIs DEF YyFinal
    <2>2. QED
        BY <2>1, Landmarks
<1>3. phase = "final"
    <2>1. CASE phase = "parse"
        BY <1>0, <1>2, <2>1, DecidingIs, ClassesKnown DEF Flow
    <2>2. QED
        BY <1>0, <2>1, DecidingIs
<1>4. /\ mode' = mode /\ line' = line /\ tokens' = tokens /\ stack' = stack /\ nodes' = nodes
      /\ body' = body /\ docs' = docs /\ open' = open /\ ran' = ran /\ phase' = "over"
      /\ fault' = fault
    BY DEF Shift, heredoc, reader
<1>5. /\ parse' \in [flags : SUBSET Flags, tok : Nat, look : Terminals, state : States, root : Nat]
      /\ parse'.flags = (parse.flags \ {"HAS_LOOKAHEAD"}) \cup {"DONE"}
      /\ parse'.tok = parse.tok /\ parse'.state = YyFinal /\ parse'.root = 0
    <2>1. PICK p, F : p = parse /\ F = (parse.flags \ {"HAS_LOOKAHEAD"}) \cup {"DONE"}
        OBVIOUS
    <2>2. p \in [flags : SUBSET Flags, tok : Nat, look : Terminals, state : States, root : Nat]
        BY <2>1 DEF Shapes
    <2>3. F \in SUBSET Flags
        BY <2>1 DEF Shapes, Flags
    <2>4. parse' = [p EXCEPT !.state = 5, !.flags = F]
        BY <2>1 DEF Shift, YyFinal
    <2>5. 5 \in States
        BY DEF States
    <2>6. QED
        BY <1>1, <2>1, <2>2, <2>3, <2>4, <2>5 DEF YyFinal
<1>6. Top' = Top /\ Mark' = Mark /\ HereNodes(nodes)' = HereNodes(nodes) /\ ~PutAside'
    BY <1>4 DEF Top, Mark, HereNodes, PutAside
<1>7. Consumed' = Consumed
    BY <1>1, <1>3, <1>4, <1>5, <1>6 DEF Consumed, Flow
<1>8. AllBlank(stack) /\ Under(stack, Len(stack)) = 2
    <2>1. /\ stack # << >> /\ Under(stack, Len(stack)) = 2 /\ Len(stack) \in Nat
          /\ Leads(Under(stack, Len(stack) - 1), 2, Top.type)
        BY <1>1, <1>2, TopState
    <2>2. Under(stack, Len(stack) - 1) = 0 /\ Top.type = "program"
        BY <2>1, Landmarks
    <2>3. Len(stack) >= 1 /\ Top = stack[Len(stack)]
        BY <2>1, TopIs
    <2>4. Len(stack) - 1 \notin 1 .. Len(stack)
        BY <2>2, OnPath DEF Path
    <2>5. Len(stack) = 1
        <3>1. PICK n : n = Len(stack)
            OBVIOUS
        <3>2. n \in Nat /\ n >= 1
            BY <2>1, <2>3, <3>1
        <3>3. n - 1 \notin 1 .. n
            BY <2>4, <3>1
        <3>4. n = 1
            BY <3>2, <3>3
        <3>5. QED
            BY <3>1, <3>4
    <2>6. QED
        BY <2>1, <2>2, <2>3, <2>5 DEF AllBlank, Blank
<1>9. nodes = << >>
    BY <1>1, <1>8 DEF Blanks
<1>10. Shapes'
    BY <1>4, <1>5 DEF Shapes
<1>11. Path'
    BY <1>4, <1>5, <1>8 DEF Path
<1>12. Bear'
    BY <1>1, <1>4, <1>5, <1>6 DEF Bear
<1>13. Flow'
    BY <1>1, <1>3, <1>4, <1>5 DEF Flow
<1>14. Saved'
    BY <1>6 DEF Saved
<1>15. Lines'
    BY <1>4 DEF Lines
<1>16. Ends'
    BY <1>4 DEF Ends
<1>17. Blanks'
    BY <1>1, <1>4, <1>6, <1>7 DEF Blanks
<1>18. Documents'
    <2>1. Unended' = Unended
        BY <1>4 DEF Unended
    <2>2. HereFds(nodes) = {}
        BY <1>9 DEF HereFds, HereNodes
    <2>3. InUse = {0}
        BY <1>1, <2>2 DEF InUse
    <2>4. QED
        BY <1>1, <1>4, <1>6, <2>1, <2>3 DEF Documents
<1>19. QED
    BY <1>10, <1>11, <1>12, <1>13, <1>14, <1>15, <1>16, <1>17, <1>18

\* A token is shifted.
LEMMA ShiftKeeps ==
    ASSUME Inv, Shift, Decision # YyFinal
    PROVE  Inv'
<1> USE DEF Inv
<1>0. Deciding /\ Decision > 0
    BY DEF Shift
<1>1. /\ fault = "none" /\ parse.root = 0 /\ ~PutAside /\ phase # "over"
      /\ "HERE_BODY" \notin parse.flags /\ body.on = FALSE /\ "DONE" \notin parse.flags
      /\ parse.state = Under(stack, Len(stack)) /\ parse.look \in Terminals
    BY <1>0, DecidingIs
<1>2. PICK s, x : s = Decision /\ x = parse.look
    OBVIOUS
<1>3. Leads(parse.state, s, x) /\ s \in States /\ x # "EOF"
    <2>1. Leads(parse.state, s, x)
        BY <1>0, <1>2, DecidingIs
    <2>2. QED
        BY <1>2, <2>1, Landmarks DEF YyFinal
<1>4. phase = "parse" /\ "HAS_LOOKAHEAD" \in parse.flags /\ "SAVE_TOKENS" \notin parse.flags
    BY <1>0, <1>2, <1>3, DecidingIs
<1>5. PICK k \in Nat : k = parse.tok
    BY DEF Shapes
<1>6. k \in 1 .. Len(tokens) /\ ClassifyToken(tokens[k]) = x /\ Len(tokens) \in Nat
    BY <1>2, <1>4, <1>5 DEF Flow, Shapes
<1>7. PICK e : e = [type |-> x, token |-> k, node |-> 0, state |-> s]
    OBVIOUS
<1>8. e \in Symbol /\ e.type = x /\ e.token = k /\ e.node = 0 /\ e.state = s
    <2>1. x \in Symbols
        BY <1>1, <1>2 DEF Terminals
    <2>2. s \in DOMAIN YyPact
        BY <1>3 DEF States, YyPact, Table
    <2>3. QED
        BY <1>7, <2>1, <2>2 DEF Symbol
<1>9. /\ mode' = mode /\ line' = line /\ tokens' = tokens /\ nodes' = nodes
      /\ body' = body /\ docs' = docs /\ open' = open /\ ran' = ran /\ phase' = phase
      /\ fault' = fault
    BY DEF Shift, heredoc, reader
<1>10. /\ parse' \in [flags : SUBSET Flags, tok : Nat, look : Terminals, state : States, root : Nat]
       /\ parse'.flags = parse.flags \ {"HAS_LOOKAHEAD"}
       /\ parse'.tok = k /\ parse'.state = s /\ parse'.root = 0 /\ parse'.look = parse.look
    <2>1. PICK p, F : p = parse /\ F = parse.flags \ {"HAS_LOOKAHEAD"}
        OBVIOUS
    <2>2. p \in [flags : SUBSET Flags, tok : Nat, look : Terminals, state : States, root : Nat]
        BY <2>1 DEF Shapes
    <2>3. F \in SUBSET Flags
        BY <2>1 DEF Shapes, Flags
    <2>4. parse' = [p EXCEPT !.state = s, !.flags = F]
        BY <1>2, <2>1 DEF Shift
    <2>5. QED
        BY <1>1, <1>3, <1>5, <2>1, <2>2, <2>3, <2>4
<1>11. StackPath(stack) /\ stack \in Seq(Symbol)
    BY DEF Path, StackPath
<1>12. PICK L \in Nat : L = Len(stack) /\ L \in 0 .. Len(stack)
    BY <1>11, OnPath
<1>13. stack' = Append(stack, e)
    BY <1>2, <1>5, <1>7 DEF Shift
<1>14. Pushed(stack, L, e, stack')
    BY <1>8, <1>11, <1>12, <1>13, Longer DEF Pushed
<1>15. StackPath(stack') /\ Under(stack', Len(stack')) = s /\ stack' # << >>
    <2>1. PICK new : new = stack'
        OBVIOUS
    <2>2. Pushed(stack, L, e, new)
        BY <1>14, <2>1
    <2>3. Leads(Under(stack, L), e.state, e.type) /\ e.type # "EOF"
        BY <1>1, <1>3, <1>8, <1>12
    <2>4. StackPath(new) /\ Under(new, Len(new)) = e.state /\ new # << >>
        BY <1>8, <1>11, <1>12, <2>2, <2>3, PathOn
    <2>5. QED
        BY <1>8, <2>1, <2>4
<1>16. Top' = e
    BY <1>14 DEF Top, Pushed
<1>17. /\ Mark' = Mark /\ HereNodes(nodes)' = HereNodes(nodes) /\ InUse' = InUse
       /\ ~PutAside'
    BY <1>1, <1>4, <1>9, <1>10 DEF Mark, HereNodes, HereFds, InUse, PutAside
<1>18. Consumed = k - 1 /\ Consumed' = k
    BY <1>1, <1>4, <1>5, <1>10, <1>17 DEF Consumed
<1>20. Shapes'
    BY <1>9, <1>10 DEF Shapes
<1>21. Path'
    BY <1>1, <1>9, <1>10, <1>15 DEF Path
<1>22. Bear'
    <2>1. Carries(nodes, x, 0)
        BY <1>1, <1>2, NoNode DEF Carries, Terminals
    <2>2. Held(nodes, stack, 0, Len(tokens))
        BY <1>1 DEF Bear
    <2>3. ASSUME NEW i \in 1 .. L + 1
          PROVE  /\ stack'[i].token <= Len(tokens)
                 /\ Carries(nodes, stack'[i].type, stack'[i].node)
        <3>1. CASE i = L + 1
            BY <1>6, <1>8, <1>14, <2>1, <3>1 DEF Pushed
        <3>2. CASE i \in 1 .. L
            BY <1>12, <1>14, <2>2, <3>2 DEF Pushed, Held
        <3>3. QED
            BY <1>12, <3>1, <3>2
    <2>4. Len(stack') = L + 1
        BY <1>14 DEF Pushed
    <2>5. Held(nodes, stack', 0, Len(tokens))
        BY <2>3, <2>4 DEF Held
    <2>6. QED
        BY <1>1, <1>9, <1>10, <2>5 DEF Bear
<1>23. Flow'
    BY <1>1, <1>4, <1>5, <1>9, <1>10 DEF Flow, OneLine
<1>24. Saved'
    BY <1>17 DEF Saved
<1>25. Lines'
    BY <1>1, <1>9, <1>10 DEF Lines
<1>26. Ends'
    <2>1. x # "here_end"
        <3>1. "here_end" \notin Terminals
            BY DEF Terminals, Symbols, SymbolType
        <3>2. QED
            BY <1>1, <1>2, <3>1
    <2>2. QED
        BY <1>1, <1>2, <1>6, <1>8, <1>9, <1>16, <1>18, <2>1 DEF Ends
<1>27. Blanks'
    <2>1. SUFFICES ASSUME AllBlank(stack')
                   PROVE  nodes = << >> /\ \A i \in Mark + 1 .. k : tokens[i] = "nl"
        BY <1>9, <1>17, <1>18 DEF Blanks
    <2>2. AllBlank(stack)
        BY <1>12, <1>14, <2>1 DEF AllBlank, Pushed
    <2>3. x \in Blank
        <3>1. L + 1 \in 1 .. Len(stack')
            BY <1>14 DEF Pushed
        <3>2. QED
            BY <1>8, <1>14, <2>1, <3>1 DEF AllBlank, Pushed
    <2>4. x = "NEWLINE"
        <3>1. \A y \in Blank \ {"NEWLINE"} : y \notin Terminals
            BY DEF Blank, Terminals, Symbols, SymbolType
        <3>2. QED
            BY <1>1, <1>2, <2>3, <3>1
    <2>5. tokens[k] = "nl"
        BY <1>6, <2>4, ClassesKnown
    <2>6. nodes = << >> /\ \A i \in Mark + 1 .. k - 1 : tokens[i] = "nl"
        BY <1>1, <1>18, <2>2 DEF Blanks
    <2>7. Mark \in Nat
        BY DEF Mark, Shapes, Last
    <2>8. \A i \in Mark + 1 .. k : i = k \/ i \in Mark + 1 .. k - 1
        BY <2>7
    <2>9. QED
        BY <2>5, <2>6, <2>8
<1>28. Documents'
    <2>1. Unended' = Unended
        BY <1>9 DEF Unended
    <2>2. QED
        BY <1>1, <1>4, <1>9, <1>10, <1>17, <2>1 DEF Documents
<1>29. QED
    BY <1>20, <1>21, <1>22, <1>23, <1>24, <1>25, <1>26, <1>27, <1>28

-------------------------------------------------------------------------------
(* Reductions                                                                 *)

\* A sequence that is cut after its first m elements.
LEMMA Cut ==
    ASSUME NEW X, NEW s \in Seq(X), NEW m \in 0 .. Len(s)
    PROVE  /\ SubSeq(s, 1, m) \in Seq(X) /\ Len(SubSeq(s, 1, m)) = m
           /\ \A i \in 1 .. m : SubSeq(s, 1, m)[i] = s[i]
           /\ SubSeq(s, m + 1, Len(s)) \in Seq(X)
           /\ Len(SubSeq(s, m + 1, Len(s))) = Len(s) - m
           /\ \A k \in 1 .. Len(s) - m : SubSeq(s, m + 1, Len(s))[k] = s[m + k]
<1>1. PICK L \in Nat : L = Len(s)
    OBVIOUS
<1>2. PICK a, b : a = SubSeq(s, 1, m) /\ b = SubSeq(s, m + 1, L)
    OBVIOUS
<1>3. a \in Seq(X) /\ Len(a) = m /\ \A i \in 1 .. m : a[i] = s[i]
    BY <1>1, <1>2
<1>4. b \in Seq(X) /\ Len(b) = L - m
    BY <1>1, <1>2
<1>5. ASSUME NEW k \in 1 .. L - m PROVE b[k] = s[m + k]
    BY <1>1, <1>2
<1>6. QED
    BY <1>1, <1>2, <1>3, <1>4, <1>5

\* A reduction by rule r pops all above the first m symbols: its right-hand side.
Reducing(r, m, rhs, e, res) ==
    /\ r = YyDefAct[parse.state] /\ r \in 2 .. 45 /\ RuleKnown(r)
    /\ m \in Nat /\ m <= Len(stack) /\ Len(stack) = m + Len(Rhs[r])
    /\ Borne(nodes, Len(tokens), rhs, Rhs[r])
    /\ \A k \in 1 .. Len(Rhs[r]) : rhs[k] = stack[m + k]
    /\ Len(Rhs[r]) > 0 => rhs[Len(Rhs[r])] = Top
    /\ res = Reduce(nodes, Rules[r], rhs)
    /\ e = [type |-> Rules[r].lhs, node |-> res.node,
            state |-> Goto(Under(stack, m), Rules[r].lhs),
            token |-> IF Len(Rhs[r]) = 0 THEN parse.tok ELSE Top.token]
    /\ Lands(Under(stack, m), Rules[r].lhs)

\* What it leaves.
Reduced(r, m, rhs, e, res) ==
    /\ nodes' = res.nodes
    /\ stack' = Append(SubSeq(stack, 1, m), e)
    /\ parse'.state = e.state /\ parse'.tok = parse.tok /\ parse'.look = parse.look
    /\ parse'.flags = IF r = 40 THEN parse.flags \cup {"SAVE_TOKENS"} ELSE parse.flags
    /\ parse'.root = IF Rules[r].lhs = "complete_commands" THEN Top.node ELSE 0

\* Every reduction is one over the right-hand side of its rule.
LEMMA ReductionIs ==
    ASSUME Inv, ReduceStep
    PROVE  \E r, m, rhs, e, res : Reducing(r, m, rhs, e, res) /\ Reduced(r, m, rhs, e, res)
<1> USE DEF Inv
<1>0. Deciding /\ Decision < 0
    BY DEF ReduceStep
<1>1. /\ parse.root = 0 /\ phase # "over" /\ parse.state = Under(stack, Len(stack))
      /\ parse.state \in States \ {5}
    BY <1>0, DecidingIs
<1>2. PICK r : r = -Decision
    OBVIOUS
<1>3. r = YyDefAct[parse.state] /\ r # 0
    BY <1>0, <1>2, DecidingIs
<1>4. StackPath(stack) /\ stack \in Seq(Symbol)
    BY DEF Path, StackPath
<1>5. PICK L \in Nat : L = Len(stack)
    BY <1>4
<1>6. PICK n : n = Len(Rhs[r])
    OBVIOUS
<1>7. r = YyDefAct[Under(stack, Len(stack))]
    BY <1>1, <1>3
<1>8. /\ r \in 2 .. 45 /\ n <= L
      /\ \A k \in 1 .. n : stack[L - n + k].type = Rhs[r][k]
      /\ Lands(Under(stack, L - n), Rules[r].lhs)
    <2>1. r \in 2 .. 45 /\ OnTop(stack, Rhs[r])
        BY <1>3, <1>4, <1>7, PathDown
    <2>2. Lands(Under(stack, Len(stack) - Len(Rhs[r])), Rules[r].lhs)
        BY <1>3, <1>4, <1>7, PathDown
    <2>3. QED
        BY <1>5, <1>6, <2>1, <2>2 DEF OnTop
<1>9. RuleKnown(r)
    BY <1>8, RulesKnown
<1>10. n \in 0 .. 4 /\ Rules[r].len = n
    BY <1>6, <1>9 DEF RuleKnown
<1>11. PICK m \in Nat : m = L - n /\ m \in 0 .. Len(stack) /\ Len(stack) = m + n
    BY <1>5, <1>8, <1>10
<1>12. PICK rhs, rest : rhs = SubSeq(stack, m + 1, Len(stack)) /\ rest = SubSeq(stack, 1, m)
    OBVIOUS
<1>13. /\ rhs \in Seq(Symbol) /\ Len(rhs) = n /\ \A k \in 1 .. n : rhs[k] = stack[m + k]
       /\ rest \in Seq(Symbol) /\ Len(rest) = m /\ \A i \in 1 .. m : rest[i] = stack[i]
    <2>1. /\ rhs \in Seq(Symbol) /\ Len(rhs) = Len(stack) - m
          /\ \A k \in 1 .. Len(stack) - m : rhs[k] = stack[m + k]
        BY <1>4, <1>11, <1>12, Cut
    <2>2. rest \in Seq(Symbol) /\ Len(rest) = m /\ \A i \in 1 .. m : rest[i] = stack[i]
        BY <1>4, <1>11, <1>12, Cut
    <2>3. Len(stack) - m = n
        BY <1>5, <1>10, <1>11
    <2>4. QED
        BY <2>1, <2>2, <2>3
<1>14. Uncovered(rest) = Under(stack, m)
    <2>1. CASE m = 0
        BY <1>13, <2>1 DEF Uncovered, Under
    <2>2. CASE m > 0
        <3>1. rest # << >> /\ rest[m] = stack[m]
            BY <1>11, <1>13, <2>2
        <3>2. QED
            BY <1>13, <2>2, <3>1 DEF Uncovered, Under, Last
    <2>3. QED
        BY <1>11, <2>1, <2>2
<1>15. ASSUME n > 0 PROVE Last(rhs) = Top /\ rhs[n] = Top /\ rhs # << >>
    <2>1. n \in 1 .. n
        BY <1>10, <1>15
    <2>2. rhs[n] = stack[m + n] /\ m + n = Len(stack)
        BY <1>11, <1>13, <2>1
    <2>3. rhs # << >>
        BY <1>13, <1>15
    <2>4. QED
        BY <1>13, <2>2, <2>3 DEF Last, Top
<1>16. n = 0 => rhs = << >>
    BY <1>13
<1>17. Borne(nodes, Len(tokens), rhs, Rhs[r])
    <2>1. ASSUME NEW k \in 1 .. n
          PROVE  /\ rhs[k].type = Rhs[r][k] /\ Carries(nodes, rhs[k].type, rhs[k].node)
                 /\ rhs[k].token \in 0 .. Len(tokens)
        <3>1. m + k \in 1 .. Len(stack) /\ L - n + k = m + k /\ rhs[k] = stack[m + k]
            BY <1>10, <1>11, <1>13, <2>1
        <3>2. rhs[k].type = Rhs[r][k]
            BY <1>8, <2>1, <3>1
        <3>3. stack[m + k].token <= Len(tokens) /\ Carries(nodes, stack[m + k].type, stack[m + k].node)
            BY <1>1, <3>1 DEF Bear, Held
        <3>4. stack[m + k].token \in Nat
            BY <1>4, <3>1, SymbolIs
        <3>5. Len(tokens) \in Nat
            BY DEF Shapes
        <3>6. QED
            BY <3>1, <3>2, <3>3, <3>4, <3>5
    <2>2. QED
        BY <1>6, <1>13, <2>1 DEF Borne
<1>18. PICK res, e :
        /\ res = Reduce(nodes, Rules[r], rhs)
        /\ e = [type |-> Rules[r].lhs, node |-> res.node,
                state |-> Goto(Under(stack, m), Rules[r].lhs),
                token |-> IF n = 0 THEN parse.tok ELSE Top.token]
    OBVIOUS
<1>19. (IF rhs = << >> THEN parse.tok ELSE Last(rhs).token)
        = (IF n = 0 THEN parse.tok ELSE Top.token)
    BY <1>10, <1>15, <1>16
<1>20. Len(stack) - Rules[-Decision].len = m
    BY <1>2, <1>5, <1>10, <1>11
<1>21. Reducing(r, m, rhs, e, res)
    <2>1. /\ r = YyDefAct[parse.state] /\ r \in 2 .. 45 /\ RuleKnown(r)
          /\ m \in Nat /\ m <= Len(stack) /\ Len(stack) = m + Len(Rhs[r])
        BY <1>3, <1>6, <1>8, <1>9, <1>11
    <2>2. /\ \A k \in 1 .. Len(Rhs[r]) : rhs[k] = stack[m + k]
          /\ Len(Rhs[r]) > 0 => rhs[Len(Rhs[r])] = Top
        BY <1>6, <1>13, <1>15
    <2>3. Lands(Under(stack, m), Rules[r].lhs)
        BY <1>8, <1>11
    <2>4. e = [type |-> Rules[r].lhs, node |-> res.node,
               state |-> Goto(Under(stack, m), Rules[r].lhs),
               token |-> IF Len(Rhs[r]) = 0 THEN parse.tok ELSE Top.token]
        BY <1>6, <1>18
    <2>5. QED
        BY <1>17, <1>18, <2>1, <2>2, <2>3, <2>4 DEF Reducing
<1>22. Reduced(r, m, rhs, e, res)
    <2>1. ReduceBy(Rules[r])
        BY <1>2 DEF ReduceStep
    <2>2. Len(stack) - Rules[r].len = m
        BY <1>2, <1>20
    <2>3. nodes' = res.nodes
        BY <1>12, <1>18, <2>1, <2>2 DEF ReduceBy
    <2>4. stack' = Append(rest, e)
        <3>1. stack' = Append(rest, [type |-> Rules[r].lhs, node |-> res.node,
                                     state |-> Goto(Uncovered(rest), Rules[r].lhs),
                                     token |-> IF rhs = << >> THEN parse.tok ELSE Last(rhs).token])
            BY <1>12, <1>18, <2>1, <2>2 DEF ReduceBy
        <3>2. QED
            BY <1>14, <1>18, <1>19, <3>1
    <2>5. PICK F, x :
            /\ F = (IF Rules[r].handler = "io_here" THEN parse.flags \cup {"SAVE_TOKENS"}
                    ELSE parse.flags)
            /\ x = ExecRoot(Rules[r], rhs)
        OBVIOUS
    <2>6. parse' = [parse EXCEPT !.state = e.state, !.flags = F, !.root = x]
        <3>1. parse' = [parse EXCEPT !.state = Goto(Uncovered(rest), Rules[r].lhs), !.flags = F,
                                     !.root = x]
            BY <1>12, <2>1, <2>2, <2>5 DEF ReduceBy
        <3>2. e.state = Goto(Uncovered(rest), Rules[r].lhs)
            BY <1>14, <1>18
        <3>3. QED
            BY <3>1, <3>2
    <2>7. /\ parse'.state = e.state /\ parse'.tok = parse.tok /\ parse'.look = parse.look
          /\ parse'.flags = F /\ parse'.root = x
        BY <2>6 DEF Shapes
    <2>8. F = IF r = 40 THEN parse.flags \cup {"SAVE_TOKENS"} ELSE parse.flags
        BY <1>9, <2>5 DEF RuleKnown
    <2>9. x = IF Rules[r].lhs = "complete_commands" THEN Top.node ELSE 0
        <3>1. Rules[r].lhs = "complete_commands" => n > 0
            BY <1>6, <1>9 DEF RuleKnown
        <3>2. QED
            BY <1>15, <2>5, <3>1 DEF ExecRoot
    <2>10. QED
        BY <1>12, <2>3, <2>4, <2>7, <2>8, <2>9 DEF Reduced
<1>23. QED
    BY <1>21, <1>22

\* The stack that a reduction leaves.
LEMMA ReducedStack ==
    ASSUME Inv, ReduceStep, NEW r, NEW m, NEW rhs, NEW e, NEW res,
           Reducing(r, m, rhs, e, res), Reduced(r, m, rhs, e, res), res.node \in Nat
    PROVE  /\ e \in Symbol /\ e.type = Rules[r].lhs /\ e.node = res.node
           /\ e.token = (IF Len(Rhs[r]) = 0 THEN parse.tok ELSE Top.token)
           /\ Leads(Under(stack, m), e.state, e.type)
           /\ Pushed(stack, m, e, stack') /\ StackPath(stack')
           /\ Under(stack', Len(stack')) = e.state /\ stack' # << >> /\ Top' = e
           /\ e.state \in States
           /\ e.token \in 0 .. Len(tokens)
<1> USE DEF Inv
<1>1. /\ r \in 2 .. 45 /\ RuleKnown(r) /\ m \in Nat /\ Len(stack) = m + Len(Rhs[r])
      /\ m <= Len(stack)
      /\ Len(Rhs[r]) > 0 => rhs[Len(Rhs[r])] = Top
      /\ Borne(nodes, Len(tokens), rhs, Rhs[r])
    BY DEF Reducing
<1>2. PICK tok, s, x : /\ tok = (IF Len(Rhs[r]) = 0 THEN parse.tok ELSE Top.token)
                       /\ s = Goto(Under(stack, m), Rules[r].lhs) /\ x = Rules[r].lhs
    OBVIOUS
<1>3. Leads(Under(stack, m), s, x)
    BY <1>2 DEF Reducing, Lands
<1>4. s \in States
    BY <1>3, Landmarks
<1>5. x \in Symbols \ Terminals
    BY <1>1, <1>2 DEF RuleKnown
<1>6. x # "EOF"
    <2>1. "EOF" \in Terminals
        BY DEF Terminals, Symbols, SymbolType
    <2>2. QED
        BY <1>5, <2>1
<1>7. tok \in 0 .. Len(tokens)
    <2>1. parse.tok \in 0 .. Len(tokens)
        BY DEF Shapes, Flow
    <2>2. ASSUME Len(Rhs[r]) # 0 PROVE Top.token \in 0 .. Len(tokens)
        <3>1. Len(Rhs[r]) \in 0 .. 4
            BY <1>1 DEF RuleKnown
        <3>2. Len(Rhs[r]) \in 1 .. Len(Rhs[r])
            BY <2>2, <3>1
        <3>3. QED
            BY <1>1, <3>2 DEF Borne
    <2>3. QED
        BY <1>2, <2>1, <2>2
<1>8. e = [type |-> x, node |-> res.node, state |-> s, token |-> tok]
    BY <1>2 DEF Reducing
<1>9. e \in Symbol /\ e.type = x /\ e.node = res.node /\ e.state = s /\ e.token = tok
    <2>1. s \in DOMAIN YyPact
        BY <1>4 DEF States, YyPact, Table
    <2>2. tok \in Nat
        <3>1. Len(tokens) \in Nat
            BY DEF Shapes
        <3>2. QED
            BY <1>7, <3>1
    <2>3. QED
        BY <1>5, <1>8, <2>1, <2>2 DEF Symbol
<1>10. StackPath(stack) /\ stack \in Seq(Symbol) /\ m \in 0 .. Len(stack)
    BY <1>1 DEF Path, StackPath
<1>11. PICK rest, new : rest = SubSeq(stack, 1, m) /\ new = stack'
    OBVIOUS
<1>12. rest \in Seq(Symbol) /\ Len(rest) = m /\ \A i \in 1 .. m : rest[i] = stack[i]
    BY <1>10, <1>11, Cut
<1>13. new = Append(rest, e)
    BY <1>11 DEF Reduced
<1>14. /\ new \in Seq(Symbol) /\ Len(new) = m + 1 /\ new[m + 1] = e
       /\ \A i \in 1 .. m : new[i] = rest[i]
    BY <1>9, <1>12, <1>13, Longer
<1>15. Pushed(stack, m, e, new)
    BY <1>12, <1>14 DEF Pushed
<1>16. StackPath(new) /\ Under(new, Len(new)) = e.state /\ new # << >>
    BY <1>3, <1>6, <1>9, <1>10, <1>15, PathOn
<1>17. Top' = e
    BY <1>11, <1>14 DEF Top
<1>18. QED
    BY <1>2, <1>3, <1>4, <1>7, <1>9, <1>11, <1>15, <1>16, <1>17

\* A symbol of the stack that stays keeps what it had.
LEMMA ReducedHeld ==
    ASSUME NEW ns, NEW ms, NEW t \in Nat, NEW st, Held(ns, st, 0, t),
           \A x, n : Carries(ns, x, n) => Carries(ms, x, n),
           NEW m \in Nat, m <= Len(st), Len(st) \in Nat, NEW e, NEW new, Pushed(st, m, e, new),
           e.token <= t, NEW root,
           IF root # 0 THEN e.node <= Len(ms) ELSE Carries(ms, e.type, e.node)
    PROVE  Held(ms, new, root, t)
<1>1. Len(new) = m + 1 /\ new[m + 1] = e
    BY DEF Pushed
<1>2. ASSUME NEW i \in 1 .. m
      PROVE  new[i].token <= t /\ Carries(ms, new[i].type, new[i].node) /\ i # Len(new)
    <2>1. new[i] = st[i] /\ i \in 1 .. Len(st)
        BY DEF Pushed
    <2>2. st[i].token <= t /\ Carries(ns, st[i].type, st[i].node)
        BY <2>1 DEF Held
    <2>3. i # m + 1
        BY <1>2
    <2>4. QED
        BY <1>1, <2>1, <2>2, <2>3
<1>3. \A i \in 1 .. Len(new) : i \in 1 .. m \/ i = m + 1
    BY <1>1
<1>4. QED
    BY <1>1, <1>2, <1>3 DEF Held

\* Nodes that are kept are the same here-documents, with the same descriptors.
LEMMA SameDocuments ==
    ASSUME NEW ns, NEW ms, NEW t \in Nat, NEW d \in Nat, Arena(ns, t, d), Turned(ns, ms, t, d)
    PROVE  /\ HereNodes(ms) = HereNodes(ns) /\ HereFds(ms) = HereFds(ns)
           /\ \A i \in HereNodes(ns) : ms[i].fd = ns[i].fd
           /\ \A x, n : Carries(ns, x, n) => Carries(ms, x, n)
           /\ Len(ns) \in Nat /\ Len(ms) \in Nat /\ Len(ns) <= Len(ms)
<1>1. PICK L \in Nat : L = Len(ns)
    BY DEF Arena
<1>2. PICK M \in Nat : M = Len(ms)
    BY DEF Turned, Arena
<1>3. DOMAIN ns = 1 .. L /\ DOMAIN ms = 1 .. M
    BY <1>1, <1>2 DEF Turned, Arena
<1>4. /\ L <= M
      /\ \A i \in 1 .. L : /\ ms[i].type = ns[i].type /\ ms[i].fd = ns[i].fd
                           /\ (ms[i].flag = "DLESS") <=> (ns[i].flag = "DLESS")
      /\ \A i \in (L + 1) .. M : ms[i].flag # "DLESS"
    BY <1>1, <1>2 DEF Turned, Grows
<1>5. \A i \in 1 .. M : i \in 1 .. L \/ i \in (L + 1) .. M
    OBVIOUS
<1>6. HereNodes(ms) = HereNodes(ns) /\ HereNodes(ns) \subseteq 1 .. L
    BY <1>3, <1>4, <1>5 DEF HereNodes
<1>7. \A i \in HereNodes(ns) : ms[i].fd = ns[i].fd
    BY <1>4, <1>6
<1>8. HereFds(ms) = HereFds(ns)
    BY <1>6, <1>7 DEF HereFds
<1>9. ASSUME NEW x, NEW n, Carries(ns, x, n) PROVE Carries(ms, x, n)
    BY <1>9, CarriesOn
<1>10. QED
    BY <1>1, <1>2, <1>4, <1>6, <1>7, <1>8, <1>9

\* The parser after a reduction.
LEMMA ReducedParse ==
    ASSUME Inv, ReduceStep, NEW r, NEW m, NEW rhs, NEW e, NEW res,
           Reducing(r, m, rhs, e, res), Reduced(r, m, rhs, e, res),
           e.state \in States, Rules[r].lhs = "complete_commands" => Top.node \in Nat
    PROVE  /\ parse' \in [flags : SUBSET Flags, tok : Nat, look : Terminals, state : States,
                          root : Nat]
           /\ parse'.state = e.state /\ parse'.tok = parse.tok /\ parse'.look = parse.look
           /\ parse'.flags = (IF r = 40 THEN parse.flags \cup {"SAVE_TOKENS"} ELSE parse.flags)
           /\ parse'.root = (IF Rules[r].lhs = "complete_commands" THEN Top.node ELSE 0)
           /\ mode' = mode /\ line' = line /\ tokens' = tokens /\ body' = body /\ docs' = docs
           /\ open' = open /\ ran' = ran /\ phase' = phase /\ fault' = fault
<1>1. /\ parse'.state = e.state /\ parse'.tok = parse.tok /\ parse'.look = parse.look
      /\ parse'.flags = (IF r = 40 THEN parse.flags \cup {"SAVE_TOKENS"} ELSE parse.flags)
      /\ parse'.root = (IF Rules[r].lhs = "complete_commands" THEN Top.node ELSE 0)
    BY DEF Reduced
<1>2. parse' \in [flags : SUBSET Flags, tok : Nat, look : Terminals, state : States, root : Nat]
    <2>1. PICK p, q : p = parse /\ q = parse'
        OBVIOUS
    <2>2. p \in [flags : SUBSET Flags, tok : Nat, look : Terminals, state : States, root : Nat]
        BY <2>1 DEF Inv, Shapes
    <2>3. \E s, F, x : q = [p EXCEPT !.state = s, !.flags = F, !.root = x]
        BY <2>1 DEF ReduceStep, ReduceBy
    <2>4. PICK s, F, x : q = [p EXCEPT !.state = s, !.flags = F, !.root = x]
        BY <2>3
    <2>5. q.state = s /\ q.flags = F /\ q.root = x
        BY <2>2, <2>4
    <2>6. s \in States
        BY <1>1, <2>1, <2>5
    <2>7. F \in SUBSET Flags
        BY <1>1, <2>1, <2>2, <2>5 DEF Flags
    <2>8. x \in Nat
        BY <1>1, <2>1, <2>5
    <2>9. q \in [flags : SUBSET Flags, tok : Nat, look : Terminals, state : States, root : Nat]
        BY <2>2, <2>4, <2>6, <2>7, <2>8
    <2>10. QED
        BY <2>1, <2>9
<1>3. /\ mode' = mode /\ line' = line /\ tokens' = tokens /\ body' = body /\ docs' = docs
      /\ open' = open /\ ran' = ran /\ phase' = phase /\ fault' = fault
    BY DEF ReduceStep, reader, heredoc
<1>4. QED
    BY <1>1, <1>2, <1>3

\* All on top of a blank right-hand side is blank.
LEMMA BlankBelow ==
    ASSUME NEW st, NEW m \in Nat, NEW w, Len(st) = m + Len(w), Len(w) \in 0 .. 4, NEW e, NEW new,
           Pushed(st, m, e, new), AllBlank(new), \A k \in 1 .. Len(w) : w[k] \in Blank,
           NEW rhs, \A k \in 1 .. Len(w) : rhs[k] = st[m + k] /\ rhs[k].type = w[k]
    PROVE  AllBlank(st)
<1>1. ASSUME NEW i \in 1 .. m PROVE st[i].type \in Blank
    <2>1. i \in 1 .. Len(new) /\ new[i] = st[i]
        BY DEF Pushed
    <2>2. QED
        BY <2>1 DEF AllBlank
<1>2. ASSUME NEW i \in 1 .. Len(st), i > m PROVE st[i].type \in Blank
    <2>1. PICK n \in 0 .. 4 : n = Len(w)
        OBVIOUS
    <2>2. PICK k : k = i - m
        OBVIOUS
    <2>3. k \in 1 .. n /\ m + k = i
        BY <1>2, <2>1, <2>2
    <2>4. QED
        BY <2>1, <2>3
<1>3. \A i \in 1 .. Len(st) : i \in 1 .. m \/ i > m
    OBVIOUS
<1>4. QED
    BY <1>1, <1>2, <1>3 DEF AllBlank

\* A reduction that makes no node of a here-document.
LEMMA OtherReductionKeeps ==
    ASSUME Inv, ReduceStep, NEW r, NEW m, NEW rhs, NEW e, NEW res,
           Reducing(r, m, rhs, e, res), Reduced(r, m, rhs, e, res), r # 40
    PROVE  Inv'
<1> USE DEF Inv
<1>0. Deciding
    BY DEF ReduceStep
<1>1. /\ fault = "none" /\ parse.root = 0 /\ ~PutAside /\ phase # "over"
      /\ "HERE_BODY" \notin parse.flags /\ body.on = FALSE /\ "DONE" \notin parse.flags
      /\ parse.state = Under(stack, Len(stack)) /\ parse.state \in States \ {5}
      /\ phase = "parse" => "HAS_LOOKAHEAD" \in parse.flags /\ "SAVE_TOKENS" \notin parse.flags
    BY <1>0, DecidingIs
<1>2. /\ r = YyDefAct[parse.state] /\ r \in 2 .. 45 /\ RuleKnown(r)
      /\ m \in Nat /\ m <= Len(stack) /\ Len(stack) = m + Len(Rhs[r])
      /\ Borne(nodes, Len(tokens), rhs, Rhs[r])
      /\ \A k \in 1 .. Len(Rhs[r]) : rhs[k] = stack[m + k]
      /\ Len(Rhs[r]) > 0 => rhs[Len(Rhs[r])] = Top
      /\ res = Reduce(nodes, Rules[r], rhs)
    BY DEF Reducing
<1>3. PICK t \in Nat, d \in Nat : t = Len(tokens) /\ d = Len(docs)
    BY DEF Shapes
<1>4. PICK x, w, n : x = Rules[r].lhs /\ w = Rhs[r] /\ n = Len(Rhs[r])
    OBVIOUS
<1>5. /\ n \in 0 .. 4 /\ x \in Symbols \ Terminals
      /\ x # "io_here" /\ ((x = "here_end") <=> (r = 41))
      /\ x = "here_end" => n = 1 /\ w[1] = "WORD"
      /\ x = "complete_commands" => n > 0 /\ w[n] = "and_or"
      /\ x \notin {"linebreak", "program"} => n > 0 /\ w[n] \notin {"linebreak", "program"}
      /\ x \in Blank /\ x # "complete_commands" =>
            /\ Rules[r].handler \in {"none", "program"}
            /\ \A k \in 1 .. n : w[k] \in Blank
    BY <1>2, <1>4 DEF RuleKnown
<1>6. ASSUME n > 0
      PROVE  /\ Top.type = w[n] /\ Top.token \in 0 .. t /\ Carries(nodes, w[n], Top.node)
             /\ n \in 1 .. n /\ stack # << >>
    <2>1. n \in 1 .. n
        BY <1>5, <1>6
    <2>2. rhs[n] = Top
        BY <1>2, <1>4, <1>6
    <2>3. stack # << >>
        <3>1. Len(stack) > 0
            BY <1>2, <1>4, <1>5, <1>6
        <3>2. QED
            BY <3>1
    <2>4. QED
        BY <1>2, <1>3, <1>4, <2>1, <2>2, <2>3 DEF Borne
<1>7. Arena(nodes, t, d)
    BY <1>3 DEF Bear
<1>8. Kept(nodes, t, d, res, x)
    BY <1>2, <1>3, <1>4, <1>7, RuleKept
<1>9. Turned(nodes, res.nodes, t, d)
    BY <1>8 DEF Kept
<1>10. PICK ms : ms = res.nodes /\ ms = nodes'
    BY DEF Reduced
<1>11. /\ HereNodes(ms) = HereNodes(nodes) /\ HereFds(ms) = HereFds(nodes)
       /\ \A i \in HereNodes(nodes) : ms[i].fd = nodes[i].fd
       /\ \A y, k : Carries(nodes, y, k) => Carries(ms, y, k)
       /\ Len(nodes) \in Nat /\ Len(ms) \in Nat /\ Len(nodes) <= Len(ms)
       /\ Arena(ms, t, d)
    <2>1. Turned(nodes, ms, t, d)
        BY <1>9, <1>10
    <2>2. Arena(ms, t, d)
        BY <2>1 DEF Turned
    <2>3. /\ HereNodes(ms) = HereNodes(nodes) /\ HereFds(ms) = HereFds(nodes)
          /\ \A i \in HereNodes(nodes) : ms[i].fd = nodes[i].fd
          /\ Len(nodes) \in Nat /\ Len(ms) \in Nat /\ Len(nodes) <= Len(ms)
        BY <1>7, <2>1, SameDocuments
    <2>4. \A y, k : Carries(nodes, y, k) => Carries(ms, y, k)
        BY <1>7, <2>1, SameDocuments
    <2>5. QED
        BY <2>2, <2>3, <2>4
<1>12. IF x = "complete_commands" THEN res.node \in 1 .. Len(ms) ELSE Carries(ms, x, res.node)
    BY <1>8, <1>10 DEF Kept
<1>13. res.node \in Nat
    BY <1>11, <1>12 DEF Carries
<1>14. ASSUME x = "complete_commands" PROVE Top.node \in 1 .. Len(nodes)
    <2>1. Carries(nodes, "and_or", Top.node)
        BY <1>5, <1>6, <1>14
    <2>2. QED
        BY <2>1 DEF Carries, Bearing, Pipelines
<1>15. /\ e \in Symbol /\ e.type = x /\ e.node = res.node
       /\ e.token = (IF n = 0 THEN parse.tok ELSE Top.token)
       /\ Leads(Under(stack, m), e.state, e.type)
       /\ Pushed(stack, m, e, stack') /\ StackPath(stack')
       /\ Under(stack', Len(stack')) = e.state /\ stack' # << >> /\ Top' = e
       /\ e.state \in States /\ e.token \in 0 .. t
    BY <1>3, <1>4, <1>13, ReducedStack
<1>16. /\ parse' \in [flags : SUBSET Flags, tok : Nat, look : Terminals, state : States, root : Nat]
       /\ parse'.state = e.state /\ parse'.tok = parse.tok /\ parse'.look = parse.look
       /\ parse'.flags = parse.flags
       /\ parse'.root = (IF x = "complete_commands" THEN Top.node ELSE 0)
       /\ mode' = mode /\ line' = line /\ tokens' = tokens /\ body' = body /\ docs' = docs
       /\ open' = open /\ ran' = ran /\ phase' = phase /\ fault' = fault
    <2>1. Rules[r].lhs = "complete_commands" => Top.node \in Nat
        BY <1>4, <1>11, <1>14
    <2>2. QED
        BY <1>4, <1>15, <2>1, ReducedParse
<1>17. parse'.root \in 0 .. Len(nodes) /\ ((parse'.root # 0) <=> (x = "complete_commands"))
    BY <1>11, <1>14, <1>16
<1>18. ~PutAside'
    BY <1>1, <1>16 DEF PutAside
<1>19. Consumed' = Consumed
    BY <1>1, <1>16, <1>18 DEF Consumed
<1>20. Shapes'
    BY <1>16 DEF Shapes
<1>21. Path'
    BY <1>1, <1>15, <1>16 DEF Path
<1>22. Bear'
    <2>1. Held(nodes, stack, 0, t)
        BY <1>1, <1>3 DEF Bear
    <2>2. IF parse'.root # 0 THEN e.node <= Len(ms) ELSE Carries(ms, e.type, e.node)
        <3>1. CASE x = "complete_commands"
            <4>1. res.node \in 1 .. Len(ms)
                BY <1>12, <3>1
            <4>2. res.node <= Len(ms)
                BY <1>11, <4>1
            <4>3. QED
                BY <1>15, <1>17, <3>1, <4>2
        <3>2. CASE x # "complete_commands"
            BY <1>12, <1>15, <1>17, <3>2
        <3>3. QED
            BY <3>1, <3>2
    <2>3. PICK root, new : root = parse'.root /\ new = stack'
        OBVIOUS
    <2>4. Held(ms, new, root, t)
        <3>1. e.token <= t /\ Len(stack) \in Nat
            BY <1>15, OnPath DEF Path
        <3>2. Pushed(stack, m, e, new) /\ m \in Nat /\ m <= Len(stack)
            BY <1>2, <1>15, <2>3
        <3>3. IF root # 0 THEN e.node <= Len(ms) ELSE Carries(ms, e.type, e.node)
            BY <2>2, <2>3
        <3>4. \A y, k : Carries(nodes, y, k) => Carries(ms, y, k)
            BY <1>11
        <3>5. QED
            BY <2>1, <3>1, <3>2, <3>3, <3>4, ReducedHeld
    <2>5. parse'.root \in 0 .. Len(ms)
        <3>1. PICK a \in Nat, b \in Nat : a = Len(nodes) /\ b = Len(ms) /\ a <= b
            BY <1>11
        <3>2. QED
            BY <1>17, <3>1
    <2>6. parse'.root # 0 => phase' # "over" /\ stack' # << >> /\ Top'.type = "complete_commands"
        BY <1>1, <1>15, <1>16, <1>17
    <2>7. QED
        BY <1>3, <1>10, <1>11, <1>16, <2>3, <2>4, <2>5, <2>6 DEF Bear
<1>23. Flow'
    BY <1>1, <1>16 DEF Flow, OneLine
<1>24. Saved'
    BY <1>18 DEF Saved
<1>25. Lines'
    BY <1>16 DEF Lines
<1>26. Ends'
    <2>1. ASSUME x \notin {"linebreak", "program"} PROVE e.token = Consumed
        <3>1. n > 0 /\ w[n] \notin {"linebreak", "program"}
            BY <1>5, <2>1
        <3>2. Top.token = Consumed
            BY <1>1, <1>6, <3>1 DEF Ends
        <3>3. QED
            BY <1>15, <3>1, <3>2
    <2>2. ASSUME x = "here_end" PROVE e.token >= 1
        <3>1. n > 0 /\ w[n] = "WORD"
            BY <1>5, <2>2
        <3>2. "WORD" \in Terminals
            BY DEF Terminals, Symbols, SymbolType
        <3>3. Top.token >= 1
            BY <1>1, <1>6, <3>1, <3>2 DEF Ends
        <3>4. QED
            BY <1>15, <3>1, <3>3
    <2>3. x \notin Terminals
        BY <1>5
    <2>4. QED
        BY <1>1, <1>15, <1>16, <1>19, <2>1, <2>2, <2>3 DEF Ends
<1>27. Blanks'
    <2>1. SUFFICES ASSUME parse'.root = 0, AllBlank(stack')
                   PROVE  ms = << >> /\ \A k \in Mark + 1 .. Consumed : tokens[k] = "nl"
        <3>1. Mark' = Mark
            BY <1>16 DEF Mark
        <3>2. QED
            BY <1>10, <1>16, <1>19, <3>1 DEF Blanks
    <2>2. x \in Blank /\ x # "complete_commands"
        <3>1. m + 1 \in 1 .. Len(stack') /\ stack'[m + 1] = e
            BY <1>2, <1>15 DEF Pushed
        <3>2. QED
            BY <1>15, <1>17, <2>1, <3>1 DEF AllBlank
    <2>3. ms = nodes
        <3>1. Rules[r].handler = "none" \/ Rules[r].handler = "program"
            BY <1>5, <2>2
        <3>2. \E k : res = Result(nodes, k)
            BY <1>2, <3>1, Handlers
        <3>3. QED
            <4>1. PICK k : res = Result(nodes, k)
                BY <3>2
            <4>2. res.nodes = nodes
                BY <4>1 DEF Result
            <4>3. QED
                BY <1>10, <4>2
    <2>4. AllBlank(stack)
        <3>1. \A k \in 1 .. Len(w) : w[k] \in Blank
            BY <1>4, <1>5, <2>2
        <3>2. PICK new : new = stack'
            OBVIOUS
        <3>3. Len(stack) = m + Len(w) /\ Len(w) \in 0 .. 4
            BY <1>2, <1>4, <1>5
        <3>4. \A k \in 1 .. Len(w) : rhs[k] = stack[m + k] /\ rhs[k].type = w[k]
            BY <1>2, <1>4 DEF Borne
        <3>5. Pushed(stack, m, e, new) /\ AllBlank(new)
            BY <1>15, <2>1, <3>2
        <3>6. QED
            <4>1. m \in Nat
                BY <1>2
            <4>2. QED
                BY ONLY <3>1, <3>3, <3>4, <3>5, <4>1, BlankBelow
    <2>5. QED
        BY <1>1, <2>3, <2>4 DEF Blanks
<1>28. Documents'
    <2>1. Unended' = Unended
        BY <1>16 DEF Unended
    <2>2. InUse' = InUse
        BY <1>10, <1>11, <1>16 DEF InUse
    <2>3. ASSUME phase = "final", ~Unended PROVE e.state \notin {27, 28}
        <3>1. parse.state \notin {27, 28}
            BY <2>3 DEF Documents
        <3>2. e.state # 27
            <4>1. "WORD" \in Terminals
                BY DEF Terminals, Symbols, SymbolType
            <4>2. x # "WORD"
                BY <1>5, <4>1
            <4>3. QED
                BY <1>15, <4>2, Landmarks
        <3>3. ASSUME e.state = 28 PROVE FALSE
            <4>1. x = "here_end"
                BY <1>15, <3>3, Landmarks
            <4>2. YyDefAct[parse.state] = 41 /\ YyDefAct[parse.state] # 0
                BY <1>2, <1>5, <4>1
            <4>3. parse.state \in States \ {YyFinal}
                BY <1>1 DEF YyFinal
            <4>4. parse.state = 27
                BY <4>2, <4>3, RuleOf
            <4>5. QED
                BY <3>1, <4>4
        <3>4. QED
            BY <3>2, <3>3
    <2>4. \A i \in HereNodes(ms) : ~Unended => ms[i].fd # 0
        BY <1>1, <1>11 DEF Documents
    <2>5. QED
        BY <1>1, <1>10, <1>16, <1>18, <2>1, <2>2, <2>3, <2>4 DEF Documents
<1>29. QED
    BY <1>20, <1>21, <1>22, <1>23, <1>24, <1>25, <1>26, <1>27, <1>28

\* reduce_io_here makes a node whose body is to be read.
LEMMA HereReductionKeeps ==
    ASSUME Inv, ReduceStep, NEW m, NEW rhs, NEW e, NEW res,
           Reducing(40, m, rhs, e, res), Reduced(40, m, rhs, e, res)
    PROVE  Inv'
<1> USE DEF Inv
<1>0. Deciding
    BY DEF ReduceStep
<1>1. /\ fault = "none" /\ parse.root = 0 /\ ~PutAside /\ phase # "over"
      /\ "HERE_BODY" \notin parse.flags /\ body.on = FALSE /\ "DONE" \notin parse.flags
      /\ parse.state = Under(stack, Len(stack)) /\ parse.state \in States \ {5}
      /\ phase = "parse" => "HAS_LOOKAHEAD" \in parse.flags /\ "SAVE_TOKENS" \notin parse.flags
      /\ phase = "final" => "HAS_LOOKAHEAD" \notin parse.flags /\ parse.look = "EOF"
      /\ phase = "parse" \/ phase = "final"
    BY <1>0, DecidingIs
<1>2. /\ 40 = YyDefAct[parse.state]
      /\ m \in Nat /\ m <= Len(stack) /\ Len(stack) = m + Len(Rhs[40])
      /\ Borne(nodes, Len(tokens), rhs, Rhs[40])
      /\ Len(Rhs[40]) > 0 => rhs[Len(Rhs[40])] = Top
      /\ res = Reduce(nodes, Rules[40], rhs)
    BY DEF Reducing
<1>3. PICK t \in Nat, d \in Nat : t = Len(tokens) /\ d = Len(docs)
    BY DEF Shapes
<1>4. /\ Rules[40].handler = "io_here" /\ Rules[40].lhs = "io_here"
      /\ Len(Rhs[40]) = 2 /\ Rhs[40][2] = "here_end"
    BY Rules40To45 DEF Shape, Rule
<1>5. parse.state = 28
    <2>1. parse.state \in States \ {YyFinal} /\ YyDefAct[parse.state] # 0
        BY <1>1, <1>2 DEF YyFinal
    <2>2. PICK s \in States \ {YyFinal} : s = parse.state
        BY <2>1
    <2>3. YyDefAct[s] = 40
        BY <1>2, <2>2
    <2>4. s = 28
        BY <2>2, <2>3, RuleOf
    <2>5. QED
        BY <2>2, <2>4
<1>6. rhs[2] = Top /\ Top.type = "here_end" /\ Top.token \in 0 .. t /\ stack # << >>
    <2>1. 2 \in 1 .. Len(Rhs[40]) /\ rhs[2] = Top
        BY <1>2, <1>4
    <2>2. Len(stack) > 0
        BY <1>2, <1>4
    <2>3. stack # << >>
        BY <2>2
    <2>4. QED
        BY <1>2, <1>3, <1>4, <2>1, <2>3 DEF Borne
<1>7. Top.token = Consumed /\ Top.token >= 1
    BY <1>1, <1>6 DEF Ends
<1>8. Arena(nodes, t, d)
    BY <1>3 DEF Bear
<1>9. PICK L \in Nat : L = Len(nodes)
    BY <1>8 DEF Arena
<1>10. PICK ms : ms = res.nodes /\ ms = nodes'
    BY DEF Reduced
<1>11. /\ Arena(ms, t, d) /\ Len(ms) = L + 1 /\ res.node = L + 1
       /\ \A i \in 1 .. L : ms[i] = nodes[i]
       /\ ms[L + 1].type = "redir" /\ ms[L + 1].flag = "DLESS" /\ ms[L + 1].fd = 0
       /\ ms[L + 1].token = Top.token
    <2>1. res = ReduceIoHere(nodes, rhs)
        BY <1>2, <1>4, Handlers
    <2>2. rhs[2].token \in 0 .. t
        BY <1>6
    <2>3. /\ Arena(ReduceIoHere(nodes, rhs).nodes, t, d)
          /\ Len(ReduceIoHere(nodes, rhs).nodes) = Len(nodes) + 1
          /\ ReduceIoHere(nodes, rhs).node = Len(nodes) + 1
        BY <1>8, <2>2, IoHereIs
    <2>4. \A i \in 1 .. Len(nodes) : ReduceIoHere(nodes, rhs).nodes[i] = nodes[i]
        BY <1>8, <2>2, IoHereIs
    <2>5. LET new == ReduceIoHere(nodes, rhs).nodes[Len(nodes) + 1]
          IN /\ new.type = "redir" /\ new.flag = "DLESS" /\ new.fd = 0
             /\ new.token = rhs[2].token
        BY <1>8, <2>2, IoHereIs
    <2>6. QED
        BY <1>6, <1>9, <1>10, <2>1, <2>3, <2>4, <2>5
<1>12. /\ e \in Symbol /\ e.type = "io_here" /\ e.node = L + 1 /\ e.token = Top.token
       /\ Leads(Under(stack, m), e.state, e.type)
       /\ Pushed(stack, m, e, stack') /\ StackPath(stack')
       /\ Under(stack', Len(stack')) = e.state /\ stack' # << >> /\ Top' = e
       /\ e.state \in States
    <2>1. res.node \in Nat
        BY <1>11
    <2>2. /\ e \in Symbol /\ e.type = Rules[40].lhs /\ e.node = res.node
          /\ e.token = (IF Len(Rhs[40]) = 0 THEN parse.tok ELSE Top.token)
          /\ Leads(Under(stack, m), e.state, e.type)
          /\ Pushed(stack, m, e, stack') /\ StackPath(stack')
          /\ Under(stack', Len(stack')) = e.state /\ stack' # << >> /\ Top' = e
          /\ e.state \in States
        BY <2>1, ReducedStack
    <2>3. QED
        BY <1>4, <1>11, <2>2
<1>13. /\ parse' \in [flags : SUBSET Flags, tok : Nat, look : Terminals, state : States, root : Nat]
       /\ parse'.state = e.state /\ parse'.tok = parse.tok /\ parse'.look = parse.look
       /\ parse'.flags = parse.flags \cup {"SAVE_TOKENS"} /\ parse'.root = 0
       /\ mode' = mode /\ line' = line /\ tokens' = tokens /\ body' = body /\ docs' = docs
       /\ open' = open /\ ran' = ran /\ phase' = phase /\ fault' = fault
    <2>1. Rules[40].lhs = "complete_commands" => Top.node \in Nat
        BY <1>4
    <2>2. QED
        BY <1>4, <1>12, <2>1, ReducedParse
<1>14. /\ HereNodes(ms) = HereNodes(nodes) \cup {L + 1} /\ HereNodes(nodes) \subseteq 1 .. L
       /\ HereFds(ms) = HereFds(nodes) \cup {0}
    <2>1. DOMAIN nodes = 1 .. L /\ DOMAIN ms = 1 .. L + 1
        BY <1>8, <1>9, <1>11 DEF Arena
    <2>2. \A i \in 1 .. L + 1 : i \in 1 .. L \/ i = L + 1
        OBVIOUS
    <2>3. HereNodes(ms) = HereNodes(nodes) \cup {L + 1} /\ HereNodes(nodes) \subseteq 1 .. L
        BY <1>11, <2>1, <2>2 DEF HereNodes
    <2>4. \A i \in HereNodes(nodes) : ms[i].fd = nodes[i].fd
        BY <1>11, <2>3
    <2>5. HereFds(ms) = HereFds(nodes) \cup {0}
        BY <1>11, <2>3, <2>4 DEF HereFds
    <2>6. QED
        BY <2>3, <2>5
<1>15. PutAside' <=> phase = "parse"
    BY <1>13 DEF PutAside
<1>16. Consumed' = Consumed
    <2>1. CASE phase = "parse"
        BY <1>7, <1>12, <1>15, <2>1 DEF Consumed
    <2>2. CASE phase # "parse"
        BY <1>1, <1>13, <1>15, <2>2 DEF Consumed
    <2>3. QED
        BY <2>1, <2>2
<1>20. Shapes'
    BY <1>13 DEF Shapes
<1>21. Path'
    BY <1>1, <1>12, <1>13 DEF Path
<1>22. Bear'
    <2>1. Held(nodes, stack, 0, t)
        BY <1>1, <1>3 DEF Bear
    <2>2. ASSUME NEW y, NEW k, Carries(nodes, y, k) PROVE Carries(ms, y, k)
        BY <1>9, <1>11, <2>2 DEF Carries
    <2>3. Carries(ms, "io_here", L + 1)
        BY <1>11 DEF Carries, Kind, Bearing, Pipelines, Commands, Arguments, Redirections
    <2>4. PICK new : new = stack'
        OBVIOUS
    <2>5. PICK root : root = 0
        OBVIOUS
    <2>6. e.token <= t /\ Len(stack) \in Nat
        BY <1>6, <1>12, OnPath DEF Path
    <2>7. IF root # 0 THEN e.node <= Len(ms) ELSE Carries(ms, e.type, e.node)
        BY <1>12, <2>3, <2>5
    <2>8. Pushed(stack, m, e, new) /\ m \in Nat /\ m <= Len(stack)
        BY <1>2, <1>12, <2>4
    <2>9. Held(ms, new, root, t)
        BY <2>1, <2>2, <2>6, <2>7, <2>8, ReducedHeld
    <2>10. QED
        BY <1>3, <1>10, <1>11, <1>13, <2>4, <2>5, <2>9 DEF Bear
<1>23. Flow'
    BY <1>1, <1>13 DEF Flow, OneLine
<1>24. Saved'
    <2>1. SUFFICES ASSUME phase = "parse" PROVE Saved'
        BY <1>15 DEF Saved
    <2>2. "HAS_LOOKAHEAD" \in parse.flags /\ Consumed = parse.tok - 1 /\ parse.tok \in Nat
        BY <1>1, <2>1 DEF Consumed, Shapes
    <2>3. Top.token < parse.tok /\ \A k \in Top.token + 1 .. parse.tok : k = parse.tok
        BY <1>7, <2>2
    <2>4. "HERE_BODY" \notin parse'.flags
        BY <1>1, <1>13
    <2>5. nodes'[Top'.node].token = Top'.token
        BY <1>10, <1>11, <1>12
    <2>6. "HAS_LOOKAHEAD" \in parse'.flags
        BY <1>13, <2>2
    <2>7. QED
        BY <1>7, <1>12, <1>13, <2>3, <2>4, <2>5, <2>6 DEF Saved
<1>25. Lines'
    BY <1>13 DEF Lines
<1>26. Ends'
    <2>1. "io_here" \notin Terminals
        BY DEF Terminals, Symbols, SymbolType
    <2>2. QED
        BY <1>7, <1>12, <1>13, <1>16, <2>1 DEF Ends
<1>27. Blanks'
    <2>1. m + 1 \in 1 .. Len(stack') /\ stack'[m + 1] = e
        BY <1>2, <1>12 DEF Pushed
    <2>2. ~AllBlank(stack')
        BY <1>12, <2>1 DEF AllBlank, Blank
    <2>3. QED
        BY <2>2 DEF Blanks
<1>28. Documents'
    <2>1. Unended' = Unended
        BY <1>13 DEF Unended
    <2>2. InUse' = InUse
        BY <1>10, <1>13, <1>14 DEF InUse
    <2>3. ~Unended => phase = "parse"
        BY <1>1, <1>5 DEF Documents
    <2>4. ~Unended => \A i \in HereNodes(ms) : ms[i].fd = 0 => i = L + 1
        <3>1. ASSUME ~Unended, NEW i \in HereNodes(nodes) PROVE ms[i].fd # 0
            <4>1. nodes[i].fd # 0
                BY <1>1, <3>1 DEF Documents
            <4>2. QED
                BY <1>11, <1>14, <4>1
        <3>2. QED
            BY <1>14, <3>1
    <2>5. L + 1 \in HereNodes(ms)
        BY <1>14
    <2>6. QED
        BY <1>1, <1>10, <1>11, <1>12, <1>13, <1>15, <2>1, <2>2, <2>3, <2>4, <2>5 DEF Documents
<1>29. QED
    BY <1>20, <1>21, <1>22, <1>23, <1>24, <1>25, <1>26, <1>27, <1>28

\* Every reduction.
LEMMA ReduceStepKeeps ==
    ASSUME Inv, ReduceStep
    PROVE  Inv'
<1>1. PICK r, m, rhs, e, res : Reducing(r, m, rhs, e, res) /\ Reduced(r, m, rhs, e, res)
    BY ReductionIs
<1>2. CASE r = 40
    BY <1>1, <1>2, HereReductionKeeps
<1>3. CASE r # 40
    BY <1>1, <1>3, OtherReductionKeeps
<1>4. QED
    BY <1>2, <1>3

\* A complete command is run with nothing but a line break below it.
LEMMA CompleteAlone ==
    ASSUME Inv, parse.root # 0
    PROVE  /\ phase # "over" /\ ~PutAside /\ body.on = FALSE
           /\ Len(stack) = 2 /\ stack[1].type = "linebreak" /\ Top.type = "complete_commands"
           /\ Top = stack[2] /\ stack \in Seq(Symbol)
<1> USE DEF Inv
<1>1. phase # "over" /\ stack # << >> /\ Top.type = "complete_commands"
    BY DEF Bear
<1>2. ~PutAside
    BY DEF Saved
<1>3. body.on = FALSE
    BY <1>2 DEF Documents, PutAside, Shapes
<1>4. /\ StackPath(stack) /\ stack \in Seq(Symbol)
    BY DEF Path, StackPath
<1>5. PICK L \in Nat : L = Len(stack) /\ L >= 1 /\ Top = stack[L]
    BY <1>1, TopIs
<1>6. Leads(Under(stack, L - 1), Top.state, Top.type)
    BY <1>1, <1>5, TopState
<1>7. Under(stack, L - 1) = 4
    BY <1>1, <1>6, Landmarks
<1>8. L - 1 # 0
    BY <1>7 DEF Under
<1>9. PICK k \in 1 .. L : k = L - 1
    BY <1>5, <1>8
<1>10. Leads(Under(stack, k - 1), stack[k].state, stack[k].type) /\ Under(stack, k) = stack[k].state
    <2>1. k # 0
        BY <1>9
    <2>2. QED
        BY <1>4, <1>5, <2>1 DEF StackPath, Under
<1>11. stack[k].state = 4
    BY <1>7, <1>9, <1>10
<1>12. Under(stack, k - 1) = 0 /\ stack[k].type = "linebreak"
    BY <1>10, <1>11, Landmarks
<1>13. k - 1 \notin 1 .. Len(stack)
    BY <1>4, <1>12, OnPath
<1>14. k = 1
    BY <1>5, <1>9, <1>13
<1>15. L = 2
    BY <1>9, <1>14
<1>16. Len(stack) = 2 /\ Top = stack[2]
    BY <1>5, <1>15
<1>17. stack[1].type = "linebreak"
    BY <1>12, <1>14
<1>18. QED
    BY <1>1, <1>2, <1>3, <1>4, <1>16, <1>17

\* check_and_run_pending_exec.
LEMMA RunPendingKeeps ==
    ASSUME Inv, RunPending
    PROVE  Inv'
<1> USE DEF Inv
<1>1. /\ phase # "over" /\ ~PutAside /\ body.on = FALSE /\ parse.root # 0
      /\ Len(stack) = 2 /\ stack[1].type = "linebreak" /\ Top.type = "complete_commands"
      /\ Top = stack[2] /\ stack \in Seq(Symbol)
    BY CompleteAlone DEF RunPending
<1>2. "DONE" \notin parse.flags
    BY <1>1 DEF Path
<1>3. /\ mode' = mode /\ line' = line /\ tokens' = tokens /\ body' = body /\ docs' = docs
      /\ phase' = phase /\ fault' = fault
      /\ nodes' = << >> /\ open' = open \ HereFds(nodes)
    BY DEF RunPending, reader
<1>4. PICK t \in Nat, d \in Nat : t = Len(tokens) /\ d = Len(docs)
    BY DEF Shapes
<1>5. PICK a, b : a = stack[1] /\ b = stack[2]
    OBVIOUS
<1>6. /\ a \in Symbol /\ b \in Symbol /\ b.token \in 0 .. t /\ a.token <= t /\ a.node = 0
      /\ a.type = "linebreak" /\ b.type = "complete_commands"
    <2>1. a \in Symbol /\ b \in Symbol
        BY <1>1, <1>5
    <2>2. a.token <= t /\ b.token <= t /\ Carries(nodes, "linebreak", a.node)
        BY <1>1, <1>4, <1>5 DEF Bear, Held
    <2>3. "linebreak" \notin Bearing
        BY DEF Bearing, Pipelines, Commands, Arguments, Redirections
    <2>4. a.node = 0
        BY <2>2, <2>3 DEF Carries
    <2>5. b.token \in Nat
        BY <2>1 DEF Symbol
    <2>6. QED
        BY <1>1, <1>5, <2>1, <2>2, <2>4, <2>5
<1>7. PICK c : c = [b EXCEPT !.node = 0]
    OBVIOUS
<1>8. /\ c \in Symbol /\ c.type = b.type /\ c.token = b.token /\ c.state = b.state /\ c.node = 0
    BY <1>6, <1>7 DEF Symbol
<1>9. PICK new : new = stack'
    OBVIOUS
<1>10. /\ new \in Seq(Symbol) /\ Len(new) = 2 /\ new[1] = a /\ new[2] = c
    <2>1. new = [stack EXCEPT ![2] = c]
        BY <1>1, <1>5, <1>7, <1>9 DEF RunPending
    <2>2. PICK s \in Seq(Symbol) : s = stack
        BY <1>1
    <2>3. Len(s) = 2 /\ s[1] = a /\ s[2] = b
        BY <1>1, <1>5, <2>2
    <2>4. new = [s EXCEPT ![2] = c] /\ 2 \in 1 .. Len(s) /\ c \in Symbol
        BY <1>8, <2>1, <2>2, <2>3
    <2>5. new \in Seq(Symbol) /\ Len(new) = Len(s)
        BY <2>2, <2>4
    <2>6. new[2] = c /\ new[1] = s[1]
        BY <2>2, <2>3, <2>4
    <2>7. QED
        BY <2>3, <2>5, <2>6
<1>11. \A i \in 1 .. 2 : i = 1 \/ i = 2
    OBVIOUS
<1>12. Under(new, 0) = Under(stack, 0) /\ Under(new, 1) = Under(stack, 1) /\ Under(new, 2) = Under(stack, 2)
    BY <1>5, <1>8, <1>10 DEF Under
<1>13. StackPath(new) /\ Under(new, Len(new)) = Under(stack, Len(stack)) /\ new # << >>
    <2>1. /\ Leads(Under(stack, 1 - 1), stack[1].state, stack[1].type) /\ stack[1].type # "EOF"
          /\ Leads(Under(stack, 2 - 1), stack[2].state, stack[2].type) /\ stack[2].type # "EOF"
        BY <1>1 DEF Path, StackPath
    <2>2. 1 - 1 = 0 /\ 2 - 1 = 1
        OBVIOUS
    <2>3. /\ Leads(Under(new, 1 - 1), new[1].state, new[1].type) /\ new[1].type # "EOF"
          /\ Leads(Under(new, 2 - 1), new[2].state, new[2].type) /\ new[2].type # "EOF"
        BY <1>5, <1>8, <1>10, <1>12, <2>1, <2>2
    <2>4. StackPath(new)
        BY <1>10, <1>11, <2>3 DEF StackPath
    <2>5. new # << >>
        BY <1>10
    <2>6. QED
        BY <1>1, <1>10, <1>12, <2>4, <2>5
<1>14. Top' = c
    BY <1>9, <1>10 DEF Top
<1>15. /\ parse' \in [flags : SUBSET Flags, tok : Nat, look : Terminals, state : States, root : Nat]
       /\ parse'.flags = parse.flags /\ parse'.tok = parse.tok /\ parse'.look = parse.look
       /\ parse'.state = parse.state /\ parse'.root = 0
    <2>1. PICK p : p = parse
        OBVIOUS
    <2>2. p \in [flags : SUBSET Flags, tok : Nat, look : Terminals, state : States, root : Nat]
        BY <2>1 DEF Shapes
    <2>3. parse' = [p EXCEPT !.root = 0]
        BY <2>1 DEF RunPending
    <2>4. QED
        BY <2>1, <2>2, <2>3
<1>16. ran' \in Seq(Nat) /\ Mark' = Top.token
    <2>1. Top.token \in Nat
        BY <1>1, <1>5, <1>6
    <2>2. ran' = Append(ran, Top.token) /\ ran \in Seq(Nat)
        BY DEF RunPending, Shapes
    <2>3. PICK q, k, p : q = ran' /\ k = Top.token /\ p = ran
        OBVIOUS
    <2>4. /\ q \in Seq(Nat) /\ Len(q) = Len(p) + 1 /\ Len(p) \in Nat /\ q[Len(p) + 1] = k
        BY <2>1, <2>2, <2>3, Longer
    <2>5. q # << >> /\ q[Len(q)] = k
        BY <2>4
    <2>6. QED
        BY <2>3, <2>4, <2>5 DEF Mark, Last
<1>17. ~PutAside'
    BY <1>1, <1>3, <1>15 DEF PutAside
<1>18. Consumed' = Consumed /\ Consumed = Top.token
    <2>1. Consumed' = Consumed
        BY <1>1, <1>15, <1>17 DEF Consumed
    <2>2. stack # << >>
        BY <1>1, NonEmpty, Zenon
    <2>3. QED
        BY <1>1, <2>1, <2>2 DEF Ends
<1>20. Shapes'
    BY <1>3, <1>15, <1>16 DEF Shapes
<1>21. Path'
    BY <1>1, <1>2, <1>3, <1>9, <1>13, <1>15 DEF Path
<1>22. Bear'
    <2>1. PICK ms : ms = << >>
        OBVIOUS
    <2>2. Arena(ms, t, d) /\ Len(ms) = 0
        BY <2>1 DEF Arena
    <2>3. Carries(ms, "linebreak", 0) /\ Carries(ms, "complete_commands", 0)
        BY DEF Carries, Bearing, Pipelines, Commands, Arguments, Redirections
    <2>4. c.token <= t
        BY <1>6, <1>8
    <2>5. Held(ms, new, 0, t)
        BY <1>6, <1>8, <1>10, <1>11, <2>3, <2>4 DEF Held
    <2>6. QED
        BY <1>3, <1>4, <1>9, <1>15, <2>1, <2>2, <2>5 DEF Bear
<1>23. Flow'
    BY <1>1, <1>3, <1>15 DEF Flow, OneLine
<1>24. Saved'
    BY <1>17 DEF Saved
<1>25. Lines'
    BY <1>3, <1>15 DEF Lines
<1>26. Ends'
    <2>1. "complete_commands" \notin Terminals
        BY DEF Terminals, Symbols, SymbolType
    <2>2. QED
        BY <1>1, <1>3, <1>5, <1>6, <1>8, <1>14, <1>18, <2>1 DEF Ends
<1>27. Blanks'
    <2>1. Top.token \in Nat
        BY <1>1, <1>5, <1>6
    <2>2. \A k \in Mark' + 1 .. Consumed' : FALSE
        BY <1>16, <1>18, <2>1
    <2>3. QED
        BY <1>3, <2>2 DEF Blanks
<1>28. Documents'
    <2>1. Unended' = Unended
        BY <1>3 DEF Unended
    <2>2. HereNodes(nodes') = {} /\ HereFds(nodes') = {}
        BY <1>3 DEF HereNodes, HereFds
    <2>3. InUse' = {0}
        BY <1>1, <1>3, <2>2 DEF InUse
    <2>4. ASSUME ~Unended PROVE open' = {0}
        <3>1. open = InUse /\ \A i \in HereNodes(nodes) : nodes[i].fd # 0
            BY <1>1, <2>4 DEF Documents
        <3>2. 0 \notin HereFds(nodes)
            BY <3>1 DEF HereFds
        <3>3. open = ({0} \cup HereFds(nodes) \cup {}) \ {-1}
            BY <1>1, <3>1 DEF InUse
        <3>4. QED
            BY <1>3, <3>2, <3>3
    <2>5. open' \subseteq open
        BY <1>3
    <2>6. QED
        BY <1>1, <1>3, <1>15, <1>17, <2>1, <2>2, <2>3, <2>4, <2>5 DEF Documents
<1>29. QED
    BY <1>20, <1>21, <1>22, <1>23, <1>24, <1>25, <1>26, <1>27, <1>28

-------------------------------------------------------------------------------
(* The theorems                                                               *)

\* What the lexer and the saved tokens give.
LEMMA NextTokenKeeps ==
    ASSUME Inv, NextToken
    PROVE  Inv'
<1>1. ASSUME NEW t \in Signs \cup (IF EndsIn(tokens, "<<") THEN Delims ELSE Words), LexToken(t)
      PROVE  Inv'
    <2>1. t \in Texts
        BY DEF Texts
    <2>2. QED
        BY <1>1, <2>1, LexTokenKeeps
<1>2. CASE LexEnds
    BY <1>2, LexEndsKeeps
<1>3. CASE ReplayToken
    BY <1>3, ReplayTokenKeeps
<1>4. CASE SaveToken
    BY <1>4, SaveTokenKeeps
<1>5. QED
    BY <1>1, <1>2, <1>3, <1>4 DEF NextToken

\* The body of a here-document.
LEMMA ReadBodyKeeps ==
    ASSUME Inv, ReadBody
    PROVE  Inv'
<1>1. CASE OpenHere
    BY <1>1, OpenHereKeeps
<1>2. CASE DelimiterLine
    BY <1>2, DelimiterLineKeeps
<1>3. CASE NextLine
    BY <1>3, NextLineKeeps
<1>4. CASE InputEnds
    BY <1>4, InputEndsKeeps
<1>5. CASE Interrupt
    BY <1>5, InterruptKeeps
<1>6. ASSUME NEW w \in Delims, BodyLine(w) PROVE Inv'
    BY <1>6, BodyLineKeeps
<1>7. CASE ReadNull \/ \E w \in Delims : UnendedLine(w) \/ UnwritableLine(w)
    BY <1>7, FaultsKeep
<1>8. QED
    BY <1>1, <1>2, <1>3, <1>4, <1>5, <1>6, <1>7 DEF ReadBody

\* The automaton, and the commands it completes.
LEMMA AdvanceKeeps ==
    ASSUME Inv, Advance
    PROVE  Inv'
<1>1. CASE Shift
    <2>1. CASE Decision = YyFinal
        BY <1>1, <2>1, AcceptKeeps
    <2>2. CASE Decision # YyFinal
        BY <1>1, <2>2, ShiftKeeps
    <2>3. QED
        BY <2>1, <2>2
<1>2. CASE ReduceStep
    BY <1>2, ReduceStepKeeps
<1>3. CASE RunPending
    BY <1>3, RunPendingKeeps
<1>4. CASE SyntaxError
    BY <1>4, SyntaxErrorKeeps
<1>5. QED
    BY <1>1, <1>2, <1>3, <1>4 DEF Advance

\* A step that leaves every variable as it is.
LEMMA StutterKeeps ==
    ASSUME Inv, UNCHANGED vars
    PROVE  Inv'
<1>1. /\ mode' = mode /\ line' = line /\ input' = input /\ tokens' = tokens /\ parse' = parse
      /\ stack' = stack /\ nodes' = nodes /\ body' = body /\ docs' = docs /\ open' = open
      /\ ran' = ran /\ phase' = phase /\ fault' = fault
    BY DEF vars
<1>2. Top' = Top /\ Consumed' = Consumed /\ PutAside' = PutAside /\ Mark' = Mark
      /\ Unended' = Unended /\ InUse' = InUse
    BY <1>1 DEF Top, Consumed, PutAside, Mark, Unended, InUse, HereFds, HereNodes
<1>3. Shapes' /\ Path' /\ Bear' /\ Flow'
    BY <1>1, <1>2 DEF Inv, Shapes, Path, Bear, Flow, OneLine
<1>4. Saved' /\ Lines' /\ Ends' /\ Blanks' /\ Documents'
    BY <1>1, <1>2 DEF Inv, Saved, OneLine, Lines, Ends, Blanks, Documents, HereNodes
<1>5. QED
    BY <1>3, <1>4 DEF Inv

\* A parse begins with nothing read and nothing on the stack.
LEMMA InitInv == Init => Inv
<1> SUFFICES ASSUME Init PROVE Inv
    OBVIOUS
<1>1. /\ mode \in Modes /\ tokens = << >> /\ stack = << >> /\ nodes = << >> /\ docs = << >>
      /\ open = {0} /\ ran = << >> /\ phase = "parse" /\ fault = "none"
      /\ line = [text |-> << >>, at |-> 1, whole |-> FALSE, null |-> FALSE]
      /\ parse = [flags |-> {}, tok |-> 0, look |-> "EOF", state |-> 0, root |-> 0]
      /\ body = [on |-> FALSE, fd |-> -1, writable |-> FALSE]
    BY DEF Init
<1>2. "EOF" \in Terminals /\ 0 \in States
    BY DEF Terminals, Symbols, SymbolType, States
<1>3. Shapes
    BY <1>1, <1>2 DEF Shapes
<1>4. Len(stack) = 0 /\ Len(nodes) = 0 /\ Len(tokens) = 0 /\ Len(docs) = 0
      /\ line.text = << >> /\ Len(line.text) = 0
    BY <1>1
<1>5. ~PutAside
    BY <1>1 DEF PutAside
<1>6. Path
    BY <1>1, <1>4 DEF Path, StackPath, Under
<1>7. Bear
    BY <1>1, <1>4 DEF Bear, Arena, Held
<1>8. Flow
    BY <1>1, <1>4 DEF Flow
<1>9. Saved /\ Ends
    BY <1>1, <1>5 DEF Saved, Ends
<1>10. Lines
    BY <1>1, <1>4 DEF Lines, EndsInNewline, EndsIn
<1>11. Consumed = 0 /\ Mark = 0
    BY <1>1, <1>5 DEF Consumed, Mark
<1>12. Blanks
    BY <1>1, <1>11 DEF Blanks
<1>13. HereNodes(nodes) = {} /\ HereFds(nodes) = {}
    BY <1>1 DEF HereNodes, HereFds
<1>14. Documents
    BY <1>1, <1>4, <1>5, <1>13 DEF Documents, InUse
<1>15. QED
    BY <1>3, <1>6, <1>7, <1>8, <1>9, <1>10, <1>12, <1>14 DEF Inv

\* Every step keeps the invariant.
LEMMA InvKept == Inv /\ [Next]_vars => Inv'
<1> SUFFICES ASSUME Inv, [Next]_vars PROVE Inv'
    OBVIOUS
<1>1. CASE NextToken
    BY <1>1, NextTokenKeeps
<1>2. CASE ReadBody
    BY <1>2, ReadBodyKeeps
<1>3. CASE Advance
    BY <1>3, AdvanceKeeps
<1>4. CASE UNCHANGED vars
    BY <1>4, StutterKeeps
<1>5. QED
    BY <1>1, <1>2, <1>3, <1>4 DEF Next

\* The links of the arena and of the stack stay in the arena.
LEMMA InvTypes == Inv => TypeOK
<1> SUFFICES ASSUME Inv PROVE TypeOK
    OBVIOUS
<1> USE DEF Inv
<1>1. PICK t \in Nat, d \in Nat : t = Len(tokens) /\ d = Len(docs)
    BY DEF Shapes
<1>2. PICK L \in Nat : L = Len(nodes) /\ nodes \in Seq(NodeSet(L, t, d))
    BY <1>1 DEF Bear, Arena
<1>3. /\ parse.flags \subseteq Flags /\ parse.tok \in Nat /\ parse.look \in Terminals
      /\ parse.state \in States /\ mode \in Modes
      /\ phase \in {"parse", "final", "over"} /\ fault \in {"none", "null", "overrun", "loop"}
    BY DEF Shapes
<1>4. parse.tok \in 0 .. Len(tokens) /\ line.at \in 1 .. Len(line.text) + 1
    BY <1>1, <1>3 DEF Flow, Lines
<1>5. parse.state \in DOMAIN YyPact
    BY <1>3 DEF States, YyPact, Table
<1>6. ASSUME NEW i \in DOMAIN stack
      PROVE  stack[i] \in Symbol /\ stack[i].node <= Len(nodes) /\ stack[i].token <= Len(tokens)
    <2>1. stack \in Seq(Symbol)
        BY DEF Path, StackPath
    <2>2. i \in 1 .. Len(stack) /\ stack[i] \in Symbol
        BY <1>6, <2>1
    <2>3. /\ stack[i].token <= Len(tokens)
          /\ stack[i].node <= Len(nodes) \/ Carries(nodes, stack[i].type, stack[i].node)
        BY <2>2 DEF Bear, Held
    <2>4. PICK n : n = stack[i].node
        OBVIOUS
    <2>5. Carries(nodes, stack[i].type, n) => n <= L
        BY <1>2 DEF Carries
    <2>6. QED
        BY <1>2, <2>2, <2>3, <2>4, <2>5
<1>7. ASSUME NEW i \in DOMAIN nodes
      PROVE  /\ nodes[i].type \in NodeTypes /\ nodes[i].flag \in NodeFlags
             /\ {nodes[i].next, nodes[i].head, nodes[i].redirs} \subseteq 0 .. Len(nodes)
             /\ nodes[i].token \in 0 .. Len(tokens)
             /\ nodes[i].fd \in -1 .. Len(docs)
    <2>1. PICK n : n = nodes[i]
        OBVIOUS
    <2>2. n \in NodeSet(L, t, d)
        BY <1>2, <1>7, <2>1
    <2>3. /\ n.type \in NodeTypes /\ n.flag \in NodeFlags /\ n.next \in 0 .. L
          /\ n.head \in 0 .. L /\ n.redirs \in 0 .. L /\ n.token \in 0 .. t /\ n.fd \in -1 .. d
        BY <2>2 DEF NodeSet
    <2>4. QED
        BY <1>1, <1>2, <2>1, <2>3
<1>8. parse.root \in 0 .. Len(nodes)
    BY DEF Bear
<1>9. open \subseteq 0 .. Len(docs)
    BY DEF Documents
<1>10. QED
    BY <1>3, <1>4, <1>5, <1>6, <1>7, <1>8, <1>9 DEF TypeOK

\* An accepted text is one program: all that has not been run are newlines.
LEMMA InvNothingLeft == Inv => NothingLeftOut
<1> SUFFICES ASSUME Inv, "DONE" \in parse.flags PROVE \A i \in Mark + 1 .. Len(tokens) : tokens[i] = "nl"
    BY DEF NothingLeftOut
<1> USE DEF Inv
<1>1. phase = "over" /\ Under(stack, Len(stack)) = 2 /\ StackPath(stack)
    BY DEF Path
<1>2. parse.root = 0
    BY <1>1 DEF Bear
<1>3. PICK n \in Nat : n = Len(stack)
    BY <1>1, OnPath
<1>4. n >= 1
    BY <1>1, <1>3 DEF Under
<1>5. n \in 1 .. n /\ n # 0
    BY <1>4
<1>6. Leads(Under(stack, n - 1), stack[n].state, stack[n].type)
    BY <1>1, <1>3, <1>5 DEF StackPath
<1>7. stack[n].state = 2
    BY <1>1, <1>3, <1>5 DEF Under
<1>8. Under(stack, n - 1) = 0 /\ stack[n].type = "program"
    BY <1>6, <1>7, Landmarks
<1>9. n - 1 \notin 1 .. Len(stack)
    BY <1>1, <1>8, OnPath
<1>10. n = 1
    BY <1>3, <1>4, <1>9
<1>11. AllBlank(stack)
    BY <1>3, <1>8, <1>10 DEF AllBlank, Blank
<1>12. \A k \in Mark + 1 .. Consumed : tokens[k] = "nl"
    BY <1>2, <1>11 DEF Blanks
<1>13. ~PutAside
    BY <1>1 DEF PutAside
<1>14. Consumed = Len(tokens)
    BY <1>13 DEF Consumed, Flow
<1>15. QED
    BY <1>12, <1>14

\* No descriptor of a here-document is left when a command line is over.
LEMMA InvClosed == Inv => DocumentsClosed
BY DEF Inv, Documents, DocumentsClosed

\* The invariant of the parser.
LEMMA Invariance == Spec => []Inv
<1>1. Inv /\ [Next]_vars => Inv'
    BY InvKept
<1>2. QED
    BY InitInv, <1>1, PTL DEF Spec

(* Every variable of the parser stays in its domain: the stack holds symbols, and
   no node of the stack or link of the arena leads out of it.                   *)
THEOREM TypesKept == Spec => []TypeOK
BY Invariance, InvTypes, PTL

(* When the text has been parsed to its end, every command in it has been run: at
   most newlines follow the last one.                                           *)
THEOREM NothingIsLeftOut == Spec => []NothingLeftOut
BY Invariance, InvNothingLeft, PTL

(* Whatever way a command line ends - run, given up at a syntax error, interrupted
   - no descriptor of a here-document stays open, and standard input does.      *)
THEOREM DocumentsAreClosed == Spec => []DocumentsClosed
BY Invariance, InvClosed, PTL
================================================================================
