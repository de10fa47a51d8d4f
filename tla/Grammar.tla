------------------------------- MODULE Grammar -------------------------------
(* What the parser is to do, said without tables, stack or nodes: the grammar
   (notes/shni_grammar_reduced.y), which sentences it derives, and how a typed
   text divides into the tokens of commands and the bodies of here-documents.  *)
EXTENDS Lalr, SequencesExt

\* The productions: for each nonterminal its right-hand sides.
Productions == [
    program |-> {<<"linebreak", "complete_commands", "linebreak">>, <<"linebreak">>},
    complete_commands |-> {<<"complete_commands", "newline_list", "and_or">>,
                           <<"and_or">>},
    and_or |-> {<<"pipeline">>, <<"and_or", "AND_IF", "linebreak", "pipeline">>,
                <<"and_or", "OR_IF", "linebreak", "pipeline">>},
    pipeline |-> {<<"command">>, <<"pipeline", "PIPE", "linebreak", "command">>},
    command |-> {<<"simple_command">>, <<"subshell">>, <<"subshell", "redirect_list">>},
    subshell |-> {<<"OPAR", "compound_list", "CPAR">>},
    compound_list |-> {<<"linebreak", "term">>, <<"linebreak", "term", "newline_list">>},
    term |-> {<<"term", "newline_list", "and_or">>, <<"and_or">>},
    simple_command |-> {<<"cmd_prefix", "cmd_word", "cmd_suffix">>,
                        <<"cmd_prefix", "cmd_word">>, <<"cmd_prefix">>,
                        <<"cmd_name", "cmd_suffix">>, <<"cmd_name">>},
    cmd_name |-> {<<"WORD">>},
    cmd_word |-> {<<"WORD">>},
    cmd_prefix |-> {<<"io_redirect">>, <<"cmd_prefix", "io_redirect">>},
    cmd_suffix |-> {<<"io_redirect">>, <<"cmd_suffix", "io_redirect">>,
                    <<"WORD">>, <<"cmd_suffix", "WORD">>},
    redirect_list |-> {<<"io_redirect">>, <<"redirect_list", "io_redirect">>},
    io_redirect |-> {<<"io_file">>, <<"io_here">>},
    io_file |-> {<<"LESS", "filename">>, <<"GREAT", "filename">>,
                 <<"DGREAT", "filename">>},
    filename |-> {<<"WORD">>},
    io_here |-> {<<"DLESS", "here_end">>},
    here_end |-> {<<"WORD">>},
    newline_list |-> {<<"NEWLINE">>, <<"newline_list", "NEWLINE">>},
    linebreak |-> {<<"newline_list">>, << >>}]

\* The symbols of the grammar.
Vocabulary == DOMAIN Productions \cup Terminals

Classes(tokens) == [i \in DOMAIN tokens |-> ClassifyToken(tokens[i])]

\* How often s occurs in a sequence.
Count(seq, s) == Cardinality({i \in DOMAIN seq : seq[i] = s})

\* How long a sentence that form derives is at least.
MinLength(form) ==
    Cardinality({i \in DOMAIN form : form[i] \notin {"program", "linebreak"}})

(* Rightmost derivation, from its end: form is to derive the first n of the classes
   cls.  A terminal at its end must be the last of them; a nonterminal is replaced
   by one of its right-hand sides.  A form that must be longer is given up, so the
   left recursion of the grammar ends.                                         *)
Steps(cls, form, n) ==
    IF form = << >> THEN {}
    ELSE IF Last(form) \in Terminals
    THEN IF n > 0 /\ cls[n] = Last(form) THEN {<<Front(form), n - 1>>} ELSE {}
    ELSE {c \in {<<Front(form) \o rhs, n>> : rhs \in Productions[Last(form)]} :
            MinLength(c[1]) <= n}

\* A program derives the classes cls: nothing is left when its steps have been taken.
Derives(cls) ==
    LET derives[c \in Seq(Vocabulary) \X Nat] ==
            c = <<<< >>, 0>> \/ \E d \in Steps(cls, c[1], c[2]) : derives[d]
    IN derives[<<<<"program">>, Len(cls)>>]

(* Some program starts with cls: what can be missing is one word and the
   parentheses to be closed.                                                   *)
Viable(cls) ==
    LET closing == [i \in 1 .. Count(cls, "OPAR") - Count(cls, "CPAR") |-> "CPAR"]
    IN \E word \in {<< >>, <<"WORD">>} : Derives(cls \o word \o closing)

-------------------------------------------------------------------------------
(* Here-documents.  A text is read token by token: the bodies of the here-documents
   of a line follow that line, in the order of their operators, each up to a line
   that is its delimiter.                                                      *)

Nothing == [tokens |-> << >>,    \* the tokens of commands
            due |-> << >>,       \* delimiters of bodies that are still to come
            bodies |-> << >>,    \* the bodies, in the order of the operators
            reading |-> FALSE,   \* in a body
            line |-> << >>]      \* the line of a body, as far as it is read

ReadCommandToken(a, t) ==
    LET here == /\ a.tokens # << >> /\ Last(a.tokens) = "<<"
                /\ ClassifyToken(t) = "WORD"
    IN [a EXCEPT !.tokens = Append(@, t),
                 !.due = IF here THEN Append(@, t) ELSE @,
                 !.bodies = IF here THEN Append(@, << >>) ELSE @,
                 !.reading = (t = "nl" /\ a.due # << >>)]

ReadBodyToken(a, t) ==
    IF t # "nl" THEN [a EXCEPT !.line = Append(@, t)]
    ELSE IF a.line = <<Head(a.due)>>
    THEN [a EXCEPT !.due = Tail(@), !.line = << >>, !.reading = Len(a.due) > 1]
    ELSE [a EXCEPT !.bodies[Len(a.bodies) + 1 - Len(a.due)] = Append(@, a.line),
                   !.line = << >>]

ReadToken(a, t) == IF a.reading THEN ReadBodyToken(a, t) ELSE ReadCommandToken(a, t)

AsRead(text) ==
    LET read[n \in 0 .. Len(text)] ==
            IF n = 0 THEN Nothing ELSE ReadToken(read[n - 1], text[n])
    IN read[Len(text)]

-------------------------------------------------------------------------------
(* A normal form of commands, to compare what is written with what was parsed:
   newlines only where they separate commands, in each command first its words,
   then its redirections, and words by their place in the text.                *)

RedirOps == {"LESS", "GREAT", "DLESS", "DGREAT"}

\* The newline at i of a list from..to separates two commands.
Separates(cls, from, to, i) ==
    /\ i > from
    /\ cls[i-1] \notin {"NEWLINE", "PIPE", "AND_IF", "OR_IF", "OPAR"}
    /\ \E k \in i + 1 .. to :
        /\ cls[k] \notin {"NEWLINE", "CPAR"}
        /\ \A j \in i .. k-1 : cls[j] = "NEWLINE"

NormalForm(cls, from, to) ==
    LET Redirects(i) == i > from /\ cls[i] = "WORD" /\ cls[i-1] \in RedirOps
        items == {i \in from .. to : CASE cls[i] \in RedirOps -> FALSE
                                       [] cls[i] = "NEWLINE" -> Separates(cls, from, to, i)
                                       [] OTHER -> TRUE}
        bounds == {i \in items : cls[i] # "WORD"}
        \* a redirection moves behind the words up to the next operator
        Before(i, j) ==
            IF Redirects(i) = Redirects(j) THEN i < j
            ELSE \/ \E b \in bounds : i <= b /\ b <= j
                 \/ Redirects(j) /\ ~\E b \in bounds : j <= b /\ b <= i
        Nth(n) == CHOOSE i \in items : Cardinality({j \in items : Before(j, i)}) = n - 1
        Item(i) == IF cls[i] # "WORD" THEN <<cls[i], 0>>
                   ELSE <<IF Redirects(i) THEN cls[i-1] ELSE "WORD", i>>
    IN [n \in 1 .. Cardinality(items) |-> Item(Nth(n))]
=============================================================================
