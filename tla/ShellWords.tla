------------------------------ MODULE ShellWords ------------------------------
(* What the characters of a command line mean, said position by position: which
   tokens they make and which fields a word expands to, after the rules the
   README quotes (token recognition, parameter expansion, word splitting, quote
   removal), without slices, buffers or flags. Lexer and Expansion are compared
   with it.                                                                    *)
EXTENDS Intervals

CONSTANTS
    NameStarts,     \* the characters a name may begin with
    NameBodies      \* the characters it may go on with

NewLine == "\n"
Blanks == {" ", "\t"}
SingleQuote == "'"
DoubleQuote == "\""
Quotes == {SingleQuote, DoubleQuote}
IfsChars == {" ", "\t", "\n"}
OperatorChars == {"<", ">", "&", "|", "(", ")", NewLine}
SpecialParameters == {"?"}

\* Names are made of letters, digits and _.
ASSUME NamesAssumption ==
    /\ NameStarts \subseteq NameBodies
    /\ Nul \notin NameBodies /\ "$" \notin NameBodies
    /\ NameBodies \cap (OperatorChars \cup Blanks \cup Quotes) = {}

\* A reference to a variable, or to the last status, begins at i of s.
ReferenceAt(s, i) ==
    /\ CharAt(s, i) = "$"
    /\ CharAt(s, i + 1) \in NameStarts \cup SpecialParameters

\* Its last character: the longest name that follows the $.
ReferenceEnd(s, i) ==
    IF s[i + 1] \in SpecialParameters THEN i + 1
    ELSE CHOOSE e \in (i + 1)..Len(s) :
            /\ \A k \in (i + 1)..e : s[k] \in NameBodies
            /\ CharAt(s, e + 1) \notin NameBodies

\* A quote at i opens a quotation when another one like it follows.
Opens(s, i) == s[i] \in Quotes /\ \E j \in (i + 1)..Len(s) : s[j] = s[i]

-------------------------------------------------------------------------------
(* Tokens                                                                       *)

\* Among equal operator characters the ones at an odd place begin an operator.
Leads(s, i) ==
    LET run == {k \in 1..i : \A m \in k..i : s[m] = s[i]}
    IN Cardinality(run) % 2 = 1

Doubles == {"<", ">", "&", "|"}

OperatorAt(s, i) ==
    /\ s[i] \in OperatorChars
    /\ s[i] = "&" => ~Leads(s, i) \/ CharAt(s, i + 1) = "&"

\* In[i]: where the line stands before its i-th character: "out" of any word,
\* "word", inside a quotation (its quote) or a comment ("#").
Standing(s) ==
    LET In[i \in 1..(Len(s) + 1)] ==
            IF i = 1 THEN "out"
            ELSE LET c == s[i - 1]
                     before == In[i - 1]
                 IN IF before \in Quotes THEN IF c = before THEN "word" ELSE before
                    ELSE IF before = "#" THEN IF c = NewLine THEN "out" ELSE "#"
                    ELSE IF Opens(s, i - 1) THEN c
                    ELSE IF c \in Blanks \/ OperatorAt(s, i - 1) THEN "out"
                    ELSE IF c = "#" /\ before = "out" THEN "#"
                    ELSE "word"
    IN In

\* The tokens of a line: words, and operators of one or two characters.
TokensOf(s) ==
    LET in == Standing(s)
        words == {i \in DOMAIN s : in[i + 1] \in {"word"} \cup Quotes}
        operators == {i \in DOMAIN s :
                        /\ \/ in[i] \in {"out", "word"}
                           \/ in[i] = "#" /\ s[i] = NewLine
                        /\ i \notin words /\ OperatorAt(s, i)
                        /\ s[i] \notin Doubles \/ Leads(s, i)}
        Paired(i) == s[i] \in Doubles /\ CharAt(s, i + 1) = s[i]
        starts == Beginnings(words) \cup operators
        token == [i \in starts |->
                    IF i \in words
                    THEN [type |-> "word", text |-> SubSeq(s, i, EndFrom(words, i))]
                    ELSE [type |-> "operator",
                          text |-> SubSeq(s, i, IF Paired(i) THEN i + 1 ELSE i)]]
    IN InOrder(token, starts)

-------------------------------------------------------------------------------
(* Fields of a word                                                             *)

\* In which quotation each character of a word stands: "" for none.
Quotation(w) ==
    LET In[i \in 1..(Len(w) + 1)] ==
            IF i = 1 THEN ""
            ELSE LET c == w[i - 1]
                 IN IF In[i - 1] = "" THEN IF Opens(w, i - 1) THEN c ELSE ""
                    ELSE IF c = In[i - 1] THEN "" ELSE In[i - 1]
    IN In

\* Position i is a quote that quote removal takes away.
IsDelimiter(w, in, i) == in[i] # in[i + 1]

QuotesRemoved(w) ==
    LET in == Quotation(w)
    IN InOrder(w, {i \in DOMAIN w : ~IsDelimiter(w, in, i)})

\* A word as a sequence of items: characters, some of which split it, and marks
\* where a quotation begins or ends, which keep an empty field alive.
Items(w, ValueOf(_)) ==
    LET in == Quotation(w)
        refs == {i \in DOMAIN w : in[i] # "'" /\ ReferenceAt(w, i)}
        named == UNION {i..ReferenceEnd(w, i) : i \in refs}
        Char(c, splits) == [char |-> c, splits |-> splits]
        At(i) ==
            IF IsDelimiter(w, in, i) THEN << Char("quote", FALSE) >>
            ELSE IF i \in refs
            THEN LET name == SubSeq(w, i + 1, ReferenceEnd(w, i))
                     val == ValueOf(name)
                 IN [k \in DOMAIN val |->
                        Char(val[k], in[i] = "" /\ val[k] \in IfsChars)]
            ELSE IF i \in named THEN << >>
            ELSE << Char(w[i], FALSE) >>
    IN FlattenSeq([i \in DOMAIN w |-> At(i)])

\* The fields of a word: what lies between the characters that split it.
FieldsOf(w, ValueOf(_)) ==
    LET items == Items(w, ValueOf)
        fields == Intervals({i \in DOMAIN items : ~items[i].splits})
        Text(f) == LET chars == SelectSeq(Piece(items, f),
                                          LAMBDA x : x.char # "quote")
                   IN [k \in DOMAIN chars |-> chars[k].char]
    IN [k \in DOMAIN fields |-> Text(fields[k])]

\* What a line of a here-document becomes: its references replaced, no more.
BodyOf(s, ValueOf(_)) ==
    LET refs == {i \in DOMAIN s : ReferenceAt(s, i)}
        named == UNION {i..ReferenceEnd(s, i) : i \in refs}
        At(i) == IF i \in refs THEN ValueOf(SubSeq(s, i + 1, ReferenceEnd(s, i)))
                 ELSE IF i \in named THEN << >> ELSE <<s[i]>>
    IN FlattenSeq([i \in DOMAIN s |-> At(i)]) \o <<NewLine>>
===============================================================================
