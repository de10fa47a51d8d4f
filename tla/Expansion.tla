------------------------------ MODULE Expansion -------------------------------
(* build_command: the words and the redirections of a simple command, as the
   lexer left them, become the strings of argv and the names of files. Fields are
   written one after another into one buffer of characters; a value that is not
   quoted is first appended whole and then cut in place
   (execute/build_command.c, expansions/expand_*.c, expansion.c).              *)
EXTENDS Lexer

CONSTANTS
    Values,         \* the values of the variable, sequences of characters
    Variable,       \* its name; no other variable is set
    StatusText,     \* the last status in digits
    NoValue         \* the variable is not set

ASSUME ExpansionAssumption ==
    /\ NoValue \notin Values
    /\ \A v \in Values \cup {StatusText} : v \in Seq(Chars)

VARIABLES
    value,          \* the variable's value, chosen when the line has been read
    step,           \* where build_command stands
    words,          \* the tokens to expand: arguments, then redirections
    src,            \* the next character of the word that is scanned
    exp,            \* t_expand_state: [pos, len, flags]
    buf,            \* AT_FIELDS, the part in use, with its terminators
    slots,          \* AT_ARGV: [arena, at], an offset in "FIELDS" or, for a word of
                    \* the line ("STRING"), the word itself
    seg,            \* append_segment's loop: [i, span], offsets in buf
    base,           \* arena_save: how many slots are arguments
    targets         \* the file names of the redirections, as references

expVars == <<value, step, words, src, exp, buf, slots, seg, base,
             targets>>
vars == <<lexVars, expVars>>

ExpFlags == {"HAS_FIELD", "IN_SQUOTE", "IN_DQUOTE"}
Steps == {"lex", "next", "word", "segment", "done", "ambiguous", "overrun"}
Final == {"done", "ambiguous", "overrun"}

Init ==
    /\ LexInit
    /\ value = NoValue
    /\ step = "lex"
    /\ words = << >>
    /\ src = 1
    /\ exp = [pos |-> 0, len |-> 0, flags |-> {}]
    /\ buf = << >>
    /\ slots = << >>
    /\ seg = [i |-> 0, span |-> 0]
    /\ base = 0
    /\ targets = << >>

-------------------------------------------------------------------------------
(* The words of the first command of the line: its arguments in a chain, its
   redirections in another (see Nodes for how the parser makes them).           *)

IsOperator(k) == tokens[k].type = "operator"
IsRedirection(k) == IsOperator(k) /\ tokens[k].text \in {<<">">>, <<">", ">">>}

\* Its tokens are the first ones of the line.
FirstCommand ==
    LET ends == {k \in DOMAIN tokens : IsOperator(k) /\ ~IsRedirection(k)}
    IN IF ends = {} THEN DOMAIN tokens ELSE 1..(Min(ends) - 1)

\* The parser accepts it.
WellFormed ==
    /\ FirstCommand # {}
    /\ \A k \in FirstCommand : IsRedirection(k) =>
          k + 1 \in FirstCommand /\ ~IsOperator(k + 1)

WordsOf(redir) ==
    LET chosen == {k \in FirstCommand : /\ ~IsOperator(k)
                                        /\ (k > 1 /\ IsOperator(k - 1)) = redir}
        Nth(n) == CHOOSE k \in chosen : Cardinality(chosen \cap 1..k) = n
    IN [n \in 1..Cardinality(chosen) |-> [redir |-> redir,
                                          text |-> tokens[Nth(n)].text,
                                          scan |-> tokens[Nth(n)].flags # {}]]

\* init_command: both arenas and the state are reset.
InitCommand ==
    /\ step = "lex" /\ ~Lexing /\ WellFormed
    /\ words' = WordsOf(FALSE) \o WordsOf(TRUE)
    /\ value' \in IF \E k \in DOMAIN words' : "$" \in ToSet(words'[k].text)
                  THEN Values \cup {NoValue} ELSE {NoValue}
    /\ exp' = [pos |-> 0, len |-> 0, flags |-> {}]
    /\ buf' = << >>
    /\ slots' = << >>
    /\ step' = "next"
    /\ UNCHANGED <<lexVars, src, seg, base, targets>>

-------------------------------------------------------------------------------
(* append_field, delimit_field                                                  *)

Has(flag) == flag \in exp.flags

\* A slip for AppendField: a new string gets no terminator.
AppendFieldOpen(s) ==
    IF ~Has("HAS_FIELD")
    THEN /\ exp' = [pos |-> Len(buf), len |-> Len(s),
                    flags |-> exp.flags \cup {"HAS_FIELD"}]
         /\ buf' = buf \o s
    ELSE /\ exp' = [exp EXCEPT !.len = @ + Len(s)]
         /\ buf' = buf \o s

\* A field begins as a new string of the arena or goes on over the terminator.
AppendField(s) ==
    IF ~Has("HAS_FIELD")
    THEN /\ exp' = [pos |-> Len(buf), len |-> Len(s),
                    flags |-> exp.flags \cup {"HAS_FIELD"}]
         /\ buf' = buf \o s \o <<Nul>>
    ELSE IF s # << >>
    THEN /\ exp' = [exp EXCEPT !.len = @ + Len(s)]
         /\ buf' = Front(buf) \o s \o <<Nul>>
    ELSE UNCHANGED <<exp, buf>>

\* A slip for Cleared: the field that was delimited still seems to be there.
ClearedLeftOn(x) == [x EXCEPT !.pos = 0, !.len = 0]

Cleared(x) == [pos |-> 0, len |-> 0, flags |-> x.flags \ {"HAS_FIELD"}]

Reference(arena, at) == [arena |-> arena, at |-> at]

-------------------------------------------------------------------------------
(* scan_word                                                                    *)

Word == Head(words)
C == CharAt(Word.text, src)

HasClosingQuote(s, i) ==
    /\ s[i] \in Quotes
    /\ \E j \in (i + 1)..Len(s) : s[j] = s[i]

Rest == src..Len(Word.text)

\* The characters from src up to the first of the places that stop it.
Run(stops) ==
    SubSeq(Word.text, src, IF stops = {} THEN Len(Word.text) ELSE Min(stops) - 1)

AppendRun(stops) ==
    /\ AppendField(Run(stops))
    /\ src' = src + Len(Run(stops))
    /\ UNCHANGED <<step, seg>>

GetEnvFromSlice(name) == IF name = Variable THEN value ELSE NoValue

\* The string of the status is appended; a field begins if there is none.
ArenaItoaCat ==
    /\ AppendField(StatusText)
    /\ UNCHANGED <<step, seg>>

\* append_segment appends the value and then takes its place to be where the
\* field, as it remembers it, ends with it.
AppendSegment(val) ==
    /\ AppendField(val)
    /\ LET span == exp'.pos + exp'.len - Len(val)
       IN seg' = [i |-> span, span |-> span]
    /\ step' = "segment"

ExpandVar ==
    LET len == GetExpansionLen(Word.text, src)
        name == SubSeq(Word.text, src + 1, src + len - 1)
        ref == GetEnvFromSlice(name)
    IN /\ src' = src + len
       /\ IF name = <<"?">> THEN ArenaItoaCat
          ELSE IF ref = NoValue \/ (ref = << >> /\ ~Has("IN_DQUOTE"))
          THEN UNCHANGED <<step, exp, buf, seg>>
          ELSE IF Has("IN_DQUOTE") THEN AppendField(ref) /\ UNCHANGED <<step, seg>>
          ELSE AppendSegment(ref)

CloseQuote(flag) ==
    /\ exp' = [exp EXCEPT !.flags = @ \ {flag}]
    /\ src' = src + 1
    /\ UNCHANGED <<step, buf, seg>>

HandleSquote ==
    /\ Has("IN_SQUOTE")
    /\ IF C = SingleQuote THEN CloseQuote("IN_SQUOTE")
       ELSE AppendRun({i \in Rest : Word.text[i] = SingleQuote})

HandleDquote ==
    /\ Has("IN_DQUOTE")
    /\ IF C = DoubleQuote THEN CloseQuote("IN_DQUOTE")
       ELSE IF IsExpansionStart(Word.text, src) THEN ExpandVar
       ELSE AppendRun({i \in Rest : \/ Word.text[i] = DoubleQuote
                                   \/ IsExpansionStart(Word.text, i)})

\* A slip for OpenQuote: a quotation begins a field only once something is in it.
OpenQuoteNothing ==
    LET quoted == IF C = SingleQuote THEN "IN_SQUOTE" ELSE "IN_DQUOTE"
    IN /\ exp' = [exp EXCEPT !.flags = @ \cup {quoted}]
       /\ src' = src + 1
       /\ UNCHANGED <<step, buf, seg>>

\* A quotation begins a field even when nothing is in it.
OpenQuote ==
    LET quoted == IF C = SingleQuote THEN "IN_SQUOTE" ELSE "IN_DQUOTE"
        begun == IF Has("HAS_FIELD") THEN exp
                 ELSE [pos |-> Len(buf), len |-> 0,
                       flags |-> exp.flags \cup {"HAS_FIELD"}]
    IN /\ exp' = [begun EXCEPT !.flags = @ \cup {quoted}]
       /\ buf' = IF Has("HAS_FIELD") THEN buf ELSE Append(buf, Nul)
       /\ src' = src + 1
       /\ UNCHANGED <<step, seg>>

HandleUnquoted ==
    /\ exp.flags \cap {"IN_SQUOTE", "IN_DQUOTE"} = {}
    /\ IF HasClosingQuote(Word.text, src) THEN OpenQuote
       ELSE IF IsExpansionStart(Word.text, src) THEN ExpandVar
       ELSE AppendRun({i \in Rest : \/ HasClosingQuote(Word.text, i)
                                   \/ IsExpansionStart(Word.text, i)})

ScanWord ==
    /\ step = "word" /\ C # Nul
    /\ HandleSquote \/ HandleDquote \/ HandleUnquoted
    /\ UNCHANGED <<lexVars, value, words, slots, base, targets>>

-------------------------------------------------------------------------------
(* append_segment's loop                                                        *)

Byte(b, o) == b[o + 1]
SegmentEnd == seg.span + Len(value)
SplitsHere == value[seg.i - seg.span + 1] \in IfsChars

\* get_ifs_end_idx from offset o; there is no telling beyond the buffer.
IfsEnd(b, o) == Min({k \in o..(Len(b) - 1) : Byte(b, k) \notin IfsChars})

\* A slip for DelimitSegment: the loop stays where it cut.
DelimitSegmentStays ==
    /\ step = "segment" /\ seg.i < SegmentEnd /\ SplitsHere
    /\ seg.i + 1 < Len(buf)
    /\ buf' = [buf EXCEPT ![seg.i + 1] = Nul]
    /\ IF seg.i > exp.pos
       THEN /\ slots' = Append(slots, Reference("FIELDS", exp.pos))
            /\ exp' = [Cleared(exp) EXCEPT !.pos = seg.i]
       ELSE /\ exp' = [exp EXCEPT !.flags = @ \ {"HAS_FIELD"}]
            /\ UNCHANGED slots
    /\ UNCHANGED <<lexVars, value, step, words, src, seg, base, targets>>

\* A character of the value that splits becomes a terminator: what is before it
\* is a field unless it is empty, and the next one starts after the blanks.
DelimitSegment ==
    /\ step = "segment" /\ seg.i < SegmentEnd /\ SplitsHere
    /\ seg.i + 1 < Len(buf)
    /\ LET cut == [buf EXCEPT ![seg.i + 1] = Nul]
           next == IfsEnd(cut, seg.i + 1)
       IN /\ buf' = cut
          /\ seg' = [seg EXCEPT !.i = next]
          /\ IF seg.i > exp.pos
             THEN /\ slots' = Append(slots, Reference("FIELDS", exp.pos))
                  /\ exp' = [Cleared(exp) EXCEPT !.pos = next]
             ELSE /\ exp' = [exp EXCEPT !.flags = @ \ {"HAS_FIELD"}, !.pos = next]
                  /\ UNCHANGED slots
    /\ UNCHANGED <<lexVars, value, step, words, src, base, targets>>

\* The loop has left the characters of the buffer: whatever follows them is read,
\* overwritten and taken for a field.
SegmentOverrun ==
    /\ step = "segment" /\ seg.i < SegmentEnd /\ SplitsHere
    /\ seg.i + 1 >= Len(buf)
    /\ step' = "overrun"
    /\ UNCHANGED <<lexVars, value, words, src, exp, buf, slots, seg, base, targets>>

KeepSegment ==
    /\ step = "segment" /\ seg.i < SegmentEnd /\ ~SplitsHere
    /\ exp' = [exp EXCEPT !.flags = @ \cup {"HAS_FIELD"}]
    /\ seg' = [seg EXCEPT !.i = @ + 1]
    /\ UNCHANGED <<lexVars, value, step, words, src, buf, slots, base, targets>>

EndSegment ==
    /\ step = "segment" /\ seg.i >= SegmentEnd
    /\ step' = "word"
    /\ UNCHANGED <<lexVars, value, words, src, exp, buf, slots, seg, base, targets>>

-------------------------------------------------------------------------------
(* expand_args, expand_redir                                                    *)

\* A word without quotes and expansions stays where the lexer wrote it.
PlainWord ==
    /\ step = "next" /\ words # << >> /\ ~Word.scan
    /\ IF Word.redir
       THEN /\ targets' = Append(targets, Reference("STRING", Word.text))
            /\ UNCHANGED slots
       ELSE /\ slots' = Append(slots, Reference("STRING", Word.text))
            /\ UNCHANGED targets
    /\ words' = Tail(words)
    /\ UNCHANGED <<lexVars, value, step, src, exp, buf, seg, base>>

StartWord ==
    /\ step = "next" /\ words # << >> /\ Word.scan
    /\ step' = "word"
    /\ src' = 1
    /\ base' = Len(slots)
    /\ UNCHANGED <<lexVars, value, words, exp, buf, slots, seg, targets>>

\* What is left of the word is its last field.
LastField ==
    IF Has("HAS_FIELD") THEN << Reference("FIELDS", exp.pos) >> ELSE << >>

\* A slip for EndWord: the fields of a redirection are counted with the arguments.
EndWordAllCounted ==
    /\ step = "word" /\ C = Nul
    /\ exp' = IF Has("HAS_FIELD") THEN Cleared(exp) ELSE exp
    /\ words' = Tail(words)
    /\ LET all == slots \o LastField
       IN IF ~Word.redir
          THEN /\ slots' = all
               /\ step' = "next"
               /\ UNCHANGED targets
          ELSE /\ slots' = SubSeq(slots, 1, base)
               /\ IF Len(all) = 1
                  THEN step' = "next" /\ targets' = Append(targets, Last(all))
                  ELSE step' = "ambiguous" /\ UNCHANGED targets
    /\ UNCHANGED <<lexVars, value, src, buf, seg, base>>

\* The fields of a redirection are taken from argv again: one of them names the
\* file, none or several are an error.
EndWord ==
    /\ step = "word" /\ C = Nul
    /\ exp' = IF Has("HAS_FIELD") THEN Cleared(exp) ELSE exp
    /\ words' = Tail(words)
    /\ LET all == slots \o LastField
       IN IF ~Word.redir
          THEN /\ slots' = all
               /\ step' = "next"
               /\ UNCHANGED targets
          ELSE /\ slots' = SubSeq(slots, 1, base)
               /\ IF Len(all) - base = 1
                  THEN step' = "next" /\ targets' = Append(targets, Last(all))
                  ELSE step' = "ambiguous" /\ UNCHANGED targets
    /\ UNCHANGED <<lexVars, value, src, buf, seg, base>>

FinishArgs ==
    /\ step = "next" /\ words = << >>
    /\ step' = "done"
    /\ UNCHANGED <<lexVars, value, words, src, exp, buf, slots, seg, base, targets>>

-------------------------------------------------------------------------------
(* The lines of a here-document whose delimiter was not quoted are expanded too,
   as they are written to its file: no quotes, no splitting.                    *)

GetExpansionValue(name) ==
    IF name = <<"?">> THEN StatusText
    ELSE IF GetEnvFromSlice(name) = NoValue THEN << >> ELSE value

\* A slip for ExpandHereLine: the last character of a name is written again.
ExpandHereLineTwice(s) ==
    LET From[start \in 1..(Len(s) + 1)] ==
            LET refs == {i \in start..Len(s) : IsExpansionStart(s, i)}
                i == Min(refs)
                end == GetExpansionLen(s, i)
            IN IF refs = {} THEN SubSeq(s, start, Len(s)) \o <<NewLine>>
               ELSE SubSeq(s, start, i - 1)
                    \o GetExpansionValue(SubSeq(s, i + 1, i + end - 1))
                    \o From[i + end - 1]
    IN From[1]

ExpandHereLine(s) ==
    LET From[start \in 1..(Len(s) + 1)] ==
            LET refs == {i \in start..Len(s) : IsExpansionStart(s, i)}
                i == Min(refs)
                end == GetExpansionLen(s, i)
            IN IF refs = {} THEN SubSeq(s, start, Len(s)) \o <<NewLine>>
               ELSE SubSeq(s, start, i - 1)
                    \o GetExpansionValue(SubSeq(s, i + 1, i + end - 1))
                    \o From[i + end]
    IN From[1]

BuildCommand ==
    \/ InitCommand \/ PlainWord \/ StartWord \/ ScanWord \/ DelimitSegment
    \/ SegmentOverrun \/ KeepSegment \/ EndSegment \/ EndWord \/ FinishArgs

Next == \/ LexToken /\ UNCHANGED expVars
        \/ BuildCommand

\* One thread reads the line and builds the command; nothing it does blocks.
Spec == Init /\ [][Next]_vars /\ WF_vars(Next)

-------------------------------------------------------------------------------
(* Properties                                                                   *)

StringAt(b, o) ==
    SubSeq(b, o + 1, Min({k \in (o + 1)..Len(b) : b[k] = Nul}) - 1)

TextOf(ref, b) == IF ref.arena = "STRING" THEN ref.at ELSE StringAt(b, ref.at)

Argv == [k \in DOMAIN slots |-> TextOf(slots[k], buf)]
Targets == [k \in DOMAIN targets |-> TextOf(targets[k], buf)]

TypeOK ==
    /\ LexTypeOK
    /\ value \in Values \cup {NoValue}
    /\ step \in Steps
    /\ src \in 1..(Len(line) + 1)
    /\ exp.flags \subseteq ExpFlags /\ exp.pos \in 0..Len(buf) /\ exp.len \in Nat
    /\ buf # << >> => Last(buf) = Nul
    /\ \A k \in DOMAIN slots : slots[k].arena = "FIELDS" =>
          slots[k].at \in 0..(Len(buf) - 1)
    /\ base <= Len(slots)

\* The tokens of a line are the ones its characters make: the slice that grows
\* and is put aside while the rules look for a closing quote, the flags that say
\* whether a token is being built and the second character of an operator lose,
\* double or join nothing.
TokensAsSpecified ==
    step = "lex" /\ ~Lexing =>
        [k \in DOMAIN tokens |-> [type |-> tokens[k].type, text |-> tokens[k].text]]
            = TokensOf(line)

\* The delimiter of a here-document is its word without the quotes that the lexer
\* and the scan of a word take for quotes: one that nothing closes is a character,
\* and so is the other kind inside a quotation.
DelimitersAsSpecified ==
    step = "lex" /\ ~Lexing => \A k \in DOMAIN tokens :
        QuoteRemove(tokens[k].text) = QuotesRemoved(tokens[k].text)

\* What a word is to become.
ValueOf(name) == IF name = <<"?">> THEN StatusText
                 ELSE IF name = Variable /\ value # NoValue THEN value
                 ELSE << >>

Fields(w) == FieldsOf(w, ValueOf)

\* The two kinds of words the code expands to something else: with several
\* references to a value that splits and does not end with a blank, and with a
\* quotation of nothing before a value that begins with a blank.
References(w) ==
    {i \in DOMAIN w : /\ Quotation(w)[i] = "" /\ ReferenceAt(w, i)
                      /\ SubSeq(w, i + 1, ReferenceEnd(w, i)) = Variable}

Splits(v) == \E k \in DOMAIN v : v[k] \in IfsChars

Misjudged(w) ==
    /\ value # NoValue /\ Splits(value)
    /\ \/ Cardinality(References(w)) > 1 /\ Last(value) \notin IfsChars
       \/ /\ Head(value) \in IfsChars
          /\ \E i \in References(w) : \E j \in 1..(i - 1) :
                /\ j = 1 \/ j - 1 \in {ReferenceEnd(w, r) : r \in References(w)}
                /\ \A k \in j..(i - 1) : w[k] \in Quotes

Sound == \A w \in ToSet(WordsOf(FALSE) \o WordsOf(TRUE)) : ~Misjudged(w.text)

FieldsOfAll(ws) == FlattenSeq([k \in DOMAIN ws |-> Fields(ws[k].text)])

\* argv is the fields of the arguments in their order, whatever pieces of text,
\* quotations, variables and statuses their words are made of: the buffer they are
\* written to and cut in, the offsets kept of it and the state passed on from word
\* to word agree. No reference is made to what is not a string of the buffer.
ArgvAsSpecified ==
    /\ step = "done" /\ Sound => Argv = FieldsOfAll(WordsOf(FALSE))
    /\ step = "overrun" => ~Sound

\* A redirection whose word is one field names that file, and expanding it leaves
\* argv alone; the first one with none or several fails the command.
TargetsAsSpecified ==
    LET redirs == WordsOf(TRUE)
        single == {k \in DOMAIN redirs : Len(Fields(redirs[k].text)) = 1
                                         \/ ~redirs[k].scan}
    IN /\ step = "done" /\ Sound =>
             single = DOMAIN redirs /\ Targets = FieldsOfAll(redirs)
       /\ step = "ambiguous" /\ Sound =>
             /\ single # DOMAIN redirs
             /\ Len(targets) + 1 = Min(DOMAIN redirs \ single)
             /\ Argv = FieldsOfAll(WordsOf(FALSE))

\* A line of a here-document is written with every reference in it replaced, also
\* those between quotes, which are characters there.
BodiesAsSpecified ==
    step = "done" /\ NewLine \notin ToSet(line) =>
        ExpandHereLine(line) = BodyOf(line, ValueOf)

\* A field that was recorded keeps its text while later ones are appended to the
\* same buffer and cut in it.
FieldsKept ==
    [][/\ \A k \in DOMAIN slots \cap DOMAIN slots' :
             step # "lex" => TextOf(slots'[k], buf') = TextOf(slots[k], buf)
       /\ \A k \in DOMAIN targets :
             TextOf(targets'[k], buf') = TextOf(targets[k], buf)]_vars

\* Every line comes to its end: the rules of the lexer and the loops over words
\* and values always get on.
Terminates == <>(step \in Final \/ (~Lexing /\ ~WellFormed))
===============================================================================
