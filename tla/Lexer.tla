-------------------------------- MODULE Lexer ---------------------------------
(* The tokens of the line that was read, one call of lex_token after another: ten
   rules tried in order, each looking at the character the lexer stands on
   (lexer/lookahead.c, lookahead_rules1.c, lookahead_rules2.c, pair_utils.c,
   lex_tokens.c, lex_utils.c, expand_utils.c).                                 *)
EXTENDS ShellWords, FiniteSetsExt

CONSTANT Lines      \* the lines that may be read

\* A line is a string: what ends it is not in it.
ASSUME LinesAssumption == \A l \in Lines : l \in Seq(Chars)

VARIABLES
    line,           \* c->read_line
    char_idx,       \* where in it the lexer stands
    lex,            \* t_lexer_state: [type, flags, pos, len]
    tokens          \* the token arena: [type, text, flags]

lexVars == <<line, char_idx, lex, tokens>>

TokenFlags == {"HAS_QUOTES", "HAS_EXPANSION"}
LexFlags == TokenFlags \cup {"IS_BUILDING", "AT_EOI"}

LexInit ==
    /\ line \in Lines
    /\ char_idx = 1
    /\ lex = [type |-> "none", flags |-> {}, pos |-> 0, len |-> 0]
    /\ tokens = << >>

Lexing == "AT_EOI" \notin lex.flags
Building == "IS_BUILDING" \in lex.flags
Here == CharAt(line, char_idx)

IsExpansionStart(s, i) ==
    /\ CharAt(s, i) = "$"
    /\ CharAt(s, i + 1) \in NameStarts \cup SpecialParameters

GetExpansionLen(s, i) ==
    IF s[i + 1] \in SpecialParameters THEN 2
    ELSE Min({n \in 2..(Len(s) + 1) : CharAt(s, i + n) \notin NameBodies})

Operators == {<<c, c>> : c \in {"<", ">", "&", "|"}}

-------------------------------------------------------------------------------
(* start_lex_token, delimit_lex_token, find_matched_pair                        *)

StartLexToken(type) ==
    [type |-> type, flags |-> {"IS_BUILDING"}, pos |-> char_idx, len |-> 1]

\* The token that is being built, n characters longer, goes to the arena.
Delimit(n, more) ==
    /\ tokens' = Append(tokens,
                    [type |-> lex.type,
                     text |-> SubSeq(line, lex.pos, lex.pos + lex.len + n - 1),
                     flags |-> lex.flags \cap TokenFlags])
    /\ lex' = [lex EXCEPT !.type = "none", !.len = @ + n,
                          !.flags = (@ \ {"IS_BUILDING"}) \cup more]

\* A slip for FindMatchedPair: a quote that nothing closes takes the rest of the line.
FindMatchedPairToEnd(l) ==
    LET closings == {j \in (char_idx + 1)..Len(line) : line[j] = Here}
        end == IF closings = {} THEN Len(line) ELSE Min(closings)
    IN /\ lex' = [l EXCEPT !.len = @ + end - char_idx,
                           !.flags = @ \cup {"HAS_QUOTES"}]
       /\ char_idx' = end + 1

\* The quote at char_idx and the one that closes it join the token l; an
\* expansion between double quotes is noticed even when none closes them.
FindMatchedPair(l) ==
    LET closings == {j \in (char_idx + 1)..Len(line) : line[j] = Here}
        end == IF closings = {} THEN Len(line) + 1 ELSE Min(closings)
        seen == IF Here = DoubleQuote /\ \E k \in (char_idx + 1)..(end - 1) :
                                    IsExpansionStart(line, k)
                THEN {"HAS_EXPANSION"} ELSE {}
    IN IF closings = {}
       THEN /\ lex' = [l EXCEPT !.flags = @ \cup seen]
            /\ char_idx' = char_idx + 1
       ELSE /\ lex' = [l EXCEPT !.len = @ + end - char_idx,
                                !.flags = @ \cup seen \cup {"HAS_QUOTES"}]
            /\ char_idx' = end + 1

-------------------------------------------------------------------------------
(* The rules, in the order of lex_token                                         *)

\* The second of two operator characters joins the first, or does not.
OperatorGoesOn ==
    /\ lex.type = "operator"
    /\ SubSeq(line, char_idx - 1, char_idx) \in Operators

Rule1 ==
    /\ Here = Nul
    /\ IF Building THEN Delimit(0, {"AT_EOI"})
       ELSE lex' = [lex EXCEPT !.flags = @ \cup {"AT_EOI"}] /\ UNCHANGED tokens
    /\ UNCHANGED char_idx

Rule2 ==
    /\ Here # Nul /\ OperatorGoesOn
    /\ char_idx' = char_idx + 1
    /\ Delimit(1, {})

Rule3 ==
    /\ Here # Nul /\ lex.type = "operator" /\ ~OperatorGoesOn
    /\ Delimit(0, {})
    /\ UNCHANGED char_idx

Rule4 ==
    /\ lex.type # "operator" /\ Here \in Quotes
    /\ FindMatchedPair(IF Building THEN [lex EXCEPT !.len = @ + 1]
                       ELSE StartLexToken("word"))
    /\ UNCHANGED tokens

Rule5 ==
    /\ lex.type # "operator" /\ IsExpansionStart(line, char_idx)
    /\ LET len == GetExpansionLen(line, char_idx)
           grown == IF Building THEN [lex EXCEPT !.len = @ + len]
                    ELSE [StartLexToken("word") EXCEPT !.len = len]
       IN /\ lex' = [grown EXCEPT !.flags = @ \cup {"HAS_EXPANSION"}]
          /\ char_idx' = char_idx + len
    /\ UNCHANGED tokens

\* A & that no other follows is a character like any other.
StartsOperator ==
    /\ Here \in OperatorChars
    /\ Here = "&" => CharAt(line, char_idx + 1) = "&"

Rule6 ==
    /\ lex.type # "operator" /\ StartsOperator
    /\ IF Building THEN Delimit(0, {}) /\ UNCHANGED char_idx
       ELSE /\ lex' = StartLexToken("operator")
            /\ char_idx' = char_idx + 1
            /\ UNCHANGED tokens

Rule7 ==
    /\ lex.type # "operator" /\ Here \in Blanks
    /\ char_idx' = char_idx + 1
    /\ IF Building THEN Delimit(0, {}) ELSE UNCHANGED <<lex, tokens>>

\* None of the rules before applies.
Ordinary ==
    /\ lex.type # "operator"
    /\ Here \notin Quotes \cup Blanks \cup {Nul}
    /\ ~IsExpansionStart(line, char_idx) /\ ~StartsOperator

Rule8 ==
    /\ Ordinary /\ lex.type = "word"
    /\ lex' = [lex EXCEPT !.len = @ + 1]
    /\ char_idx' = char_idx + 1
    /\ UNCHANGED tokens

Rule9 ==
    /\ Ordinary /\ lex.type = "none" /\ Here = "#"
    /\ char_idx' = Min({i \in char_idx..(Len(line) + 1) :
                            CharAt(line, i) \in {Nul, NewLine}})
    /\ UNCHANGED <<lex, tokens>>

Rule10 ==
    /\ Ordinary /\ lex.type = "none" /\ Here # "#"
    /\ lex' = StartLexToken("word")
    /\ char_idx' = char_idx + 1
    /\ UNCHANGED tokens

LexToken ==
    /\ Lexing
    /\ \/ Rule1 \/ Rule2 \/ Rule3 \/ Rule4 \/ Rule5
       \/ Rule6 \/ Rule7 \/ Rule8 \/ Rule9 \/ Rule10
    /\ UNCHANGED line

-------------------------------------------------------------------------------
(* The word after << is not expanded: its quotes are taken out where it stands,
   for the lines of the body to be compared with it.                            *)

\* ft_indchr: where the quote at r is closed in s, or 0.
ClosedAt(s, r) ==
    LET closings == {j \in (r + 1)..Len(s) : s[j] = s[r]}
    IN IF s[r] \notin Quotes \/ closings = {} THEN 0 ELSE Min(closings)

\* A slip for QuoteRemove: what was quoted is read again.
QuoteRemoveTwice(s) ==
    LET From[r \in 1..(Len(s) + 1)] ==
            IF r > Len(s) THEN << >>
            ELSE (IF s[r] \in Quotes THEN << >> ELSE <<s[r]>>) \o From[r + 1]
    IN From[1]

QuoteRemove(s) ==
    LET From[r \in 1..(Len(s) + 1)] ==
            IF r > Len(s) THEN << >>
            ELSE IF ClosedAt(s, r) = 0 THEN <<s[r]>> \o From[r + 1]
            ELSE SubSeq(s, r + 1, ClosedAt(s, r) - 1) \o From[ClosedAt(s, r) + 1]
    IN From[1]

-------------------------------------------------------------------------------
(* Properties                                                                   *)

LexTypeOK ==
    /\ line \in Seq(STRING)
    /\ char_idx \in 1..(Len(line) + 1)
    /\ lex \in [type : {"none", "word", "operator"}, flags : SUBSET LexFlags,
                pos : 0..Len(line), len : 0..Len(line)]
    /\ \A k \in DOMAIN tokens :
        /\ tokens[k].type \in {"word", "operator"}
        /\ tokens[k].text # << >>
        /\ tokens[k].flags \subseteq TokenFlags
===============================================================================
