--------------------------- MODULE ExpansionProofs -----------------------------
(* For all lines, values and statuses: the types of Lexer and Expansion; what is
   recorded of the buffer of fields stays as it was recorded (FieldsKept); the tokens
   that the ten rules make of a line are the ones the places of its characters tell
   (TokensAsSpecified); and the two loops that write a text from another, that of
   quote_remove and that over a line of a here-document, write what the account of
   the text place by place says (DelimitersAsSpecified, BodiesAsSpecified). What the
   fields of a word are is left to the runs.                                       *)
EXTENDS Expansion, SequenceTheorems, FiniteSetTheorems, WellFoundedInduction, TLAPS

\* What the buffer holds.
Bytes == Chars \cup {Nul}

Token == [type : {"word", "operator"}, text : Seq(Chars), flags : SUBSET TokenFlags]

\* The token that is being built ends where the lexer stands.
LexShape ==
    /\ line \in Lines
    /\ char_idx \in 1..(Len(line) + 1)
    /\ lex \in [type : {"none", "word", "operator"}, flags : SUBSET LexFlags,
                pos : 0..Len(line), len : 0..Len(line)]
    /\ lex.type = "none" <=> ~Building
    /\ Building => /\ lex.pos >= 1 /\ lex.len >= 1
                   /\ lex.pos + lex.len = char_idx

TokensShape ==
    /\ tokens \in Seq(Token)
    /\ \A k \in 1..Len(tokens) : /\ tokens[k].text # << >>
                                 /\ Len(tokens[k].text) <= Len(line)

Scanning == step \in {"word", "segment"}

WordsShape ==
    /\ words \in Seq([redir : BOOLEAN, text : Seq(Chars), scan : BOOLEAN])
    /\ \A k \in 1..Len(words) : Len(words[k].text) <= Len(line)
    /\ src \in 1..(Len(line) + 1)
    /\ Scanning => words # << >> /\ src <= Len(Word.text) + 1

\* A field is being written: what comes next belongs to the string at exp.pos.
Writing == step = "segment" \/ Has("HAS_FIELD")

\* The buffer ends with a terminator, and the string at exp.pos lies in it.
BufferShape ==
    /\ buf \in Seq(Bytes)
    /\ buf # << >> => buf[Len(buf)] = Nul
    /\ exp \in [pos : Nat, len : Nat, flags : SUBSET ExpFlags]
    /\ exp.pos <= Len(buf)
    /\ Writing => exp.pos < Len(buf)
    /\ seg \in [i : Nat, span : Nat]
    /\ step = "segment" => exp.pos <= seg.i

\* A string of the buffer, or a word where the lexer wrote it.
Places == [arena : {"FIELDS"}, at : Nat] \cup [arena : {"STRING"}, at : Seq(Chars)]

\* Where the part of the buffer ends that is written no more.
Limit == IF Writing THEN exp.pos ELSE Len(buf)

\* The string r refers to has its terminator at most there.
Ended(r, b, limit) ==
    r.arena = "FIELDS" => \E e \in (r.at + 1)..limit : b[e] = Nul

AllEnded(refs, b, limit) == \A k \in 1..Len(refs) : Ended(refs[k], b, limit)

Recorded ==
    /\ slots \in Seq(Places) /\ targets \in Seq(Places)
    /\ AllEnded(slots, buf, Limit)
    /\ AllEnded(targets, buf, Limit)
    /\ base \in Nat /\ base <= Len(slots)

ExpInv ==
    /\ LexShape
    /\ TokensShape
    /\ value \in Values \cup {NoValue}
    /\ step \in Steps
    /\ step = "lex" => slots = << >> /\ targets = << >>
    /\ WordsShape
    /\ BufferShape
    /\ Recorded

-------------------------------------------------------------------------------
(* Positions and characters                                                     *)

\* A nonempty set of positions has a least one, and Min is it.
LEMMA MinIsLeast ==
    ASSUME NEW S \in SUBSET Nat, S # {}
    PROVE  Min(S) \in S /\ \A y \in S : Min(S) <= y
<1>1. PICK x \in S : \A y \in S : ~ (<<y, x>> \in OpToRel(<, Nat))
    BY NatLessThanWellFounded, WFMin
<1>2. ASSUME NEW y \in S PROVE x <= y
    <2>1. x \in Nat /\ y \in Nat
        OBVIOUS
    <2>2. ~(y < x)
        BY <1>1, <2>1 DEF OpToRel
    <2>3. QED
        BY <2>1, <2>2
<1>3. QED
    BY <1>2 DEF Min

\* A character that is something is one of the string.
LEMMA CharAtIs ==
    ASSUME NEW s \in Seq(Chars), NEW i \in Nat
    PROVE  /\ CharAt(s, i) # Nul => i \in 1..Len(s) /\ CharAt(s, i) = s[i]
           /\ i \in 1..Len(s) => CharAt(s, i) # Nul
<1>1. DOMAIN s = 1..Len(s) /\ \A k \in 1..Len(s) : s[k] \in Chars
    OBVIOUS
<1>2. QED
    BY <1>1 DEF CharAt, Chars

\* Part of a string is a string, and this long.
LEMMA PartOfText ==
    ASSUME NEW s \in Seq(Chars), NEW i \in Nat \ {0}, NEW j \in Nat, j <= Len(s)
    PROVE  /\ SubSeq(s, i, j) \in Seq(Chars)
           /\ Len(SubSeq(s, i, j)) = IF i <= j THEN j - i + 1 ELSE 0
           /\ Len(SubSeq(s, i, j)) <= Len(s)
<1>1. \A k \in i..j : s[k] \in Chars
    OBVIOUS
<1>2. Len(s) \in Nat
    OBVIOUS
<1>3. /\ SubSeq(s, i, j) \in Seq(Chars)
      /\ Len(SubSeq(s, i, j)) = IF i <= j THEN j - i + 1 ELSE 0
    BY <1>1, SubSeqProperties
<1>4. QED
    BY <1>2, <1>3

\* get_expansion_len: a reference is at least two characters of the string.
LEMMA ExpansionLenIs ==
    ASSUME NEW s \in Seq(Chars), NEW i \in 1..Len(s), IsExpansionStart(s, i)
    PROVE  GetExpansionLen(s, i) \in 2..(Len(s) + 1 - i)
<1>1. Len(s) \in Nat /\ i \in Nat /\ i + 1 \in Nat
    OBVIOUS
<1>2. CharAt(s, i + 1) \in NameBodies \cup {"?"}
    BY NamesAssumption DEF IsExpansionStart, SpecialParameters
<1>3. i + 1 \in 1..Len(s)
    <2>1. "?" # Nul
        BY Zenon DEF Nul
    <2>2. CharAt(s, i + 1) # Nul
        BY <1>2, <2>1, NamesAssumption, Zenon
    <2>3. QED
        BY <1>1, <2>2, CharAtIs
<1>4. CASE s[i + 1] \in SpecialParameters
    BY <1>1, <1>3, <1>4 DEF GetExpansionLen
<1>5. CASE s[i + 1] \notin SpecialParameters
    <2> DEFINE S == {n \in 2..(Len(s) + 1) : CharAt(s, i + n) \notin NameBodies}
    <2>1. CharAt(s, i + (Len(s) + 1 - i)) = Nul
        <3>1. i + (Len(s) + 1 - i) = Len(s) + 1
            BY <1>1
        <3>2. Len(s) + 1 \notin DOMAIN s
            BY <1>1
        <3>3. QED
            BY <3>1, <3>2 DEF CharAt
    <2>2. Len(s) + 1 - i \in S
        <3>1. Len(s) + 1 - i \in 2..(Len(s) + 1)
            BY <1>1, <1>3
        <3>2. CharAt(s, i + (Len(s) + 1 - i)) \notin NameBodies
            BY <2>1, NamesAssumption
        <3>3. QED
            BY <3>1, <3>2, Zenon
    <2>3. S \in SUBSET Nat
        BY <1>1
    <2>4. Min(S) \in S /\ Min(S) <= Len(s) + 1 - i
        BY <2>2, <2>3, MinIsLeast
    <2>5. GetExpansionLen(s, i) = Min(S)
        BY <1>5 DEF GetExpansionLen
    <2>6. QED
        BY <1>1, <2>4, <2>5
<1>6. QED
    BY <1>4, <1>5

-------------------------------------------------------------------------------
(* The lexer                                                                    *)

\* The token l is being built, and the lexer stands behind it at idx.
Built(l, idx) ==
    /\ l \in [type : {"word", "operator"}, flags : SUBSET LexFlags,
              pos : 1..Len(line), len : 1..Len(line)]
    /\ "IS_BUILDING" \in l.flags
    /\ l.pos + l.len = idx

\* The types of a line and its length, which every proof below needs.
LEMMA LineIs ==
    ASSUME LexShape
    PROVE  /\ line \in Seq(Chars) /\ Len(line) \in Nat
           /\ char_idx \in Nat \ {0} /\ char_idx <= Len(line) + 1
<1>1. line \in Seq(Chars)
    BY LinesAssumption DEF LexShape, Chars
<1>2. Len(line) \in Nat
    BY <1>1
<1>3. char_idx \in 1..(Len(line) + 1)
    BY DEF LexShape
<1>4. QED
    BY <1>1, <1>2, <1>3

\* What stands at char_idx is the end of the line or a character of it.
LEMMA HereIs ==
    ASSUME LexShape
    PROVE  /\ Here # Nul => char_idx \in 1..Len(line) /\ Here = line[char_idx]
           /\ Here = Nul => char_idx = Len(line) + 1
<1>1. /\ line \in Seq(Chars) /\ Len(line) \in Nat
      /\ char_idx \in Nat \ {0} /\ char_idx <= Len(line) + 1
    BY LineIs
<1>2. Here # Nul => char_idx \in 1..Len(line) /\ Here = line[char_idx]
    BY <1>1, CharAtIs DEF Here
<1>3. char_idx \in 1..Len(line) => Here # Nul
    BY <1>1, CharAtIs DEF Here
<1>4. QED
    BY <1>1, <1>2, <1>3

\* Going on building leaves the lexer in shape.
LEMMA BuiltShape ==
    ASSUME LexShape, TokensShape, Built(lex', char_idx'),
           char_idx' \in 1..(Len(line) + 1), UNCHANGED <<line, tokens>>
    PROVE  LexShape' /\ TokensShape'
<1>1. Len(line) \in Nat /\ lex' \in [type : {"word", "operator"}, flags : SUBSET LexFlags,
                                     pos : 1..Len(line), len : 1..Len(line)]
    BY LineIs DEF Built
<1>2. TokensShape'
    BY DEF TokensShape, Token
<1>3. lex' \in [type : {"none", "word", "operator"}, flags : SUBSET LexFlags,
                pos : 0..Len(line), len : 0..Len(line)]
    BY <1>1
<1>4. lex'.type # "none" /\ "IS_BUILDING" \in lex'.flags
    BY DEF Built
<1>5. lex'.pos >= 1 /\ lex'.len >= 1 /\ lex'.pos + lex'.len = char_idx'
    BY <1>1 DEF Built
<1>6. QED
    BY <1>2, <1>3, <1>4, <1>5 DEF LexShape, Building

\* Delimiting a token that ends in the line leaves the lexer in shape.
LEMMA DelimitShape ==
    ASSUME LexShape, TokensShape, Building, NEW n \in {0, 1},
           lex.pos + lex.len + n - 1 <= Len(line), NEW more \in SUBSET {"AT_EOI"},
           Delimit(n, more), char_idx' \in 1..(Len(line) + 1), UNCHANGED line
    PROVE  LexShape' /\ TokensShape'
<1>1. /\ Len(line) \in Nat /\ line \in Seq(Chars)
      /\ lex.pos \in Nat \ {0} /\ lex.len \in Nat \ {0}
      /\ lex.pos + lex.len + n - 1 \in Nat
    BY LineIs DEF LexShape
<1> DEFINE text == SubSeq(line, lex.pos, lex.pos + lex.len + n - 1)
           token == [type |-> lex.type, text |-> text, flags |-> lex.flags \cap TokenFlags]
<1>2. /\ text \in Seq(Chars) /\ Len(text) <= Len(line)
      /\ Len(text) = IF lex.pos <= lex.pos + lex.len + n - 1
                     THEN lex.pos + lex.len + n - 1 - lex.pos + 1 ELSE 0
    BY <1>1, PartOfText
<1>3. text # << >>
    <2>1. Len(text) > 0
        BY <1>1, <1>2
    <2> HIDE DEF text
    <2>2. QED
        BY <2>1, <1>2, EmptySeq
<1>4. token \in Token
    <2>1. lex.type \in {"word", "operator"}
        BY DEF LexShape
    <2>2. QED
        BY <2>1, <1>2 DEF Token
<1>5. tokens' = Append(tokens, token)
    BY DEF Delimit
<1>6. TokensShape'
    <2>1. tokens' \in Seq(Token)
        BY <1>4, <1>5 DEF TokensShape
    <2>2. ASSUME NEW k \in 1..Len(tokens')
          PROVE  tokens'[k].text # << >> /\ Len(tokens'[k].text) <= Len(line)
        <3>1. CASE k \in 1..Len(tokens)
            BY <1>5, <3>1 DEF TokensShape
        <3>2. CASE k = Len(tokens) + 1
            <4>1. tokens'[k] = token
                BY <1>5, <3>2 DEF TokensShape
            <4>2. QED
                BY <4>1, <1>2, <1>3
        <3>3. Len(tokens') = Len(tokens) + 1 /\ Len(tokens) \in Nat
            BY <1>5 DEF TokensShape
        <3>4. QED
            BY <3>1, <3>2, <3>3
    <2>3. QED
        BY <2>1, <2>2 DEF TokensShape
<1>7. LexShape'
    <2>1. lex' = [lex EXCEPT !.type = "none", !.len = @ + n,
                             !.flags = (@ \ {"IS_BUILDING"}) \cup more]
        BY DEF Delimit
    <2>2. lex.len + n \in 0..Len(line)
        BY <1>1
    <2>3. (lex.flags \ {"IS_BUILDING"}) \cup more \in SUBSET LexFlags
        BY DEF LexShape, LexFlags
    <2>4. lex' \in [type : {"none", "word", "operator"}, flags : SUBSET LexFlags,
                    pos : 0..Len(line), len : 0..Len(line)]
        BY <2>1, <2>2, <2>3 DEF LexShape
    <2>5. lex'.type = "none" /\ "IS_BUILDING" \notin lex'.flags
        BY <2>1 DEF LexShape
    <2>6. QED
        BY <2>4, <2>5 DEF LexShape, Building
<1>8. QED
    BY <1>6, <1>7

\* find_matched_pair ends the token behind the quote or behind its closing one.
LEMMA MatchedPairShape ==
    ASSUME LexShape, TokensShape, Here # Nul, NEW l, Built(l, char_idx + 1),
           FindMatchedPair(l), UNCHANGED <<line, tokens>>
    PROVE  LexShape' /\ TokensShape'
<1>1. /\ Len(line) \in Nat /\ char_idx \in 1..Len(line)
    BY LineIs, HereIs
<1> DEFINE closings == {j \in (char_idx + 1)..Len(line) : line[j] = Here}
           end == IF closings = {} THEN Len(line) + 1 ELSE Min(closings)
           seen == IF Here = DoubleQuote /\ \E k \in (char_idx + 1)..(end - 1) :
                                       IsExpansionStart(line, k)
                   THEN {"HAS_EXPANSION"} ELSE {}
<1>2. seen \subseteq LexFlags /\ "HAS_QUOTES" \in LexFlags
    BY DEF LexFlags, TokenFlags
<1>3. CASE closings = {}
    <2>1. lex' = [l EXCEPT !.flags = @ \cup seen] /\ char_idx' = char_idx + 1
        BY <1>3 DEF FindMatchedPair
    <2> HIDE DEF seen
    <2>2. Built(lex', char_idx')
        BY <2>1, <1>2 DEF Built
    <2>3. char_idx' \in 1..(Len(line) + 1)
        BY <2>1, <1>1
    <2>4. QED
        BY <2>2, <2>3, BuiltShape
<1>4. CASE closings # {}
    <2>1. end \in (char_idx + 1)..Len(line)
        <3>1. closings \in SUBSET Nat
            BY <1>1
        <3>2. Min(closings) \in closings
            BY <3>1, <1>4, MinIsLeast
        <3>3. QED
            BY <3>2, <1>4
    <2>2. /\ lex' = [l EXCEPT !.len = @ + end - char_idx,
                              !.flags = @ \cup seen \cup {"HAS_QUOTES"}]
          /\ char_idx' = end + 1
        BY <1>4 DEF FindMatchedPair
    <2> HIDE DEF seen, end
    <2>3. /\ l.pos \in 1..Len(line) /\ l.len \in 1..Len(line)
          /\ l.pos + l.len = char_idx + 1
        BY DEF Built
    <2>4. /\ l.len + end - char_idx \in 1..Len(line)
          /\ l.pos + (l.len + end - char_idx) = end + 1
        <3>1. \A p, k, e, c, n \in Int :
                 /\ 1 <= p /\ 1 <= k /\ p + k = c + 1
                 /\ c + 1 <= e /\ e <= n
                 => /\ 1 <= k + e - c /\ k + e - c <= n
                    /\ p + (k + e - c) = e + 1
            OBVIOUS
        <3>2. /\ l.pos \in Int /\ l.len \in Int /\ end \in Int /\ char_idx \in Int
              /\ 1 <= l.pos /\ 1 <= l.len /\ char_idx + 1 <= end /\ end <= Len(line)
            BY <2>1, <2>3, <1>1
        <3>3. QED
            BY <1>1, <2>3, <3>1, <3>2
    <2>5. Built(lex', char_idx')
        BY <2>2, <2>4, <1>2 DEF Built
    <2>6. char_idx' \in 1..(Len(line) + 1)
        BY <2>1, <2>2, <1>1
    <2>7. QED
        BY <2>5, <2>6, BuiltShape
<1>5. QED
    BY <1>3, <1>4

\* What lex and the next character give when a token goes on or begins.
LEMMA BuildingIs ==
    ASSUME LexShape, Here # Nul
    PROVE  /\ Building => Built([lex EXCEPT !.len = @ + 1], char_idx + 1)
           /\ \A t \in {"word", "operator"} : Built(StartLexToken(t), char_idx + 1)
           /\ lex.type # "none" => Building
<1>1. Len(line) \in Nat /\ char_idx \in 1..Len(line)
    BY LineIs, HereIs
<1>2. ASSUME Building PROVE Built([lex EXCEPT !.len = @ + 1], char_idx + 1)
    <2>1. /\ lex.type \in {"word", "operator"} /\ lex.pos \in 1..Len(line)
          /\ lex.len + 1 \in 1..Len(line) /\ lex.pos + (lex.len + 1) = char_idx + 1
        <3>1. /\ lex.pos \in Nat /\ lex.len \in Nat /\ char_idx \in Nat
              /\ lex.pos >= 1 /\ lex.len >= 1 /\ lex.pos + lex.len = char_idx
            BY <1>1, <1>2 DEF LexShape
        <3>2. lex.type \in {"word", "operator"}
            BY <1>2 DEF LexShape
        <3>3. QED
            BY <1>1, <3>1, <3>2
    <2>2. QED
        BY <1>2, <2>1 DEF LexShape, Built, Building
<1>3. ASSUME NEW t \in {"word", "operator"} PROVE Built(StartLexToken(t), char_idx + 1)
    <2>1. StartLexToken(t) = [type |-> t, flags |-> {"IS_BUILDING"}, pos |-> char_idx,
                              len |-> 1]
        BY DEF StartLexToken
    <2>2. {"IS_BUILDING"} \in SUBSET LexFlags /\ 1 \in 1..Len(line)
        BY <1>1 DEF LexFlags
    <2>3. StartLexToken(t) \in [type : {"word", "operator"}, flags : SUBSET LexFlags,
                                pos : 1..Len(line), len : 1..Len(line)]
        BY <1>1, <2>1, <2>2
    <2>4. QED
        BY <2>1, <2>3 DEF Built
<1>4. QED
    BY <1>2, <1>3 DEF LexShape

\* Every rule of lex_token keeps what the lexer holds in shape.
LEMMA LexTokenShape ==
    ASSUME LexShape, TokensShape, LexToken
    PROVE  LexShape' /\ TokensShape'
<1>1. /\ line \in Seq(Chars) /\ Len(line) \in Nat
      /\ char_idx \in Nat \ {0} /\ char_idx <= Len(line) + 1 /\ line' = line
      /\ char_idx \in 1..(Len(line) + 1)
    BY LineIs DEF LexToken
<1>2. Building => lex.pos + lex.len = char_idx
    BY DEF LexShape
<1>3. /\ Here # Nul => char_idx \in 1..Len(line)
      /\ Here = Nul => char_idx = Len(line) + 1
    BY HereIs
<1>4. lex.type # "none" => Building
    BY DEF LexShape
<1>5. CASE Rule1
    <2>1. char_idx' \in 1..(Len(line) + 1)
        BY <1>1, <1>5 DEF Rule1
    <2>2. CASE Building
        <3>1. Delimit(0, {"AT_EOI"})
            BY <1>5, <2>2 DEF Rule1
        <3>2. lex.pos \in Nat /\ lex.len \in Nat
            BY DEF LexShape
        <3>3. lex.pos + lex.len + 0 - 1 <= Len(line)
            BY <1>1, <1>2, <2>2, <3>2
        <3>4. QED
            BY <1>1, <2>1, <2>2, <3>1, <3>3, DelimitShape
    <2>3. CASE ~Building
        <3>1. /\ lex' = [lex EXCEPT !.flags = @ \cup {"AT_EOI"}]
              /\ tokens' = tokens
            BY <1>5, <2>3 DEF Rule1
        <3>2. "IS_BUILDING" \notin lex'.flags /\ lex'.type = lex.type
            BY <2>3, <3>1 DEF LexShape, Building
        <3>3. lex' \in [type : {"none", "word", "operator"}, flags : SUBSET LexFlags,
                        pos : 0..Len(line), len : 0..Len(line)]
            BY <3>1 DEF LexShape, LexFlags
        <3>4. LexShape'
            BY <1>1, <2>1, <2>3, <3>2, <3>3 DEF LexShape, Building
        <3>5. QED
            BY <1>1, <3>1, <3>4 DEF TokensShape
    <2>4. QED
        BY <2>2, <2>3
<1>6. CASE Rule2
    <2>1. Here # Nul /\ Building /\ char_idx' = char_idx + 1 /\ Delimit(1, {})
        BY <1>4, <1>6 DEF Rule2, OperatorGoesOn
    <2>2. lex.pos \in Nat /\ lex.len \in Nat
        BY DEF LexShape
    <2>3. lex.pos + lex.len + 1 - 1 <= Len(line) /\ char_idx' \in 1..(Len(line) + 1)
        BY <1>1, <1>2, <1>3, <2>1, <2>2
    <2>4. QED
        BY <1>1, <2>1, <2>3, DelimitShape
<1> DEFINE Ends == Building /\ lex.pos + lex.len + 0 - 1 <= Len(line)
<1>7. Building => Ends
    <2>1. lex.pos \in Nat /\ lex.len \in Nat
        BY DEF LexShape
    <2>2. QED
        BY <1>1, <1>2, <2>1
<1>8. CASE Rule3
    <2>1. Building /\ char_idx' = char_idx /\ Delimit(0, {})
        BY <1>4, <1>8 DEF Rule3
    <2>2. QED
        BY <1>1, <1>7, <2>1, DelimitShape
<1>9. CASE Rule4
    <2>1. Here # Nul
        <3>1. Nul \notin Quotes
            BY Zenon DEF Nul, Quotes, SingleQuote, DoubleQuote
        <3>2. QED
            BY <1>9, <3>1, Zenon DEF Rule4
    <2>2. tokens' = tokens
        BY <1>9 DEF Rule4
    <2>3. PICK l : Built(l, char_idx + 1) /\ FindMatchedPair(l)
        <3>1. CASE Building
            BY <1>9, <2>1, <3>1, BuildingIs DEF Rule4
        <3>2. CASE ~Building
            BY <1>9, <2>1, <3>2, BuildingIs DEF Rule4
        <3>3. QED
            BY <3>1, <3>2
    <2>4. QED
        BY <1>1, <2>1, <2>2, <2>3, MatchedPairShape
<1>10. CASE Rule5
    <2>1. IsExpansionStart(line, char_idx)
        BY <1>10 DEF Rule5
    <2>2. Here # Nul
        <3>1. "$" # Nul
            BY Zenon DEF Nul
        <3>2. QED
            BY <2>1, <3>1, Zenon DEF IsExpansionStart, Here
    <2>3. PICK len \in Nat : /\ len = GetExpansionLen(line, char_idx)
                             /\ 2 <= len /\ len <= Len(line) + 1 - char_idx
        <3>1. GetExpansionLen(line, char_idx) \in 2..(Len(line) + 1 - char_idx)
            BY <1>1, <1>3, <2>1, <2>2, ExpansionLenIs
        <3>2. QED
            BY <3>1, <1>1
    <2>4. /\ char_idx' = char_idx + len /\ tokens' = tokens
          /\ lex' = [(IF Building THEN [lex EXCEPT !.len = @ + len]
                      ELSE [StartLexToken("word") EXCEPT !.len = len])
                     EXCEPT !.flags = @ \cup {"HAS_EXPANSION"}]
        BY <1>10, <2>3 DEF Rule5
    <2>5. "HAS_EXPANSION" \in LexFlags
        BY DEF LexFlags, TokenFlags
    <2>6. Built(lex', char_idx')
        <3>1. CASE Building
            <4>1. /\ Built([lex EXCEPT !.len = @ + 1], char_idx + 1)
                  /\ lex.type \in {"word", "operator"}
                BY <2>2, <3>1, BuildingIs DEF LexShape
            <4>2. /\ lex.pos \in Nat \ {0} /\ lex.len \in Nat \ {0}
                  /\ lex.pos + lex.len = char_idx
                BY <1>2, <3>1 DEF LexShape
            <4>3. /\ lex.pos \in 1..Len(line) /\ lex.len + len \in 1..Len(line)
                  /\ lex.pos + (lex.len + len) = char_idx + len
                BY <1>1, <2>3, <4>2
            <4>4. lex' = [lex EXCEPT !.len = lex.len + len,
                                     !.flags = lex.flags \cup {"HAS_EXPANSION"}]
                BY <2>4, <3>1 DEF LexShape
            <4>5. /\ lex.flags \cup {"HAS_EXPANSION"} \in SUBSET LexFlags
                  /\ "IS_BUILDING" \in lex.flags
                BY <2>5, <3>1 DEF LexShape, Building
            <4>6. lex' = [type |-> lex.type, flags |-> lex.flags \cup {"HAS_EXPANSION"},
                          pos |-> lex.pos, len |-> lex.len + len]
                BY <4>4 DEF LexShape
            <4>7. QED
                BY <2>4, <4>1, <4>3, <4>5, <4>6 DEF Built
        <3>2. CASE ~Building
            <4>1. lex' = [type |-> "word", flags |-> {"IS_BUILDING", "HAS_EXPANSION"},
                          pos |-> char_idx, len |-> len]
                BY <2>4, <3>2 DEF StartLexToken
            <4>2. {"IS_BUILDING", "HAS_EXPANSION"} \in SUBSET LexFlags
                BY <2>5 DEF LexFlags
            <4>3. char_idx \in 1..Len(line) /\ len \in 1..Len(line)
                BY <1>1, <1>3, <2>2, <2>3
            <4>4. QED
                BY <2>4, <4>1, <4>2, <4>3 DEF Built
        <3>3. QED
            BY <3>1, <3>2
    <2>7. char_idx' \in 1..(Len(line) + 1)
        BY <1>1, <2>3, <2>4
    <2>8. QED
        BY <1>1, <2>4, <2>6, <2>7, BuiltShape
<1>11. CASE Rule6
    <2>1. CASE Building
        <3>1. Delimit(0, {}) /\ char_idx' = char_idx
            BY <1>11, <2>1 DEF Rule6
        <3>2. QED
            BY <1>1, <1>7, <2>1, <3>1, DelimitShape
    <2>2. CASE ~Building
        <3>1. Here # Nul
            <4>1. Nul \notin OperatorChars
                BY Zenon DEF Nul, OperatorChars, NewLine
            <4>2. QED
                BY <1>11, <4>1, Zenon DEF Rule6, StartsOperator
        <3>2. /\ lex' = StartLexToken("operator") /\ char_idx' = char_idx + 1
              /\ tokens' = tokens
            BY <1>11, <2>2 DEF Rule6
        <3>3. Built(lex', char_idx')
            BY <3>1, <3>2, BuildingIs
        <3>4. char_idx' \in 1..(Len(line) + 1)
            BY <1>1, <1>3, <3>1, <3>2
        <3>5. QED
            BY <1>1, <3>2, <3>3, <3>4, BuiltShape
    <2>3. QED
        BY <2>1, <2>2
<1>12. CASE Rule7
    <2>1. Here # Nul
        <3>1. Nul \notin Blanks
            BY Zenon DEF Nul, Blanks
        <3>2. QED
            BY <1>12, <3>1, Zenon DEF Rule7
    <2>2. char_idx' = char_idx + 1 /\ char_idx' \in 1..(Len(line) + 1)
        BY <1>1, <1>3, <1>12, <2>1 DEF Rule7
    <2>3. CASE Building
        <3>1. Delimit(0, {})
            BY <1>12, <2>3 DEF Rule7
        <3>2. QED
            BY <1>1, <1>7, <2>2, <2>3, <3>1, DelimitShape
    <2>4. CASE ~Building
        <3>1. lex' = lex /\ tokens' = tokens
            BY <1>12, <2>4 DEF Rule7
        <3>2. QED
            BY <1>1, <2>2, <2>4, <3>1 DEF LexShape, TokensShape, Building
    <2>5. QED
        BY <2>3, <2>4
<1>13. CASE Rule8
    <2>1. Here # Nul
        BY <1>13, Zenon DEF Rule8, Ordinary
    <2>2. /\ lex' = [lex EXCEPT !.len = @ + 1] /\ char_idx' = char_idx + 1
          /\ tokens' = tokens /\ Building
        BY <1>4, <1>13 DEF Rule8
    <2>3. Built(lex', char_idx')
        BY <2>1, <2>2, BuildingIs
    <2>4. char_idx' \in 1..(Len(line) + 1)
        BY <1>1, <1>3, <2>1, <2>2
    <2>5. QED
        BY <1>1, <2>2, <2>3, <2>4, BuiltShape
<1>14. CASE Rule9
    <2> DEFINE S == {i \in char_idx..(Len(line) + 1) : CharAt(line, i) \in {Nul, NewLine}}
    <2>1. Len(line) + 1 \in S
        <3>1. Len(line) + 1 \notin DOMAIN line
            BY <1>1
        <3>2. CharAt(line, Len(line) + 1) = Nul
            BY <3>1 DEF CharAt
        <3>3. QED
            BY <1>1, <3>2
    <2>2. S \in SUBSET Nat
        BY <1>1
    <2>3. Min(S) \in S
        BY <2>1, <2>2, MinIsLeast
    <2>4. char_idx' = Min(S) /\ lex' = lex /\ tokens' = tokens
        BY <1>14 DEF Rule9
    <2>5. char_idx' \in 1..(Len(line) + 1)
        BY <1>1, <2>3, <2>4
    <2>6. lex.type = "none" /\ ~Building
        BY <1>14 DEF Rule9, LexShape
    <2>7. QED
        BY <1>1, <2>4, <2>5, <2>6 DEF LexShape, TokensShape, Building
<1>15. CASE Rule10
    <2>1. Here # Nul
        BY <1>15, Zenon DEF Rule10, Ordinary
    <2>2. /\ lex' = StartLexToken("word") /\ char_idx' = char_idx + 1
          /\ tokens' = tokens
        BY <1>15 DEF Rule10
    <2>3. Built(lex', char_idx')
        BY <2>1, <2>2, BuildingIs
    <2>4. char_idx' \in 1..(Len(line) + 1)
        BY <1>1, <1>3, <2>1, <2>2
    <2>5. QED
        BY <1>1, <2>2, <2>3, <2>4, BuiltShape
<1>16. QED
    BY <1>5, <1>6, <1>8, <1>9, <1>10, <1>11, <1>12, <1>13, <1>14, <1>15 DEF LexToken

-------------------------------------------------------------------------------
(* Strings of the buffer                                                        *)

\* The first n characters of b are in c, too.
Kept(b, c, n) == n <= Len(b) /\ n <= Len(c) /\ \A i \in 1..n : c[i] = b[i]

\* A string that ends in the part that is kept stays the string it is.
LEMMA StringKept ==
    ASSUME NEW b \in Seq(Bytes), NEW c \in Seq(Bytes), NEW n \in Nat, Kept(b, c, n),
           NEW o \in Nat, NEW e \in (o + 1)..n, b[e] = Nul
    PROVE  StringAt(c, o) = StringAt(b, o)
<1> DEFINE S(t) == {k \in (o + 1)..Len(t) : t[k] = Nul}
<1>1. /\ Len(b) \in Nat /\ Len(c) \in Nat /\ n <= Len(b) /\ n <= Len(c)
      /\ e \in Nat /\ o + 1 <= e /\ e <= n
    BY DEF Kept
<1>2. \A i \in 1..n : c[i] = b[i]
    BY DEF Kept
<1>3. e \in S(b) /\ e \in S(c)
    BY <1>1, <1>2
<1>4. S(b) \in SUBSET Nat /\ S(c) \in SUBSET Nat
    BY <1>1
<1>5. /\ Min(S(b)) \in S(b) /\ \A y \in S(b) : Min(S(b)) <= y
      /\ Min(S(c)) \in S(c) /\ \A y \in S(c) : Min(S(c)) <= y
    BY <1>3, <1>4, MinIsLeast
<1>6. PICK m \in Nat : m = Min(S(b)) /\ m \in S(b) /\ m <= e /\ \A y \in S(b) : m <= y
    BY <1>3, <1>4, <1>5
<1>7. PICK p \in Nat : p = Min(S(c)) /\ p \in S(c) /\ p <= e /\ \A y \in S(c) : p <= y
    BY <1>3, <1>4, <1>5
<1>8. m \in S(c)
    BY <1>1, <1>2, <1>6
<1>9. p \in S(b)
    BY <1>1, <1>2, <1>7
<1>10. m = p
    BY <1>6, <1>7, <1>8, <1>9
<1>11. SubSeq(c, o + 1, m - 1) = SubSeq(b, o + 1, m - 1)
    <2>1. o + 1 \in Int /\ m - 1 \in Int /\ o + 1 <= m /\ m <= n
        BY <1>1, <1>6
    <2>2. \A i \in (o + 1)..(m - 1) : b[i] \in Bytes /\ c[i] \in Bytes /\ c[i] = b[i]
        BY <1>1, <1>2, <2>1
    <2>3. /\ SubSeq(b, o + 1, m - 1) \in Seq(Bytes)
          /\ Len(SubSeq(b, o + 1, m - 1))
                = IF o + 1 <= m - 1 THEN m - 1 - (o + 1) + 1 ELSE 0
          /\ \A i \in 1..(m - 1 - (o + 1) + 1) :
                SubSeq(b, o + 1, m - 1)[i] = b[o + 1 + i - 1]
        BY <2>1, <2>2, SubSeqProperties
    <2>4. /\ SubSeq(c, o + 1, m - 1) \in Seq(Bytes)
          /\ Len(SubSeq(c, o + 1, m - 1))
                = IF o + 1 <= m - 1 THEN m - 1 - (o + 1) + 1 ELSE 0
          /\ \A i \in 1..(m - 1 - (o + 1) + 1) :
                SubSeq(c, o + 1, m - 1)[i] = c[o + 1 + i - 1]
        BY <2>1, <2>2, SubSeqProperties
    <2> DEFINE B == SubSeq(b, o + 1, m - 1)
               D == SubSeq(c, o + 1, m - 1)
    <2>5. ASSUME NEW i \in 1..Len(D) PROVE D[i] = B[i]
        <3>1. i \in 1..(m - 1 - (o + 1) + 1) /\ o + 1 + i - 1 \in (o + 1)..(m - 1)
            BY <1>1, <2>1, <2>4
        <3>2. D[i] = c[o + 1 + i - 1] /\ B[i] = b[o + 1 + i - 1]
            BY <2>3, <2>4, <3>1
        <3>3. QED
            BY <2>2, <3>1, <3>2
    <2>6. B \in Seq(Bytes) /\ D \in Seq(Bytes) /\ Len(D) = Len(B)
        BY <2>3, <2>4
    <2> HIDE DEF B, D
    <2>7. D = B
        BY <2>5, <2>6, SeqEqual
    <2>8. QED
        BY <2>7 DEF B, D
<1>12. QED
    BY <1>6, <1>7, <1>10, <1>11 DEF StringAt

\* The limit lies in the buffer.
LEMMA LimitIs ==
    ASSUME BufferShape
    PROVE  /\ Limit \in Nat /\ Limit <= Len(buf) /\ Len(buf) \in Nat
           /\ Writing => Limit = exp.pos /\ Limit < Len(buf)
           /\ ~Writing => Limit = Len(buf)
BY DEF BufferShape, Limit

\* Places keep their ends and their texts when the part before the limit is kept.
LEMMA PlacesKept ==
    ASSUME NEW refs \in Seq(Places), NEW b \in Seq(Bytes), NEW c \in Seq(Bytes),
           NEW n \in Nat, NEW m \in Nat, n <= m, Kept(b, c, n), AllEnded(refs, b, n)
    PROVE  /\ AllEnded(refs, c, m)
           /\ \A k \in 1..Len(refs) : TextOf(refs[k], c) = TextOf(refs[k], b)
<1>1. ASSUME NEW k \in 1..Len(refs)
      PROVE  Ended(refs[k], c, m) /\ TextOf(refs[k], c) = TextOf(refs[k], b)
    <2>1. refs[k] \in Places
        OBVIOUS
    <2>2. CASE refs[k].arena = "STRING"
        BY <2>2 DEF Ended, TextOf
    <2>3. CASE refs[k].arena = "FIELDS"
        <3>1. refs[k].at \in Nat
            BY <2>1, <2>3 DEF Places
        <3>2. PICK e \in (refs[k].at + 1)..n : b[e] = Nul
            BY <2>3 DEF AllEnded, Ended
        <3>3. c[e] = Nul /\ e \in (refs[k].at + 1)..m
            BY <3>1, <3>2 DEF Kept
        <3>4. StringAt(c, refs[k].at) = StringAt(b, refs[k].at)
            BY <3>1, <3>2, StringKept
        <3>5. QED
            BY <2>3, <3>3, <3>4 DEF Ended, TextOf
    <2>4. QED
        BY <2>1, <2>2, <2>3 DEF Places
<1>2. QED
    BY <1>1 DEF AllEnded

\* One more place that has its end.
LEMMA PlaceAdded ==
    ASSUME NEW refs \in Seq(Places), NEW b, NEW n, NEW r \in Places,
           AllEnded(refs, b, n), Ended(r, b, n)
    PROVE  /\ Append(refs, r) \in Seq(Places)
           /\ AllEnded(Append(refs, r), b, n)
           /\ Len(Append(refs, r)) = Len(refs) + 1
           /\ \A k \in 1..Len(refs) : Append(refs, r)[k] = refs[k]
<1>1. /\ Append(refs, r) \in Seq(Places)
      /\ Len(Append(refs, r)) = Len(refs) + 1
      /\ \A k \in 1..Len(refs) : Append(refs, r)[k] = refs[k]
      /\ Append(refs, r)[Len(refs) + 1] = r
    BY AppendProperties
<1>2. Len(refs) \in Nat
    OBVIOUS
<1>3. ASSUME NEW k \in 1..(Len(refs) + 1) PROVE Ended(Append(refs, r)[k], b, n)
    <2>1. CASE k \in 1..Len(refs)
        BY <1>1, <2>1 DEF AllEnded
    <2>2. CASE k = Len(refs) + 1
        BY <1>1, <2>2
    <2>3. QED
        BY <1>2, <2>1, <2>2
<1>4. QED
    BY <1>1, <1>3 DEF AllEnded

-------------------------------------------------------------------------------
(* Appending to a field                                                         *)

\* append_field writes behind the limit only; the field goes on there.
LEMMA AppendFieldShape ==
    ASSUME BufferShape, step = "word", NEW s \in Seq(Chars), AppendField(s)
    PROVE  /\ buf' \in Seq(Bytes) /\ buf'[Len(buf')] = Nul
           /\ exp' \in [pos : Nat, len : Nat, flags : SUBSET ExpFlags]
           /\ "HAS_FIELD" \in exp'.flags
           /\ exp'.pos = Limit /\ exp'.pos < Len(buf') /\ Len(s) <= exp'.len
           /\ Kept(buf, buf', Limit)
<1>1. /\ Limit \in Nat /\ Limit <= Len(buf) /\ Len(buf) \in Nat
      /\ Has("HAS_FIELD") => Limit = exp.pos /\ Limit < Len(buf)
      /\ ~Has("HAS_FIELD") => Limit = Len(buf)
    BY LimitIs DEF Writing
<1>2. /\ buf \in Seq(Bytes) /\ s \in Seq(Bytes) /\ <<Nul>> \in Seq(Bytes)
      /\ Len(s) \in Nat /\ Len(<<Nul>>) = 1 /\ <<Nul>>[1] = Nul
      /\ exp \in [pos : Nat, len : Nat, flags : SUBSET ExpFlags]
      /\ "HAS_FIELD" \in ExpFlags
    <2>1. Nul \in Bytes
        BY DEF Bytes
    <2>2. s \in Seq(Bytes)
        BY DEF Bytes
    <2>3. QED
        BY <2>1, <2>2 DEF BufferShape, ExpFlags
<1> DEFINE Grown(b) == (b \o s) \o <<Nul>>
<1>3. ASSUME NEW b \in Seq(Bytes)
      PROVE  /\ Grown(b) \in Seq(Bytes)
             /\ Len(Grown(b)) = Len(b) + Len(s) + 1
             /\ Grown(b)[Len(Grown(b))] = Nul
             /\ \A i \in 1..Len(b) : Grown(b)[i] = b[i]
    <2>1. /\ b \o s \in Seq(Bytes) /\ Len(b \o s) = Len(b) + Len(s)
          /\ \A i \in 1..Len(b) + Len(s) : (b \o s)[i] =
                IF i <= Len(b) THEN b[i] ELSE s[i - Len(b)]
        BY <1>2, ConcatProperties
    <2>2. Len(b) \in Nat
        OBVIOUS
    <2> DEFINE t == b \o s
    <2> HIDE DEF t
    <2>3. /\ t \o <<Nul>> \in Seq(Bytes) /\ Len(t \o <<Nul>>) = Len(t) + 1
          /\ \A i \in 1..Len(t) + 1 : (t \o <<Nul>>)[i] =
                IF i <= Len(t) THEN t[i] ELSE <<Nul>>[i - Len(t)]
        BY <1>2, <2>1, ConcatProperties DEF t
    <2>4. Len(t) = Len(b) + Len(s) /\ \A i \in 1..Len(b) : t[i] = b[i]
        BY <1>2, <2>1, <2>2 DEF t
    <2>5. /\ (t \o <<Nul>>)[Len(t) + 1] = Nul
          /\ \A i \in 1..Len(b) : (t \o <<Nul>>)[i] = b[i]
        <3>1. Len(t) + 1 - Len(t) = 1 /\ Len(t) + 1 \in 1..(Len(t) + 1)
              /\ ~(Len(t) + 1 <= Len(t))
            BY <1>2, <2>2, <2>4
        <3>2. (t \o <<Nul>>)[Len(t) + 1] = <<Nul>>[1]
            BY <2>3, <3>1
        <3>3. ASSUME NEW i \in 1..Len(b) PROVE (t \o <<Nul>>)[i] = b[i]
            <4>1. i \in 1..Len(t) + 1 /\ i <= Len(t)
                BY <1>2, <2>2, <2>4
            <4>2. QED
                BY <2>3, <2>4, <4>1
        <3>4. QED
            BY <1>2, <3>2, <3>3
    <2>6. QED
        BY <2>3, <2>4, <2>5 DEF t
<1> HIDE DEF Grown
<1>4. CASE ~Has("HAS_FIELD")
    <2>1. /\ exp' = [pos |-> Len(buf), len |-> Len(s),
                     flags |-> exp.flags \cup {"HAS_FIELD"}]
          /\ buf' = Grown(buf)
        BY <1>4 DEF AppendField, Grown
    <2>2. /\ exp' \in [pos : Nat, len : Nat, flags : SUBSET ExpFlags]
          /\ "HAS_FIELD" \in exp'.flags
        BY <1>1, <1>2, <2>1
    <2>3. exp'.pos = Limit /\ exp'.pos < Len(buf') /\ Len(s) <= exp'.len
        BY <1>1, <1>2, <1>3, <1>4, <2>1
    <2>4. Kept(buf, buf', Limit)
        BY <1>1, <1>2, <1>3, <1>4, <2>1 DEF Kept
    <2>5. QED
        BY <1>2, <1>3, <2>1, <2>2, <2>3, <2>4
<1>5. CASE Has("HAS_FIELD") /\ s = << >>
    <2>1. exp' = exp /\ buf' = buf /\ Len(s) = 0
        BY <1>5 DEF AppendField
    <2>2. buf # << >>
        BY <1>1, <1>5
    <2>3. /\ buf'[Len(buf')] = Nul /\ "HAS_FIELD" \in exp'.flags
        BY <1>5, <2>1, <2>2 DEF BufferShape, Has
    <2>4. Kept(buf, buf', Limit)
        BY <1>1, <2>1 DEF Kept
    <2>5. exp'.pos = Limit /\ exp'.pos < Len(buf') /\ Len(s) <= exp'.len
        BY <1>1, <1>2, <1>5, <2>1
    <2>6. QED
        BY <1>2, <2>1, <2>3, <2>4, <2>5
<1>6. CASE Has("HAS_FIELD") /\ s # << >>
    <2>1. exp' = [exp EXCEPT !.len = @ + Len(s)] /\ buf' = Grown(Front(buf))
        BY <1>6 DEF AppendField, Grown
    <2>2. /\ Front(buf) \in Seq(Bytes) /\ Len(Front(buf)) = Len(buf) - 1
          /\ \A i \in 1..(Len(buf) - 1) : Front(buf)[i] = buf[i]
        <3>1. /\ 1 \in Int /\ Len(buf) - 1 \in Int /\ Limit < Len(buf)
              /\ \A i \in 1..(Len(buf) - 1) : buf[i] \in Bytes
            BY <1>1, <1>2, <1>6
        <3>2. /\ SubSeq(buf, 1, Len(buf) - 1) \in Seq(Bytes)
              /\ Len(SubSeq(buf, 1, Len(buf) - 1))
                    = IF 1 <= Len(buf) - 1 THEN Len(buf) - 1 - 1 + 1 ELSE 0
              /\ \A i \in 1..(Len(buf) - 1 - 1 + 1) :
                    SubSeq(buf, 1, Len(buf) - 1)[i] = buf[1 + i - 1]
            BY <3>1, SubSeqProperties
        <3>3. Front(buf) = SubSeq(buf, 1, Len(buf) - 1)
            BY DEF Front
        <3>4. Len(buf) - 1 - 1 + 1 = Len(buf) - 1 /\ \A i \in 1..(Len(buf) - 1) : 1 + i - 1 = i
            BY <1>1
        <3>5. Len(Front(buf)) = Len(buf) - 1 /\ Front(buf) \in Seq(Bytes)
            <4>1. Len(buf) >= 1
                BY <1>1, <3>1
            <4>2. Len(SubSeq(buf, 1, Len(buf) - 1)) = Len(buf) - 1
                <5>1. CASE 1 <= Len(buf) - 1
                    BY <1>1, <3>2, <4>1, <5>1
                <5>2. CASE ~(1 <= Len(buf) - 1)
                    <6>1. SubSeq(buf, 1, Len(buf) - 1) = << >>
                        BY <1>1, <4>1, <5>2, SubSeqEmpty
                    <6>2. Len(buf) - 1 = 0
                        <7>1. \A n \in Nat : n >= 1 /\ ~(1 <= n - 1) => n - 1 = 0
                            OBVIOUS
                        <7>2. QED
                            BY <1>1, <4>1, <5>2, <7>1, Zenon
                    <6>3. QED
                        BY <6>1, <6>2
                <5>3. QED
                    BY <5>1, <5>2
            <4>3. QED
                BY <3>2, <3>3, <4>2, Zenon
        <3>6. ASSUME NEW i \in 1..(Len(buf) - 1) PROVE Front(buf)[i] = buf[i]
            BY <3>2, <3>3, <3>4
        <3>7. QED
            BY <3>5, <3>6
    <2>3. /\ exp' \in [pos : Nat, len : Nat, flags : SUBSET ExpFlags]
          /\ exp'.flags = exp.flags /\ exp'.pos = exp.pos /\ exp'.len = exp.len + Len(s)
        BY <1>2, <2>1
    <2>4. "HAS_FIELD" \in exp'.flags
        BY <1>6, <2>3 DEF Has
    <2>5. exp.len \in Nat /\ Len(s) <= exp'.len
        BY <1>2, <2>3
    <2>6. Len(buf') = Len(buf) + Len(s)
        BY <1>1, <1>2, <1>3, <2>1, <2>2
    <2>7. exp'.pos = Limit /\ exp'.pos < Len(buf')
        BY <1>1, <1>2, <1>6, <2>3, <2>6
    <2>8. Kept(buf, buf', Limit)
        <3>1. ASSUME NEW i \in 1..Limit PROVE buf'[i] = buf[i]
            <4>1. i \in 1..(Len(buf) - 1)
                BY <1>1, <1>6
            <4>2. QED
                BY <1>3, <2>1, <2>2, <4>1
        <3>2. QED
            BY <1>1, <1>2, <2>6, <3>1 DEF Kept
    <2>9. QED
        BY <1>3, <2>1, <2>2, <2>3, <2>4, <2>5, <2>7, <2>8
<1>7. QED
    BY <1>4, <1>5, <1>6

-------------------------------------------------------------------------------
(* What every step keeps                                                        *)

\* The places that were recorded are recorded still, and their strings stand.
Stands ==
    /\ Kept(buf, buf', Limit)
    /\ Limit <= Limit'
    /\ \A k \in (1..Len(slots)) \cap (1..Len(slots')) : slots'[k] = slots[k]
    /\ Len(targets) <= Len(targets')
    /\ \A k \in 1..Len(targets) : targets'[k] = targets[k]

\* A step after which they stand keeps their texts.
LEMMA StandsKeepsTexts ==
    ASSUME BufferShape, Recorded, BufferShape', Recorded', Stands
    PROVE  /\ \A k \in DOMAIN slots \cap DOMAIN slots' :
                 TextOf(slots'[k], buf') = TextOf(slots[k], buf)
           /\ \A k \in DOMAIN targets : TextOf(targets'[k], buf') = TextOf(targets[k], buf)
<1>1. /\ Limit \in Nat /\ Limit' \in Nat /\ Limit <= Limit'
      /\ buf \in Seq(Bytes) /\ buf' \in Seq(Bytes) /\ Kept(buf, buf', Limit)
    <2>1. Limit \in Nat /\ Limit' \in Nat
        BY DEF BufferShape, Limit
    <2>2. QED
        BY <2>1 DEF BufferShape, Stands
<1>2. /\ slots \in Seq(Places) /\ targets \in Seq(Places) /\ slots' \in Seq(Places)
      /\ AllEnded(slots, buf, Limit) /\ AllEnded(targets, buf, Limit)
    BY DEF Recorded
<1>3. /\ \A k \in 1..Len(slots) : TextOf(slots[k], buf') = TextOf(slots[k], buf)
      /\ \A k \in 1..Len(targets) : TextOf(targets[k], buf') = TextOf(targets[k], buf)
    BY <1>1, <1>2, PlacesKept
<1>4. DOMAIN slots = 1..Len(slots) /\ DOMAIN slots' = 1..Len(slots')
      /\ DOMAIN targets = 1..Len(targets)
    BY <1>2
<1>5. QED
    BY <1>3, <1>4 DEF Stands

\* The places recorded so far have their ends after a step that keeps them.
LEMMA StillEnded ==
    ASSUME BufferShape, Recorded, buf' \in Seq(Bytes), Kept(buf, buf', Limit),
           Limit' \in Nat, Limit <= Limit'
    PROVE  AllEnded(slots, buf', Limit') /\ AllEnded(targets, buf', Limit')
<1>1. Limit \in Nat /\ buf \in Seq(Bytes)
    BY LimitIs DEF BufferShape
<1>2. /\ slots \in Seq(Places) /\ targets \in Seq(Places)
      /\ AllEnded(slots, buf, Limit) /\ AllEnded(targets, buf, Limit)
    BY DEF Recorded
<1>3. QED
    BY <1>1, <1>2, PlacesKept

\* A step that records nothing, and keeps what is recorded.
LEMMA NothingRecorded ==
    ASSUME BufferShape, Recorded, BufferShape', Kept(buf, buf', Limit),
           Limit <= Limit', UNCHANGED <<slots, base, targets>>
    PROVE  Recorded' /\ Stands
<1>1. Limit' \in Nat /\ buf' \in Seq(Bytes)
    BY DEF BufferShape, Limit
<1>2. AllEnded(slots, buf', Limit') /\ AllEnded(targets, buf', Limit')
    BY <1>1, StillEnded
<1>3. Len(targets) \in Nat
    BY DEF Recorded
<1>4. AllEnded(slots, buf, Limit)' /\ AllEnded(targets, buf, Limit)'
    BY <1>2
<1>5. Recorded'
    BY <1>4 DEF Recorded
<1>6. Stands
    BY <1>3 DEF Stands
<1>7. QED
    BY <1>5, <1>6

\* What a step of build_command leaves alone while it scans a word or cuts a value.
LEMMA WordIs ==
    ASSUME WordsShape, words # << >>
    PROVE  /\ Word.text \in Seq(Chars) /\ Len(Word.text) \in Nat
           /\ Len(Word.text) <= Len(line)
           /\ Word.redir \in BOOLEAN /\ Word.scan \in BOOLEAN
           /\ Len(words) >= 1
<1>1. words \in Seq([redir : BOOLEAN, text : Seq(Chars), scan : BOOLEAN])
    BY DEF WordsShape
<1>2. Len(words) >= 1 /\ Word = words[1] /\ 1 \in 1..Len(words)
    BY <1>1 DEF Word
<1>3. Word \in [redir : BOOLEAN, text : Seq(Chars), scan : BOOLEAN]
    <2>1. words[1] \in [redir : BOOLEAN, text : Seq(Chars), scan : BOOLEAN]
        BY <1>1, <1>2, ElementOfSeq
    <2>2. QED
        BY <1>2, <2>1, Zenon
<1>4. Len(Word.text) <= Len(line)
    BY <1>2 DEF WordsShape
<1>5. QED
    BY <1>2, <1>3, <1>4

-------------------------------------------------------------------------------
(* scan_word                                                                    *)

\* What a step of the scan does to the buffer and to the word.
Scans ==
    /\ BufferShape' /\ Kept(buf, buf', Limit) /\ Limit <= Limit'
    /\ src' \in 1..(Len(Word.text) + 1)
    /\ step' \in {"word", "segment"}

\* Such a step keeps the invariant.
LEMMA ScansKeeps ==
    ASSUME ExpInv, step = "word", Scans,
           UNCHANGED <<lexVars, value, words, slots, base, targets>>
    PROVE  ExpInv' /\ Stands
<1>1. words # << >>
    BY DEF ExpInv, WordsShape, Scanning
<1>2. Word.text \in Seq(Chars) /\ Len(Word.text) \in Nat /\ Len(Word.text) <= Len(line)
    BY <1>1, WordIs DEF ExpInv
<1>3. Len(line) \in Nat
    BY LineIs DEF ExpInv
<1>4. LexShape' /\ TokensShape' /\ value' \in Values \cup {NoValue}
    BY DEF ExpInv, LexShape, TokensShape, lexVars, Building
<1>5. step' \in Steps /\ step' # "lex"
    BY DEF Scans, Steps
<1>6. WordsShape'
    <2>1. src' \in 1..(Len(line) + 1) /\ src' <= Len(Word.text) + 1
        BY <1>2, <1>3 DEF Scans
    <2>2. Word' = Word /\ line' = line /\ words' = words
        BY DEF Word, lexVars
    <2>3. QED
        BY <1>1, <2>1, <2>2 DEF ExpInv, WordsShape
<1>7. Recorded' /\ Stands
    BY NothingRecorded DEF ExpInv, Scans
<1>8. QED
    BY <1>4, <1>5, <1>6, <1>7 DEF ExpInv, Scans

\* Appending text to the field, without a value to cut.
LEMMA AppendScans ==
    ASSUME BufferShape, step = "word", NEW s \in Seq(Chars), AppendField(s),
           UNCHANGED <<step, seg>>
    PROVE  BufferShape' /\ Kept(buf, buf', Limit) /\ Limit <= Limit'
<1>1. /\ buf' \in Seq(Bytes) /\ buf'[Len(buf')] = Nul
      /\ exp' \in [pos : Nat, len : Nat, flags : SUBSET ExpFlags]
      /\ "HAS_FIELD" \in exp'.flags
      /\ exp'.pos = Limit /\ exp'.pos < Len(buf')
      /\ Kept(buf, buf', Limit)
    BY AppendFieldShape
<1>2. Limit \in Nat /\ Len(buf') \in Nat
    BY <1>1, LimitIs
<1>3. Limit' = exp'.pos
    BY <1>1 DEF Limit, Writing, Has
<1>4. exp'.pos <= Len(buf')
    BY <1>1, <1>2
<1>5. seg' \in [i : Nat, span : Nat] /\ step' # "segment"
    BY DEF BufferShape
<1>6. BufferShape'
    BY <1>1, <1>4, <1>5 DEF BufferShape
<1>7. QED
    BY <1>1, <1>2, <1>3, <1>6

\* The value of a variable, which is not empty, begins at or behind the field.
LEMMA SegmentScans ==
    ASSUME BufferShape, step = "word", NEW s \in Seq(Chars), AppendSegment(s)
    PROVE  /\ BufferShape' /\ Kept(buf, buf', Limit) /\ Limit <= Limit'
           /\ step' = "segment"
<1>1. /\ AppendField(s) /\ step' = "segment"
      /\ seg' = [i |-> exp'.pos + exp'.len - Len(s),
                 span |-> exp'.pos + exp'.len - Len(s)]
    BY DEF AppendSegment
<1>2. /\ buf' \in Seq(Bytes) /\ buf'[Len(buf')] = Nul
      /\ exp' \in [pos : Nat, len : Nat, flags : SUBSET ExpFlags]
      /\ "HAS_FIELD" \in exp'.flags
      /\ exp'.pos = Limit /\ exp'.pos < Len(buf') /\ Len(s) <= exp'.len
      /\ Kept(buf, buf', Limit)
    BY <1>1, AppendFieldShape
<1>3. /\ Limit \in Nat /\ Len(buf') \in Nat /\ Len(s) \in Nat
      /\ exp'.pos \in Nat /\ exp'.len \in Nat
    BY <1>2, LimitIs
<1>4. /\ exp'.pos + exp'.len - Len(s) \in Nat
      /\ exp'.pos <= exp'.pos + exp'.len - Len(s)
      /\ exp'.pos <= Len(buf')
    BY <1>2, <1>3
<1>5. seg' \in [i : Nat, span : Nat] /\ exp'.pos <= seg'.i
    BY <1>1, <1>4
<1>6. BufferShape'
    BY <1>2, <1>4, <1>5 DEF BufferShape
<1>7. Limit' = exp'.pos
    BY <1>1 DEF Limit, Writing
<1>8. QED
    BY <1>1, <1>2, <1>3, <1>6, <1>7

\* A change of the quotation the scan stands in.
LEMMA FlagsScan ==
    ASSUME BufferShape, step = "word", UNCHANGED <<step, seg, buf>>,
           NEW f \in SUBSET ExpFlags, exp' = [exp EXCEPT !.flags = f],
           "HAS_FIELD" \in f <=> Has("HAS_FIELD")
    PROVE  BufferShape' /\ Kept(buf, buf', Limit) /\ Limit <= Limit'
<1>1. /\ exp' \in [pos : Nat, len : Nat, flags : SUBSET ExpFlags]
      /\ exp'.pos = exp.pos /\ exp'.flags = f
    BY DEF BufferShape
<1>2. Writing' <=> Writing
    BY <1>1 DEF Writing, Has
<1>3. Limit' = Limit
    BY <1>1, <1>2 DEF Limit
<1>4. Limit \in Nat /\ Limit <= Len(buf)
    BY LimitIs
<1>5. BufferShape'
    BY <1>1, <1>2 DEF BufferShape
<1>6. Kept(buf, buf', Limit)
    BY <1>4 DEF Kept
<1>7. QED
    BY <1>3, <1>4, <1>5, <1>6

\* A quotation begins a field at the end of the buffer or goes on with one.
LEMMA OpenQuoteScans ==
    ASSUME BufferShape, step = "word", OpenQuote
    PROVE  BufferShape' /\ Kept(buf, buf', Limit) /\ Limit <= Limit'
<1>1. PICK q \in {"IN_SQUOTE", "IN_DQUOTE"} :
         q = IF C = SingleQuote THEN "IN_SQUOTE" ELSE "IN_DQUOTE"
    BY Zenon
<1>2. UNCHANGED <<step, seg>>
    BY DEF OpenQuote
<1>3. exp \in [pos : Nat, len : Nat, flags : SUBSET ExpFlags]
    BY DEF BufferShape
<1>4. CASE Has("HAS_FIELD")
    <2>1. exp' = [exp EXCEPT !.flags = exp.flags \cup {q}] /\ buf' = buf
        BY <1>1, <1>3, <1>4 DEF OpenQuote
    <2>2. exp.flags \cup {q} \in SUBSET ExpFlags
        BY <1>3 DEF ExpFlags
    <2>3. QED
        BY <1>2, <1>4, <2>1, <2>2, FlagsScan DEF Has
<1>5. CASE ~Has("HAS_FIELD")
    <2>1. /\ exp' = [pos |-> Len(buf), len |-> 0,
                     flags |-> exp.flags \cup {"HAS_FIELD"} \cup {q}]
          /\ buf' = Append(buf, Nul)
        BY <1>1, <1>5 DEF OpenQuote
    <2>2. exp.flags \cup {"HAS_FIELD"} \cup {q} \in SUBSET ExpFlags
        BY <1>3 DEF ExpFlags
    <2>3. /\ buf' \in Seq(Bytes) /\ Len(buf') = Len(buf) + 1 /\ Len(buf) \in Nat
          /\ buf'[Len(buf) + 1] = Nul /\ \A i \in 1..Len(buf) : buf'[i] = buf[i]
        <3>1. buf \in Seq(Bytes) /\ Nul \in Bytes
            BY DEF BufferShape, Bytes
        <3>2. QED
            BY <2>1, <3>1, AppendProperties
    <2>4. Limit = Len(buf)
        BY <1>5 DEF Limit, Writing
    <2>5. Limit' = Len(buf)
        BY <2>1 DEF Limit, Writing, Has
    <2>6. Kept(buf, buf', Limit)
        BY <2>3, <2>4 DEF Kept
    <2>7. /\ exp' \in [pos : Nat, len : Nat, flags : SUBSET ExpFlags]
          /\ exp'.pos <= Len(buf') /\ exp'.pos < Len(buf')
        BY <2>1, <2>2, <2>3
    <2>8. buf'[Len(buf')] = Nul
        BY <2>3
    <2>9. BufferShape'
        BY <1>2, <2>3, <2>7, <2>8 DEF BufferShape
    <2>10. QED
        BY <2>3, <2>4, <2>5, <2>6, <2>9
<1>6. QED
    BY <1>4, <1>5

\* The characters up to the first of some places, and where the scan goes on.
LEMMA RunIs ==
    ASSUME NEW stops \in SUBSET Rest, Word.text \in Seq(Chars), src \in 1..Len(Word.text)
    PROVE  Run(stops) \in Seq(Chars) /\ src + Len(Run(stops)) \in 1..(Len(Word.text) + 1)
<1>1. Len(Word.text) \in Nat
    OBVIOUS
<1>2. PICK j \in Nat : /\ src <= j + 1 /\ j <= Len(Word.text)
                       /\ j = IF stops = {} THEN Len(Word.text) ELSE Min(stops) - 1
    <2>1. CASE stops = {}
        BY <1>1, <2>1
    <2>2. CASE stops # {}
        <3>1. stops \in SUBSET Nat
            BY <1>1 DEF Rest
        <3>2. Min(stops) \in stops
            BY <2>2, <3>1, MinIsLeast
        <3>3. Min(stops) \in src..Len(Word.text)
            BY <3>2 DEF Rest
        <3>4. /\ Min(stops) - 1 \in Nat /\ src <= Min(stops) - 1 + 1
              /\ Min(stops) - 1 <= Len(Word.text)
            BY <1>1, <3>3
        <3>5. QED
            BY <2>2, <3>4
    <2>3. QED
        BY <2>1, <2>2
<1>3. Run(stops) = SubSeq(Word.text, src, j)
    BY <1>2 DEF Run
<1>4. src \in Nat \ {0}
    BY <1>1
<1>5. /\ Run(stops) \in Seq(Chars)
      /\ Len(Run(stops)) = IF src <= j THEN j - src + 1 ELSE 0
    BY <1>2, <1>3, <1>4, PartOfText
<1>6. src + Len(Run(stops)) \in 1..(Len(Word.text) + 1)
    <2>1. CASE src <= j
        BY <1>1, <1>2, <1>4, <1>5, <2>1
    <2>2. CASE ~(src <= j)
        BY <1>1, <1>2, <1>4, <1>5, <2>2
    <2>3. QED
        BY <2>1, <2>2
<1>7. QED
    BY <1>5, <1>6

\* Text that stands in the word as itself.
LEMMA AppendRunScans ==
    ASSUME BufferShape, step = "word", NEW stops \in SUBSET Rest,
           Word.text \in Seq(Chars), src \in 1..Len(Word.text), AppendRun(stops)
    PROVE  Scans
<1>1. Run(stops) \in Seq(Chars) /\ src + Len(Run(stops)) \in 1..(Len(Word.text) + 1)
    BY RunIs
<1>2. AppendField(Run(stops)) /\ src' = src + Len(Run(stops)) /\ UNCHANGED <<step, seg>>
    BY DEF AppendRun
<1>3. BufferShape' /\ Kept(buf, buf', Limit) /\ Limit <= Limit'
    BY <1>1, <1>2, AppendScans
<1>4. QED
    BY <1>1, <1>2, <1>3 DEF Scans

\* A reference: the status, a value as it is, a value to be cut, or nothing.
LEMMA ExpandVarScans ==
    ASSUME BufferShape, step = "word", value \in Values \cup {NoValue},
           Word.text \in Seq(Chars), src \in 1..Len(Word.text),
           IsExpansionStart(Word.text, src), ExpandVar
    PROVE  Scans
<1>1. Len(Word.text) \in Nat
    OBVIOUS
<1>2. PICK len \in Nat : /\ len = GetExpansionLen(Word.text, src)
                         /\ src + len \in 1..(Len(Word.text) + 1)
    <2>1. GetExpansionLen(Word.text, src) \in 2..(Len(Word.text) + 1 - src)
        BY ExpansionLenIs
    <2>2. QED
        BY <1>1, <2>1
<1> DEFINE name == SubSeq(Word.text, src + 1, src + len - 1)
           ref == GetEnvFromSlice(name)
<1>3. /\ src' = src + len
      /\ IF name = <<"?">> THEN ArenaItoaCat
         ELSE IF ref = NoValue \/ (ref = << >> /\ ~Has("IN_DQUOTE"))
         THEN UNCHANGED <<step, exp, buf, seg>>
         ELSE IF Has("IN_DQUOTE") THEN AppendField(ref) /\ UNCHANGED <<step, seg>>
         ELSE AppendSegment(ref)
    BY <1>2 DEF ExpandVar
<1>4. ref # NoValue => ref \in Seq(Chars)
    BY ExpansionAssumption DEF GetEnvFromSlice
<1>5. StatusText \in Seq(Chars)
    BY ExpansionAssumption
<1> HIDE DEF ref, name
<1>6. src' \in 1..(Len(Word.text) + 1)
    BY <1>2, <1>3
<1>7. CASE ArenaItoaCat
    <2>1. AppendField(StatusText) /\ UNCHANGED <<step, seg>>
        BY <1>7 DEF ArenaItoaCat
    <2>2. BufferShape' /\ Kept(buf, buf', Limit) /\ Limit <= Limit'
        BY <1>5, <2>1, AppendScans
    <2>3. QED
        BY <1>6, <2>1, <2>2 DEF Scans
<1>8. CASE UNCHANGED <<step, exp, buf, seg>>
    <2>1. exp' = [exp EXCEPT !.flags = exp.flags] /\ exp.flags \in SUBSET ExpFlags
        BY <1>8 DEF BufferShape
    <2>2. BufferShape' /\ Kept(buf, buf', Limit) /\ Limit <= Limit'
        BY <1>8, <2>1, FlagsScan DEF Has
    <2>3. QED
        BY <1>6, <1>8, <2>2 DEF Scans
<1>9. CASE ref # NoValue /\ AppendField(ref) /\ UNCHANGED <<step, seg>>
    <2>1. BufferShape' /\ Kept(buf, buf', Limit) /\ Limit <= Limit'
        BY <1>4, <1>9, AppendScans
    <2>2. QED
        BY <1>6, <1>9, <2>1 DEF Scans
<1>10. CASE ref # NoValue /\ AppendSegment(ref)
    <2>1. /\ BufferShape' /\ Kept(buf, buf', Limit) /\ Limit <= Limit'
          /\ step' = "segment"
        BY <1>4, <1>10, SegmentScans
    <2>2. QED
        BY <1>6, <2>1 DEF Scans
<1>11. QED
    BY <1>3, <1>7, <1>8, <1>9, <1>10

\* The quotation ends.
LEMMA CloseQuoteScans ==
    ASSUME BufferShape, step = "word", Word.text \in Seq(Chars),
           src \in 1..Len(Word.text), NEW flag \in {"IN_SQUOTE", "IN_DQUOTE"},
           CloseQuote(flag)
    PROVE  Scans
<1>1. /\ exp' = [exp EXCEPT !.flags = exp.flags \ {flag}] /\ src' = src + 1
      /\ UNCHANGED <<step, buf, seg>>
    BY DEF CloseQuote
<1>2. /\ exp.flags \ {flag} \in SUBSET ExpFlags
      /\ "HAS_FIELD" \in exp.flags \ {flag} <=> Has("HAS_FIELD")
    BY DEF BufferShape, Has
<1>3. BufferShape' /\ Kept(buf, buf', Limit) /\ Limit <= Limit'
    BY <1>1, <1>2, FlagsScan
<1>4. Len(Word.text) \in Nat
    OBVIOUS
<1>5. src' \in 1..(Len(Word.text) + 1)
    BY <1>1, <1>4
<1>6. QED
    BY <1>1, <1>3, <1>5 DEF Scans

\* scan_word: each of its handlers.
LEMMA ScanWordKeeps ==
    ASSUME ExpInv, ScanWord
    PROVE  ExpInv' /\ Stands
<1>1. /\ step = "word" /\ C # Nul
      /\ UNCHANGED <<lexVars, value, words, slots, base, targets>>
    BY DEF ScanWord
<1>2. words # << >>
    BY <1>1 DEF ExpInv, WordsShape, Scanning
<1>3. Word.text \in Seq(Chars) /\ Len(Word.text) \in Nat
    BY <1>2, WordIs DEF ExpInv
<1>4. src \in Nat
    <2>1. Len(line) \in Nat
        BY LineIs DEF ExpInv
    <2>2. src \in 1..(Len(line) + 1)
        BY DEF ExpInv, WordsShape
    <2>3. QED
        BY <2>1, <2>2
<1>5. src \in 1..Len(Word.text)
    BY <1>1, <1>3, <1>4, CharAtIs DEF C
<1>6. BufferShape /\ value \in Values \cup {NoValue}
    BY DEF ExpInv
<1>7. ASSUME NEW stops \in SUBSET Rest, AppendRun(stops) PROVE Scans
    BY <1>1, <1>3, <1>5, <1>6, <1>7, AppendRunScans
<1>8. ASSUME IsExpansionStart(Word.text, src), ExpandVar PROVE Scans
    BY <1>1, <1>3, <1>5, <1>6, <1>8, ExpandVarScans
<1>9. ASSUME NEW flag \in {"IN_SQUOTE", "IN_DQUOTE"}, CloseQuote(flag) PROVE Scans
    BY <1>1, <1>3, <1>5, <1>6, <1>9, CloseQuoteScans
<1> SUFFICES Scans
    BY <1>1, ScansKeeps
<1>10. CASE HandleSquote
    <2>1. CASE CloseQuote("IN_SQUOTE")
        BY <1>9, <2>1
    <2> DEFINE stops == {i \in Rest : Word.text[i] = SingleQuote}
    <2>2. CASE AppendRun(stops)
        <3>1. stops \in SUBSET Rest
            OBVIOUS
        <3> HIDE DEF stops
        <3>2. QED
            BY <1>7, <2>2, <3>1
    <2>3. QED
        BY <1>10, <2>1, <2>2 DEF HandleSquote
<1>11. CASE HandleDquote
    <2>1. CASE CloseQuote("IN_DQUOTE")
        BY <1>9, <2>1
    <2>2. CASE IsExpansionStart(Word.text, src) /\ ExpandVar
        BY <1>8, <2>2
    <2> DEFINE stops == {i \in Rest : \/ Word.text[i] = DoubleQuote
                                      \/ IsExpansionStart(Word.text, i)}
    <2>3. CASE AppendRun(stops)
        <3>1. stops \in SUBSET Rest
            OBVIOUS
        <3> HIDE DEF stops
        <3>2. QED
            BY <1>7, <2>3, <3>1
    <2>4. QED
        BY <1>11, <2>1, <2>2, <2>3 DEF HandleDquote
<1>12. CASE HandleUnquoted
    <2>1. CASE OpenQuote
        <3>1. BufferShape' /\ Kept(buf, buf', Limit) /\ Limit <= Limit'
            BY <1>1, <1>6, <2>1, OpenQuoteScans
        <3>2. src' = src + 1 /\ step' = step
            BY <2>1 DEF OpenQuote
        <3>3. src' \in 1..(Len(Word.text) + 1)
            BY <1>3, <1>5, <3>2
        <3>4. QED
            BY <1>1, <3>1, <3>2, <3>3 DEF Scans
    <2>2. CASE IsExpansionStart(Word.text, src) /\ ExpandVar
        BY <1>8, <2>2
    <2> DEFINE stops == {i \in Rest : \/ HasClosingQuote(Word.text, i)
                                      \/ IsExpansionStart(Word.text, i)}
    <2>3. CASE AppendRun(stops)
        <3>1. stops \in SUBSET Rest
            OBVIOUS
        <3> HIDE DEF stops
        <3>2. QED
            BY <1>7, <2>3, <3>1
    <2>4. QED
        BY <1>12, <2>1, <2>2, <2>3 DEF HandleUnquoted
<1>13. QED
    BY <1>10, <1>11, <1>12 DEF ScanWord

-------------------------------------------------------------------------------
(* append_segment                                                               *)

\* What a step that goes on with the same word, or ends the loop, leaves.
SameWord == UNCHANGED <<lexVars, value, words, src, base, targets>>

\* The lexer, the words and the value stay as they are.
LEMMA SameWordKeeps ==
    ASSUME ExpInv, step = "segment", SameWord, step' \in {"word", "segment", "overrun"},
           BufferShape', Recorded'
    PROVE  ExpInv'
<1>1. LexShape' /\ TokensShape' /\ value' \in Values \cup {NoValue}
    BY DEF ExpInv, SameWord, LexShape, TokensShape, lexVars, Building
<1>2. step' \in Steps /\ step' # "lex"
    BY DEF Steps
<1>3. WordsShape'
    <2>1. /\ words # << >> /\ src <= Len(Word.text) + 1
        BY DEF ExpInv, WordsShape, Scanning
    <2>2. Word' = Word /\ line' = line /\ words' = words /\ src' = src
        BY DEF Word, SameWord, lexVars
    <2>3. QED
        BY <2>1, <2>2 DEF ExpInv, WordsShape
<1>4. QED
    BY <1>1, <1>2, <1>3 DEF ExpInv

\* The next character of the value belongs to the field; the loop ends; or it has
\* left the buffer.
LEMMA OtherSegmentStepsKeep ==
    ASSUME ExpInv, KeepSegment \/ EndSegment \/ SegmentOverrun
    PROVE  ExpInv' /\ Stands
<1>1. /\ step = "segment" /\ SameWord /\ buf' = buf /\ slots' = slots
      /\ step' \in {"word", "segment", "overrun"}
    BY DEF KeepSegment, EndSegment, SegmentOverrun, SameWord, lexVars
<1>2. BufferShape /\ Recorded /\ Writing
    BY <1>1 DEF ExpInv, Writing
<1>3. Limit = exp.pos /\ Limit \in Nat /\ Limit <= Len(buf) /\ Len(buf) \in Nat
    BY <1>2, LimitIs
<1>4. /\ exp' \in [pos : Nat, len : Nat, flags : SUBSET ExpFlags] /\ exp'.pos = exp.pos
      /\ seg' \in [i : Nat, span : Nat] /\ seg.i <= seg'.i
    <2>1. CASE KeepSegment
        <3>1. /\ exp' = [exp EXCEPT !.flags = @ \cup {"HAS_FIELD"}]
              /\ seg' = [seg EXCEPT !.i = @ + 1]
            BY <2>1 DEF KeepSegment
        <3>2. "HAS_FIELD" \in ExpFlags
            BY DEF ExpFlags
        <3>3. exp' \in [pos : Nat, len : Nat, flags : SUBSET ExpFlags] /\ exp'.pos = exp.pos
            BY <1>2, <3>1, <3>2 DEF BufferShape
        <3>4. seg' \in [i : Nat, span : Nat] /\ seg.i <= seg'.i
            BY <1>2, <3>1 DEF BufferShape
        <3>5. QED
            BY <3>3, <3>4
    <2>2. CASE EndSegment \/ SegmentOverrun
        <3>1. exp' = exp /\ seg' = seg
            BY <2>2 DEF EndSegment, SegmentOverrun
        <3>2. seg.i \in Nat
            BY <1>2 DEF BufferShape
        <3>3. QED
            BY <1>2, <3>1, <3>2 DEF BufferShape
    <2>3. QED
        BY <2>1, <2>2
<1>5. exp.pos < Len(buf) /\ exp.pos <= seg.i /\ exp.pos \in Nat /\ seg.i \in Nat
    BY <1>1, <1>2 DEF BufferShape
<1>6. BufferShape'
    <2>1. exp'.pos <= Len(buf') /\ exp'.pos < Len(buf')
        BY <1>1, <1>3, <1>4, <1>5
    <2>2. exp'.pos <= seg'.i
        <3>1. seg'.i \in Nat
            BY <1>4
        <3>2. QED
            BY <1>4, <1>5, <3>1
    <2>3. QED
        BY <1>1, <1>2, <1>4, <2>1, <2>2 DEF BufferShape
<1>7. Limit <= Limit'
    BY <1>1, <1>3, <1>4 DEF Limit
<1>8. Kept(buf, buf', Limit)
    BY <1>1, <1>3 DEF Kept
<1>9. Recorded' /\ Stands
    BY <1>1, <1>2, <1>6, <1>7, <1>8, NothingRecorded DEF SameWord
<1>10. QED
    BY <1>1, <1>6, <1>9, SameWordKeeps

\* get_ifs_end_idx stops in the buffer, which ends with a terminator.
LEMMA IfsEndIs ==
    ASSUME NEW b \in Seq(Bytes), NEW o \in Nat, o < Len(b), b[Len(b)] = Nul
    PROVE  IfsEnd(b, o) \in o..(Len(b) - 1)
<1> DEFINE S == {k \in o..(Len(b) - 1) : Byte(b, k) \notin IfsChars}
<1>1. Len(b) \in Nat /\ Len(b) - 1 \in o..(Len(b) - 1) /\ Len(b) - 1 + 1 = Len(b)
    OBVIOUS
<1>2. Byte(b, Len(b) - 1) = Nul
    BY <1>1 DEF Byte
<1>3. Nul \notin IfsChars
    BY Zenon DEF Nul, IfsChars
<1>4. Len(b) - 1 \in S
    BY <1>1, <1>2, <1>3
<1>5. S \in SUBSET Nat
    BY <1>1
<1>6. Min(S) \in S
    BY <1>4, <1>5, MinIsLeast
<1>7. IfsEnd(b, o) = Min(S)
    BY DEF IfsEnd
<1>8. QED
    BY <1>6, <1>7

\* delimit_field: the character that is overwritten lies behind the limit, and the
\* field before it ends there.
LEMMA DelimitSegmentKeeps ==
    ASSUME ExpInv, DelimitSegment
    PROVE  ExpInv' /\ Stands
<1> DEFINE cut == [buf EXCEPT ![seg.i + 1] = Nul]
           next == IfsEnd(cut, seg.i + 1)
<1>1. /\ step = "segment" /\ step' = step /\ SameWord /\ seg.i + 1 < Len(buf)
      /\ buf' = cut /\ seg' = [seg EXCEPT !.i = next]
    BY DEF DelimitSegment, SameWord, lexVars
<1>2. /\ seg.i > exp.pos =>
            /\ slots' = Append(slots, Reference("FIELDS", exp.pos))
            /\ exp' = [Cleared(exp) EXCEPT !.pos = next]
      /\ ~(seg.i > exp.pos) =>
            /\ exp' = [exp EXCEPT !.flags = @ \ {"HAS_FIELD"}, !.pos = next]
            /\ slots' = slots
    BY DEF DelimitSegment
<1>3. BufferShape /\ Recorded /\ Writing
    BY <1>1 DEF ExpInv, Writing
<1>4. /\ exp.pos \in Nat /\ exp.len \in Nat /\ exp.flags \in SUBSET ExpFlags
      /\ seg.i \in Nat /\ seg.span \in Nat /\ exp.pos <= seg.i
      /\ Len(buf) \in Nat /\ buf \in Seq(Bytes)
      /\ seg = [i |-> seg.i, span |-> seg.span]
    BY <1>1, <1>3 DEF BufferShape
<1>5. Limit = exp.pos
    BY <1>3 DEF Limit
<1>6. buf[Len(buf)] = Nul
    <2>1. buf # << >>
        BY <1>1, <1>4
    <2>2. QED
        BY <1>3, <2>1 DEF BufferShape
<1>7. /\ cut \in Seq(Bytes) /\ Len(cut) = Len(buf) /\ cut[seg.i + 1] = Nul
      /\ \A k \in 1..Len(buf) : k # seg.i + 1 => cut[k] = buf[k]
    <2>1. seg.i + 1 \in 1..Len(buf) /\ Nul \in Bytes
        BY <1>1, <1>4 DEF Bytes
    <2>2. /\ cut \in Seq(Bytes) /\ Len(cut) = Len(buf)
          /\ \A k \in 1..Len(buf) : cut[k] = IF k = seg.i + 1 THEN Nul ELSE buf[k]
        BY <1>4, <2>1, ExceptSeq
    <2>3. QED
        BY <2>1, <2>2
<1> HIDE DEF cut
<1>8. cut[Len(cut)] = Nul
    <2>1. Len(buf) \in 1..Len(buf) /\ Len(buf) # seg.i + 1
        BY <1>1, <1>4
    <2>2. QED
        BY <1>6, <1>7, <2>1
<1>9. /\ next \in Nat /\ seg.i + 1 <= next /\ next < Len(buf)
    <2>1. seg.i + 1 \in Nat /\ seg.i + 1 < Len(cut)
        BY <1>1, <1>4, <1>7
    <2>2. next \in (seg.i + 1)..(Len(cut) - 1)
        BY <1>7, <1>8, <2>1, IfsEndIs
    <2>3. QED
        BY <1>4, <1>7, <2>2
<1> HIDE DEF next
<1>10. /\ exp' \in [pos : Nat, len : Nat, flags : SUBSET ExpFlags] /\ exp'.pos = next
    <2>1. CASE seg.i > exp.pos
        <3>1. exp' = [pos |-> next, len |-> 0, flags |-> exp.flags \ {"HAS_FIELD"}]
            BY <1>2, <2>1 DEF Cleared
        <3>2. QED
            BY <1>4, <1>9, <3>1
    <2>2. CASE ~(seg.i > exp.pos)
        <3>1. exp' = [exp EXCEPT !.flags = @ \ {"HAS_FIELD"}, !.pos = next]
            BY <1>2, <2>2
        <3>2. QED
            BY <1>3, <1>4, <1>9, <3>1 DEF BufferShape
    <2>3. QED
        BY <2>1, <2>2
<1>11. BufferShape'
    <2>1. seg' \in [i : Nat, span : Nat] /\ seg'.i = next
        BY <1>1, <1>4, <1>9
    <2>2. /\ exp'.pos <= Len(buf') /\ exp'.pos < Len(buf') /\ exp'.pos <= seg'.i
        BY <1>1, <1>4, <1>7, <1>9, <1>10, <2>1
    <2>3. QED
        BY <1>1, <1>7, <1>8, <1>10, <2>1, <2>2 DEF BufferShape
<1>12. Limit' = next
    BY <1>1, <1>10 DEF Limit, Writing
<1>13. Limit <= Limit' /\ Limit' \in Nat
    BY <1>4, <1>5, <1>9, <1>12
<1>14. Kept(buf, buf', Limit)
    <2>1. ASSUME NEW k \in 1..Limit PROVE k \in 1..Len(buf) /\ k # seg.i + 1
        BY <1>1, <1>4, <1>5
    <2>2. QED
        BY <1>1, <1>4, <1>5, <1>7, <2>1 DEF Kept
<1>15. AllEnded(slots, buf', Limit') /\ AllEnded(targets, buf', Limit')
    BY <1>1, <1>3, <1>7, <1>13, <1>14, StillEnded
<1>16. CASE seg.i > exp.pos
    <2> DEFINE r == Reference("FIELDS", exp.pos)
    <2>1. r \in Places /\ r.arena = "FIELDS" /\ r.at = exp.pos
        BY <1>4 DEF Reference, Places
    <2>2. Ended(r, buf', Limit')
        <3>1. seg.i + 1 \in (exp.pos + 1)..Limit'
            BY <1>4, <1>9, <1>12
        <3>2. buf'[seg.i + 1] = Nul
            BY <1>1, <1>7
        <3>3. QED
            BY <2>1, <3>1, <3>2 DEF Ended
    <2>3. slots \in Seq(Places) /\ slots' = Append(slots, r)
        BY <1>2, <1>3, <1>16 DEF Recorded
    <2> HIDE DEF r
    <2>4. /\ slots' \in Seq(Places) /\ AllEnded(slots', buf', Limit')
          /\ Len(slots') = Len(slots) + 1
          /\ \A k \in 1..Len(slots) : slots'[k] = slots[k]
        BY <1>15, <2>1, <2>2, <2>3, PlaceAdded
    <2>5. Len(slots) \in Nat /\ Len(targets) \in Nat /\ base \in Nat /\ base <= Len(slots)
        BY <1>3 DEF Recorded
    <2>6. targets' = targets /\ base' = base
        BY <1>1 DEF SameWord
    <2>7. AllEnded(slots, buf, Limit)' /\ AllEnded(targets, buf, Limit)'
        BY <1>15, <2>4, <2>6
    <2>8. base' <= Len(slots')
        BY <2>4, <2>5, <2>6
    <2>9. Recorded'
        BY <1>3, <2>4, <2>6, <2>7, <2>8 DEF Recorded
    <2>10. Stands
        BY <1>13, <1>14, <2>4, <2>5, <2>6 DEF Stands
    <2>11. QED
        BY <1>1, <1>11, <2>9, <2>10, SameWordKeeps
<1>17. CASE ~(seg.i > exp.pos)
    <2>1. UNCHANGED <<slots, base, targets>>
        BY <1>1, <1>2, <1>17 DEF SameWord
    <2>2. Recorded' /\ Stands
        BY <1>3, <1>11, <1>13, <1>14, <2>1, NothingRecorded
    <2>3. QED
        BY <1>1, <1>11, <2>2, SameWordKeeps
<1>18. QED
    BY <1>16, <1>17

-------------------------------------------------------------------------------
(* expand_args, expand_redir                                                    *)

\* What is left of the words.
LEMMA TailIs ==
    ASSUME WordsShape, words # << >>
    PROVE  /\ Tail(words) \in Seq([redir : BOOLEAN, text : Seq(Chars), scan : BOOLEAN])
           /\ \A k \in 1..Len(Tail(words)) : Len(Tail(words)[k].text) <= Len(line)
<1>1. words \in Seq([redir : BOOLEAN, text : Seq(Chars), scan : BOOLEAN])
    BY DEF WordsShape
<1>2. /\ Tail(words) \in Seq([redir : BOOLEAN, text : Seq(Chars), scan : BOOLEAN])
      /\ Len(Tail(words)) = Len(words) - 1 /\ Len(words) \in Nat
      /\ \A k \in 1..Len(Tail(words)) : Tail(words)[k] = words[k + 1]
    BY <1>1, HeadTailProperties
<1>3. ASSUME NEW k \in 1..Len(Tail(words))
      PROVE  Len(Tail(words)[k].text) <= Len(line)
    <2>1. k + 1 \in 1..Len(words)
        BY <1>2
    <2>2. Len(words[k + 1].text) <= Len(line)
        BY <2>1 DEF WordsShape
    <2>3. QED
        BY <1>2, <2>2
<1>4. QED
    BY <1>2, <1>3

\* A step between two words: nothing of the lexer or of the value changes.
LEMMA BetweenWords ==
    ASSUME ExpInv, UNCHANGED <<lexVars, value>>, step' \in {"next", "done", "ambiguous"},
           words' = words \/ (words # << >> /\ words' = Tail(words)), src' = src,
           BufferShape', Recorded'
    PROVE  ExpInv'
<1>1. LexShape' /\ TokensShape' /\ value' \in Values \cup {NoValue}
    BY DEF ExpInv, LexShape, TokensShape, lexVars, Building
<1>2. step' \in Steps /\ step' # "lex" /\ ~Scanning'
    BY DEF Steps, Scanning
<1>3. WordsShape'
    <2>1. line' = line
        BY DEF lexVars
    <2>2. CASE words' = words
        BY <1>2, <2>1, <2>2 DEF ExpInv, WordsShape
    <2>3. CASE words # << >> /\ words' = Tail(words)
        <3>1. /\ words' \in Seq([redir : BOOLEAN, text : Seq(Chars), scan : BOOLEAN])
              /\ \A k \in 1..Len(words') : Len(words'[k].text) <= Len(line)
            BY <2>3, TailIs DEF ExpInv
        <3>2. QED
            BY <1>2, <2>1, <3>1 DEF ExpInv, WordsShape
    <2>4. QED
        BY <2>2, <2>3
<1>4. QED
    BY <1>1, <1>2, <1>3 DEF ExpInv

\* The buffer stays as it is, and nothing is written to it from here on.
LEMMA BufferRests ==
    ASSUME BufferShape, UNCHANGED <<buf, exp, seg>>, step # "segment", step' # "segment"
    PROVE  /\ BufferShape' /\ Kept(buf, buf', Limit) /\ Limit' = Limit /\ Limit <= Limit'
<1>1. Writing' <=> Writing
    BY DEF Writing, Has
<1>2. Limit \in Nat /\ Limit <= Len(buf)
    BY LimitIs
<1>3. Limit' = Limit
    BY <1>1 DEF Limit
<1>4. BufferShape'
    BY <1>1 DEF BufferShape
<1>5. QED
    BY <1>2, <1>3, <1>4 DEF Kept

\* A word that is not scanned is recorded where the lexer wrote it.
LEMMA PlainWordKeeps ==
    ASSUME ExpInv, PlainWord
    PROVE  ExpInv' /\ Stands
<1>1. /\ step = "next" /\ step' = step /\ words # << >> /\ words' = Tail(words)
      /\ UNCHANGED <<lexVars, value, src, exp, buf, seg, base>>
    BY DEF PlainWord
<1>2. BufferShape /\ Recorded /\ WordsShape
    BY DEF ExpInv
<1>3. BufferShape' /\ Kept(buf, buf', Limit) /\ Limit' = Limit /\ Limit <= Limit'
    BY <1>1, <1>2, BufferRests
<1> DEFINE r == Reference("STRING", Word.text)
<1>4. r \in Places /\ r.arena = "STRING"
    <2>1. Word.text \in Seq(Chars)
        BY <1>1, <1>2, WordIs
    <2>2. QED
        BY <2>1 DEF Reference, Places
<1>5. Ended(r, buf, Limit)
    BY <1>4 DEF Ended
<1> HIDE DEF r
<1>6. /\ slots \in Seq(Places) /\ AllEnded(slots, buf, Limit)
      /\ targets \in Seq(Places) /\ AllEnded(targets, buf, Limit)
      /\ base \in Nat /\ base <= Len(slots)
      /\ Len(slots) \in Nat /\ Len(targets) \in Nat
    BY <1>2 DEF Recorded
<1>7. CASE Word.redir
    <2>1. targets' = Append(targets, r) /\ slots' = slots
        BY <1>7 DEF PlainWord, r
    <2>2. /\ targets' \in Seq(Places) /\ AllEnded(targets', buf, Limit)
          /\ Len(targets') = Len(targets) + 1
          /\ \A k \in 1..Len(targets) : targets'[k] = targets[k]
        BY <1>4, <1>5, <1>6, <2>1, PlaceAdded
    <2>3. AllEnded(slots, buf, Limit)' /\ AllEnded(targets, buf, Limit)'
        BY <1>1, <1>3, <1>6, <2>1, <2>2
    <2>4. Recorded'
        BY <1>1, <1>6, <2>1, <2>2, <2>3 DEF Recorded
    <2>5. Stands
        BY <1>3, <1>6, <2>1, <2>2 DEF Stands
    <2>6. QED
        BY <1>1, <1>3, <2>4, <2>5, BetweenWords
<1>8. CASE ~Word.redir
    <2>1. slots' = Append(slots, r) /\ targets' = targets
        BY <1>8 DEF PlainWord, r
    <2>2. /\ slots' \in Seq(Places) /\ AllEnded(slots', buf, Limit)
          /\ Len(slots') = Len(slots) + 1
          /\ \A k \in 1..Len(slots) : slots'[k] = slots[k]
        BY <1>4, <1>5, <1>6, <2>1, PlaceAdded
    <2>3. AllEnded(slots, buf, Limit)' /\ AllEnded(targets, buf, Limit)'
        BY <1>1, <1>3, <1>6, <2>1, <2>2
    <2>4. base' \in Nat /\ base' <= Len(slots')
        BY <1>1, <1>6, <2>2
    <2>5. Recorded'
        BY <1>6, <2>1, <2>2, <2>3, <2>4 DEF Recorded
    <2>6. Stands
        BY <1>3, <1>6, <2>1, <2>2 DEF Stands
    <2>7. QED
        BY <1>1, <1>3, <2>5, <2>6, BetweenWords
<1>9. QED
    BY <1>7, <1>8

\* The scan of a word begins at its first character.
LEMMA StartWordKeeps ==
    ASSUME ExpInv, StartWord
    PROVE  ExpInv' /\ Stands
<1>1. /\ step = "next" /\ step' = "word" /\ words # << >> /\ src' = 1
      /\ base' = Len(slots)
      /\ UNCHANGED <<lexVars, value, words, exp, buf, slots, seg, targets>>
    BY DEF StartWord
<1>2. BufferShape /\ Recorded /\ WordsShape
    BY DEF ExpInv
<1>3. BufferShape' /\ Kept(buf, buf', Limit) /\ Limit' = Limit /\ Limit <= Limit'
    BY <1>1, <1>2, BufferRests
<1>4. Len(slots) \in Nat /\ Len(targets) \in Nat
    BY <1>2 DEF Recorded
<1>5. AllEnded(slots, buf, Limit)' /\ AllEnded(targets, buf, Limit)'
    BY <1>1, <1>2, <1>3 DEF Recorded
<1>6. Recorded'
    BY <1>1, <1>2, <1>4, <1>5 DEF Recorded
<1>7. Stands
    BY <1>1, <1>3, <1>4 DEF Stands
<1>8. WordsShape'
    <2>1. Word.text \in Seq(Chars) /\ Len(Word.text) \in Nat /\ Len(line) \in Nat
        BY <1>1, <1>2, WordIs, LineIs DEF ExpInv
    <2>2. src' \in 1..(Len(line) + 1) /\ src' <= Len(Word.text) + 1
        BY <1>1, <2>1
    <2>3. Word' = Word /\ line' = line
        BY <1>1 DEF Word, lexVars
    <2>4. QED
        BY <1>1, <1>2, <2>2, <2>3 DEF WordsShape
<1>9. LexShape' /\ TokensShape' /\ value' \in Values \cup {NoValue}
    BY <1>1 DEF ExpInv, LexShape, TokensShape, lexVars, Building
<1>10. step' \in Steps /\ step' # "lex"
    BY <1>1 DEF Steps
<1>11. QED
    BY <1>3, <1>6, <1>7, <1>8, <1>9, <1>10 DEF ExpInv

\* All words have been expanded.
LEMMA FinishArgsKeeps ==
    ASSUME ExpInv, FinishArgs
    PROVE  ExpInv' /\ Stands
<1>1. /\ step = "next" /\ step' = "done"
      /\ UNCHANGED <<lexVars, value, words, src, exp, buf, slots, seg, base, targets>>
    BY DEF FinishArgs
<1>2. BufferShape /\ Recorded
    BY DEF ExpInv
<1>3. BufferShape' /\ Kept(buf, buf', Limit) /\ Limit <= Limit'
    BY <1>1, <1>2, BufferRests
<1>4. Recorded' /\ Stands
    BY <1>1, <1>2, <1>3, NothingRecorded
<1>5. /\ UNCHANGED <<lexVars, value>> /\ step' \in {"next", "done", "ambiguous"}
      /\ (words' = words \/ (words # << >> /\ words' = Tail(words))) /\ src' = src
    BY <1>1
<1>6. ExpInv'
    BY <1>3, <1>4, <1>5, BetweenWords, Zenon
<1>7. QED
    BY <1>4, <1>6

\* The last field of a word ends with the buffer; a redirection takes its fields
\* from the end of argv and leaves what was there before.
LEMMA EndWordKeeps ==
    ASSUME ExpInv, EndWord
    PROVE  ExpInv' /\ Stands
<1> DEFINE all == slots \o LastField
<1>1. /\ step = "word" /\ step' \in {"next", "ambiguous"} /\ words' = Tail(words)
      /\ exp' = (IF Has("HAS_FIELD") THEN Cleared(exp) ELSE exp)
      /\ UNCHANGED <<lexVars, value, src, buf, seg, base>>
    BY DEF EndWord
<1>2. BufferShape /\ Recorded /\ words # << >>
    BY <1>1 DEF ExpInv, WordsShape, Scanning
<1>3. /\ Limit \in Nat /\ Limit <= Len(buf) /\ Len(buf) \in Nat /\ buf \in Seq(Bytes)
      /\ Has("HAS_FIELD") => exp.pos < Len(buf)
      /\ exp.pos \in Nat
    <2>1. Has("HAS_FIELD") => Writing
        BY DEF Writing
    <2>2. QED
        BY <1>2, <2>1, LimitIs DEF BufferShape
<1>4. /\ exp' \in [pos : Nat, len : Nat, flags : SUBSET ExpFlags]
      /\ "HAS_FIELD" \notin exp'.flags /\ exp'.pos <= Len(buf)
    <2>1. CASE Has("HAS_FIELD")
        <3>1. exp' = [pos |-> 0, len |-> 0, flags |-> exp.flags \ {"HAS_FIELD"}]
            BY <1>1, <2>1 DEF Cleared
        <3>2. exp.flags \in SUBSET ExpFlags
            BY <1>2 DEF BufferShape
        <3>3. QED
            BY <1>3, <3>1, <3>2
    <2>2. CASE ~Has("HAS_FIELD")
        BY <1>1, <1>2, <2>2 DEF BufferShape, Has
    <2>3. QED
        BY <2>1, <2>2
<1>5. ~Writing' /\ Limit' = Len(buf)
    BY <1>1, <1>4 DEF Writing, Limit, Has
<1>6. BufferShape'
    BY <1>1, <1>2, <1>4, <1>5 DEF BufferShape
<1>7. Kept(buf, buf', Limit) /\ Limit <= Limit'
    BY <1>1, <1>3, <1>5 DEF Kept
<1>8. AllEnded(slots, buf, Len(buf)) /\ AllEnded(targets, buf, Len(buf))
    <2>1. AllEnded(slots, buf', Limit') /\ AllEnded(targets, buf', Limit')
        BY <1>1, <1>2, <1>3, <1>5, <1>7, StillEnded
    <2>2. QED
        BY <1>1, <1>5, <2>1
<1>9. /\ slots \in Seq(Places) /\ targets \in Seq(Places)
      /\ Len(slots) \in Nat /\ Len(targets) \in Nat /\ base \in Nat /\ base <= Len(slots)
    BY <1>2 DEF Recorded
<1>10. /\ all \in Seq(Places) /\ AllEnded(all, buf, Len(buf)) /\ Len(slots) <= Len(all)
       /\ \A k \in 1..Len(slots) : all[k] = slots[k]
    <2>1. CASE Has("HAS_FIELD")
        <3> DEFINE r == Reference("FIELDS", exp.pos)
        <3>1. r \in Places /\ r.arena = "FIELDS" /\ r.at = exp.pos
            BY <1>3 DEF Reference, Places
        <3>2. Ended(r, buf, Len(buf))
            <4>1. Len(buf) \in (exp.pos + 1)..Len(buf) /\ buf # << >>
                BY <1>3, <2>1
            <4>2. buf[Len(buf)] = Nul
                BY <1>2, <4>1 DEF BufferShape
            <4>3. QED
                BY <3>1, <4>1, <4>2 DEF Ended
        <3>3. all = slots \o <<r>>
            BY <2>1 DEF LastField
        <3> HIDE DEF r, all
        <3>4. all = Append(slots, r)
            BY <1>9, <3>1, <3>3, AppendIsConcat
        <3>5. /\ all \in Seq(Places) /\ AllEnded(all, buf, Len(buf))
              /\ Len(all) = Len(slots) + 1
              /\ \A k \in 1..Len(slots) : all[k] = slots[k]
            BY <1>8, <1>9, <3>1, <3>2, <3>4, PlaceAdded
        <3>6. QED
            BY <1>9, <3>5
    <2>2. CASE ~Has("HAS_FIELD")
        <3>1. all = slots \o << >>
            BY <2>2 DEF LastField
        <3>2. all = slots
            BY <1>9, <3>1, ConcatEmptySeq
        <3> HIDE DEF all
        <3>3. QED
            BY <1>8, <1>9, <3>2
    <2>3. QED
        BY <2>1, <2>2
<1>11. /\ ~Word.redir => slots' = all /\ targets' = targets
       /\ Word.redir =>
             /\ slots' = SubSeq(slots, 1, base)
             /\ \/ Len(all) - base = 1 /\ targets' = Append(targets, Last(all))
                \/ targets' = targets
    BY DEF EndWord
<1> HIDE DEF all
<1>12. Len(all) \in Nat
    BY <1>10
<1>13. /\ slots' \in Seq(Places) /\ AllEnded(slots', buf, Len(buf))
       /\ base <= Len(slots')
       /\ \A k \in (1..Len(slots)) \cap (1..Len(slots')) : slots'[k] = slots[k]
    <2>1. CASE ~Word.redir
        BY <1>9, <1>10, <1>11, <1>12, <2>1
    <2>2. CASE Word.redir
        <3>1. slots' = SubSeq(slots, 1, base)
            BY <1>11, <2>2
        <3>2. \A i \in 1..base : slots[i] \in Places
            BY <1>9
        <3>3. /\ slots' \in Seq(Places)
              /\ Len(slots') = IF 1 <= base THEN base - 1 + 1 ELSE 0
              /\ \A i \in 1..(base - 1 + 1) : slots'[i] = slots[1 + i - 1]
            <4>1. 1 \in Int /\ base \in Int
                BY <1>9
            <4>2. QED
                BY <3>1, <3>2, <4>1, SubSeqProperties
        <3>4. Len(slots') = base
            <4>1. CASE 1 <= base
                BY <1>9, <3>3, <4>1
            <4>2. CASE ~(1 <= base)
                BY <1>9, <3>3, <4>2
            <4>3. QED
                BY <4>1, <4>2
        <3>5. ASSUME NEW i \in 1..base PROVE slots'[i] = slots[i] /\ i \in 1..Len(slots)
            <4>1. i \in 1..(base - 1 + 1) /\ 1 + i - 1 = i
                BY <1>9
            <4>2. QED
                BY <1>9, <3>3, <4>1
        <3>6. AllEnded(slots', buf, Len(buf))
            BY <1>8, <3>4, <3>5 DEF AllEnded
        <3>7. QED
            BY <1>9, <3>3, <3>4, <3>5, <3>6
    <2>3. QED
        BY <2>1, <2>2
<1>14. /\ targets' \in Seq(Places) /\ AllEnded(targets', buf, Len(buf))
       /\ Len(targets) <= Len(targets')
       /\ \A k \in 1..Len(targets) : targets'[k] = targets[k]
    <2>1. CASE targets' = targets
        BY <1>8, <1>9, <2>1
    <2>2. CASE Len(all) - base = 1 /\ targets' = Append(targets, Last(all))
        <3>1. Len(all) \in 1..Len(all)
            BY <1>9, <1>12, <2>2
        <3>2. Last(all) \in Places /\ Ended(Last(all), buf, Len(buf))
            BY <1>10, <3>1 DEF Last, AllEnded
        <3>3. /\ targets' \in Seq(Places) /\ AllEnded(targets', buf, Len(buf))
              /\ Len(targets') = Len(targets) + 1
              /\ \A k \in 1..Len(targets) : targets'[k] = targets[k]
            BY <1>8, <1>9, <2>2, <3>2, PlaceAdded
        <3>4. QED
            BY <1>9, <3>3
    <2>3. QED
        BY <1>11, <2>1, <2>2
<1>15. Recorded'
    <2>1. AllEnded(slots, buf, Limit)' /\ AllEnded(targets, buf, Limit)'
        BY <1>1, <1>5, <1>13, <1>14
    <2>2. QED
        BY <1>1, <1>9, <1>13, <1>14, <2>1 DEF Recorded
<1>16. Stands
    BY <1>7, <1>13, <1>14 DEF Stands
<1>17. QED
    BY <1>1, <1>2, <1>6, <1>15, <1>16, BetweenWords

-------------------------------------------------------------------------------
(* init_command                                                                 *)

\* Among finitely many places of a line there is an n-th one.
LEMMA NthOf ==
    ASSUME NEW l \in Nat, NEW S \in SUBSET (1..l), NEW n \in 1..Cardinality(S)
    PROVE  \E k \in S : Cardinality(S \cap 1..k) = n
<1> DEFINE Upto(k) == S \cap 1..k
<1>1. IsFiniteSet(S) /\ Cardinality(S) \in Nat /\ n \in Nat /\ n >= 1
    <2>1. IsFiniteSet(1..l)
        BY FS_Interval
    <2>2. IsFiniteSet(S)
        BY <2>1, FS_Subset
    <2>3. Cardinality(S) \in Nat
        BY <2>2, FS_CardinalityType
    <2>4. QED
        BY <2>2, <2>3
<1>2. ASSUME NEW k \in Nat PROVE IsFiniteSet(Upto(k)) /\ Cardinality(Upto(k)) \in Nat
    <2>1. Upto(k) \in SUBSET S
        OBVIOUS
    <2>2. QED
        BY <1>1, <2>1, FS_Subset, FS_CardinalityType
<1> DEFINE T == {k \in Nat : Cardinality(Upto(k)) >= n}
<1>3. l \in T
    <2>1. Upto(l) = S
        OBVIOUS
    <2>2. QED
        BY <1>1, <2>1
<1>4. T \in SUBSET Nat
    OBVIOUS
<1>5. Min(T) \in T /\ \A y \in T : Min(T) <= y
    <2> HIDE DEF T
    <2>1. QED
        BY <1>3, <1>4, MinIsLeast
<1>6. PICK k \in Nat : Cardinality(Upto(k)) >= n /\ \A y \in T : k <= y
    BY <1>5
<1>7. k # 0
    <2>1. SUFFICES ASSUME k = 0 PROVE FALSE
        OBVIOUS
    <2>2. Upto(k) = {}
        BY <2>1
    <2>3. Cardinality(Upto(k)) = 0
        BY <2>2, FS_EmptySet
    <2>4. QED
        BY <1>1, <1>6, <2>3
<1>8. k - 1 \in Nat /\ ~(Cardinality(Upto(k - 1)) >= n)
    <2>1. k - 1 \in Nat /\ ~(k <= k - 1)
        BY <1>7
    <2>2. QED
        BY <1>6, <2>1
<1>9. k \in S
    <2>1. SUFFICES ASSUME k \notin S PROVE FALSE
        OBVIOUS
    <2>2. Upto(k) = Upto(k - 1)
        BY <1>8, <2>1
    <2>3. QED
        BY <1>6, <1>8, <2>2
<1>10. Cardinality(Upto(k)) = Cardinality(Upto(k - 1)) + 1
    <2>1. Upto(k) = Upto(k - 1) \cup {k} /\ k \notin Upto(k - 1)
        BY <1>7, <1>8, <1>9
    <2>2. IsFiniteSet(Upto(k - 1))
        BY <1>2, <1>8
    <2> HIDE DEF Upto
    <2>3. QED
        BY <2>1, <2>2, FS_AddElement
<1>11. Cardinality(Upto(k)) = n
    <2>1. Cardinality(Upto(k - 1)) \in Nat /\ Cardinality(Upto(k)) \in Nat
        BY <1>2, <1>8
    <2> HIDE DEF Upto
    <2>2. \A a, b \in Nat : b = a + 1 /\ b >= n /\ ~(a >= n) => b = n
        BY <1>1
    <2>3. QED
        BY <1>6, <1>8, <1>10, <2>1, <2>2
<1>12. QED
    BY <1>9, <1>11

\* The words of a command are texts of tokens.
LEMMA WordsAre ==
    ASSUME LexShape, TokensShape, NEW redir \in BOOLEAN
    PROVE  /\ WordsOf(redir) \in Seq([redir : BOOLEAN, text : Seq(Chars), scan : BOOLEAN])
           /\ \A n \in 1..Len(WordsOf(redir)) : Len(WordsOf(redir)[n].text) <= Len(line)
<1>1. tokens \in Seq(Token) /\ Len(tokens) \in Nat /\ DOMAIN tokens = 1..Len(tokens)
    BY DEF TokensShape
<1>2. FirstCommand \in SUBSET (1..Len(tokens))
    <2> DEFINE ends == {k \in DOMAIN tokens : IsOperator(k) /\ ~IsRedirection(k)}
    <2>1. CASE ends = {}
        BY <1>1, <2>1 DEF FirstCommand
    <2>2. CASE ends # {}
        <3>1. ends \in SUBSET Nat /\ ends \subseteq 1..Len(tokens)
            BY <1>1
        <3>2. Min(ends) \in ends
            <4> HIDE DEF ends
            <4>1. QED
                BY <2>2, <3>1, MinIsLeast
        <3>3. Min(ends) \in 1..Len(tokens)
            BY <3>1, <3>2
        <3>4. 1..(Min(ends) - 1) \subseteq 1..Len(tokens)
            <4> HIDE DEF ends
            <4>1. PICK m \in 1..Len(tokens) : m = Min(ends)
                BY <3>3
            <4>2. 1..(m - 1) \subseteq 1..Len(tokens)
                BY <1>1
            <4>3. QED
                BY <4>1, <4>2
        <3>5. FirstCommand = 1..(Min(ends) - 1)
            BY <2>2 DEF FirstCommand
        <3>6. QED
            BY <3>4, <3>5
    <2>3. QED
        BY <2>1, <2>2
<1> DEFINE chosen == {k \in FirstCommand : /\ ~IsOperator(k)
                                           /\ (k > 1 /\ IsOperator(k - 1)) = redir}
           Nth(n) == CHOOSE k \in chosen : Cardinality(chosen \cap 1..k) = n
           W(n) == [redir |-> redir, text |-> tokens[Nth(n)].text,
                    scan |-> tokens[Nth(n)].flags # {}]
<1>3. chosen \in SUBSET (1..Len(tokens))
    BY <1>2
<1>4. WordsOf(redir) = [n \in 1..Cardinality(chosen) |-> W(n)]
    BY DEF WordsOf
<1> HIDE DEF chosen
<1>5. Cardinality(chosen) \in Nat
    <2>1. IsFiniteSet(1..Len(tokens))
        BY <1>1, FS_Interval
    <2>2. IsFiniteSet(chosen)
        BY <1>3, <2>1, FS_Subset
    <2>3. QED
        BY <2>2, FS_CardinalityType
<1>6. ASSUME NEW n \in 1..Cardinality(chosen) PROVE Nth(n) \in 1..Len(tokens)
    <2>1. \E k \in chosen : Cardinality(chosen \cap 1..k) = n
        BY <1>1, <1>3, NthOf
    <2>2. Nth(n) \in chosen
        BY <2>1
    <2>3. QED
        BY <1>3, <2>2
<1> HIDE DEF Nth
<1>7. ASSUME NEW n \in 1..Cardinality(chosen)
      PROVE  /\ W(n) \in [redir : BOOLEAN, text : Seq(Chars), scan : BOOLEAN]
             /\ Len(W(n).text) <= Len(line)
    <2>1. tokens[Nth(n)] \in Token /\ Len(tokens[Nth(n)].text) <= Len(line)
        BY <1>1, <1>6 DEF TokensShape
    <2>2. tokens[Nth(n)].text \in Seq(Chars)
        BY <2>1 DEF Token
    <2>3. (tokens[Nth(n)].flags # {}) \in BOOLEAN
        OBVIOUS
    <2>4. QED
        BY <2>1, <2>2, <2>3
<1> HIDE DEF W
<1>8. WordsOf(redir) \in Seq([redir : BOOLEAN, text : Seq(Chars), scan : BOOLEAN])
    <2> DEFINE R == [redir : BOOLEAN, text : Seq(Chars), scan : BOOLEAN]
    <2>1. \A n \in 1..Cardinality(chosen) : W(n) \in R
        BY <1>7
    <2> HIDE DEF R
    <2>2. [n \in 1..Cardinality(chosen) |-> W(n)] \in [1..Cardinality(chosen) -> R]
        BY <2>1
    <2>3. [n \in 1..Cardinality(chosen) |-> W(n)] \in Seq(R)
        BY <1>5, <2>2, SeqDef
    <2>4. QED
        BY <1>4, <2>3 DEF R
<1>9. Len(WordsOf(redir)) = Cardinality(chosen)
    BY <1>4, <1>5
<1>10. QED
    BY <1>4, <1>7, <1>8, <1>9

\* The words are laid out, and the arenas are empty.
LEMMA InitCommandKeeps ==
    ASSUME ExpInv, InitCommand
    PROVE  ExpInv' /\ slots = << >> /\ targets = << >>
<1>1. /\ step = "lex" /\ step' = "next" /\ buf' = << >> /\ slots' = << >>
      /\ exp' = [pos |-> 0, len |-> 0, flags |-> {}]
      /\ words' = WordsOf(FALSE) \o WordsOf(TRUE)
      /\ UNCHANGED <<lexVars, src, seg, base, targets>>
    BY DEF InitCommand
<1>2. slots = << >> /\ targets = << >>
    BY <1>1 DEF ExpInv
<1>3. LexShape' /\ TokensShape'
    BY <1>1 DEF ExpInv, LexShape, TokensShape, lexVars, Building
<1>4. value' \in Values \cup {NoValue}
    BY DEF InitCommand
<1>5. step' \in Steps /\ step' # "lex" /\ ~Scanning' /\ ~Writing'
    BY <1>1 DEF Steps, Scanning, Writing, Has
<1>6. WordsShape'
    <2> DEFINE A == WordsOf(FALSE)
               B == WordsOf(TRUE)
               R == [redir : BOOLEAN, text : Seq(Chars), scan : BOOLEAN]
    <2>1. /\ A \in Seq(R) /\ \A n \in 1..Len(A) : Len(A[n].text) <= Len(line)
          /\ B \in Seq(R) /\ \A n \in 1..Len(B) : Len(B[n].text) <= Len(line)
        BY WordsAre DEF ExpInv
    <2>2. words' = A \o B
        BY <1>1
    <2> HIDE DEF A, B, R
    <2>3. /\ A \o B \in Seq(R) /\ Len(A \o B) = Len(A) + Len(B)
          /\ \A i \in 1..Len(A) + Len(B) : (A \o B)[i] =
                IF i <= Len(A) THEN A[i] ELSE B[i - Len(A)]
          /\ Len(A) \in Nat /\ Len(B) \in Nat
        BY <2>1, ConcatProperties
    <2>4. ASSUME NEW k \in 1..Len(words') PROVE Len(words'[k].text) <= Len(line)
        <3>1. CASE k <= Len(A)
            <4>1. words'[k] = A[k] /\ k \in 1..Len(A)
                BY <2>2, <2>3, <3>1
            <4>2. QED
                BY <2>1, <4>1
        <3>2. CASE ~(k <= Len(A))
            <4>1. words'[k] = B[k - Len(A)] /\ k - Len(A) \in 1..Len(B)
                BY <2>2, <2>3, <3>2
            <4>2. QED
                BY <2>1, <4>1
        <3>3. QED
            BY <3>1, <3>2
    <2>5. line' = line /\ src' = src
        BY <1>1 DEF lexVars
    <2>6. words' \in Seq([redir : BOOLEAN, text : Seq(Chars), scan : BOOLEAN])
        BY <2>2, <2>3 DEF R
    <2>7. QED
        BY <1>5, <2>4, <2>5, <2>6 DEF ExpInv, WordsShape
<1>7. BufferShape'
    BY <1>1, <1>5 DEF ExpInv, BufferShape
<1>8. Recorded'
    <2>1. slots' = << >> /\ targets' = << >>
        BY <1>1, <1>2
    <2>2. AllEnded(slots, buf, Limit)' /\ AllEnded(targets, buf, Limit)'
        BY <2>1 DEF AllEnded
    <2>3. base' \in Nat /\ base' <= Len(slots')
        BY <1>1, <1>2 DEF ExpInv, Recorded
    <2>4. QED
        BY <2>1, <2>2, <2>3 DEF Recorded
<1>9. QED
    BY <1>2, <1>3, <1>4, <1>5, <1>6, <1>7, <1>8 DEF ExpInv

-------------------------------------------------------------------------------
(* The invariant, and what it gives                                             *)

\* The lexer begins before the line, and build_command with nothing.
LEMMA InitExpansion == Init => ExpInv
<1> SUFFICES ASSUME Init PROVE ExpInv
    OBVIOUS
<1>1. line \in Seq(Chars) /\ Len(line) \in Nat
    BY LinesAssumption DEF Init, LexInit
<1>2. LexShape
    BY <1>1 DEF Init, LexInit, LexShape, Building
<1>3. TokensShape
    BY DEF Init, LexInit, TokensShape
<1>4. WordsShape
    BY <1>1 DEF Init, WordsShape, Scanning
<1>5. BufferShape /\ ~Writing
    BY DEF Init, BufferShape, Writing, Has
<1>6. Recorded
    BY DEF Init, Recorded, AllEnded
<1>7. QED
    BY <1>2, <1>3, <1>4, <1>5, <1>6 DEF Init, ExpInv, Steps

\* A token is lexed: what build_command holds is not touched.
LEMMA LexTokenKeeps ==
    ASSUME ExpInv, LexToken, UNCHANGED expVars
    PROVE  ExpInv' /\ buf' = buf /\ slots' = slots /\ targets' = targets
<1>1. LexShape' /\ TokensShape'
    BY LexTokenShape DEF ExpInv
<1>2. line' = line
    BY DEF LexToken
<1>3. UNCHANGED <<value, step, words, src, exp, buf, slots, seg, base, targets>>
    BY DEF expVars
<1>4. WordsShape'
    BY <1>2, <1>3 DEF ExpInv, WordsShape, Scanning, Word
<1>5. BufferShape'
    BY <1>3 DEF ExpInv, BufferShape, Writing, Has
<1>6. Recorded'
    <2>1. Limit' = Limit
        BY <1>3 DEF Limit, Writing, Has
    <2>2. AllEnded(slots, buf, Limit)' /\ AllEnded(targets, buf, Limit)'
        BY <1>3, <2>1 DEF ExpInv, Recorded
    <2>3. QED
        BY <1>3, <2>2 DEF ExpInv, Recorded
<1>7. QED
    BY <1>1, <1>3, <1>4, <1>5, <1>6 DEF ExpInv

\* What a step may not do to the texts that are recorded.
TextsStay ==
    /\ \A k \in DOMAIN slots \cap DOMAIN slots' :
          step # "lex" => TextOf(slots'[k], buf') = TextOf(slots[k], buf)
    /\ \A k \in DOMAIN targets : TextOf(targets'[k], buf') = TextOf(targets[k], buf)

\* Every step keeps the invariant and the texts.
LEMMA StepExpansion ==
    ASSUME ExpInv, [Next]_vars
    PROVE  ExpInv' /\ (TextsStay \/ UNCHANGED vars)
<1>1. ASSUME ExpInv' /\ Stands PROVE ExpInv' /\ (TextsStay \/ UNCHANGED vars)
    BY <1>1, StandsKeepsTexts DEF ExpInv, TextsStay
<1>2. CASE LexToken /\ UNCHANGED expVars
    BY <1>2, LexTokenKeeps DEF TextsStay
<1>3. CASE InitCommand
    <2>1. ExpInv' /\ slots = << >> /\ targets = << >>
        BY <1>3, InitCommandKeeps
    <2>2. step = "lex"
        BY <1>3 DEF InitCommand
    <2>3. DOMAIN targets = {}
        BY <2>1
    <2>4. QED
        BY <2>1, <2>2, <2>3 DEF TextsStay
<1>4. CASE PlainWord
    BY <1>1, <1>4, PlainWordKeeps
<1>5. CASE StartWord
    BY <1>1, <1>5, StartWordKeeps
<1>6. CASE ScanWord
    BY <1>1, <1>6, ScanWordKeeps
<1>7. CASE DelimitSegment
    BY <1>1, <1>7, DelimitSegmentKeeps
<1>8. CASE KeepSegment \/ EndSegment \/ SegmentOverrun
    BY <1>1, <1>8, OtherSegmentStepsKeep
<1>9. CASE EndWord
    BY <1>1, <1>9, EndWordKeeps
<1>10. CASE FinishArgs
    BY <1>1, <1>10, FinishArgsKeeps
<1>11. CASE UNCHANGED vars
    <2>1. UNCHANGED <<lexVars, value, step, words, src, exp, buf, slots, seg, base, targets>>
        BY <1>11 DEF vars, expVars
    <2>2. LexShape' /\ TokensShape'
        BY <2>1 DEF ExpInv, lexVars, LexShape, TokensShape, Building
    <2>3. WordsShape'
        BY <2>1 DEF ExpInv, lexVars, WordsShape, Scanning, Word
    <2>4. BufferShape'
        BY <2>1 DEF ExpInv, BufferShape, Writing, Has
    <2>5. Limit' = Limit
        BY <2>1 DEF Limit, Writing, Has
    <2>6. AllEnded(slots, buf, Limit)' /\ AllEnded(targets, buf, Limit)'
        BY <2>1, <2>5 DEF ExpInv, Recorded
    <2>7. Recorded'
        BY <2>1, <2>6 DEF ExpInv, Recorded
    <2>8. QED
        BY <1>11, <2>1, <2>2, <2>3, <2>4, <2>7 DEF ExpInv
<1>12. QED
    BY <1>2, <1>3, <1>4, <1>5, <1>6, <1>7, <1>8, <1>9, <1>10, <1>11 DEF Next, BuildCommand

\* The invariant gives the types.
LEMMA ExpansionTypes == ExpInv => TypeOK
<1> SUFFICES ASSUME ExpInv PROVE TypeOK
    OBVIOUS
<1>1. line \in Seq(Chars) /\ Len(line) \in Nat
    BY LineIs DEF ExpInv
<1>2. LexTypeOK
    <2>1. line \in Seq(STRING)
        <3>1. Chars \subseteq STRING
            BY DEF Chars
        <3>2. QED
            BY <1>1, <3>1, SeqMonotonic
    <2>2. ASSUME NEW k \in DOMAIN tokens
          PROVE  /\ tokens[k].type \in {"word", "operator"}
                 /\ tokens[k].text # << >>
                 /\ tokens[k].flags \subseteq TokenFlags
        <3>1. tokens \in Seq(Token) /\ k \in 1..Len(tokens)
            BY DEF ExpInv, TokensShape
        <3>2. tokens[k] \in Token
            BY <3>1
        <3>3. QED
            BY <3>1, <3>2 DEF ExpInv, TokensShape, Token
    <2>3. QED
        BY <2>1, <2>2 DEF ExpInv, LexShape, LexTypeOK
<1>3. /\ exp.flags \subseteq ExpFlags /\ exp.pos \in 0..Len(buf) /\ exp.len \in Nat
      /\ buf # << >> => Last(buf) = Nul
    <2>1. Len(buf) \in Nat
        BY DEF ExpInv, BufferShape
    <2>2. QED
        BY <2>1 DEF ExpInv, BufferShape, Last
<1>4. ASSUME NEW k \in DOMAIN slots, slots[k].arena = "FIELDS"
      PROVE  slots[k].at \in 0..(Len(buf) - 1)
    <2>1. slots \in Seq(Places) /\ k \in 1..Len(slots) /\ Ended(slots[k], buf, Limit)
        BY DEF ExpInv, Recorded, AllEnded
    <2>2. slots[k].at \in Nat
        <3>1. slots[k] \in Places
            BY <2>1
        <3>2. QED
            BY <1>4, <3>1 DEF Places
    <2>3. PICK e \in (slots[k].at + 1)..Limit : buf[e] = Nul
        BY <1>4, <2>1 DEF Ended
    <2>4. Limit \in Nat /\ Limit <= Len(buf) /\ Len(buf) \in Nat
        BY LimitIs DEF ExpInv
    <2>5. QED
        BY <2>2, <2>3, <2>4
<1>5. value \in Values \cup {NoValue} /\ step \in Steps /\ base <= Len(slots)
      /\ src \in 1..(Len(line) + 1)
    BY DEF ExpInv, Recorded, WordsShape
<1>6. QED
    BY <1>2, <1>3, <1>4, <1>5 DEF TypeOK

-------------------------------------------------------------------------------
(* Loops over the places of a text                                              *)

\* What holds of 0, and of n when it holds of n - 1, holds up to N.
LEMMA UpTo ==
    ASSUME NEW N \in Nat, NEW S, 0 \in S, \A n \in 1 .. N : n - 1 \in S => n \in S
    PROVE  \A n \in 0 .. N : n \in S
<1> DEFINE T == {n \in 0 .. N : n \notin S}
<1> SUFFICES ASSUME T # {} PROVE FALSE
    OBVIOUS
<1>1. T \in SUBSET Nat
    OBVIOUS
<1> HIDE DEF T
<1>2. PICK m \in T : \A k \in T : ~(<<k, m>> \in OpToRel(<, Nat))
    BY <1>1, NatLessThanWellFounded, WFMin
<1>3. m \in 0 .. N /\ m \notin S
    BY DEF T
<1>4. m # 0 /\ m - 1 \in 0 .. N
    BY <1>3
<1>5. m - 1 \notin T
    <2> SUFFICES ASSUME m - 1 \in T PROVE FALSE
        OBVIOUS
    <2>1. m \in Nat /\ m - 1 \in Nat /\ m - 1 < m
        BY <1>3, <1>4
    <2>2. <<m - 1, m>> \in OpToRel(<, Nat)
        BY <2>1 DEF OpToRel
    <2>3. QED
        BY <1>2, <2>2
<1>6. m - 1 \in S
    BY <1>4, <1>5 DEF T
<1>7. QED
    BY <1>3, <1>4, <1>6

\* The same downwards, from a place that it holds of and from all places behind.
LEMMA DownTo ==
    ASSUME NEW N \in Nat, NEW S, N + 1 \in S,
           \A r \in 1 .. N : (\A k \in r + 1 .. N + 1 : k \in S) => r \in S
    PROVE  \A r \in 1 .. N + 1 : r \in S
<1> DEFINE T == {n \in 0 .. N : \A k \in N + 1 - n .. N + 1 : k \in S}
<1>1. 0 \in T
    OBVIOUS
<1>2. ASSUME NEW n \in 1 .. N, n - 1 \in T PROVE n \in T
    <2>1. N + 1 - n \in 1 .. N
        OBVIOUS
    <2>2. \A k \in N + 1 - n + 1 .. N + 1 : k \in S
        BY <1>2
    <2>3. N + 1 - n \in S
        BY <2>1, <2>2
    <2>4. QED
        BY <2>2, <2>3
<1> HIDE DEF T
<1>3. N \in T
    BY <1>1, <1>2, UpTo
<1>4. QED
    BY <1>3 DEF T

\* f is the state of a loop at each of m places: a at the first, then a turn of G.
Loops(m, X, a, G, f) ==
    /\ f \in [1 .. m -> X] /\ f[1] = a
    /\ \A i \in 2 .. m : f[i] = G[i][f[i - 1]]

\* There is such a function.
LEMMA LoopExists ==
    ASSUME NEW m \in Nat \ {0}, NEW X, NEW a \in X, NEW G,
           \A i \in 2 .. m : G[i] \in [X -> X]
    PROVE  \E f : Loops(m, X, a, G, f)
<1> DEFINE S == {n \in 0 .. m - 1 : \E f : Loops(n + 1, X, a, G, f)}
<1>1. 0 \in S
    <2>1. Loops(0 + 1, X, a, G, [i \in 1 .. 1 |-> a])
        BY DEF Loops
    <2>2. QED
        BY <2>1
<1>2. ASSUME NEW n \in 1 .. m - 1, n - 1 \in S PROVE n \in S
    <2>1. PICK f : Loops(n, X, a, G, f)
        BY <1>2
    <2> DEFINE g == [i \in 1 .. n + 1 |-> IF i = n + 1 THEN G[n + 1][f[n]] ELSE f[i]]
    <2>2. n \in 1 .. n /\ n + 1 \in 2 .. m
        OBVIOUS
    <2>3. f[n] \in X /\ G[n + 1][f[n]] \in X
        BY <2>1, <2>2 DEF Loops
    <2>4. \A i \in 1 .. n : f[i] \in X /\ g[i] = f[i]
        BY <2>1 DEF Loops
    <2>5. g \in [1 .. n + 1 -> X] /\ g[1] = a
        BY <2>1, <2>2, <2>3, <2>4 DEF Loops
    <2>6. ASSUME NEW i \in 2 .. n + 1 PROVE g[i] = G[i][g[i - 1]]
        <3>1. CASE i = n + 1
            BY <2>2, <2>4, <3>1
        <3>2. CASE i # n + 1
            <4>1. i \in 2 .. n /\ i \in 1 .. n /\ i - 1 \in 1 .. n
                BY <3>2
            <4>2. f[i] = G[i][f[i - 1]]
                BY <2>1, <4>1 DEF Loops
            <4>3. QED
                BY <2>4, <4>1, <4>2
        <3>3. QED
            BY <3>1, <3>2
    <2> HIDE DEF g
    <2>7. Loops(n + 1, X, a, G, g)
        BY <2>5, <2>6 DEF Loops
    <2>8. QED
        BY <2>7
<1> HIDE DEF S
<1>3. m - 1 \in S
    BY <1>1, <1>2, UpTo
<1>4. QED
    BY <1>3 DEF S

\* f[r] is what is written from place r on: the piece W[r], then what comes from J[r] on.
Pieces(n, W, J, e, f) ==
    f = [r \in 1 .. n + 1 |-> IF r = n + 1 THEN e ELSE W[r] \o f[J[r]]]

\* There is such a function.
LEMMA PiecesExist ==
    ASSUME NEW n \in Nat, NEW W, NEW J, NEW e, \A r \in 1 .. n : J[r] \in r + 1 .. n + 1
    PROVE  \E f : Pieces(n, W, J, e, f)
<1> DEFINE From(k, f) == f = [r \in n + 1 - k .. n + 1 |->
                                IF r = n + 1 THEN e ELSE W[r] \o f[J[r]]]
           S == {k \in 0 .. n : \E f : From(k, f)}
<1>1. 0 \in S
    <2>1. From(0, [r \in n + 1 .. n + 1 |-> e])
        OBVIOUS
    <2> HIDE DEF From
    <2>2. QED
        BY <2>1
<1>2. ASSUME NEW k \in 1 .. n, k - 1 \in S PROVE k \in S
    <2>1. PICK f : From(k - 1, f)
        BY <1>2
    <2>2. PICK p \in 1 .. n : p = n + 1 - k
        OBVIOUS
    <2>3. n + 1 - (k - 1) = p + 1
        BY <2>2
    <2>4. \A r \in p + 1 .. n + 1 : f[r] = IF r = n + 1 THEN e ELSE W[r] \o f[J[r]]
        BY <2>1, <2>3
    <2> DEFINE g == [r \in p .. n + 1 |-> IF r = p THEN W[p] \o f[J[p]] ELSE f[r]]
    <2>5. \A r \in p + 1 .. n + 1 : g[r] = f[r]
        BY <2>2
    <2>6. ASSUME NEW r \in p .. n + 1
          PROVE  g[r] = IF r = n + 1 THEN e ELSE W[r] \o g[J[r]]
        <3>1. CASE r = p
            <4>1. J[p] \in p + 1 .. n + 1 /\ p # n + 1
                OBVIOUS
            <4>2. g[J[p]] = f[J[p]]
                BY <2>5, <4>1
            <4>3. QED
                BY <3>1, <4>1, <4>2
        <3>2. CASE r # p
            <4>1. r \in p + 1 .. n + 1
                BY <3>2
            <4>2. CASE r = n + 1
                BY <2>4, <2>5, <4>1, <4>2
            <4>3. CASE r # n + 1
                <5>1. r \in 1 .. n
                    BY <4>1, <4>3
                <5>2. J[r] \in p + 1 .. n + 1
                    BY <4>1, <5>1
                <5>3. g[J[r]] = f[J[r]]
                    BY <2>5, <5>2
                <5>4. QED
                    BY <2>4, <2>5, <4>1, <4>3, <5>3
            <4>4. QED
                BY <4>2, <4>3
        <3>3. QED
            BY <3>1, <3>2
    <2>7. g = [r \in p .. n + 1 |-> IF r = n + 1 THEN e ELSE W[r] \o g[J[r]]]
        <3> DEFINE h == [r \in p .. n + 1 |-> IF r = n + 1 THEN e ELSE W[r] \o g[J[r]]]
        <3>1. \A r \in p .. n + 1 : g[r] = h[r]
            BY <2>6
        <3>2. g = [r \in p .. n + 1 |-> g[r]] /\ h = [r \in p .. n + 1 |-> h[r]]
            OBVIOUS
        <3> HIDE DEF g, h
        <3>3. g = h
            BY <3>1, <3>2
        <3>4. QED
            BY <3>3 DEF h
    <2> HIDE DEF g
    <2>8. From(k, g)
        BY <2>2, <2>7
    <2> HIDE DEF From
    <2>9. QED
        BY <2>8
<1> HIDE DEF From, S
<1>3. n \in S
    BY <1>1, <1>2, UpTo
<1>4. PICK f : From(n, f)
    BY <1>3 DEF S
<1>5. n + 1 - n = 1
    OBVIOUS
<1>6. Pieces(n, W, J, e, f)
    BY <1>4, <1>5 DEF From, Pieces
<1>7. QED
    BY <1>6

-------------------------------------------------------------------------------
(* Places of a text in their order                                              *)

\* e goes through the places of A upwards, and n are all of them.
Picks(e, n, A) ==
    /\ e \in [1 .. n -> A]
    /\ \A i, j \in 1 .. n : i < j => e[i] < e[j]
    /\ \A a \in A : \E i \in 1 .. n : e[i] = a

\* t is what stands in s at the places of A.
Keeps(s, A, t) == \E e : Picks(e, Len(t), A) /\ \A k \in 1 .. Len(t) : t[k] = s[e[k]]

\* The first k of them.
Firsts(e, k, A) == {j \in A : \E i \in 1 .. k : j = e[i]}

\* They are k.
LEMMA PicksCount ==
    ASSUME NEW A \in SUBSET Nat, NEW n \in Nat, NEW e, Picks(e, n, A), NEW k \in 0 .. n
    PROVE  Cardinality(Firsts(e, k, A)) = k
<1>0. PICK B : B = {j \in A : \E i \in 1 .. k : j = e[i]}
    OBVIOUS
<1> DEFINE f == [i \in 1 .. k |-> e[i]]
<1>1. \A i \in 1 .. k : i \in 1 .. n /\ e[i] \in A /\ e[i] \in B
    BY <1>0 DEF Picks
<1>2. f \in [1 .. k -> B]
    BY <1>1
<1>3. ASSUME NEW i \in 1 .. k, NEW j \in 1 .. k, f[i] = f[j] PROVE i = j
    <2>1. e[i] = e[j] /\ e[i] \in Nat /\ i \in 1 .. n /\ j \in 1 .. n
        BY <1>1, <1>3
    <2>2. ~(i < j) /\ ~(j < i)
        BY <2>1 DEF Picks
    <2>3. QED
        BY <2>2
<1>4. \A b \in B : \E i \in 1 .. k : f[i] = b
    BY <1>0
<1> HIDE DEF f
<1>5. f \in Bijection(1 .. k, B)
    BY <1>2, <1>3, <1>4 DEF Bijection, Injection, Surjection, IsInjective
<1>6. QED
    <2>1. Cardinality(B) = k
        BY <1>5, FS_CountingElements DEF ExistsBijection
    <2>2. QED
        BY <1>0, <2>1 DEF Firsts

\* What is kept is what stands there, in its order.
LEMMA KeepsIs ==
    ASSUME NEW S, NEW s, NEW A \in SUBSET Nat, NEW t \in Seq(S), Keeps(s, A, t)
    PROVE  t = InOrder(s, A)
<1>1. PICK n \in Nat : n = Len(t)
    OBVIOUS
<1>2. PICK e : Picks(e, n, A) /\ \A k \in 1 .. n : t[k] = s[e[k]]
    BY <1>1 DEF Keeps
<1>3. ASSUME NEW k \in 1 .. n
      PROVE  e[k] \in A /\ Cardinality({j \in A : j <= e[k]}) = k
    <2>1. e[k] \in A
        BY <1>2 DEF Picks
    <2>2. {j \in A : j <= e[k]} = {j \in A : \E i \in 1 .. k : j = e[i]}
        <3>1. ASSUME NEW j \in A, j <= e[k] PROVE \E i \in 1 .. k : j = e[i]
            <4>1. PICK i \in 1 .. n : e[i] = j
                BY <1>2 DEF Picks
            <4>2. ~(k < i)
                <5>1. k < i => e[k] < e[i]
                    BY <1>2 DEF Picks
                <5>2. e[k] \in Nat /\ j \in Nat
                    BY <2>1
                <5>3. QED
                    BY <3>1, <4>1, <5>1, <5>2
            <4>3. QED
                BY <4>1, <4>2
        <3>2. ASSUME NEW i \in 1 .. k PROVE e[i] <= e[k]
            <4>1. i \in 1 .. n /\ (i < k => e[i] < e[k]) /\ e[i] \in A
                BY <1>2 DEF Picks
            <4>2. e[i] \in Nat /\ e[k] \in Nat
                BY <2>1, <4>1
            <4>3. QED
                BY <4>1, <4>2
        <3>3. QED
            BY <3>1, <3>2
    <2>3. k \in 0 .. n
        OBVIOUS
    <2>4. Cardinality(Firsts(e, k, A)) = k
        BY <1>2, <2>3, PicksCount
    <2>5. QED
        BY <2>1, <2>2, <2>4 DEF Firsts
<1>4. Cardinality(A) = n
    <2>1. A = {j \in A : \E i \in 1 .. n : j = e[i]}
        BY <1>2 DEF Picks
    <2>2. n \in 0 .. n
        OBVIOUS
    <2>3. Cardinality(Firsts(e, n, A)) = n
        BY <1>2, <2>2, PicksCount
    <2>4. QED
        BY <2>1, <2>3 DEF Firsts
<1>5. ASSUME NEW k \in 1 .. n
      PROVE  t[k] = s[CHOOSE i \in A : Cardinality({j \in A : j <= i}) = k]
    <2>1. ASSUME NEW i \in A, Cardinality({j \in A : j <= i}) = k PROVE i = e[k]
        <3>1. PICK m \in 1 .. n : e[m] = i
            BY <1>2 DEF Picks
        <3>2. Cardinality({j \in A : j <= e[m]}) = m
            BY <1>3
        <3>3. QED
            BY <2>1, <3>1, <3>2
    <2>2. (CHOOSE i \in A : Cardinality({j \in A : j <= i}) = k) = e[k]
        BY <1>3, <2>1
    <2>3. QED
        BY <1>2, <2>2
<1>6. t = [k \in 1 .. n |-> t[k]]
    BY <1>1
<1>7. QED
    BY <1>4, <1>5, <1>6 DEF InOrder

\* One part of a text and the next.
LEMMA KeepsBoth ==
    ASSUME NEW S, NEW s, NEW A \in SUBSET Nat, NEW B \in SUBSET Nat,
           \A a \in A, b \in B : a < b,
           NEW t \in Seq(S), NEW u \in Seq(S), Keeps(s, A, t), Keeps(s, B, u)
    PROVE  Keeps(s, A \cup B, t \o u)
<1>1. PICK n \in Nat, m \in Nat : n = Len(t) /\ m = Len(u)
    OBVIOUS
<1>2. PICK v : v = t \o u
    OBVIOUS
<1>3. /\ Len(v) = n + m /\ \A k \in 1 .. n : v[k] = t[k]
      /\ \A k \in n + 1 .. n + m : v[k] = u[k - n]
    BY <1>1, <1>2
<1>4. PICK d : Picks(d, n, A) /\ \A k \in 1 .. n : t[k] = s[d[k]]
    BY <1>1 DEF Keeps
<1>5. PICK e : Picks(e, m, B) /\ \A k \in 1 .. m : u[k] = s[e[k]]
    BY <1>1 DEF Keeps
<1> DEFINE g == [k \in 1 .. n + m |-> IF k <= n THEN d[k] ELSE e[k - n]]
<1>6. \A k \in 1 .. n + m : \/ k \in 1 .. n /\ g[k] = d[k] /\ d[k] \in A
                            \/ k > n /\ k - n \in 1 .. m /\ g[k] = e[k - n] /\ e[k - n] \in B
    BY <1>4, <1>5 DEF Picks
<1>7. g \in [1 .. n + m -> A \cup B]
    BY <1>6
<1>8. \A k \in 1 .. n : k \in 1 .. n + m /\ g[k] = d[k]
    OBVIOUS
<1>9. \A k \in 1 .. m : k + n \in 1 .. n + m /\ g[k + n] = e[k]
    OBVIOUS
<1> HIDE DEF g
<1>10. ASSUME NEW i \in 1 .. n + m, NEW j \in 1 .. n + m, i < j PROVE g[i] < g[j]
    <2>1. CASE j \in 1 .. n
        <3>1. i \in 1 .. n /\ d[i] < d[j]
            BY <1>4, <1>10, <2>1 DEF Picks
        <3>2. QED
            BY <1>8, <2>1, <3>1
    <2>2. CASE i \in 1 .. n /\ ~(j \in 1 .. n)
        <3>1. g[i] = d[i] /\ d[i] \in A /\ g[j] = e[j - n] /\ e[j - n] \in B
            BY <1>6, <2>2
        <3>2. QED
            BY <3>1
    <2>3. CASE ~(i \in 1 .. n)
        <3>1. i - n \in 1 .. m /\ j - n \in 1 .. m /\ i - n < j - n /\ ~(j \in 1 .. n)
            BY <1>10, <2>3
        <3>2. e[i - n] < e[j - n]
            BY <1>5, <3>1 DEF Picks
        <3>3. g[i] = e[i - n] /\ g[j] = e[j - n]
            BY <1>6, <2>3, <3>1
        <3>4. QED
            BY <3>2, <3>3
    <2>4. QED
        BY <2>1, <2>2, <2>3
<1>11. ASSUME NEW a \in A \cup B PROVE \E k \in 1 .. n + m : g[k] = a
    <2>1. CASE a \in A
        BY <1>4, <1>8, <2>1 DEF Picks
    <2>2. CASE a \in B
        <3>1. PICK k \in 1 .. m : e[k] = a
            BY <1>5, <2>2 DEF Picks
        <3>2. QED
            BY <1>9, <3>1
    <2>3. QED
        BY <2>1, <2>2
<1>12. Picks(g, n + m, A \cup B)
    BY <1>7, <1>10, <1>11 DEF Picks
<1>13. \A k \in 1 .. n + m : v[k] = s[g[k]]
    BY <1>3, <1>4, <1>5, <1>6
<1>14. Keeps(s, A \cup B, v)
    <2>1. Picks(g, Len(v), A \cup B) /\ \A k \in 1 .. Len(v) : v[k] = s[g[k]]
        BY <1>3, <1>12, <1>13
    <2>2. QED
        BY <2>1 DEF Keeps
<1>15. QED
    BY <1>2, <1>14

\* An interval of a text.
LEMMA KeepsPart ==
    ASSUME NEW S, NEW s \in Seq(S), NEW a \in Nat \ {0}, NEW b \in Nat, b <= Len(s), a <= b + 1
    PROVE  Keeps(s, a .. b, SubSeq(s, a, b)) /\ SubSeq(s, a, b) \in Seq(S)
<1>1. PICK n \in Nat : n = b + 1 - a
    OBVIOUS
<1>2. PICK t : t = SubSeq(s, a, b)
    OBVIOUS
<1>3. t \in Seq(S) /\ Len(t) = n /\ \A k \in 1 .. n : t[k] = s[a + k - 1]
    <2>1. \A k \in a .. b : s[k] \in S
        OBVIOUS
    <2>2. QED
        BY <1>1, <1>2, <2>1, SubSeqProperties
<1> DEFINE e == [k \in 1 .. n |-> a + k - 1]
<1>4. e \in [1 .. n -> a .. b] /\ \A k \in 1 .. n : e[k] = a + k - 1
    BY <1>1
<1>5. \A c \in a .. b : c - a + 1 \in 1 .. n /\ e[c - a + 1] = c
    BY <1>1
<1> HIDE DEF e
<1>6. Picks(e, n, a .. b)
    BY <1>4, <1>5 DEF Picks
<1>7. QED
    BY <1>2, <1>3, <1>4, <1>6 DEF Keeps

-------------------------------------------------------------------------------
(* Quote removal                                                                *)

\* The quotation that place i + 1 of w stands in, when place i stands in q.
Quoted(w, i, q) ==
    IF q = Nul THEN IF Opens(w, i) THEN w[i] ELSE Nul
    ELSE IF w[i] = q THEN Nul ELSE q

\* Quotation, place by place.
LEMMA QuotationIs ==
    ASSUME NEW w \in Seq(Chars)
    PROVE  \E in : /\ in = Quotation(w)
                   /\ in \in [1 .. Len(w) + 1 -> Bytes]
                   /\ in[1] = Nul
                   /\ \A i \in 1 .. Len(w) : in[i + 1] = Quoted(w, i, in[i])
<1>1. PICK n \in Nat : n = Len(w)
    OBVIOUS
<1>2. \A i \in 1 .. n : w[i] \in Bytes
    BY <1>1 DEF Bytes
<1> DEFINE G == [i \in 2 .. n + 1 |-> [q \in Bytes |-> Quoted(w, i - 1, q)]]
           Body(f) == [i \in 1 .. Len(w) + 1 |->
                          IF i = 1 THEN Nul ELSE Quoted(w, i - 1, f[i - 1])]
           in == CHOOSE f : f = Body(f)
<1>3. Quotation(w) = in
    BY Zenon DEF Quotation, Quoted, Nul
<1>4. \A i \in 2 .. n + 1 : \A q \in Bytes : Quoted(w, i - 1, q) \in Bytes
    BY <1>2 DEF Quoted, Bytes
<1>5. Nul \in Bytes
    BY DEF Bytes
<1>6. \E f : Loops(n + 1, Bytes, Nul, G, f)
    <2>1. \A i \in 2 .. n + 1 : G[i] \in [Bytes -> Bytes]
        BY <1>4
    <2> HIDE DEF G
    <2>2. n + 1 \in Nat \ {0}
        OBVIOUS
    <2>3. QED
        BY <1>5, <2>1, <2>2, LoopExists
<1>7. PICK g : Loops(n + 1, Bytes, Nul, G, g)
    BY <1>6
<1>8. g = Body(g)
    <2>1. g \in [1 .. n + 1 -> Bytes] /\ g[1] = Nul
        BY <1>7 DEF Loops
    <2>2. ASSUME NEW i \in 2 .. n + 1 PROVE g[i] = Quoted(w, i - 1, g[i - 1])
        <3>1. g[i] = G[i][g[i - 1]] /\ i - 1 \in 1 .. n + 1
            BY <1>7 DEF Loops
        <3>2. g[i - 1] \in Bytes
            BY <2>1, <3>1
        <3>3. QED
            BY <3>1, <3>2
    <2>3. \A i \in 1 .. n + 1 : g[i] = IF i = 1 THEN Nul ELSE Quoted(w, i - 1, g[i - 1])
        BY <2>1, <2>2
    <2>4. QED
        BY <1>1, <2>1, <2>3
<1>9. in = Body(in)
    <2> HIDE DEF Body
    <2>1. QED
        BY <1>8
<1> HIDE DEF in
<1>10. DOMAIN in = 1 .. n + 1 /\ in[1] = Nul
    BY <1>1, <1>9
<1>11. \A i \in 1 .. n : in[i + 1] = Quoted(w, i, in[i])
    <2>1. TAKE i \in 1 .. n
    <2>2. i + 1 \in 1 .. Len(w) + 1 /\ i + 1 # 1 /\ (i + 1) - 1 = i
        BY <1>1
    <2>3. in[i + 1] = IF i + 1 = 1 THEN Nul ELSE Quoted(w, (i + 1) - 1, in[(i + 1) - 1])
        BY <1>9, <2>2
    <2>4. QED
        BY <2>2, <2>3
<1>12. \A i \in 1 .. n + 1 : in[i] \in Bytes
    <2> DEFINE S == {k \in 0 .. n : in[k + 1] \in Bytes}
    <2>1. 0 \in S
        BY <1>5, <1>10
    <2>2. ASSUME NEW k \in 1 .. n, k - 1 \in S PROVE k \in S
        <3>1. in[k] \in Bytes
            BY <2>2
        <3>2. k + 1 \in 2 .. n + 1 /\ (k + 1) - 1 = k
            OBVIOUS
        <3>3. Quoted(w, k, in[k]) \in Bytes
            BY <1>4, <3>1, <3>2
        <3>4. QED
            BY <1>11, <3>3
    <2> HIDE DEF S
    <2>3. \A k \in 0 .. n : k \in S
        BY <2>1, <2>2, UpTo
    <2>4. TAKE i \in 1 .. n + 1
    <2>5. i - 1 \in 0 .. n /\ (i - 1) + 1 = i
        OBVIOUS
    <2>6. i - 1 \in S
        BY <2>3, <2>5
    <2>7. QED
        BY <2>5, <2>6 DEF S
<1>13. in \in [1 .. n + 1 -> Bytes]
    <2>1. in = [i \in 1 .. n + 1 |-> in[i]]
        BY <1>1, <1>9
    <2>2. QED
        BY <1>12, <2>1
<1>14. QED
    BY <1>1, <1>3, <1>10, <1>11, <1>13

\* ft_indchr finds the first quote that closes the one at r.
LEMMA ClosedAtIs ==
    ASSUME NEW s \in Seq(Chars), NEW r \in 1 .. Len(s)
    PROVE  /\ ClosedAt(s, r) = 0 <=> ~Opens(s, r)
           /\ ClosedAt(s, r) # 0 =>
                /\ ClosedAt(s, r) \in r + 1 .. Len(s) /\ s[ClosedAt(s, r)] = s[r]
                /\ \A k \in r + 1 .. ClosedAt(s, r) - 1 : s[k] # s[r]
<1> DEFINE T == {j \in r + 1 .. Len(s) : s[j] = s[r]}
<1>1. T \in SUBSET Nat
    OBVIOUS
<1>2. CASE s[r] \notin Quotes \/ T = {}
    <2>1. ClosedAt(s, r) = 0
        BY <1>2 DEF ClosedAt
    <2>2. ~Opens(s, r)
        BY <1>2 DEF Opens
    <2>3. QED
        BY <2>1, <2>2
<1>3. CASE s[r] \in Quotes /\ T # {}
    <2>1. ClosedAt(s, r) = Min(T)
        BY <1>3 DEF ClosedAt
    <2>2. Opens(s, r)
        BY <1>3 DEF Opens
    <2>3. Min(T) \in T /\ \A y \in T : Min(T) <= y
        <3> HIDE DEF T
        <3>1. QED
            BY <1>1, <1>3, MinIsLeast
    <2>4. PICK c : c = ClosedAt(s, r)
        OBVIOUS
    <2>5. c \in T /\ \A y \in T : c <= y
        BY <2>1, <2>3, <2>4
    <2>6. c \in r + 1 .. Len(s) /\ s[c] = s[r] /\ c # 0
        BY <2>5
    <2>7. \A k \in r + 1 .. c - 1 : s[k] # s[r]
        <3>1. TAKE k \in r + 1 .. c - 1
        <3>2. k \in r + 1 .. Len(s) /\ ~(c <= k)
            BY <2>6
        <3>3. QED
            BY <2>5, <3>2
    <2>8. QED
        BY <2>2, <2>4, <2>6, <2>7
<1>4. QED
    BY <1>2, <1>3

\* The piece quote_remove copies from r on, and where it goes on.
Copied(s, r) == IF ClosedAt(s, r) = 0 THEN <<s[r]>> ELSE SubSeq(s, r + 1, ClosedAt(s, r) - 1)
Onwards(s, r) == IF ClosedAt(s, r) = 0 THEN r + 1 ELSE ClosedAt(s, r) + 1

\* It goes on behind.
LEMMA OnwardsIs ==
    ASSUME NEW s \in Seq(Chars), NEW r \in 1 .. Len(s)
    PROVE  Onwards(s, r) \in r + 1 .. Len(s) + 1
BY ClosedAtIs DEF Onwards

\* quote_remove copies pieces.
LEMMA QuoteRemoveIs ==
    ASSUME NEW s \in Seq(Chars)
    PROVE  \E f : /\ QuoteRemove(s) = f[1] /\ f[Len(s) + 1] = << >>
                  /\ \A r \in 1 .. Len(s) : f[r] = Copied(s, r) \o f[Onwards(s, r)]
<1>1. PICK n \in Nat : n = Len(s)
    OBVIOUS
<1> DEFINE Body(f) == [r \in 1 .. (Len(s) + 1) |->
                IF r > Len(s) THEN << >>
                ELSE IF ClosedAt(s, r) = 0 THEN <<s[r]>> \o f[r + 1]
                ELSE SubSeq(s, r + 1, ClosedAt(s, r) - 1) \o f[ClosedAt(s, r) + 1]]
           From == CHOOSE f : f = Body(f)
           W == [r \in 1 .. n |-> Copied(s, r)]
           J == [r \in 1 .. n |-> Onwards(s, r)]
<1>2. QuoteRemove(s) = From[1]
    BY Zenon DEF QuoteRemove
<1>3. \E f : Pieces(n, W, J, << >>, f)
    <2>1. \A r \in 1 .. n : J[r] \in r + 1 .. n + 1
        BY <1>1, OnwardsIs
    <2> HIDE DEF W, J
    <2>2. QED
        BY <2>1, PiecesExist
<1>4. PICK g : Pieces(n, W, J, << >>, g)
    BY <1>3
<1>5. g = Body(g)
    <2>1. g = [r \in 1 .. n + 1 |-> IF r = n + 1 THEN << >> ELSE W[r] \o g[J[r]]]
        BY <1>4 DEF Pieces
    <2>2. ASSUME NEW r \in 1 .. n + 1
          PROVE  g[r] = IF r > Len(s) THEN << >>
                        ELSE IF ClosedAt(s, r) = 0 THEN <<s[r]>> \o g[r + 1]
                        ELSE SubSeq(s, r + 1, ClosedAt(s, r) - 1) \o g[ClosedAt(s, r) + 1]
        <3>1. CASE r = n + 1
            <4>1. r > Len(s)
                BY <1>1, <3>1
            <4>2. g[r] = << >>
                BY <2>1, <3>1
            <4>3. QED
                BY <4>1, <4>2
        <3>2. CASE r # n + 1
            <4>1. r \in 1 .. n /\ ~(r > Len(s))
                BY <1>1, <3>2
            <4>2. g[r] = W[r] \o g[J[r]]
                BY <2>1, <3>2
            <4>3. W[r] = Copied(s, r) /\ J[r] = Onwards(s, r)
                BY <4>1
            <4>4. g[r] = Copied(s, r) \o g[Onwards(s, r)]
                BY <4>2, <4>3
            <4>5. QED
                BY <4>1, <4>4 DEF Copied, Onwards
        <3>3. QED
            BY <3>1, <3>2
    <2>3. Body(g) = [r \in 1 .. n + 1 |-> Body(g)[r]] /\ \A r \in 1 .. n + 1 : g[r] = Body(g)[r]
        BY <1>1, <2>2
    <2>4. g = [r \in 1 .. n + 1 |-> g[r]]
        BY <2>1
    <2> HIDE DEF Body
    <2>5. QED
        BY <2>3, <2>4
<1>6. From = Body(From)
    <2> HIDE DEF Body
    <2>1. QED
        BY <1>5
<1> HIDE DEF From
<1>7. From[Len(s) + 1] = << >>
    BY <1>1, <1>6
<1>8. ASSUME NEW r \in 1 .. Len(s) PROVE From[r] = Copied(s, r) \o From[Onwards(s, r)]
    <2>1. r \in 1 .. Len(s) + 1 /\ ~(r > Len(s))
        BY <1>1
    <2>2. From[r] = IF ClosedAt(s, r) = 0 THEN <<s[r]>> \o From[r + 1]
                    ELSE SubSeq(s, r + 1, ClosedAt(s, r) - 1) \o From[ClosedAt(s, r) + 1]
        BY <1>6, <2>1
    <2>3. QED
        BY <2>2 DEF Copied, Onwards
<1>9. QED
    BY <1>2, <1>7, <1>8

\* The places from r on that no quotation begins or ends at.
KeptFrom(in, r, n) == {i \in r .. n : ~(in[i] # in[i + 1])}

\* Inside the quotation that begins at r all stands in the same one, up to its end.
LEMMA InsideQuotation ==
    ASSUME NEW s \in Seq(Chars), NEW in \in [1 .. Len(s) + 1 -> Bytes],
           \A i \in 1 .. Len(s) : in[i + 1] = Quoted(s, i, in[i]),
           NEW r \in 1 .. Len(s), in[r] = Nul, Opens(s, r)
    PROVE  LET c == ClosedAt(s, r)
           IN /\ c \in r + 1 .. Len(s) /\ in[c + 1] = Nul
              /\ s[r] # Nul /\ \A k \in r + 1 .. c : in[k] = s[r]
<1>1. PICK c \in r + 1 .. Len(s) : /\ c = ClosedAt(s, r) /\ s[c] = s[r]
                                   /\ \A k \in r + 1 .. c - 1 : s[k] # s[r]
    BY ClosedAtIs
<1>2. s[r] # Nul
    BY DEF Chars
<1>3. in[r + 1] = s[r]
    BY DEF Quoted
<1> DEFINE S == {k \in 0 .. c - (r + 1) : in[r + 1 + k] = s[r]}
<1>4. 0 \in S
    BY <1>3
<1>5. ASSUME NEW k \in 1 .. c - (r + 1), k - 1 \in S PROVE k \in S
    <2>1. PICK j : j = r + k
        OBVIOUS
    <2>2. in[j] = s[r] /\ j \in r + 1 .. c - 1 /\ j \in 1 .. Len(s)
        BY <1>5, <2>1
    <2>3. s[j] # s[r]
        BY <1>1, <2>2
    <2>4. in[j + 1] = s[r]
        BY <1>2, <2>2, <2>3 DEF Quoted
    <2>5. r + 1 + k = j + 1
        BY <2>1
    <2>6. QED
        BY <2>4, <2>5
<1> HIDE DEF S
<1>6. \A k \in 0 .. c - (r + 1) : k \in S
    <2>1. c - (r + 1) \in Nat
        OBVIOUS
    <2>2. QED
        BY <1>4, <1>5, <2>1, UpTo
<1>7. \A k \in r + 1 .. c : in[k] = s[r]
    <2>1. TAKE k \in r + 1 .. c
    <2>2. k - (r + 1) \in 0 .. c - (r + 1) /\ r + 1 + (k - (r + 1)) = k
        OBVIOUS
    <2>3. k - (r + 1) \in S
        BY <1>6, <2>2
    <2>4. QED
        BY <2>2, <2>3 DEF S
<1>8. in[c + 1] = Nul
    <2>1. in[c] = s[r] /\ c \in 1 .. Len(s)
        BY <1>7
    <2>2. QED
        BY <1>1, <1>2, <2>1 DEF Quoted
<1>9. QED
    BY <1>1, <1>2, <1>7, <1>8

\* What quote_remove leaves of a word is what is in it besides the quotations' ends.
LEMMA QuotesAreRemoved ==
    ASSUME NEW s \in Seq(Chars)
    PROVE  QuoteRemove(s) = QuotesRemoved(s)
<1>1. PICK n \in Nat : n = Len(s)
    OBVIOUS
<1>2. PICK in : /\ in = Quotation(s) /\ in \in [1 .. n + 1 -> Bytes] /\ in[1] = Nul
                /\ \A i \in 1 .. n : in[i + 1] = Quoted(s, i, in[i])
    BY <1>1, QuotationIs
<1>3. PICK f : /\ QuoteRemove(s) = f[1] /\ f[n + 1] = << >>
               /\ \A r \in 1 .. n : f[r] = Copied(s, r) \o f[Onwards(s, r)]
    BY <1>1, QuoteRemoveIs
<1> DEFINE K(r) == KeptFrom(in, r, n)
           S == {r \in 1 .. n + 1 :
                    in[r] = Nul => f[r] \in Seq(Chars) /\ Keeps(s, K(r), f[r])}
<1>4. n + 1 \in S
    <2>1. K(n + 1) = {}
        BY DEF KeptFrom
    <2>2. Picks(<< >>, 0, {})
        BY DEF Picks
    <2>3. << >> \in Seq(Chars) /\ Len(<< >>) = 0
        OBVIOUS
    <2>4. Keeps(s, {}, << >>)
        BY <2>2, <2>3 DEF Keeps
    <2>5. f[n + 1] \in Seq(Chars) /\ Keeps(s, K(n + 1), f[n + 1])
        BY <1>3, <2>1, <2>3, <2>4
    <2>6. n + 1 \in 1 .. n + 1
        OBVIOUS
    <2> HIDE DEF K
    <2>7. QED
        BY <2>5, <2>6
<1>5. ASSUME NEW r \in 1 .. n, \A k \in r + 1 .. n + 1 : k \in S PROVE r \in S
    <2>1. SUFFICES ASSUME in[r] = Nul PROVE f[r] \in Seq(Chars) /\ Keeps(s, K(r), f[r])
        OBVIOUS
    <2>2. PICK w, j : w = Copied(s, r) /\ j = Onwards(s, r)
        OBVIOUS
    <2>3. f[r] = w \o f[j] /\ j \in r + 1 .. n + 1
        BY <1>1, <1>3, <2>2, OnwardsIs
    <2>4. in[j] = Nul /\ \E a \in Nat \ {0}, b \in Nat :
            /\ b <= n /\ a <= b + 1 /\ b < j /\ w = SubSeq(s, a, b) /\ K(r) = (a .. b) \cup K(j)
        <3>1. CASE ~Opens(s, r)
            <4>1. j = r + 1 /\ w = <<s[r]>>
                BY <1>1, <2>2, <3>1, ClosedAtIs DEF Onwards, Copied
            <4>2. in[r + 1] = Nul
                BY <1>2, <2>1, <3>1 DEF Quoted
            <4>3. w = SubSeq(s, r, r)
                BY <1>1, <4>1
            <4>4. K(r) = (r .. r) \cup K(r + 1)
                BY <2>1, <4>2 DEF KeptFrom
            <4>5. r \in Nat \ {0} /\ r \in Nat /\ r <= n /\ r <= r + 1 /\ r < j
                BY <4>1
            <4>6. QED
                BY <4>1, <4>2, <4>3, <4>4, <4>5
        <3>2. CASE Opens(s, r)
            <4>1. PICK c \in r + 1 .. n : /\ c = ClosedAt(s, r) /\ in[c + 1] = Nul /\ s[r] # Nul
                                          /\ \A k \in r + 1 .. c : in[k] = s[r]
                BY <1>1, <1>2, <2>1, <3>2, InsideQuotation
            <4>2. j = c + 1 /\ w = SubSeq(s, r + 1, c - 1)
                <5>1. c # 0
                    OBVIOUS
                <5>2. QED
                    BY <2>2, <4>1, <5>1 DEF Onwards, Copied
            <4>3. K(r) = (r + 1 .. c - 1) \cup K(c + 1)
                <5>1. ASSUME NEW i \in r .. n
                      PROVE  in[i] = in[i + 1] <=> i \in (r + 1 .. c - 1) \cup K(c + 1)
                    <6>1. CASE i = r
                        <7>1. in[i] # in[i + 1] /\ ~(i \in r + 1 .. c - 1) /\ ~(i \in c + 1 .. n)
                            BY <2>1, <4>1, <6>1
                        <7>2. QED
                            BY <7>1 DEF KeptFrom
                    <6>2. CASE i \in r + 1 .. c - 1
                        <7>1. i \in r + 1 .. c /\ i + 1 \in r + 1 .. c
                            BY <6>2
                        <7>2. QED
                            BY <4>1, <6>2, <7>1
                    <6>3. CASE i = c
                        <7>1. in[i] = s[r] /\ in[i + 1] = Nul
                            BY <4>1, <6>3
                        <7>2. ~(i \in r + 1 .. c - 1) /\ ~(i \in c + 1 .. n)
                            BY <6>3
                        <7>3. QED
                            BY <4>1, <7>1, <7>2 DEF KeptFrom
                    <6>4. CASE i \in c + 1 .. n
                        <7>1. ~(i \in r + 1 .. c - 1)
                            BY <6>4
                        <7>2. QED
                            BY <6>4, <7>1 DEF KeptFrom
                    <6>5. QED
                        BY <6>1, <6>2, <6>3, <6>4
                <5>2. (r + 1 .. c - 1) \cup K(c + 1) \subseteq r .. n
                    BY DEF KeptFrom
                <5>3. QED
                    BY <5>1, <5>2 DEF KeptFrom
            <4>4. /\ r + 1 \in Nat \ {0} /\ c - 1 \in Nat /\ c - 1 <= n
                  /\ r + 1 <= c - 1 + 1 /\ c - 1 < j
                BY <4>2
            <4>5. QED
                BY <4>1, <4>2, <4>3, <4>4
        <3>3. QED
            BY <3>1, <3>2
    <2>5. PICK a \in Nat \ {0}, b \in Nat :
            /\ b <= n /\ a <= b + 1 /\ b < j /\ w = SubSeq(s, a, b) /\ K(r) = (a .. b) \cup K(j)
        BY <2>4
    <2>6. f[j] \in Seq(Chars) /\ Keeps(s, K(j), f[j])
        BY <1>5, <2>3, <2>4
    <2>7. w \in Seq(Chars) /\ Keeps(s, a .. b, w)
        BY <1>1, <2>5, KeepsPart
    <2>8. PICK A \in SUBSET Nat, B \in SUBSET Nat : A = a .. b /\ B = K(j)
        <3>1. a .. b \in SUBSET Nat
            OBVIOUS
        <3>2. K(j) \in SUBSET Nat
            BY <2>3 DEF KeptFrom
        <3> HIDE DEF K
        <3>3. QED
            BY <3>1, <3>2
    <2>9. \A x \in A, y \in B : x < y
        BY <2>3, <2>5, <2>8 DEF KeptFrom
    <2>10. Keeps(s, A \cup B, w \o f[j])
        BY <2>6, <2>7, <2>8, <2>9, KeepsBoth
    <2>11. w \o f[j] \in Seq(Chars)
        BY <2>6, <2>7
    <2>12. QED
        BY <2>3, <2>5, <2>8, <2>10, <2>11
<1> HIDE DEF S
<1>6. 1 \in S
    <2>1. \A r \in 1 .. n + 1 : r \in S
        BY <1>4, <1>5, DownTo
    <2>2. QED
        BY <2>1
<1>7. f[1] \in Seq(Chars) /\ Keeps(s, K(1), f[1])
    BY <1>2, <1>6 DEF S
<1>8. PICK A \in SUBSET Nat, t \in Seq(Chars) : A = K(1) /\ t = f[1]
    <2>1. K(1) \in SUBSET Nat
        BY DEF KeptFrom
    <2> HIDE DEF K
    <2>2. QED
        BY <1>7, <2>1
<1>9. t = InOrder(s, A)
    <2>1. Keeps(s, A, t)
        BY <1>7, <1>8
    <2>2. QED
        BY <2>1, KeepsIs
<1>10. QuotesRemoved(s) = InOrder(s, A)
    <2>1. A = {i \in DOMAIN s : ~IsDelimiter(s, Quotation(s), i)}
        BY <1>1, <1>2, <1>8 DEF IsDelimiter, KeptFrom
    <2>2. QuotesRemoved(s) = InOrder(s, {i \in DOMAIN s : ~IsDelimiter(s, Quotation(s), i)})
        BY Zenon DEF QuotesRemoved, InOrder
    <2>3. QED
        BY <2>1, <2>2
<1>11. QED
    BY <1>3, <1>8, <1>9, <1>10

-------------------------------------------------------------------------------
(* Sequences of texts                                                           *)

\* Two texts, one behind the other, and a part of one.
Join(t, u) == t \o u
Part(s, i, j) == SubSeq(s, i, j)

\* h[k] is what the first k texts of q make.
Made(h, q, n, Y) ==
    /\ h \in [0 .. n -> Y] /\ h[0] = << >>
    /\ \A k \in 1 .. n : h[k] = Join(h[k - 1], q[k])

\* FlattenSeq makes its texts piece by piece.
LEMMA FlattenIs ==
    ASSUME NEW X, NEW Y, Y = Seq(X), NEW n \in Nat, NEW q \in Seq(Y), Len(q) = n
    PROVE  \E h : Made(h, q, n, Y) /\ FlattenSeq(q) = h[n]
<1>0. Y = Seq(X)
    OBVIOUS
<1>1. \A k \in 1 .. n : q[k] \in Y
    BY <1>0
<1>2. CASE n = 0
    <2>1. FlattenSeq(q) = << >>
        BY <1>2 DEF FlattenSeq
    <2>2. PICK g : g = [k \in 0 .. 0 |-> << >>]
        OBVIOUS
    <2>3. << >> \in Y
        BY <1>0
    <2>4. g \in [0 .. 0 -> Y] /\ g[0] = << >>
        BY <2>2, <2>3
    <2>5. 1 .. n = {}
        BY <1>2
    <2>6. Made(g, q, n, Y)
        BY <1>2, <2>4, <2>5 DEF Made
    <2>7. QED
        BY <1>2, <2>1, <2>4, <2>6
<1>3. CASE n # 0
    <2> DEFINE G == [i \in 2 .. n |-> [x \in Y |-> x \o q[i]]]
               Body(f) == [i \in 1 .. Len(q) |-> IF i = 1 THEN q[i] ELSE f[i - 1] \o q[i]]
               flatten == CHOOSE f : f = Body(f)
    <2>1. FlattenSeq(q) = flatten[Len(q)]
        <3>1. Len(q) # 0
            BY <1>3
        <3>2. QED
            BY <3>1, Zenon DEF FlattenSeq
    <2>2. \A x \in Y, y \in Y : x \o y \in Y
        BY <1>0
    <2>3. \E f : Loops(n, Y, q[1], G, f)
        <3>1. \A i \in 2 .. n : G[i] \in [Y -> Y]
            BY <1>1, <2>2
        <3> HIDE DEF G
        <3>2. q[1] \in Y /\ n \in Nat \ {0}
            BY <1>1, <1>3
        <3>3. QED
            BY <3>1, <3>2, LoopExists
    <2>4. PICK g : Loops(n, Y, q[1], G, g)
        BY <2>3
    <2>5. g = Body(g)
        <3>1. g \in [1 .. n -> Y] /\ g[1] = q[1]
            BY <2>4 DEF Loops
        <3>2. ASSUME NEW i \in 2 .. n PROVE g[i] = g[i - 1] \o q[i]
            <4>0. i - 1 \in 1 .. n
                OBVIOUS
            <4>1. g[i] = G[i][g[i - 1]]
                <5> HIDE DEF G
                <5>1. QED
                    BY <2>4 DEF Loops
            <4>2. g[i - 1] \in Y
                BY <3>1, <4>0
            <4>3. QED
                BY <4>1, <4>2
        <3>3. \A i \in 1 .. n : g[i] = IF i = 1 THEN q[i] ELSE g[i - 1] \o q[i]
            <4>1. TAKE i \in 1 .. n
            <4>2. i = 1 \/ i \in 2 .. n
                OBVIOUS
            <4>3. i \in 2 .. n => i # 1
                OBVIOUS
            <4>4. QED
                BY <3>1, <3>2, <4>2, <4>3
        <3>4. g = [i \in 1 .. n |-> g[i]]
            BY <3>1
        <3>5. QED
            BY <3>3, <3>4
    <2>6. flatten = Body(flatten)
        <3> HIDE DEF Body
        <3>1. QED
            BY <2>5
    <2> HIDE DEF flatten
    <2>7. flatten[1] = q[1] /\ \A i \in 2 .. n : flatten[i] = flatten[i - 1] \o q[i]
        <3>1. \A i \in 1 .. n : flatten[i] = IF i = 1 THEN q[i] ELSE flatten[i - 1] \o q[i]
            BY <2>6
        <3>2. 1 \in 1 .. n /\ \A i \in 2 .. n : i \in 1 .. n /\ i # 1
            BY <1>3
        <3>3. QED
            BY <3>1, <3>2
    <2> DEFINE h == [k \in 0 .. n |-> IF k = 0 THEN << >> ELSE flatten[k]]
               S == {k \in 0 .. n - 1 : flatten[k + 1] \in Y}
    <2>8. \A k \in 1 .. n : flatten[k] \in Y
        <3>1. 0 \in S
            BY <1>1, <1>3, <2>7
        <3>2. ASSUME NEW k \in 1 .. n - 1, k - 1 \in S PROVE k \in S
            <4>1. flatten[k] \in Y /\ k + 1 \in 2 .. n /\ k + 1 \in 1 .. n /\ (k + 1) - 1 = k
                BY <3>2
            <4>2. flatten[k + 1] = flatten[k] \o q[k + 1] /\ q[k + 1] \in Y
                BY <1>1, <2>7, <4>1
            <4>3. flatten[k + 1] \in Y
                BY <2>2, <4>1, <4>2
            <4>4. k \in 0 .. n - 1
                OBVIOUS
            <4>5. QED
                BY <4>3, <4>4
        <3> HIDE DEF S
        <3>3. n - 1 \in Nat
            BY <1>3
        <3>4. \A k \in 0 .. n - 1 : k \in S
            BY <3>1, <3>2, <3>3, UpTo
        <3>5. TAKE k \in 1 .. n
        <3>6. k - 1 \in 0 .. n - 1 /\ (k - 1) + 1 = k
            OBVIOUS
        <3>7. k - 1 \in S
            BY <3>4, <3>6
        <3>8. QED
            BY <3>6, <3>7 DEF S
    <2>9. << >> \in Y
        BY <1>0
    <2>10. h \in [0 .. n -> Y] /\ h[0] = << >> /\ h[n] = flatten[n]
        BY <1>3, <2>8, <2>9
    <2>11. ASSUME NEW k \in 1 .. n PROVE h[k] = h[k - 1] \o q[k]
        <3>1. CASE k = 1
            <4>1. h[1] = q[1] /\ h[0] = << >>
                BY <1>3, <2>7
            <4>2. q[1] \in Seq(X)
                BY <1>0, <1>1, <1>3
            <4>3. << >> \o q[1] = q[1]
                BY <4>2
            <4> HIDE DEF h
            <4>4. QED
                BY <3>1, <4>1, <4>3
        <3>2. CASE k # 1
            <4>1. k \in 2 .. n /\ k # 0 /\ k - 1 # 0 /\ k - 1 \in 0 .. n /\ k \in 0 .. n
                BY <3>2
            <4>2. h[k] = flatten[k] /\ h[k - 1] = flatten[k - 1]
                BY <4>1
            <4> HIDE DEF h
            <4>3. QED
                BY <2>7, <4>1, <4>2
        <3>3. QED
            BY <3>1, <3>2
    <2>12. FlattenSeq(q) = h[n]
        BY <2>1, <2>10
    <2> HIDE DEF h
    <2>13. Made(h, q, n, Y)
        BY <2>10, <2>11 DEF Made, Join
    <2>14. QED
        BY <2>12, <2>13
<1>4. QED
    BY <1>2, <1>3

-------------------------------------------------------------------------------
(* The lines of a here-document                                                 *)

\* The lexer and the specification take the same place for a reference.
LEMMA StartIsReference ==
    ASSUME NEW s, NEW i
    PROVE  ReferenceAt(s, i) <=> IsExpansionStart(s, i)
BY DEF ReferenceAt, IsExpansionStart

\* A reference ends where get_expansion_len says, and none begins in its name.
LEMMA ReferenceEndIs ==
    ASSUME NEW s \in Seq(Chars), NEW i \in 1 .. Len(s), IsExpansionStart(s, i)
    PROVE  /\ ReferenceEnd(s, i) = i + GetExpansionLen(s, i) - 1
           /\ ReferenceEnd(s, i) \in i + 1 .. Len(s)
           /\ \A k \in i + 1 .. ReferenceEnd(s, i) : ~IsExpansionStart(s, k)
<1>1. PICK n \in Nat : n = Len(s)
    OBVIOUS
<1>2. PICK len \in 2 .. n + 1 - i : len = GetExpansionLen(s, i)
    BY <1>1, ExpansionLenIs
<1>3. PICK e \in i + 1 .. n : e = i + len - 1
    BY <1>1, <1>2
<1>4. \A k \in 1 .. n : CharAt(s, k) = s[k]
    BY <1>1 DEF CharAt
<1>5. CASE s[i + 1] \in SpecialParameters
    <2>1. ReferenceEnd(s, i) = i + 1 /\ len = 2
        BY <1>2, <1>5 DEF ReferenceEnd, GetExpansionLen
    <2>2. i + 1 \in 1 .. n /\ e = i + 1
        BY <1>2, <1>3, <2>1
    <2>3. CharAt(s, i + 1) # "$"
        BY <1>4, <1>5, <2>2 DEF SpecialParameters
    <2>4. ~IsExpansionStart(s, i + 1)
        BY <2>3 DEF IsExpansionStart
    <2>5. \A k \in i + 1 .. i + 1 : k = i + 1
        OBVIOUS
    <2>6. QED
        BY <1>1, <1>2, <1>3, <2>1, <2>2, <2>4, <2>5
<1>6. CASE s[i + 1] \notin SpecialParameters
    <2> DEFINE S == {m \in 2 .. (Len(s) + 1) : CharAt(s, i + m) \notin NameBodies}
               Ends(x) == /\ \A k \in (i + 1) .. x : s[k] \in NameBodies
                          /\ CharAt(s, x + 1) \notin NameBodies
    <2>1. len = Min(S)
        BY <1>2, <1>6 DEF GetExpansionLen
    <2>2. S \in SUBSET Nat
        BY <1>1
    <2>3. S # {}
        <3>1. n + 1 - i + i = n + 1 /\ i + (n + 1 - i) = n + 1 /\ n + 1 - i \in 2 .. n + 1
            BY <1>2
        <3>2. CharAt(s, n + 1) = Nul
            BY <1>1 DEF CharAt
        <3>3. CharAt(s, i + (n + 1 - i)) \notin NameBodies
            BY <3>1, <3>2, NamesAssumption
        <3>4. n + 1 - i \in S
            BY <1>1, <3>1, <3>3
        <3>5. QED
            BY <3>4
    <2>4. len \in S /\ \A m \in S : len <= m
        <3> HIDE DEF S
        <3>1. QED
            BY <2>1, <2>2, <2>3, MinIsLeast
    <2>5. i + 1 \in 1 .. n /\ s[i + 1] \in NameBodies
        <3>1. i + 1 \in 1 .. n
            BY <1>2
        <3>2. CharAt(s, i + 1) \in NameStarts \cup SpecialParameters
            BY DEF IsExpansionStart
        <3>3. QED
            BY <1>4, <1>6, <3>1, <3>2, NamesAssumption
    <2>6. ASSUME NEW k \in i + 1 .. e PROVE s[k] \in NameBodies
        <3>1. CASE k = i + 1
            BY <2>5, <3>1
        <3>2. CASE k # i + 1
            <4>1. PICK m : m = k - i
                OBVIOUS
            <4>2. m \in 2 .. n + 1 /\ m < len /\ i + m = k /\ k \in 1 .. n
                BY <1>3, <3>2, <4>1
            <4>3. m \notin S
                <5> HIDE DEF S
                <5>1. QED
                    BY <1>2, <2>4, <4>2
            <4>4. CharAt(s, k) \in NameBodies
                BY <1>1, <4>2, <4>3
            <4>5. QED
                BY <1>4, <4>2, <4>4
        <3>3. QED
            BY <3>1, <3>2
    <2>7. CharAt(s, e + 1) \notin NameBodies
        <3>1. CharAt(s, i + len) \notin NameBodies
            BY <2>4
        <3>2. i + len = e + 1
            BY <1>2, <1>3
        <3>3. QED
            BY <3>1, <3>2
    <2>8. Ends(e)
        BY <2>6, <2>7
    <2>9. ASSUME NEW x \in i + 1 .. n, Ends(x) PROVE x = e
        <3>1. CASE x < e
            <4>1. x + 1 \in i + 1 .. e /\ x + 1 \in 1 .. n
                BY <3>1
            <4>2. CharAt(s, x + 1) \in NameBodies
                BY <1>4, <2>6, <4>1
            <4>3. QED
                BY <2>9, <4>2
        <3>2. CASE e < x
            <4>1. e + 1 \in i + 1 .. x /\ e + 1 \in 1 .. n
                BY <3>2
            <4>2. CharAt(s, e + 1) \in NameBodies
                BY <1>4, <2>9, <4>1
            <4>3. QED
                BY <2>7, <4>2
        <3>3. QED
            BY <3>1, <3>2
    <2>10. ReferenceEnd(s, i) = CHOOSE x \in i + 1 .. n : Ends(x)
        BY <1>1, <1>6 DEF ReferenceEnd
    <2>11. ReferenceEnd(s, i) = e
        <3> HIDE DEF Ends
        <3>1. QED
            BY <2>8, <2>9, <2>10
    <2>12. ASSUME NEW k \in i + 1 .. e PROVE ~IsExpansionStart(s, k)
        <3>1. k \in 1 .. n
            OBVIOUS
        <3>2. CharAt(s, k) # "$"
            BY <1>4, <2>6, <3>1, NamesAssumption
        <3>3. QED
            BY <3>2 DEF IsExpansionStart
    <2>13. QED
        BY <1>1, <1>2, <1>3, <2>11, <2>12
<1>7. QED
    BY <1>5, <1>6

\* The references of a line, the places they take, and what each place becomes.
RefsOf(s) == {i \in DOMAIN s : ReferenceAt(s, i)}
NamedOf(s) == UNION {i .. ReferenceEnd(s, i) : i \in RefsOf(s)}
BodyPiece(s, i) ==
    IF i \in RefsOf(s) THEN ValueOf(SubSeq(s, i + 1, ReferenceEnd(s, i)))
    ELSE IF i \in NamedOf(s) THEN << >> ELSE <<s[i]>>
BodyPieces(s) == [i \in DOMAIN s |-> BodyPiece(s, i)]

\* The line of the specification is these pieces and a newline.
LEMMA BodyOfIs ==
    ASSUME NEW s
    PROVE  BodyOf(s, ValueOf) = FlattenSeq(BodyPieces(s)) \o <<NewLine>>
BY Zenon DEF BodyOf, BodyPieces, BodyPiece, RefsOf, NamedOf

\* get_expansion_value gives what a name is to become, a text.
LEMMA ExpansionValueIs ==
    ASSUME NEW name, value \in Values \cup {NoValue}
    PROVE  GetExpansionValue(name) = ValueOf(name) /\ ValueOf(name) \in Seq(Chars)
<1>1. StatusText \in Seq(Chars) /\ \A v \in Values : v \in Seq(Chars)
    BY ExpansionAssumption
<1>2. << >> \in Seq(Chars)
    OBVIOUS
<1>3. GetExpansionValue(name) = ValueOf(name)
    BY Zenon DEF GetExpansionValue, GetEnvFromSlice, ValueOf
<1>4. ValueOf(name) \in Seq(Chars)
    BY <1>1, <1>2 DEF ValueOf
<1>5. QED
    BY <1>3, <1>4

\* The references from place r on, the text up to the first with its value, and
\* the place behind it.
RefsFrom(s, r) == {i \in r .. Len(s) : IsExpansionStart(s, i)}
HereWritten(s, r) ==
    IF RefsFrom(s, r) = {} THEN SubSeq(s, r, Len(s))
    ELSE LET i == Min(RefsFrom(s, r))
         IN SubSeq(s, r, i - 1)
              \o GetExpansionValue(SubSeq(s, i + 1, i + GetExpansionLen(s, i) - 1))
Resumes(s, r) ==
    IF RefsFrom(s, r) = {} THEN Len(s) + 1
    ELSE Min(RefsFrom(s, r)) + GetExpansionLen(s, Min(RefsFrom(s, r)))

\* The first reference, and how far it reaches.
LEMMA FirstReference ==
    ASSUME NEW s \in Seq(Chars), NEW r \in 1 .. Len(s), RefsFrom(s, r) # {}
    PROVE  LET i == Min(RefsFrom(s, r))
           IN /\ i \in r .. Len(s) /\ IsExpansionStart(s, i)
              /\ \A k \in r .. i - 1 : ~IsExpansionStart(s, k)
              /\ GetExpansionLen(s, i) \in 2 .. Len(s) + 1 - i
<1>1. RefsFrom(s, r) \in SUBSET Nat
    BY DEF RefsFrom
<1>2. PICK i : i = Min(RefsFrom(s, r))
    OBVIOUS
<1>3. i \in RefsFrom(s, r) /\ \A k \in RefsFrom(s, r) : i <= k
    BY <1>1, <1>2, MinIsLeast
<1>4. i \in r .. Len(s) /\ IsExpansionStart(s, i)
    BY <1>3 DEF RefsFrom
<1>5. i \in 1 .. Len(s)
    BY <1>4
<1>6. ASSUME NEW k \in r .. i - 1 PROVE ~IsExpansionStart(s, k)
    <2>1. k \in r .. Len(s) /\ ~(i <= k)
        BY <1>4
    <2>2. k \notin RefsFrom(s, r)
        BY <1>3, <2>1
    <2>3. QED
        BY <2>1, <2>2 DEF RefsFrom
<1>7. GetExpansionLen(s, i) \in 2 .. Len(s) + 1 - i
    BY <1>4, <1>5, ExpansionLenIs
<1>8. QED
    BY <1>2, <1>4, <1>6, <1>7

\* The loop goes on behind the place where it stands.
LEMMA ResumesIs ==
    ASSUME NEW s \in Seq(Chars), NEW r \in 1 .. Len(s)
    PROVE  Resumes(s, r) \in r + 1 .. Len(s) + 1
<1>1. CASE RefsFrom(s, r) = {}
    BY <1>1 DEF Resumes
<1>2. CASE RefsFrom(s, r) # {}
    <2>1. PICK i, len : i = Min(RefsFrom(s, r)) /\ len = GetExpansionLen(s, i)
        OBVIOUS
    <2>2. i \in r .. Len(s) /\ len \in 2 .. Len(s) + 1 - i
        BY <1>2, <2>1, FirstReference
    <2>3. Resumes(s, r) = i + len
        BY <1>2, <2>1 DEF Resumes
    <2>4. QED
        BY <2>2, <2>3
<1>3. QED
    BY <1>1, <1>2

\* What is written of a line of a here-document, piece by piece.
LEMMA ExpandHereLineIs ==
    ASSUME NEW s \in Seq(Chars), value \in Values \cup {NoValue}
    PROVE  \E f : /\ ExpandHereLine(s) = f[1] /\ f[Len(s) + 1] = <<NewLine>>
                  /\ \A r \in 1 .. Len(s) : f[r] = HereWritten(s, r) \o f[Resumes(s, r)]
<1>1. PICK n \in Nat : n = Len(s)
    OBVIOUS
<1> DEFINE Body(f) == [start \in 1 .. (Len(s) + 1) |->
                IF RefsFrom(s, start) = {} THEN SubSeq(s, start, Len(s)) \o <<NewLine>>
                ELSE SubSeq(s, start, Min(RefsFrom(s, start)) - 1)
                     \o GetExpansionValue(SubSeq(s, Min(RefsFrom(s, start)) + 1,
                            Min(RefsFrom(s, start))
                                + GetExpansionLen(s, Min(RefsFrom(s, start))) - 1))
                     \o f[Min(RefsFrom(s, start))
                            + GetExpansionLen(s, Min(RefsFrom(s, start)))]]
           From == CHOOSE f : f = Body(f)
           W == [r \in 1 .. n |-> HereWritten(s, r)]
           J == [r \in 1 .. n |-> Resumes(s, r)]
<1>2. ExpandHereLine(s) = From[1]
    BY Zenon DEF ExpandHereLine, RefsFrom
<1>3. \E f : Pieces(n, W, J, <<NewLine>>, f)
    <2>1. \A r \in 1 .. n : J[r] \in r + 1 .. n + 1
        BY <1>1, ResumesIs
    <2> HIDE DEF W, J
    <2>2. QED
        BY <2>1, PiecesExist
<1>4. PICK g : Pieces(n, W, J, <<NewLine>>, g)
    BY <1>3
<1>5. RefsFrom(s, n + 1) = {}
    BY <1>1 DEF RefsFrom
<1>6. g = Body(g)
    <2>1. g = [r \in 1 .. n + 1 |-> IF r = n + 1 THEN <<NewLine>> ELSE W[r] \o g[J[r]]]
        BY <1>4 DEF Pieces
    <2>2. \A r \in 1 .. n + 1 : g[r] = IF r = n + 1 THEN <<NewLine>> ELSE W[r] \o g[J[r]]
        BY <2>1
    <2>3. g[n + 1] = <<NewLine>>
        <3>1. n + 1 \in 1 .. n + 1
            OBVIOUS
        <3> HIDE DEF Body, W, J
        <3>2. QED
            BY <2>2, <3>1
    <2>4. ASSUME NEW r \in 1 .. n + 1 PROVE g[r] = Body(g)[r]
        <3>1. r \in 1 .. Len(s) + 1
            BY <1>1
        <3>2. CASE r = n + 1
            <4>1. SubSeq(s, n + 1, n) = << >>
                BY SubSeqEmpty
            <4>2. << >> \o <<NewLine>> = <<NewLine>>
                OBVIOUS
            <4>3. Body(g)[r] = SubSeq(s, r, Len(s)) \o <<NewLine>>
                BY <1>5, <3>1, <3>2
            <4> HIDE DEF Body
            <4>4. QED
                BY <1>1, <2>3, <3>2, <4>1, <4>2, <4>3
        <3>3. CASE r # n + 1
            <4>1. r \in 1 .. n
                BY <3>3
            <4>2. g[r] = HereWritten(s, r) \o g[Resumes(s, r)]
                BY <2>2, <3>3, <4>1
            <4>3. CASE RefsFrom(s, r) = {}
                <5>1. g[r] = SubSeq(s, r, Len(s)) \o <<NewLine>>
                    BY <1>1, <2>3, <4>2, <4>3 DEF HereWritten, Resumes
                <5>2. QED
                    BY <3>1, <4>3, <5>1
            <4>4. CASE RefsFrom(s, r) # {}
                <5>1. g[r] = SubSeq(s, r, Min(RefsFrom(s, r)) - 1)
                             \o GetExpansionValue(SubSeq(s, Min(RefsFrom(s, r)) + 1,
                                    Min(RefsFrom(s, r))
                                        + GetExpansionLen(s, Min(RefsFrom(s, r))) - 1))
                             \o g[Min(RefsFrom(s, r))
                                    + GetExpansionLen(s, Min(RefsFrom(s, r)))]
                    BY <4>2, <4>4 DEF HereWritten, Resumes
                <5>2. QED
                    BY <3>1, <4>4, <5>1
            <4>5. QED
                BY <4>3, <4>4
        <3>4. QED
            BY <3>2, <3>3
    <2>5. g = [r \in 1 .. n + 1 |-> g[r]]
        BY <2>1
    <2>6. Body(g) = [r \in 1 .. n + 1 |-> Body(g)[r]]
        BY <1>1
    <2> HIDE DEF Body
    <2>7. QED
        BY <2>4, <2>5, <2>6
<1>7. From = Body(From)
    <2> HIDE DEF Body
    <2>1. QED
        BY <1>6
<1> HIDE DEF From
<1>8. From[Len(s) + 1] = <<NewLine>>
    <2>1. SubSeq(s, n + 1, n) = << >>
        BY SubSeqEmpty
    <2>2. << >> \o <<NewLine>> = <<NewLine>>
        OBVIOUS
    <2>3. Body(From)[n + 1] = SubSeq(s, n + 1, n) \o <<NewLine>>
        BY <1>1, <1>5
    <2> HIDE DEF Body
    <2>4. QED
        BY <1>1, <1>7, <2>1, <2>2, <2>3
<1>9. ASSUME NEW r \in 1 .. Len(s) PROVE From[r] = HereWritten(s, r) \o From[Resumes(s, r)]
    <2>1. r \in 1 .. Len(s) + 1
        BY <1>1
    <2>2. CASE RefsFrom(s, r) = {}
        <3>1. Body(From)[r] = SubSeq(s, r, Len(s)) \o <<NewLine>>
            BY <2>1, <2>2
        <3> HIDE DEF Body
        <3>2. From[r] = SubSeq(s, r, Len(s)) \o <<NewLine>>
            BY <1>7, <3>1
        <3>3. QED
            BY <1>8, <2>2, <3>2 DEF HereWritten, Resumes
    <2>3. CASE RefsFrom(s, r) # {}
        <3>1. Body(From)[r] = HereWritten(s, r) \o From[Resumes(s, r)]
            BY <2>1, <2>3 DEF HereWritten, Resumes
        <3> HIDE DEF Body
        <3>2. QED
            BY <1>7, <3>1
    <2>4. QED
        BY <2>2, <2>3
<1>10. QED
    BY <1>2, <1>8, <1>9

\* Y is the texts over some characters.
AllTexts(Y) == \E X : Y = Seq(X)

\* Joining texts gives a text.
LEMMA JoinIs ==
    ASSUME NEW Y, AllTexts(Y), NEW t \in Y, NEW u \in Y
    PROVE  Join(t, u) \in Y /\ Join(t, << >>) = t /\ Join(<< >>, t) = t
<1>1. PICK X : Y = Seq(X)
    BY DEF AllTexts
<1>2. t \in Seq(X) /\ u \in Seq(X)
    BY <1>1
<1>3. Join(t, u) \in Y
    BY <1>1, <1>2 DEF Join
<1>4. t \o << >> = t /\ << >> \o t = t
    BY <1>2, ConcatEmptySeq
<1>5. QED
    BY <1>3, <1>4 DEF Join

\* It is associative.
LEMMA JoinAssociates ==
    ASSUME NEW Y, AllTexts(Y), NEW t \in Y, NEW u \in Y, NEW v \in Y
    PROVE  Join(Join(t, u), v) = Join(t, Join(u, v))
<1>1. PICK X : Y = Seq(X)
    BY DEF AllTexts
<1>2. t \in Seq(X) /\ u \in Seq(X) /\ v \in Seq(X)
    BY <1>1
<1>3. (t \o u) \o v = t \o (u \o v)
    BY <1>2
<1>4. QED
    BY <1>3 DEF Join

\* A part of a text is a text.
LEMMA PartIs ==
    ASSUME NEW Y, AllTexts(Y), NEW s \in Y, NEW a \in 1 .. Len(s) + 1,
           NEW b \in a - 1 .. Len(s)
    PROVE  Part(s, a, b) \in Y /\ (b < a => Part(s, a, b) = << >>)
<1>1. PICK X : Y = Seq(X)
    BY DEF AllTexts
<1>2. s \in Seq(X)
    BY <1>1
<1>3. Part(s, a, b) \in Y
    <2>1. \A i \in a .. b : s[i] \in X
        BY <1>2
    <2>2. QED
        BY <1>1, <2>1, SubSeqProperties DEF Part
<1>4. b < a => Part(s, a, b) = << >>
    BY SubSeqEmpty DEF Part
<1>5. QED
    BY <1>3, <1>4

\* One character more makes a longer part.
LEMMA PartGrows ==
    ASSUME NEW Y, AllTexts(Y), NEW s \in Y, NEW a \in 1 .. Len(s), NEW b \in a .. Len(s),
           NEW z, z = <<s[b]>>
    PROVE  z \in Y /\ Part(s, a, b) = Join(Part(s, a, b - 1), z)
<1>1. PICK X : Y = Seq(X)
    BY DEF AllTexts
<1>2. s \in Seq(X)
    BY <1>1
<1>3. SubSeq(s, a, b) = SubSeq(s, a, b - 1) \o <<s[b]>>
    BY <1>2, SubSeqRecursiveSecond
<1>4. <<s[b]>> \in Y
    BY <1>1, <1>2
<1>5. QED
    BY <1>3, <1>4 DEF Part, Join

\* Places that become their own characters, and places that become nothing.
Plain(q, s, a, b) == \A k \in a .. b : q[k] = <<s[k]>>
Blank(q, a, b) == \A k \in a .. b : q[k] = << >>

\* The first make a part of the line.
LEMMA PlainPlaces ==
    ASSUME NEW Y, AllTexts(Y), NEW s \in Y, NEW n \in Nat, n = Len(s), NEW h,
           NEW q, Made(h, q, n, Y), NEW a \in 1 .. n + 1, NEW b \in a - 1 .. n,
           Plain(q, s, a, b)
    PROVE  h[b] = Join(h[a - 1], Part(s, a, b))
<1> DEFINE S == {m \in 0 .. b - (a - 1) :
                    h[a - 1 + m] = Join(h[a - 1], Part(s, a, a - 1 + m))}
<1>0. a - 1 \in 0 .. n /\ h[a - 1] \in Y
    BY DEF Made
<1>1. 0 \in S
    <2>1. a - 1 + 0 = a - 1 /\ a - 1 < a /\ a - 1 \in a - 1 .. n
        OBVIOUS
    <2>2. Part(s, a, a - 1) = << >>
        BY <2>1, PartIs
    <2>3. h[a - 1] = Join(h[a - 1], Part(s, a, a - 1))
        BY <1>0, <2>2, JoinIs
    <2>4. h[a - 1 + 0] = Join(h[a - 1], Part(s, a, a - 1 + 0))
        BY <2>1, <2>3
    <2>5. 0 \in 0 .. b - (a - 1)
        OBVIOUS
    <2>6. QED
        BY <2>4, <2>5
<1>2. ASSUME NEW m \in 1 .. b - (a - 1), m - 1 \in S PROVE m \in S
    <2>1. PICK k \in a .. b : k = a - 1 + m
        OBVIOUS
    <2>2. /\ a - 1 + (m - 1) = k - 1 /\ k \in 1 .. n /\ k \in a .. n
          /\ k - 1 \in a - 1 .. n /\ k \in a - 1 .. n
        BY <2>1
    <2>3. h[k - 1] = Join(h[a - 1], Part(s, a, k - 1))
        BY <1>2, <2>2
    <2>4. h[k] = Join(h[k - 1], <<s[k]>>)
        BY <2>2 DEF Made, Plain
    <2>5. PICK y, z : y = Part(s, a, k - 1) /\ z = <<s[k]>>
        OBVIOUS
    <2>6. y \in Y
        BY <2>2, <2>5, PartIs
    <2>7. z \in Y /\ Part(s, a, k) = Join(y, z)
        <3>1. a \in 1 .. Len(s) /\ k \in a .. Len(s)
            BY <2>2
        <3>2. QED
            BY <2>5, <3>1, PartGrows
    <2>8. Join(Join(h[a - 1], y), z) = Join(h[a - 1], Join(y, z))
        BY <1>0, <2>6, <2>7, JoinAssociates
    <2>9. h[k] = Join(h[a - 1], Part(s, a, k))
        BY <2>3, <2>4, <2>5, <2>7, <2>8
    <2>10. h[a - 1 + m] = Join(h[a - 1], Part(s, a, a - 1 + m))
        BY <2>1, <2>9
    <2>11. m \in 0 .. b - (a - 1)
        OBVIOUS
    <2>12. QED
        BY <2>10, <2>11
<1> HIDE DEF S
<1>3. b - (a - 1) \in Nat /\ a - 1 + (b - (a - 1)) = b
    OBVIOUS
<1>4. \A m \in 0 .. b - (a - 1) : m \in S
    BY <1>1, <1>2, <1>3, UpTo
<1>5. b - (a - 1) \in S
    BY <1>3, <1>4
<1>6. QED
    BY <1>3, <1>5 DEF S

\* The others make nothing.
LEMMA EmptyPlaces ==
    ASSUME NEW Y, AllTexts(Y), NEW n \in Nat, NEW h, NEW q, Made(h, q, n, Y),
           NEW a \in 1 .. n + 1, NEW b \in a - 1 .. n, Blank(q, a, b)
    PROVE  h[b] = h[a - 1]
<1> DEFINE S == {m \in 0 .. b - (a - 1) : h[a - 1 + m] = h[a - 1]}
<1>1. 0 \in S
    <2>1. a - 1 + 0 = a - 1 /\ 0 \in 0 .. b - (a - 1)
        OBVIOUS
    <2>2. QED
        BY <2>1
<1>2. ASSUME NEW m \in 1 .. b - (a - 1), m - 1 \in S PROVE m \in S
    <2>1. PICK k \in a .. b : k = a - 1 + m
        OBVIOUS
    <2>2. a - 1 + (m - 1) = k - 1 /\ k \in 1 .. n /\ k - 1 \in 0 .. n
        BY <2>1
    <2>3. h[k - 1] = h[a - 1]
        BY <1>2, <2>2
    <2>4. h[k - 1] \in Y
        BY <2>2 DEF Made
    <2>5. h[k] = Join(h[k - 1], << >>)
        BY <2>2 DEF Made, Blank
    <2>6. h[k] = h[k - 1]
        BY <2>4, <2>5, JoinIs
    <2>7. m \in 0 .. b - (a - 1)
        OBVIOUS
    <2>8. QED
        BY <2>1, <2>3, <2>6, <2>7
<1> HIDE DEF S
<1>3. b - (a - 1) \in Nat /\ a - 1 + (b - (a - 1)) = b
    OBVIOUS
<1>4. \A m \in 0 .. b - (a - 1) : m \in S
    BY <1>1, <1>2, <1>3, UpTo
<1>5. b - (a - 1) \in S
    BY <1>3, <1>4
<1>6. QED
    BY <1>3, <1>5 DEF S

\* No reference that begins before r reaches r.
Free(s, r) == \A i \in RefsOf(s) : i < r => ReferenceEnd(s, i) < r

\* A place of no reference, that nothing before it reaches, is itself.
LEMMA PlainPiece ==
    ASSUME NEW s \in Seq(Chars), NEW r \in 1 .. Len(s), Free(s, r), NEW m \in r - 1 .. Len(s),
           \A k \in r .. m : ~IsExpansionStart(s, k)
    PROVE  Plain(BodyPieces(s), s, r, m)
<1>0. SUFFICES \A k \in r .. m : BodyPieces(s)[k] = <<s[k]>>
    BY DEF Plain
<1>1. TAKE k \in r .. m
<1>2. k \in 1 .. Len(s) /\ k \in DOMAIN s
    OBVIOUS
<1>3. \A i \in r .. k : i \notin RefsOf(s)
    <2>1. TAKE i \in r .. k
    <2>2. i \in r .. m
        OBVIOUS
    <2>3. QED
        BY <2>2, StartIsReference DEF RefsOf
<1>4. k \notin NamedOf(s)
    <2>1. SUFFICES ASSUME NEW i \in RefsOf(s), k \in i .. ReferenceEnd(s, i) PROVE FALSE
        BY DEF NamedOf
    <2>2. i \in 1 .. Len(s) /\ IsExpansionStart(s, i)
        BY StartIsReference DEF RefsOf
    <2>3. ReferenceEnd(s, i) \in i + 1 .. Len(s)
        BY <2>2, ReferenceEndIs
    <2>4. i <= k /\ k <= ReferenceEnd(s, i)
        BY <2>1, <2>2, <2>3
    <2>5. i < r
        BY <1>3, <2>2, <2>4
    <2>6. ReferenceEnd(s, i) < r
        BY <2>1, <2>5 DEF Free
    <2>7. QED
        BY <2>2, <2>3, <2>4, <2>6
<1>5. k \notin RefsOf(s)
    BY <1>3
<1>6. QED
    BY <1>2, <1>4, <1>5 DEF BodyPieces, BodyPiece

\* A reference becomes its value, and its name nothing more.
LEMMA NamePieces ==
    ASSUME NEW s \in Seq(Chars), NEW i \in 1 .. Len(s), IsExpansionStart(s, i)
    PROVE  /\ BodyPieces(s)[i] = ValueOf(SubSeq(s, i + 1, ReferenceEnd(s, i)))
           /\ Blank(BodyPieces(s), i + 1, ReferenceEnd(s, i))
<1>1. i \in RefsOf(s)
    BY StartIsReference DEF RefsOf
<1>2. ReferenceEnd(s, i) \in i + 1 .. Len(s)
    BY ReferenceEndIs
<1>3. BodyPieces(s)[i] = ValueOf(SubSeq(s, i + 1, ReferenceEnd(s, i)))
    BY <1>1 DEF BodyPieces, BodyPiece
<1>4. ASSUME NEW k \in i + 1 .. ReferenceEnd(s, i) PROVE BodyPieces(s)[k] = << >>
    <2>1. k \in 1 .. Len(s) /\ k \in i .. ReferenceEnd(s, i)
        BY <1>2
    <2>2. ~IsExpansionStart(s, k)
        BY ReferenceEndIs
    <2>3. k \notin RefsOf(s)
        BY <2>2, StartIsReference DEF RefsOf
    <2>4. k \in NamedOf(s)
        BY <1>1, <2>1 DEF NamedOf
    <2>5. QED
        BY <2>1, <2>3, <2>4 DEF BodyPieces, BodyPiece
<1>5. QED
    BY <1>3, <1>4 DEF Blank

\* Every place becomes a text.
LEMMA BodyPiecesAre ==
    ASSUME NEW s \in Seq(Chars), value \in Values \cup {NoValue},
           NEW X, X = Chars \cup {NewLine}, NEW Y, Y = Seq(X)
    PROVE  BodyPieces(s) \in Seq(Y) /\ Len(BodyPieces(s)) = Len(s)
<1>1. X = Chars \cup {NewLine} /\ Y = Seq(X)
    OBVIOUS
<1>2. PICK n \in Nat : n = Len(s) /\ DOMAIN s = 1 .. n
    OBVIOUS
<1>3. ASSUME NEW i \in 1 .. n PROVE BodyPiece(s, i) \in Y
    <2>1. s[i] \in X
        BY <1>1, <1>2
    <2>2. <<s[i]>> \in Y /\ << >> \in Y
        BY <1>1, <2>1
    <2>3. Chars \subseteq X
        BY <1>1
    <2>4. \A t \in Seq(Chars) : t \in Y
        BY <1>1, <2>3, SeqMonotonic
    <2>5. \A name : ValueOf(name) \in Seq(Chars)
        BY ExpansionValueIs
    <2>6. \A name : ValueOf(name) \in Y
        BY <2>4, <2>5
    <2>7. QED
        BY <2>2, <2>6 DEF BodyPiece
<1>4. BodyPieces(s) = [i \in 1 .. n |-> BodyPiece(s, i)]
    BY <1>2 DEF BodyPieces
<1>5. BodyPieces(s) \in Seq(Y) /\ Len(BodyPieces(s)) = n
    BY <1>3, <1>4
<1>6. QED
    BY <1>1, <1>2, <1>5

\* What was made up to r and what is written from there are the whole line.
Completes(f, h, n, Y, r) ==
    f[r] \in Y /\ Join(h[r - 1], f[r]) = Join(h[n], <<NewLine>>)

\* The text to the end of the line, which holds no reference.
LEMMA PlainToEnd ==
    ASSUME NEW Y, AllTexts(Y), NEW s \in Seq(Chars), s \in Y, <<NewLine>> \in Y,
           NEW n \in Nat, n = Len(s), NEW h, Made(h, BodyPieces(s), n, Y),
           NEW r \in 1 .. n, Free(s, r), RefsFrom(s, r) = {}, NEW f,
           f[r] = Join(HereWritten(s, r), f[Resumes(s, r)]), f[n + 1] = <<NewLine>>
    PROVE  Completes(f, h, n, Y, r)
<1>1. \A k \in r .. n : ~IsExpansionStart(s, k)
    BY DEF RefsFrom
<1>2. n \in r - 1 .. n /\ r \in 1 .. n + 1 /\ r - 1 \in 0 .. n /\ n \in 0 .. n
    OBVIOUS
<1>3. Plain(BodyPieces(s), s, r, n)
    BY <1>1, <1>2, PlainPiece
<1>4. PICK u : u = Part(s, r, n)
    OBVIOUS
<1>5. h[n] = Join(h[r - 1], u)
    BY <1>2, <1>3, <1>4, PlainPlaces
<1>6. f[r] = Join(u, <<NewLine>>)
    <2>1. HereWritten(s, r) = u /\ Resumes(s, r) = n + 1
        BY <1>4 DEF HereWritten, Resumes, Part
    <2>2. QED
        BY <2>1
<1>7. h[r - 1] \in Y
    BY <1>2 DEF Made
<1>8. u \in Y
    BY <1>2, <1>4, PartIs
<1>9. Join(Join(h[r - 1], u), <<NewLine>>) = Join(h[r - 1], Join(u, <<NewLine>>))
    BY <1>7, <1>8, JoinAssociates
<1>10. Join(u, <<NewLine>>) \in Y
    BY <1>8, JoinIs
<1>11. QED
    BY <1>5, <1>6, <1>9, <1>10 DEF Completes

\* The text up to a reference and its value: the loop goes on behind the name.
LEMMA ToReference ==
    ASSUME NEW Y, AllTexts(Y), \A t \in Seq(Chars) : t \in Y,
           NEW s \in Seq(Chars), value \in Values \cup {NoValue},
           NEW n \in Nat, n = Len(s), NEW h, Made(h, BodyPieces(s), n, Y),
           NEW r \in 1 .. n, Free(s, r), RefsFrom(s, r) # {}, NEW f,
           f[r] = Join(HereWritten(s, r), f[Resumes(s, r)]),
           \A k \in r + 1 .. n + 1 : Free(s, k) => Completes(f, h, n, Y, k)
    PROVE  Completes(f, h, n, Y, r)
<1>1. PICK i, len : i = Min(RefsFrom(s, r)) /\ len = GetExpansionLen(s, i)
    OBVIOUS
<1>2. /\ i \in r .. n /\ IsExpansionStart(s, i)
      /\ \A k \in r .. i - 1 : ~IsExpansionStart(s, k)
      /\ len \in 2 .. n + 1 - i
    BY <1>1, FirstReference
<1>3. PICK e : e = i + len - 1
    OBVIOUS
<1>4. /\ i \in Nat /\ e \in Nat /\ r <= i /\ i < e /\ e <= n /\ i + len = e + 1
      /\ i \in 1 .. n /\ e \in 1 .. n /\ i - 1 \in 0 .. n
    <2>1. i \in Nat /\ len \in Nat /\ r <= i /\ i <= n /\ 2 <= len /\ len <= n + 1 - i
        BY <1>2
    <2>2. QED
        BY <1>3, <2>1
<1>5. /\ ReferenceEnd(s, i) = e
      /\ \A k \in i + 1 .. e : ~IsExpansionStart(s, k)
    BY <1>1, <1>2, <1>3, <1>4, ReferenceEndIs
<1>6. PICK u, v : u = Part(s, r, i - 1) /\ v = ValueOf(SubSeq(s, i + 1, e))
    OBVIOUS
<1>7. u \in Y /\ v \in Y
    <2>1. u \in Seq(Chars)
        BY <1>4, <1>6, PartOfText DEF Part
    <2>2. v \in Seq(Chars)
        BY <1>6, ExpansionValueIs
    <2>3. QED
        BY <2>1, <2>2
<1>8. f[r] = Join(Join(u, v), f[e + 1])
    <2>1. Resumes(s, r) = e + 1
        BY <1>1, <1>4 DEF Resumes
    <2>2. HereWritten(s, r) = SubSeq(s, r, i - 1)
                                \o GetExpansionValue(SubSeq(s, i + 1, i + len - 1))
        BY <1>1 DEF HereWritten
    <2>3. GetExpansionValue(SubSeq(s, i + 1, e)) = v
        BY <1>6, ExpansionValueIs
    <2>4. HereWritten(s, r) = Join(u, v)
        BY <1>3, <1>6, <2>2, <2>3 DEF Join, Part
    <2>5. QED
        BY <2>1, <2>4
<1>9. h[i - 1] = Join(h[r - 1], u)
    <2>1. i - 1 \in r - 1 .. n /\ r \in 1 .. n + 1
        BY <1>4
    <2>2. Plain(BodyPieces(s), s, r, i - 1)
        BY <1>2, <2>1, PlainPiece
    <2>3. s \in Y
        OBVIOUS
    <2>4. QED
        BY <1>6, <2>1, <2>2, <2>3, PlainPlaces
<1>10. BodyPieces(s)[i] = v /\ Blank(BodyPieces(s), i + 1, e)
    BY <1>2, <1>4, <1>5, <1>6, NamePieces
<1>11. h[i] = Join(h[i - 1], v)
    BY <1>4, <1>10 DEF Made
<1>12. h[e] = h[i]
    <2>1. PICK c : c = i + 1
        OBVIOUS
    <2>2. c \in 1 .. n + 1 /\ e \in c - 1 .. n /\ c - 1 = i
        BY <1>4, <2>1
    <2>3. h[e] = h[c - 1]
        BY <1>10, <2>1, <2>2, EmptyPlaces
    <2>4. QED
        BY <2>2, <2>3
<1>13. Free(s, e + 1)
    <2>1. SUFFICES ASSUME NEW k \in RefsOf(s), k < e + 1 PROVE ReferenceEnd(s, k) < e + 1
        BY DEF Free
    <2>2. k \in 1 .. n /\ IsExpansionStart(s, k)
        BY StartIsReference DEF RefsOf
    <2>3. ReferenceEnd(s, k) \in Nat
        <3>1. ReferenceEnd(s, k) \in k + 1 .. n
            BY <2>2, ReferenceEndIs
        <3>2. QED
            BY <2>2, <3>1
    <2>4. CASE k < r
        <3>1. ReferenceEnd(s, k) < r
            BY <2>1, <2>4 DEF Free
        <3>2. QED
            BY <1>4, <2>3, <3>1
    <2>5. CASE k \in r .. i - 1
        BY <1>2, <2>2, <2>5
    <2>6. CASE k = i
        BY <1>4, <1>5, <2>6
    <2>7. CASE k \in i + 1 .. e
        BY <1>5, <2>2, <2>7
    <2>8. k < r \/ k \in r .. i - 1 \/ k = i \/ k \in i + 1 .. e
        <3>1. k \in Nat /\ k <= e
            BY <1>4, <2>1, <2>2
        <3>2. QED
            BY <1>4, <3>1
    <2>9. QED
        BY <2>4, <2>5, <2>6, <2>7, <2>8
<1>14. f[e + 1] \in Y /\ Join(h[e], f[e + 1]) = Join(h[n], <<NewLine>>)
    <2>1. PICK c : c = e + 1
        OBVIOUS
    <2>2. c \in r + 1 .. n + 1 /\ c - 1 = e
        BY <1>4, <2>1
    <2>3. Completes(f, h, n, Y, c)
        BY <1>13, <2>1, <2>2
    <2>4. QED
        BY <2>1, <2>2, <2>3 DEF Completes
<1>15. h[r - 1] \in Y
    <2>1. r - 1 \in 0 .. n
        OBVIOUS
    <2>2. QED
        BY <2>1 DEF Made
<1>16. Join(u, v) \in Y
    BY <1>7, JoinIs
<1>17. f[r] \in Y
    BY <1>8, <1>14, <1>16, JoinIs
<1>18. h[e] = Join(h[r - 1], Join(u, v))
    <2>1. Join(Join(h[r - 1], u), v) = Join(h[r - 1], Join(u, v))
        BY <1>7, <1>15, JoinAssociates
    <2>2. QED
        BY <1>9, <1>11, <1>12, <2>1
<1>19. Join(Join(h[r - 1], Join(u, v)), f[e + 1])
          = Join(h[r - 1], Join(Join(u, v), f[e + 1]))
    BY <1>14, <1>15, <1>16, JoinAssociates
<1>20. Join(h[r - 1], f[r]) = Join(h[n], <<NewLine>>)
    BY <1>8, <1>14, <1>18, <1>19
<1>21. QED
    BY <1>17, <1>20 DEF Completes

\* What the loop writes of a line is what the specification makes of it: where it
\* stands no reference that began before goes on, so that what was made up to there
\* and what is written from there are the whole line.
LEMMA LineIsExpanded ==
    ASSUME NEW s \in Seq(Chars), value \in Values \cup {NoValue}
    PROVE  ExpandHereLine(s) = BodyOf(s, ValueOf)
<1>1. PICK n \in Nat : n = Len(s)
    OBVIOUS
<1>2. PICK X, Y : X = Chars \cup {NewLine} /\ Y = Seq(X)
    OBVIOUS
<1>3. PICK q : q = BodyPieces(s)
    OBVIOUS
<1>4. PICK f : /\ ExpandHereLine(s) = f[1] /\ f[n + 1] = <<NewLine>>
               /\ \A r \in 1 .. n : f[r] = Join(HereWritten(s, r), f[Resumes(s, r)])
    BY <1>1, ExpandHereLineIs DEF Join
<1>5. PICK h : Made(h, q, n, Y) /\ FlattenSeq(q) = h[n]
    <2>1. q \in Seq(Y) /\ Len(q) = n
        BY <1>1, <1>2, <1>3, BodyPiecesAre
    <2>2. QED
        BY <1>2, <2>1, FlattenIs
<1>6. AllTexts(Y) /\ s \in Y /\ <<NewLine>> \in Y /\ \A t \in Seq(Chars) : t \in Y
    <2>1. Chars \subseteq X /\ NewLine \in X
        BY <1>2
    <2>2. \A t \in Seq(Chars) : t \in Y
        BY <1>2, <2>1, SeqMonotonic
    <2>3. <<NewLine>> \in Y
        BY <1>2, <2>1
    <2>4. AllTexts(Y)
        BY <1>2 DEF AllTexts
    <2>5. QED
        BY <2>2, <2>3, <2>4
<1> DEFINE S == {r \in 1 .. n + 1 : Free(s, r) => Completes(f, h, n, Y, r)}
<1>7. n + 1 \in S
    <2>1. n + 1 \in 1 .. n + 1 /\ n + 1 - 1 = n
        OBVIOUS
    <2>2. Completes(f, h, n, Y, n + 1)
        BY <1>4, <1>6, <2>1 DEF Completes
    <2>3. QED
        BY <2>1, <2>2
<1>8. ASSUME NEW r \in 1 .. n, \A k \in r + 1 .. n + 1 : k \in S PROVE r \in S
    <2>1. \A k \in r + 1 .. n + 1 : Free(s, k) => Completes(f, h, n, Y, k)
        BY <1>8
    <2>2. f[r] = Join(HereWritten(s, r), f[Resumes(s, r)])
        BY <1>4
    <2>3. r \in 1 .. n + 1
        OBVIOUS
    <2>4. ASSUME Free(s, r) PROVE Completes(f, h, n, Y, r)
        <3>1. CASE RefsFrom(s, r) = {}
            BY <1>1, <1>2, <1>3, <1>4, <1>5, <1>6, <2>2, <2>4, <3>1, PlainToEnd
        <3>2. CASE RefsFrom(s, r) # {}
            BY <1>1, <1>2, <1>3, <1>5, <1>6, <2>1, <2>2, <2>4, <3>2, ToReference
        <3>3. QED
            BY <3>1, <3>2
    <2>5. QED
        BY <2>3, <2>4
<1> HIDE DEF S
<1>9. 1 \in S
    <2>1. \A r \in 1 .. n + 1 : r \in S
        BY <1>7, <1>8, DownTo
    <2>2. QED
        BY <2>1
<1>10. Free(s, 1)
    <2>1. RefsOf(s) \subseteq 1 .. n
        BY <1>1 DEF RefsOf
    <2>2. QED
        BY <2>1 DEF Free
<1>11. f[1] \in Y /\ Join(h[0], f[1]) = Join(h[n], <<NewLine>>)
    <2>1. 1 - 1 = 0
        OBVIOUS
    <2>2. Completes(f, h, n, Y, 1)
        BY <1>9, <1>10 DEF S
    <2>3. QED
        BY <2>1, <2>2 DEF Completes
<1>12. f[1] = h[n] \o <<NewLine>>
    <2>1. Join(<< >>, f[1]) = f[1]
        BY <1>6, <1>11, JoinIs
    <2>2. h[0] = << >>
        BY <1>5 DEF Made
    <2>3. QED
        BY <1>11, <2>1, <2>2 DEF Join
<1>13. BodyOf(s, ValueOf) = FlattenSeq(q) \o <<NewLine>>
    BY <1>3, BodyOfIs
<1>14. QED
    BY <1>4, <1>5, <1>12, <1>13

-------------------------------------------------------------------------------
(* Where the characters of a line stand                                         *)

\* Characters of different kinds differ.
LEMMA KindsDiffer ==
    /\ OperatorChars \cap Blanks = {} /\ OperatorChars \cap Quotes = {}
    /\ Blanks \cap Quotes = {}
    /\ "$" \notin OperatorChars \cup Blanks \cup Quotes
    /\ "?" \notin OperatorChars \cup Blanks \cup Quotes
    /\ "#" \notin OperatorChars \cup Blanks \cup Quotes
    /\ Nul \notin OperatorChars \cup Blanks \cup Quotes
    /\ Doubles \subseteq OperatorChars /\ "&" \in Doubles
    /\ NewLine \in OperatorChars /\ NewLine \notin Doubles
    /\ {"out", "word", "#"} \cap Quotes = {}
<1>1. /\ OperatorChars \cap Blanks = {} /\ OperatorChars \cap Quotes = {}
      /\ Blanks \cap Quotes = {}
    BY Zenon DEF OperatorChars, Blanks, Quotes, NewLine, SingleQuote, DoubleQuote
<1>2. "$" \notin OperatorChars \cup Blanks \cup Quotes
    BY Zenon DEF OperatorChars, Blanks, Quotes, NewLine, SingleQuote, DoubleQuote
<1>3. "?" \notin OperatorChars \cup Blanks \cup Quotes
    BY Zenon DEF OperatorChars, Blanks, Quotes, NewLine, SingleQuote, DoubleQuote
<1>4. "#" \notin OperatorChars \cup Blanks \cup Quotes
    BY Zenon DEF OperatorChars, Blanks, Quotes, NewLine, SingleQuote, DoubleQuote
<1>5. Nul \notin OperatorChars \cup Blanks \cup Quotes
    BY Zenon DEF Nul, OperatorChars, Blanks, Quotes, NewLine, SingleQuote, DoubleQuote
<1>6. Doubles \subseteq OperatorChars /\ "&" \in Doubles
    BY Zenon DEF Doubles, OperatorChars
<1>7. NewLine \in OperatorChars /\ NewLine \notin Doubles
    BY Zenon DEF Doubles, OperatorChars, NewLine
<1>8. {"out", "word", "#"} \cap Quotes = {}
    BY Zenon DEF Quotes, SingleQuote, DoubleQuote
<1>9. QED
    BY <1>1, <1>2, <1>3, <1>4, <1>5, <1>6, <1>7, <1>8, Zenon

\* The equal characters up to place i.
RunTo(s, i) == {k \in 1 .. i : \A m \in k .. i : s[m] = s[i]}

\* There are finitely many.
LEMMA RunIsFinite ==
    ASSUME NEW s, NEW i \in Nat
    PROVE  IsFiniteSet(RunTo(s, i)) /\ Cardinality(RunTo(s, i)) \in Nat
<1>1. RunTo(s, i) \subseteq 1 .. i /\ 1 \in Int /\ i \in Int
    BY DEF RunTo
<1>2. IsFiniteSet(1 .. i)
    BY <1>1, FS_Interval
<1>3. IsFiniteSet(RunTo(s, i))
    BY <1>1, <1>2, FS_Subset
<1>4. QED
    BY <1>3, FS_CardinalityType

\* The first of equal characters leads.
LEMMA FirstLeads ==
    ASSUME NEW s, NEW i \in Nat \ {0}, i = 1 \/ s[i - 1] # s[i]
    PROVE  Leads(s, i)
<1>1. RunTo(s, i) = {i}
    <2>1. ASSUME NEW k \in 1 .. i, k # i PROVE k \notin RunTo(s, i)
        <3>1. i - 1 \in k .. i /\ i # 1
            BY <2>1
        <3>2. QED
            BY <3>1 DEF RunTo
    <2>2. i \in RunTo(s, i)
        BY DEF RunTo
    <2>3. RunTo(s, i) \subseteq 1 .. i
        BY DEF RunTo
    <2>4. QED
        BY <2>1, <2>2, <2>3
<1>2. Cardinality(RunTo(s, i)) = 1
    BY <1>1, FS_Singleton
<1>3. QED
    BY <1>2 DEF Leads, RunTo

\* And then every other one.
LEMMA NextLeads ==
    ASSUME NEW s, NEW i \in Nat \ {0}, s[i + 1] = s[i]
    PROVE  Leads(s, i + 1) <=> ~Leads(s, i)
<1>1. PICK j : j = i + 1
    OBVIOUS
<1>2. j \in Nat /\ j - 1 = i /\ s[j] = s[i]
    BY <1>1
<1>3. RunTo(s, j) = RunTo(s, i) \cup {j}
    <2>1. ASSUME NEW k \in 1 .. i
          PROVE  k \in RunTo(s, j) <=> k \in RunTo(s, i)
        <3>1. \A m \in k .. j : m \in k .. i \/ m = j
            BY <1>1
        <3>2. \A m \in k .. i : m \in k .. j
            BY <1>1
        <3>3. k \in 1 .. j
            BY <1>1
        <3>4. QED
            BY <1>2, <3>1, <3>2, <3>3 DEF RunTo
    <2>2. j \in RunTo(s, j)
        BY <1>1 DEF RunTo
    <2>3. RunTo(s, j) \subseteq 1 .. j /\ RunTo(s, i) \subseteq 1 .. i
        BY DEF RunTo
    <2>4. 1 .. j = (1 .. i) \cup {j}
        BY <1>1
    <2>5. QED
        BY <2>1, <2>2, <2>3, <2>4
<1>4. j \notin RunTo(s, i)
    BY <1>1 DEF RunTo
<1>5. IsFiniteSet(RunTo(s, i)) /\ Cardinality(RunTo(s, i)) \in Nat
    BY RunIsFinite
<1>6. Cardinality(RunTo(s, j)) = Cardinality(RunTo(s, i)) + 1
    BY <1>3, <1>4, <1>5, FS_AddElement
<1>7. \A x \in Nat : (x + 1) % 2 = 1 <=> ~(x % 2 = 1)
    OBVIOUS
<1>8. Leads(s, j) <=> Cardinality(RunTo(s, j)) % 2 = 1
    BY DEF Leads, RunTo
<1>9. Leads(s, i) <=> Cardinality(RunTo(s, i)) % 2 = 1
    BY DEF Leads, RunTo
<1>10. QED
    BY <1>1, <1>5, <1>6, <1>7, <1>8, <1>9

\* Where the place after i stands, when place i stands at q.
StandsNext(s, i, q) ==
    IF q \in Quotes THEN IF s[i] = q THEN "word" ELSE q
    ELSE IF q = "#" THEN IF s[i] = NewLine THEN "out" ELSE "#"
    ELSE IF Opens(s, i) THEN s[i]
    ELSE IF s[i] \in Blanks \/ OperatorAt(s, i) THEN "out"
    ELSE IF s[i] = "#" /\ q = "out" THEN "#"
    ELSE "word"

Standings == Quotes \cup {"out", "word", "#"}

\* Standing, place by place.
LEMMA StandingIs ==
    ASSUME NEW s \in Seq(Chars)
    PROVE  /\ Standing(s)[1] = "out"
           /\ \A i \in 1 .. Len(s) : Standing(s)[i + 1] = StandsNext(s, i, Standing(s)[i])
           /\ \A i \in 1 .. Len(s) + 1 : Standing(s)[i] \in Standings
<1>1. PICK n \in Nat : n = Len(s)
    OBVIOUS
<1> DEFINE G == [i \in 2 .. n + 1 |-> [q \in Standings |-> StandsNext(s, i - 1, q)]]
           Body(f) == [i \in 1 .. Len(s) + 1 |->
                          IF i = 1 THEN "out" ELSE StandsNext(s, i - 1, f[i - 1])]
           in == CHOOSE f : f = Body(f)
<1>2. Standing(s) = in
    BY Zenon DEF Standing, StandsNext
<1>3. \A i \in 2 .. n + 1 : \A q \in Standings : StandsNext(s, i - 1, q) \in Standings
    BY DEF StandsNext, Standings, Opens
<1>4. "out" \in Standings
    BY DEF Standings
<1>5. \E f : Loops(n + 1, Standings, "out", G, f)
    <2>1. \A i \in 2 .. n + 1 : G[i] \in [Standings -> Standings]
        BY <1>3
    <2> HIDE DEF G
    <2>2. n + 1 \in Nat \ {0}
        OBVIOUS
    <2>3. QED
        BY <1>4, <2>1, <2>2, LoopExists
<1>6. PICK g : Loops(n + 1, Standings, "out", G, g)
    BY <1>5
<1>7. g \in [1 .. n + 1 -> Standings] /\ g[1] = "out"
    BY <1>6 DEF Loops
<1>8. \A i \in 2 .. n + 1 : g[i] = StandsNext(s, i - 1, g[i - 1])
    <2>1. TAKE i \in 2 .. n + 1
    <2>2. g[i] = G[i][g[i - 1]] /\ i - 1 \in 1 .. n + 1
        BY <1>6 DEF Loops
    <2>3. g[i - 1] \in Standings
        BY <1>7, <2>2
    <2>4. QED
        BY <2>2, <2>3
<1>9. g = Body(g)
    <2>1. \A i \in 1 .. n + 1 :
            g[i] = IF i = 1 THEN "out" ELSE StandsNext(s, i - 1, g[i - 1])
        BY <1>7, <1>8
    <2>2. QED
        BY <1>1, <1>7, <2>1
<1>10. in = Body(in)
    <2> HIDE DEF Body
    <2>1. QED
        BY <1>9
<1> HIDE DEF in
<1>11. in[1] = "out"
    BY <1>1, <1>10
<1>12. \A i \in 1 .. n : in[i + 1] = StandsNext(s, i, in[i])
    <2>1. TAKE i \in 1 .. n
    <2>2. i + 1 \in 1 .. Len(s) + 1 /\ i + 1 # 1 /\ (i + 1) - 1 = i
        BY <1>1
    <2>3. in[i + 1] = IF i + 1 = 1 THEN "out" ELSE StandsNext(s, (i + 1) - 1, in[(i + 1) - 1])
        BY <1>10, <2>2
    <2>4. QED
        BY <2>2, <2>3
<1>13. \A i \in 1 .. n + 1 : in[i] \in Standings
    <2> DEFINE S == {k \in 0 .. n : in[k + 1] \in Standings}
    <2>1. 0 \in S
        BY <1>4, <1>11
    <2>2. ASSUME NEW k \in 1 .. n, k - 1 \in S PROVE k \in S
        <3>1. in[k] \in Standings
            BY <2>2
        <3>2. k + 1 \in 2 .. n + 1 /\ (k + 1) - 1 = k
            OBVIOUS
        <3>3. StandsNext(s, k, in[k]) \in Standings
            BY <1>3, <3>1, <3>2
        <3>4. QED
            BY <1>12, <3>3
    <2> HIDE DEF S
    <2>3. \A k \in 0 .. n : k \in S
        BY <2>1, <2>2, UpTo
    <2>4. TAKE i \in 1 .. n + 1
    <2>5. i - 1 \in 0 .. n /\ (i - 1) + 1 = i
        OBVIOUS
    <2>6. i - 1 \in S
        BY <2>3, <2>5
    <2>7. QED
        BY <2>5, <2>6 DEF S
<1>14. QED
    BY <1>1, <1>2, <1>11, <1>12, <1>13

-------------------------------------------------------------------------------
(* From one place of a line to the next                                         *)

\* The places that belong to words.
WordPlaces(s) == {i \in DOMAIN s : Standing(s)[i + 1] \in {"word"} \cup Quotes}

\* The places an operator begins at.
OperatorPlaces(s) ==
    {i \in DOMAIN s : /\ \/ Standing(s)[i] \in {"out", "word"}
                         \/ Standing(s)[i] = "#" /\ s[i] = NewLine
                      /\ i \notin WordPlaces(s) /\ OperatorAt(s, i)
                      /\ s[i] \notin Doubles \/ Leads(s, i)}

\* Outside of quotations and comments.
Unquoted(s, i) == Standing(s)[i] \in {"out", "word"}

\* A character that is nothing else belongs to a word.
LEMMA WordStep ==
    ASSUME NEW s \in Seq(Chars), NEW i \in 1 .. Len(s), Unquoted(s, i), ~Opens(s, i),
           s[i] \notin Blanks, ~OperatorAt(s, i), s[i] # "#" \/ Standing(s)[i] = "word"
    PROVE  Standing(s)[i + 1] = "word" /\ i \in WordPlaces(s)
<1>1. Standing(s)[i] \notin Quotes /\ Standing(s)[i] # "#"
    BY KindsDiffer DEF Unquoted
<1>2. Standing(s)[i + 1] = StandsNext(s, i, Standing(s)[i])
    BY StandingIs
<1>3. Standing(s)[i + 1] = "word"
    BY <1>1, <1>2 DEF StandsNext
<1>4. QED
    BY <1>3 DEF WordPlaces

\* A blank or an operator ends it.
LEMMA OutStep ==
    ASSUME NEW s \in Seq(Chars), NEW i \in 1 .. Len(s), Unquoted(s, i),
           s[i] \in Blanks \/ OperatorAt(s, i)
    PROVE  Standing(s)[i + 1] = "out" /\ i \notin WordPlaces(s)
<1>1. Standing(s)[i] \notin Quotes /\ Standing(s)[i] # "#"
    BY KindsDiffer DEF Unquoted
<1>2. ~Opens(s, i)
    BY KindsDiffer DEF Opens, OperatorAt
<1>3. Standing(s)[i + 1] = StandsNext(s, i, Standing(s)[i])
    BY StandingIs
<1>4. Standing(s)[i + 1] = "out"
    BY <1>1, <1>2, <1>3 DEF StandsNext
<1>5. QED
    BY <1>4, KindsDiffer DEF WordPlaces

\* A blank is no place an operator begins at.
LEMMA BlankStep ==
    ASSUME NEW s \in Seq(Chars), NEW i \in 1 .. Len(s), Unquoted(s, i), s[i] \in Blanks
    PROVE  /\ Standing(s)[i + 1] = "out" /\ i \notin WordPlaces(s)
           /\ i \notin OperatorPlaces(s)
<1>1. ~OperatorAt(s, i)
    BY KindsDiffer DEF OperatorAt
<1>2. QED
    BY <1>1, OutStep DEF OperatorPlaces

\* A quotation belongs to its word from quote to quote.
LEMMA QuotationSteps ==
    ASSUME NEW s \in Seq(Chars), NEW i \in 1 .. Len(s), Unquoted(s, i), s[i] \in Quotes,
           NEW c \in i + 1 .. Len(s), s[c] = s[i],
           \A k \in i + 1 .. c - 1 : s[k] # s[i]
    PROVE  Standing(s)[c + 1] = "word" /\ \A k \in i .. c : k \in WordPlaces(s)
<1>1. Standing(s)[i] \notin Quotes /\ Standing(s)[i] # "#"
    BY KindsDiffer DEF Unquoted
<1>2. \A k \in 1 .. Len(s) : Standing(s)[k + 1] = StandsNext(s, k, Standing(s)[k])
    BY StandingIs
<1>3. Opens(s, i)
    BY DEF Opens
<1>4. Standing(s)[i + 1] = s[i]
    BY <1>1, <1>2, <1>3 DEF StandsNext
<1> DEFINE S == {k \in 0 .. c - (i + 1) : Standing(s)[i + 1 + k] = s[i]}
<1>5. 0 \in S
    BY <1>4
<1>6. ASSUME NEW k \in 1 .. c - (i + 1), k - 1 \in S PROVE k \in S
    <2>1. PICK j : j = i + k
        OBVIOUS
    <2>2. Standing(s)[j] = s[i] /\ j \in i + 1 .. c - 1 /\ j \in 1 .. Len(s)
        BY <1>6, <2>1
    <2>3. s[j] # s[i]
        BY <2>2
    <2>4. Standing(s)[j + 1] = s[i]
        BY <1>2, <2>2, <2>3 DEF StandsNext
    <2>5. i + 1 + k = j + 1
        BY <2>1
    <2>6. QED
        BY <2>4, <2>5
<1> HIDE DEF S
<1>7. \A k \in 0 .. c - (i + 1) : k \in S
    <2>1. c - (i + 1) \in Nat
        OBVIOUS
    <2>2. QED
        BY <1>5, <1>6, <2>1, UpTo
<1>8. \A k \in i + 1 .. c : Standing(s)[k] = s[i]
    <2>1. TAKE k \in i + 1 .. c
    <2>2. k - (i + 1) \in 0 .. c - (i + 1) /\ i + 1 + (k - (i + 1)) = k
        OBVIOUS
    <2>3. k - (i + 1) \in S
        BY <1>7, <2>2
    <2>4. QED
        BY <2>2, <2>3 DEF S
<1>9. Standing(s)[c + 1] = "word"
    <2>1. Standing(s)[c] = s[i] /\ c \in 1 .. Len(s)
        BY <1>8
    <2>2. QED
        BY <1>2, <2>1 DEF StandsNext
<1>10. \A k \in i .. c : k \in WordPlaces(s)
    <2>1. TAKE k \in i .. c
    <2>2. k \in DOMAIN s
        OBVIOUS
    <2>3. CASE k = c
        BY <1>9, <2>2, <2>3 DEF WordPlaces
    <2>4. CASE k # c
        <3>1. PICK j : j = k + 1
            OBVIOUS
        <3>2. j \in i + 1 .. c
            BY <2>4, <3>1
        <3>3. Standing(s)[j] \in Quotes
            BY <1>8, <3>2
        <3>4. QED
            BY <2>2, <3>1, <3>3 DEF WordPlaces
    <2>5. QED
        BY <2>3, <2>4
<1>11. QED
    BY <1>9, <1>10

\* The characters of a reference.
LEMMA ReferenceChars ==
    ASSUME NEW s \in Seq(Chars), NEW i \in 1 .. Len(s), IsExpansionStart(s, i),
           NEW len, len = GetExpansionLen(s, i)
    PROVE  /\ len \in 2 .. Len(s) + 1 - i /\ s[i] = "$"
           /\ \A k \in i + 1 .. i + len - 1 : s[k] \in NameBodies \cup {"?"}
<1>1. len \in 2 .. Len(s) + 1 - i
    BY ExpansionLenIs
<1>2. \A k \in 1 .. Len(s) : CharAt(s, k) = s[k]
    BY DEF CharAt
<1>3. s[i] = "$" /\ s[i + 1] \in NameBodies \cup {"?"}
    <2>1. i + 1 \in 1 .. Len(s)
        BY <1>1
    <2>2. CharAt(s, i) = s[i] /\ CharAt(s, i + 1) = s[i + 1]
        BY <1>2, <2>1
    <2>3. QED
        BY <2>2, NamesAssumption DEF IsExpansionStart, SpecialParameters
<1>4. CASE s[i + 1] \in SpecialParameters
    <2>1. len = 2
        BY <1>4 DEF GetExpansionLen
    <2>2. \A k \in i + 1 .. i + len - 1 : k = i + 1
        BY <2>1
    <2>3. QED
        BY <1>1, <1>3, <2>2
<1>5. CASE s[i + 1] \notin SpecialParameters
    <2> DEFINE T == {n \in 2 .. Len(s) + 1 : CharAt(s, i + n) \notin NameBodies}
    <2>1. len = Min(T)
        BY <1>5 DEF GetExpansionLen
    <2>2. len \in T /\ \A y \in T : len <= y
        <3>1. T \in SUBSET Nat
            OBVIOUS
        <3>2. T # {}
            <4>1. PICK m : m = Len(s) + 1 - i
                OBVIOUS
            <4>2. m \in 2 .. Len(s) + 1 /\ i + m = Len(s) + 1
                BY <1>1, <4>1
            <4>3. CharAt(s, i + m) = Nul
                BY <4>2 DEF CharAt
            <4>4. m \in T
                BY <4>2, <4>3, NamesAssumption
            <4>5. QED
                BY <4>4
        <3> HIDE DEF T
        <3>3. QED
            BY <2>1, <3>1, <3>2, MinIsLeast
    <2>3. \A k \in i + 1 .. i + len - 1 : s[k] \in NameBodies \cup {"?"}
        <3>1. TAKE k \in i + 1 .. i + len - 1
        <3>2. CASE k = i + 1
            BY <1>3, <3>2
        <3>3. CASE k # i + 1
            <4>1. PICK m : m = k - i
                OBVIOUS
            <4>2. m \in 2 .. Len(s) + 1 /\ i + m = k /\ ~(len <= m) /\ k \in 1 .. Len(s)
                BY <1>1, <3>3, <4>1
            <4>3. m \notin T
                BY <2>2, <4>2
            <4>4. CharAt(s, k) \in NameBodies
                BY <4>2, <4>3
            <4>5. CharAt(s, k) = s[k]
                BY <1>2, <4>2
            <4>6. QED
                BY <4>4, <4>5
        <3>4. QED
            BY <3>2, <3>3
    <2>4. QED
        BY <1>1, <1>3, <2>3
<1>6. QED
    BY <1>4, <1>5

\* A character that is no operator, blank or quote.
LEMMA LetterStep ==
    ASSUME NEW s \in Seq(Chars), NEW i \in 1 .. Len(s), Unquoted(s, i),
           s[i] \notin OperatorChars \cup Blanks \cup Quotes,
           s[i] # "#" \/ Standing(s)[i] = "word"
    PROVE  Standing(s)[i + 1] = "word" /\ i \in WordPlaces(s)
<1>1. ~Opens(s, i) /\ s[i] \notin Blanks /\ ~OperatorAt(s, i)
    BY DEF Opens, OperatorAt
<1>2. QED
    BY <1>1, WordStep

\* A reference belongs to its word.
LEMMA ReferenceSteps ==
    ASSUME NEW s \in Seq(Chars), NEW i \in 1 .. Len(s), Unquoted(s, i),
           IsExpansionStart(s, i), NEW len, len = GetExpansionLen(s, i)
    PROVE  /\ len \in 2 .. Len(s) + 1 - i
           /\ Standing(s)[i + len] = "word" /\ s[i + len - 1] \notin OperatorChars
           /\ \A k \in i .. i + len - 1 : k \in WordPlaces(s)
<1>1. /\ len \in 2 .. Len(s) + 1 - i /\ s[i] = "$"
      /\ \A k \in i + 1 .. i + len - 1 : s[k] \in NameBodies \cup {"?"}
    BY ReferenceChars
<1>2. \A k \in i .. i + len - 1 : s[k] \notin OperatorChars \cup Blanks \cup Quotes
    <2>1. TAKE k \in i .. i + len - 1
    <2>2. k = i \/ k \in i + 1 .. i + len - 1
        OBVIOUS
    <2>3. CASE k = i
        BY <1>1, <2>3, KindsDiffer
    <2>4. CASE k \in i + 1 .. i + len - 1
        <3>1. s[k] \in NameBodies \cup {"?"}
            BY <1>1, <2>4
        <3>2. QED
            BY <3>1, KindsDiffer, NamesAssumption
    <2>5. QED
        BY <2>2, <2>3, <2>4
<1> DEFINE S == {k \in 0 .. len - 1 : Standing(s)[i + 1 + k] = "word" /\ i + k \in WordPlaces(s)}
<1>3. 0 \in S
    <2>1. s[i] # "#"
        BY <1>1
    <2>2. s[i] \notin OperatorChars \cup Blanks \cup Quotes
        BY <1>1, <1>2
    <2>3. Standing(s)[i + 1] = "word" /\ i \in WordPlaces(s)
        BY <2>1, <2>2, LetterStep
    <2>4. i + 1 + 0 = i + 1 /\ i + 0 = i /\ 0 \in 0 .. len - 1
        BY <1>1
    <2>5. QED
        BY <2>3, <2>4
<1>4. ASSUME NEW k \in 1 .. len - 1, k - 1 \in S PROVE k \in S
    <2>1. PICK j : j = i + k
        OBVIOUS
    <2>2. j \in i .. i + len - 1 /\ j \in 1 .. Len(s) /\ i + 1 + (k - 1) = j
        BY <1>1, <2>1
    <2>3. Standing(s)[j] = "word"
        BY <1>4, <2>2
    <2>4. Unquoted(s, j)
        BY <2>3 DEF Unquoted
    <2>5. s[j] \notin OperatorChars \cup Blanks \cup Quotes
        BY <1>2, <2>2
    <2>6. Standing(s)[j + 1] = "word" /\ j \in WordPlaces(s)
        BY <2>2, <2>3, <2>4, <2>5, LetterStep
    <2>7. i + 1 + k = j + 1 /\ k \in 0 .. len - 1
        BY <2>1
    <2>8. QED
        BY <2>1, <2>6, <2>7
<1> HIDE DEF S
<1>5. \A k \in 0 .. len - 1 : k \in S
    <2>1. len - 1 \in Nat
        BY <1>1
    <2>2. QED
        BY <1>3, <1>4, <2>1, UpTo
<1>6. \A k \in i .. i + len - 1 : k \in WordPlaces(s)
    <2>1. TAKE k \in i .. i + len - 1
    <2>2. k - i \in 0 .. len - 1 /\ i + (k - i) = k
        BY <1>1
    <2>3. k - i \in S
        BY <1>5, <2>2
    <2>4. QED
        BY <2>2, <2>3 DEF S
<1>7. Standing(s)[i + len] = "word"
    <2>1. len - 1 \in 0 .. len - 1 /\ i + 1 + (len - 1) = i + len
        BY <1>1
    <2>2. len - 1 \in S
        BY <1>5, <2>1
    <2>3. QED
        BY <2>1, <2>2 DEF S
<1>8. s[i + len - 1] \notin OperatorChars
    <2>1. i + len - 1 \in i .. i + len - 1
        BY <1>1
    <2>2. QED
        BY <1>2, <2>1
<1>9. QED
    BY <1>1, <1>6, <1>7, <1>8

\* A comment belongs to no token, up to the end of its line.
LEMMA CommentSteps ==
    ASSUME NEW s \in Seq(Chars), NEW i \in 1 .. Len(s), Standing(s)[i] = "out",
           s[i] = "#", NEW e \in i .. Len(s) + 1,
           \A k \in i .. e - 1 : s[k] # NewLine, e # i
    PROVE  /\ Standing(s)[e] = "#"
           /\ \A k \in i .. e - 1 : k \notin WordPlaces(s) /\ k \notin OperatorPlaces(s)
<1>1. ~Opens(s, i) /\ s[i] \notin Blanks /\ ~OperatorAt(s, i)
    BY KindsDiffer DEF Opens, OperatorAt
<1>2. \A k \in 1 .. Len(s) : Standing(s)[k + 1] = StandsNext(s, k, Standing(s)[k])
    BY StandingIs
<1>3. "out" \notin Quotes /\ "#" \notin Quotes
    BY KindsDiffer
<1>4. Standing(s)[i + 1] = "#"
    BY <1>1, <1>2, <1>3 DEF StandsNext
<1> DEFINE S == {k \in 0 .. e - 1 - i : Standing(s)[i + 1 + k] = "#"}
<1>5. 0 \in S
    <2>1. i + 1 + 0 = i + 1 /\ 0 \in 0 .. e - 1 - i
        OBVIOUS
    <2>2. QED
        BY <1>4, <2>1
<1>6. ASSUME NEW k \in 1 .. e - 1 - i, k - 1 \in S PROVE k \in S
    <2>1. PICK j : j = i + k
        OBVIOUS
    <2>2. j \in i .. e - 1 /\ j \in 1 .. Len(s) /\ i + 1 + (k - 1) = j
        BY <2>1
    <2>3. Standing(s)[j] = "#" /\ s[j] # NewLine
        BY <1>6, <2>2
    <2>4. Standing(s)[j + 1] = "#"
        BY <1>2, <1>3, <2>2, <2>3 DEF StandsNext
    <2>5. i + 1 + k = j + 1 /\ k \in 0 .. e - 1 - i
        BY <2>1
    <2>6. QED
        BY <2>4, <2>5
<1> HIDE DEF S
<1>7. \A k \in i + 1 .. e : Standing(s)[k] = "#"
    <2>1. \A k \in 0 .. e - 1 - i : k \in S
        <3>1. e - 1 - i \in Nat
            OBVIOUS
        <3>2. QED
            BY <1>5, <1>6, <3>1, UpTo
    <2>2. TAKE k \in i + 1 .. e
    <2>3. k - (i + 1) \in 0 .. e - 1 - i /\ i + 1 + (k - (i + 1)) = k
        OBVIOUS
    <2>4. k - (i + 1) \in S
        BY <2>1, <2>3
    <2>5. QED
        BY <2>3, <2>4 DEF S
<1>8. ASSUME NEW k \in i .. e - 1 PROVE k \notin WordPlaces(s) /\ k \notin OperatorPlaces(s)
    <2>1. PICK j : j = k + 1
        OBVIOUS
    <2>2. j \in i + 1 .. e
        BY <2>1
    <2>3. Standing(s)[j] = "#"
        BY <1>7, <2>2
    <2>4. k \notin WordPlaces(s)
        BY <1>3, <2>1, <2>3 DEF WordPlaces
    <2>5. CASE k = i
        BY <1>1, <2>4, <2>5 DEF OperatorPlaces
    <2>6. CASE k # i
        <3>1. k \in i + 1 .. e
            BY <2>6
        <3>2. Standing(s)[k] = "#" /\ s[k] # NewLine
            BY <1>7, <3>1
        <3>3. QED
            BY <2>4, <3>2 DEF OperatorPlaces
    <2>7. QED
        BY <2>5, <2>6
<1>9. Standing(s)[e] = "#"
    <2>1. e \in i + 1 .. e
        OBVIOUS
    <2>2. QED
        BY <1>7, <2>1
<1>10. QED
    BY <1>8, <1>9

-------------------------------------------------------------------------------
(* Where the lexer stands                                                       *)

\* An operator begins at c, if none that goes on does.
StartsAt(s, c) ==
    CharAt(s, c) \in OperatorChars /\ (CharAt(s, c) = "&" => CharAt(s, c + 1) = "&")

\* No token is being built: it stands outside of words, before the end of the line
\* that a comment or a word reaches or before the operator that ends a word.
Idle(s, c) ==
    \/ Standing(s)[c] = "out"
    \/ Standing(s)[c] = "#" /\ CharAt(s, c) \in {Nul, NewLine}
    \/ Standing(s)[c] = "word" /\ (StartsAt(s, c) \/ CharAt(s, c) = Nul)

\* What the specification says of the places behind the lexer, by the type of the token.
Placed(s, type, pos, c) ==
    /\ type = "none" => Idle(s, c)
    /\ type = "word" => /\ Standing(s)[c] = "word" /\ pos - 1 \notin WordPlaces(s)
                        /\ \A k \in pos .. c - 1 : k \in WordPlaces(s)
    /\ type = "operator" => /\ c = pos + 1 /\ Standing(s)[c] = "out"
                            /\ pos \in OperatorPlaces(s)
    /\ type # "operator" => (CharAt(s, c) \in Doubles => Leads(s, c))

\* The character that c has, if it has one.
LEMMA CharIs ==
    ASSUME NEW s \in Seq(Chars), NEW c \in Nat, CharAt(s, c) # Nul
    PROVE  c \in 1 .. Len(s) /\ CharAt(s, c) = s[c]
BY CharAtIs

\* Behind another character the first of some that may double leads.
LEMMA LeadsBehind ==
    ASSUME NEW s \in Seq(Chars), NEW i \in 1 .. Len(s), s[i] # CharAt(s, i + 1),
           CharAt(s, i + 1) \in Doubles
    PROVE  Leads(s, i + 1)
<1>1. PICK c : c = i + 1
    OBVIOUS
<1>2. c \in Nat \ {0} /\ c - 1 = i /\ CharAt(s, c) # Nul
    BY <1>1, KindsDiffer
<1>3. s[c - 1] # s[c]
    BY <1>1, <1>2, CharIs
<1>4. QED
    BY <1>1, <1>2, <1>3, FirstLeads

\* The character before c and the one at c are no two that double.
Parts(s, c) == s[c - 1] \in Doubles => s[c - 1] # CharAt(s, c)

\* A word that begins at p goes on to c.
LEMMA WordPlaced ==
    ASSUME NEW s \in Seq(Chars), NEW p \in Nat \ {0}, NEW c \in 1 .. Len(s) + 1, p < c,
           Standing(s)[c] = "word", p - 1 \notin WordPlaces(s),
           \A k \in p .. c - 1 : k \in WordPlaces(s), Parts(s, c)
    PROVE  Placed(s, "word", p, c)
<1>1. PICK i : i = c - 1
    OBVIOUS
<1>2. i \in 1 .. Len(s) /\ c = i + 1
    BY <1>1
<1>3. CharAt(s, c) \in Doubles => s[i] # CharAt(s, c)
    BY <1>1 DEF Parts
<1>4. CharAt(s, c) \in Doubles => Leads(s, c)
    BY <1>2, <1>3, LeadsBehind
<1>5. QED
    BY <1>4 DEF Placed

\* Outside of words none ends.
LEMMA NoWordBefore ==
    ASSUME NEW s \in Seq(Chars), NEW c \in 1 .. Len(s) + 1, Standing(s)[c] = "out"
    PROVE  c - 1 \notin WordPlaces(s)
<1>1. (c - 1) + 1 = c
    OBVIOUS
<1>2. QED
    BY <1>1, KindsDiffer DEF WordPlaces

\* Where a word may begin or go on, and the place it begins at.
LEMMA WordFrom ==
    ASSUME NEW s \in Seq(Chars), NEW c \in 1 .. Len(s), NEW type \in {"none", "word"},
           NEW pos, type = "word" => pos \in Nat \ {0} /\ pos < c, ~StartsAt(s, c),
           Placed(s, type, pos, c), NEW p, p = IF type = "none" THEN c ELSE pos
    PROVE  /\ p \in Nat \ {0} /\ p <= c /\ p - 1 \notin WordPlaces(s) /\ Unquoted(s, c)
           /\ \A k \in p .. c - 1 : k \in WordPlaces(s)
           /\ Standing(s)[c] = IF type = "none" THEN "out" ELSE "word"
<1>1. CharAt(s, c) = s[c] /\ CharAt(s, c) # Nul
    BY CharAtIs DEF CharAt
<1>2. CASE type = "none"
    <2>0. s[c] # NewLine
        BY <1>1, KindsDiffer DEF StartsAt
    <2>1. Standing(s)[c] = "out"
        BY <1>1, <1>2, <2>0 DEF Placed, Idle
    <2>2. c - 1 \notin WordPlaces(s)
        BY <2>1, NoWordBefore
    <2>3. QED
        BY <1>2, <2>1, <2>2 DEF Unquoted
<1>3. CASE type = "word"
    BY <1>3 DEF Placed, Unquoted
<1>4. QED
    BY <1>2, <1>3

\* One that begins an operator.
LEMMA OperatorStep ==
    ASSUME NEW s \in Seq(Chars), NEW c \in 1 .. Len(s), StartsAt(s, c),
           NEW type \in {"none", "word"}, NEW pos, Placed(s, type, pos, c)
    PROVE  /\ c \in OperatorPlaces(s) /\ c \notin WordPlaces(s) /\ Standing(s)[c + 1] = "out"
<1>1. CharAt(s, c) = s[c] /\ CharAt(s, c) # Nul
    BY CharAtIs DEF CharAt
<1>2. OperatorAt(s, c) /\ (s[c] \in Doubles => Leads(s, c))
    BY <1>1 DEF StartsAt, OperatorAt, Placed
<1>3. Unquoted(s, c) \/ (Standing(s)[c] = "#" /\ s[c] = NewLine)
    BY <1>1 DEF Placed, Idle, Unquoted
<1>4. Standing(s)[c + 1] = "out" /\ c \notin WordPlaces(s)
    <2>1. CASE Unquoted(s, c)
        BY <1>2, <2>1, OutStep
    <2>2. CASE Standing(s)[c] = "#" /\ s[c] = NewLine
        <3>1. Standing(s)[c + 1] = StandsNext(s, c, Standing(s)[c])
            BY StandingIs
        <3>2. Standing(s)[c + 1] = "out"
            BY <2>2, <3>1, KindsDiffer DEF StandsNext
        <3>3. QED
            BY <3>2, KindsDiffer DEF WordPlaces
    <2>3. QED
        BY <1>3, <2>1, <2>2
<1>5. QED
    BY <1>2, <1>3, <1>4 DEF OperatorPlaces, Unquoted

\* It is built.
LEMMA OperatorPlaced ==
    ASSUME NEW s \in Seq(Chars), NEW c \in 1 .. Len(s), StartsAt(s, c),
           NEW pos, Placed(s, "none", pos, c)
    PROVE  Placed(s, "operator", c, c + 1)
<1>1. c \in OperatorPlaces(s) /\ Standing(s)[c + 1] = "out"
    BY OperatorStep
<1>2. QED
    BY <1>1 DEF Placed

\* A word before it is done.
LEMMA WordBeforeOperator ==
    ASSUME NEW s \in Seq(Chars), NEW c \in 1 .. Len(s), StartsAt(s, c),
           NEW pos, Placed(s, "word", pos, c)
    PROVE  Placed(s, "none", pos, c)
BY DEF Placed, Idle

\* A blank after a word, or anywhere outside.
LEMMA BlankPlaced ==
    ASSUME NEW s \in Seq(Chars), NEW c \in 1 .. Len(s), s[c] \in Blanks,
           NEW type \in {"none", "word"}, NEW pos, Placed(s, type, pos, c), NEW p
    PROVE  /\ Placed(s, "none", p, c + 1)
           /\ c \notin WordPlaces(s) /\ c \notin OperatorPlaces(s)
<1>1. CharAt(s, c) = s[c] /\ CharAt(s, c) # Nul
    BY CharAtIs DEF CharAt
<1>2. ~StartsAt(s, c) /\ s[c] # NewLine
    BY <1>1, KindsDiffer DEF StartsAt
<1>3. Unquoted(s, c)
    BY <1>1, <1>2 DEF Placed, Idle, Unquoted
<1>4. /\ Standing(s)[c + 1] = "out" /\ c \notin WordPlaces(s)
      /\ c \notin OperatorPlaces(s)
    BY <1>3, BlankStep
<1>5. CharAt(s, c + 1) \in Doubles => Leads(s, c + 1)
    <2>1. CharAt(s, c + 1) \in Doubles => s[c] # CharAt(s, c + 1)
        BY KindsDiffer
    <2>2. QED
        BY <2>1, LeadsBehind
<1>6. QED
    BY <1>4, <1>5 DEF Placed, Idle

\* The second character of an operator joins the first.
Joins(s, c) == CharAt(s, c) = s[c - 1] /\ s[c - 1] \in Doubles

\* Behind it.
LEMMA SecondPlaced ==
    ASSUME NEW s \in Seq(Chars), NEW c \in 1 .. Len(s), NEW pos \in Nat \ {0},
           Placed(s, "operator", pos, c), Joins(s, c), NEW p
    PROVE  /\ Placed(s, "none", p, c + 1)
           /\ c \notin WordPlaces(s) /\ c \notin OperatorPlaces(s)
<1>1. /\ c = pos + 1 /\ Standing(s)[c] = "out" /\ pos \in OperatorPlaces(s)
      /\ pos = c - 1
    BY DEF Placed
<1>2. CharAt(s, c) = s[c] /\ s[c] = s[pos] /\ s[c] \in Doubles
    BY <1>1 DEF CharAt, Joins
<1>3. Leads(s, pos)
    BY <1>1, <1>2 DEF OperatorPlaces
<1>4. ~Leads(s, c)
    BY <1>1, <1>2, <1>3, NextLeads
<1>5. OperatorAt(s, c)
    BY <1>2, <1>4, KindsDiffer DEF OperatorAt
<1>6. Standing(s)[c + 1] = "out" /\ c \notin WordPlaces(s)
    BY <1>1, <1>5, OutStep DEF Unquoted
<1>7. c \notin OperatorPlaces(s)
    BY <1>2, <1>4 DEF OperatorPlaces
<1>8. CharAt(s, c + 1) \in Doubles => Leads(s, c + 1)
    <2>1. SUFFICES ASSUME CharAt(s, c + 1) \in Doubles PROVE Leads(s, c + 1)
        OBVIOUS
    <2>2. CASE s[c] = CharAt(s, c + 1)
        <3>1. CharAt(s, c + 1) # Nul /\ c + 1 \in Nat
            BY <2>1, KindsDiffer
        <3>2. s[c + 1] = s[c]
            BY <2>2, <3>1, CharIs
        <3>3. QED
            BY <1>4, <3>2, NextLeads
    <2>3. CASE s[c] # CharAt(s, c + 1)
        BY <2>1, <2>3, LeadsBehind
    <2>4. QED
        BY <2>2, <2>3
<1>9. QED
    BY <1>6, <1>7, <1>8 DEF Placed, Idle

\* An operator of one character is done.
LEMMA SinglePlaced ==
    ASSUME NEW s \in Seq(Chars), NEW c \in 1 .. Len(s) + 1, NEW pos \in Nat \ {0},
           Placed(s, "operator", pos, c), ~Joins(s, c), NEW p
    PROVE  Placed(s, "none", p, c)
<1>1. c = pos + 1 /\ Standing(s)[c] = "out" /\ pos \in 1 .. Len(s) /\ pos = c - 1
    BY DEF Placed, OperatorPlaces
<1>2. CharAt(s, c) \in Doubles => Leads(s, c)
    <2>1. CharAt(s, c) \in Doubles => s[pos] # CharAt(s, pos + 1)
        BY <1>1 DEF Joins
    <2>2. QED
        BY <1>1, <2>1, LeadsBehind
<1>3. QED
    BY <1>1, <1>2 DEF Placed, Idle

\* At the end of the line all is done.
LEMMA EndPlaced ==
    ASSUME NEW s \in Seq(Chars), NEW type \in {"none", "word", "operator"}, NEW pos, NEW c,
           Placed(s, type, pos, c), CharAt(s, c) = Nul, NEW p
    PROVE  Placed(s, "none", p, c)
<1>1. CharAt(s, c) \notin Doubles
    BY KindsDiffer
<1>2. QED
    BY <1>1 DEF Placed, Idle

\* A character that none of the other rules takes.
LEMMA OrdinaryStep ==
    ASSUME NEW s \in Seq(Chars), NEW c \in 1 .. Len(s), NEW type \in {"none", "word"}, NEW pos,
           Placed(s, type, pos, c), Unquoted(s, c), s[c] \notin Quotes \cup Blanks,
           ~StartsAt(s, c), s[c] # "#" \/ Standing(s)[c] = "word"
    PROVE  Standing(s)[c + 1] = "word" /\ c \in WordPlaces(s) /\ Parts(s, c + 1)
<1>1. CharAt(s, c) = s[c]
    BY DEF CharAt
<1>2. s[c] \in OperatorChars => s[c] = "&" /\ CharAt(s, c + 1) # "&"
    BY <1>1 DEF StartsAt
<1>3. s[c] = "&" => Leads(s, c)
    BY <1>1, KindsDiffer DEF Placed
<1>4. ~OperatorAt(s, c) /\ ~Opens(s, c)
    BY <1>2, <1>3 DEF OperatorAt, Opens
<1>5. Standing(s)[c + 1] = "word" /\ c \in WordPlaces(s)
    BY <1>4, WordStep
<1>6. Parts(s, c + 1)
    <2>1. (c + 1) - 1 = c
        OBVIOUS
    <2>2. s[c] \in Doubles => s[c] # CharAt(s, c + 1)
        BY <1>2, KindsDiffer
    <2>3. QED
        BY <2>1, <2>2 DEF Parts
<1>7. QED
    BY <1>5, <1>6

-------------------------------------------------------------------------------
(* The tokens that have begun                                                   *)

Starts(s) == Beginnings(WordPlaces(s)) \cup OperatorPlaces(s)

Paired(s, i) == s[i] \in Doubles /\ CharAt(s, i + 1) = s[i]

TokenFrom(s, i) ==
    IF i \in WordPlaces(s)
    THEN [type |-> "word", text |-> SubSeq(s, i, EndFrom(WordPlaces(s), i))]
    ELSE [type |-> "operator", text |-> SubSeq(s, i, IF Paired(s, i) THEN i + 1 ELSE i)]

TokensFrom(s) == [i \in Starts(s) |-> TokenFrom(s, i)]

\* The tokens of a line are these, in their order.
LEMMA TokensOfIs ==
    ASSUME NEW s
    PROVE  TokensOf(s) = InOrder(TokensFrom(s), Starts(s))
BY Zenon DEF TokensOf, TokensFrom, TokenFrom, Starts, Paired, WordPlaces, OperatorPlaces

\* The ones that begin before f.
Begun(s, f) == {i \in Starts(s) : i < f}

\* Where the next one begins, at the earliest.
NextFrom(type, pos, c) == IF type = "none" THEN c ELSE pos

\* The places a token begins at are places of the line.
LEMMA StartsAre ==
    ASSUME NEW s \in Seq(Chars)
    PROVE  Starts(s) \subseteq 1 .. Len(s)
BY DEF Starts, Beginnings, WordPlaces, OperatorPlaces

\* None begins between f and g.
LEMMA NoneBegun ==
    ASSUME NEW s \in Seq(Chars), NEW f \in Nat, NEW g \in Nat, f <= g,
           \A k \in f .. g - 1 : k \notin Starts(s)
    PROVE  Begun(s, g) = Begun(s, f)
<1>1. Starts(s) \subseteq 1 .. Len(s)
    BY StartsAre
<1>2. ASSUME NEW i \in Starts(s) PROVE i < g <=> i < f
    <2>1. i \in Nat
        BY <1>1
    <2>2. ~(i \in f .. g - 1)
        BY <1>2
    <2>3. QED
        BY <2>1, <2>2
<1>3. QED
    BY <1>2 DEF Begun

\* One does at f, and none behind it.
LEMMA OneBegun ==
    ASSUME NEW s \in Seq(Chars), NEW f \in Starts(s), NEW g \in Nat, f < g,
           \A k \in f + 1 .. g - 1 : k \notin Starts(s)
    PROVE  Begun(s, g) = Begun(s, f) \cup {f}
<1>1. Starts(s) \subseteq 1 .. Len(s)
    BY StartsAre
<1>2. ASSUME NEW i \in Starts(s) PROVE i < g <=> i < f \/ i = f
    <2>1. i \in Nat /\ f \in Nat
        BY <1>1
    <2>2. ~(i \in f + 1 .. g - 1)
        BY <1>2
    <2>3. QED
        BY <2>1, <2>2
<1>3. QED
    BY <1>2 DEF Begun

\* Inside a word no token begins.
LEMMA NoneInside ==
    ASSUME NEW s, NEW k, k \in WordPlaces(s), k - 1 \in WordPlaces(s)
    PROVE  k \notin Starts(s)
BY DEF Starts, Beginnings, OperatorPlaces

\* A place that is no word's and no operator's.
LEMMA NoneAt ==
    ASSUME NEW s, NEW k, k \notin WordPlaces(s), k \notin OperatorPlaces(s)
    PROVE  k \notin Starts(s)
BY DEF Starts, Beginnings

\* The word that ends before c.
LEMMA WordDone ==
    ASSUME NEW s \in Seq(Chars), NEW p \in Nat \ {0}, NEW c \in Nat, p < c,
           p - 1 \notin WordPlaces(s), \A k \in p .. c - 1 : k \in WordPlaces(s),
           c \notin WordPlaces(s)
    PROVE  /\ p \in Starts(s) /\ \A k \in p + 1 .. c - 1 : k \notin Starts(s)
           /\ TokensFrom(s)[p] = [type |-> "word", text |-> SubSeq(s, p, c - 1)]
<1>1. p \in WordPlaces(s)
    OBVIOUS
<1>2. p \in Starts(s)
    BY <1>1 DEF Starts, Beginnings
<1>3. ASSUME NEW k \in p + 1 .. c - 1 PROVE k \notin Starts(s)
    <2>1. PICK j : j = k - 1
        OBVIOUS
    <2>2. j \in p .. c - 1 /\ k \in p .. c - 1
        BY <2>1
    <2>3. j \in WordPlaces(s) /\ k \in WordPlaces(s)
        BY <2>2
    <2>4. QED
        BY <2>1, <2>3, NoneInside
<1>4. PICK W : W = WordPlaces(s)
    OBVIOUS
<1>5. EndFrom(W, p) = c - 1
    <2>1. W \subseteq Int
        BY <1>4 DEF WordPlaces
    <2>2. PICK e : e = c - 1
        OBVIOUS
    <2>3. e \in W /\ p <= e /\ p .. e \subseteq W /\ e + 1 \notin W
        BY <1>4, <2>2
    <2>4. ASSUME NEW d \in W, p <= d, p .. d \subseteq W, d + 1 \notin W PROVE d = e
        <3>1. d \in Int /\ e \in Int
            BY <2>1, <2>2
        <3>2. ~(d < e)
            <4>1. SUFFICES ASSUME d < e PROVE FALSE
                OBVIOUS
            <4>2. PICK k : k = d + 1
                OBVIOUS
            <4>3. k \in p .. e
                BY <2>4, <3>1, <4>1, <4>2
            <4>4. k \in W
                BY <2>3, <4>3
            <4>5. QED
                BY <2>4, <4>2, <4>4
        <3>3. ~(e < d)
            <4>1. SUFFICES ASSUME e < d PROVE FALSE
                OBVIOUS
            <4>2. PICK k : k = e + 1
                OBVIOUS
            <4>3. k \in p .. d
                BY <2>3, <3>1, <4>1, <4>2
            <4>4. k \in W
                BY <2>4, <4>3
            <4>5. QED
                BY <2>3, <4>2, <4>4
        <3>4. QED
            BY <3>1, <3>2, <3>3
    <2>5. (CHOOSE d \in W : p <= d /\ p .. d \subseteq W /\ d + 1 \notin W) = e
        BY <2>3, <2>4
    <2>6. QED
        BY <2>2, <2>5 DEF EndFrom
<1>6. TokensFrom(s)[p] = TokenFrom(s, p)
    BY <1>2 DEF TokensFrom
<1>7. TokenFrom(s, p) = [type |-> "word", text |-> SubSeq(s, p, c - 1)]
    BY <1>1, <1>4, <1>5 DEF TokenFrom
<1>8. QED
    BY <1>2, <1>3, <1>6, <1>7

\* The operator that begins at p.
LEMMA OperatorDone ==
    ASSUME NEW s \in Seq(Chars), NEW p \in OperatorPlaces(s)
    PROVE  /\ p \in Starts(s)
           /\ TokensFrom(s)[p] = [type |-> "operator",
                                  text |-> SubSeq(s, p, IF Paired(s, p) THEN p + 1 ELSE p)]
<1>1. p \in Starts(s) /\ p \notin WordPlaces(s)
    BY DEF Starts, OperatorPlaces
<1>2. TokensFrom(s)[p] = TokenFrom(s, p)
    BY <1>1 DEF TokensFrom
<1>3. QED
    BY <1>1, <1>2 DEF TokenFrom

\* Type and text of a token.
Brief(t) == [type |-> t.type, text |-> t.text]
Briefly(ts) == [k \in DOMAIN ts |-> Brief(ts[k])]
Briefs == [type : {"word", "operator"}, text : Seq(Chars)]

\* One more token.
LEMMA BrieflyMore ==
    ASSUME NEW ts \in Seq(Token), NEW t \in Token
    PROVE  /\ Briefly(ts) \in Seq(Briefs) /\ Brief(t) \in Briefs
           /\ Briefly(Append(ts, t)) = Briefly(ts) \o <<Brief(t)>>
<1>1. \A x \in Token : Brief(x) \in Briefs
    BY DEF Brief, Briefs, Token
<1>2. PICK n \in Nat : n = Len(ts) /\ DOMAIN ts = 1 .. n
    OBVIOUS
<1>3. PICK b : b = Briefly(ts)
    OBVIOUS
<1>4. b = [k \in 1 .. n |-> Brief(ts[k])]
    BY <1>2, <1>3 DEF Briefly
<1>5. b \in Seq(Briefs) /\ Len(b) = n
    <2>1. \A k \in 1 .. n : ts[k] \in Token
        BY <1>2
    <2>2. b \in [1 .. n -> Briefs]
        BY <1>1, <1>4, <2>1
    <2>3. QED
        BY <1>2, <2>2
<1>6. PICK u : u = Append(ts, t)
    OBVIOUS
<1>7. DOMAIN u = 1 .. n + 1 /\ u[n + 1] = t /\ \A k \in 1 .. n : u[k] = ts[k]
    BY <1>2, <1>6
<1>8. Briefly(u) = [k \in 1 .. n + 1 |-> Brief(u[k])]
    BY <1>7 DEF Briefly
<1>9. PICK v : v = b \o <<Brief(t)>>
    OBVIOUS
<1>10. /\ v \in Seq(Briefs) /\ Len(v) = n + 1 /\ v[n + 1] = Brief(t)
       /\ \A k \in 1 .. n : v[k] = b[k]
    BY <1>1, <1>5, <1>9
<1>11. \A k \in 1 .. n + 1 : Brief(u[k]) = v[k]
    <2>1. TAKE k \in 1 .. n + 1
    <2>2. CASE k = n + 1
        BY <1>7, <1>10, <2>2
    <2>3. CASE k \in 1 .. n
        BY <1>4, <1>7, <1>10, <2>3
    <2>4. QED
        BY <2>2, <2>3
<1>12. v = [k \in 1 .. n + 1 |-> v[k]]
    BY <1>10
<1>13. Briefly(u) = v
    BY <1>8, <1>11, <1>12
<1>14. QED
    BY <1>1, <1>3, <1>5, <1>6, <1>9, <1>13

\* One that stands behind the ones before.
LEMMA KeepsOne ==
    ASSUME NEW F, NEW A \in SUBSET Nat, NEW ts \in Seq(Token), NEW t \in Token,
           Keeps(F, A, Briefly(ts)), NEW p \in Nat, \A a \in A : a < p, F[p] = Brief(t)
    PROVE  Keeps(F, A \cup {p}, Briefly(Append(ts, t)))
<1>1. PICK u : u = <<Brief(t)>>
    OBVIOUS
<1>2. u \in Seq(Briefs) /\ Len(u) = 1 /\ u[1] = Brief(t)
    BY <1>1, BrieflyMore
<1>3. Keeps(F, {p}, u)
    <2> DEFINE e == [k \in 1 .. 1 |-> p]
    <2>1. Picks(e, 1, {p})
        BY DEF Picks
    <2>2. \A k \in 1 .. 1 : u[k] = F[e[k]]
        BY <1>2
    <2> HIDE DEF e
    <2>3. QED
        BY <1>2, <2>1, <2>2 DEF Keeps
<1>4. \A a \in A, b \in {p} : a < b
    OBVIOUS
<1>5. {p} \in SUBSET Nat /\ Briefly(ts) \in Seq(Briefs)
    BY BrieflyMore
<1>6. Keeps(F, A \cup {p}, Briefly(ts) \o u)
    BY <1>2, <1>3, <1>4, <1>5, KeepsBoth
<1>7. QED
    BY <1>1, <1>6, BrieflyMore

-------------------------------------------------------------------------------
(* The tokens that the rules make                                               *)

\* The lexer stands where the specification says, and the tokens it has put into the
\* arena are the ones that begin before the next it will.
LexRead ==
    /\ Placed(line, lex.type, lex.pos, char_idx)
    /\ Keeps(TokensFrom(line), Begun(line, NextFrom(lex.type, lex.pos, char_idx)),
             Briefly(tokens))
    /\ ~Lexing => ~Building /\ char_idx = Len(line) + 1

\* No token is put there.
LEMMA StillRead ==
    ASSUME LexRead, UNCHANGED <<line, tokens>>, Lexing',
           Placed(line, lex'.type, lex'.pos, char_idx'),
           Begun(line, NextFrom(lex'.type, lex'.pos, char_idx'))
              = Begun(line, NextFrom(lex.type, lex.pos, char_idx))
    PROVE  LexRead'
BY DEF LexRead

\* The token that was being built is put there.
LEMMA DelimitRead ==
    ASSUME LexShape, TokensShape, LexRead, Building, NEW n \in {0, 1}, NEW more,
           Delimit(n, more), line' = line, "AT_EOI" \notin lex'.flags \/ char_idx' = Len(line) + 1,
           lex.pos + lex.len + n - 1 <= Len(line),
           Placed(line, "none", lex.pos, char_idx'),
           lex.pos \in Starts(line), char_idx' \in Nat, lex.pos < char_idx',
           \A k \in lex.pos + 1 .. char_idx' - 1 : k \notin Starts(line),
           "IS_BUILDING" \notin more,
           TokensFrom(line)[lex.pos]
              = [type |-> lex.type, text |-> SubSeq(line, lex.pos, lex.pos + lex.len + n - 1)]
    PROVE  LexRead'
<1>1. PICK text : text = SubSeq(line, lex.pos, lex.pos + lex.len + n - 1)
    OBVIOUS
<1>2. PICK t : t = [type |-> lex.type, text |-> text, flags |-> lex.flags \cap TokenFlags]
    OBVIOUS
<1>3. t \in Token
    <2>1. lex.type \in {"word", "operator"} /\ lex.pos \in Nat \ {0} /\ lex.len \in Nat
        BY DEF LexShape
    <2>2. PICK b \in Nat : b = lex.pos + lex.len + n - 1
        BY <2>1
    <2>3. text \in Seq(Chars)
        <3>1. text = SubSeq(line, lex.pos, b) /\ b <= Len(line) /\ line \in Seq(Chars)
            BY <1>1, <2>2, LineIs
        <3>2. SubSeq(line, lex.pos, b) \in Seq(Chars)
            BY <2>1, <3>1, PartOfText
        <3>3. QED
            BY <3>1, <3>2
    <2>4. QED
        BY <1>2, <2>1, <2>3 DEF Token
<1>4. tokens' = Append(tokens, t)
    BY <1>1, <1>2 DEF Delimit
<1>5. /\ lex' = [lex EXCEPT !.type = "none", !.len = @ + n,
                            !.flags = (@ \ {"IS_BUILDING"}) \cup more]
      /\ lex'.type = "none" /\ lex'.pos = lex.pos /\ "IS_BUILDING" \notin lex'.flags
    BY DEF Delimit, LexShape
<1>6. PICK A \in SUBSET Nat : A = Begun(line, lex.pos)
    <2>1. Starts(line) \subseteq 1 .. Len(line) /\ Len(line) \in Nat
        BY LineIs, StartsAre
    <2>2. Begun(line, lex.pos) \subseteq Nat
        BY <2>1 DEF Begun
    <2>3. QED
        BY <2>2
<1>7. Begun(line, char_idx') = A \cup {lex.pos}
    BY <1>6, LineIs, OneBegun
<1>8. Keeps(TokensFrom(line), A, Briefly(tokens))
    <2>1. NextFrom(lex.type, lex.pos, char_idx) = lex.pos
        BY DEF LexShape, NextFrom
    <2>2. QED
        BY <1>6, <2>1 DEF LexRead
<1>9. Keeps(TokensFrom(line), A \cup {lex.pos}, Briefly(tokens'))
    <2>1. \A a \in A : a < lex.pos
        BY <1>6 DEF Begun
    <2>2. TokensFrom(line)[lex.pos] = Brief(t)
        BY <1>1, <1>2 DEF Brief
    <2>3. lex.pos \in Nat /\ tokens \in Seq(Token)
        BY DEF LexShape, TokensShape
    <2>4. PICK F : F = TokensFrom(line)
        OBVIOUS
    <2>5. Keeps(F, A \cup {lex.pos}, Briefly(Append(tokens, t)))
        BY <1>3, <1>8, <2>1, <2>2, <2>3, <2>4, KeepsOne
    <2>6. QED
        BY <1>4, <2>4, <2>5
<1>10. NextFrom(lex'.type, lex'.pos, char_idx') = char_idx'
    BY <1>5 DEF NextFrom
<1>11. Placed(line, lex'.type, lex'.pos, char_idx')
    BY <1>5
<1>12. ~Lexing' => ~Building' /\ char_idx' = Len(line) + 1
    BY <1>5 DEF Lexing, Building
<1>13. QED
    BY <1>7, <1>9, <1>10, <1>11, <1>12 DEF LexRead

\* A word ends before char_idx.
LEMMA WordRead ==
    ASSUME LexShape, TokensShape, LexRead, lex.type = "word", NEW more,
           Delimit(0, more), line' = line, "IS_BUILDING" \notin more,
           "AT_EOI" \notin lex'.flags \/ char_idx' = Len(line) + 1,
           char_idx \notin WordPlaces(line),
           char_idx' = char_idx \/ (char_idx' = char_idx + 1 /\ char_idx \notin OperatorPlaces(line)),
           Placed(line, "none", lex.pos, char_idx')
    PROVE  LexRead'
<1>1. PICK p, c : p = lex.pos /\ c = char_idx
    OBVIOUS
<1>2. /\ Building /\ p \in Nat \ {0} /\ c \in Nat /\ p < c /\ c <= Len(line) + 1
      /\ lex.pos + lex.len + 0 - 1 = c - 1 /\ line \in Seq(Chars) /\ Len(line) \in Nat
    <2>1. Building
        BY DEF LexShape
    <2>2. lex.pos \in Nat \ {0} /\ lex.len \in Nat \ {0} /\ lex.pos + lex.len = char_idx
        BY <2>1 DEF LexShape
    <2>3. QED
        BY <1>1, <2>1, <2>2, LineIs
<1>3. p - 1 \notin WordPlaces(line) /\ \A k \in p .. c - 1 : k \in WordPlaces(line)
    BY <1>1 DEF LexRead, Placed
<1>4. /\ p \in Starts(line) /\ \A k \in p + 1 .. c - 1 : k \notin Starts(line)
      /\ TokensFrom(line)[p] = [type |-> "word", text |-> SubSeq(line, p, c - 1)]
    BY <1>1, <1>2, <1>3, WordDone
<1>5. PICK d : d = char_idx'
    OBVIOUS
<1>6. d \in Nat /\ p < d /\ \A k \in p + 1 .. d - 1 : k \notin Starts(line)
    <2>1. CASE d = c
        BY <1>2, <1>4, <2>1
    <2>2. CASE d # c
        <3>1. d = c + 1 /\ c \notin OperatorPlaces(line) /\ c \notin WordPlaces(line)
            BY <1>1, <1>5, <2>2
        <3>2. c \notin Starts(line)
            BY <3>1, NoneAt
        <3>3. \A k \in p + 1 .. d - 1 : k = c \/ k \in p + 1 .. c - 1
            BY <1>2, <3>1
        <3>4. QED
            BY <1>2, <1>4, <3>1, <3>2, <3>3
    <2>3. QED
        BY <2>1, <2>2
<1>7. /\ lex.pos \in Starts(line) /\ char_idx' \in Nat /\ lex.pos < char_idx'
      /\ \A k \in lex.pos + 1 .. char_idx' - 1 : k \notin Starts(line)
    BY <1>1, <1>4, <1>5, <1>6
<1>8. lex.pos + lex.len + 0 - 1 <= Len(line)
    BY <1>2
<1>9. TokensFrom(line)[lex.pos]
         = [type |-> lex.type, text |-> SubSeq(line, lex.pos, lex.pos + lex.len + 0 - 1)]
    BY <1>1, <1>2, <1>4
<1>10. 0 \in {0, 1}
    OBVIOUS
<1>11. QED
    BY <1>2, <1>7, <1>8, <1>9, <1>10, DelimitRead

\* An operator ends, with its second character or without.
LEMMA OperatorRead ==
    ASSUME LexShape, TokensShape, LexRead, lex.type = "operator", NEW more,
           NEW n \in {0, 1}, n = 1 <=> Joins(line, char_idx), Delimit(n, more), line' = line,
           "AT_EOI" \notin lex'.flags \/ char_idx' = Len(line) + 1, "IS_BUILDING" \notin more,
           char_idx' = char_idx + n, char_idx' <= Len(line) + 1
    PROVE  LexRead'
<1>1. PICK p, c : p = lex.pos /\ c = char_idx
    OBVIOUS
<1>2. /\ Placed(line, "operator", p, c) /\ p \in OperatorPlaces(line) /\ c = p + 1
    BY <1>1 DEF LexRead, Placed
<1>3. /\ Building /\ p \in Nat \ {0} /\ c \in Nat /\ line \in Seq(Chars) /\ Len(line) \in Nat
      /\ c \in 1 .. Len(line) + 1 /\ c + n <= Len(line) + 1 /\ c - 1 = p
      /\ lex.pos + lex.len + n - 1 = p + n
    <2>1. Building
        BY DEF LexShape
    <2>2. lex.pos \in Nat \ {0} /\ lex.len \in Nat /\ lex.pos + lex.len = char_idx
        BY <2>1 DEF LexShape
    <2>3. QED
        BY <1>1, <1>2, <2>1, <2>2, LineIs
<1>4. Paired(line, p) <=> n = 1
    BY <1>1, <1>2, <1>3 DEF Paired, Joins
<1>5. /\ p \in Starts(line)
      /\ TokensFrom(line)[p] = [type |-> "operator", text |-> SubSeq(line, p, p + n)]
    <2>1. /\ p \in Starts(line)
          /\ TokensFrom(line)[p] = [type |-> "operator",
                text |-> SubSeq(line, p, IF Paired(line, p) THEN p + 1 ELSE p)]
        BY <1>2, <1>3, OperatorDone
    <2>2. (IF Paired(line, p) THEN p + 1 ELSE p) = p + n
        BY <1>3, <1>4
    <2>3. QED
        BY <2>1, <2>2
<1>6. /\ Placed(line, "none", p, c + n)
      /\ \A k \in p + 1 .. c + n - 1 : k \notin Starts(line)
    <2>1. CASE n = 1
        <3>1. c \in 1 .. Len(line) /\ Joins(line, c)
            BY <1>1, <1>3, <2>1
        <3>2. /\ Placed(line, "none", p, c + 1)
              /\ c \notin WordPlaces(line) /\ c \notin OperatorPlaces(line)
            BY <1>2, <1>3, <3>1, SecondPlaced
        <3>3. c \notin Starts(line)
            BY <3>2, NoneAt
        <3>4. \A k \in p + 1 .. c + n - 1 : k = c
            BY <1>2, <1>3, <2>1
        <3>5. QED
            BY <2>1, <3>2, <3>3, <3>4
    <2>2. CASE n = 0
        <3>1. ~Joins(line, c)
            BY <1>1, <2>2
        <3>2. Placed(line, "none", p, c)
            BY <1>2, <1>3, <3>1, SinglePlaced
        <3>3. c + n = c /\ \A k \in p + 1 .. c + n - 1 : FALSE
            BY <1>2, <1>3, <2>2
        <3>4. QED
            BY <3>2, <3>3
    <2>3. QED
        BY <2>1, <2>2
<1>7. /\ Placed(line, "none", lex.pos, char_idx')
      /\ lex.pos \in Starts(line) /\ char_idx' \in Nat /\ lex.pos < char_idx'
      /\ \A k \in lex.pos + 1 .. char_idx' - 1 : k \notin Starts(line)
    <2>1. char_idx' = c + n /\ c + n \in Nat /\ p < c + n
        BY <1>1, <1>2, <1>3
    <2>2. PICK d : d = c + n
        OBVIOUS
    <2>3. Placed(line, "none", p, d)
        BY <1>6, <2>2
    <2>4. \A k \in p + 1 .. d - 1 : k \notin Starts(line)
        BY <1>3, <1>6, <2>1, <2>2
    <2>5. char_idx' = d /\ lex.pos = p /\ d \in Nat /\ p < d
        BY <1>1, <2>1, <2>2
    <2>6. QED
        BY <1>5, <2>3, <2>4, <2>5
<1>8. lex.pos + lex.len + n - 1 <= Len(line)
    BY <1>2, <1>3
<1>9. TokensFrom(line)[lex.pos]
         = [type |-> lex.type, text |-> SubSeq(line, lex.pos, lex.pos + lex.len + n - 1)]
    BY <1>1, <1>3, <1>5
<1>10. QED
    BY <1>3, <1>7, <1>8, <1>9, DelimitRead

\* A word begins or goes on.
LEMMA WordGoes ==
    ASSUME LexShape, LexRead, lex.type # "operator", Here # Nul, UNCHANGED <<line, tokens>>,
           ~StartsAt(line, char_idx), Lexing', lex'.type = "word",
           lex'.pos = IF Building THEN lex.pos ELSE char_idx,
           char_idx' \in char_idx + 1 .. Len(line) + 1, Standing(line)[char_idx'] = "word",
           \A k \in char_idx .. char_idx' - 1 : k \in WordPlaces(line), Parts(line, char_idx')
    PROVE  LexRead'
<1>1. PICK c, d, p : /\ c = char_idx /\ d = char_idx'
                     /\ p = IF lex.type = "none" THEN char_idx ELSE lex.pos
    OBVIOUS
<1>2. /\ c \in 1 .. Len(line) /\ line \in Seq(Chars) /\ Len(line) \in Nat
      /\ lex.type \in {"none", "word"} /\ (lex.type = "none" <=> ~Building)
      /\ lex.type = "word" => lex.pos \in Nat \ {0} /\ lex.pos < c
    <2>1. lex.type \in {"none", "word"} /\ (lex.type = "none" <=> ~Building)
        BY DEF LexShape
    <2>2. Building => lex.pos \in Nat \ {0} /\ lex.len \in Nat \ {0} /\ lex.pos + lex.len = char_idx
        BY DEF LexShape
    <2>3. char_idx \in 1 .. Len(line)
        BY HereIs
    <2>4. QED
        BY <1>1, <2>1, <2>2, <2>3, LineIs
<1>3. /\ p \in Nat \ {0} /\ p <= c /\ p - 1 \notin WordPlaces(line)
      /\ \A k \in p .. c - 1 : k \in WordPlaces(line)
    <2>1. Placed(line, lex.type, lex.pos, c)
        BY <1>1 DEF LexRead
    <2>2. ~StartsAt(line, c) /\ p = IF lex.type = "none" THEN c ELSE lex.pos
        BY <1>1
    <2>3. QED
        BY <1>2, <2>1, <2>2, WordFrom
<1>4. d \in 1 .. Len(line) + 1 /\ p < d
    BY <1>1, <1>2, <1>3
<1>5. \A k \in p .. d - 1 : k \in WordPlaces(line)
    <2>1. \A k \in p .. d - 1 : k \in p .. c - 1 \/ k \in c .. d - 1
        BY <1>2, <1>3, <1>4
    <2>2. \A k \in c .. d - 1 : k \in WordPlaces(line)
        BY <1>1
    <2>3. QED
        BY <1>3, <2>1, <2>2
<1>6. Placed(line, "word", p, d)
    <2>1. Standing(line)[d] = "word" /\ Parts(line, d)
        BY <1>1
    <2>2. QED
        BY <1>2, <1>3, <1>4, <1>5, <2>1, WordPlaced
<1>7. Placed(line, lex'.type, lex'.pos, char_idx')
    BY <1>1, <1>2, <1>6
<1>8. NextFrom(lex'.type, lex'.pos, char_idx') = NextFrom(lex.type, lex.pos, char_idx)
    BY <1>2 DEF NextFrom
<1>9. QED
    BY <1>7, <1>8, StillRead

\* What the rules ask is what the specification says.
LEMMA RulesAsk ==
    ASSUME LexShape, LexRead
    PROVE  /\ StartsOperator <=> StartsAt(line, char_idx)
           /\ Here = CharAt(line, char_idx)
           /\ lex.type = "operator" => char_idx - 1 \in 1 .. Len(line)
           /\ lex.type = "operator" /\ Here # Nul =>
                (OperatorGoesOn <=> Joins(line, char_idx))
<1>1. StartsOperator <=> StartsAt(line, char_idx)
    BY DEF StartsOperator, StartsAt, Here
<1>2. line \in Seq(Chars) /\ Len(line) \in Nat /\ char_idx \in 1 .. Len(line) + 1
    BY LineIs DEF LexShape
<1>3. ASSUME lex.type = "operator" PROVE char_idx - 1 \in 1 .. Len(line)
    <2>1. char_idx = lex.pos + 1 /\ lex.pos \in OperatorPlaces(line)
        BY <1>3 DEF LexRead, Placed
    <2>2. lex.pos \in 1 .. Len(line)
        BY <1>2, <2>1 DEF OperatorPlaces
    <2>3. QED
        BY <1>2, <2>1, <2>2
<1>4. ASSUME lex.type = "operator", Here # Nul
      PROVE  OperatorGoesOn <=> Joins(line, char_idx)
    <2>1. PICK p, c : p = char_idx - 1 /\ c = char_idx
        OBVIOUS
    <2>2. p \in 1 .. Len(line) /\ c = p + 1 /\ c \in 1 .. Len(line)
        BY <1>2, <1>3, <1>4, <2>1, HereIs
    <2>3. PICK a, b : a = line[p] /\ b = line[c]
        OBVIOUS
    <2>4. SubSeq(line, p, c) = <<a, b>>
        <3>1. \A k \in p .. c : line[k] \in Chars
            BY <1>2, <2>2
        <3>2. PICK t : t = SubSeq(line, p, c)
            OBVIOUS
        <3>3. t \in Seq(Chars) /\ Len(t) = 2 /\ \A k \in 1 .. 2 : t[k] = line[p + k - 1]
            BY <2>2, <3>1, <3>2, SubSeqProperties
        <3>4. t[1] = a /\ t[2] = b
            <4>1. 1 \in 1 .. 2 /\ 2 \in 1 .. 2 /\ p + 1 - 1 = p /\ p + 2 - 1 = c
                BY <2>2
            <4>2. QED
                BY <2>3, <3>3, <4>1
        <3>5. t = <<a, b>>
            BY <3>3, <3>4
        <3>6. QED
            BY <3>2, <3>5
    <2>5. <<a, b>> \in Operators <=> a = b /\ a \in Doubles
        BY DEF Operators, Doubles
    <2>6. CharAt(line, c) = b
        BY <1>2, <2>2, <2>3 DEF CharAt
    <2>7. Joins(line, c) <=> a = b /\ a \in Doubles
        BY <2>1, <2>3, <2>6 DEF Joins
    <2>8. QED
        BY <1>4, <2>1, <2>4, <2>5, <2>7 DEF OperatorGoesOn
<1>5. QED
    BY <1>1, <1>3, <1>4 DEF Here

\* The end of the line: the last token is done.
LEMMA Rule1Reads ==
    ASSUME LexShape, TokensShape, LexRead, Rule1, line' = line
    PROVE  LexRead'
<1>1. Here = Nul /\ char_idx' = char_idx /\ char_idx = Len(line) + 1
    BY HereIs DEF Rule1
<1>2. line \in Seq(Chars) /\ CharAt(line, char_idx) = Nul /\ Len(line) \in Nat
    BY <1>1, LineIs DEF Here
<1>3. Placed(line, "none", lex.pos, char_idx')
    <2>1. Placed(line, lex.type, lex.pos, char_idx) /\ lex.type \in {"none", "word", "operator"}
        BY DEF LexRead, LexShape
    <2>2. Placed(line, "none", lex.pos, char_idx)
        BY <1>2, <2>1, EndPlaced
    <2>3. QED
        BY <1>1, <2>2
<1>4. char_idx' = Len(line) + 1 /\ "IS_BUILDING" \notin {"AT_EOI"}
    BY <1>1
<1>5. CASE lex.type = "none"
    <2>1. ~Building
        BY <1>5 DEF LexShape
    <2>2. lex' = [lex EXCEPT !.flags = @ \cup {"AT_EOI"}] /\ tokens' = tokens
        BY <2>1 DEF Rule1
    <2>3. lex'.type = lex.type /\ lex'.pos = lex.pos /\ "IS_BUILDING" \notin lex'.flags
        BY <2>1, <2>2 DEF LexShape, Building
    <2>4. Placed(line, lex'.type, lex'.pos, char_idx')
        BY <1>1, <2>3 DEF LexRead
    <2>5. QED
        BY <1>1, <2>2, <2>3, <2>4 DEF LexRead, Building
<1>6. CASE lex.type = "word"
    <2>1. Delimit(0, {"AT_EOI"})
        BY <1>6 DEF Rule1, LexShape
    <2>2. char_idx \notin WordPlaces(line)
        BY <1>1, <1>2 DEF WordPlaces
    <2>3. QED
        BY <1>1, <1>3, <1>4, <1>6, <2>1, <2>2, WordRead
<1>7. CASE lex.type = "operator"
    <2>1. Delimit(0, {"AT_EOI"})
        BY <1>7 DEF Rule1, LexShape
    <2>2. ~Joins(line, char_idx)
        BY <1>2, KindsDiffer DEF Joins
    <2>3. PICK n \in {0, 1} : n = 0
        OBVIOUS
    <2>4. /\ n = 1 <=> Joins(line, char_idx)
          /\ Delimit(n, {"AT_EOI"}) /\ char_idx' = char_idx + n /\ char_idx' <= Len(line) + 1
        BY <1>1, <1>2, <2>1, <2>2, <2>3
    <2>5. QED
        BY <1>4, <1>7, <2>4, OperatorRead
<1>8. QED
    BY <1>5, <1>6, <1>7 DEF LexShape

\* Delimiting leaves the lexer lexing.
LEMMA DelimitGoesOn ==
    ASSUME LexShape, Lexing, NEW n, Delimit(n, {})
    PROVE  "AT_EOI" \notin lex'.flags /\ "IS_BUILDING" \notin {}
<1>1. lex' = [lex EXCEPT !.type = "none", !.len = @ + n,
                         !.flags = (@ \ {"IS_BUILDING"}) \cup {}]
    BY DEF Delimit
<1>2. lex'.flags = (lex.flags \ {"IS_BUILDING"}) \cup {}
    BY <1>1 DEF LexShape
<1>3. QED
    BY <1>2 DEF Lexing

\* The second character of an operator.
LEMMA Rule2Reads ==
    ASSUME LexShape, TokensShape, LexRead, Lexing, Rule2, line' = line
    PROVE  LexRead'
<1>1. /\ Here # Nul /\ OperatorGoesOn /\ char_idx' = char_idx + 1 /\ Delimit(1, {})
      /\ lex.type = "operator"
    BY DEF Rule2, OperatorGoesOn
<1>2. Joins(line, char_idx) /\ char_idx \in 1 .. Len(line)
    BY <1>1, RulesAsk, HereIs
<1>3. PICK n \in {0, 1} : n = 1
    OBVIOUS
<1>4. /\ n = 1 <=> Joins(line, char_idx)
      /\ Delimit(n, {}) /\ char_idx' = char_idx + n /\ char_idx' <= Len(line) + 1
    BY <1>1, <1>2, <1>3, LineIs
<1>5. QED
    BY <1>1, <1>4, DelimitGoesOn, OperatorRead

\* An operator that has one.
LEMMA Rule3Reads ==
    ASSUME LexShape, TokensShape, LexRead, Lexing, Rule3, line' = line
    PROVE  LexRead'
<1>1. /\ Here # Nul /\ ~OperatorGoesOn /\ char_idx' = char_idx /\ Delimit(0, {})
      /\ lex.type = "operator"
    BY DEF Rule3
<1>2. ~Joins(line, char_idx) /\ char_idx \in 1 .. Len(line)
    BY <1>1, RulesAsk, HereIs
<1>3. PICK n \in {0, 1} : n = 0
    OBVIOUS
<1>4. /\ n = 1 <=> Joins(line, char_idx)
      /\ Delimit(n, {}) /\ char_idx' = char_idx + n /\ char_idx' <= Len(line) + 1
    BY <1>1, <1>2, <1>3, LineIs
<1>5. QED
    BY <1>1, <1>4, DelimitGoesOn, OperatorRead

\* Where the lexer stands is outside of quotations when no operator is built.
LEMMA HereStands ==
    ASSUME LexShape, LexRead, lex.type # "operator", Here # Nul, ~StartsAt(line, char_idx)
    PROVE  /\ line \in Seq(Chars) /\ Len(line) \in Nat /\ char_idx \in 1 .. Len(line)
           /\ Here = line[char_idx] /\ Unquoted(line, char_idx)
           /\ lex.type \in {"none", "word"} /\ (lex.type = "none" <=> ~Building)
           /\ Placed(line, lex.type, lex.pos, char_idx)
           /\ Standing(line)[char_idx] = IF lex.type = "none" THEN "out" ELSE "word"
<1>1. /\ line \in Seq(Chars) /\ Len(line) \in Nat /\ char_idx \in 1 .. Len(line)
      /\ Here = line[char_idx]
    BY LineIs, HereIs
<1>2. /\ lex.type \in {"none", "word"} /\ (lex.type = "none" <=> ~Building)
      /\ Placed(line, lex.type, lex.pos, char_idx)
    BY DEF LexShape, LexRead
<1>3. lex.type = "word" => lex.pos \in Nat \ {0} /\ lex.pos < char_idx
    <2>1. Building => lex.pos \in Nat \ {0} /\ lex.len \in Nat \ {0} /\ lex.pos + lex.len = char_idx
        BY DEF LexShape
    <2>2. QED
        BY <1>1, <1>2, <2>1
<1>4. PICK p : p = IF lex.type = "none" THEN char_idx ELSE lex.pos
    OBVIOUS
<1>5. /\ Unquoted(line, char_idx)
      /\ Standing(line)[char_idx] = IF lex.type = "none" THEN "out" ELSE "word"
    BY <1>1, <1>2, <1>3, <1>4, WordFrom
<1>6. QED
    BY <1>1, <1>2, <1>5

\* The record find_matched_pair starts from.
LEMMA PairFrom ==
    ASSUME LexShape, Lexing, lex.type # "operator", Here # Nul, NEW l,
           l = IF Building THEN [lex EXCEPT !.len = @ + 1] ELSE StartLexToken("word")
    PROVE  /\ l \in [type : {"word", "operator"}, flags : SUBSET LexFlags,
                     pos : 1 .. Len(line), len : 1 .. Len(line)]
           /\ l.type = "word" /\ l.pos = (IF Building THEN lex.pos ELSE char_idx)
           /\ "AT_EOI" \notin l.flags
<1>1. CASE Building
    <2>1. l = [lex EXCEPT !.len = @ + 1]
        BY <1>1
    <2>2. Built(l, char_idx + 1)
        BY <1>1, <2>1, BuildingIs
    <2>3. l.type = lex.type /\ l.pos = lex.pos /\ l.flags = lex.flags
        BY <2>1 DEF LexShape
    <2>4. lex.type = "word"
        BY <1>1 DEF LexShape
    <2>5. QED
        BY <1>1, <2>2, <2>3, <2>4 DEF Built, Lexing
<1>2. CASE ~Building
    <2>1. l = StartLexToken("word")
        BY <1>2
    <2>2. Built(l, char_idx + 1)
        BY <2>1, BuildingIs
    <2>3. l.type = "word" /\ l.pos = char_idx /\ l.flags = {"IS_BUILDING"}
        BY <2>1 DEF StartLexToken
    <2>4. QED
        BY <1>2, <2>2, <2>3 DEF Built
<1>3. QED
    BY <1>1, <1>2

\* A quote, with what it encloses or alone.
LEMMA Rule4Reads ==
    ASSUME LexShape, TokensShape, LexRead, Lexing, Rule4, line' = line
    PROVE  LexRead'
<1>1. lex.type # "operator" /\ Here \in Quotes /\ tokens' = tokens
    BY DEF Rule4
<1>2. Here # Nul /\ ~StartsAt(line, char_idx)
    BY <1>1, RulesAsk, KindsDiffer DEF StartsAt
<1>3. PICK l : /\ l = IF Building THEN [lex EXCEPT !.len = @ + 1] ELSE StartLexToken("word")
               /\ FindMatchedPair(l)
    BY DEF Rule4
<1>4. /\ l \in [type : {"word", "operator"}, flags : SUBSET LexFlags,
                pos : 1 .. Len(line), len : 1 .. Len(line)]
      /\ l.type = "word" /\ l.pos = (IF Building THEN lex.pos ELSE char_idx)
      /\ "AT_EOI" \notin l.flags
    BY <1>1, <1>2, <1>3, PairFrom
<1>5. /\ line \in Seq(Chars) /\ Len(line) \in Nat /\ char_idx \in 1 .. Len(line)
      /\ Here = line[char_idx] /\ Unquoted(line, char_idx)
      /\ lex.type \in {"none", "word"} /\ (lex.type = "none" <=> ~Building)
      /\ Placed(line, lex.type, lex.pos, char_idx)
    BY <1>1, <1>2, HereStands
<1> DEFINE T == {j \in char_idx + 1 .. Len(line) : line[j] = Here}
           end == IF T = {} THEN Len(line) + 1 ELSE Min(T)
           seen == IF Here = DoubleQuote /\ \E k \in (char_idx + 1)..(end - 1) :
                                       IsExpansionStart(line, k)
                   THEN {"HAS_EXPANSION"} ELSE {}
<1>6. "AT_EOI" \notin seen \cup {"HAS_QUOTES"}
    OBVIOUS
<1>7. /\ lex'.type = "word" /\ lex'.pos = (IF Building THEN lex.pos ELSE char_idx)
      /\ "AT_EOI" \notin lex'.flags
    <2>1. CASE T = {}
        <3>1. lex' = [l EXCEPT !.flags = @ \cup seen]
            BY <1>3, <2>1 DEF FindMatchedPair
        <3> HIDE DEF seen
        <3>2. lex'.type = l.type /\ lex'.pos = l.pos /\ lex'.flags = l.flags \cup seen
            BY <1>4, <3>1
        <3>3. QED
            BY <1>4, <1>6, <3>2
    <2>2. CASE T # {}
        <3>1. lex' = [l EXCEPT !.len = @ + end - char_idx,
                               !.flags = @ \cup seen \cup {"HAS_QUOTES"}]
            BY <1>3, <2>2 DEF FindMatchedPair
        <3> HIDE DEF seen, end
        <3>2. /\ lex'.type = l.type /\ lex'.pos = l.pos
              /\ lex'.flags = l.flags \cup seen \cup {"HAS_QUOTES"}
            BY <1>4, <3>1
        <3>3. QED
            BY <1>4, <1>6, <3>2
    <2>3. QED
        BY <2>1, <2>2
<1>8. PICK c, d : c = char_idx /\ d = char_idx'
    OBVIOUS
<1>9. /\ d \in c + 1 .. Len(line) + 1 /\ Standing(line)[d] = "word"
      /\ \A k \in c .. d - 1 : k \in WordPlaces(line)
      /\ line[d - 1] \in Quotes
    <2>1. CASE T = {}
        <3>1. d = c + 1
            BY <1>3, <1>8, <2>1 DEF FindMatchedPair
        <3>2. ~Opens(line, c)
            BY <1>5, <1>8, <2>1 DEF Opens
        <3>3. line[c] \notin Blanks /\ ~OperatorAt(line, c) /\ line[c] # "#"
            BY <1>1, <1>5, <1>8, KindsDiffer DEF OperatorAt
        <3>4. Standing(line)[c + 1] = "word" /\ c \in WordPlaces(line)
            BY <1>5, <1>8, <3>2, <3>3, WordStep
        <3>5. d - 1 = c /\ \A k \in c .. d - 1 : k = c
            BY <1>5, <1>8, <3>1
        <3>6. QED
            BY <1>1, <1>5, <1>8, <3>1, <3>4, <3>5
    <2>2. CASE T # {}
        <3>1. T \in SUBSET Nat
            BY <1>5
        <3>2. PICK e : e = Min(T)
            OBVIOUS
        <3>3. e \in T /\ \A y \in T : e <= y
            <4> HIDE DEF T
            <4>1. QED
                BY <2>2, <3>1, <3>2, MinIsLeast
        <3>4. d = e + 1
            BY <1>3, <1>8, <2>2, <3>2 DEF FindMatchedPair
        <3>5. e \in c + 1 .. Len(line) /\ line[e] = line[c] /\ line[c] \in Quotes
            BY <1>1, <1>5, <1>8, <3>3
        <3>6. \A k \in c + 1 .. e - 1 : line[k] # line[c]
            <4>1. TAKE k \in c + 1 .. e - 1
            <4>2. k \in c + 1 .. Len(line) /\ ~(e <= k)
                BY <1>5, <1>8, <3>5
            <4>3. QED
                BY <1>5, <1>8, <3>3, <4>2
        <3>7. Standing(line)[e + 1] = "word" /\ \A k \in c .. e : k \in WordPlaces(line)
            BY <1>5, <1>8, <3>5, <3>6, QuotationSteps
        <3>8. d - 1 = e /\ d \in c + 1 .. Len(line) + 1
            BY <1>5, <1>8, <3>4, <3>5
        <3>9. QED
            BY <3>4, <3>5, <3>7, <3>8
    <2>3. QED
        BY <2>1, <2>2
<1>10. Parts(line, d)
    BY <1>9, KindsDiffer DEF Parts
<1>11. Lexing'
    BY <1>7 DEF Lexing
<1>12. QED
    BY <1>1, <1>2, <1>7, <1>8, <1>9, <1>10, <1>11, WordGoes

\* A reference.
LEMMA Rule5Reads ==
    ASSUME LexShape, TokensShape, LexRead, Lexing, Rule5, line' = line
    PROVE  LexRead'
<1>1. /\ lex.type # "operator" /\ IsExpansionStart(line, char_idx) /\ tokens' = tokens
    BY DEF Rule5
<1>2. Here = "$" /\ Here # Nul /\ ~StartsAt(line, char_idx)
    <2>1. Here = "$"
        BY <1>1 DEF IsExpansionStart, Here
    <2>2. "$" # Nul
        BY Zenon DEF Nul
    <2>3. QED
        BY <2>1, <2>2, RulesAsk, KindsDiffer DEF StartsAt
<1>3. /\ line \in Seq(Chars) /\ Len(line) \in Nat /\ char_idx \in 1 .. Len(line)
      /\ Unquoted(line, char_idx)
      /\ lex.type \in {"none", "word"} /\ (lex.type = "none" <=> ~Building)
    BY <1>1, <1>2, HereStands
<1>4. PICK len : len = GetExpansionLen(line, char_idx)
    OBVIOUS
<1>5. /\ len \in 2 .. Len(line) + 1 - char_idx
      /\ Standing(line)[char_idx + len] = "word" /\ line[char_idx + len - 1] \notin OperatorChars
      /\ \A k \in char_idx .. char_idx + len - 1 : k \in WordPlaces(line)
    BY <1>1, <1>3, <1>4, ReferenceSteps
<1>6. /\ char_idx' = char_idx + len
      /\ lex' = [(IF Building THEN [lex EXCEPT !.len = @ + len]
                  ELSE [StartLexToken("word") EXCEPT !.len = len])
                 EXCEPT !.flags = @ \cup {"HAS_EXPANSION"}]
    BY <1>4 DEF Rule5
<1>7. /\ lex'.type = "word" /\ lex'.pos = (IF Building THEN lex.pos ELSE char_idx)
      /\ "AT_EOI" \notin lex'.flags
    <2>1. CASE Building
        <3>1. lex' = [lex EXCEPT !.len = lex.len + len, !.flags = lex.flags \cup {"HAS_EXPANSION"}]
            BY <1>6, <2>1 DEF LexShape
        <3>2. /\ lex'.type = lex.type /\ lex'.pos = lex.pos
              /\ lex'.flags = lex.flags \cup {"HAS_EXPANSION"}
            BY <3>1 DEF LexShape
        <3>3. QED
            BY <1>3, <2>1, <3>2 DEF Lexing
    <2>2. CASE ~Building
        <3>1. lex' = [type |-> "word", flags |-> {"IS_BUILDING", "HAS_EXPANSION"},
                      pos |-> char_idx, len |-> len]
            BY <1>6, <2>2 DEF StartLexToken
        <3>2. QED
            BY <2>2, <3>1
    <2>3. QED
        BY <2>1, <2>2
<1>8. PICK d : d = char_idx + len
    OBVIOUS
<1>9. /\ d \in char_idx + 1 .. Len(line) + 1 /\ d - 1 = char_idx + len - 1
      /\ \A k \in char_idx .. d - 1 : k \in WordPlaces(line)
    BY <1>3, <1>5, <1>8
<1>10. Parts(line, d)
    BY <1>5, <1>9, KindsDiffer DEF Parts
<1>11. Lexing'
    BY <1>7 DEF Lexing
<1>12. Standing(line)[d] = "word" /\ char_idx' = d
    BY <1>5, <1>6, <1>8
<1>13. QED
    BY <1>1, <1>2, <1>7, <1>9, <1>10, <1>11, <1>12, WordGoes

\* An operator, and the word before it.
LEMMA Rule6Reads ==
    ASSUME LexShape, TokensShape, LexRead, Lexing, Rule6, line' = line
    PROVE  LexRead'
<1>1. lex.type # "operator" /\ StartsAt(line, char_idx)
    BY RulesAsk DEF Rule6
<1>2. /\ line \in Seq(Chars) /\ Len(line) \in Nat /\ char_idx \in 1 .. Len(line)
    <2>1. Here # Nul
        BY <1>1, KindsDiffer DEF StartsAt, Here
    <2>2. QED
        BY <2>1, LineIs, HereIs
<1>3. lex.type \in {"none", "word"} /\ (lex.type = "none" <=> ~Building)
    BY <1>1 DEF LexShape
<1>4. Placed(line, lex.type, lex.pos, char_idx)
    BY DEF LexRead
<1>5. char_idx \notin WordPlaces(line)
    BY <1>1, <1>2, <1>3, <1>4, OperatorStep
<1>6. CASE Building
    <2>1. lex.type = "word" /\ Delimit(0, {}) /\ char_idx' = char_idx
        BY <1>3, <1>6 DEF Rule6
    <2>2. Placed(line, "none", lex.pos, char_idx')
        BY <1>1, <1>2, <1>4, <2>1, WordBeforeOperator
    <2>3. QED
        BY <1>5, <2>1, <2>2, DelimitGoesOn, WordRead
<1>7. CASE ~Building
    <2>1. lex' = StartLexToken("operator") /\ char_idx' = char_idx + 1 /\ tokens' = tokens
        BY <1>7 DEF Rule6
    <2>2. lex'.type = "operator" /\ lex'.pos = char_idx /\ "AT_EOI" \notin lex'.flags
        BY <2>1 DEF StartLexToken
    <2>3. Placed(line, "operator", char_idx, char_idx + 1)
        BY <1>1, <1>2, <1>3, <1>4, <1>7, OperatorPlaced
    <2>4. Placed(line, lex'.type, lex'.pos, char_idx')
        BY <2>1, <2>2, <2>3
    <2>5. NextFrom(lex'.type, lex'.pos, char_idx') = NextFrom(lex.type, lex.pos, char_idx)
        BY <1>3, <1>7, <2>2 DEF NextFrom
    <2>6. Lexing'
        BY <2>2 DEF Lexing
    <2>7. QED
        BY <2>1, <2>4, <2>5, <2>6, StillRead
<1>8. QED
    BY <1>6, <1>7

\* A blank.
LEMMA Rule7Reads ==
    ASSUME LexShape, TokensShape, LexRead, Lexing, Rule7, line' = line
    PROVE  LexRead'
<1>1. lex.type # "operator" /\ Here \in Blanks /\ char_idx' = char_idx + 1
    BY DEF Rule7
<1>2. /\ line \in Seq(Chars) /\ Len(line) \in Nat /\ char_idx \in 1 .. Len(line)
      /\ line[char_idx] \in Blanks
    <2>1. Here # Nul
        BY <1>1, KindsDiffer
    <2>2. QED
        BY <1>1, <2>1, LineIs, HereIs
<1>3. lex.type \in {"none", "word"} /\ (lex.type = "none" <=> ~Building)
    BY <1>1 DEF LexShape
<1>4. Placed(line, lex.type, lex.pos, char_idx)
    BY DEF LexRead
<1>5. /\ Placed(line, "none", lex.pos, char_idx + 1)
      /\ char_idx \notin WordPlaces(line) /\ char_idx \notin OperatorPlaces(line)
    BY <1>2, <1>3, <1>4, BlankPlaced
<1>6. Placed(line, "none", lex.pos, char_idx')
    BY <1>1, <1>5
<1>7. CASE Building
    <2>1. lex.type = "word" /\ Delimit(0, {})
        BY <1>3, <1>7 DEF Rule7
    <2>2. QED
        BY <1>1, <1>5, <1>6, <2>1, DelimitGoesOn, WordRead
<1>8. CASE ~Building
    <2>1. lex' = lex /\ tokens' = tokens /\ lex.type = "none"
        BY <1>3, <1>8 DEF Rule7
    <2>2. PICK c, d : c = char_idx /\ d = char_idx'
        OBVIOUS
    <2>3. Begun(line, d) = Begun(line, c)
        <3>1. c \in Nat /\ d \in Nat /\ c <= d /\ \A k \in c .. d - 1 : k = c
            BY <1>1, <1>2, <2>2
        <3>2. \A k \in c .. d - 1 : k \notin Starts(line)
            BY <1>5, <2>2, <3>1, NoneAt
        <3>3. QED
            BY <1>2, <3>1, <3>2, NoneBegun
    <2>4. Begun(line, NextFrom(lex'.type, lex'.pos, char_idx'))
             = Begun(line, NextFrom(lex.type, lex.pos, char_idx))
        BY <2>1, <2>2, <2>3 DEF NextFrom
    <2>5. Placed(line, lex'.type, lex'.pos, char_idx') /\ Lexing'
        BY <1>6, <2>1 DEF Lexing
    <2>6. QED
        BY <2>1, <2>4, <2>5, StillRead
<1>9. QED
    BY <1>7, <1>8

\* A character like others.
LEMMA OrdinaryReads ==
    ASSUME LexShape, TokensShape, LexRead, Lexing, Rule8 \/ Rule10, line' = line
    PROVE  LexRead'
<1>1. /\ lex.type # "operator" /\ Here # Nul /\ Here \notin Quotes \cup Blanks
      /\ ~StartsAt(line, char_idx) /\ tokens' = tokens /\ char_idx' = char_idx + 1
    BY RulesAsk DEF Rule8, Rule10, Ordinary
<1>2. /\ line \in Seq(Chars) /\ Len(line) \in Nat /\ char_idx \in 1 .. Len(line)
      /\ Here = line[char_idx] /\ Unquoted(line, char_idx)
      /\ lex.type \in {"none", "word"} /\ (lex.type = "none" <=> ~Building)
      /\ Placed(line, lex.type, lex.pos, char_idx)
      /\ Standing(line)[char_idx] = IF lex.type = "none" THEN "out" ELSE "word"
    BY <1>1, HereStands
<1>3. /\ lex'.type = "word" /\ lex'.pos = (IF Building THEN lex.pos ELSE char_idx)
      /\ "AT_EOI" \notin lex'.flags
    <2>1. CASE Rule8
        <3>1. lex.type = "word" /\ lex' = [lex EXCEPT !.len = @ + 1]
            BY <2>1 DEF Rule8
        <3>2. lex'.type = lex.type /\ lex'.pos = lex.pos /\ lex'.flags = lex.flags
            BY <3>1 DEF LexShape
        <3>3. QED
            BY <1>2, <3>1, <3>2 DEF Lexing
    <2>2. CASE Rule10
        <3>1. lex.type = "none" /\ lex' = StartLexToken("word")
            BY <2>2 DEF Rule10
        <3>2. QED
            BY <1>2, <3>1 DEF StartLexToken
    <2>3. QED
        BY <2>1, <2>2
<1>4. Here # "#" \/ Standing(line)[char_idx] = "word"
    <2>1. CASE Rule8
        <3>1. lex.type = "word"
            BY <2>1 DEF Rule8
        <3>2. QED
            BY <1>2, <3>1
    <2>2. CASE Rule10
        BY <2>2 DEF Rule10
    <2>3. QED
        BY <2>1, <2>2
<1>5. /\ Standing(line)[char_idx + 1] = "word" /\ char_idx \in WordPlaces(line)
      /\ Parts(line, char_idx + 1)
    BY <1>1, <1>2, <1>4, OrdinaryStep
<1>6. PICK c, d : c = char_idx /\ d = char_idx'
    OBVIOUS
<1>7. /\ d \in c + 1 .. Len(line) + 1 /\ Standing(line)[d] = "word" /\ Parts(line, d)
      /\ \A k \in c .. d - 1 : k \in WordPlaces(line)
    <2>1. d = c + 1 /\ d \in c + 1 .. Len(line) + 1 /\ \A k \in c .. d - 1 : k = c
        BY <1>1, <1>2, <1>6
    <2>2. QED
        BY <1>1, <1>5, <1>6, <2>1
<1>8. Lexing'
    BY <1>3 DEF Lexing
<1>9. QED
    BY <1>1, <1>3, <1>6, <1>7, <1>8, WordGoes

\* A comment.
LEMMA Rule9Reads ==
    ASSUME LexShape, TokensShape, LexRead, Lexing, Rule9, line' = line
    PROVE  LexRead'
<1>1. /\ lex.type = "none" /\ Here = "#" /\ Here # Nul /\ ~StartsAt(line, char_idx)
      /\ tokens' = tokens /\ lex' = lex
    BY RulesAsk DEF Rule9, Ordinary
<1>2. /\ line \in Seq(Chars) /\ Len(line) \in Nat /\ char_idx \in 1 .. Len(line)
      /\ line[char_idx] = "#" /\ Standing(line)[char_idx] = "out"
    BY <1>1, HereStands
<1> DEFINE T == {i \in char_idx .. Len(line) + 1 : CharAt(line, i) \in {Nul, NewLine}}
<1>3. T \in SUBSET Nat /\ T # {}
    <2>1. PICK m : m = Len(line) + 1
        OBVIOUS
    <2>2. CharAt(line, m) = Nul /\ m \in char_idx .. Len(line) + 1
        BY <1>2, <2>1 DEF CharAt
    <2>3. m \in T
        BY <2>1, <2>2
    <2>4. QED
        BY <1>2, <2>3
<1>4. PICK c, e : c = char_idx /\ e = Min(T)
    OBVIOUS
<1>5. e \in T /\ \A y \in T : e <= y
    <2> HIDE DEF T
    <2>1. QED
        BY <1>3, <1>4, MinIsLeast
<1>6. /\ e \in c .. Len(line) + 1 /\ CharAt(line, e) \in {Nul, NewLine}
      /\ \A k \in c .. e - 1 : CharAt(line, k) \notin {Nul, NewLine}
    <2>1. e \in c .. Len(line) + 1 /\ CharAt(line, e) \in {Nul, NewLine}
        BY <1>4, <1>5
    <2>2. ASSUME NEW k \in c .. e - 1 PROVE CharAt(line, k) \notin {Nul, NewLine}
        <3>1. k \in c .. Len(line) + 1 /\ ~(e <= k)
            BY <1>2, <1>4, <2>1
        <3>2. k \notin T
            BY <1>5, <3>1
        <3>3. QED
            BY <1>4, <3>1, <3>2
    <2>3. QED
        BY <2>1, <2>2
<1>7. char_idx' = e
    BY <1>4 DEF Rule9
<1>8. \A k \in c .. e - 1 : line[k] # NewLine
    <2>1. TAKE k \in c .. e - 1
    <2>2. k \in 1 .. Len(line)
        BY <1>2, <1>4, <1>6
    <2>3. CharAt(line, k) = line[k]
        BY <1>2, <2>2 DEF CharAt
    <2>4. QED
        BY <1>6, <2>3
<1>9. e # c
    <2>1. CharAt(line, c) = "#"
        BY <1>2, <1>4 DEF CharAt
    <2>2. "#" \notin {Nul, NewLine}
        BY <1>1, KindsDiffer
    <2>3. QED
        BY <1>6, <2>1, <2>2
<1>10. /\ Standing(line)[e] = "#"
       /\ \A k \in c .. e - 1 : k \notin WordPlaces(line) /\ k \notin OperatorPlaces(line)
    BY <1>2, <1>4, <1>6, <1>8, <1>9, CommentSteps
<1>11. Begun(line, e) = Begun(line, c)
    <2>1. \A k \in c .. e - 1 : k \notin Starts(line)
        BY <1>10, NoneAt
    <2>2. c \in Nat /\ e \in Nat /\ c <= e
        BY <1>2, <1>4, <1>6
    <2>3. QED
        BY <1>2, <2>1, <2>2, NoneBegun
<1>12. Placed(line, lex'.type, lex'.pos, char_idx')
    <2>1. CharAt(line, e) \notin Doubles
        BY <1>6, KindsDiffer
    <2>2. QED
        BY <1>1, <1>6, <1>7, <1>10, <2>1 DEF Placed, Idle
<1>13. Begun(line, NextFrom(lex'.type, lex'.pos, char_idx'))
         = Begun(line, NextFrom(lex.type, lex.pos, char_idx))
    BY <1>1, <1>4, <1>7, <1>11 DEF NextFrom
<1>14. Lexing'
    BY <1>1 DEF Lexing
<1>15. QED
    BY <1>1, <1>12, <1>13, <1>14, StillRead

\* Before the first rule nothing has begun.
LEMMA InitReads ==
    ASSUME LexShape, LexInit
    PROVE  LexRead
<1>1. /\ line \in Seq(Chars) /\ char_idx = 1 /\ tokens = << >> /\ lex.type = "none"
      /\ Lexing
    BY LineIs DEF LexInit, Lexing
<1>2. Placed(line, "none", lex.pos, 1)
    <2>1. Standing(line)[1] = "out"
        BY <1>1, StandingIs
    <2>2. Leads(line, 1)
        BY FirstLeads
    <2>3. QED
        BY <2>1, <2>2 DEF Placed, Idle
<1>3. Begun(line, 1) = {}
    <2>1. Starts(line) \subseteq 1 .. Len(line)
        BY <1>1, StartsAre
    <2>2. QED
        BY <1>1, <2>1 DEF Begun
<1>4. Keeps(TokensFrom(line), {}, Briefly(<< >>))
    <2>1. Picks(<< >>, 0, {})
        BY DEF Picks
    <2>2. Briefly(<< >>) = << >> /\ Len(<< >>) = 0
        BY DEF Briefly
    <2>3. QED
        BY <2>1, <2>2 DEF Keeps
<1>5. NextFrom(lex.type, lex.pos, char_idx) = 1
    BY <1>1 DEF NextFrom
<1>6. QED
    BY <1>1, <1>2, <1>3, <1>4, <1>5 DEF LexRead

\* Every rule keeps it.
LEMMA LexTokenReads ==
    ASSUME LexShape, TokensShape, LexRead, LexToken
    PROVE  LexRead'
<1>1. Lexing /\ line' = line
    BY DEF LexToken
<1>2. CASE Rule1
    BY <1>1, <1>2, Rule1Reads
<1>3. CASE Rule2
    BY <1>1, <1>3, Rule2Reads
<1>4. CASE Rule3
    BY <1>1, <1>4, Rule3Reads
<1>5. CASE Rule4
    BY <1>1, <1>5, Rule4Reads
<1>6. CASE Rule5
    BY <1>1, <1>6, Rule5Reads
<1>7. CASE Rule6
    BY <1>1, <1>7, Rule6Reads
<1>8. CASE Rule7
    BY <1>1, <1>8, Rule7Reads
<1>9. CASE Rule8
    BY <1>1, <1>9, OrdinaryReads
<1>10. CASE Rule9
    BY <1>1, <1>10, Rule9Reads
<1>11. CASE Rule10
    BY <1>1, <1>11, OrdinaryReads
<1>12. QED
    BY <1>2, <1>3, <1>4, <1>5, <1>6, <1>7, <1>8, <1>9, <1>10, <1>11 DEF LexToken

\* When the end of the line is reached all tokens have begun.
LEMMA AllRead ==
    ASSUME LexShape, TokensShape, LexRead, ~Lexing
    PROVE  Briefly(tokens) = TokensOf(line)
<1>1. line \in Seq(Chars) /\ Len(line) \in Nat
    BY LineIs
<1>2. lex.type = "none" /\ char_idx = Len(line) + 1
    BY DEF LexRead, LexShape
<1>3. Starts(line) \subseteq 1 .. Len(line)
    BY <1>1, StartsAre
<1>4. Begun(line, Len(line) + 1) = Starts(line)
    BY <1>1, <1>3 DEF Begun
<1>5. PICK F, A, b : F = TokensFrom(line) /\ A = Starts(line) /\ b = Briefly(tokens)
    OBVIOUS
<1>6. Keeps(F, A, b)
    BY <1>2, <1>4, <1>5 DEF LexRead, NextFrom
<1>7. b \in Seq(Briefs)
    <2>1. tokens \in Seq(Token)
        BY DEF TokensShape
    <2>2. \A k \in DOMAIN tokens : tokens[k] \in Token
        BY <2>1
    <2>3. \A k \in DOMAIN tokens : Brief(tokens[k]) \in Briefs
        BY <2>2 DEF Brief, Briefs, Token
    <2>4. DOMAIN tokens = 1 .. Len(tokens) /\ Len(tokens) \in Nat
        BY <2>1
    <2>5. b \in [1 .. Len(tokens) -> Briefs]
        BY <1>5, <2>3, <2>4 DEF Briefly
    <2>6. QED
        BY <2>4, <2>5
<1>8. A \in SUBSET Nat
    BY <1>1, <1>3, <1>5
<1>9. b = InOrder(F, A)
    BY <1>6, <1>7, <1>8, KeepsIs
<1>10. QED
    BY <1>5, <1>9, TokensOfIs

-------------------------------------------------------------------------------
(* What the runs check                                                          *)

\* No step but the lexer's touches what it holds.
LEMMA StepReads ==
    ASSUME ExpInv, LexRead, [Next]_vars
    PROVE  LexRead'
<1>1. CASE LexToken
    BY <1>1, LexTokenReads DEF ExpInv
<1>2. CASE UNCHANGED lexVars
    BY <1>2 DEF LexRead, lexVars, Lexing, Building
<1>3. BuildCommand => UNCHANGED lexVars
    <2>1. ScanWord => UNCHANGED lexVars
        BY DEF ScanWord
    <2>2. InitCommand \/ PlainWord \/ StartWord \/ EndWord \/ FinishArgs => UNCHANGED lexVars
        BY DEF InitCommand, PlainWord, StartWord, EndWord, FinishArgs
    <2>3. DelimitSegment \/ SegmentOverrun \/ KeepSegment \/ EndSegment => UNCHANGED lexVars
        BY DEF DelimitSegment, SegmentOverrun, KeepSegment, EndSegment
    <2>4. QED
        BY <2>1, <2>2, <2>3 DEF BuildCommand
<1>4. QED
    BY <1>1, <1>2, <1>3 DEF Next, vars

\* The invariant gives what the runs check of the tokens.
LEMMA InvTokens ==
    ASSUME ExpInv, LexRead
    PROVE  TokensAsSpecified
<1>1. ~Lexing => Briefly(tokens) = TokensOf(line)
    BY AllRead DEF ExpInv
<1>2. Briefly(tokens)
         = [k \in DOMAIN tokens |-> [type |-> tokens[k].type, text |-> tokens[k].text]]
    BY Zenon DEF Briefly, Brief
<1>3. QED
    BY <1>1, <1>2 DEF TokensAsSpecified

\* The invariant gives what the runs check of delimiters.
LEMMA InvDelimiters ==
    ASSUME ExpInv
    PROVE  DelimitersAsSpecified
<1>1. ASSUME NEW k \in DOMAIN tokens PROVE tokens[k].text \in Seq(Chars)
    <2>1. tokens \in Seq(Token) /\ k \in 1 .. Len(tokens)
        BY DEF ExpInv, TokensShape
    <2>2. tokens[k] \in Token
        BY <2>1
    <2>3. QED
        BY <2>2 DEF Token
<1>2. \A k \in DOMAIN tokens : QuoteRemove(tokens[k].text) = QuotesRemoved(tokens[k].text)
    BY <1>1, QuotesAreRemoved
<1>3. QED
    BY <1>2 DEF DelimitersAsSpecified

\* And of the lines of a here-document.
LEMMA InvBodies ==
    ASSUME ExpInv
    PROVE  BodiesAsSpecified
<1>1. line \in Seq(Chars) /\ value \in Values \cup {NoValue}
    BY LineIs DEF ExpInv
<1>2. ExpandHereLine(line) = BodyOf(line, ValueOf)
    BY <1>1, LineIsExpanded
<1>3. QED
    BY <1>2 DEF BodiesAsSpecified

-------------------------------------------------------------------------------
(* What is proved                                                               *)

\* The lexer and build_command hold what the runs check, for all lines and values:
\* the slices lie in the line, the offsets in the buffer, and the buffer ends with
\* a terminator after every step of the scan and of the cutting.
THEOREM ExpansionTypeCorrect == Spec => []TypeOK
<1>1. Init => ExpInv
    BY InitExpansion
<1>2. ExpInv /\ [Next]_vars => ExpInv'
    BY StepExpansion
<1>3. QED
    BY <1>1, <1>2, ExpansionTypes, PTL DEF Spec

\* A field that has been recorded, for argv or as the name of a file, keeps its text
\* while later values are appended behind it and cut in place.
THEOREM RecordedFieldsKept == Spec => FieldsKept
<1>1. Init => ExpInv
    BY InitExpansion
<1>2. ExpInv /\ [Next]_vars => ExpInv'
    BY StepExpansion
<1>3. ExpInv /\ [Next]_vars => [TextsStay]_vars
    BY StepExpansion
<1>4. Spec => [][TextsStay]_vars
    BY <1>1, <1>2, <1>3, PTL DEF Spec
<1>5. QED
    BY <1>4 DEF FieldsKept, TextsStay

\* The delimiter of a here-document is its word without the quotes that take part in
\* a quotation, whatever the line: quote_remove, which copies from quote to quote,
\* and the account of every character's quotation say the same.
THEOREM DelimitersWithoutQuotes == Spec => []DelimitersAsSpecified
<1>1. Init => ExpInv
    BY InitExpansion
<1>2. ExpInv /\ [Next]_vars => ExpInv'
    BY StepExpansion
<1>3. QED
    BY <1>1, <1>2, InvDelimiters, PTL DEF Spec

\* A line of a here-document is written with each of its references replaced and the
\* rest of it as it is, for all lines, values and statuses.
THEOREM BodyLinesExpanded == Spec => []BodiesAsSpecified
<1>1. Init => ExpInv
    BY InitExpansion
<1>2. ExpInv /\ [Next]_vars => ExpInv'
    BY StepExpansion
<1>3. QED
    BY <1>1, <1>2, InvBodies, PTL DEF Spec

\* The tokens of every line are the ones its characters make: the ten rules, whichever
\* order they apply in, the slice that grows over quotations and references and the
\* flags that tell whether it is a token yet, and the account of each character's
\* place say the same.
THEOREM TokensOfEveryLine == Spec => []TokensAsSpecified
<1>1. Init => ExpInv /\ LexRead
    <2>1. Init => ExpInv /\ LexInit
        BY InitExpansion DEF Init
    <2>2. QED
        BY <2>1, InitReads DEF ExpInv
<1>2. ExpInv /\ LexRead /\ [Next]_vars => (ExpInv /\ LexRead)'
    BY StepExpansion, StepReads
<1>3. ExpInv /\ LexRead => TokensAsSpecified
    BY InvTokens
<1>4. QED
    BY <1>1, <1>2, <1>3, PTL DEF Spec

===============================================================================
