------------------------------ MODULE InputProofs ------------------------------
(* What is typed is read as the shell language reads it, whatever is typed, whatever the
   delimiters, wherever a line or the input ends and however many here-documents
   there are.  First, the two passes over a line divide the text into commands and
   bodies: TokensAsWritten and BodiesMatch.  Then, the commands are accepted and
   rejected as the grammar says: GrammarKept.

   AsRead reads what has been typed from left to right, with its bodies where the
   lines of commands end.  The parser meets a << before its body is typed, puts the
   rest of the line aside and comes back to it, so what it has read is compared with
   AsRead's reading by counting: the k-th delimiter among the tokens that the
   automaton has taken (Rank) belongs to the k-th file (Counted), the files hold the
   first bodies (BodiesIn), the delimiters without a file are those that are still
   due (DueAfter), and a node has the file of its own delimiter (Owned).

   What the automaton has taken is derived from what the stack spells, and every
   program that starts so has a derivation that comes by it (Parsed); when the tables
   have an error, there is none, and a word and parentheses complete what came
   before (Completion).                                                          *)
EXTENDS GrammarProofs

--------------------------------------------------------------------------------
(* The reference reads a text token by token                                    *)

\* f[k] is what has been read of s after k tokens.
Reads(s, n, f) ==
    f = [k \in 0 .. n |-> IF k = 0 THEN Nothing ELSE ReadToken(f[k - 1], s[k])]

\* There is such a function.
LEMMA ReadsExist ==
    ASSUME NEW s, NEW N \in Nat
    PROVE  \E f : Reads(s, N, f)
<1> DEFINE S == {n \in 0 .. N : \E f : Reads(s, n, f)}
<1>1. 0 \in S
    <2>1. Reads(s, 0, [k \in 0 .. 0 |-> Nothing])
        BY DEF Reads
    <2>2. QED
        BY <2>1
<1>2. ASSUME NEW n \in 1 .. N, n - 1 \in S PROVE n \in S
    <2>1. PICK f : Reads(s, n - 1, f)
        BY <1>2
    <2> DEFINE g == [k \in 0 .. n |-> IF k = n THEN ReadToken(f[n - 1], s[n]) ELSE f[k]]
    <2>2. \A k \in 0 .. n - 1 : f[k] = IF k = 0 THEN Nothing ELSE ReadToken(f[k - 1], s[k])
        BY <2>1 DEF Reads
    <2>3. \A k \in 0 .. n - 1 : g[k] = f[k]
        OBVIOUS
    <2>4. \A k \in 0 .. n : g[k] = IF k = 0 THEN Nothing ELSE ReadToken(g[k - 1], s[k])
        <3>1. TAKE k \in 0 .. n
        <3>2. CASE k = n
            <4>1. g[k] = ReadToken(f[n - 1], s[n]) /\ n - 1 \in 0 .. n - 1 /\ k # 0
                BY <3>2
            <4>2. QED
                BY <2>3, <3>2, <4>1
        <3>3. CASE k # n
            <4>1. k \in 0 .. n - 1 /\ (k # 0 => k - 1 \in 0 .. n - 1)
                BY <3>3
            <4>2. QED
                BY <2>2, <2>3, <4>1
        <3>4. QED
            BY <3>2, <3>3
    <2>5. Reads(s, n, g)
        <3> DEFINE h == [k \in 0 .. n |-> IF k = 0 THEN Nothing ELSE ReadToken(g[k - 1], s[k])]
        <3>1. g = h
            BY <2>4
        <3>2. QED
            BY <3>1 DEF Reads
    <2> HIDE DEF g
    <2>6. QED
        BY <2>5
<1> HIDE DEF S
<1>3. N \in S
    BY <1>1, <1>2, UpTo
<1>4. QED
    BY <1>3 DEF S

\* It is what AsRead looks at.
LEMMA ReadIs ==
    ASSUME NEW s, Len(s) \in Nat
    PROVE  \E f : Reads(s, Len(s), f) /\ AsRead(s) = f[Len(s)]
<1> DEFINE Body(f) == [n \in 0 .. Len(s) |-> IF n = 0 THEN Nothing ELSE ReadToken(f[n - 1], s[n])]
           read == CHOOSE f : f = Body(f)
<1>1. AsRead(s) = read[Len(s)]
    BY Zenon DEF AsRead
<1>2. \E f : f = Body(f)
    <2>1. PICK f : Reads(s, Len(s), f)
        BY ReadsExist
    <2>2. f = Body(f)
        BY <2>1 DEF Reads
    <2> HIDE DEF Body
    <2>3. QED
        BY <2>2
<1>3. read = Body(read)
    <2> HIDE DEF Body
    <2>1. QED
        BY <1>2
<1> HIDE DEF read
<1>4. Reads(s, Len(s), read)
    BY <1>3 DEF Reads
<1>5. QED
    BY <1>1, <1>4

\* It does not matter what comes later.
LEMMA ReadsAgree ==
    ASSUME NEW s, NEW u, NEW n \in Nat, NEW m \in Nat, n <= m, NEW f, NEW g,
           Reads(s, n, f), Reads(u, m, g), \A k \in 1 .. n : s[k] = u[k]
    PROVE  f[n] = g[n]
<1> DEFINE S == {k \in 0 .. n : f[k] = g[k]}
<1>1. /\ \A k \in 0 .. n : f[k] = IF k = 0 THEN Nothing ELSE ReadToken(f[k - 1], s[k])
      /\ \A k \in 0 .. m : g[k] = IF k = 0 THEN Nothing ELSE ReadToken(g[k - 1], u[k])
    BY DEF Reads
<1>2. 0 \in S
    <2>1. 0 \in 0 .. n /\ 0 \in 0 .. m
        OBVIOUS
    <2>2. QED
        BY <1>1, <2>1
<1>3. ASSUME NEW k \in 1 .. n, k - 1 \in S PROVE k \in S
    <2>1. f[k - 1] = g[k - 1] /\ s[k] = u[k] /\ k \in 0 .. n /\ k \in 0 .. m /\ k # 0
        BY <1>3
    <2>2. QED
        BY <1>1, <2>1
<1> HIDE DEF S
<1>4. n \in S
    BY <1>2, <1>3, UpTo
<1>5. QED
    BY <1>4 DEF S

\* Nothing is read of an empty text.
LEMMA ReadNothing == AsRead(<< >>) = Nothing
<1>1. Len(<< >>) = 0
    OBVIOUS
<1>2. PICK f : Reads(<< >>, 0, f) /\ AsRead(<< >>) = f[0]
    BY <1>1, ReadIs
<1>3. QED
    BY <1>2 DEF Reads

\* One more token.
LEMMA ReadOne ==
    ASSUME NEW X, NEW s \in Seq(X), NEW t \in X
    PROVE  AsRead(Append(s, t)) = ReadToken(AsRead(s), t)
<1>0. PICK n \in Nat : n = Len(s)
    OBVIOUS
<1>1. PICK u : u = Append(s, t)
    OBVIOUS
<1>2. Len(u) = n + 1 /\ u[n + 1] = t /\ \A k \in 1 .. n : u[k] = s[k]
    BY <1>0, <1>1
<1>3. PICK f : Reads(s, n, f) /\ AsRead(s) = f[n]
    BY <1>0, ReadIs
<1>4. PICK g : Reads(u, n + 1, g) /\ AsRead(u) = g[n + 1]
    <2>1. Len(u) \in Nat
        BY <1>2
    <2>2. QED
        BY <1>2, <2>1, ReadIs
<1>5. f[n] = g[n]
    BY <1>2, <1>3, <1>4, ReadsAgree
<1>6. g[n + 1] = ReadToken(g[n], u[n + 1])
    <2>1. n + 1 \in 0 .. n + 1 /\ n + 1 # 0 /\ n + 1 - 1 = n
        OBVIOUS
    <2>2. g[n + 1] = IF n + 1 = 0 THEN Nothing ELSE ReadToken(g[n + 1 - 1], u[n + 1])
        BY <1>4, <2>1 DEF Reads
    <2>3. QED
        BY <2>1, <2>2
<1>7. QED
    BY <1>1, <1>2, <1>3, <1>4, <1>5, <1>6

--------------------------------------------------------------------------------
(* Positions of delimiters                                                       *)

\* The words up to token n that delimit a here-document, and how many there are.
Heres(ts, n) == {i \in 2 .. n : ts[i - 1] = "<<" /\ ClassifyToken(ts[i]) = "WORD"}
Rank(ts, n) == Cardinality(Heres(ts, n))

\* They are finitely many.
LEMMA RankIs ==
    ASSUME NEW ts, NEW n \in Nat
    PROVE  IsFiniteSet(Heres(ts, n)) /\ Rank(ts, n) \in Nat
<1>1. Heres(ts, n) \subseteq 2 .. n /\ IsFiniteSet(2 .. n)
    BY FS_Interval DEF Heres
<1>2. IsFiniteSet(Heres(ts, n))
    BY <1>1, FS_Subset
<1>3. QED
    BY <1>2, FS_CardinalityType DEF Rank

\* One token more.
LEMMA RankStep ==
    ASSUME NEW ts, NEW n \in Nat
    PROVE  Rank(ts, n + 1) = Rank(ts, n) + (IF n + 1 \in Heres(ts, n + 1) THEN 1 ELSE 0)
<1>1. IsFiniteSet(Heres(ts, n)) /\ Rank(ts, n) \in Nat
    BY RankIs
<1>2. CASE n + 1 \in Heres(ts, n + 1)
    <2>1. Heres(ts, n + 1) = Heres(ts, n) \cup {n + 1} /\ n + 1 \notin Heres(ts, n)
        BY <1>2 DEF Heres
    <2>2. Cardinality(Heres(ts, n) \cup {n + 1}) = Cardinality(Heres(ts, n)) + 1
        BY <1>1, <2>1, FS_AddElement
    <2>3. QED
        BY <1>2, <2>1, <2>2 DEF Rank
<1>3. CASE n + 1 \notin Heres(ts, n + 1)
    <2>1. Heres(ts, n + 1) = Heres(ts, n)
        BY <1>3 DEF Heres
    <2>2. QED
        BY <1>1, <1>3, <2>1 DEF Rank
<1>4. QED
    BY <1>2, <1>3

\* More tokens have no fewer of them.
LEMMA RankGrows ==
    ASSUME NEW ts, NEW m \in Nat, NEW n \in Nat, m <= n
    PROVE  /\ Rank(ts, m) \in Nat /\ Rank(ts, n) \in Nat /\ Rank(ts, m) <= Rank(ts, n)
           /\ Heres(ts, m) \subseteq Heres(ts, n)
<1>1. Heres(ts, m) \subseteq Heres(ts, n)
    BY DEF Heres
<1>2. IsFiniteSet(Heres(ts, n)) /\ Rank(ts, n) \in Nat /\ Rank(ts, m) \in Nat
    BY RankIs
<1>3. Cardinality(Heres(ts, m)) <= Cardinality(Heres(ts, n))
    BY <1>1, <1>2, FS_Subset
<1>4. QED
    BY <1>1, <1>2, <1>3 DEF Rank

\* A delimiter is itself counted.
LEMMA RankOf ==
    ASSUME NEW ts, NEW n \in Nat, NEW i \in Heres(ts, n)
    PROVE  /\ i \in 2 .. n /\ i \in Heres(ts, i)
           /\ Rank(ts, i) \in Nat /\ Rank(ts, i) >= 1 /\ Rank(ts, i) <= Rank(ts, n)
<1>1. i \in 2 .. n /\ i \in Heres(ts, i)
    BY DEF Heres
<1>2. PICK k \in Nat : i = k + 1
    <2>1. i - 1 \in Nat /\ i = (i - 1) + 1
        BY <1>1
    <2>2. QED
        BY <2>1
<1>3. Rank(ts, k + 1) = Rank(ts, k) + 1 /\ Rank(ts, k) \in Nat
    BY <1>1, <1>2, RankStep, RankIs
<1>4. Rank(ts, i) <= Rank(ts, n)
    BY <1>1, RankGrows
<1>5. QED
    BY <1>1, <1>2, <1>3, <1>4

\* A token that is added changes nothing for those before it.
LEMMA RankKept ==
    ASSUME NEW X, NEW ts \in Seq(X), NEW t \in X, NEW n \in 0 .. Len(ts)
    PROVE  Heres(Append(ts, t), n) = Heres(ts, n) /\ Rank(Append(ts, t), n) = Rank(ts, n)
<1>1. \A i \in 1 .. Len(ts) : Append(ts, t)[i] = ts[i]
    OBVIOUS
<1>2. PICK us : us = Append(ts, t)
    OBVIOUS
<1>3. Heres(us, n) = Heres(ts, n)
    BY <1>1, <1>2 DEF Heres
<1>4. QED
    BY <1>2, <1>3 DEF Rank

--------------------------------------------------------------------------------
(* What a token does to a reading                                                *)

Readings ==
    [tokens : Seq(Texts), due : Seq(Texts), bodies : Seq(Seq(Seq(Texts))),
     reading : BOOLEAN, line : Seq(Texts)]

\* Whether t delimits a here-document after the tokens ts.
Delimits(ts, t) == ts # << >> /\ Last(ts) = "<<" /\ ClassifyToken(t) = "WORD"

\* A token of a command.
LEMMA CommandTokenRead ==
    ASSUME NEW a \in Readings, NEW t \in Texts, ~a.reading
    PROVE  LET b == ReadToken(a, t)
           IN /\ b \in Readings
              /\ b.tokens = Append(a.tokens, t) /\ b.line = a.line
              /\ b.due = (IF Delimits(a.tokens, t) THEN Append(a.due, t) ELSE a.due)
              /\ b.bodies = (IF Delimits(a.tokens, t) THEN Append(a.bodies, << >>) ELSE a.bodies)
              /\ b.reading = (t = "nl" /\ a.due # << >>)
<1> DEFINE d == IF Delimits(a.tokens, t) THEN Append(a.due, t) ELSE a.due
           bs == IF Delimits(a.tokens, t) THEN Append(a.bodies, << >>) ELSE a.bodies
           r == (t = "nl" /\ a.due # << >>)
           c == [tokens |-> Append(a.tokens, t), due |-> d, bodies |-> bs, reading |-> r,
                 line |-> a.line]
<1>1. ReadToken(a, t) = ReadCommandToken(a, t)
    BY DEF ReadToken
<1>2. ReadCommandToken(a, t) = c
    <2>1. a = [tokens |-> a.tokens, due |-> a.due, bodies |-> a.bodies,
               reading |-> a.reading, line |-> a.line]
        BY DEF Readings
    <2>2. ReadCommandToken(a, t) =
              [a EXCEPT !.tokens = Append(a.tokens, t), !.due = d, !.bodies = bs, !.reading = r]
        BY Zenon DEF ReadCommandToken, Delimits
    <2> HIDE DEF d, bs, r
    <2>3. QED
        BY <2>1, <2>2
<1>3. /\ Append(a.tokens, t) \in Seq(Texts) /\ a.line \in Seq(Texts) /\ r \in BOOLEAN
    BY DEF Readings
<1>4. d \in Seq(Texts)
    BY DEF Readings
<1>5. bs \in Seq(Seq(Seq(Texts)))
    <2>1. << >> \in Seq(Seq(Texts)) /\ a.bodies \in Seq(Seq(Seq(Texts)))
        BY DEF Readings
    <2>2. QED
        BY <2>1
<1> HIDE DEF d, bs, r
<1>6. c \in Readings
    BY <1>3, <1>4, <1>5 DEF Readings
<1>7. QED
    BY <1>1, <1>2, <1>6 DEF d, bs, r

\* The beginning of a line of a body.
LEMMA BodyWordRead ==
    ASSUME NEW a \in Readings, NEW w \in Texts, a.reading, a.line = << >>, w # "nl"
    PROVE  ReadToken(a, w) = [tokens |-> a.tokens, due |-> a.due, bodies |-> a.bodies,
                              reading |-> TRUE, line |-> <<w>>]
<1>1. a = [tokens |-> a.tokens, due |-> a.due, bodies |-> a.bodies, reading |-> TRUE,
           line |-> << >>]
    BY DEF Readings
<1>2. ReadToken(a, w) = ReadBodyToken(a, w)
    BY DEF ReadToken
<1>3. ReadBodyToken(a, w) = [a EXCEPT !.line = Append(a.line, w)]
    BY DEF ReadBodyToken
<1>4. Append(<< >>, w) = <<w>>
    OBVIOUS
<1>5. QED
    BY <1>1, <1>2, <1>3, <1>4

\* A line of a body is its delimiter ...
LEMMA DelimiterRead ==
    ASSUME NEW a \in Readings, NEW w \in Texts, "nl" \in Texts, a.reading, a.line = << >>, w # "nl",
           a.due # << >>, w = a.due[1]
    PROVE  LET b == ReadToken(ReadToken(a, w), "nl")
           IN /\ b \in Readings /\ b.tokens = a.tokens /\ b.line = << >> /\ b.bodies = a.bodies
              /\ b.due = Tail(a.due) /\ b.reading = (Len(a.due) > 1)
<1> DEFINE m == [tokens |-> a.tokens, due |-> a.due, bodies |-> a.bodies, reading |-> TRUE,
                 line |-> <<w>>]
           c == [tokens |-> a.tokens, due |-> Tail(a.due), bodies |-> a.bodies,
                 reading |-> Len(a.due) > 1, line |-> << >>]
<1>1. ReadToken(a, w) = m
    BY BodyWordRead
<1>2. a.due \in Seq(Texts) /\ Tail(a.due) \in Seq(Texts) /\ Head(a.due) = w
    BY DEF Readings
<1>3. ReadToken(m, "nl") = ReadBodyToken(m, "nl")
    BY DEF ReadToken
<1>4. ReadBodyToken(m, "nl") = c
    <2>1. m.line = <<Head(m.due)>>
        BY <1>2
    <2>2. ReadBodyToken(m, "nl") = [m EXCEPT !.due = Tail(@), !.line = << >>,
                                             !.reading = Len(m.due) > 1]
        BY <2>1 DEF ReadBodyToken
    <2>3. QED
        BY <2>2
<1>5. c \in Readings
    BY <1>2 DEF Readings
<1>6. ReadToken(ReadToken(a, w), "nl") = c
    BY <1>1, <1>3, <1>4
<1>7. /\ c.tokens = a.tokens /\ c.line = << >> /\ c.bodies = a.bodies
      /\ c.due = Tail(a.due) /\ c.reading = (Len(a.due) > 1)
    OBVIOUS
<1> HIDE DEF c
<1>8. QED
    BY <1>5, <1>6, <1>7

\* ... or goes to the body that is being read.
LEMMA BodyLineRead ==
    ASSUME NEW a \in Readings, NEW w \in Texts, "nl" \in Texts, a.reading, a.line = << >>, w # "nl",
           a.due # << >>, w # a.due[1], NEW k \in 1 .. Len(a.bodies),
           k = Len(a.bodies) + 1 - Len(a.due)
    PROVE  LET b == ReadToken(ReadToken(a, w), "nl")
           IN /\ b \in Readings /\ b.tokens = a.tokens /\ b.line = << >> /\ b.due = a.due
              /\ b.reading = a.reading /\ Len(b.bodies) = Len(a.bodies)
              /\ \A i \in 1 .. Len(a.bodies) :
                    b.bodies[i] = IF i = k THEN Append(a.bodies[i], <<w>>) ELSE a.bodies[i]
<1> DEFINE m == [tokens |-> a.tokens, due |-> a.due, bodies |-> a.bodies, reading |-> TRUE,
                 line |-> <<w>>]
<1>1. ReadToken(a, w) = m
    BY BodyWordRead
<1>2. a.due \in Seq(Texts) /\ Head(a.due) = a.due[1]
    BY DEF Readings
<1>3. ReadToken(m, "nl") = ReadBodyToken(m, "nl")
    BY DEF ReadToken
<1>4. PICK bs \in Seq(Seq(Seq(Texts))) : bs = a.bodies
    BY DEF Readings
<1>5. PICK l : l = Append(bs[k], <<w>>)
    OBVIOUS
<1>6. l \in Seq(Seq(Texts))
    <2>1. <<w>> \in Seq(Texts)
        OBVIOUS
    <2>2. k \in 1 .. Len(bs)
        BY <1>4
    <2>3. PICK Y : Y = Seq(Seq(Texts))
        OBVIOUS
    <2>4. bs \in Seq(Y)
        BY <2>3
    <2>5. bs[k] \in Y
        <3>1. \A q \in Seq(Y) : \A i \in 1 .. Len(q) : q[i] \in Y
            OBVIOUS
        <3>2. QED
            BY <2>2, <2>4, <3>1
    <2>6. PICK e, y : e = bs[k] /\ y = <<w>>
        OBVIOUS
    <2>7. e \in Seq(Seq(Texts)) /\ y \in Seq(Texts)
        BY <2>1, <2>3, <2>5, <2>6
    <2>8. Append(e, y) \in Seq(Seq(Texts))
        BY <2>7
    <2>9. QED
        BY <1>5, <2>6, <2>8
<1>7. PICK cs : cs = [bs EXCEPT ![k] = l]
    OBVIOUS
<1>8. /\ cs \in Seq(Seq(Seq(Texts))) /\ Len(cs) = Len(bs)
      /\ \A i \in 1 .. Len(bs) : cs[i] = IF i = k THEN l ELSE bs[i]
    <2>1. k \in 1 .. Len(bs)
        BY <1>4
    <2>2. PICK X : X = Seq(Seq(Texts))
        OBVIOUS
    <2>3. bs \in Seq(X) /\ l \in X
        BY <1>6, <2>2
    <2>4. cs \in Seq(X) /\ Len(cs) = Len(bs)
        BY <1>7, <2>1, <2>3
    <2>5. \A i \in 1 .. Len(bs) : cs[i] = IF i = k THEN l ELSE bs[i]
        BY <1>7, <2>1, <2>3
    <2>6. QED
        BY <2>2, <2>4, <2>5
<1> DEFINE c == [tokens |-> a.tokens, due |-> a.due, bodies |-> cs, reading |-> TRUE,
                 line |-> << >>]
<1>9. ReadBodyToken(m, "nl") = c
    <2>1. m.line # <<Head(m.due)>>
        BY <1>2
    <2>2. ReadBodyToken(m, "nl") =
              [m EXCEPT !.bodies[Len(m.bodies) + 1 - Len(m.due)] = Append(@, m.line),
                        !.line = << >>]
        BY <2>1, Zenon DEF ReadBodyToken
    <2>3. [m.bodies EXCEPT ![Len(m.bodies) + 1 - Len(m.due)] = Append(@, m.line)] = cs
        BY <1>4, <1>5, <1>7
    <2>4. QED
        BY <2>2, <2>3
<1>10. c \in Readings
    BY <1>2, <1>8 DEF Readings
<1>11. ReadToken(ReadToken(a, w), "nl") = c
    BY <1>1, <1>3, <1>9
<1>12. /\ c.tokens = a.tokens /\ c.line = << >> /\ c.due = a.due /\ c.bodies = cs
       /\ c.reading = TRUE
    OBVIOUS
<1>13. a.reading = TRUE
    BY DEF Readings
<1> HIDE DEF c
<1>14. \A i \in 1 .. Len(a.bodies) :
            c.bodies[i] = IF i = k THEN Append(a.bodies[i], <<w>>) ELSE a.bodies[i]
    BY <1>4, <1>5, <1>8, <1>12
<1>15. QED
    BY <1>4, <1>8, <1>10, <1>11, <1>12, <1>13, <1>14

--------------------------------------------------------------------------------
(* The invariant                                                                 *)

\* What the reference makes of what has been typed.
Typing == AsRead(input)
Going == ~Unended /\ fault = "none"

\* A delimiter has been taken, and the file for its body has not been made yet.
Unmade == parse.state \in {27, 28} \/ (PutAside /\ ~body.on)

\* A << that the automaton has taken is followed by a delimiter, or will be.
Followed ==
    /\ \A i \in 2 .. Consumed : tokens[i - 1] = "<<" => ClassifyToken(tokens[i]) = "WORD"
    /\ Consumed >= 1 /\ tokens[Consumed] = "<<" => parse.state = 10
    /\ parse.state \in {27, 28} \/ PutAside => Consumed \in Heres(tokens, Len(tokens))

\* There is a file for each here-document that the automaton has taken.
Counted == Len(docs) + (IF Unmade THEN 1 ELSE 0) = Rank(tokens, Consumed)

\* The bodies that have been read are in the files ds, those of others are empty.
BodiesIn(bodies, ts, ds) ==
    /\ Len(bodies) = Rank(ts, Len(ts))
    /\ \A k \in 1 .. Len(bodies) : bodies[k] = IF k <= Len(ds) THEN ds[k].lines ELSE << >>

\* The nodes of here-documents among c tokens: each has the descriptor of its own file.
FdOf(ds, k) == IF ds[k].opened THEN k ELSE -1
OwnedBy(ns, ts, ds, c) ==
    \A n \in HereNodes(ns) :
        /\ ns[n].token \in Heres(ts, c)
        /\ ns[n].fd # 0 => /\ Rank(ts, ns[n].token) <= Len(ds)
                           /\ ns[n].fd = FdOf(ds, Rank(ts, ns[n].token))
Owned ==
    /\ body.on => body.fd = FdOf(docs, Len(docs))
    /\ OwnedBy(nodes, tokens, docs, Consumed)

\* After d bodies the others are still to come, in the order of their operators.
Done == Len(docs) - (IF body.on THEN 1 ELSE 0)
DueAfter(a, ts, d) ==
    /\ Len(a.due) = Rank(ts, Len(ts)) - d
    /\ \A i \in Heres(ts, Len(ts)) : Rank(ts, i) > d => a.due[Rank(ts, i) - d] = ts[i]
    /\ a.reading <=> (a.due # << >> /\ EndsInNewline(ts))

\* What has been typed, and what has been made of it.
WellRead == Typing \in Readings /\ Typing.tokens = tokens /\ Typing.line = << >>
InStep ==
    /\ Followed /\ Counted /\ Owned
    /\ BodiesIn(Typing.bodies, tokens, docs)
    /\ ~line.null => DueAfter(Typing, tokens, Done)

Written ==
    /\ input \in Seq(Texts) /\ (parse.root # 0 => fault = "none")
    /\ Going => WellRead
    /\ Going /\ phase # "over" => InStep

\* What the automaton has taken is in the text.
LEMMA ConsumedIs ==
    ASSUME Inv, phase # "over"
    PROVE  /\ Consumed \in 0 .. Len(tokens) /\ Len(tokens) \in Nat /\ Len(docs) \in Nat
           /\ PutAside => Consumed >= 1
<1>1. Len(tokens) \in Nat /\ Len(docs) \in Nat
    BY DEF Inv, Shapes
<1>2. CASE PutAside
    <2>1. stack # << >> /\ Top.token >= 1
        BY <1>2 DEF Inv, Saved
    <2>2. Top.token \in 0 .. Len(tokens)
        BY <2>1, TopIs
    <2>3. QED
        BY <1>1, <1>2, <2>1, <2>2 DEF Consumed
<1>3. CASE ~PutAside
    <2>1. parse.tok \in Nat /\ parse.tok <= Len(tokens)
        BY DEF Inv, Shapes, Flow
    <2>2. "HAS_LOOKAHEAD" \in parse.flags => parse.tok >= 1
        BY DEF Inv, Flow, Shapes
    <2>3. QED
        BY <1>1, <1>3, <2>1, <2>2 DEF Consumed
<1>4. QED
    BY <1>2, <1>3

\* A step that reads nothing and takes no token of a command.
LEMMA Unmoved ==
    ASSUME Inv, Written, UNCHANGED <<input, tokens, docs>>, Going' => Going,
           parse'.root # 0 => fault' = "none",
           phase' # "over" /\ Going =>
                /\ phase # "over" /\ Consumed' = Consumed /\ (Unmade' <=> Unmade)
                /\ Followed' /\ Owned' /\ body'.on = body.on /\ (line.null => line'.null)
    PROVE  Written'
<1>1. Typing' = Typing
    BY DEF Typing
<1>2. Going' => WellRead'
    <2>1. HAVE Going'
    <2>2. WellRead
        BY <2>1 DEF Written
    <2>3. QED
        BY <1>1, <2>2 DEF WellRead
<1>3. ASSUME Going', phase' # "over" PROVE InStep'
    <2>1. InStep
        BY <1>3 DEF Written
    <2>2. Counted'
        BY <1>3, <2>1 DEF InStep, Counted
    <2>4. Done' = Done
        BY <1>3 DEF Done
    <2>5. BodiesIn(Typing.bodies, tokens, docs)'
        BY <1>1, <2>1 DEF InStep
    <2>6. line'.null \/ DueAfter(Typing, tokens, Done)'
        BY <1>1, <1>3, <2>1, <2>4 DEF InStep
    <2>7. QED
        BY <1>3, <2>2, <2>5, <2>6 DEF InStep
<1>4. QED
    BY <1>2, <1>3 DEF Written

\* A command line that is over, or a fault.
LEMMA Stopped ==
    ASSUME Inv, Written, input' \in Seq(Texts), parse'.root = 0, ~Going'
    PROVE  Written'
BY DEF Written

\* A node's descriptor is kept, and so is its token.
LEMMA OwnedKept ==
    ASSUME OwnedBy(nodes, tokens, docs, Consumed), Consumed' = Consumed,
           UNCHANGED <<tokens, docs>>, HereNodes(nodes') \subseteq HereNodes(nodes),
           \A n \in HereNodes(nodes') : /\ nodes'[n].token = nodes[n].token
                                        /\ nodes'[n].fd = nodes[n].fd
    PROVE  OwnedBy(nodes, tokens, docs, Consumed)'
BY DEF OwnedBy

--------------------------------------------------------------------------------
(* Steps that move nothing                                                       *)

\* lex_token's input ends.
LEMMA LexEndsWritten ==
    ASSUME Inv, Written, LexEnds
    PROVE  Written'
<1>1. /\ fault = "none" /\ phase = "parse" /\ parse.root = 0 /\ "HAS_LOOKAHEAD" \notin parse.flags
      /\ "HERE_BODY" \notin parse.flags /\ "HAS_SAVED_TOKENS" \notin parse.flags
      /\ UNCHANGED <<mode, input, tokens, stack, nodes, heredoc, ran, fault>>
    BY DEF LexEnds, Fresh, Fetching
<1>2. parse \in [flags : SUBSET Flags, tok : Nat, look : Terminals, state : States, root : Nat]
    BY DEF Inv, Shapes
<1>3. Going
    <2>1. line.whole = FALSE
        BY <1>1 DEF Inv, Lines, Shapes
    <2>2. QED
        BY <1>1, <2>1 DEF Going, Unended
<1>4. /\ parse'.state = parse.state /\ parse'.root = 0 /\ parse'.tok = parse.tok
      /\ line'.null = line.null
    BY <1>1, <1>2 DEF LexEnds, Inv, Shapes
<1>5. PutAside' <=> PutAside
    <2>1. CASE "SAVE_TOKENS" \in parse.flags
        <3>1. "HERE_BODY" \in parse'.flags /\ phase' = "parse"
            BY <1>1, <1>2, <2>1 DEF LexEnds, StartHereBody
        <3>2. QED
            BY <1>1, <2>1, <3>1 DEF PutAside
    <2>2. CASE "SAVE_TOKENS" \notin parse.flags
        <3>1. phase' = "final"
            BY <2>2 DEF LexEnds
        <3>2. QED
            BY <1>1, <2>2, <3>1 DEF PutAside
    <2>3. QED
        BY <2>1, <2>2
<1>6. "HAS_LOOKAHEAD" \notin parse'.flags
    BY <1>1, <1>2 DEF LexEnds, StartHereBody
<1>7. Consumed' = Consumed
    BY <1>1, <1>4, <1>5, <1>6 DEF Consumed, Top
<1>8. Unmade' <=> Unmade
    BY <1>1, <1>4, <1>5 DEF Unmade, heredoc
<1>9. InStep
    BY <1>1, <1>3 DEF Written
<1>10. Followed'
    BY <1>1, <1>4, <1>5, <1>7, <1>9 DEF InStep, Followed
<1>11. Owned'
    <2>1. OwnedBy(nodes, tokens, docs, Consumed)'
        BY <1>1, <1>7, <1>9, OwnedKept DEF InStep, Owned, heredoc
    <2>2. QED
        BY <1>1, <1>9, <2>1 DEF InStep, Owned, heredoc
<1>12. QED
    BY <1>1, <1>3, <1>4, <1>7, <1>8, <1>10, <1>11, Unmoved DEF heredoc

\* A step in which the automaton does nothing, and the same tokens are put aside.
LEMMA Waits ==
    ASSUME Inv, Written, UNCHANGED <<input, tokens, docs, body, nodes, stack>>,
           phase = "parse", phase' = "parse", fault = "none", fault' = "none",
           Going' => Going, line.null => line'.null,
           parse'.state = parse.state, PutAside' <=> PutAside, Consumed' = Consumed
    PROVE  Written'
<1>1. Unmade' <=> Unmade
    BY DEF Unmade
<1>2. ASSUME Going PROVE Followed' /\ Owned'
    <2>1. InStep
        BY <1>2 DEF Written
    <2>2. Followed'
        BY <2>1 DEF InStep, Followed
    <2>3. OwnedBy(nodes, tokens, docs, Consumed)'
        BY <2>1, OwnedKept DEF InStep, Owned
    <2>4. QED
        BY <2>1, <2>2, <2>3 DEF InStep, Owned
<1>3. QED
    BY <1>1, <1>2, Unmoved

\* handle_saved_tokens.
LEMMA ReplayTokenWritten ==
    ASSUME Inv, Written, ReplayToken
    PROVE  Written'
<1>1. /\ fault = "none" /\ phase = "parse" /\ "HAS_LOOKAHEAD" \notin parse.flags
      /\ "HERE_BODY" \notin parse.flags
      /\ UNCHANGED <<reader, tokens, stack, nodes, heredoc, ran, phase, fault>>
    BY DEF ReplayToken, Fetching
<1>2. /\ parse \in [flags : SUBSET Flags, tok : Nat, look : Terminals, state : States, root : Nat]
    BY DEF Inv, Shapes
<1>3. /\ parse'.state = parse.state /\ parse'.tok = parse.tok + 1
      /\ "HAS_LOOKAHEAD" \in parse'.flags /\ "HERE_BODY" \notin parse'.flags
      /\ ("SAVE_TOKENS" \in parse'.flags) <=> ("SAVE_TOKENS" \in parse.flags)
    BY <1>1, <1>2 DEF ReplayToken
<1>4. PutAside' <=> PutAside
    BY <1>1, <1>3 DEF PutAside
<1>5. Consumed' = Consumed
    BY <1>1, <1>2, <1>3, <1>4 DEF Consumed, Top
<1>6. Going' => Going
    BY <1>1 DEF Going, Unended, reader
<1>7. QED
    BY <1>1, <1>3, <1>4, <1>5, <1>6, Waits DEF reader, heredoc

\* handle_here_doc.
LEMMA SaveTokenWritten ==
    ASSUME Inv, Written, SaveToken
    PROVE  Written'
<1>1. /\ fault = "none" /\ phase = "parse" /\ "SAVE_TOKENS" \in parse.flags
      /\ UNCHANGED <<reader, tokens, stack, nodes, heredoc, ran, phase, fault>>
    BY DEF SaveToken
<1>2. /\ parse \in [flags : SUBSET Flags, tok : Nat, look : Terminals, state : States, root : Nat]
    BY DEF Inv, Shapes
<1>3. /\ parse'.state = parse.state
      /\ "SAVE_TOKENS" \in parse'.flags \/ "HERE_BODY" \in parse'.flags
    BY <1>1, <1>2 DEF SaveToken, StartHereBody
<1>4. PutAside' /\ PutAside
    BY <1>1, <1>3 DEF PutAside
<1>5. Consumed' = Consumed
    BY <1>1, <1>4 DEF Consumed, Top
<1>6. Going' => Going
    BY <1>1 DEF Going, Unended, reader
<1>7. QED
    BY <1>1, <1>3, <1>4, <1>5, <1>6, Waits DEF reader, heredoc

\* read_here_line.
LEMMA NextLineWritten ==
    ASSUME Inv, Written, NextLine
    PROVE  Written'
<1>1. /\ fault = "none" /\ phase = "parse" /\ line.null = FALSE
      /\ UNCHANGED <<mode, input, tokens, parse, stack, nodes, heredoc, ran, phase, fault>>
    BY DEF NextLine, Reading, Fetching, Inv, Shapes
<1>2. line.whole = FALSE
    BY LineDone DEF NextLine
<1>3. Going
    BY <1>1, <1>2 DEF Going, Unended
<1>4. PutAside' = PutAside /\ Consumed' = Consumed
    BY <1>1 DEF PutAside, Consumed, Top
<1>5. QED
    BY <1>1, <1>3, <1>4, Waits DEF heredoc

--------------------------------------------------------------------------------
(* Steps after which nothing is claimed of the bodies                            *)

\* The command line is over.
LEMMA OverWritten ==
    ASSUME Inv, Written, phase' = "over", UNCHANGED <<input, tokens, docs>>, parse'.root = 0,
           Going' => Going
    PROVE  Written'
BY Unmoved

\* An interrupt.
LEMMA InterruptWritten ==
    ASSUME Inv, Written, Interrupt
    PROVE  Written'
<1>1. /\ fault = "none" /\ parse.root = 0 /\ phase' = "over"
      /\ UNCHANGED <<mode, input, tokens, stack, docs, ran, fault>>
    BY DEF Interrupt, Reading, Fetching
<1>2. line.whole = FALSE
    BY LineDone DEF Interrupt
<1>3. Going
    BY <1>1, <1>2 DEF Going, Unended
<1>4. parse'.root = 0
    BY <1>1 DEF Interrupt, Inv, Shapes
<1>5. QED
    BY <1>1, <1>3, <1>4, OverWritten

\* A syntax error, and the end of the text.
LEMMA EndWritten ==
    ASSUME Inv, Written, SyntaxError \/ (Shift /\ Decision = YyFinal)
    PROVE  Written'
<1>1. phase' = "over" /\ UNCHANGED <<input, line, tokens, docs, fault>> /\ parse.root = 0
    BY DEF SyntaxError, Shift, Deciding, reader, heredoc
<1>2. parse'.root = 0
    BY <1>1 DEF SyntaxError, Shift, Inv, Shapes
<1>3. Going' => Going
    BY <1>1 DEF Going, Unended
<1>4. QED
    BY <1>1, <1>2, <1>3, OverWritten

\* What is typed is a text.
LEMMA TypedIs ==
    ASSUME Written, NEW u \in Seq(Texts), Types(u)
    PROVE  input' \in Seq(Texts)
BY DEF Written, Types

\* The faults of get_here_doc.
LEMMA FaultsWritten ==
    ASSUME Inv, Written, ReadNull \/ \E w \in Delims : UnendedLine(w) \/ UnwritableLine(w)
    PROVE  Written'
<1>1. fault' # "none" /\ parse' = parse /\ parse.root = 0
    BY DEF ReadNull, UnendedLine, UnwritableLine, Reading, Fetching
<1>2. input \in Seq(Texts)
    BY DEF Written
<1>3. input' \in Seq(Texts)
    <2>1. CASE ReadNull
        BY <1>2, <2>1 DEF ReadNull, reader
    <2>2. ASSUME NEW w \in Delims, UnendedLine(w) \/ UnwritableLine(w) PROVE input' \in Seq(Texts)
        <3>1. <<w>> \in Seq(Texts) /\ <<w, "nl">> \in Seq(Texts)
            <4>1. w \in Texts /\ "nl" \in Texts
                BY ParserAssumption DEF Texts
            <4>2. QED
                BY <4>1
        <3>2. input' = input \/ Types(<<w>>) \/ Types(<<w, "nl">>)
            BY <2>2 DEF UnendedLine, UnwritableLine, NoNewline, reader
        <3>3. QED
            BY <1>2, <3>1, <3>2, TypedIs
    <2>3. QED
        BY <2>1, <2>2
<1>4. QED
    BY <1>1, <1>3, Stopped DEF Going

--------------------------------------------------------------------------------
(* A token of the line                                                           *)

\* When the last token is the newline, no body is to come while commands are read.
LEMMA NoBodyDue ==
    ASSUME Inv, Written, Fresh, ~line.null
    PROVE  Going /\ InStep /\ WellRead /\ ~Typing.reading
<1>1. /\ fault = "none" /\ phase = "parse" /\ parse.root = 0 /\ "HAS_LOOKAHEAD" \notin parse.flags
      /\ "HERE_BODY" \notin parse.flags /\ "HAS_SAVED_TOKENS" \notin parse.flags
    BY DEF Fresh, Fetching
<1>2. line.whole = FALSE
    BY <1>1 DEF Inv, Lines, Shapes
<1>3. Going
    BY <1>1, <1>2 DEF Going, Unended
<1>4. InStep /\ WellRead
    BY <1>1, <1>3 DEF Written
<1>5. SUFFICES ASSUME Typing.reading PROVE FALSE
    BY <1>3, <1>4
<1>6. Typing.due # << >> /\ EndsInNewline(tokens) /\ DueAfter(Typing, tokens, Done)
    BY <1>4, <1>5 DEF InStep, DueAfter
<1>7. PICK n \in Nat : n = Len(tokens)
    BY DEF Inv, Shapes
<1>8. n >= 1 /\ tokens[n] = "nl" /\ parse.tok = n
    BY <1>1, <1>6, <1>7 DEF EndsInNewline, EndsIn, Last, Inv, Shapes, Flow
<1>9. CASE PutAside
    <2>1. "SAVE_TOKENS" \in parse.flags
        BY <1>1, <1>9 DEF PutAside
    <2>2. /\ Top.token < parse.tok
          /\ \A k \in Top.token + 1 .. parse.tok : tokens[k] = "nl" => "HAS_LOOKAHEAD" \in parse.flags
        BY <1>9, <2>1 DEF Inv, Saved
    <2>3. Top.token \in Nat
        BY <1>9, TopIs DEF Inv, Saved
    <2>4. n \in Top.token + 1 .. parse.tok
        BY <1>8, <2>2, <2>3
    <2>5. QED
        BY <1>1, <1>8, <2>2, <2>4
<1>10. CASE ~PutAside
    <2>1. Consumed = n
        BY <1>1, <1>8, <1>10 DEF Consumed
    <2>2. ~Unmade
        <3>1. n \notin Heres(tokens, n)
            BY <1>8, ClassesKnown DEF Heres
        <3>2. parse.state \notin {27, 28}
            BY <1>4, <1>7, <2>1, <3>1 DEF InStep, Followed
        <3>3. QED
            BY <1>10, <3>2 DEF Unmade
    <2>3. Len(docs) = Rank(tokens, n)
        <3>1. Len(docs) \in Nat
            BY DEF Inv, Shapes
        <3>2. QED
            BY <1>4, <2>1, <2>2, <3>1 DEF InStep, Counted
    <2>4. body.on = FALSE
        BY <1>1 DEF Inv, Documents, Shapes
    <2>5. Done = Rank(tokens, n) /\ Rank(tokens, n) \in Nat
        BY <2>3, <2>4, RankIs DEF Done
    <2>6. Len(Typing.due) = 0
        BY <1>6, <1>7, <2>5 DEF DueAfter
    <2>7. Typing.due \in Seq(Texts)
        BY <1>4 DEF WellRead, Readings
    <2>8. QED
        BY <1>6, <2>6, <2>7
<1>11. QED
    BY <1>9, <1>10

\* The bodies when a token is added: that of a delimiter is empty.
LEMMA BodiesLonger ==
    ASSUME NEW bs \in Seq(Seq(Seq(Texts))), NEW ts \in Seq(Texts), NEW t \in Texts, NEW ds,
           BodiesIn(bs, ts, ds), Len(ds) \in Nat, Len(ds) <= Rank(ts, Len(ts)), NEW cs,
           cs = IF Delimits(ts, t) THEN Append(bs, << >>) ELSE bs
    PROVE  BodiesIn(cs, Append(ts, t), ds)
<1>1. PICK n \in Nat : n = Len(ts)
    OBVIOUS
<1>2. PICK us : us = Append(ts, t)
    OBVIOUS
<1>3. Len(us) = n + 1 /\ us[n + 1] = t /\ (n >= 1 => us[n] = ts[n])
    BY <1>1, <1>2
<1>4. Delimits(ts, t) <=> n + 1 \in Heres(us, n + 1)
    <2>1. n >= 1 => ts # << >> /\ Last(ts) = ts[n]
        BY <1>1 DEF Last
    <2>2. n = 0 => ts = << >>
        <3>1. \A q \in Seq(Texts) : Len(q) = 0 => q = << >>
            OBVIOUS
        <3>2. QED
            BY <1>1, <3>1
    <2>3. QED
        BY <1>3, <2>1, <2>2 DEF Delimits, Heres
<1>5. Rank(us, n) = Rank(ts, n) /\ Rank(ts, n) \in Nat
    BY <1>1, <1>2, RankKept, RankIs
<1>6. Rank(us, n + 1) = Rank(ts, n) + (IF Delimits(ts, t) THEN 1 ELSE 0)
    BY <1>4, <1>5, RankStep
<1>7. Len(bs) = Rank(ts, n)
    BY <1>1 DEF BodiesIn
<1>8. CASE Delimits(ts, t)
    <2>1. Len(cs) = Len(bs) + 1 /\ cs[Len(bs) + 1] = << >> /\ \A k \in 1 .. Len(bs) : cs[k] = bs[k]
        BY <1>8
    <2>2. \A k \in 1 .. Len(cs) : cs[k] = IF k <= Len(ds) THEN ds[k].lines ELSE << >>
        BY <1>1, <1>5, <1>7, <2>1 DEF BodiesIn
    <2>3. QED
        BY <1>2, <1>3, <1>5, <1>6, <1>7, <1>8, <2>1, <2>2 DEF BodiesIn
<1>9. CASE ~Delimits(ts, t)
    BY <1>2, <1>3, <1>5, <1>6, <1>7, <1>9 DEF BodiesIn
<1>10. QED
    BY <1>8, <1>9

\* The bodies to come when a token is added: that of a delimiter is the last.
LEMMA DueLonger ==
    ASSUME NEW a \in Readings, NEW ts \in Seq(Texts), NEW t \in Texts, NEW d \in Nat,
           DueAfter(a, ts, d), d <= Rank(ts, Len(ts)), NEW b,
           b.due = (IF Delimits(ts, t) THEN Append(a.due, t) ELSE a.due),
           b.reading = (t = "nl" /\ a.due # << >>)
    PROVE  DueAfter(b, Append(ts, t), d)
<1>1. PICK n \in Nat : n = Len(ts)
    OBVIOUS
<1>2. PICK us : us = Append(ts, t)
    OBVIOUS
<1>3. /\ Len(us) = n + 1 /\ us[n + 1] = t /\ (n >= 1 => us[n] = ts[n])
      /\ \A i \in 1 .. n : us[i] = ts[i]
    BY <1>1, <1>2
<1>4. Delimits(ts, t) <=> n + 1 \in Heres(us, n + 1)
    <2>1. n >= 1 => ts # << >> /\ Last(ts) = ts[n]
        BY <1>1 DEF Last
    <2>2. n = 0 => ts = << >>
        <3>1. \A q \in Seq(Texts) : Len(q) = 0 => q = << >>
            OBVIOUS
        <3>2. QED
            BY <1>1, <3>1
    <2>3. QED
        BY <1>3, <2>1, <2>2 DEF Delimits, Heres
<1>5. /\ \A i \in 0 .. n : Heres(us, i) = Heres(ts, i) /\ Rank(us, i) = Rank(ts, i)
      /\ Rank(ts, n) \in Nat
    BY <1>1, <1>2, RankKept, RankIs
<1>6. Rank(us, n + 1) = Rank(ts, n) + (IF Delimits(ts, t) THEN 1 ELSE 0)
    <2>1. Rank(us, n) = Rank(ts, n)
        BY <1>5
    <2>2. QED
        BY <1>4, <2>1, RankStep
<1>7. a.due \in Seq(Texts) /\ Len(a.due) = Rank(ts, n) - d
    BY <1>1 DEF DueAfter, Readings
<1>8. PICK q : q = b.due
    OBVIOUS
<1>9. Len(q) = Rank(us, n + 1) - d
    BY <1>5, <1>6, <1>7, <1>8
<1>10. ASSUME NEW i \in Heres(us, n + 1), Rank(us, i) > d PROVE q[Rank(us, i) - d] = us[i]
    <2>1. CASE i = n + 1
        <3>1. Delimits(ts, t)
            BY <1>4, <1>10, <2>1
        <3>2. q = Append(a.due, t) /\ Rank(us, i) - d = Len(a.due) + 1
            BY <1>5, <1>6, <1>7, <1>8, <2>1, <3>1
        <3>3. QED
            BY <1>3, <1>7, <2>1, <3>2
    <2>2. CASE i # n + 1
        <3>1. i \in 2 .. n /\ i \in Heres(us, n)
            BY <2>2 DEF Heres
        <3>2. i \in Heres(ts, n) /\ Rank(us, i) = Rank(ts, i) /\ us[i] = ts[i]
            BY <1>3, <1>5, <3>1
        <3>3. Rank(ts, i) \in Nat /\ Rank(ts, i) <= Rank(ts, n)
            BY <3>2, RankOf
        <3>4. a.due[Rank(ts, i) - d] = ts[i]
            BY <1>1, <1>10, <3>2 DEF DueAfter
        <3>5. Rank(ts, i) - d \in 1 .. Len(a.due)
            BY <1>5, <1>7, <1>10, <3>2, <3>3
        <3>6. q[Rank(ts, i) - d] = a.due[Rank(ts, i) - d]
            BY <1>7, <1>8, <3>5
        <3>7. QED
            BY <3>2, <3>4, <3>6
    <2>3. QED
        BY <2>1, <2>2
<1>11. EndsInNewline(us) <=> (t = "nl")
    BY <1>1, <1>2, <1>3 DEF EndsInNewline, EndsIn, Last
<1>12. b.reading <=> (q # << >> /\ EndsInNewline(us))
    <2>1. t = "nl" => ~Delimits(ts, t)
        BY ClassesKnown DEF Delimits
    <2>2. QED
        BY <1>8, <1>11, <2>1
<1>13. QED
    BY <1>2, <1>3, <1>8, <1>9, <1>10, <1>12 DEF DueAfter

\* lex_token.
LEMMA LexTokenWritten ==
    ASSUME Inv, Written, NEW t \in Texts, LexToken(t)
    PROVE  Written'
<1>1. /\ fault = "none" /\ phase = "parse" /\ parse.root = 0 /\ "HAS_LOOKAHEAD" \notin parse.flags
      /\ "HERE_BODY" \notin parse.flags /\ "HAS_SAVED_TOKENS" \notin parse.flags
      /\ Fresh /\ line.null = FALSE /\ input' = input \o <<t>> /\ tokens' = Append(tokens, t)
      /\ UNCHANGED <<stack, nodes, body, docs, open, ran, phase, fault>>
    BY DEF LexToken, Fresh, Fetching, Types, heredoc, Inv, Shapes
<1>2. /\ parse \in [flags : SUBSET Flags, tok : Nat, look : Terminals, state : States, root : Nat]
      /\ tokens \in Seq(Texts) /\ input \in Seq(Texts)
    BY DEF Inv, Shapes, Written
<1>3. /\ parse'.state = parse.state /\ parse'.root = 0 /\ parse'.tok = parse.tok + 1
      /\ parse'.flags = parse.flags \cup {"HAS_LOOKAHEAD"}
    BY <1>1, <1>2 DEF LexToken
<1>4. Going /\ InStep /\ WellRead /\ ~Typing.reading
    BY <1>1, NoBodyDue
<1>5. input' \in Seq(Texts) /\ input' = Append(input, t)
    BY <1>1, <1>2
<1>6. PICK a : a = Typing
    OBVIOUS
<1>7. PICK b : b = Typing'
    OBVIOUS
<1>8. b = ReadToken(a, t)
    BY <1>2, <1>5, <1>6, <1>7, ReadOne DEF Typing
<1>9. a \in Readings /\ a.tokens = tokens /\ a.line = << >> /\ ~a.reading
    BY <1>4, <1>6 DEF WellRead
<1>10. /\ b \in Readings
       /\ b.tokens = Append(a.tokens, t) /\ b.line = a.line
       /\ b.due = (IF Delimits(a.tokens, t) THEN Append(a.due, t) ELSE a.due)
       /\ b.bodies = (IF Delimits(a.tokens, t) THEN Append(a.bodies, << >>) ELSE a.bodies)
       /\ b.reading = (t = "nl" /\ a.due # << >>)
    BY <1>8, <1>9, CommandTokenRead
<1>11. WellRead'
    BY <1>1, <1>7, <1>9, <1>10 DEF WellRead
<1>12. PutAside' <=> PutAside
    BY <1>1, <1>3 DEF PutAside
<1>13. PICK n \in Nat : n = Len(tokens)
    BY <1>2
<1>14. PICK c : c = Consumed
    OBVIOUS
<1>15. c \in 0 .. n /\ Len(docs) \in Nat
    BY <1>1, <1>13, <1>14, ConsumedIs
<1>16. Consumed' = c
    BY <1>1, <1>2, <1>3, <1>12, <1>14 DEF Consumed, Top
<1>17. /\ Heres(tokens', c) = Heres(tokens, c) /\ Rank(tokens', c) = Rank(tokens, c)
       /\ \A i \in 0 .. n : Rank(tokens', i) = Rank(tokens, i)
    BY <1>1, <1>2, <1>13, <1>15, RankKept
<1>18. \A i \in 1 .. n : tokens'[i] = tokens[i]
    BY <1>1, <1>2, <1>13
<1>19. Unmade' <=> Unmade
    BY <1>1, <1>3, <1>12 DEF Unmade
<1>20. Followed'
    <2>1. \A i \in 2 .. c : tokens'[i - 1] = "<<" => ClassifyToken(tokens'[i]) = "WORD"
        <3>1. TAKE i \in 2 .. c
        <3>2. i \in 1 .. n /\ i - 1 \in 1 .. n
            BY <1>13, <1>15
        <3>3. QED
            BY <1>4, <1>14, <1>18, <3>2 DEF InStep, Followed
    <2>2. c >= 1 /\ tokens'[c] = "<<" => parse'.state = 10
        BY <1>3, <1>4, <1>14, <1>15, <1>18 DEF InStep, Followed
    <2>3. parse'.state \in {27, 28} \/ PutAside' => c \in Heres(tokens', Len(tokens'))
        <3>1. HAVE parse'.state \in {27, 28} \/ PutAside'
        <3>2. c \in Heres(tokens, n)
            BY <1>3, <1>4, <1>12, <1>13, <1>14, <3>1 DEF InStep, Followed
        <3>3. Len(tokens') = n + 1
            BY <1>1, <1>2, <1>13
        <3>4. c \in 2 .. n /\ c - 1 \in 1 .. n
            BY <3>2 DEF Heres
        <3>5. QED
            BY <1>18, <3>2, <3>3, <3>4 DEF Heres
    <2>4. QED
        BY <1>16, <2>1, <2>2, <2>3 DEF Followed
<1>21. Counted'
    BY <1>1, <1>4, <1>14, <1>16, <1>17, <1>19 DEF InStep, Counted
<1>22. Owned'
    <2>1. OwnedBy(nodes, tokens', docs, c)
        <3>1. ASSUME NEW i \in HereNodes(nodes)
              PROVE Rank(tokens', nodes[i].token) = Rank(tokens, nodes[i].token)
            <4>1. nodes[i].token \in Heres(tokens, c)
                BY <1>4, <1>14 DEF InStep, Owned, OwnedBy
            <4>2. nodes[i].token \in 0 .. n
                BY <1>15, <4>1 DEF Heres
            <4>3. QED
                BY <1>17, <4>2
        <3>2. QED
            BY <1>4, <1>14, <1>17, <3>1 DEF InStep, Owned, OwnedBy
    <2>2. QED
        BY <1>1, <1>4, <1>16, <2>1 DEF InStep, Owned
<1>23. Len(docs) <= Rank(tokens, n)
    <2>1. Len(docs) <= Rank(tokens, c)
        BY <1>4, <1>14, <1>15 DEF InStep, Counted
    <2>2. Rank(tokens, c) \in Nat /\ Rank(tokens, n) \in Nat /\ Rank(tokens, c) <= Rank(tokens, n)
        BY <1>15, RankGrows
    <2>3. QED
        BY <1>15, <2>1, <2>2
<1>24. BodiesIn(b.bodies, tokens', docs')
    <2>1. a.bodies \in Seq(Seq(Seq(Texts))) /\ BodiesIn(a.bodies, tokens, docs)
        BY <1>4, <1>6, <1>9 DEF InStep, Readings
    <2>2. PICK x, y : x = a.bodies /\ y = b.bodies
        OBVIOUS
    <2>3. BodiesIn(y, Append(tokens, t), docs)
        BY <1>2, <1>9, <1>10, <1>13, <1>15, <1>23, <2>1, <2>2, BodiesLonger
    <2>4. QED
        BY <1>1, <2>2, <2>3
<1>25. DueAfter(b, tokens', Done')
    <2>1. body.on = FALSE
        BY <1>1 DEF Inv, Documents, Shapes
    <2>2. Done = Len(docs) /\ Done' = Len(docs)
        BY <1>1, <1>15, <2>1 DEF Done
    <2>3. DueAfter(a, tokens, Len(docs))
        BY <1>1, <1>4, <1>6, <2>2 DEF InStep
    <2>4. DueAfter(b, Append(tokens, t), Len(docs))
        BY <1>2, <1>9, <1>10, <1>13, <1>15, <1>23, <2>3, DueLonger
    <2>5. QED
        BY <1>1, <2>2, <2>4
<1>26. InStep'
    BY <1>7, <1>20, <1>21, <1>22, <1>24, <1>25 DEF InStep
<1>27. QED
    BY <1>3, <1>5, <1>11, <1>26 DEF Written

--------------------------------------------------------------------------------
(* Bodies                                                                        *)

\* While a body is wanted, the automaton has taken its delimiter.
LEMMA Awaited ==
    ASSUME Inv, Written, Fetching, "HERE_BODY" \in parse.flags
    PROVE  /\ fault = "none" /\ phase = "parse" /\ parse.root = 0 /\ PutAside
           /\ "HAS_LOOKAHEAD" \notin parse.flags /\ "SAVE_TOKENS" \notin parse.flags
           /\ parse.state \notin {27, 28} /\ Consumed = Top.token /\ stack # << >>
           /\ nodes[Top.node].token = Top.token /\ Top.node \in HereNodes(nodes)
           /\ Consumed \in 0 .. Len(tokens) /\ Len(tokens) \in Nat
           /\ Len(docs) \in Nat
<1>1. fault = "none" /\ phase = "parse" /\ parse.root = 0 /\ "HAS_LOOKAHEAD" \notin parse.flags
    BY DEF Fetching
<1>2. PutAside
    BY <1>1 DEF PutAside
<1>3. /\ stack # << >> /\ Top.type = "io_here" /\ nodes[Top.node].token = Top.token
      /\ "SAVE_TOKENS" \notin parse.flags
    BY <1>1, <1>2 DEF Inv, Saved, Flow
<1>4. parse.state \notin {27, 28}
    <2>1. parse.state = Top.state /\ Leads(Under(stack, Len(stack) - 1), Top.state, Top.type)
        BY <1>1, <1>3, TopState
    <2>2. /\ Top.state = 27 => Top.type = "WORD"
          /\ Top.state = 28 => Top.type = "here_end"
        BY <2>1, Landmarks
    <2>3. QED
        BY <1>3, <2>1, <2>2
<1>5. Consumed = Top.token
    BY <1>2 DEF Consumed
<1>6. Top.node \in HereNodes(nodes)
    BY <1>2 DEF Inv, Documents
<1>7. QED
    BY <1>1, <1>2, <1>3, <1>4, <1>5, <1>6, ConsumedIs

\* While a body is read, its delimiter is the first of those that are due.
LEMMA BodyOfDelimiter ==
    ASSUME Inv, Written, Reading, line.whole = FALSE
    PROVE  /\ Going /\ InStep /\ WellRead
           /\ Len(docs) \in Nat /\ Len(docs) >= 1 /\ Len(docs) = Rank(tokens, Consumed)
           /\ Consumed \in Heres(tokens, Len(tokens)) /\ Delimiter = tokens[Consumed]
           /\ Len(docs) <= Rank(tokens, Len(tokens)) /\ Rank(tokens, Len(tokens)) \in Nat
           /\ Done = Len(docs) - 1 /\ ~Unmade
<1>1. body.on = TRUE /\ Fetching /\ "HERE_BODY" \in parse.flags
    BY InBody DEF Reading
<1>2. /\ fault = "none" /\ phase = "parse" /\ PutAside /\ parse.state \notin {27, 28}
      /\ Consumed = Top.token /\ nodes[Top.node].token = Top.token
      /\ Consumed \in 0 .. Len(tokens) /\ Len(tokens) \in Nat /\ Len(docs) \in Nat
    BY <1>1, Awaited
<1>3. Going
    BY <1>2 DEF Going, Unended
<1>4. InStep /\ WellRead
    BY <1>2, <1>3 DEF Written
<1>5. ~Unmade
    BY <1>1, <1>2 DEF Unmade
<1>6. Len(docs) = Rank(tokens, Consumed)
    BY <1>2, <1>4, <1>5 DEF InStep, Counted
<1>7. Consumed \in Heres(tokens, Len(tokens))
    BY <1>2, <1>4 DEF InStep, Followed
<1>8. Delimiter = tokens[Consumed]
    BY <1>2 DEF Delimiter
<1>9. PICK n, c : n = Len(tokens) /\ c = Consumed
    OBVIOUS
<1>10. Rank(tokens, c) >= 1 /\ Rank(tokens, c) <= Rank(tokens, n)
    BY <1>2, <1>7, <1>9, RankOf
<1>11. Rank(tokens, n) \in Nat
    BY <1>2, <1>9, RankIs
<1>12. Done = Len(docs) - 1
    BY <1>1, <1>2 DEF Done
<1>13. QED
    BY <1>2, <1>3, <1>4, <1>5, <1>6, <1>7, <1>8, <1>9, <1>10, <1>11, <1>12

\* More documents, and the same files for those there were.
LEMMA OwnedOn ==
    ASSUME NEW ns, NEW ts, NEW c \in Nat, NEW ds, NEW es, OwnedBy(ns, ts, ds, c),
           Len(ds) \in Nat, Len(es) \in Nat, Len(ds) <= Len(es),
           \A k \in 1 .. Len(ds) : es[k].opened = ds[k].opened
    PROVE  OwnedBy(ns, ts, es, c)
<1>1. ASSUME NEW i \in HereNodes(ns), ns[i].fd # 0
      PROVE  /\ Rank(ts, ns[i].token) <= Len(es)
             /\ ns[i].fd = FdOf(es, Rank(ts, ns[i].token))
    <2>1. PICK r : r = Rank(ts, ns[i].token)
        OBVIOUS
    <2>2. ns[i].token \in Heres(ts, c)
        BY DEF OwnedBy
    <2>3. r \in Nat /\ r >= 1
        BY <2>1, <2>2, RankOf
    <2>4. r <= Len(ds) /\ ns[i].fd = FdOf(ds, r)
        BY <1>1, <2>1 DEF OwnedBy
    <2>5. r \in 1 .. Len(ds) /\ r <= Len(es)
        BY <2>3, <2>4
    <2>6. QED
        BY <2>1, <2>4, <2>5 DEF FdOf
<1>2. QED
    BY <1>1 DEF OwnedBy

\* create_here_temp.
LEMMA OpenHereWritten ==
    ASSUME Inv, Written, OpenHere
    PROVE  Written'
<1>1. /\ Fetching /\ "HERE_BODY" \in parse.flags /\ ~body.on
      /\ UNCHANGED <<reader, tokens, parse, stack, nodes, ran, phase, fault>>
    BY DEF OpenHere
<1>2. PICK o \in BOOLEAN : /\ docs' = Append(docs, [lines |-> << >>, opened |-> o])
                           /\ body'.on = TRUE /\ body'.fd = IF o THEN Len(docs) + 1 ELSE -1
    <2>1. PICK opened : /\ body' = [on |-> TRUE, writable |-> "w" \in opened,
                                    fd |-> IF "r" \in opened THEN Len(docs) + 1 ELSE -1]
                        /\ docs' = Append(docs, [lines |-> << >>, opened |-> "r" \in opened])
        BY DEF OpenHere
    <2>2. ("r" \in opened) \in BOOLEAN
        OBVIOUS
    <2>3. QED
        BY <2>1, <2>2
<1>3. /\ fault = "none" /\ phase = "parse" /\ parse.root = 0 /\ PutAside
      /\ parse.state \notin {27, 28} /\ Consumed \in 0 .. Len(tokens) /\ Len(tokens) \in Nat
    BY <1>1, Awaited
<1>4. PICK d \in Nat : d = Len(docs)
    BY DEF Inv, Shapes
<1>5. PICK es : es = docs'
    OBVIOUS
<1>6. PICK z : z = [lines |-> << >>, opened |-> o]
    OBVIOUS
<1>7. /\ Len(es) = d + 1 /\ es[d + 1] = z /\ \A k \in 1 .. d : es[k] = docs[k]
    <2>1. docs \in Seq([lines : Seq(Seq(Delims)), opened : BOOLEAN])
        BY DEF Inv, Shapes
    <2>2. es = Append(docs, z)
        BY <1>2, <1>5, <1>6
    <2>3. QED
        BY <1>4, <2>1, <2>2
<1>8. z.lines = << >> /\ z.opened = o
    BY <1>6
<1>9. Going' => Going
    BY <1>1 DEF Going, Unended, reader
<1>10. Typing' = Typing
    BY <1>1 DEF Typing, reader
<1>11. PutAside' /\ Consumed' = Consumed
    BY <1>1, <1>3 DEF PutAside, Consumed, Top
<1>12. Unmade /\ ~Unmade'
    BY <1>1, <1>2, <1>3, <1>11 DEF Unmade
<1>13. ASSUME Going PROVE InStep'
    <2>1. InStep
        BY <1>3, <1>13 DEF Written
    <2>2. Followed'
        BY <1>1, <1>3, <1>11, <2>1 DEF InStep, Followed
    <2>3. Counted'
        <3>1. d + 1 = Rank(tokens, Consumed)
            BY <1>4, <1>12, <2>1 DEF InStep, Counted
        <3>2. Len(docs') = d + 1
            BY <1>5, <1>7
        <3>3. QED
            BY <1>1, <1>11, <1>12, <3>1, <3>2 DEF Counted
    <2>4. Owned'
        <3>1. OwnedBy(nodes, tokens, docs, Consumed)
            BY <2>1 DEF InStep, Owned
        <3>2. PICK c \in Nat : c = Consumed
            BY <1>3
        <3>3. OwnedBy(nodes, tokens, es, c)
            BY <1>4, <1>7, <3>1, <3>2, OwnedOn
        <3>4. FdOf(docs', Len(docs')) = body'.fd
            BY <1>2, <1>4, <1>5, <1>7, <1>8 DEF FdOf
        <3>5. QED
            BY <1>1, <1>5, <1>11, <3>2, <3>3, <3>4 DEF Owned
    <2>5. BodiesIn(Typing.bodies, tokens, es)
        <3>1. BodiesIn(Typing.bodies, tokens, docs)
            BY <2>1 DEF InStep
        <3>2. ASSUME NEW k \in 1 .. Len(Typing.bodies)
              PROVE  Typing.bodies[k] = IF k <= Len(es) THEN es[k].lines ELSE << >>
            <4>1. k \in Nat /\ k >= 1
                <5>1. Len(Typing.bodies) \in Nat
                    BY <1>3, <3>1, RankIs DEF BodiesIn
                <5>2. QED
                    BY <5>1
            <4>2. Typing.bodies[k] = IF k <= d THEN docs[k].lines ELSE << >>
                BY <1>4, <3>1 DEF BodiesIn
            <4>3. CASE k <= d
                BY <1>7, <4>1, <4>2, <4>3
            <4>4. CASE k = d + 1
                BY <1>7, <1>8, <4>1, <4>2, <4>4
            <4>5. CASE k > d + 1
                BY <1>7, <4>1, <4>2, <4>5
            <4>6. QED
                BY <4>1, <4>3, <4>4, <4>5
        <3>3. QED
            BY <3>1, <3>2 DEF BodiesIn
    <2>6. Done' = Done
        <3>1. Done' = d + 1 - 1
            BY <1>2, <1>5, <1>7 DEF Done
        <3>2. QED
            BY <1>1, <1>4, <3>1 DEF Done
    <2>7. ~line'.null => DueAfter(Typing, tokens, Done)'
        BY <1>1, <1>10, <2>1, <2>6 DEF InStep, reader
    <2>8. QED
        BY <1>1, <1>5, <1>10, <2>2, <2>3, <2>4, <2>5, <2>7 DEF InStep
<1>14. Going' => WellRead'
    BY <1>1, <1>9, <1>10 DEF Written, WellRead
<1>15. QED
    BY <1>1, <1>3, <1>9, <1>13, <1>14 DEF Written, reader

\* A line of two tokens is read like any other.
LEMMA LineRead ==
    ASSUME Written, NEW w \in Texts, Types(<<w, "nl">>)
    PROVE  /\ "nl" \in Texts /\ input' \in Seq(Texts)
           /\ Typing' = ReadToken(ReadToken(Typing, w), "nl")
<1>1. "nl" \in Texts
    BY ParserAssumption DEF Texts
<1>2. PICK s \in Seq(Texts) : s = input
    BY DEF Written
<1>3. PICK u : u = Append(s, w)
    OBVIOUS
<1>4. u \in Seq(Texts)
    BY <1>3
<1>5. input' = Append(u, "nl")
    <2>1. input' = s \o <<w, "nl">>
        BY <1>2 DEF Types
    <2>2. s \o <<w, "nl">> = Append(u, "nl")
        BY <1>1, <1>2, <1>3, <1>4
    <2>3. QED
        BY <2>1, <2>2
<1>6. AsRead(u) = ReadToken(AsRead(s), w)
    BY <1>3, ReadOne
<1>7. AsRead(Append(u, "nl")) = ReadToken(AsRead(u), "nl")
    BY <1>1, <1>4, ReadOne
<1>8. input' \in Seq(Texts)
    BY <1>1, <1>4, <1>5
<1>9. QED
    BY <1>1, <1>2, <1>5, <1>6, <1>7, <1>8 DEF Typing

\* The body is given to its node, and the tokens that were put aside are next.
LEMMA BodyEnded ==
    ASSUME Inv, Written, Reading, EndBody(body.fd), line.whole = FALSE,
           UNCHANGED <<tokens, stack, docs, phase, fault>>
    PROVE  /\ Followed' /\ Counted' /\ Owned' /\ Done' = Len(docs)
           /\ parse'.root = 0 /\ phase' = "parse" /\ fault' = "none"
<1>1. /\ phase = "parse" /\ fault = "none" /\ parse.root = 0 /\ body.on = TRUE
      /\ "HAS_LOOKAHEAD" \notin parse.flags /\ "SAVE_TOKENS" \notin parse.flags
      /\ PutAside /\ Top.node \in 1 .. Len(nodes) /\ nodes[Top.node].token = Top.token
      /\ Top.node \in HereNodes(nodes)
    BY InBody
<1>2. /\ Going /\ InStep /\ Len(docs) \in Nat /\ Len(docs) >= 1
      /\ Len(docs) = Rank(tokens, Consumed) /\ Consumed \in Heres(tokens, Len(tokens)) /\ ~Unmade
    BY BodyOfDelimiter
<1>3. Consumed = Top.token /\ parse.state \notin {27, 28} /\ Consumed \in 0 .. Len(tokens)
    BY Awaited DEF Reading
<1>4. /\ parse \in [flags : SUBSET Flags, tok : Nat, look : Terminals, state : States, root : Nat]
      /\ body \in [on : BOOLEAN, fd : Int, writable : BOOLEAN]
    BY DEF Inv, Shapes
<1>5. /\ parse'.state = parse.state /\ parse'.root = 0 /\ parse'.tok = Top.token
      /\ parse'.flags = parse.flags \ {"HERE_BODY"} /\ body'.on = FALSE
      /\ nodes' = WithFd(nodes, Top.node, body.fd)
    BY <1>1, <1>4 DEF EndBody, WithFd
<1>6. ~PutAside'
    BY <1>1, <1>5 DEF PutAside
<1>7. Consumed' = Consumed
    BY <1>1, <1>3, <1>5, <1>6 DEF Consumed
<1>8. ~Unmade'
    BY <1>3, <1>5, <1>6 DEF Unmade
<1>9. Followed'
    BY <1>2, <1>3, <1>5, <1>6, <1>7 DEF InStep, Followed
<1>10. Counted'
    BY <1>2, <1>7, <1>8 DEF Counted
<1>11. Owned'
    <2>1. PICK c, n, ns : c = Consumed /\ n = Top.node /\ ns = nodes'
        OBVIOUS
    <2>2. /\ Len(ns) = Len(nodes) /\ Len(nodes) \in Nat
          /\ \A i \in 1 .. Len(nodes) : /\ ns[i].type = nodes[i].type
                                        /\ ns[i].flag = nodes[i].flag
                                        /\ ns[i].token = nodes[i].token
                                        /\ ns[i].fd = IF i = n THEN body.fd ELSE nodes[i].fd
        <3>1. Arena(nodes, Len(tokens), Len(docs)) /\ body.fd \in -1 .. Len(docs)
            BY DEF Inv, Bear, Documents
        <3>2. Len(tokens) \in Nat /\ Len(docs) \in Nat /\ Len(nodes) \in Nat
            BY <3>1 DEF Inv, Shapes, Arena
        <3>3. QED
            BY <1>1, <1>5, <2>1, <3>1, <3>2, FdSet
    <2>3. DOMAIN ns = 1 .. Len(nodes) /\ DOMAIN nodes = 1 .. Len(nodes)
        BY <1>5, <2>1 DEF WithFd, Inv, Bear, Arena
    <2>4. HereNodes(ns) = HereNodes(nodes)
        BY <2>2, <2>3 DEF HereNodes
    <2>5. OwnedBy(nodes, tokens, docs, c) /\ body.fd = FdOf(docs, Len(docs))
        BY <1>1, <1>2, <2>1 DEF InStep, Owned
    <2>6. ASSUME NEW i \in HereNodes(ns)
          PROVE  /\ ns[i].token \in Heres(tokens, c)
                 /\ ns[i].fd # 0 => /\ Rank(tokens, ns[i].token) <= Len(docs)
                                    /\ ns[i].fd = FdOf(docs, Rank(tokens, ns[i].token))
        <3>1. i \in HereNodes(nodes) /\ i \in 1 .. Len(nodes)
            BY <2>3, <2>4 DEF HereNodes
        <3>2. CASE i = n
            <4>1. ns[i].token = c /\ ns[i].fd = body.fd
                BY <1>1, <1>3, <2>1, <2>2, <3>1, <3>2
            <4>2. ns[i].token \in Heres(tokens, c)
                <5>1. nodes[i].token \in Heres(tokens, c)
                    BY <2>5, <3>1 DEF OwnedBy
                <5>2. QED
                    BY <2>2, <3>1, <5>1
            <4>3. QED
                BY <1>2, <2>1, <2>5, <4>1, <4>2
        <3>3. CASE i # n
            <4>1. ns[i].token = nodes[i].token /\ ns[i].fd = nodes[i].fd
                BY <2>2, <3>1, <3>3
            <4>2. QED
                BY <2>5, <3>1, <4>1 DEF OwnedBy
        <3>4. QED
            BY <3>2, <3>3
    <2>7. OwnedBy(ns, tokens, docs, c)
        BY <2>6 DEF OwnedBy
    <2>8. QED
        BY <1>5, <1>7, <2>1, <2>7 DEF Owned
<1>12. Done' = Len(docs)
    BY <1>2, <1>5 DEF Done
<1>13. QED
    BY <1>1, <1>5, <1>9, <1>10, <1>11, <1>12

\* The input ends in a body.
LEMMA InputEndsWritten ==
    ASSUME Inv, Written, InputEnds
    PROVE  Written'
<1>1. /\ Reading /\ EndBody(body.fd) /\ line' = [line EXCEPT !.null = TRUE]
      /\ UNCHANGED <<mode, input, tokens, stack, docs, open, ran, phase, fault>>
    BY DEF InputEnds
<1>2. line.whole = FALSE
    BY LineDone DEF InputEnds
<1>3. /\ Followed' /\ Counted' /\ Owned' /\ Done' = Len(docs)
      /\ parse'.root = 0 /\ phase' = "parse" /\ fault' = "none"
    BY <1>1, <1>2, BodyEnded
<1>4. Going /\ InStep /\ WellRead
    BY <1>1, <1>2, BodyOfDelimiter
<1>5. Typing' = Typing
    BY <1>1 DEF Typing
<1>6. line'.null = TRUE
    BY <1>1 DEF Inv, Shapes
<1>7. WellRead'
    BY <1>1, <1>4, <1>5 DEF WellRead
<1>8. InStep'
    BY <1>1, <1>3, <1>4, <1>5, <1>6 DEF InStep
<1>9. QED
    BY <1>1, <1>3, <1>7, <1>8 DEF Written

\* In a body, the line that is typed is read as one, and so is its delimiter.
LEMMA BodyRead ==
    ASSUME Inv, Written, Reading, line.whole = FALSE, line.null = FALSE
    PROVE  /\ Typing.reading /\ Typing.due # << >> /\ Typing.due[1] = Delimiter
           /\ Len(Typing.due) = Rank(tokens, Len(tokens)) - Done
           /\ Len(Typing.bodies) = Rank(tokens, Len(tokens))
           /\ EndsInNewline(tokens) /\ Delimiter # "nl"
<1>1. /\ Going /\ InStep /\ WellRead
      /\ Len(docs) \in Nat /\ Len(docs) >= 1 /\ Len(docs) = Rank(tokens, Consumed)
      /\ Consumed \in Heres(tokens, Len(tokens)) /\ Delimiter = tokens[Consumed]
      /\ Len(docs) <= Rank(tokens, Len(tokens)) /\ Rank(tokens, Len(tokens)) \in Nat
      /\ Done = Len(docs) - 1
    BY BodyOfDelimiter
<1>2. phase = "parse" /\ "HERE_BODY" \in parse.flags
    BY InBody
<1>3. EndsInNewline(tokens)
    BY <1>2 DEF Inv, Lines
<1>4. DueAfter(Typing, tokens, Done)
    BY <1>1 DEF InStep
<1>5. Typing.due # << >>
    <2>1. Len(Typing.due) >= 1
        BY <1>1, <1>4 DEF DueAfter
    <2>2. Len(<< >>) = 0
        OBVIOUS
    <2>3. QED
        BY <2>1, <2>2
<1>6. Typing.due[1] = Delimiter
    <2>1. PICK c, d : c = Consumed /\ d = Done
        OBVIOUS
    <2>2. c \in Heres(tokens, Len(tokens)) /\ Rank(tokens, c) > d /\ Rank(tokens, c) - d = 1
        BY <1>1, <2>1
    <2>3. Typing.due[Rank(tokens, c) - d] = tokens[c]
        BY <1>4, <2>1, <2>2 DEF DueAfter
    <2>4. QED
        BY <1>1, <2>1, <2>2, <2>3
<1>7. Delimiter # "nl"
    BY <1>1, ClassesKnown DEF Heres
<1>8. QED
    BY <1>1, <1>3, <1>4, <1>5, <1>6, <1>7 DEF DueAfter, InStep, BodiesIn

\* The first of what is due has been read.
LEMMA DueShorter ==
    ASSUME NEW a \in Readings, NEW ts, Len(ts) \in Nat, NEW d \in Nat, DueAfter(a, ts, d),
           EndsInNewline(ts), a.due # << >>, NEW b, b.due = Tail(a.due),
           b.reading = (Len(a.due) > 1)
    PROVE  DueAfter(b, ts, d + 1)
<1>1. PICK p, q : p = a.due /\ q = b.due
    OBVIOUS
<1>2. p \in Seq(Texts) /\ p # << >> /\ q = Tail(p)
    BY <1>1 DEF Readings
<1>3. /\ Len(p) \in Nat /\ Len(p) >= 1 /\ Len(q) = Len(p) - 1 /\ q \in Seq(Texts)
      /\ \A i \in 1 .. Len(p) - 1 : q[i] = p[i + 1]
    BY <1>2
<1>4. PICK n \in Nat, r \in Nat : n = Len(ts) /\ r = Rank(ts, n)
    BY RankIs
<1>5. Len(p) = r - d
    BY <1>1, <1>4 DEF DueAfter
<1>6. ASSUME NEW i \in Heres(ts, n), Rank(ts, i) > d + 1
      PROVE  q[Rank(ts, i) - (d + 1)] = ts[i]
    <2>1. PICK k : k = Rank(ts, i)
        OBVIOUS
    <2>2. k \in Nat /\ k <= r
        BY <1>4, <2>1, RankOf
    <2>3. p[k - d] = ts[i]
        <3>1. \A j \in Heres(ts, n) : Rank(ts, j) > d => p[Rank(ts, j) - d] = ts[j]
            BY <1>1, <1>4 DEF DueAfter
        <3>2. k > d
            BY <1>6, <2>1, <2>2
        <3>3. QED
            BY <2>1, <3>1, <3>2
    <2>4. k - (d + 1) \in 1 .. Len(p) - 1 /\ (k - (d + 1)) + 1 = k - d
        BY <1>5, <1>6, <2>1, <2>2
    <2>5. QED
        BY <1>3, <2>1, <2>3, <2>4
<1>7. (q # << >>) <=> Len(p) > 1
    <2>1. \A s \in Seq(Texts) : Len(s) = 0 <=> s = << >>
        OBVIOUS
    <2>2. QED
        BY <1>3, <2>1
<1>8. b.reading <=> (q # << >> /\ EndsInNewline(ts))
    BY <1>1, <1>7
<1>9. Len(q) = r - (d + 1)
    BY <1>3, <1>5
<1>10. QED
    BY <1>1, <1>4, <1>6, <1>8, <1>9 DEF DueAfter

\* The delimiter ends a body.
LEMMA DelimiterLineWritten ==
    ASSUME Inv, Written, DelimiterLine
    PROVE  Written'
<1>1. /\ Reading /\ EndBody(body.fd) /\ Types(<<Delimiter, "nl">>) /\ line.null = FALSE
      /\ UNCHANGED <<tokens, stack, docs, open, ran, phase, fault>>
    BY DEF DelimiterLine, Inv, Shapes
<1>2. line.whole = FALSE
    BY <1>1 DEF Types, MayGrow, Inv, Shapes
<1>3. /\ Followed' /\ Counted' /\ Owned' /\ Done' = Len(docs)
      /\ parse'.root = 0 /\ phase' = "parse" /\ fault' = "none"
    BY <1>1, <1>2, BodyEnded
<1>4. /\ Going /\ InStep /\ WellRead /\ Len(docs) \in Nat /\ Len(docs) >= 1
      /\ Done = Len(docs) - 1
    BY <1>1, <1>2, BodyOfDelimiter
<1>5. PICK w \in Texts : w = Delimiter
    BY <1>1, InBody
<1>6. PICK a, b : a = Typing /\ b = Typing'
    OBVIOUS
<1>7. /\ a.reading /\ a.due # << >> /\ a.due[1] = w /\ EndsInNewline(tokens) /\ w # "nl"
    BY <1>1, <1>2, <1>5, <1>6, BodyRead
<1>8. a \in Readings /\ a.tokens = tokens /\ a.line = << >>
    BY <1>4, <1>6 DEF WellRead
<1>9. /\ "nl" \in Texts /\ input' \in Seq(Texts) /\ b = ReadToken(ReadToken(a, w), "nl")
    BY <1>1, <1>5, <1>6, LineRead
<1>10. /\ b \in Readings /\ b.tokens = a.tokens /\ b.line = << >> /\ b.bodies = a.bodies
       /\ b.due = Tail(a.due) /\ b.reading = (Len(a.due) > 1)
    BY <1>7, <1>8, <1>9, DelimiterRead
<1>11. WellRead'
    BY <1>1, <1>6, <1>8, <1>10 DEF WellRead
<1>12. BodiesIn(b.bodies, tokens', docs')
    BY <1>1, <1>4, <1>6, <1>10 DEF InStep
<1>13. DueAfter(b, tokens', Done')
    <2>1. PICK d \in Nat : d = Done /\ d + 1 = Len(docs)
        BY <1>4
    <2>2. DueAfter(a, tokens, d)
        BY <1>1, <1>4, <1>6, <2>1 DEF InStep
    <2>3. Len(tokens) \in Nat
        BY DEF Inv, Shapes
    <2>4. DueAfter(b, tokens, d + 1)
        BY <1>7, <1>8, <1>10, <2>2, <2>3, DueShorter
    <2>5. QED
        BY <1>1, <1>3, <2>1, <2>4
<1>14. InStep'
    BY <1>3, <1>6, <1>12, <1>13 DEF InStep
<1>15. QED
    BY <1>3, <1>9, <1>11, <1>14 DEF Written

\* A line goes to the body that is being read.
LEMMA BodyLineWritten ==
    ASSUME Inv, Written, NEW w \in Delims, BodyLine(w)
    PROVE  Written'
<1>1. /\ Reading /\ w # Delimiter /\ Types(<<w, "nl">>) /\ line.null = FALSE
      /\ docs' = [docs EXCEPT ![Len(docs)].lines = Append(@, <<w>>)]
      /\ UNCHANGED <<tokens, parse, stack, nodes, body, open, ran, phase, fault>>
    BY DEF BodyLine, Inv, Shapes
<1>2. line.whole = FALSE
    BY <1>1 DEF Types, MayGrow, Inv, Shapes
<1>3. /\ Going /\ InStep /\ WellRead
      /\ Len(docs) \in Nat /\ Len(docs) >= 1 /\ Len(docs) = Rank(tokens, Consumed)
      /\ Len(docs) <= Rank(tokens, Len(tokens)) /\ Rank(tokens, Len(tokens)) \in Nat
      /\ Done = Len(docs) - 1 /\ ~Unmade
    BY <1>1, <1>2, BodyOfDelimiter
<1>4. /\ phase = "parse" /\ fault = "none" /\ parse.root = 0 /\ body.on = TRUE
    BY <1>1, InBody
<1>5. w \in Texts /\ w # "nl"
    BY ParserAssumption DEF Texts, Operators
<1>6. PICK a, b : a = Typing /\ b = Typing'
    OBVIOUS
<1>7. /\ a.reading /\ a.due # << >> /\ a.due[1] = Delimiter
      /\ Len(a.due) = Rank(tokens, Len(tokens)) - Done
      /\ Len(a.bodies) = Rank(tokens, Len(tokens))
    BY <1>1, <1>2, <1>6, BodyRead
<1>8. a \in Readings /\ a.tokens = tokens /\ a.line = << >>
    BY <1>3, <1>6 DEF WellRead
<1>9. /\ "nl" \in Texts /\ input' \in Seq(Texts) /\ b = ReadToken(ReadToken(a, w), "nl")
    BY <1>1, <1>5, <1>6, LineRead
<1>10. PICK k \in Nat : k = Len(docs)
    BY <1>3
<1>11. k \in 1 .. Len(a.bodies) /\ k = Len(a.bodies) + 1 - Len(a.due)
    BY <1>3, <1>7, <1>10
<1>12. /\ b \in Readings /\ b.tokens = a.tokens /\ b.line = << >> /\ b.due = a.due
       /\ b.reading = a.reading /\ Len(b.bodies) = Len(a.bodies)
       /\ \A i \in 1 .. Len(a.bodies) :
                b.bodies[i] = IF i = k THEN Append(a.bodies[i], <<w>>) ELSE a.bodies[i]
    BY <1>1, <1>5, <1>7, <1>8, <1>9, <1>11, BodyLineRead
<1>13. PICK es : es = docs'
    OBVIOUS
<1>14. /\ Len(es) = k
       /\ \A i \in 1 .. k : /\ es[i].opened = docs[i].opened
                            /\ es[i].lines = IF i = k THEN Append(docs[i].lines, <<w>>)
                                             ELSE docs[i].lines
    <2>1. PICK D : D = [lines : Seq(Seq(Delims)), opened : BOOLEAN]
        OBVIOUS
    <2>2. docs \in Seq(D)
        BY <2>1 DEF Inv, Shapes
    <2>3. es = [docs EXCEPT ![k].lines = Append(docs[k].lines, <<w>>)]
        BY <1>1, <1>10, <1>13
    <2>4. k \in 1 .. Len(docs)
        BY <1>3, <1>10
    <2>5. docs[k] \in D
        BY <2>2, <2>4
    <2>6. PICK l : l = Append(docs[k].lines, <<w>>)
        OBVIOUS
    <2>7. PICK y : y = [docs[k] EXCEPT !.lines = l]
        OBVIOUS
    <2>8. y.lines = l /\ y.opened = docs[k].opened
        BY <2>1, <2>5, <2>7
    <2>9. es = [docs EXCEPT ![k] = y]
        BY <2>3, <2>6, <2>7
    <2>10. Len(es) = k /\ \A i \in 1 .. k : es[i] = IF i = k THEN y ELSE docs[i]
        BY <1>10, <2>2, <2>4, <2>9
    <2>11. QED
        BY <2>6, <2>8, <2>10
<1>15. WellRead'
    BY <1>1, <1>6, <1>8, <1>12 DEF WellRead
<1>16. PutAside' = PutAside /\ Consumed' = Consumed /\ (Unmade' <=> Unmade)
    BY <1>1 DEF PutAside, Consumed, Top, Unmade
<1>17. Followed'
    BY <1>1, <1>3, <1>16 DEF InStep, Followed
<1>18. Counted'
    <2>1. Len(docs') = Len(docs)
        BY <1>10, <1>13, <1>14
    <2>2. QED
        BY <1>1, <1>3, <1>16, <2>1 DEF InStep, Counted
<1>19. Owned'
    <2>1. PICK c \in Nat : c = Consumed
        BY <1>4, ConsumedIs
    <2>2. OwnedBy(nodes, tokens, docs, c) /\ body.fd = FdOf(docs, k)
        BY <1>3, <1>4, <1>10, <2>1 DEF InStep, Owned
    <2>3. OwnedBy(nodes, tokens, es, c)
        BY <1>10, <1>14, <2>2, OwnedOn
    <2>4. FdOf(es, k) = FdOf(docs, k)
        BY <1>3, <1>10, <1>14 DEF FdOf
    <2>5. QED
        BY <1>1, <1>13, <1>14, <1>16, <2>1, <2>2, <2>3, <2>4 DEF Owned
<1>20. BodiesIn(b.bodies, tokens, es)
    <2>1. BodiesIn(a.bodies, tokens, docs)
        BY <1>3, <1>6 DEF InStep
    <2>2. PICK n \in Nat : n = Len(a.bodies)
        BY <1>3, <1>7
    <2>3. ASSUME NEW i \in 1 .. n
          PROVE  b.bodies[i] = IF i <= Len(es) THEN es[i].lines ELSE << >>
        <3>1. a.bodies[i] = IF i <= k THEN docs[i].lines ELSE << >>
            BY <1>10, <2>1, <2>2 DEF BodiesIn
        <3>2. b.bodies[i] = IF i = k THEN Append(a.bodies[i], <<w>>) ELSE a.bodies[i]
            BY <1>12, <2>2
        <3>3. CASE i <= k
            BY <1>14, <3>1, <3>2, <3>3
        <3>4. CASE i > k
            BY <1>14, <3>1, <3>2, <3>4
        <3>5. QED
            BY <3>3, <3>4
    <2>4. QED
        BY <1>12, <2>1, <2>2, <2>3 DEF BodiesIn
<1>21. DueAfter(b, tokens, Done')
    <2>1. Done' = Done
        BY <1>1, <1>10, <1>13, <1>14 DEF Done
    <2>2. DueAfter(a, tokens, Done)
        BY <1>1, <1>3, <1>6 DEF InStep
    <2>3. QED
        BY <1>12, <2>1, <2>2 DEF DueAfter
<1>22. InStep'
    BY <1>1, <1>6, <1>13, <1>17, <1>18, <1>19, <1>20, <1>21 DEF InStep
<1>23. QED
    BY <1>1, <1>4, <1>9, <1>15, <1>22 DEF Written

--------------------------------------------------------------------------------
(* The automaton                                                                 *)

\* The states in which an operator << and its delimiter are taken.
LEMMA HereStates ==
    ASSUME NEW s, NEW t, NEW x, Leads(s, t, x)
    PROVE  /\ s = 10 /\ x \in Terminals => t = 27
           /\ t = 27 => s = 10
           /\ (t = 10) <=> (x = "DLESS")
<1>1. t \in States /\ s \in Below[t] /\ Entry[t] = x
    BY DEF Leads
<1>2. s = 10 => t \in {27, 28}
    BY <1>1, SMTT(60) DEF States, Below, Table, CommandStarts, RedirStarts, BreakStarts
<1>3. t = 28 => x = "here_end"
    BY Landmarks
<1>4. "here_end" \notin Terminals
    BY DEF Terminals, Symbols, SymbolType
<1>5. t = 27 => s = 10
    BY <1>1 DEF Below, Table
<1>6. t = 10 => x = "DLESS"
    BY <1>1 DEF Entry, Table
<1>7. x = "DLESS" => t = 10
    BY <1>1, SMTT(60) DEF States, Entry, Table
<1>8. QED
    BY <1>2, <1>3, <1>4, <1>5, <1>6, <1>7

\* The class of a << is its own.
LEMMA OperatorIs == \A t : (ClassifyToken(t) = "DLESS") <=> (t = "<<")
BY DEF ClassifyToken

\* A token is shifted.
LEMMA ShiftWritten ==
    ASSUME Inv, Written, Shift, Decision # YyFinal
    PROVE  Written'
<1>0. Deciding /\ Decision > 0
    BY DEF Shift
<1>1. /\ fault = "none" /\ parse.root = 0 /\ ~PutAside /\ phase # "over" /\ body.on = FALSE
      /\ parse.look \in Terminals
    BY <1>0, DecidingIs
<1>2. PICK s, x : s = Decision /\ x = parse.look
    OBVIOUS
<1>3. Leads(parse.state, s, x) /\ x # "EOF"
    <2>1. Leads(parse.state, s, x)
        BY <1>0, <1>2, DecidingIs
    <2>2. QED
        BY <1>2, <2>1, Landmarks DEF YyFinal
<1>4. phase = "parse" /\ "HAS_LOOKAHEAD" \in parse.flags /\ "SAVE_TOKENS" \notin parse.flags
    BY <1>0, <1>2, <1>3, DecidingIs
<1>5. PICK k \in Nat : parse.tok = k + 1
    <2>1. parse.tok \in Nat /\ parse.tok >= 1
        BY <1>4 DEF Inv, Shapes, Flow
    <2>2. parse.tok - 1 \in Nat /\ parse.tok = (parse.tok - 1) + 1
        BY <2>1
    <2>3. QED
        BY <2>2
<1>6. k + 1 \in 1 .. Len(tokens) /\ ClassifyToken(tokens[k + 1]) = x /\ Len(tokens) \in Nat
    BY <1>2, <1>4, <1>5 DEF Inv, Flow, Shapes
<1>7. /\ line' = line /\ input' = input /\ tokens' = tokens /\ nodes' = nodes
      /\ body' = body /\ docs' = docs /\ phase' = phase /\ fault' = fault
      /\ parse'.state = s /\ parse'.root = 0 /\ parse'.tok = k + 1
      /\ parse'.flags = parse.flags \ {"HAS_LOOKAHEAD"}
    BY <1>1, <1>2, <1>5 DEF Shift, heredoc, reader, Inv, Shapes
<1>8. ~PutAside'
    BY <1>1, <1>4, <1>7 DEF PutAside
<1>9. Consumed = k /\ Consumed' = k + 1
    BY <1>1, <1>4, <1>5, <1>7, <1>8 DEF Consumed
<1>10. Going' => Going
    BY <1>7 DEF Going, Unended
<1>11. Typing' = Typing /\ Done' = Done
    BY <1>7 DEF Typing, Done
<1>12. WellRead' \/ ~Going'
    BY <1>7, <1>10, <1>11 DEF Written, WellRead
<1>13. ASSUME Going PROVE InStep'
    <2>1. InStep
        BY <1>1, <1>13 DEF Written
    <2>2. /\ \A i \in 2 .. k : tokens[i - 1] = "<<" => ClassifyToken(tokens[i]) = "WORD"
          /\ k >= 1 /\ tokens[k] = "<<" => parse.state = 10
        BY <1>9, <2>1 DEF InStep, Followed
    <2>3. parse.state = 10 => k >= 1 /\ tokens[k] = "<<"
        <3>1. HAVE parse.state = 10
        <3>2. parse.state = Top.state /\ Leads(Under(stack, Len(stack) - 1), Top.state, Top.type)
            BY <1>1, <3>1, TopState
        <3>3. Top.type = "DLESS" /\ stack # << >>
            BY <1>1, <3>1, <3>2, HereStates, TopState
        <3>4. "DLESS" \in Terminals /\ "DLESS" \notin {"linebreak", "program"}
            BY DEF Terminals, Symbols, SymbolType
        <3>5. Top.token = k /\ Top.token >= 1 /\ ClassifyToken(tokens[Top.token]) = "DLESS"
            BY <1>1, <1>9, <3>3, <3>4 DEF Inv, Ends
        <3>6. QED
            BY <3>5, OperatorIs
    <2>4. parse.state = 10 => s = 27 /\ x = "WORD"
        <3>1. HAVE parse.state = 10
        <3>2. s = 27
            BY <1>1, <1>2, <1>3, <3>1, HereStates
        <3>3. QED
            BY <1>3, <3>2, Landmarks
    <2>5. s = 27 => parse.state = 10
        BY <1>3, HereStates
    <2>6. s # 28
        <3>1. "here_end" \notin Terminals
            BY DEF Terminals, Symbols, SymbolType
        <3>2. QED
            BY <1>1, <1>2, <1>3, <3>1, Landmarks
    <2>7. (k + 1 \in Heres(tokens, k + 1)) <=> s = 27
        <3>1. k + 1 \in Heres(tokens, k + 1) => k >= 1 /\ tokens[k] = "<<"
            BY DEF Heres
        <3>2. k >= 1 /\ tokens[k] = "<<" /\ x = "WORD" => k + 1 \in Heres(tokens, k + 1)
            BY <1>6 DEF Heres
        <3>3. QED
            BY <2>2, <2>3, <2>4, <2>5, <3>1, <3>2
    <2>8. Followed'
        <3>1. \A i \in 2 .. k + 1 : tokens[i - 1] = "<<" => ClassifyToken(tokens[i]) = "WORD"
            <4>1. ASSUME NEW i \in 2 .. k + 1, tokens[i - 1] = "<<"
                  PROVE  ClassifyToken(tokens[i]) = "WORD"
                <5>1. CASE i \in 2 .. k
                    BY <2>2, <4>1, <5>1
                <5>2. CASE i = k + 1
                    <6>1. k >= 1 /\ tokens[k] = "<<"
                        BY <4>1, <5>2
                    <6>2. QED
                        BY <1>6, <2>2, <2>4, <5>2, <6>1
                <5>3. QED
                    BY <5>1, <5>2
            <4>2. QED
                BY <4>1
        <3>2. tokens[k + 1] = "<<" => s = 10
            <4>1. HAVE tokens[k + 1] = "<<"
            <4>2. x = "DLESS"
                BY <1>6, <4>1, OperatorIs
            <4>3. QED
                BY <1>3, <4>2, HereStates
        <3>3. s \in {27, 28} => k + 1 \in Heres(tokens, Len(tokens))
            <4>1. Heres(tokens, k + 1) \subseteq Heres(tokens, Len(tokens))
                BY <1>6, RankGrows
            <4>2. QED
                BY <2>6, <2>7, <4>1
        <3>4. QED
            BY <1>7, <1>8, <1>9, <3>1, <3>2, <3>3 DEF Followed
    <2>9. Counted'
        <3>1. ~Unmade
            <4>1. parse.state \notin {27, 28}
                BY <1>3, Landmarks
            <4>2. QED
                BY <1>1, <4>1 DEF Unmade
        <3>2. Unmade' <=> s = 27
            BY <1>7, <1>8, <2>6 DEF Unmade
        <3>3. Rank(tokens, k + 1) = Rank(tokens, k) + (IF s = 27 THEN 1 ELSE 0)
            BY <2>7, RankStep
        <3>4. Len(docs) = Rank(tokens, k) /\ Len(docs) \in Nat
            BY <1>9, <2>1, <3>1 DEF InStep, Counted, Inv, Shapes
        <3>5. QED
            BY <1>7, <1>9, <3>2, <3>3, <3>4 DEF Counted
    <2>10. Owned'
        <3>1. OwnedBy(nodes, tokens, docs, k)
            BY <1>9, <2>1 DEF InStep, Owned
        <3>2. Heres(tokens, k) \subseteq Heres(tokens, k + 1)
            BY RankGrows
        <3>3. OwnedBy(nodes, tokens, docs, k + 1)
            BY <3>1, <3>2 DEF OwnedBy
        <3>4. QED
            BY <1>1, <1>7, <1>9, <3>3 DEF Owned
    <2>11. BodiesIn(Typing.bodies, tokens, docs)'
        BY <1>7, <1>11, <2>1 DEF InStep
    <2>12. line'.null \/ DueAfter(Typing, tokens, Done)'
        BY <1>7, <1>11, <2>1 DEF InStep
    <2>13. QED
        BY <2>8, <2>9, <2>10, <2>11, <2>12 DEF InStep
<1>14. QED
    BY <1>7, <1>10, <1>12, <1>13 DEF Written

\* check_and_run_pending_exec.
LEMMA RunPendingWritten ==
    ASSUME Inv, Written, RunPending
    PROVE  Written'
<1>1. /\ phase # "over" /\ ~PutAside /\ body.on = FALSE /\ fault = "none"
    BY CompleteAlone DEF RunPending
<1>2. /\ line' = line /\ input' = input /\ tokens' = tokens /\ body' = body /\ docs' = docs
      /\ phase' = phase /\ fault' = fault /\ nodes' = << >>
      /\ parse'.state = parse.state /\ parse'.root = 0 /\ parse'.tok = parse.tok
      /\ parse'.flags = parse.flags
    BY DEF RunPending, reader, Inv, Shapes
<1>3. ~PutAside'
    BY <1>1, <1>2 DEF PutAside
<1>4. Consumed' = Consumed
    BY <1>1, <1>2, <1>3 DEF Consumed
<1>5. Unmade' <=> Unmade
    BY <1>1, <1>2, <1>3 DEF Unmade
<1>6. Going' => Going
    BY <1>2 DEF Going, Unended
<1>7. Going => Followed'
    <2>1. HAVE Going
    <2>2. Followed
        BY <1>1, <2>1 DEF Written, InStep
    <2>3. QED
        BY <1>1, <1>2, <1>3, <1>4, <2>2 DEF Followed
<1>8. HereNodes(nodes') = {}
    BY <1>2 DEF HereNodes
<1>9. Owned'
    BY <1>1, <1>2, <1>8 DEF Owned, OwnedBy
<1>10. QED
    BY <1>1, <1>2, <1>4, <1>5, <1>6, <1>7, <1>9, Unmoved

\* What a reduction that makes no node of a here-document leaves.
LEMMA OtherReduction ==
    ASSUME Inv, ReduceStep, NEW r, NEW m, NEW rhs, NEW e, NEW res,
           Reducing(r, m, rhs, e, res), Reduced(r, m, rhs, e, res), r # 40
    PROVE  /\ Turned(nodes, nodes', Len(tokens), Len(docs))
           /\ Leads(Under(stack, m), e.state, Rules[r].lhs)
           /\ parse'.state = e.state /\ parse'.tok = parse.tok /\ parse'.flags = parse.flags
           /\ phase' = phase /\ fault' = fault /\ body' = body
           /\ (r = 41 => parse.state = 27)
           /\ (parse.state = 27 => r = 41)
           /\ parse.state # 28 /\ parse.state # 10
           /\ (Rules[r].lhs = "here_end") <=> (r = 41)
           /\ Rules[r].lhs \notin Terminals
<1>0. Deciding
    BY DEF ReduceStep
<1>1. /\ parse.root = 0 /\ parse.state = Under(stack, Len(stack)) /\ parse.state \in States \ {5}
    BY <1>0, DecidingIs
<1>2. /\ r = YyDefAct[parse.state] /\ r \in 2 .. 45 /\ RuleKnown(r)
      /\ m \in Nat /\ m <= Len(stack) /\ Len(stack) = m + Len(Rhs[r])
      /\ Borne(nodes, Len(tokens), rhs, Rhs[r])
      /\ Len(Rhs[r]) > 0 => rhs[Len(Rhs[r])] = Top
      /\ res = Reduce(nodes, Rules[r], rhs)
    BY DEF Reducing
<1>3. PICK t \in Nat, d \in Nat : t = Len(tokens) /\ d = Len(docs)
    BY DEF Inv, Shapes
<1>4. PICK x, w, n : x = Rules[r].lhs /\ w = Rhs[r] /\ n = Len(Rhs[r])
    OBVIOUS
<1>5. /\ n \in 0 .. 4 /\ x \in Symbols \ Terminals /\ ((x = "here_end") <=> (r = 41))
      /\ x = "complete_commands" => n > 0 /\ w[n] = "and_or"
    BY <1>2, <1>4 DEF RuleKnown
<1>6. Arena(nodes, t, d)
    BY <1>3 DEF Inv, Bear
<1>7. Kept(nodes, t, d, res, x)
    BY <1>2, <1>3, <1>4, <1>6, RuleKept
<1>8. PICK ms : ms = res.nodes /\ ms = nodes'
    BY DEF Reduced
<1>9. Turned(nodes, ms, t, d)
    BY <1>7, <1>8 DEF Kept
<1>10. Len(nodes) \in Nat /\ Len(ms) \in Nat
    BY <1>6, <1>9, SameDocuments
<1>11. res.node \in Nat
    <2>1. IF x = "complete_commands" THEN res.node \in 1 .. Len(ms) ELSE Carries(ms, x, res.node)
        BY <1>7, <1>8 DEF Kept
    <2>2. QED
        BY <1>10, <2>1 DEF Carries
<1>12. x = "complete_commands" => Top.node \in Nat
    <2>1. HAVE x = "complete_commands"
    <2>2. n > 0 /\ w[n] = "and_or" /\ n \in 1 .. n
        BY <1>5, <2>1
    <2>3. rhs[n] = Top /\ Carries(nodes, "and_or", Top.node)
        BY <1>2, <1>4, <2>2 DEF Borne
    <2>4. Top.node \in 1 .. Len(nodes)
        BY <2>3 DEF Carries, Bearing, Pipelines
    <2>5. QED
        BY <1>10, <2>4
<1>13. e.type = x /\ Leads(Under(stack, m), e.state, e.type) /\ e.state \in States
    BY <1>4, <1>11, ReducedStack
<1>14. /\ parse'.state = e.state /\ parse'.tok = parse.tok /\ parse'.flags = parse.flags
       /\ phase' = phase /\ fault' = fault /\ body' = body
    BY <1>4, <1>12, <1>13, ReducedParse
<1>15. PICK s \in States \ {YyFinal} : s = parse.state
    BY <1>1 DEF YyFinal
<1>16. YyDefAct[s] = r /\ r # 0
    <2>1. r = YyDefAct[parse.state]
        BY <1>2
    <2>2. YyDefAct[s] = r
        BY <1>15, <2>1
    <2>3. r \in 2 .. 45
        BY <1>2
    <2>4. \A k \in 2 .. 45 : k # 0
        OBVIOUS
    <2>5. r # 0
        BY ONLY <2>3, <2>4
    <2>6. QED
        BY <2>2, <2>5
<1>17. r = 41 => s = 27
    BY <1>15, <1>16, RuleOf
<1>18. YyDefAct[27] = 41 /\ YyDefAct[28] = 40 /\ YyDefAct[10] = 0
    BY DEF YyDefAct, Table
<1>19. (s = 27 => r = 41) /\ s # 28 /\ s # 10
    BY <1>16, <1>18
<1>20. QED
    BY <1>3, <1>4, <1>5, <1>8, <1>9, <1>13, <1>14, <1>15, <1>17, <1>19

\* A reduction that makes no node of a here-document.
LEMMA OtherReductionWritten ==
    ASSUME Inv, Written, ReduceStep, NEW r, NEW m, NEW rhs, NEW e, NEW res,
           Reducing(r, m, rhs, e, res), Reduced(r, m, rhs, e, res), r # 40
    PROVE  Written'
<1>1. /\ fault = "none" /\ ~PutAside /\ phase # "over" /\ body.on = FALSE
    BY DecidingIs DEF ReduceStep
<1>2. PICK x, u : x = Rules[r].lhs /\ u = Under(stack, m)
    OBVIOUS
<1>3. /\ Leads(u, e.state, x)
      /\ parse'.state = e.state /\ parse'.tok = parse.tok /\ parse'.flags = parse.flags
      /\ phase' = phase /\ fault' = fault /\ body' = body
      /\ (r = 41 => parse.state = 27) /\ (parse.state = 27 => r = 41)
      /\ parse.state # 28 /\ parse.state # 10 /\ ((x = "here_end") <=> (r = 41))
      /\ x \notin Terminals
    BY <1>2, OtherReduction
<1>4. line' = line /\ input' = input /\ tokens' = tokens /\ docs' = docs
    BY DEF ReduceStep, reader, heredoc
<1>5. ~PutAside'
    BY <1>1, <1>3 DEF PutAside
<1>6. Consumed' = Consumed
    BY <1>1, <1>3, <1>5 DEF Consumed
<1>7. e.state \in {27, 28} <=> parse.state \in {27, 28}
    <2>1. e.state # 27
        <3>1. "WORD" \in Terminals
            BY DEF Terminals, Symbols, SymbolType
        <3>2. QED
            BY <1>3, <3>1, Landmarks
    <2>2. (e.state = 28) <=> (x = "here_end")
        BY <1>3, Landmarks
    <2>3. QED
        BY <1>3, <2>1, <2>2
<1>8. Unmade' <=> Unmade
    BY <1>1, <1>3, <1>5, <1>7 DEF Unmade
<1>9. Going' => Going
    BY <1>3, <1>4 DEF Going, Unended
<1>10. ASSUME Going PROVE Followed' /\ Owned'
    <2>1. InStep
        BY <1>1, <1>10 DEF Written
    <2>2. Followed'
        BY <1>1, <1>3, <1>4, <1>5, <1>6, <1>7, <2>1 DEF InStep, Followed
    <2>3. OwnedBy(nodes, tokens, docs, Consumed)'
        <3>0. PICK ns, ms : ns = nodes /\ ms = nodes'
            OBVIOUS
        <3>1. PICK t \in Nat, d \in Nat : t = Len(tokens) /\ d = Len(docs)
            BY DEF Inv, Shapes
        <3>2. Arena(ns, t, d) /\ Turned(ns, ms, t, d)
            BY <3>0, <3>1, OtherReduction DEF Inv, Bear
        <3>3. HereNodes(ms) = HereNodes(ns)
            BY <3>2, SameDocuments
        <3>4. \A i \in HereNodes(ns) : ms[i].token = ns[i].token /\ ms[i].fd = ns[i].fd
            <4>1. DOMAIN ns = 1 .. Len(ns)
                BY <3>2 DEF Arena
            <4>2. QED
                BY <3>2, <4>1 DEF Turned, Grows, HereNodes
        <3>5. PICK c : c = Consumed
            OBVIOUS
        <3>6. OwnedBy(ns, tokens, docs, c)
            BY <2>1, <3>0, <3>5 DEF InStep, Owned
        <3>7. OwnedBy(ms, tokens, docs, c)
            BY <3>3, <3>4, <3>6 DEF OwnedBy
        <3>8. QED
            BY <1>4, <1>6, <3>0, <3>5, <3>7
    <2>4. QED
        BY <1>1, <1>3, <2>2, <2>3 DEF Owned
<1>11. QED
    BY <1>1, <1>3, <1>4, <1>6, <1>8, <1>9, <1>10, Unmoved

\* reduce_io_here makes a node whose body is to be read.
LEMMA HereReductionWritten ==
    ASSUME Inv, Written, ReduceStep, NEW m, NEW rhs, NEW e, NEW res,
           Reducing(40, m, rhs, e, res), Reduced(40, m, rhs, e, res)
    PROVE  Written'
<1>0. Deciding
    BY DEF ReduceStep
<1>1. /\ fault = "none" /\ parse.root = 0 /\ ~PutAside /\ phase # "over"
      /\ body.on = FALSE
      /\ parse.state = Under(stack, Len(stack)) /\ parse.state \in States \ {5}
      /\ phase = "final" => "HAS_LOOKAHEAD" \notin parse.flags /\ parse.look = "EOF"
      /\ phase = "parse" \/ phase = "final"
    BY <1>0, DecidingIs
<1>2. /\ 40 = YyDefAct[parse.state]
      /\ m \in Nat /\ m <= Len(stack) /\ Len(stack) = m + Len(Rhs[40])
      /\ Borne(nodes, Len(tokens), rhs, Rhs[40])
      /\ Len(Rhs[40]) > 0 => rhs[Len(Rhs[40])] = Top
      /\ res = Reduce(nodes, Rules[40], rhs)
    BY DEF Reducing
<1>3. PICK t \in Nat, d \in Nat : t = Len(tokens) /\ d = Len(docs)
    BY DEF Inv, Shapes
<1>4. /\ Rules[40].handler = "io_here" /\ Rules[40].lhs = "io_here"
      /\ Len(Rhs[40]) = 2 /\ Rhs[40][2] = "here_end"
    BY Rules40To45 DEF Shape, Rule
<1>5. parse.state = 28
    <2>1. parse.state \in States \ {YyFinal} /\ YyDefAct[parse.state] # 0
        BY <1>1, <1>2 DEF YyFinal
    <2>2. PICK s \in States \ {YyFinal} : s = parse.state
        BY <2>1
    <2>3. YyDefAct[s] = 40
        BY <1>2, <2>2
    <2>4. s = 28
        BY <2>2, <2>3, RuleOf
    <2>5. QED
        BY <2>2, <2>4
<1>6. rhs[2] = Top /\ Top.type = "here_end" /\ Top.token \in 0 .. t /\ stack # << >>
    <2>1. 2 \in 1 .. Len(Rhs[40]) /\ rhs[2] = Top
        BY <1>2, <1>4
    <2>2. Len(stack) > 0
        BY <1>2, <1>4
    <2>3. stack # << >>
        BY <2>2
    <2>4. QED
        BY <1>2, <1>3, <1>4, <2>1, <2>3 DEF Borne
<1>7. Top.token = Consumed
    BY <1>1, <1>6 DEF Inv, Ends
<1>8. Arena(nodes, t, d)
    BY <1>3 DEF Inv, Bear
<1>9. PICK L \in Nat : L = Len(nodes)
    BY <1>8 DEF Arena
<1>10. PICK ms : ms = res.nodes /\ ms = nodes'
    BY DEF Reduced
<1>11. /\ Arena(ms, t, d) /\ Len(ms) = L + 1 /\ res.node = L + 1
       /\ \A i \in 1 .. L : ms[i] = nodes[i]
       /\ ms[L + 1].fd = 0 /\ ms[L + 1].token = Top.token
    <2>1. res = ReduceIoHere(nodes, rhs)
        BY <1>2, <1>4, Handlers
    <2>2. rhs[2].token \in 0 .. t
        BY <1>6
    <2>3. /\ Arena(ReduceIoHere(nodes, rhs).nodes, t, d)
          /\ Len(ReduceIoHere(nodes, rhs).nodes) = Len(nodes) + 1
          /\ ReduceIoHere(nodes, rhs).node = Len(nodes) + 1
        BY <1>8, <2>2, IoHereIs
    <2>4. \A i \in 1 .. Len(nodes) : ReduceIoHere(nodes, rhs).nodes[i] = nodes[i]
        BY <1>8, <2>2, IoHereIs
    <2>5. LET new == ReduceIoHere(nodes, rhs).nodes[Len(nodes) + 1]
          IN /\ new.type = "redir" /\ new.flag = "DLESS" /\ new.fd = 0
             /\ new.token = rhs[2].token
        BY <1>8, <2>2, IoHereIs
    <2>6. QED
        BY <1>6, <1>9, <1>10, <2>1, <2>3, <2>4, <2>5
<1>12. e.token = Top.token /\ Top' = e /\ e.state \notin {27, 28} /\ e.state \in States
    <2>1. res.node \in Nat
        BY <1>11
    <2>2. /\ e.token = (IF Len(Rhs[40]) = 0 THEN parse.tok ELSE Top.token)
          /\ e.type = Rules[40].lhs /\ Leads(Under(stack, m), e.state, e.type) /\ Top' = e
          /\ e.state \in States
        BY <2>1, ReducedStack
    <2>3. /\ e.state = 27 => e.type = "WORD"
          /\ e.state = 28 => e.type = "here_end"
        BY <2>2, Landmarks
    <2>4. QED
        BY <1>4, <2>2, <2>3
<1>13. /\ parse'.state = e.state /\ parse'.tok = parse.tok
       /\ parse'.flags = parse.flags \cup {"SAVE_TOKENS"} /\ parse'.root = 0
       /\ line' = line /\ tokens' = tokens /\ body' = body /\ docs' = docs
       /\ phase' = phase /\ fault' = fault
    <2>1. Rules[40].lhs = "complete_commands" => Top.node \in Nat
        BY <1>4
    <2>2. QED
        BY <1>4, <1>12, <2>1, ReducedParse
<1>14. input' = input
    BY DEF ReduceStep, reader
<1>15. Going' => Going
    BY <1>13 DEF Going, Unended
<1>16. ASSUME Going
       PROVE  /\ Consumed' = Consumed /\ (Unmade' <=> Unmade) /\ Followed' /\ Owned'
    <2>1. InStep
        BY <1>1, <1>16 DEF Written
    <2>2. phase = "parse"
        BY <1>1, <1>5, <1>16 DEF Going, Inv, Documents
    <2>3. PutAside'
        BY <1>13, <2>2 DEF PutAside
    <2>4. Consumed' = Consumed
        BY <1>7, <1>12, <2>3 DEF Consumed
    <2>5. Unmade' /\ Unmade
        BY <1>1, <1>5, <1>13, <2>3 DEF Unmade
    <2>6. Consumed \in Heres(tokens, Len(tokens))
        BY <1>5, <2>1 DEF InStep, Followed
    <2>7. tokens[Consumed] # "<<"
        BY <2>6, OperatorIs DEF Heres
    <2>8. Followed'
        BY <1>13, <2>1, <2>4, <2>6, <2>7 DEF InStep, Followed
    <2>9. PICK c : c = Consumed
        OBVIOUS
    <2>10. OwnedBy(ms, tokens, docs, c)
        <3>1. OwnedBy(nodes, tokens, docs, c)
            BY <2>1, <2>9 DEF InStep, Owned
        <3>2. c \in Heres(tokens, c)
            BY <1>3, <2>6, <2>9, RankOf
        <3>3. DOMAIN nodes = 1 .. L /\ DOMAIN ms = 1 .. L + 1
            BY <1>8, <1>9, <1>11 DEF Arena
        <3>4. ASSUME NEW i \in HereNodes(ms)
              PROVE  /\ ms[i].token \in Heres(tokens, c)
                     /\ ms[i].fd # 0 => /\ Rank(tokens, ms[i].token) <= Len(docs)
                                        /\ ms[i].fd = FdOf(docs, Rank(tokens, ms[i].token))
            <4>1. i \in 1 .. L + 1
                BY <3>3 DEF HereNodes
            <4>2. CASE i \in 1 .. L
                <5>1. ms[i] = nodes[i]
                    BY <1>11, <4>2
                <5>2. i \in HereNodes(nodes)
                    BY <3>3, <4>2, <5>1 DEF HereNodes
                <5>3. QED
                    BY <3>1, <5>1, <5>2 DEF OwnedBy
            <4>3. CASE i = L + 1
                BY <1>7, <1>11, <2>9, <3>2, <4>3
            <4>4. QED
                BY <4>1, <4>2, <4>3
        <3>5. QED
            BY <3>4 DEF OwnedBy
    <2>11. OwnedBy(nodes, tokens, docs, Consumed)'
        BY <1>10, <1>13, <2>4, <2>9, <2>10
    <2>12. Owned'
        BY <1>1, <1>13, <2>11 DEF Owned
    <2>13. QED
        BY <2>4, <2>5, <2>8, <2>12
<1>17. QED
    BY <1>1, <1>13, <1>14, <1>15, <1>16, Unmoved

\* Every reduction.
LEMMA ReduceStepWritten ==
    ASSUME Inv, Written, ReduceStep
    PROVE  Written'
<1>1. PICK r, m, rhs, e, res : Reducing(r, m, rhs, e, res) /\ Reduced(r, m, rhs, e, res)
    BY ReductionIs
<1>2. CASE r = 40
    BY <1>1, <1>2, HereReductionWritten
<1>3. CASE r # 40
    BY <1>1, <1>3, OtherReductionWritten
<1>4. QED
    BY <1>2, <1>3

--------------------------------------------------------------------------------
(* The theorems                                                                  *)

\* Nothing has been typed yet.
LEMMA InitWritten == Init => Written
<1> SUFFICES ASSUME Init PROVE Written
    OBVIOUS
<1>1. /\ input = << >> /\ tokens = << >> /\ docs = << >> /\ nodes = << >> /\ stack = << >>
      /\ parse.flags = {} /\ parse.tok = 0 /\ parse.state = 0 /\ parse.root = 0
      /\ body.on = FALSE /\ phase = "parse" /\ fault = "none"
    BY DEF Init
<1>2. Typing = Nothing
    BY <1>1, ReadNothing DEF Typing
<1>3. WellRead
    <2>1. << >> \in Seq(Texts) /\ << >> \in Seq(Seq(Seq(Texts)))
        OBVIOUS
    <2>2. Nothing \in Readings
        BY <2>1 DEF Nothing, Readings
    <2>3. QED
        BY <1>1, <1>2, <2>2 DEF WellRead, Nothing
<1>4. ~PutAside /\ Consumed = 0 /\ ~Unmade
    BY <1>1 DEF PutAside, Consumed, Unmade
<1>5. Heres(tokens, 0) = {} /\ Rank(tokens, 0) = 0
    <2>1. Heres(tokens, 0) = {}
        BY DEF Heres
    <2>2. QED
        BY <2>1, FS_EmptySet DEF Rank
<1>6. Len(tokens) = 0 /\ Len(docs) = 0
    BY <1>1
<1>7. Followed /\ Counted
    BY <1>1, <1>4, <1>5, <1>6 DEF Followed, Counted
<1>8. HereNodes(nodes) = {}
    BY <1>1 DEF HereNodes
<1>9. Owned
    BY <1>1, <1>8 DEF Owned, OwnedBy
<1>10. BodiesIn(Typing.bodies, tokens, docs)
    BY <1>2, <1>5, <1>6 DEF BodiesIn, Nothing
<1>11. DueAfter(Typing, tokens, Done)
    <2>1. Done = 0
        BY <1>1, <1>6 DEF Done
    <2>2. QED
        BY <1>2, <1>5, <1>6, <2>1 DEF DueAfter, Nothing
<1>12. input \in Seq(Texts)
    BY <1>1
<1>13. QED
    BY <1>1, <1>3, <1>7, <1>9, <1>10, <1>11, <1>12 DEF Written, InStep

\* A stuttering step.
LEMMA StutterWritten ==
    ASSUME Inv, Written, UNCHANGED vars
    PROVE  Written'
<1>1. /\ input' = input /\ line' = line /\ tokens' = tokens /\ docs' = docs /\ parse' = parse
      /\ stack' = stack /\ nodes' = nodes /\ body' = body /\ phase' = phase /\ fault' = fault
    BY DEF vars, reader, heredoc
<1>2. Going' <=> Going
    BY <1>1 DEF Going, Unended
<1>3. PutAside' <=> PutAside
    BY <1>1 DEF PutAside
<1>4. Consumed' = Consumed
    BY <1>1, <1>3 DEF Consumed, Top
<1>5. Unmade' <=> Unmade
    BY <1>1, <1>3 DEF Unmade
<1>6. Followed' <=> Followed
    BY <1>1, <1>3, <1>4 DEF Followed
<1>7. Owned' <=> Owned
    BY <1>1, <1>4 DEF Owned, OwnedBy
<1>8. QED
    <2>1. ASSUME phase # "over", Going PROVE Followed /\ Owned
        BY <2>1 DEF Written, InStep
    <2>2. parse.root # 0 => fault = "none"
        BY DEF Written
    <2>3. QED
        BY <1>1, <1>2, <1>4, <1>5, <1>6, <1>7, <2>1, <2>2, Unmoved

\* Every step keeps it.
LEMMA WrittenKept == Inv /\ Written /\ [Next]_vars => Written'
<1> SUFFICES ASSUME Inv, Written, [Next]_vars PROVE Written'
    OBVIOUS
<1>1. CASE NextToken
    <2>1. ASSUME NEW t \in Signs \cup (IF EndsIn(tokens, "<<") THEN Delims ELSE Words), LexToken(t)
          PROVE  Written'
        <3>1. t \in Texts
            BY DEF Texts
        <3>2. QED
            BY <2>1, <3>1, LexTokenWritten
    <2>2. QED
        BY <1>1, <2>1, LexEndsWritten, ReplayTokenWritten, SaveTokenWritten DEF NextToken
<1>2. CASE ReadBody
    BY <1>2, OpenHereWritten, DelimiterLineWritten, NextLineWritten, InputEndsWritten,
       InterruptWritten, BodyLineWritten, FaultsWritten DEF ReadBody
<1>3. CASE Advance
    <2>1. ASSUME Shift PROVE Written'
        BY <2>1, ShiftWritten, EndWritten
    <2>2. ASSUME SyntaxError PROVE Written'
        BY <2>2, EndWritten
    <2>3. QED
        BY <1>3, <2>1, <2>2, ReduceStepWritten, RunPendingWritten DEF Advance
<1>4. CASE UNCHANGED vars
    BY <1>4, StutterWritten
<1>5. QED
    BY <1>1, <1>2, <1>3, <1>4 DEF Next

\* The invariant of the text.
LEMMA WrittenAlways == Spec => []Written
<1>1. Spec => []Inv
    BY Invariance
<1>2. Init => Written
    BY InitWritten
<1>3. Inv /\ Written /\ [Next]_vars => Written'
    BY WrittenKept
<1>4. QED
    BY <1>1, <1>2, <1>3, PTL DEF Spec

(* No line of the body of a here-document is taken for a command, and no command
   for a line of a body: the tokens of commands are those that the text has by
   definition, whatever is typed, and however the two passes over a line divide it.  *)
THEOREM TextDivided == Spec => []TokensAsWritten
<1>1. Written => TokensAsWritten
    BY DEF Written, TokensAsWritten, Going, WellRead, Typing
<1>2. QED
    BY <1>1, WrittenAlways, PTL

\* The list that is run has the files of its here-documents.
LEMMA WrittenBodies == Inv /\ Written => BodiesMatch
<1> SUFFICES ASSUME Inv, Written, ~Unended, parse.root # 0, NEW n \in HereNodes(nodes)
             PROVE  /\ Place(n) \in DOMAIN docs
                    /\ IF docs[Place(n)].opened
                       THEN /\ nodes[n].fd = Place(n) /\ Place(n) \in open
                            /\ docs[Place(n)].lines = AsRead(input).bodies[Place(n)]
                       ELSE nodes[n].fd = -1
    BY DEF BodiesMatch, OwnBodies
<1>1. phase # "over" /\ ~PutAside /\ body.on = FALSE
    BY CompleteAlone
<1>2. Going /\ InStep
    BY <1>1 DEF Written, Going
<1>3. PICK c \in Nat : c = Consumed /\ c <= Len(tokens) /\ Len(tokens) \in Nat /\ Len(docs) \in Nat
    BY <1>1, ConsumedIs
<1>4. PICK i : i = nodes[n].token
    OBVIOUS
<1>5. PICK p : p = Rank(tokens, i)
    OBVIOUS
<1>6. nodes[n].fd # 0
    BY <1>1 DEF Inv, Documents
<1>7. i \in Heres(tokens, c) /\ p <= Len(docs) /\ nodes[n].fd = FdOf(docs, p)
    BY <1>2, <1>3, <1>4, <1>5, <1>6 DEF InStep, Owned, OwnedBy
<1>8. i \in 2 .. c /\ p \in Nat /\ p >= 1
    BY <1>5, <1>7, RankOf
<1>9. Place(n) = p
    <2>1. {j \in 2 .. i : tokens[j - 1] = "<<"} = Heres(tokens, i)
        BY <1>2, <1>3, <1>8 DEF InStep, Followed, Heres
    <2>2. QED
        BY <1>4, <1>5, <2>1 DEF Place, Rank
<1>10. p \in 1 .. Len(docs) /\ DOMAIN docs = 1 .. Len(docs)
    BY <1>3, <1>7, <1>8 DEF Inv, Shapes
<1>11. docs[p].opened \in BOOLEAN
    <2>1. PICK D : D = [lines : Seq(Seq(Delims)), opened : BOOLEAN]
        OBVIOUS
    <2>2. docs \in Seq(D)
        BY <2>1 DEF Inv, Shapes
    <2>3. docs[p] \in D
        BY <1>10, <2>2
    <2>4. QED
        BY <2>1, <2>3
<1>12. CASE docs[p].opened
    <2>1. nodes[n].fd = p
        BY <1>7, <1>12 DEF FdOf
    <2>2. p \in open
        <3>1. open = InUse
            BY <1>1 DEF Inv, Documents
        <3>2. p \in HereFds(nodes) /\ p # -1
            BY <1>8, <2>1 DEF HereFds
        <3>3. QED
            BY <3>1, <3>2 DEF InUse
    <2>3. docs[p].lines = Typing.bodies[p]
        <3>1. /\ Len(Typing.bodies) = Rank(tokens, Len(tokens))
              /\ \A k \in 1 .. Len(Typing.bodies) :
                    Typing.bodies[k] = IF k <= Len(docs) THEN docs[k].lines ELSE << >>
            BY <1>2 DEF InStep, BodiesIn
        <3>2. PICK l : l = Len(tokens)
            OBVIOUS
        <3>3. i \in Heres(tokens, l)
            BY <1>3, <1>7, <1>8, <3>2 DEF Heres
        <3>4. p <= Rank(tokens, l) /\ Rank(tokens, l) \in Nat
            BY <1>3, <1>5, <3>2, <3>3, RankOf, RankIs
        <3>5. p \in 1 .. Len(Typing.bodies)
            BY <1>8, <3>1, <3>2, <3>4
        <3>6. QED
            BY <1>7, <3>1, <3>5
    <2>4. QED
        BY <1>9, <1>10, <1>12, <2>1, <2>2, <2>3 DEF Typing
<1>13. CASE ~docs[p].opened
    BY <1>7, <1>9, <1>10, <1>13 DEF FdOf
<1>14. QED
    BY <1>11, <1>12, <1>13

(* When a list is run, each of its here-documents has an open descriptor of its own
   (or -1, when its file could not be opened), and in the file are the lines that
   follow the command line, up to its own delimiter.                            *)
THEOREM BodiesAsWritten == Spec => []BodiesMatch
<1>1. Inv /\ Written => BodiesMatch
    BY WrittenBodies
<1>2. QED
    BY <1>1, Invariance, WrittenAlways, PTL

--------------------------------------------------------------------------------
(* How often symbols occur in a form                                            *)

\* Among the first n symbols of s, those of X; those of X in a form.
Tally(s, n, X) == Cardinality({i \in 1 .. n : s[i] \in X})
In(form, X) == Tally(form, Len(form), X)

\* The symbols that cannot be derived from nothing.
Solid == Vocabulary \ {"program", "linebreak"}

\* A tally is a number, of nothing 0.
LEMMA TallyIs ==
    ASSUME NEW s, NEW n \in Nat, NEW X
    PROVE  /\ IsFiniteSet({i \in 1 .. n : s[i] \in X}) /\ Tally(s, n, X) \in Nat
           /\ Tally(s, 0, X) = 0
<1>1. IsFiniteSet(1 .. n)
    BY FS_Interval
<1>2. IsFiniteSet({i \in 1 .. n : s[i] \in X})
    BY <1>1, FS_Subset
<1>3. Tally(s, n, X) \in Nat
    BY <1>2, FS_CardinalityType DEF Tally
<1>4. {i \in 1 .. 0 : s[i] \in X} = {}
    OBVIOUS
<1>5. Tally(s, 0, X) = 0
    BY <1>4, FS_EmptySet DEF Tally
<1>6. QED
    BY <1>2, <1>3, <1>5

\* One symbol more.
LEMMA TallyStep ==
    ASSUME NEW s, NEW n \in Nat, NEW X
    PROVE  Tally(s, n + 1, X) = Tally(s, n, X) + (IF s[n + 1] \in X THEN 1 ELSE 0)
<1> DEFINE T(m) == {i \in 1 .. m : s[i] \in X}
<1>1. IsFiniteSet(T(n)) /\ Tally(s, n, X) \in Nat
    BY TallyIs
<1>2. CASE s[n + 1] \in X
    <2>1. T(n + 1) = T(n) \cup {n + 1} /\ n + 1 \notin T(n)
        BY <1>2
    <2> HIDE DEF T
    <2>2. Cardinality(T(n) \cup {n + 1}) = Cardinality(T(n)) + 1
        BY <1>1, <2>1, FS_AddElement
    <2>3. Cardinality(T(n + 1)) = Cardinality(T(n)) + 1
        BY <2>1, <2>2
    <2>4. QED
        BY <1>2, <2>3 DEF Tally, T
<1>3. CASE s[n + 1] \notin X
    <2>1. T(n + 1) = T(n)
        BY <1>3
    <2>2. Tally(s, n + 1, X) = Tally(s, n, X)
        BY <2>1 DEF Tally
    <2>3. QED
        BY <1>1, <1>3, <2>2
<1>4. QED
    BY <1>2, <1>3

\* Sequences that agree have the same.
LEMMA TallySame ==
    ASSUME NEW s, NEW u, NEW n \in Nat, \A i \in 1 .. n : s[i] = u[i], NEW X
    PROVE  Tally(s, n, X) = Tally(u, n, X)
<1>1. {i \in 1 .. n : s[i] \in X} = {i \in 1 .. n : u[i] \in X}
    OBVIOUS
<1>2. QED
    BY <1>1 DEF Tally

\* What a form has of X is a number.
LEMMA InIs ==
    ASSUME NEW form \in Seq(Vocabulary), NEW X
    PROVE  In(form, X) \in Nat /\ In(Nil, X) = 0
<1>1. Len(form) \in Nat /\ Len(Nil) = 0
    BY DEF Nil
<1>2. Tally(form, Len(form), X) \in Nat /\ Tally(Nil, 0, X) = 0
    BY <1>1, TallyIs
<1>3. QED
    BY <1>1, <1>2 DEF In

\* A form that is one symbol longer.
LEMMA InMore ==
    ASSUME NEW form \in Seq(Vocabulary), NEW x \in Vocabulary, NEW X
    PROVE  In(Append(form, x), X) = In(form, X) + (IF x \in X THEN 1 ELSE 0)
<1>1. PICK g \in Seq(Vocabulary) : g = Append(form, x)
    BY AppendProperties
<1>2. Len(g) = Len(form) + 1 /\ g[Len(form) + 1] = x /\ \A i \in 1 .. Len(form) : g[i] = form[i]
    BY <1>1, Longer
<1>3. PICK n \in Nat : n = Len(form)
    OBVIOUS
<1>4. Tally(g, n + 1, X) = Tally(g, n, X) + (IF g[n + 1] \in X THEN 1 ELSE 0)
    BY <1>3, TallyStep
<1>5. Tally(g, n, X) = Tally(form, n, X)
    BY <1>2, <1>3, TallySame
<1>6. In(g, X) = In(form, X) + (IF x \in X THEN 1 ELSE 0)
    BY <1>2, <1>3, <1>4, <1>5, Zenon DEF In
<1>7. QED
    BY <1>1, <1>6, Zenon

\* What stands in a form is in the vocabulary.
LEMMA Within ==
    ASSUME NEW rhs \in Seq(Vocabulary), NEW k \in 1 .. Len(rhs)
    PROVE  rhs[k] \in Vocabulary
BY ElementOfSeq

\* The symbols of a right-hand side are added.
LEMMA InJoined ==
    ASSUME NEW g \in Seq(Vocabulary), NEW rhs \in Seq(Vocabulary), Len(rhs) \in 0 .. 4, NEW X
    PROVE  /\ In(Joined(g, rhs), X) \in Nat /\ In(g, X) \in Nat /\ In(Joined(g, rhs), X) >= In(g, X)
           /\ (\A k \in 1 .. Len(rhs) : rhs[k] \notin X) => In(Joined(g, rhs), X) = In(g, X)
           /\ Len(rhs) > 0 /\ rhs[Len(rhs)] \in X => In(Joined(g, rhs), X) >= In(g, X) + 1
<1> DEFINE One(k) == IF rhs[k] \in X THEN 1 ELSE 0
<1>1. In(g, X) \in Nat /\ In(Joined(g, rhs), X) \in Nat
    BY InIs, JoinedIs
<1>2. ASSUME NEW h \in Seq(Vocabulary), NEW k \in 1 .. Len(rhs)
      PROVE  /\ Append(h, rhs[k]) \in Seq(Vocabulary)
             /\ In(Append(h, rhs[k]), X) = In(h, X) + One(k)
    <2>1. rhs[k] \in Vocabulary
        BY Within
    <2>2. PICK x \in Vocabulary : x = rhs[k]
        BY <2>1
    <2>3. Append(h, x) \in Seq(Vocabulary)
        BY AppendProperties
    <2>4. In(Append(h, x), X) = In(h, X) + (IF x \in X THEN 1 ELSE 0)
        BY InMore
    <2>5. QED
        BY <2>2, <2>3, <2>4, Zenon
<1>3. CASE Len(rhs) = 0
    <2>1. Joined(g, rhs) = g
        BY <1>3, OneByOne
    <2>2. In(Joined(g, rhs), X) = In(g, X)
        BY <2>1, Zenon
    <2>3. QED
        BY <1>1, <1>3, <2>2
<1>4. CASE Len(rhs) = 1
    <2>1. 1 \in 1 .. Len(rhs)
        BY <1>4
    <2>2. PICK h1 \in Seq(Vocabulary) : h1 = Append(g, rhs[1]) /\ In(h1, X) = In(g, X) + One(1)
        BY <1>2, <2>1, Zenon
    <2>3. Joined(g, rhs) = Append(g, rhs[1])
        BY <1>4, OneByOne, Zenon
    <2>4. Joined(g, rhs) = h1
        BY <2>2, <2>3, Zenon
    <2>5. In(Joined(g, rhs), X) = In(h1, X)
        BY <2>4, Zenon
    <2>6. One(1) \in 0 .. 1 /\ (One(1) = 0 <=> rhs[1] \notin X)
        OBVIOUS
    <2> HIDE DEF One
    <2>7. In(Joined(g, rhs), X) = In(g, X) + One(1)
        BY <2>2, <2>5, <2>6, <1>1
    <2>8. (\A k \in 1 .. Len(rhs) : rhs[k] \notin X) => One(1) = 0
        BY <2>1, <2>6
    <2>9. rhs[Len(rhs)] \in X => One(1) = 1
        BY <1>4, <2>6
    <2>10. In(Joined(g, rhs), X) >= In(g, X) + One(1)
        BY <1>1, <2>6, <2>7
    <2>11. In(Joined(g, rhs), X) >= In(g, X)
        BY <1>1, <2>6, <2>10
    <2>12. One(1) = 0 => In(Joined(g, rhs), X) = In(g, X)
        BY <1>1, <2>7
    <2>13. QED
        BY <1>1, <2>8, <2>9, <2>10, <2>11, <2>12, Zenon
<1>5. CASE Len(rhs) = 2
    <2>1. 1 \in 1 .. Len(rhs) /\ 2 \in 1 .. Len(rhs)
        BY <1>5
    <2>2. PICK h1 \in Seq(Vocabulary) : h1 = Append(g, rhs[1]) /\ In(h1, X) = In(g, X) + One(1)
        BY <1>2, <2>1, Zenon
    <2>3. PICK h2 \in Seq(Vocabulary) : h2 = Append(h1, rhs[2]) /\ In(h2, X) = In(h1, X) + One(2)
        BY <1>2, <2>1, Zenon
    <2>4. Joined(g, rhs) = Append(Append(g, rhs[1]), rhs[2])
        BY <1>5, OneByOne, Zenon
    <2>5. Joined(g, rhs) = h2
        BY <2>2, <2>3, <2>4, Zenon
    <2>6. In(Joined(g, rhs), X) = In(h2, X)
        BY <2>5, Zenon
    <2>7. /\ One(1) \in 0 .. 1 /\ (One(1) = 0 <=> rhs[1] \notin X)
          /\ One(2) \in 0 .. 1 /\ (One(2) = 0 <=> rhs[2] \notin X)
        OBVIOUS
    <2> HIDE DEF One
    <2>8. In(Joined(g, rhs), X) = In(g, X) + One(1) + One(2)
        BY <2>2, <2>3, <2>6, <2>7, <1>1
    <2>9. (\A k \in 1 .. Len(rhs) : rhs[k] \notin X) => One(1) = 0 /\ One(2) = 0
        BY <2>1, <2>7
    <2>10. rhs[Len(rhs)] \in X => One(2) = 1
        BY <1>5, <2>7
    <2>11. In(Joined(g, rhs), X) >= In(g, X) + One(2)
        BY <1>1, <2>7, <2>8
    <2>12. In(Joined(g, rhs), X) >= In(g, X)
        BY <1>1, <2>7, <2>11
    <2>13. One(1) = 0 /\ One(2) = 0 => In(Joined(g, rhs), X) = In(g, X)
        BY <1>1, <2>8
    <2>14. QED
        BY <1>1, <2>9, <2>10, <2>11, <2>12, <2>13, Zenon
<1>6. CASE Len(rhs) = 3
    <2>1. 1 \in 1 .. Len(rhs) /\ 2 \in 1 .. Len(rhs) /\ 3 \in 1 .. Len(rhs)
        BY <1>6
    <2>2. PICK h1 \in Seq(Vocabulary) : h1 = Append(g, rhs[1]) /\ In(h1, X) = In(g, X) + One(1)
        BY <1>2, <2>1, Zenon
    <2>3. PICK h2 \in Seq(Vocabulary) : h2 = Append(h1, rhs[2]) /\ In(h2, X) = In(h1, X) + One(2)
        BY <1>2, <2>1, Zenon
    <2>4. PICK h3 \in Seq(Vocabulary) : h3 = Append(h2, rhs[3]) /\ In(h3, X) = In(h2, X) + One(3)
        BY <1>2, <2>1, Zenon
    <2>5. Joined(g, rhs) = Append(Append(Append(g, rhs[1]), rhs[2]), rhs[3])
        BY <1>6, OneByOne, Zenon
    <2>6. Joined(g, rhs) = h3
        BY <2>2, <2>3, <2>4, <2>5, Zenon
    <2>7. In(Joined(g, rhs), X) = In(h3, X)
        BY <2>6, Zenon
    <2>8. /\ One(1) \in 0 .. 1 /\ (One(1) = 0 <=> rhs[1] \notin X)
          /\ One(2) \in 0 .. 1 /\ (One(2) = 0 <=> rhs[2] \notin X)
          /\ One(3) \in 0 .. 1 /\ (One(3) = 0 <=> rhs[3] \notin X)
        OBVIOUS
    <2> HIDE DEF One
    <2>9. In(Joined(g, rhs), X) = In(g, X) + One(1) + One(2) + One(3)
        BY <2>2, <2>3, <2>4, <2>7, <2>8, <1>1
    <2>10. (\A k \in 1 .. Len(rhs) : rhs[k] \notin X) => One(1) = 0 /\ One(2) = 0 /\ One(3) = 0
        BY <2>1, <2>8
    <2>11. rhs[Len(rhs)] \in X => One(3) = 1
        BY <1>6, <2>8
    <2>12. In(Joined(g, rhs), X) >= In(g, X) + One(3)
        BY <1>1, <2>8, <2>9
    <2>13. In(Joined(g, rhs), X) >= In(g, X)
        BY <1>1, <2>8, <2>12
    <2>14. One(1) = 0 /\ One(2) = 0 /\ One(3) = 0 => In(Joined(g, rhs), X) = In(g, X)
        BY <1>1, <2>9
    <2>15. QED
        BY <1>1, <2>10, <2>11, <2>12, <2>13, <2>14, Zenon
<1>7. CASE Len(rhs) = 4
    <2>1. 1 \in 1 .. Len(rhs) /\ 2 \in 1 .. Len(rhs) /\ 3 \in 1 .. Len(rhs) /\ 4 \in 1 .. Len(rhs)
        BY <1>7
    <2>2. PICK h1 \in Seq(Vocabulary) : h1 = Append(g, rhs[1]) /\ In(h1, X) = In(g, X) + One(1)
        BY <1>2, <2>1, Zenon
    <2>3. PICK h2 \in Seq(Vocabulary) : h2 = Append(h1, rhs[2]) /\ In(h2, X) = In(h1, X) + One(2)
        BY <1>2, <2>1, Zenon
    <2>4. PICK h3 \in Seq(Vocabulary) : h3 = Append(h2, rhs[3]) /\ In(h3, X) = In(h2, X) + One(3)
        BY <1>2, <2>1, Zenon
    <2>5. PICK h4 \in Seq(Vocabulary) : h4 = Append(h3, rhs[4]) /\ In(h4, X) = In(h3, X) + One(4)
        BY <1>2, <2>1, Zenon
    <2>6. Joined(g, rhs) = Append(Append(Append(Append(g, rhs[1]), rhs[2]), rhs[3]), rhs[4])
        BY <1>7, OneByOne, Zenon
    <2>7. Joined(g, rhs) = h4
        BY <2>2, <2>3, <2>4, <2>5, <2>6, Zenon
    <2>8. In(Joined(g, rhs), X) = In(h4, X)
        BY <2>7, Zenon
    <2>9. /\ One(1) \in 0 .. 1 /\ (One(1) = 0 <=> rhs[1] \notin X)
          /\ One(2) \in 0 .. 1 /\ (One(2) = 0 <=> rhs[2] \notin X)
          /\ One(3) \in 0 .. 1 /\ (One(3) = 0 <=> rhs[3] \notin X)
          /\ One(4) \in 0 .. 1 /\ (One(4) = 0 <=> rhs[4] \notin X)
        OBVIOUS
    <2> HIDE DEF One
    <2>10. In(Joined(g, rhs), X) = In(g, X) + One(1) + One(2) + One(3) + One(4)
        BY <2>2, <2>3, <2>4, <2>5, <2>8, <2>9, <1>1
    <2>11. (\A k \in 1 .. Len(rhs) : rhs[k] \notin X)
               => One(1) = 0 /\ One(2) = 0 /\ One(3) = 0 /\ One(4) = 0
        BY <2>1, <2>9
    <2>12. rhs[Len(rhs)] \in X => One(4) = 1
        BY <1>7, <2>9
    <2>13. In(Joined(g, rhs), X) >= In(g, X) + One(4)
        BY <1>1, <2>9, <2>10
    <2>14. In(Joined(g, rhs), X) >= In(g, X)
        BY <1>1, <2>9, <2>13
    <2>15. One(1) = 0 /\ One(2) = 0 /\ One(3) = 0 /\ One(4) = 0 => In(Joined(g, rhs), X) = In(g, X)
        BY <1>1, <2>10
    <2>16. QED
        BY <1>1, <2>11, <2>12, <2>13, <2>14, <2>15, Zenon
<1>8. QED
    BY <1>3, <1>4, <1>5, <1>6, <1>7

\* Only a subshell has parentheses.
NoParens(r) == \A k \in 1 .. Len(Rhs[r]) : Rhs[r][k] \notin {"OPAR", "CPAR"}

\* Every other rule has none.
LEMMA ParensAre ==
    /\ Rules[14].lhs = "subshell" /\ Rhs[14] = <<"OPAR", "compound_list", "CPAR">>
    /\ \A r \in 2 .. 45 : r # 14 => NoParens(r)
<1>1. /\ NoParens(2) /\ NoParens(3) /\ NoParens(4) /\ NoParens(5) /\ NoParens(6)
      /\ NoParens(7) /\ NoParens(8) /\ NoParens(9) /\ NoParens(10) /\ NoParens(11)
    BY Rules2To11 DEF Shape, NoParens
<1>2. /\ NoParens(12) /\ NoParens(13) /\ NoParens(15) /\ NoParens(16) /\ NoParens(17)
      /\ NoParens(18) /\ NoParens(19) /\ NoParens(20) /\ NoParens(21)
    BY Rules12To21 DEF Shape, NoParens
<1>3. /\ NoParens(22) /\ NoParens(23) /\ NoParens(24) /\ NoParens(25) /\ NoParens(26)
      /\ NoParens(27) /\ NoParens(28) /\ NoParens(29) /\ NoParens(30) /\ NoParens(31)
    BY Rules22To31 DEF Shape, NoParens
<1>4. /\ NoParens(32) /\ NoParens(33) /\ NoParens(34) /\ NoParens(35) /\ NoParens(36)
      /\ NoParens(37) /\ NoParens(38) /\ NoParens(39)
    BY Rules32To39 DEF Shape, NoParens
<1>5. NoParens(40) /\ NoParens(41) /\ NoParens(42) /\ NoParens(43) /\ NoParens(44) /\ NoParens(45)
    BY Rules40To45 DEF Shape, NoParens
<1>6. Rules[14].lhs = "subshell" /\ Rhs[14] = <<"OPAR", "compound_list", "CPAR">>
    BY Rules12To21 DEF Shape, Rule
<1>7. QED
    BY <1>1, <1>2, <1>3, <1>4, <1>5, <1>6

--------------------------------------------------------------------------------
(* What a derivation keeps                                                      *)

\* How many of its symbols cannot be derived from nothing.
LEMMA MinLengthIs ==
    ASSUME NEW form \in Seq(Vocabulary)
    PROVE  MinLength(form) = In(form, Solid) /\ MinLength(form) \in Nat /\ MinLength(Nil) = 0
<1>1. \A i \in 1 .. Len(form) : form[i] \in Vocabulary
    BY ElementOfSeq
<1>2. DOMAIN form = 1 .. Len(form)
    OBVIOUS
<1>3. {i \in DOMAIN form : form[i] \notin {"program", "linebreak"}}
        = {i \in 1 .. Len(form) : form[i] \in Solid}
    BY <1>1, <1>2 DEF Solid
<1>4. MinLength(form) = In(form, Solid)
    BY <1>3, Zenon DEF MinLength, In, Tally
<1>5. {i \in DOMAIN Nil : Nil[i] \notin {"program", "linebreak"}} = {}
    BY DEF Nil
<1>6. MinLength(Nil) = 0
    BY <1>5, FS_EmptySet, Zenon DEF MinLength
<1>7. QED
    BY <1>4, <1>6, InIs

\* A right-hand side is no shorter than what it replaces.
LEMMA NoShorter ==
    ASSUME NEW g \in Seq(Vocabulary), NEW A \in Nonterminals, NEW rhs \in Productions[A]
    PROVE  /\ MinLength(Append(g, A)) <= MinLength(Joined(g, rhs))
           /\ MinLength(Append(g, A)) \in Nat /\ MinLength(Joined(g, rhs)) \in Nat
<1>1. A \in Vocabulary
    BY VocabularyIs
<1>2. Append(g, A) \in Seq(Vocabulary)
    BY <1>1, AppendProperties
<1>3. rhs \in Seq(Vocabulary) /\ Len(rhs) \in 0 .. 4
    BY RightHandSides
<1>4. Joined(g, rhs) \in Seq(Vocabulary)
    BY <1>3, JoinedIs
<1>5. /\ MinLength(Append(g, A)) = In(Append(g, A), Solid) /\ MinLength(Append(g, A)) \in Nat
      /\ MinLength(Joined(g, rhs)) = In(Joined(g, rhs), Solid)
      /\ MinLength(Joined(g, rhs)) \in Nat
    BY <1>2, <1>4, MinLengthIs
<1>6. In(Append(g, A), Solid) = In(g, Solid) + (IF A \in Solid THEN 1 ELSE 0)
    BY <1>1, InMore
<1>7. /\ In(Joined(g, rhs), Solid) \in Nat /\ In(g, Solid) \in Nat
      /\ In(Joined(g, rhs), Solid) >= In(g, Solid)
      /\ Len(rhs) > 0 /\ rhs[Len(rhs)] \in Solid =>
            In(Joined(g, rhs), Solid) >= In(g, Solid) + 1
    BY <1>3, InJoined
<1>8. PICK r \in 2 .. 45 : Rules[r].lhs = A /\ Rhs[r] = rhs
    BY RuleOfProduction
<1>9. A \in Solid => Len(rhs) > 0 /\ rhs[Len(rhs)] \in Solid
    <2>1. A \in Solid => A \notin {"linebreak", "program"}
        BY DEF Solid
    <2>2. A \in Solid => Len(rhs) > 0 /\ rhs[Len(rhs)] \notin {"linebreak", "program"}
        BY <1>8, <2>1, RulesKnown DEF RuleKnown
    <2>3. Len(rhs) > 0 => Len(rhs) \in 1 .. Len(rhs)
        BY <1>3
    <2>4. Len(rhs) > 0 => rhs[Len(rhs)] \in Vocabulary
        BY <1>3, <2>3, Within
    <2>5. QED
        BY <2>2, <2>4 DEF Solid
<1>10. CASE A \in Solid
    BY <1>5, <1>6, <1>7, <1>9, <1>10
<1>11. CASE A \notin Solid
    BY <1>5, <1>6, <1>7, <1>11
<1>12. QED
    BY <1>5, <1>10, <1>11

\* What derives the first n classes is not longer than n.
LEMMA LongEnough ==
    ASSUME NEW w, NEW form \in Seq(Vocabulary), NEW n \in Nat,
           Reaches(w, Config(form, n), Derived)
    PROVE  MinLength(form) <= n
<1> DEFINE S == {c \in Configs : ~(MinLength(c[1]) <= c[2])}
<1>1. Closed(w, S)
    <2> SUFFICES ASSUME NEW c \in S, NEW d \in Steps(w, c[1], c[2]) PROVE d \in S
        BY DEF Closed
    <2>1. PICK f \in Seq(Vocabulary), m \in Nat : c = Config(f, m) /\ c[1] = f /\ c[2] = m
        BY ConfigOf
    <2>2. ~(MinLength(f) <= m)
        BY <2>1
    <2>3. Stepped(w, f, m, d)
        BY <2>1, StepIs
    <2>4. ASSUME NEW g \in Seq(Vocabulary), NEW t \in Terminals, f = Append(g, t), m > 0,
                 d = Config(g, m - 1)
          PROVE  d \in S
        <3>1. t \in Vocabulary
            BY VocabularyIs
        <3>2. In(Append(g, t), Solid) = In(g, Solid) + (IF t \in Solid THEN 1 ELSE 0)
            BY <3>1, InMore
        <3>3. In(f, Solid) = In(g, Solid) + (IF t \in Solid THEN 1 ELSE 0)
            BY <2>4, <3>2, Zenon
        <3>4. MinLength(f) = In(f, Solid) /\ MinLength(g) = In(g, Solid) /\ MinLength(g) \in Nat
            BY MinLengthIs
        <3>5. m - 1 \in Nat /\ ~(MinLength(g) <= m - 1)
            BY <2>2, <2>4, <3>3, <3>4
        <3>6. Config(g, m - 1) \in Configs /\ Config(g, m - 1)[1] = g /\ Config(g, m - 1)[2] = m - 1
            BY <3>5, ConfigIs
        <3>7. QED
            BY <2>4, <3>5, <3>6
    <2>5. ASSUME NEW g \in Seq(Vocabulary), NEW A \in Nonterminals, NEW rhs \in Productions[A],
                 f = Append(g, A), MinLength(Joined(g, rhs)) <= m
          PROVE  FALSE
        <3>1. /\ MinLength(Append(g, A)) <= MinLength(Joined(g, rhs))
              /\ MinLength(Append(g, A)) \in Nat /\ MinLength(Joined(g, rhs)) \in Nat
            BY NoShorter
        <3>2. MinLength(f) = MinLength(Append(g, A))
            BY <2>5, Zenon
        <3>3. QED
            BY <2>2, <2>5, <3>1, <3>2
    <2>6. QED
        BY <2>3, <2>4, <2>5, Zenon DEF Stepped
<1>2. Derived \notin S
    <2>1. Derived[1] = Nil /\ Derived[2] = 0
        BY ConfigIs DEF Derived
    <2>2. MinLength(Nil) = 0
        BY MinLengthIs
    <2>3. QED
        BY <2>1, <2>2
<1>3. Config(form, n) \in Configs /\ Config(form, n)[1] = form /\ Config(form, n)[2] = n
    BY ConfigIs
<1>4. Config(form, n) \notin S
    BY <1>1, <1>2 DEF Reaches
<1>5. QED
    BY <1>3, <1>4

\* The parentheses that are open, and those that a form still has to account for.
Opens(form) == In(form, {"OPAR"}) - In(form, {"CPAR"})
Level(w, n) == Tally(w, n, {"OPAR"}) - Tally(w, n, {"CPAR"})

\* They are integers.
LEMMA OpensIs ==
    ASSUME NEW form \in Seq(Vocabulary), NEW w, NEW n \in Nat
    PROVE  /\ Opens(form) \in Int /\ Level(w, n) \in Int /\ Opens(Nil) = 0 /\ Level(w, 0) = 0
           /\ In(form, {"OPAR"}) \in Nat /\ In(form, {"CPAR"}) \in Nat
           /\ Opens(form) = In(form, {"OPAR"}) - In(form, {"CPAR"})
<1>1. Nil \in Seq(Vocabulary)
    BY DEF Nil
<1>2. /\ In(form, {"OPAR"}) \in Nat /\ In(form, {"CPAR"}) \in Nat
      /\ In(Nil, {"OPAR"}) = 0 /\ In(Nil, {"CPAR"}) = 0
    BY <1>1, InIs
<1>3. /\ Tally(w, n, {"OPAR"}) \in Nat /\ Tally(w, n, {"CPAR"}) \in Nat
      /\ Tally(w, 0, {"OPAR"}) = 0 /\ Tally(w, 0, {"CPAR"}) = 0
    BY TallyIs
<1>4. QED
    BY <1>2, <1>3 DEF Opens, Level

\* A symbol opens one, closes one, or does neither.
Turns(x) == IF x = "OPAR" THEN 1 ELSE IF x = "CPAR" THEN -1 ELSE 0

\* One symbol more in a form, and one class more.
LEMMA OpensMore ==
    ASSUME NEW form \in Seq(Vocabulary), NEW x \in Vocabulary
    PROVE  Opens(Append(form, x)) = Opens(form) + Turns(x)
<1>1. In(Append(form, x), {"OPAR"}) = In(form, {"OPAR"}) + (IF x \in {"OPAR"} THEN 1 ELSE 0)
    BY InMore
<1>2. In(Append(form, x), {"CPAR"}) = In(form, {"CPAR"}) + (IF x \in {"CPAR"} THEN 1 ELSE 0)
    BY InMore
<1>3. In(form, {"OPAR"}) \in Nat /\ In(form, {"CPAR"}) \in Nat
    BY InIs
<1> DEFINE y == IF x \in {"OPAR"} THEN 1 ELSE 0
           z == IF x \in {"CPAR"} THEN 1 ELSE 0
<1>4. y \in Nat /\ z \in Nat /\ Turns(x) = y - z
    BY DEF Turns
<1> HIDE DEF y, z
<1>6. Opens(Append(form, x)) = (In(form, {"OPAR"}) + y) - (In(form, {"CPAR"}) + z)
    BY <1>1, <1>2, Zenon DEF Opens, y, z
<1>7. QED
    BY <1>3, <1>4, <1>6 DEF Opens

\* The first classes of a sentence, one more.
LEMMA LevelMore ==
    ASSUME NEW w, NEW n \in Nat
    PROVE  Level(w, n + 1) = Level(w, n) + Turns(w[n + 1])
<1>1. Tally(w, n + 1, {"OPAR"}) = Tally(w, n, {"OPAR"}) + (IF w[n + 1] \in {"OPAR"} THEN 1 ELSE 0)
    BY TallyStep
<1>2. Tally(w, n + 1, {"CPAR"}) = Tally(w, n, {"CPAR"}) + (IF w[n + 1] \in {"CPAR"} THEN 1 ELSE 0)
    BY TallyStep
<1>3. Tally(w, n, {"OPAR"}) \in Nat /\ Tally(w, n, {"CPAR"}) \in Nat
    BY TallyIs
<1> DEFINE y == IF w[n + 1] \in {"OPAR"} THEN 1 ELSE 0
           z == IF w[n + 1] \in {"CPAR"} THEN 1 ELSE 0
<1>4. y \in Nat /\ z \in Nat /\ Turns(w[n + 1]) = y - z
    BY DEF Turns
<1> HIDE DEF y, z
<1>6. Level(w, n + 1) = (Tally(w, n, {"OPAR"}) + y) - (Tally(w, n, {"CPAR"}) + z)
    BY <1>1, <1>2, Zenon DEF Level, y, z
<1>7. QED
    BY <1>3, <1>4, <1>6 DEF Level

\* A right-hand side closes what it opens.
LEMMA Balanced ==
    ASSUME NEW g \in Seq(Vocabulary), NEW A \in Nonterminals, NEW rhs \in Productions[A]
    PROVE  Opens(Joined(g, rhs)) = Opens(Append(g, A))
<1>1. A \in Vocabulary /\ A # "OPAR" /\ A # "CPAR"
    BY VocabularyIs
<1>2. rhs \in Seq(Vocabulary) /\ Len(rhs) \in 0 .. 4
    BY RightHandSides
<1>3. Opens(g) \in Int
    BY OpensIs
<1>4. Opens(Append(g, A)) = Opens(g) + Turns(A)
    BY <1>1, OpensMore
<1>5. Opens(Append(g, A)) = Opens(g)
    BY <1>1, <1>3, <1>4 DEF Turns
<1>6. PICK r \in 2 .. 45 : Rules[r].lhs = A /\ Rhs[r] = rhs
    BY RuleOfProduction
<1>7. CASE r # 14
    <2>1. \A k \in 1 .. Len(rhs) : rhs[k] \notin {"OPAR"} /\ rhs[k] \notin {"CPAR"}
        BY <1>6, <1>7, ParensAre DEF NoParens
    <2>2. In(Joined(g, rhs), {"OPAR"}) = In(g, {"OPAR"})
        BY <1>2, <2>1, InJoined
    <2>3. In(Joined(g, rhs), {"CPAR"}) = In(g, {"CPAR"})
        BY <1>2, <2>1, InJoined
    <2>4. QED
        BY <1>5, <2>2, <2>3, Zenon DEF Opens
<1>8. CASE r = 14
    <2>1. rhs = <<"OPAR", "compound_list", "CPAR">>
        BY <1>6, <1>8, ParensAre
    <2>2. Len(rhs) = 3 /\ rhs[1] = "OPAR" /\ rhs[2] = "compound_list" /\ rhs[3] = "CPAR"
        BY <2>1
    <2>14. Joined(g, rhs) = Append(Append(Append(g, rhs[1]), rhs[2]), rhs[3])
        BY <1>2, <2>2, OneByOne
    <2>3. Joined(g, rhs) = Append(Append(Append(g, "OPAR"), "compound_list"), "CPAR")
        BY <2>2, <2>14, Zenon
    <2>4. "OPAR" \in Vocabulary /\ "compound_list" \in Vocabulary /\ "CPAR" \in Vocabulary
        BY VocabularyIs
    <2>5. PICK a \in Seq(Vocabulary) : a = Append(g, "OPAR")
        BY <2>4, AppendProperties
    <2>6. PICK b \in Seq(Vocabulary) : b = Append(a, "compound_list")
        BY <2>4, AppendProperties
    <2>7. Opens(Append(g, "OPAR")) = Opens(g) + Turns("OPAR")
        BY <2>4, OpensMore
    <2>8. Opens(Append(a, "compound_list")) = Opens(a) + Turns("compound_list")
        BY <2>4, OpensMore
    <2>9. Opens(Append(b, "CPAR")) = Opens(b) + Turns("CPAR")
        BY <2>4, OpensMore
    <2>10. Joined(g, rhs) = Append(b, "CPAR")
        BY <2>3, <2>5, <2>6, Zenon
    <2>11. Opens(a) = Opens(g) + Turns("OPAR") /\ Opens(b) = Opens(a) + Turns("compound_list")
           /\ Opens(Joined(g, rhs)) = Opens(b) + Turns("CPAR")
        BY <2>5, <2>6, <2>7, <2>8, <2>9, <2>10, Zenon
    <2>12. Turns("OPAR") = 1 /\ Turns("compound_list") = 0 /\ Turns("CPAR") = -1
        BY DEF Turns
    <2>13. QED
        BY <1>3, <1>5, <2>11, <2>12
<1>9. QED
    BY <1>7, <1>8

\* What derives the first n classes leaves as many parentheses open as they do.
LEMMA SameLevel ==
    ASSUME NEW w, NEW form \in Seq(Vocabulary), NEW n \in Nat,
           Reaches(w, Config(form, n), Derived)
    PROVE  Opens(form) = Level(w, n)
<1> DEFINE S == {c \in Configs : ~(Opens(c[1]) = Level(w, c[2]))}
<1>1. Closed(w, S)
    <2> SUFFICES ASSUME NEW c \in S, NEW d \in Steps(w, c[1], c[2]) PROVE d \in S
        BY DEF Closed
    <2>1. PICK f \in Seq(Vocabulary), m \in Nat : c = Config(f, m) /\ c[1] = f /\ c[2] = m
        BY ConfigOf
    <2>2. ~(Opens(f) = Level(w, m))
        BY <2>1
    <2>3. Stepped(w, f, m, d)
        BY <2>1, StepIs
    <2>4. ASSUME NEW g \in Seq(Vocabulary), NEW t \in Terminals, f = Append(g, t), m > 0,
                 w[m] = t, d = Config(g, m - 1)
          PROVE  d \in S
        <3>1. t \in Vocabulary /\ m - 1 \in Nat /\ (m - 1) + 1 = m
            BY <2>4, VocabularyIs
        <3>2. Opens(Append(g, t)) = Opens(g) + Turns(t)
            BY <3>1, OpensMore
        <3>3. Level(w, (m - 1) + 1) = Level(w, m - 1) + Turns(w[(m - 1) + 1])
            BY <3>1, LevelMore
        <3>4. Level(w, m) = Level(w, m - 1) + Turns(t) /\ Opens(f) = Opens(g) + Turns(t)
            BY <2>4, <3>1, <3>2, <3>3, Zenon
        <3>5. ~(Opens(g) = Level(w, m - 1))
            BY <2>2, <3>4, Zenon
        <3>6. Config(g, m - 1) \in Configs /\ Config(g, m - 1)[1] = g /\ Config(g, m - 1)[2] = m - 1
            BY <3>1, ConfigIs
        <3>7. QED
            BY <2>4, <3>5, <3>6
    <2>5. ASSUME NEW g \in Seq(Vocabulary), NEW A \in Nonterminals, NEW rhs \in Productions[A],
                 f = Append(g, A), d = Config(Joined(g, rhs), m)
          PROVE  d \in S
        <3>1. Opens(Joined(g, rhs)) = Opens(Append(g, A))
            BY Balanced
        <3>2. Opens(Append(g, A)) = Opens(f)
            BY <2>5, Zenon
        <3>3. Joined(g, rhs) \in Seq(Vocabulary)
            BY RightHandSides, JoinedIs
        <3>4. /\ Config(Joined(g, rhs), m) \in Configs
              /\ Config(Joined(g, rhs), m)[1] = Joined(g, rhs) /\ Config(Joined(g, rhs), m)[2] = m
            BY <3>3, ConfigIs
        <3>5. QED
            BY <2>2, <2>5, <3>1, <3>2, <3>4
    <2>6. QED
        BY <2>3, <2>4, <2>5, Zenon DEF Stepped
<1>2. Derived \notin S
    <2>1. Derived[1] = Nil /\ Derived[2] = 0
        BY ConfigIs DEF Derived
    <2>2. Opens(Nil) = 0 /\ Level(w, 0) = 0
        BY OpensIs
    <2>3. QED
        BY <2>1, <2>2
<1>3. Config(form, n) \in Configs /\ Config(form, n)[1] = form /\ Config(form, n)[2] = n
    BY ConfigIs
<1>4. Config(form, n) \notin S
    BY <1>1, <1>2 DEF Reaches
<1>5. QED
    BY <1>3, <1>4

\* What follows the first n classes makes no difference to what derives them.
LEMMA SamePrefix ==
    ASSUME NEW v, NEW w, NEW n \in Nat, \A i \in 1 .. n : v[i] = w[i],
           NEW form \in Seq(Vocabulary), Reaches(w, Config(form, n), Derived)
    PROVE  Reaches(v, Config(form, n), Derived)
<1> DEFINE S == {c \in Configs : c[2] <= n /\ Reaches(v, Config(form, n), c)}
<1>1. Closed(w, S)
    <2> SUFFICES ASSUME NEW c \in S, NEW d \in Steps(w, c[1], c[2]) PROVE d \in S
        BY DEF Closed
    <2>1. PICK f \in Seq(Vocabulary), m \in Nat : c = Config(f, m) /\ c[1] = f /\ c[2] = m
        BY ConfigOf
    <2>2. m <= n /\ Reaches(v, Config(form, n), c)
        BY <2>1
    <2>3. m > 0 => v[m] = w[m]
        BY <2>2
    <2>4. Steps(w, f, m) = Steps(v, f, m)
        BY <2>3, Zenon DEF Steps
    <2>5. d \in Steps(v, c[1], c[2])
        BY <2>1, <2>4
    <2>6. Reaches(v, Config(form, n), d)
        BY <2>2, <2>5, ReachesStep
    <2>7. Stepped(w, f, m, d)
        BY <2>1, StepIs
    <2>8. ASSUME NEW g \in Seq(Vocabulary), m > 0, d = Config(g, m - 1)
          PROVE  d \in Configs /\ d[2] <= n
        <3>1. m - 1 \in Nat /\ m - 1 <= n
            BY <2>2, <2>8
        <3>2. Config(g, m - 1) \in Configs /\ Config(g, m - 1)[2] = m - 1
            BY <3>1, ConfigIs
        <3>3. QED
            BY <2>8, <3>1, <3>2
    <2>9. ASSUME NEW g \in Seq(Vocabulary), NEW A \in Nonterminals, NEW rhs \in Productions[A],
                 d = Config(Joined(g, rhs), m)
          PROVE  d \in Configs /\ d[2] <= n
        <3>1. Joined(g, rhs) \in Seq(Vocabulary)
            BY RightHandSides, JoinedIs
        <3>2. Config(Joined(g, rhs), m) \in Configs /\ Config(Joined(g, rhs), m)[2] = m
            BY <3>1, ConfigIs
        <3>3. QED
            BY <2>2, <2>9, <3>2
    <2>10. d \in Configs /\ d[2] <= n
        BY <2>7, <2>8, <2>9, Zenon DEF Stepped
    <2>11. QED
        BY <2>6, <2>10
<1>2. Config(form, n) \in S
    <2>1. Config(form, n) \in Configs /\ Config(form, n)[2] = n
        BY ConfigIs
    <2>2. QED
        BY <2>1, ReachesSelf
<1>3. QED
    BY <1>1, <1>2 DEF Reaches

\* One derivation after another.
LEMMA ReachesOn ==
    ASSUME NEW w, NEW c, NEW d, NEW e, Reaches(w, c, d), Reaches(w, d, e)
    PROVE  Reaches(w, c, e)
BY DEF Reaches

--------------------------------------------------------------------------------
(* Forms that complete a derivation                                             *)

\* A form derives what comes first, and leads on to the rest of v: unless it is too long.
Completes(v, form, n) == MinLength(form) <= n => Rooted(v, Config(form, n))

\* A program completes all.
LEMMA ProgramCompletes ==
    ASSUME NEW v \in Sentences
    PROVE  Completes(v, Append(Nil, "program"), Len(v))
<1>1. Rooted(v, Config(<<"program">>, Len(v)))
    BY ReachesSelf DEF Rooted, Whole
<1>2. QED
    BY <1>1, AtProgram, Zenon DEF Completes

\* A form that completes with one class more.
LEMMA TakeBack ==
    ASSUME NEW v, NEW g \in Seq(Vocabulary), NEW t \in Terminals, NEW n \in Nat, v[n + 1] = t,
           Completes(v, Append(g, t), n + 1)
    PROVE  Completes(v, g, n)
<1> SUFFICES ASSUME MinLength(g) <= n PROVE Rooted(v, Config(g, n))
    BY DEF Completes
<1>1. t \in Vocabulary /\ n + 1 \in Nat /\ n + 1 > 0 /\ (n + 1) - 1 = n
    BY VocabularyIs
<1>2. PICK h \in Seq(Vocabulary) : h = Append(g, t)
    BY <1>1, AppendProperties
<1>3. In(Append(g, t), Solid) = In(g, Solid) + (IF t \in Solid THEN 1 ELSE 0)
    BY <1>1, InMore
<1>4. In(h, Solid) = In(g, Solid) + (IF t \in Solid THEN 1 ELSE 0)
    BY <1>2, <1>3, Zenon
<1>5. MinLength(h) = In(h, Solid) /\ MinLength(g) = In(g, Solid) /\ MinLength(g) \in Nat
    BY MinLengthIs
<1>6. MinLength(h) <= n + 1
    BY <1>4, <1>5
<1>7. Rooted(v, Config(h, n + 1))
    BY <1>2, <1>6, Zenon DEF Completes
<1>8. Config(g, (n + 1) - 1) \in Steps(v, Append(g, t), n + 1)
    BY <1>1, Takes
<1>9. Config(g, n) \in Steps(v, h, n + 1)
    BY <1>1, <1>2, <1>8, Zenon
<1>10. Config(h, n + 1)[1] = h /\ Config(h, n + 1)[2] = n + 1
    BY ConfigIs
<1>11. Config(g, n) \in Steps(v, Config(h, n + 1)[1], Config(h, n + 1)[2])
    BY <1>9, <1>10, Zenon
<1>12. QED
    BY <1>7, <1>11, ReachesStep DEF Rooted

\* The left-hand side of a rule is replaced.
LEMMA Replacing ==
    ASSUME NEW v, NEW g \in Seq(Vocabulary), NEW n \in Nat, NEW r \in 2 .. 45, NEW h, NEW A,
           NEW w, Shape(r, h, A, w), Completes(v, Append(g, A), n)
    PROVE  Completes(v, Joined(g, w), n) /\ w \in Seq(Vocabulary)
<1>1. Rules[r].lhs = A /\ Rhs[r] = w
    BY DEF Shape, Rule
<1>2. A \in Nonterminals /\ w \in Productions[A]
    BY <1>1, ProductionOfRule
<1>3. w \in Seq(Vocabulary)
    BY <1>2, RightHandSides
<1> SUFFICES ASSUME MinLength(Joined(g, w)) <= n PROVE Rooted(v, Config(Joined(g, w), n))
    BY <1>3 DEF Completes
<1>4. A \in Vocabulary
    BY <1>2, VocabularyIs
<1>5. PICK f \in Seq(Vocabulary) : f = Append(g, A)
    BY <1>4, AppendProperties
<1>6. /\ MinLength(Append(g, A)) <= MinLength(Joined(g, w))
      /\ MinLength(Append(g, A)) \in Nat /\ MinLength(Joined(g, w)) \in Nat
    BY <1>2, NoShorter
<1>7. MinLength(Append(g, A)) <= n
    BY <1>6
<1>8. Rooted(v, Config(Append(g, A), n))
    BY <1>7, Zenon DEF Completes
<1>9. \A d : d \in Steps(v, Append(g, A), n) <=>
               \E rhs \in Productions[A] : /\ d = Config(Joined(g, rhs), n)
                                           /\ MinLength(Joined(g, rhs)) <= n
    BY <1>2, Unfolds
<1>10. Config(Joined(g, w), n) \in Steps(v, Append(g, A), n)
    BY <1>2, <1>9, Zenon
<1>11. Config(Append(g, A), n)[1] = Append(g, A) /\ Config(Append(g, A), n)[2] = n
    BY ConfigIs
<1>12. Config(Joined(g, w), n) \in Steps(v, Config(Append(g, A), n)[1], Config(Append(g, A), n)[2])
    BY <1>10, <1>11, Zenon
<1>13. QED
    BY <1>8, <1>12, ReachesStep DEF Rooted

\* A right-hand side of one symbol.
LEMMA Replacing1 ==
    ASSUME NEW v, NEW g \in Seq(Vocabulary), NEW n \in Nat, NEW r \in 2 .. 45, NEW h, NEW A,
           NEW x, Shape(r, h, A, <<x>>), Completes(v, Append(g, A), n)
    PROVE  Completes(v, Append(g, x), n)
<1>1. PICK w : w = <<x>>
    OBVIOUS
<1>2. Len(w) = 1 /\ w[1] = x
    BY <1>1
<1>3. Shape(r, h, A, w)
    BY <1>1, Zenon
<1>4. Completes(v, Joined(g, w), n) /\ w \in Seq(Vocabulary)
    BY <1>3, Replacing
<1>5. Joined(g, w) = Append(g, w[1])
    BY <1>2, <1>4, OneByOne
<1>6. QED
    BY <1>2, <1>4, <1>5, Zenon

\* A right-hand side of two.
LEMMA Replacing2 ==
    ASSUME NEW v, NEW g \in Seq(Vocabulary), NEW n \in Nat, NEW r \in 2 .. 45, NEW h, NEW A,
           NEW x, NEW y, Shape(r, h, A, <<x, y>>), Completes(v, Append(g, A), n)
    PROVE  Completes(v, Append(Append(g, x), y), n)
<1>1. PICK w : w = <<x, y>>
    OBVIOUS
<1>2. Len(w) = 2 /\ w[1] = x /\ w[2] = y
    BY <1>1
<1>3. Shape(r, h, A, w)
    BY <1>1, Zenon
<1>4. Completes(v, Joined(g, w), n) /\ w \in Seq(Vocabulary)
    BY <1>3, Replacing
<1>5. Joined(g, w) = Append(Append(g, w[1]), w[2])
    BY <1>2, <1>4, OneByOne
<1>6. QED
    BY <1>2, <1>4, <1>5, Zenon

\* A right-hand side of three.
LEMMA Replacing3 ==
    ASSUME NEW v, NEW g \in Seq(Vocabulary), NEW n \in Nat, NEW r \in 2 .. 45, NEW h, NEW A,
           NEW x, NEW y, NEW z, Shape(r, h, A, <<x, y, z>>), Completes(v, Append(g, A), n)
    PROVE  Completes(v, Append(Append(Append(g, x), y), z), n)
<1>1. PICK w : w = <<x, y, z>>
    OBVIOUS
<1>2. Len(w) = 3 /\ w[1] = x /\ w[2] = y /\ w[3] = z
    BY <1>1
<1>3. Shape(r, h, A, w)
    BY <1>1, Zenon
<1>4. Completes(v, Joined(g, w), n) /\ w \in Seq(Vocabulary)
    BY <1>3, Replacing
<1>5. Joined(g, w) = Append(Append(Append(g, w[1]), w[2]), w[3])
    BY <1>2, <1>4, OneByOne
<1>6. QED
    BY <1>2, <1>4, <1>5, Zenon

\* A right-hand side of four.
LEMMA Replacing4 ==
    ASSUME NEW v, NEW g \in Seq(Vocabulary), NEW n \in Nat, NEW r \in 2 .. 45, NEW h, NEW A,
           NEW x, NEW y, NEW z, NEW u, Shape(r, h, A, <<x, y, z, u>>), Completes(v, Append(g, A), n)
    PROVE  Completes(v, Append(Append(Append(Append(g, x), y), z), u), n)
<1>1. PICK w : w = <<x, y, z, u>>
    OBVIOUS
<1>2. Len(w) = 4 /\ w[1] = x /\ w[2] = y /\ w[3] = z /\ w[4] = u
    BY <1>1
<1>3. Shape(r, h, A, w)
    BY <1>1, Zenon
<1>4. Completes(v, Joined(g, w), n) /\ w \in Seq(Vocabulary)
    BY <1>3, Replacing
<1>5. Joined(g, w) = Append(Append(Append(Append(g, w[1]), w[2]), w[3]), w[4])
    BY <1>2, <1>4, OneByOne
<1>6. QED
    BY <1>2, <1>4, <1>5, Zenon

\* Rule 2.
LEMMA By2 ==
    ASSUME NEW v, NEW n \in Nat, NEW g \in Seq(Vocabulary), Completes(v, Append(g, "program"), n)
    PROVE  Completes(v, Append(Append(Append(g, "linebreak"), "complete_commands"), "linebreak"), n)
<1>1. 2 \in 2 .. 45 /\ Shape(2, "program", "program", <<"linebreak", "complete_commands", "linebreak">>)
    BY Rules2To11
<1>2. QED
    BY <1>1, Replacing3, Zenon

\* Rule 4.
LEMMA By4 ==
    ASSUME NEW v, NEW n \in Nat, NEW g \in Seq(Vocabulary), Completes(v, Append(g, "complete_commands"), n)
    PROVE  Completes(v, Append(Append(Append(g, "complete_commands"), "newline_list"), "and_or"), n)
<1>1. /\ 4 \in 2 .. 45
      /\ Shape(4, "list_append", "complete_commands", <<"complete_commands", "newline_list", "and_or">>)
    BY Rules2To11
<1>2. QED
    BY <1>1, Replacing3, Zenon

\* Rule 5.
LEMMA By5 ==
    ASSUME NEW v, NEW n \in Nat, NEW g \in Seq(Vocabulary), Completes(v, Append(g, "complete_commands"), n)
    PROVE  Completes(v, Append(g, "and_or"), n)
<1>1. 5 \in 2 .. 45 /\ Shape(5, "none", "complete_commands", <<"and_or">>)
    BY Rules2To11
<1>2. QED
    BY <1>1, Replacing1, Zenon

\* Rule 6.
LEMMA By6 ==
    ASSUME NEW v, NEW n \in Nat, NEW g \in Seq(Vocabulary), Completes(v, Append(g, "and_or"), n)
    PROVE  Completes(v, Append(g, "pipeline"), n)
<1>1. 6 \in 2 .. 45 /\ Shape(6, "none", "and_or", <<"pipeline">>)
    BY Rules2To11
<1>2. QED
    BY <1>1, Replacing1, Zenon

\* Rule 7.
LEMMA By7 ==
    ASSUME NEW v, NEW n \in Nat, NEW g \in Seq(Vocabulary), Completes(v, Append(g, "and_or"), n)
    PROVE  Completes(v, Append(Append(Append(Append(g, "and_or"), "AND_IF"), "linebreak"), "pipeline"), n)
<1>1. 7 \in 2 .. 45 /\ Shape(7, "conditional", "and_or", <<"and_or", "AND_IF", "linebreak", "pipeline">>)
    BY Rules2To11
<1>2. QED
    BY <1>1, Replacing4, Zenon

\* Rule 8.
LEMMA By8 ==
    ASSUME NEW v, NEW n \in Nat, NEW g \in Seq(Vocabulary), Completes(v, Append(g, "and_or"), n)
    PROVE  Completes(v, Append(Append(Append(Append(g, "and_or"), "OR_IF"), "linebreak"), "pipeline"), n)
<1>1. 8 \in 2 .. 45 /\ Shape(8, "conditional", "and_or", <<"and_or", "OR_IF", "linebreak", "pipeline">>)
    BY Rules2To11
<1>2. QED
    BY <1>1, Replacing4, Zenon

\* Rule 9.
LEMMA By9 ==
    ASSUME NEW v, NEW n \in Nat, NEW g \in Seq(Vocabulary), Completes(v, Append(g, "pipeline"), n)
    PROVE  Completes(v, Append(g, "command"), n)
<1>1. 9 \in 2 .. 45 /\ Shape(9, "pipeline_create", "pipeline", <<"command">>)
    BY Rules2To11
<1>2. QED
    BY <1>1, Replacing1, Zenon

\* Rule 10.
LEMMA By10 ==
    ASSUME NEW v, NEW n \in Nat, NEW g \in Seq(Vocabulary), Completes(v, Append(g, "pipeline"), n)
    PROVE  Completes(v, Append(Append(Append(Append(g, "pipeline"), "PIPE"), "linebreak"), "command"), n)
<1>1. /\ 10 \in 2 .. 45
      /\ Shape(10, "pipeline_append", "pipeline", <<"pipeline", "PIPE", "linebreak", "command">>)
    BY Rules2To11
<1>2. QED
    BY <1>1, Replacing4, Zenon

\* Rule 11.
LEMMA By11 ==
    ASSUME NEW v, NEW n \in Nat, NEW g \in Seq(Vocabulary), Completes(v, Append(g, "command"), n)
    PROVE  Completes(v, Append(g, "simple_command"), n)
<1>1. 11 \in 2 .. 45 /\ Shape(11, "none", "command", <<"simple_command">>)
    BY Rules2To11
<1>2. QED
    BY <1>1, Replacing1, Zenon

\* Rule 12.
LEMMA By12 ==
    ASSUME NEW v, NEW n \in Nat, NEW g \in Seq(Vocabulary), Completes(v, Append(g, "command"), n)
    PROVE  Completes(v, Append(g, "subshell"), n)
<1>1. 12 \in 2 .. 45 /\ Shape(12, "none", "command", <<"subshell">>)
    BY Rules12To21
<1>2. QED
    BY <1>1, Replacing1, Zenon

\* Rule 13.
LEMMA By13 ==
    ASSUME NEW v, NEW n \in Nat, NEW g \in Seq(Vocabulary), Completes(v, Append(g, "command"), n)
    PROVE  Completes(v, Append(Append(g, "subshell"), "redirect_list"), n)
<1>1. 13 \in 2 .. 45 /\ Shape(13, "subshell_redirects", "command", <<"subshell", "redirect_list">>)
    BY Rules12To21
<1>2. QED
    BY <1>1, Replacing2, Zenon

\* Rule 14.
LEMMA By14 ==
    ASSUME NEW v, NEW n \in Nat, NEW g \in Seq(Vocabulary), Completes(v, Append(g, "subshell"), n)
    PROVE  Completes(v, Append(Append(Append(g, "OPAR"), "compound_list"), "CPAR"), n)
<1>1. 14 \in 2 .. 45 /\ Shape(14, "subshell", "subshell", <<"OPAR", "compound_list", "CPAR">>)
    BY Rules12To21
<1>2. QED
    BY <1>1, Replacing3, Zenon

\* Rule 15.
LEMMA By15 ==
    ASSUME NEW v, NEW n \in Nat, NEW g \in Seq(Vocabulary), Completes(v, Append(g, "compound_list"), n)
    PROVE  Completes(v, Append(Append(g, "linebreak"), "term"), n)
<1>1. 15 \in 2 .. 45 /\ Shape(15, "compound_list", "compound_list", <<"linebreak", "term">>)
    BY Rules12To21
<1>2. QED
    BY <1>1, Replacing2, Zenon

\* Rule 17.
LEMMA By17 ==
    ASSUME NEW v, NEW n \in Nat, NEW g \in Seq(Vocabulary), Completes(v, Append(g, "term"), n)
    PROVE  Completes(v, Append(Append(Append(g, "term"), "newline_list"), "and_or"), n)
<1>1. 17 \in 2 .. 45 /\ Shape(17, "list_append", "term", <<"term", "newline_list", "and_or">>)
    BY Rules12To21
<1>2. QED
    BY <1>1, Replacing3, Zenon

\* Rule 18.
LEMMA By18 ==
    ASSUME NEW v, NEW n \in Nat, NEW g \in Seq(Vocabulary), Completes(v, Append(g, "term"), n)
    PROVE  Completes(v, Append(g, "and_or"), n)
<1>1. 18 \in 2 .. 45 /\ Shape(18, "none", "term", <<"and_or">>)
    BY Rules12To21
<1>2. QED
    BY <1>1, Replacing1, Zenon

\* Rule 19.
LEMMA By19 ==
    ASSUME NEW v, NEW n \in Nat, NEW g \in Seq(Vocabulary), Completes(v, Append(g, "simple_command"), n)
    PROVE  Completes(v, Append(Append(Append(g, "cmd_prefix"), "cmd_word"), "cmd_suffix"), n)
<1>1. /\ 19 \in 2 .. 45
      /\ Shape(19, "from_suffix", "simple_command", <<"cmd_prefix", "cmd_word", "cmd_suffix">>)
    BY Rules12To21
<1>2. QED
    BY <1>1, Replacing3, Zenon

\* Rule 21.
LEMMA By21 ==
    ASSUME NEW v, NEW n \in Nat, NEW g \in Seq(Vocabulary), Completes(v, Append(g, "simple_command"), n)
    PROVE  Completes(v, Append(g, "cmd_prefix"), n)
<1>1. 21 \in 2 .. 45 /\ Shape(21, "simple", "simple_command", <<"cmd_prefix">>)
    BY Rules12To21
<1>2. QED
    BY <1>1, Replacing1, Zenon

\* Rule 22.
LEMMA By22 ==
    ASSUME NEW v, NEW n \in Nat, NEW g \in Seq(Vocabulary), Completes(v, Append(g, "simple_command"), n)
    PROVE  Completes(v, Append(Append(g, "cmd_name"), "cmd_suffix"), n)
<1>1. 22 \in 2 .. 45 /\ Shape(22, "from_suffix", "simple_command", <<"cmd_name", "cmd_suffix">>)
    BY Rules22To31
<1>2. QED
    BY <1>1, Replacing2, Zenon

\* Rule 23.
LEMMA By23 ==
    ASSUME NEW v, NEW n \in Nat, NEW g \in Seq(Vocabulary), Completes(v, Append(g, "simple_command"), n)
    PROVE  Completes(v, Append(g, "cmd_name"), n)
<1>1. 23 \in 2 .. 45 /\ Shape(23, "simple", "simple_command", <<"cmd_name">>)
    BY Rules22To31
<1>2. QED
    BY <1>1, Replacing1, Zenon

\* Rule 24.
LEMMA By24 ==
    ASSUME NEW v, NEW n \in Nat, NEW g \in Seq(Vocabulary), Completes(v, Append(g, "cmd_name"), n)
    PROVE  Completes(v, Append(g, "WORD"), n)
<1>1. 24 \in 2 .. 45 /\ Shape(24, "from_term", "cmd_name", <<"WORD">>)
    BY Rules22To31
<1>2. QED
    BY <1>1, Replacing1, Zenon

\* Rule 26.
LEMMA By26 ==
    ASSUME NEW v, NEW n \in Nat, NEW g \in Seq(Vocabulary), Completes(v, Append(g, "cmd_prefix"), n)
    PROVE  Completes(v, Append(g, "io_redirect"), n)
<1>1. 26 \in 2 .. 45 /\ Shape(26, "none", "cmd_prefix", <<"io_redirect">>)
    BY Rules22To31
<1>2. QED
    BY <1>1, Replacing1, Zenon

\* Rule 27.
LEMMA By27 ==
    ASSUME NEW v, NEW n \in Nat, NEW g \in Seq(Vocabulary), Completes(v, Append(g, "cmd_prefix"), n)
    PROVE  Completes(v, Append(Append(g, "cmd_prefix"), "io_redirect"), n)
<1>1. 27 \in 2 .. 45 /\ Shape(27, "redir_append", "cmd_prefix", <<"cmd_prefix", "io_redirect">>)
    BY Rules22To31
<1>2. QED
    BY <1>1, Replacing2, Zenon

\* Rule 28.
LEMMA By28 ==
    ASSUME NEW v, NEW n \in Nat, NEW g \in Seq(Vocabulary), Completes(v, Append(g, "cmd_suffix"), n)
    PROVE  Completes(v, Append(g, "io_redirect"), n)
<1>1. 28 \in 2 .. 45 /\ Shape(28, "cmd_suffix", "cmd_suffix", <<"io_redirect">>)
    BY Rules22To31
<1>2. QED
    BY <1>1, Replacing1, Zenon

\* Rule 29.
LEMMA By29 ==
    ASSUME NEW v, NEW n \in Nat, NEW g \in Seq(Vocabulary), Completes(v, Append(g, "cmd_suffix"), n)
    PROVE  Completes(v, Append(Append(g, "cmd_suffix"), "io_redirect"), n)
<1>1. 29 \in 2 .. 45 /\ Shape(29, "cmd_suffix", "cmd_suffix", <<"cmd_suffix", "io_redirect">>)
    BY Rules22To31
<1>2. QED
    BY <1>1, Replacing2, Zenon

\* Rule 32.
LEMMA By32 ==
    ASSUME NEW v, NEW n \in Nat, NEW g \in Seq(Vocabulary), Completes(v, Append(g, "redirect_list"), n)
    PROVE  Completes(v, Append(g, "io_redirect"), n)
<1>1. 32 \in 2 .. 45 /\ Shape(32, "none", "redirect_list", <<"io_redirect">>)
    BY Rules32To39
<1>2. QED
    BY <1>1, Replacing1, Zenon

\* Rule 33.
LEMMA By33 ==
    ASSUME NEW v, NEW n \in Nat, NEW g \in Seq(Vocabulary), Completes(v, Append(g, "redirect_list"), n)
    PROVE  Completes(v, Append(Append(g, "redirect_list"), "io_redirect"), n)
<1>1. 33 \in 2 .. 45 /\ Shape(33, "redir_append", "redirect_list", <<"redirect_list", "io_redirect">>)
    BY Rules32To39
<1>2. QED
    BY <1>1, Replacing2, Zenon

\* Rule 34.
LEMMA By34 ==
    ASSUME NEW v, NEW n \in Nat, NEW g \in Seq(Vocabulary), Completes(v, Append(g, "io_redirect"), n)
    PROVE  Completes(v, Append(g, "io_file"), n)
<1>1. 34 \in 2 .. 45 /\ Shape(34, "none", "io_redirect", <<"io_file">>)
    BY Rules32To39
<1>2. QED
    BY <1>1, Replacing1, Zenon

\* Rule 35.
LEMMA By35 ==
    ASSUME NEW v, NEW n \in Nat, NEW g \in Seq(Vocabulary), Completes(v, Append(g, "io_redirect"), n)
    PROVE  Completes(v, Append(g, "io_here"), n)
<1>1. 35 \in 2 .. 45 /\ Shape(35, "none", "io_redirect", <<"io_here">>)
    BY Rules32To39
<1>2. QED
    BY <1>1, Replacing1, Zenon

\* Rule 36.
LEMMA By36 ==
    ASSUME NEW v, NEW n \in Nat, NEW g \in Seq(Vocabulary), Completes(v, Append(g, "io_file"), n)
    PROVE  Completes(v, Append(Append(g, "LESS"), "filename"), n)
<1>1. 36 \in 2 .. 45 /\ Shape(36, "io_file", "io_file", <<"LESS", "filename">>)
    BY Rules32To39
<1>2. QED
    BY <1>1, Replacing2, Zenon

\* Rule 37.
LEMMA By37 ==
    ASSUME NEW v, NEW n \in Nat, NEW g \in Seq(Vocabulary), Completes(v, Append(g, "io_file"), n)
    PROVE  Completes(v, Append(Append(g, "GREAT"), "filename"), n)
<1>1. 37 \in 2 .. 45 /\ Shape(37, "io_file", "io_file", <<"GREAT", "filename">>)
    BY Rules32To39
<1>2. QED
    BY <1>1, Replacing2, Zenon

\* Rule 38.
LEMMA By38 ==
    ASSUME NEW v, NEW n \in Nat, NEW g \in Seq(Vocabulary), Completes(v, Append(g, "io_file"), n)
    PROVE  Completes(v, Append(Append(g, "DGREAT"), "filename"), n)
<1>1. 38 \in 2 .. 45 /\ Shape(38, "io_file", "io_file", <<"DGREAT", "filename">>)
    BY Rules32To39
<1>2. QED
    BY <1>1, Replacing2, Zenon

\* Rule 39.
LEMMA By39 ==
    ASSUME NEW v, NEW n \in Nat, NEW g \in Seq(Vocabulary), Completes(v, Append(g, "filename"), n)
    PROVE  Completes(v, Append(g, "WORD"), n)
<1>1. 39 \in 2 .. 45 /\ Shape(39, "from_term", "filename", <<"WORD">>)
    BY Rules32To39
<1>2. QED
    BY <1>1, Replacing1, Zenon

\* Rule 40.
LEMMA By40 ==
    ASSUME NEW v, NEW n \in Nat, NEW g \in Seq(Vocabulary), Completes(v, Append(g, "io_here"), n)
    PROVE  Completes(v, Append(Append(g, "DLESS"), "here_end"), n)
<1>1. 40 \in 2 .. 45 /\ Shape(40, "io_here", "io_here", <<"DLESS", "here_end">>)
    BY Rules40To45
<1>2. QED
    BY <1>1, Replacing2, Zenon

\* Rule 41.
LEMMA By41 ==
    ASSUME NEW v, NEW n \in Nat, NEW g \in Seq(Vocabulary), Completes(v, Append(g, "here_end"), n)
    PROVE  Completes(v, Append(g, "WORD"), n)
<1>1. 41 \in 2 .. 45 /\ Shape(41, "none", "here_end", <<"WORD">>)
    BY Rules40To45
<1>2. QED
    BY <1>1, Replacing1, Zenon

\* Rule 45.
LEMMA By45 ==
    ASSUME NEW v, NEW n \in Nat, NEW g \in Seq(Vocabulary), Completes(v, Append(g, "linebreak"), n)
    PROVE  Completes(v, g, n)
<1>1. 45 \in 2 .. 45 /\ Shape(45, "none", "linebreak", << >>)
    BY Rules40To45
<1>2. Completes(v, Joined(g, << >>), n)
    BY <1>1, Replacing, Zenon
<1>3. Joined(g, << >>) = g
    BY DEF Joined
<1>4. QED
    BY <1>2, <1>3, Zenon

--------------------------------------------------------------------------------
(* The parentheses that are open can be closed                                  *)

\* State q is entered from those of B, with symbol x.
Entered(q, x, B) == q # 0 /\ Entry[q] = x /\ Below[q] = B

\* The form is a form and x, and the state before x is in B.
Peeled(form, x, B) == \E g \in Seq(Vocabulary) : \E p \in B : form = Append(g, x) /\ At(g, p)

\* The last symbol of a form.
LEMMA Peel ==
    ASSUME NEW form \in Seq(Vocabulary), NEW q, NEW x, NEW B, Entered(q, x, B), At(form, q)
    PROVE  Peeled(form, x, B)
<1>1. q # 0 /\ Entry[q] = x /\ Below[q] = B
    BY DEF Entered
<1>2. PICK g \in Seq(Vocabulary) : \E p :
                /\ Entry[q] \in Vocabulary /\ form = Append(g, Entry[q])
                /\ At(g, p) /\ p \in Below[q] /\ Enters(p, Entry[q], q)
    BY <1>1, AtLast
<1>3. QED
    BY <1>1, <1>2, Zenon DEF Peeled

\* The states of forms whose parentheses are to be closed.
LEMMA EnteredAre ==
    /\ Entered(4, "linebreak", {0})
    /\ Entered(8, "LESS", RedirStarts)
    /\ Entered(9, "GREAT", RedirStarts)
    /\ Entered(10, "DLESS", RedirStarts)
    /\ Entered(11, "DGREAT", RedirStarts)
    /\ Entered(12, "OPAR", CommandStarts)
    /\ Entered(13, "complete_commands", {4})
    /\ Entered(14, "and_or", {4})
    /\ Entered(15, "pipeline", {4, 31, 32, 56})
    /\ Entered(17, "subshell", CommandStarts)
    /\ Entered(19, "cmd_name", CommandStarts)
    /\ Entered(20, "cmd_prefix", CommandStarts)
    /\ Entered(30, "compound_list", {12})
    /\ Entered(31, "linebreak", {12})
    /\ Entered(32, "newline_list", {13})
    /\ Entered(34, "AND_IF", {14, 46, 48, 60})
    /\ Entered(35, "OR_IF", {14, 46, 48, 60})
    /\ Entered(36, "PIPE", {15, 57, 58})
    /\ Entered(37, "redirect_list", {17})
    /\ Entered(40, "cmd_suffix", {19})
    /\ Entered(43, "cmd_word", {20})
    /\ Entered(46, "and_or", {31})
    /\ Entered(47, "term", {31})
    /\ Entered(48, "and_or", {32})
    /\ Entered(49, "linebreak", {34})
    /\ Entered(50, "linebreak", {35})
    /\ Entered(51, "linebreak", {36})
    /\ Entered(55, "cmd_suffix", {43})
    /\ Entered(56, "newline_list", {47})
    /\ Entered(57, "pipeline", {49})
    /\ Entered(58, "pipeline", {50})
    /\ Entered(60, "and_or", {56})
<1>1. /\ Entered(4, "linebreak", {0})
      /\ Entered(8, "LESS", RedirStarts)
      /\ Entered(9, "GREAT", RedirStarts)
      /\ Entered(10, "DLESS", RedirStarts)
      /\ Entered(11, "DGREAT", RedirStarts)
    BY DEF Entered, Entry, Below, Table, BreakStarts
<1>2. /\ Entered(12, "OPAR", CommandStarts)
      /\ Entered(13, "complete_commands", {4})
      /\ Entered(14, "and_or", {4})
      /\ Entered(15, "pipeline", {4, 31, 32, 56})
      /\ Entered(17, "subshell", CommandStarts)
    BY DEF Entered, Entry, Below, Table, BreakStarts
<1>3. /\ Entered(19, "cmd_name", CommandStarts)
      /\ Entered(20, "cmd_prefix", CommandStarts)
      /\ Entered(30, "compound_list", {12})
      /\ Entered(31, "linebreak", {12})
      /\ Entered(32, "newline_list", {13})
    BY DEF Entered, Entry, Below, Table, BreakStarts
<1>4. /\ Entered(34, "AND_IF", {14, 46, 48, 60})
      /\ Entered(35, "OR_IF", {14, 46, 48, 60})
      /\ Entered(36, "PIPE", {15, 57, 58})
      /\ Entered(37, "redirect_list", {17})
      /\ Entered(40, "cmd_suffix", {19})
    BY DEF Entered, Entry, Below, Table, BreakStarts
<1>5. /\ Entered(43, "cmd_word", {20})
      /\ Entered(46, "and_or", {31})
      /\ Entered(47, "term", {31})
      /\ Entered(48, "and_or", {32})
      /\ Entered(49, "linebreak", {34})
    BY DEF Entered, Entry, Below, Table, BreakStarts
<1>6. /\ Entered(50, "linebreak", {35})
      /\ Entered(51, "linebreak", {36})
      /\ Entered(55, "cmd_suffix", {43})
      /\ Entered(56, "newline_list", {47})
      /\ Entered(57, "pipeline", {49})
    BY DEF Entered, Entry, Below, Table, BreakStarts
<1>7. /\ Entered(58, "pipeline", {50})
      /\ Entered(60, "and_or", {56})
    BY DEF Entered, Entry, Below, Table, BreakStarts
<1>8. QED
    BY <1>1, <1>2, <1>3, <1>4, <1>5, <1>6, <1>7, Zenon

\* The classes of v after n close the parentheses that are open in a form.
Closes(v, form, n) ==
    /\ n \in Nat /\ n <= Len(v) /\ \A i \in (n + 1) .. Len(v) : v[i] = "CPAR"
    /\ Len(v) - n = In(form, {"OPAR"})

\* A symbol less that is no parenthesis.
LEMMA ClosesLess ==
    ASSUME NEW v, NEW g \in Seq(Vocabulary), NEW x \in Vocabulary, x # "OPAR", NEW n,
           Closes(v, Append(g, x), n)
    PROVE  Closes(v, g, n)
<1>1. In(Append(g, x), {"OPAR"}) = In(g, {"OPAR"}) + (IF x \in {"OPAR"} THEN 1 ELSE 0)
    BY InMore
<1>2. In(g, {"OPAR"}) \in Nat
    BY InIs
<1>3. In(Append(g, x), {"OPAR"}) = In(g, {"OPAR"})
    BY <1>1, <1>2
<1>4. QED
    BY <1>3, Zenon DEF Closes

\* A parenthesis less, and the one that closes it.
LEMMA ClosesOne ==
    ASSUME NEW v \in Sentences, NEW g \in Seq(Vocabulary), NEW n, Closes(v, Append(g, "OPAR"), n)
    PROVE  n < Len(v) /\ v[n + 1] = "CPAR" /\ Closes(v, g, n + 1)
<1>1. "OPAR" \in Vocabulary
    BY VocabularyIs
<1>2. In(Append(g, "OPAR"), {"OPAR"})
        = In(g, {"OPAR"}) + (IF "OPAR" \in {"OPAR"} THEN 1 ELSE 0)
    BY <1>1, InMore
<1>3. In(g, {"OPAR"}) \in Nat
    BY InIs
<1>4. In(Append(g, "OPAR"), {"OPAR"}) = In(g, {"OPAR"}) + 1
    BY <1>2, <1>3
<1>5. /\ n \in Nat /\ n <= Len(v) /\ \A i \in (n + 1) .. Len(v) : v[i] = "CPAR"
      /\ Len(v) - n = In(g, {"OPAR"}) + 1
    BY <1>4, Zenon DEF Closes
<1>6. Len(v) \in Nat
    BY SentenceIs
<1>7. n < Len(v) /\ n + 1 \in (n + 1) .. Len(v) /\ n + 1 \in Nat /\ n + 1 <= Len(v)
      /\ Len(v) - (n + 1) = In(g, {"OPAR"})
    BY <1>3, <1>5, <1>6
<1>8. v[n + 1] = "CPAR"
    BY <1>5, <1>7
<1>9. \A i \in ((n + 1) + 1) .. Len(v) : v[i] = "CPAR"
    <2>1. \A i \in ((n + 1) + 1) .. Len(v) : i \in (n + 1) .. Len(v)
        BY <1>5, <1>6
    <2>2. QED
        BY <1>5, <2>1
<1>10. QED
    BY <1>7, <1>8, <1>9 DEF Closes

\* Wherever a command can start, it leads on to the parentheses that close all.
Closable(v, n) ==
    \A g \in Seq(Vocabulary) : \A q \in CommandStarts :
        At(g, q) /\ Closes(v, g, n) => Completes(v, Append(g, "command"), n)

\* At the beginning, complete commands lead to the end.
LEMMA CommandsClose ==
    ASSUME NEW v \in Sentences, NEW g \in Seq(Vocabulary), NEW n, At(g, 4), Closes(v, g, n)
    PROVE  Completes(v, Append(g, "complete_commands"), n)
<1>1. Peeled(g, "linebreak", {0})
    BY EnteredAre, Peel, Zenon
<1>2. PICK f \in Seq(Vocabulary) : \E p \in {0} : g = Append(f, "linebreak") /\ At(f, p)
    BY <1>1, Zenon DEF Peeled
<1>3. At(f, 0)
    BY <1>2
<1>4. f = Nil
    BY <1>3, NothingAtStart
<1>5. "linebreak" \in Vocabulary /\ "complete_commands" \in Vocabulary
    BY VocabularyIs
<1>6. Closes(v, Append(f, "linebreak"), n)
    BY <1>2, Zenon
<1>7. Closes(v, f, n)
    BY <1>5, <1>6, ClosesLess
<1>8. n \in Nat /\ n <= Len(v) /\ Len(v) - n = In(f, {"OPAR"})
    BY <1>7 DEF Closes
<1>9. In(f, {"OPAR"}) = 0
    BY <1>4, InIs
<1>10. n = Len(v)
    BY <1>8, <1>9, SentenceIs
<1>11. Completes(v, Append(Nil, "program"), Len(v))
    BY ProgramCompletes
<1>12. Completes(v, Append(f, "program"), n)
    BY <1>4, <1>10, <1>11, Zenon
<1>13. Completes(v, Append(Append(Append(f, "linebreak"), "complete_commands"), "linebreak"), n)
    BY <1>8, <1>12, By2
<1>14. Completes(v, Append(Append(g, "complete_commands"), "linebreak"), n)
    BY <1>2, <1>13, Zenon
<1>15. Append(g, "complete_commands") \in Seq(Vocabulary)
    BY <1>5, AppendProperties
<1>16. QED
    BY <1>8, <1>14, <1>15, By45

\* In parentheses, a list leads to the one that closes them.
LEMMA TermCloses ==
    ASSUME NEW v \in Sentences, NEW g \in Seq(Vocabulary), NEW n, At(g, 31), Closes(v, g, n),
           n < Len(v) => Closable(v, n + 1)
    PROVE  Completes(v, Append(g, "term"), n)
<1>1. Peeled(g, "linebreak", {12})
    BY EnteredAre, Peel, Zenon
<1>2. PICK f \in Seq(Vocabulary) : \E p \in {12} : g = Append(f, "linebreak") /\ At(f, p)
    BY <1>1, Zenon DEF Peeled
<1>3. At(f, 12)
    BY <1>2
<1>4. Peeled(f, "OPAR", CommandStarts)
    BY <1>3, EnteredAre, Peel, Zenon
<1>5. PICK h \in Seq(Vocabulary) : \E p \in CommandStarts : f = Append(h, "OPAR") /\ At(h, p)
    BY <1>4, Zenon DEF Peeled
<1>6. PICK p \in CommandStarts : f = Append(h, "OPAR") /\ At(h, p)
    BY <1>5
<1>7. /\ "linebreak" \in Vocabulary /\ "compound_list" \in Vocabulary /\ "OPAR" \in Vocabulary
      /\ "CPAR" \in Terminals
    BY VocabularyIs
<1>8. Closes(v, Append(f, "linebreak"), n)
    BY <1>2, Zenon
<1>9. Closes(v, f, n)
    BY <1>7, <1>8, ClosesLess
<1>10. Closes(v, Append(h, "OPAR"), n)
    BY <1>6, <1>9, Zenon
<1>11. n < Len(v) /\ v[n + 1] = "CPAR" /\ Closes(v, h, n + 1)
    BY <1>10, ClosesOne
<1>12. n \in Nat /\ n + 1 \in Nat
    BY <1>9 DEF Closes
<1>13. Completes(v, Append(h, "command"), n + 1)
    BY <1>6, <1>11, Zenon DEF Closable
<1>14. Completes(v, Append(h, "subshell"), n + 1)
    BY <1>12, <1>13, By12
<1>15. Completes(v, Append(Append(Append(h, "OPAR"), "compound_list"), "CPAR"), n + 1)
    BY <1>12, <1>14, By14
<1>16. Completes(v, Append(Append(f, "compound_list"), "CPAR"), n + 1)
    BY <1>6, <1>15, Zenon
<1>17. Append(f, "compound_list") \in Seq(Vocabulary)
    BY <1>7, AppendProperties
<1>18. Completes(v, Append(f, "compound_list"), n)
    BY <1>7, <1>11, <1>12, <1>16, <1>17, TakeBack
<1>19. Completes(v, Append(Append(f, "linebreak"), "term"), n)
    BY <1>12, <1>18, By15
<1>20. QED
    BY <1>2, <1>19, Zenon

\* A list of conditions leads on.
LEMMA AndOrCloses ==
    ASSUME NEW v \in Sentences, NEW g \in Seq(Vocabulary), NEW n, NEW q \in {4, 31, 32, 56},
           At(g, q), Closes(v, g, n), n < Len(v) => Closable(v, n + 1)
    PROVE  Completes(v, Append(g, "and_or"), n)
<1>1. n \in Nat
    BY DEF Closes
<1>2. "newline_list" \in Vocabulary /\ "complete_commands" \in Vocabulary /\ "term" \in Vocabulary
    BY VocabularyIs
<1>3. CASE q = 4
    <2>1. Completes(v, Append(g, "complete_commands"), n)
        BY <1>3, CommandsClose
    <2>2. QED
        BY <1>1, <2>1, By5
<1>4. CASE q = 31
    <2>1. At(g, 31)
        BY <1>4
    <2>2. Completes(v, Append(g, "term"), n)
        BY <2>1, TermCloses
    <2>3. QED
        BY <1>1, <2>2, By18
<1>5. CASE q = 32
    <2>1. At(g, 32)
        BY <1>5
    <2>2. Peeled(g, "newline_list", {13})
        BY <2>1, EnteredAre, Peel, Zenon
    <2>3. PICK f \in Seq(Vocabulary) : \E p \in {13} : g = Append(f, "newline_list") /\ At(f, p)
        BY <2>2, Zenon DEF Peeled
    <2>4. At(f, 13)
        BY <2>3
    <2>5. Peeled(f, "complete_commands", {4})
        BY <2>4, EnteredAre, Peel, Zenon
    <2>6. PICK h \in Seq(Vocabulary) : \E p \in {4} : f = Append(h, "complete_commands") /\ At(h, p)
        BY <2>5, Zenon DEF Peeled
    <2>7. At(h, 4)
        BY <2>6
    <2>8. Closes(v, Append(f, "newline_list"), n)
        BY <2>3, Zenon
    <2>9. Closes(v, f, n)
        BY <1>2, <2>8, ClosesLess
    <2>10. Closes(v, Append(h, "complete_commands"), n)
        BY <2>6, <2>9, Zenon
    <2>11. Closes(v, h, n)
        BY <1>2, <2>10, ClosesLess
    <2>12. Completes(v, Append(h, "complete_commands"), n)
        BY <2>7, <2>11, CommandsClose
    <2>13. Completes(v, Append(Append(Append(h, "complete_commands"), "newline_list"), "and_or"), n)
        BY <1>1, <2>12, By4
    <2>14. QED
        BY <2>3, <2>6, <2>13, Zenon
<1>6. CASE q = 56
    <2>1. At(g, 56)
        BY <1>6
    <2>2. Peeled(g, "newline_list", {47})
        BY <2>1, EnteredAre, Peel, Zenon
    <2>3. PICK f \in Seq(Vocabulary) : \E p \in {47} : g = Append(f, "newline_list") /\ At(f, p)
        BY <2>2, Zenon DEF Peeled
    <2>4. At(f, 47)
        BY <2>3
    <2>5. Peeled(f, "term", {31})
        BY <2>4, EnteredAre, Peel, Zenon
    <2>6. PICK h \in Seq(Vocabulary) : \E p \in {31} : f = Append(h, "term") /\ At(h, p)
        BY <2>5, Zenon DEF Peeled
    <2>7. At(h, 31)
        BY <2>6
    <2>8. Closes(v, Append(f, "newline_list"), n)
        BY <2>3, Zenon
    <2>9. Closes(v, f, n)
        BY <1>2, <2>8, ClosesLess
    <2>10. Closes(v, Append(h, "term"), n)
        BY <2>6, <2>9, Zenon
    <2>11. Closes(v, h, n)
        BY <1>2, <2>10, ClosesLess
    <2>12. Completes(v, Append(h, "term"), n)
        BY <2>7, <2>11, TermCloses
    <2>13. Completes(v, Append(Append(Append(h, "term"), "newline_list"), "and_or"), n)
        BY <1>1, <2>12, By17
    <2>14. QED
        BY <2>3, <2>6, <2>13, Zenon
<1>7. QED
    BY <1>3, <1>4, <1>5, <1>6

\* A pipeline leads on.
LEMMA PipelineCloses ==
    ASSUME NEW v \in Sentences, NEW g \in Seq(Vocabulary), NEW n,
           NEW q \in {4, 31, 32, 49, 50, 56}, At(g, q), Closes(v, g, n),
           n < Len(v) => Closable(v, n + 1)
    PROVE  Completes(v, Append(g, "pipeline"), n)
<1>1. n \in Nat
    BY DEF Closes
<1>2. /\ "linebreak" \in Vocabulary /\ "AND_IF" \in Vocabulary /\ "OR_IF" \in Vocabulary
      /\ "and_or" \in Vocabulary
    BY VocabularyIs
<1>7. /\ Entered(14, "and_or", {4}) /\ Entered(46, "and_or", {31})
      /\ Entered(48, "and_or", {32}) /\ Entered(60, "and_or", {56})
    BY EnteredAre, Zenon
<1>8. \A s \in {14, 46, 48, 60} : \E B \in SUBSET {4, 31, 32, 56} : Entered(s, "and_or", B)
    BY <1>7
<1>3. CASE q \in {4, 31, 32, 56}
    <2>1. Completes(v, Append(g, "and_or"), n)
        BY <1>3, AndOrCloses
    <2>2. QED
        BY <1>1, <2>1, By6
<1>4. CASE q = 49
    <2>1. At(g, 49)
        BY <1>4
    <2>2. Peeled(g, "linebreak", {34})
        BY <2>1, EnteredAre, Peel, Zenon
    <2>3. PICK f \in Seq(Vocabulary) : \E p \in {34} : g = Append(f, "linebreak") /\ At(f, p)
        BY <2>2, Zenon DEF Peeled
    <2>4. At(f, 34)
        BY <2>3
    <2>5. Peeled(f, "AND_IF", {14, 46, 48, 60})
        BY <2>4, EnteredAre, Peel, Zenon
    <2>6. PICK h \in Seq(Vocabulary) : \E p \in {14, 46, 48, 60} : f = Append(h, "AND_IF") /\ At(h, p)
        BY <2>5, Zenon DEF Peeled
    <2>7. PICK p \in {14, 46, 48, 60} : f = Append(h, "AND_IF") /\ At(h, p)
        BY <2>6
    <2>8. PICK B \in SUBSET {4, 31, 32, 56} : Entered(p, "and_or", B)
        BY <1>8
    <2>9. Peeled(h, "and_or", B)
        BY <2>7, <2>8, Peel, Zenon
    <2>10. PICK e \in Seq(Vocabulary) : \E u \in B : h = Append(e, "and_or") /\ At(e, u)
        BY <2>9, Zenon DEF Peeled
    <2>11. PICK u \in {4, 31, 32, 56} : h = Append(e, "and_or") /\ At(e, u)
        BY <2>8, <2>10
    <2>12. Closes(v, Append(f, "linebreak"), n)
        BY <2>3, Zenon
    <2>13. Closes(v, f, n)
        BY <1>2, <2>12, ClosesLess
    <2>14. Closes(v, Append(h, "AND_IF"), n)
        BY <2>7, <2>13, Zenon
    <2>15. Closes(v, h, n)
        BY <1>2, <2>14, ClosesLess
    <2>16. Closes(v, Append(e, "and_or"), n)
        BY <2>11, <2>15, Zenon
    <2>17. Closes(v, e, n)
        BY <1>2, <2>16, ClosesLess
    <2>18. Completes(v, Append(e, "and_or"), n)
        BY <2>11, <2>17, AndOrCloses
    <2>19. Completes(v, Append(Append(Append(Append(e, "and_or"), "AND_IF"), "linebreak"), "pipeline"), n)
        BY <1>1, <2>18, By7
    <2>20. QED
        BY <2>3, <2>7, <2>11, <2>19, Zenon
<1>5. CASE q = 50
    <2>1. At(g, 50)
        BY <1>5
    <2>2. Peeled(g, "linebreak", {35})
        BY <2>1, EnteredAre, Peel, Zenon
    <2>3. PICK f \in Seq(Vocabulary) : \E p \in {35} : g = Append(f, "linebreak") /\ At(f, p)
        BY <2>2, Zenon DEF Peeled
    <2>4. At(f, 35)
        BY <2>3
    <2>5. Peeled(f, "OR_IF", {14, 46, 48, 60})
        BY <2>4, EnteredAre, Peel, Zenon
    <2>6. PICK h \in Seq(Vocabulary) : \E p \in {14, 46, 48, 60} : f = Append(h, "OR_IF") /\ At(h, p)
        BY <2>5, Zenon DEF Peeled
    <2>7. PICK p \in {14, 46, 48, 60} : f = Append(h, "OR_IF") /\ At(h, p)
        BY <2>6
    <2>8. PICK B \in SUBSET {4, 31, 32, 56} : Entered(p, "and_or", B)
        BY <1>8
    <2>9. Peeled(h, "and_or", B)
        BY <2>7, <2>8, Peel, Zenon
    <2>10. PICK e \in Seq(Vocabulary) : \E u \in B : h = Append(e, "and_or") /\ At(e, u)
        BY <2>9, Zenon DEF Peeled
    <2>11. PICK u \in {4, 31, 32, 56} : h = Append(e, "and_or") /\ At(e, u)
        BY <2>8, <2>10
    <2>12. Closes(v, Append(f, "linebreak"), n)
        BY <2>3, Zenon
    <2>13. Closes(v, f, n)
        BY <1>2, <2>12, ClosesLess
    <2>14. Closes(v, Append(h, "OR_IF"), n)
        BY <2>7, <2>13, Zenon
    <2>15. Closes(v, h, n)
        BY <1>2, <2>14, ClosesLess
    <2>16. Closes(v, Append(e, "and_or"), n)
        BY <2>11, <2>15, Zenon
    <2>17. Closes(v, e, n)
        BY <1>2, <2>16, ClosesLess
    <2>18. Completes(v, Append(e, "and_or"), n)
        BY <2>11, <2>17, AndOrCloses
    <2>19. Completes(v, Append(Append(Append(Append(e, "and_or"), "OR_IF"), "linebreak"), "pipeline"), n)
        BY <1>1, <2>18, By8
    <2>20. QED
        BY <2>3, <2>7, <2>11, <2>19, Zenon
<1>6. QED
    BY <1>3, <1>4, <1>5

\* A command leads on.
LEMMA CommandCloses ==
    ASSUME NEW v \in Sentences, NEW n, n < Len(v) => Closable(v, n + 1)
    PROVE  Closable(v, n)
<1> SUFFICES ASSUME NEW g \in Seq(Vocabulary), NEW q \in CommandStarts, At(g, q), Closes(v, g, n)
             PROVE  Completes(v, Append(g, "command"), n)
    BY DEF Closable
<1>1. n \in Nat
    BY DEF Closes
<1>2. "linebreak" \in Vocabulary /\ "PIPE" \in Vocabulary /\ "pipeline" \in Vocabulary
    BY VocabularyIs
<1>7. /\ Entered(15, "pipeline", {4, 31, 32, 56}) /\ Entered(57, "pipeline", {49})
      /\ Entered(58, "pipeline", {50})
    BY EnteredAre, Zenon
<1>3. \A s \in {15, 57, 58} : \E B \in SUBSET {4, 31, 32, 49, 50, 56} : Entered(s, "pipeline", B)
    BY <1>7
<1>4. CASE q # 51
    <2>1. q \in {4, 31, 32, 49, 50, 56}
        BY <1>4 DEF CommandStarts
    <2>2. Completes(v, Append(g, "pipeline"), n)
        BY <2>1, PipelineCloses
    <2>3. QED
        BY <1>1, <2>2, By9
<1>5. CASE q = 51
    <2>1. At(g, 51)
        BY <1>5
    <2>2. Peeled(g, "linebreak", {36})
        BY <2>1, EnteredAre, Peel, Zenon
    <2>3. PICK f \in Seq(Vocabulary) : \E p \in {36} : g = Append(f, "linebreak") /\ At(f, p)
        BY <2>2, Zenon DEF Peeled
    <2>4. At(f, 36)
        BY <2>3
    <2>5. Peeled(f, "PIPE", {15, 57, 58})
        BY <2>4, EnteredAre, Peel, Zenon
    <2>6. PICK h \in Seq(Vocabulary) : \E p \in {15, 57, 58} : f = Append(h, "PIPE") /\ At(h, p)
        BY <2>5, Zenon DEF Peeled
    <2>7. PICK p \in {15, 57, 58} : f = Append(h, "PIPE") /\ At(h, p)
        BY <2>6
    <2>8. PICK B \in SUBSET {4, 31, 32, 49, 50, 56} : Entered(p, "pipeline", B)
        BY <1>3
    <2>9. Peeled(h, "pipeline", B)
        BY <2>7, <2>8, Peel, Zenon
    <2>10. PICK e \in Seq(Vocabulary) : \E u \in B : h = Append(e, "pipeline") /\ At(e, u)
        BY <2>9, Zenon DEF Peeled
    <2>11. PICK u \in {4, 31, 32, 49, 50, 56} : h = Append(e, "pipeline") /\ At(e, u)
        BY <2>8, <2>10
    <2>12. Closes(v, Append(f, "linebreak"), n)
        BY <2>3, Zenon
    <2>13. Closes(v, f, n)
        BY <1>2, <2>12, ClosesLess
    <2>14. Closes(v, Append(h, "PIPE"), n)
        BY <2>7, <2>13, Zenon
    <2>15. Closes(v, h, n)
        BY <1>2, <2>14, ClosesLess
    <2>16. Closes(v, Append(e, "pipeline"), n)
        BY <2>11, <2>15, Zenon
    <2>17. Closes(v, e, n)
        BY <1>2, <2>16, ClosesLess
    <2>18. Completes(v, Append(e, "pipeline"), n)
        BY <2>11, <2>17, PipelineCloses
    <2>19. Completes(v, Append(Append(Append(Append(e, "pipeline"), "PIPE"), "linebreak"), "command"), n)
        BY <1>1, <2>18, By10
    <2>20. QED
        BY <2>3, <2>7, <2>11, <2>19, Zenon
<1>6. QED
    BY <1>4, <1>5

\* All parentheses can be closed.
LEMMA AllClose ==
    ASSUME NEW v \in Sentences, NEW n \in Nat, n <= Len(v)
    PROVE  Closable(v, n)
<1> DEFINE S == {k \in 0 .. Len(v) : Closable(v, Len(v) - k)}
<1>1. Len(v) \in Nat
    BY SentenceIs
<1>2. 0 \in S
    <2>1. 0 \in 0 .. Len(v) /\ ~(Len(v) - 0 < Len(v))
        BY <1>1
    <2>2. Closable(v, Len(v) - 0)
        BY <2>1, CommandCloses
    <2>3. QED
        BY <2>1, <2>2
<1>3. ASSUME NEW k \in 1 .. Len(v), k - 1 \in S PROVE k \in S
    <2>1. (Len(v) - k) + 1 = Len(v) - (k - 1)
        BY <1>1
    <2>2. Closable(v, (Len(v) - k) + 1)
        BY <1>3, <2>1
    <2>3. Closable(v, Len(v) - k)
        BY <2>2, CommandCloses
    <2>4. QED
        BY <1>1, <2>3
<1> HIDE DEF S
<1>4. \A k \in 0 .. Len(v) : k \in S
    BY <1>1, <1>2, <1>3, UpTo
<1>5. Len(v) - n \in 0 .. Len(v) /\ Len(v) - (Len(v) - n) = n
    BY <1>1
<1>6. Len(v) - n \in S
    BY <1>4, <1>5
<1>7. QED
    BY <1>5, <1>6 DEF S

--------------------------------------------------------------------------------
(* What is missing where a text is rejected                                     *)

\* A command leads on to the parentheses that close all.
LEMMA CommandLeads ==
    ASSUME NEW v \in Sentences, NEW g \in Seq(Vocabulary), NEW n, NEW q \in CommandStarts,
           At(g, q), Closes(v, g, n)
    PROVE  Completes(v, Append(g, "command"), n)
<1>1. n \in Nat /\ n <= Len(v)
    BY DEF Closes
<1>2. Closable(v, n)
    BY <1>1, AllClose
<1>3. QED
    BY <1>2, Zenon DEF Closable

\* A redirection after a subshell.
LEMMA RedirAfterSubshell ==
    ASSUME NEW v \in Sentences, NEW g \in Seq(Vocabulary), NEW n, At(g, 17), Closes(v, g, n)
    PROVE  Completes(v, Append(g, "io_redirect"), n)
<1>1. n \in Nat
    BY DEF Closes
<1>2. "subshell" \in Vocabulary
    BY VocabularyIs
<1>3. Peeled(g, "subshell", CommandStarts)
    BY EnteredAre, Peel, Zenon
<1>4. PICK f \in Seq(Vocabulary) : \E p \in CommandStarts : g = Append(f, "subshell") /\ At(f, p)
    BY <1>3, Zenon DEF Peeled
<1>5. PICK p \in CommandStarts : g = Append(f, "subshell") /\ At(f, p)
    BY <1>4
<1>6. Closes(v, Append(f, "subshell"), n)
    BY <1>5, Zenon
<1>7. Closes(v, f, n)
    BY <1>2, <1>6, ClosesLess
<1>8. Completes(v, Append(f, "command"), n)
    BY <1>5, <1>7, CommandLeads
<1>9. Completes(v, Append(Append(f, "subshell"), "redirect_list"), n)
    BY <1>1, <1>8, By13
<1>10. Completes(v, Append(g, "redirect_list"), n)
    BY <1>9, <1>5, Zenon
<1>11. Completes(v, Append(g, "io_redirect"), n)
    BY <1>1, <1>10, By32
<1>12. QED
    BY <1>11

\* One more of them.
LEMMA RedirAfterList ==
    ASSUME NEW v \in Sentences, NEW g \in Seq(Vocabulary), NEW n, At(g, 37), Closes(v, g, n)
    PROVE  Completes(v, Append(g, "io_redirect"), n)
<1>1. n \in Nat
    BY DEF Closes
<1>2. "redirect_list" \in Vocabulary /\ "subshell" \in Vocabulary
    BY VocabularyIs
<1>3. Peeled(g, "redirect_list", {17})
    BY EnteredAre, Peel, Zenon
<1>4. PICK f \in Seq(Vocabulary) : \E p \in {17} : g = Append(f, "redirect_list") /\ At(f, p)
    BY <1>3, Zenon DEF Peeled
<1>5. g = Append(f, "redirect_list") /\ At(f, 17)
    BY <1>4
<1>6. Closes(v, Append(f, "redirect_list"), n)
    BY <1>5, Zenon
<1>7. Closes(v, f, n)
    BY <1>2, <1>6, ClosesLess
<1>8. Peeled(f, "subshell", CommandStarts)
    BY <1>5, EnteredAre, Peel, Zenon
<1>9. PICK h \in Seq(Vocabulary) : \E p \in CommandStarts : f = Append(h, "subshell") /\ At(h, p)
    BY <1>8, Zenon DEF Peeled
<1>10. PICK p \in CommandStarts : f = Append(h, "subshell") /\ At(h, p)
    BY <1>9
<1>11. Closes(v, Append(h, "subshell"), n)
    BY <1>7, <1>10, Zenon
<1>12. Closes(v, h, n)
    BY <1>2, <1>11, ClosesLess
<1>13. Completes(v, Append(h, "command"), n)
    BY <1>10, <1>12, CommandLeads
<1>14. Completes(v, Append(Append(h, "subshell"), "redirect_list"), n)
    BY <1>1, <1>13, By13
<1>15. Completes(v, Append(f, "redirect_list"), n)
    BY <1>14, <1>10, Zenon
<1>16. Completes(v, Append(Append(f, "redirect_list"), "io_redirect"), n)
    BY <1>1, <1>15, By33
<1>17. QED
    BY <1>16, <1>5, Zenon

\* A redirection after the name of a command.
LEMMA RedirAfterName ==
    ASSUME NEW v \in Sentences, NEW g \in Seq(Vocabulary), NEW n, At(g, 19), Closes(v, g, n)
    PROVE  Completes(v, Append(g, "io_redirect"), n)
<1>1. n \in Nat
    BY DEF Closes
<1>2. "cmd_name" \in Vocabulary
    BY VocabularyIs
<1>3. Peeled(g, "cmd_name", CommandStarts)
    BY EnteredAre, Peel, Zenon
<1>4. PICK f \in Seq(Vocabulary) : \E p \in CommandStarts : g = Append(f, "cmd_name") /\ At(f, p)
    BY <1>3, Zenon DEF Peeled
<1>5. PICK p \in CommandStarts : g = Append(f, "cmd_name") /\ At(f, p)
    BY <1>4
<1>6. Closes(v, Append(f, "cmd_name"), n)
    BY <1>5, Zenon
<1>7. Closes(v, f, n)
    BY <1>2, <1>6, ClosesLess
<1>8. Completes(v, Append(f, "command"), n)
    BY <1>5, <1>7, CommandLeads
<1>9. Completes(v, Append(f, "simple_command"), n)
    BY <1>1, <1>8, By11
<1>10. Completes(v, Append(Append(f, "cmd_name"), "cmd_suffix"), n)
    BY <1>1, <1>9, By22
<1>11. Completes(v, Append(g, "cmd_suffix"), n)
    BY <1>10, <1>5, Zenon
<1>12. Completes(v, Append(g, "io_redirect"), n)
    BY <1>1, <1>11, By28
<1>13. QED
    BY <1>12

\* A redirection among its words.
LEMMA RedirAfterSuffix ==
    ASSUME NEW v \in Sentences, NEW g \in Seq(Vocabulary), NEW n, At(g, 40), Closes(v, g, n)
    PROVE  Completes(v, Append(g, "io_redirect"), n)
<1>1. n \in Nat
    BY DEF Closes
<1>2. "cmd_name" \in Vocabulary /\ "cmd_suffix" \in Vocabulary
    BY VocabularyIs
<1>3. Peeled(g, "cmd_suffix", {19})
    BY EnteredAre, Peel, Zenon
<1>4. PICK f \in Seq(Vocabulary) : \E p \in {19} : g = Append(f, "cmd_suffix") /\ At(f, p)
    BY <1>3, Zenon DEF Peeled
<1>5. g = Append(f, "cmd_suffix") /\ At(f, 19)
    BY <1>4
<1>6. Closes(v, Append(f, "cmd_suffix"), n)
    BY <1>5, Zenon
<1>7. Closes(v, f, n)
    BY <1>2, <1>6, ClosesLess
<1>8. Peeled(f, "cmd_name", CommandStarts)
    BY <1>5, EnteredAre, Peel, Zenon
<1>9. PICK h \in Seq(Vocabulary) : \E p \in CommandStarts : f = Append(h, "cmd_name") /\ At(h, p)
    BY <1>8, Zenon DEF Peeled
<1>10. PICK p \in CommandStarts : f = Append(h, "cmd_name") /\ At(h, p)
    BY <1>9
<1>11. Closes(v, Append(h, "cmd_name"), n)
    BY <1>7, <1>10, Zenon
<1>12. Closes(v, h, n)
    BY <1>2, <1>11, ClosesLess
<1>13. Completes(v, Append(h, "command"), n)
    BY <1>10, <1>12, CommandLeads
<1>14. Completes(v, Append(h, "simple_command"), n)
    BY <1>1, <1>13, By11
<1>15. Completes(v, Append(Append(h, "cmd_name"), "cmd_suffix"), n)
    BY <1>1, <1>14, By22
<1>16. Completes(v, Append(f, "cmd_suffix"), n)
    BY <1>15, <1>10, Zenon
<1>17. Completes(v, Append(Append(f, "cmd_suffix"), "io_redirect"), n)
    BY <1>1, <1>16, By29
<1>18. QED
    BY <1>17, <1>5, Zenon

\* A redirection after others, before the name.
LEMMA RedirAfterPrefix ==
    ASSUME NEW v \in Sentences, NEW g \in Seq(Vocabulary), NEW n, At(g, 20), Closes(v, g, n)
    PROVE  Completes(v, Append(g, "io_redirect"), n)
<1>1. n \in Nat
    BY DEF Closes
<1>2. "cmd_prefix" \in Vocabulary
    BY VocabularyIs
<1>3. Peeled(g, "cmd_prefix", CommandStarts)
    BY EnteredAre, Peel, Zenon
<1>4. PICK f \in Seq(Vocabulary) : \E p \in CommandStarts : g = Append(f, "cmd_prefix") /\ At(f, p)
    BY <1>3, Zenon DEF Peeled
<1>5. PICK p \in CommandStarts : g = Append(f, "cmd_prefix") /\ At(f, p)
    BY <1>4
<1>6. Closes(v, Append(f, "cmd_prefix"), n)
    BY <1>5, Zenon
<1>7. Closes(v, f, n)
    BY <1>2, <1>6, ClosesLess
<1>8. Completes(v, Append(f, "command"), n)
    BY <1>5, <1>7, CommandLeads
<1>9. Completes(v, Append(f, "simple_command"), n)
    BY <1>1, <1>8, By11
<1>10. Completes(v, Append(f, "cmd_prefix"), n)
    BY <1>1, <1>9, By21
<1>11. Completes(v, Append(Append(f, "cmd_prefix"), "io_redirect"), n)
    BY <1>1, <1>10, By27
<1>12. QED
    BY <1>11, <1>5, Zenon

\* A redirection after the name that follows others.
LEMMA RedirAfterWord ==
    ASSUME NEW v \in Sentences, NEW g \in Seq(Vocabulary), NEW n, At(g, 43), Closes(v, g, n)
    PROVE  Completes(v, Append(g, "io_redirect"), n)
<1>1. n \in Nat
    BY DEF Closes
<1>2. "cmd_prefix" \in Vocabulary /\ "cmd_word" \in Vocabulary
    BY VocabularyIs
<1>3. Peeled(g, "cmd_word", {20})
    BY EnteredAre, Peel, Zenon
<1>4. PICK f \in Seq(Vocabulary) : \E p \in {20} : g = Append(f, "cmd_word") /\ At(f, p)
    BY <1>3, Zenon DEF Peeled
<1>5. g = Append(f, "cmd_word") /\ At(f, 20)
    BY <1>4
<1>6. Closes(v, Append(f, "cmd_word"), n)
    BY <1>5, Zenon
<1>7. Closes(v, f, n)
    BY <1>2, <1>6, ClosesLess
<1>8. Peeled(f, "cmd_prefix", CommandStarts)
    BY <1>5, EnteredAre, Peel, Zenon
<1>9. PICK h \in Seq(Vocabulary) : \E p \in CommandStarts : f = Append(h, "cmd_prefix") /\ At(h, p)
    BY <1>8, Zenon DEF Peeled
<1>10. PICK p \in CommandStarts : f = Append(h, "cmd_prefix") /\ At(h, p)
    BY <1>9
<1>11. Closes(v, Append(h, "cmd_prefix"), n)
    BY <1>7, <1>10, Zenon
<1>12. Closes(v, h, n)
    BY <1>2, <1>11, ClosesLess
<1>13. Completes(v, Append(h, "command"), n)
    BY <1>10, <1>12, CommandLeads
<1>14. Completes(v, Append(h, "simple_command"), n)
    BY <1>1, <1>13, By11
<1>15. Completes(v, Append(Append(Append(h, "cmd_prefix"), "cmd_word"), "cmd_suffix"), n)
    BY <1>1, <1>14, By19
<1>16. Completes(v, Append(g, "cmd_suffix"), n)
    BY <1>15, <1>5, <1>10, Zenon
<1>17. Completes(v, Append(g, "io_redirect"), n)
    BY <1>1, <1>16, By28
<1>18. QED
    BY <1>17

\* A redirection among the words after it.
LEMMA RedirAmongWords ==
    ASSUME NEW v \in Sentences, NEW g \in Seq(Vocabulary), NEW n, At(g, 55), Closes(v, g, n)
    PROVE  Completes(v, Append(g, "io_redirect"), n)
<1>1. n \in Nat
    BY DEF Closes
<1>2. "cmd_prefix" \in Vocabulary /\ "cmd_suffix" \in Vocabulary /\ "cmd_word" \in Vocabulary
    BY VocabularyIs
<1>3. Peeled(g, "cmd_suffix", {43})
    BY EnteredAre, Peel, Zenon
<1>4. PICK f \in Seq(Vocabulary) : \E p \in {43} : g = Append(f, "cmd_suffix") /\ At(f, p)
    BY <1>3, Zenon DEF Peeled
<1>5. g = Append(f, "cmd_suffix") /\ At(f, 43)
    BY <1>4
<1>6. Closes(v, Append(f, "cmd_suffix"), n)
    BY <1>5, Zenon
<1>7. Closes(v, f, n)
    BY <1>2, <1>6, ClosesLess
<1>8. Peeled(f, "cmd_word", {20})
    BY <1>5, EnteredAre, Peel, Zenon
<1>9. PICK h \in Seq(Vocabulary) : \E p \in {20} : f = Append(h, "cmd_word") /\ At(h, p)
    BY <1>8, Zenon DEF Peeled
<1>10. f = Append(h, "cmd_word") /\ At(h, 20)
    BY <1>9
<1>11. Closes(v, Append(h, "cmd_word"), n)
    BY <1>7, <1>10, Zenon
<1>12. Closes(v, h, n)
    BY <1>2, <1>11, ClosesLess
<1>13. Peeled(h, "cmd_prefix", CommandStarts)
    BY <1>10, EnteredAre, Peel, Zenon
<1>14. PICK e \in Seq(Vocabulary) : \E p \in CommandStarts : h = Append(e, "cmd_prefix") /\ At(e, p)
    BY <1>13, Zenon DEF Peeled
<1>15. PICK p \in CommandStarts : h = Append(e, "cmd_prefix") /\ At(e, p)
    BY <1>14
<1>16. Closes(v, Append(e, "cmd_prefix"), n)
    BY <1>12, <1>15, Zenon
<1>17. Closes(v, e, n)
    BY <1>2, <1>16, ClosesLess
<1>18. Completes(v, Append(e, "command"), n)
    BY <1>15, <1>17, CommandLeads
<1>19. Completes(v, Append(e, "simple_command"), n)
    BY <1>1, <1>18, By11
<1>20. Completes(v, Append(Append(Append(e, "cmd_prefix"), "cmd_word"), "cmd_suffix"), n)
    BY <1>1, <1>19, By19
<1>21. Completes(v, Append(f, "cmd_suffix"), n)
    BY <1>20, <1>10, <1>15, Zenon
<1>22. Completes(v, Append(Append(f, "cmd_suffix"), "io_redirect"), n)
    BY <1>1, <1>21, By29
<1>23. QED
    BY <1>22, <1>5, Zenon

\* Wherever a redirection can start, it leads on.
LEMMA RedirLeads ==
    ASSUME NEW v \in Sentences, NEW g \in Seq(Vocabulary), NEW n, NEW q \in RedirStarts,
           At(g, q), Closes(v, g, n)
    PROVE  Completes(v, Append(g, "io_redirect"), n)
<1>1. n \in Nat
    BY DEF Closes
<1>2. CASE q \in CommandStarts
    <2>1. Completes(v, Append(g, "command"), n)
        BY <1>2, CommandLeads
    <2>2. Completes(v, Append(g, "simple_command"), n)
        BY <1>1, <2>1, By11
    <2>3. Completes(v, Append(g, "cmd_prefix"), n)
        BY <1>1, <2>2, By21
    <2>4. QED
        BY <1>1, <2>3, By26
<1>3. CASE q = 17
    <2>1. At(g, 17)
        BY <1>3
    <2>2. QED
        BY <2>1, RedirAfterSubshell
<1>4. CASE q = 19
    <2>1. At(g, 19)
        BY <1>4
    <2>2. QED
        BY <2>1, RedirAfterName
<1>5. CASE q = 20
    <2>1. At(g, 20)
        BY <1>5
    <2>2. QED
        BY <2>1, RedirAfterPrefix
<1>6. CASE q = 37
    <2>1. At(g, 37)
        BY <1>6
    <2>2. QED
        BY <2>1, RedirAfterList
<1>7. CASE q = 40
    <2>1. At(g, 40)
        BY <1>7
    <2>2. QED
        BY <2>1, RedirAfterSuffix
<1>8. CASE q = 43
    <2>1. At(g, 43)
        BY <1>8
    <2>2. QED
        BY <2>1, RedirAfterWord
<1>9. CASE q = 55
    <2>1. At(g, 55)
        BY <1>9
    <2>2. QED
        BY <2>1, RedirAmongWords
<1>10. QED
    BY <1>2, <1>3, <1>4, <1>5, <1>6, <1>7, <1>8, <1>9 DEF RedirStarts

\* After < a word is missing.
LEMMA WordAfterLess ==
    ASSUME NEW v \in Sentences, NEW g \in Seq(Vocabulary), NEW n \in Nat, v[n + 1] = "WORD",
           At(g, 8), Closes(v, g, n + 1)
    PROVE  Completes(v, g, n)
<1>1. n + 1 \in Nat /\ "WORD" \in Terminals
    BY VocabularyIs
<1>2. "LESS" \in Vocabulary
    BY VocabularyIs
<1>3. Peeled(g, "LESS", RedirStarts)
    BY EnteredAre, Peel, Zenon
<1>4. PICK f \in Seq(Vocabulary) : \E p \in RedirStarts : g = Append(f, "LESS") /\ At(f, p)
    BY <1>3, Zenon DEF Peeled
<1>5. PICK p \in RedirStarts : g = Append(f, "LESS") /\ At(f, p)
    BY <1>4
<1>6. Closes(v, Append(f, "LESS"), n + 1)
    BY <1>5, Zenon
<1>7. Closes(v, f, n + 1)
    BY <1>2, <1>6, ClosesLess
<1>8. Completes(v, Append(f, "io_redirect"), n + 1)
    BY <1>5, <1>7, RedirLeads
<1>9. Completes(v, Append(f, "io_file"), n + 1)
    BY <1>1, <1>8, By34
<1>10. Completes(v, Append(Append(f, "LESS"), "filename"), n + 1)
    BY <1>1, <1>9, By36
<1>11. Completes(v, Append(g, "filename"), n + 1)
    BY <1>10, <1>5, Zenon
<1>12. Completes(v, Append(g, "WORD"), n + 1)
    BY <1>1, <1>11, By39
<1>13. QED
    BY <1>1, <1>12, TakeBack

\* After > a word is missing.
LEMMA WordAfterGreat ==
    ASSUME NEW v \in Sentences, NEW g \in Seq(Vocabulary), NEW n \in Nat, v[n + 1] = "WORD",
           At(g, 9), Closes(v, g, n + 1)
    PROVE  Completes(v, g, n)
<1>1. n + 1 \in Nat /\ "WORD" \in Terminals
    BY VocabularyIs
<1>2. "GREAT" \in Vocabulary
    BY VocabularyIs
<1>3. Peeled(g, "GREAT", RedirStarts)
    BY EnteredAre, Peel, Zenon
<1>4. PICK f \in Seq(Vocabulary) : \E p \in RedirStarts : g = Append(f, "GREAT") /\ At(f, p)
    BY <1>3, Zenon DEF Peeled
<1>5. PICK p \in RedirStarts : g = Append(f, "GREAT") /\ At(f, p)
    BY <1>4
<1>6. Closes(v, Append(f, "GREAT"), n + 1)
    BY <1>5, Zenon
<1>7. Closes(v, f, n + 1)
    BY <1>2, <1>6, ClosesLess
<1>8. Completes(v, Append(f, "io_redirect"), n + 1)
    BY <1>5, <1>7, RedirLeads
<1>9. Completes(v, Append(f, "io_file"), n + 1)
    BY <1>1, <1>8, By34
<1>10. Completes(v, Append(Append(f, "GREAT"), "filename"), n + 1)
    BY <1>1, <1>9, By37
<1>11. Completes(v, Append(g, "filename"), n + 1)
    BY <1>10, <1>5, Zenon
<1>12. Completes(v, Append(g, "WORD"), n + 1)
    BY <1>1, <1>11, By39
<1>13. QED
    BY <1>1, <1>12, TakeBack

\* After >> a word is missing.
LEMMA WordAfterDgreat ==
    ASSUME NEW v \in Sentences, NEW g \in Seq(Vocabulary), NEW n \in Nat, v[n + 1] = "WORD",
           At(g, 11), Closes(v, g, n + 1)
    PROVE  Completes(v, g, n)
<1>1. n + 1 \in Nat /\ "WORD" \in Terminals
    BY VocabularyIs
<1>2. "DGREAT" \in Vocabulary
    BY VocabularyIs
<1>3. Peeled(g, "DGREAT", RedirStarts)
    BY EnteredAre, Peel, Zenon
<1>4. PICK f \in Seq(Vocabulary) : \E p \in RedirStarts : g = Append(f, "DGREAT") /\ At(f, p)
    BY <1>3, Zenon DEF Peeled
<1>5. PICK p \in RedirStarts : g = Append(f, "DGREAT") /\ At(f, p)
    BY <1>4
<1>6. Closes(v, Append(f, "DGREAT"), n + 1)
    BY <1>5, Zenon
<1>7. Closes(v, f, n + 1)
    BY <1>2, <1>6, ClosesLess
<1>8. Completes(v, Append(f, "io_redirect"), n + 1)
    BY <1>5, <1>7, RedirLeads
<1>9. Completes(v, Append(f, "io_file"), n + 1)
    BY <1>1, <1>8, By34
<1>10. Completes(v, Append(Append(f, "DGREAT"), "filename"), n + 1)
    BY <1>1, <1>9, By38
<1>11. Completes(v, Append(g, "filename"), n + 1)
    BY <1>10, <1>5, Zenon
<1>12. Completes(v, Append(g, "WORD"), n + 1)
    BY <1>1, <1>11, By39
<1>13. QED
    BY <1>1, <1>12, TakeBack

\* After << a word is missing.
LEMMA WordAfterDless ==
    ASSUME NEW v \in Sentences, NEW g \in Seq(Vocabulary), NEW n \in Nat, v[n + 1] = "WORD",
           At(g, 10), Closes(v, g, n + 1)
    PROVE  Completes(v, g, n)
<1>1. n + 1 \in Nat /\ "WORD" \in Terminals
    BY VocabularyIs
<1>2. "DLESS" \in Vocabulary
    BY VocabularyIs
<1>3. Peeled(g, "DLESS", RedirStarts)
    BY EnteredAre, Peel, Zenon
<1>4. PICK f \in Seq(Vocabulary) : \E p \in RedirStarts : g = Append(f, "DLESS") /\ At(f, p)
    BY <1>3, Zenon DEF Peeled
<1>5. PICK p \in RedirStarts : g = Append(f, "DLESS") /\ At(f, p)
    BY <1>4
<1>6. Closes(v, Append(f, "DLESS"), n + 1)
    BY <1>5, Zenon
<1>7. Closes(v, f, n + 1)
    BY <1>2, <1>6, ClosesLess
<1>8. Completes(v, Append(f, "io_redirect"), n + 1)
    BY <1>5, <1>7, RedirLeads
<1>9. Completes(v, Append(f, "io_here"), n + 1)
    BY <1>1, <1>8, By35
<1>10. Completes(v, Append(Append(f, "DLESS"), "here_end"), n + 1)
    BY <1>1, <1>9, By40
<1>11. Completes(v, Append(g, "here_end"), n + 1)
    BY <1>10, <1>5, Zenon
<1>12. Completes(v, Append(g, "WORD"), n + 1)
    BY <1>1, <1>11, By41
<1>13. QED
    BY <1>1, <1>12, TakeBack

\* Where a command must come, a word is missing.
LEMMA WordStarts ==
    ASSUME NEW v \in Sentences, NEW g \in Seq(Vocabulary), NEW n \in Nat, v[n + 1] = "WORD",
           NEW q \in CommandStarts, At(g, q), Closes(v, g, n + 1)
    PROVE  Completes(v, g, n)
<1>1. n + 1 \in Nat /\ "WORD" \in Terminals
    BY VocabularyIs
<1>2. Completes(v, Append(g, "command"), n + 1)
    BY CommandLeads
<1>3. Completes(v, Append(g, "simple_command"), n + 1)
    BY <1>1, <1>2, By11
<1>4. Completes(v, Append(g, "cmd_name"), n + 1)
    BY <1>1, <1>3, By23
<1>5. Completes(v, Append(g, "WORD"), n + 1)
    BY <1>1, <1>4, By24
<1>6. QED
    BY <1>1, <1>5, TakeBack

\* At the end of a list in parentheses, these are to be closed.
LEMMA ListCloses ==
    ASSUME NEW v \in Sentences, NEW g \in Seq(Vocabulary), NEW n, At(g, 30), Closes(v, g, n)
    PROVE  Completes(v, g, n)
<1>1. Peeled(g, "compound_list", {12})
    BY EnteredAre, Peel, Zenon
<1>2. PICK f \in Seq(Vocabulary) : \E p \in {12} : g = Append(f, "compound_list") /\ At(f, p)
    BY <1>1, Zenon DEF Peeled
<1>3. g = Append(f, "compound_list") /\ At(f, 12)
    BY <1>2
<1>4. Peeled(f, "OPAR", CommandStarts)
    BY <1>3, EnteredAre, Peel, Zenon
<1>5. PICK h \in Seq(Vocabulary) : \E p \in CommandStarts : f = Append(h, "OPAR") /\ At(h, p)
    BY <1>4, Zenon DEF Peeled
<1>6. PICK p \in CommandStarts : f = Append(h, "OPAR") /\ At(h, p)
    BY <1>5
<1>7. "compound_list" \in Vocabulary /\ "CPAR" \in Terminals
    BY VocabularyIs
<1>8. Closes(v, Append(f, "compound_list"), n)
    BY <1>3, Zenon
<1>9. Closes(v, f, n)
    BY <1>7, <1>8, ClosesLess
<1>10. Closes(v, Append(h, "OPAR"), n)
    BY <1>6, <1>9, Zenon
<1>11. n < Len(v) /\ v[n + 1] = "CPAR" /\ Closes(v, h, n + 1)
    BY <1>10, ClosesOne
<1>12. n \in Nat /\ n + 1 \in Nat
    BY <1>9 DEF Closes
<1>13. Completes(v, Append(h, "command"), n + 1)
    BY <1>6, <1>11, CommandLeads
<1>14. Completes(v, Append(h, "subshell"), n + 1)
    BY <1>12, <1>13, By12
<1>15. Completes(v, Append(Append(Append(h, "OPAR"), "compound_list"), "CPAR"), n + 1)
    BY <1>12, <1>14, By14
<1>16. Completes(v, Append(g, "CPAR"), n + 1)
    BY <1>3, <1>6, <1>15, Zenon
<1>17. QED
    BY <1>7, <1>11, <1>12, <1>16, TakeBack

--------------------------------------------------------------------------------
(* A text that is rejected could have been completed before                     *)

\* The parentheses that are open after the classes c, and what closes them, after a word or none.
Opening(c) == Count(c, "OPAR") - Count(c, "CPAR")
Closing(c) == [i \in 1 .. Opening(c) |-> "CPAR"]
Completed(c, word) == c \o word \o Closing(c)

\* Some program starts with c if it can be completed.
LEMMA ViableIs ==
    ASSUME NEW c
    PROVE  Viable(c) <=> Derives(Completed(c, << >>)) \/ Derives(Completed(c, <<"WORD">>))
<1>1. Viable(c) <=> \E word \in {<< >>, <<"WORD">>} : Derives(Completed(c, word))
    BY Zenon DEF Viable, Completed, Closing, Opening
<1>2. QED
    BY <1>1, Zenon

\* How many are open is the level after the last class.
LEMMA OpeningIs ==
    ASSUME NEW c \in Sentences
    PROVE  Opening(c) = Level(c, Len(c)) /\ Opening(c) \in Int
<1>1. Len(c) \in Nat /\ DOMAIN c = 1 .. Len(c)
    BY SentenceIs, LenProperties
<1>2. ASSUME NEW s PROVE Count(c, s) = Tally(c, Len(c), {s})
    <2>1. {i \in DOMAIN c : c[i] = s} = {i \in 1 .. Len(c) : c[i] \in {s}}
        BY <1>1
    <2>2. QED
        BY <2>1, Zenon DEF Count, Tally
<1>3. Count(c, "OPAR") = Tally(c, Len(c), {"OPAR"}) /\ Count(c, "CPAR") = Tally(c, Len(c), {"CPAR"})
    BY <1>2
<1>4. Opening(c) = Level(c, Len(c))
    BY <1>3, Zenon DEF Opening, Level
<1>5. Tally(c, Len(c), {"OPAR"}) \in Nat /\ Tally(c, Len(c), {"CPAR"}) \in Nat
    BY <1>1, TallyIs
<1>6. Level(c, Len(c)) \in Int
    BY <1>5 DEF Level
<1>7. QED
    BY <1>4, <1>6

\* v starts with the classes c, goes on with k words, and then closes the parentheses.
Completion(v, c, k) ==
    /\ v \in Sentences /\ Len(v) >= Len(c) + k
    /\ Opening(c) \in Nat => Len(v) = Len(c) + k + Opening(c)
    /\ \A i \in 1 .. Len(c) : v[i] = c[i]
    /\ \A i \in (Len(c) + 1) .. (Len(c) + k) : v[i] = "WORD"
    /\ \A i \in (Len(c) + k + 1) .. Len(v) : v[i] = "CPAR"

\* So does what completes c.
LEMMA CompletedIs ==
    ASSUME NEW c \in Sentences, NEW u \in Seq({"WORD"})
    PROVE  Completion(Completed(c, u), c, Len(u))
<1>1. "WORD" \in Terminals \ {"EOF"} /\ "CPAR" \in Terminals \ {"EOF"}
    BY VocabularyIs
<1>2. PICK T : T = Terminals \ {"EOF"}
    OBVIOUS
<1>3. c \in Seq(T) /\ "WORD" \in T /\ "CPAR" \in T
    BY <1>1, <1>2 DEF Sentences
<1>4. u \in Seq(T)
    BY <1>3, SeqMonotonic
<1>5. Opening(c) \in Int
    BY OpeningIs
<1>6. PICK z : z = Closing(c)
    OBVIOUS
<1>7. /\ z \in Seq(T) /\ (\A i \in 1 .. Len(z) : z[i] = "CPAR")
      /\ Len(z) \in Nat /\ (Opening(c) \in Nat => Len(z) = Opening(c))
    <2>1. CASE Opening(c) \in Nat
        BY <1>3, <1>6, <2>1 DEF Closing
    <2>2. CASE Opening(c) \notin Nat
        <3>1. 1 .. Opening(c) = 1 .. 0
            BY <1>5, <2>2
        <3>2. z = [i \in 1 .. 0 |-> "CPAR"]
            BY <1>6, <3>1 DEF Closing
        <3>3. QED
            BY <1>3, <2>2, <3>2
    <2>3. QED
        BY <2>1, <2>2
<1>8. PICK a : a = c \o u
    OBVIOUS
<1>9. PICK v : v = a \o z
    OBVIOUS
<1>10. v = Completed(c, u)
    BY <1>6, <1>8, <1>9, Zenon DEF Completed
<1>11. Len(c) \in Nat /\ Len(u) \in Nat /\ \A i \in 1 .. Len(u) : u[i] = "WORD"
    BY <1>3
<1>12. /\ a \in Seq(T) /\ Len(a) = Len(c) + Len(u)
       /\ \A i \in 1 .. Len(c) : a[i] = c[i]
       /\ \A i \in 1 .. Len(u) : a[Len(c) + i] = u[i]
    BY <1>3, <1>4, <1>8
<1>13. /\ v \in Seq(T) /\ Len(v) = Len(a) + Len(z)
       /\ \A i \in 1 .. Len(a) : v[i] = a[i]
       /\ \A i \in 1 .. Len(z) : v[Len(a) + i] = z[i]
    <2>1. z \in Seq(T) /\ a \in Seq(T)
        BY <1>7, <1>12
    <2>2. QED
        BY <1>9, <2>1
<1>14. v \in Sentences
    BY <1>2, <1>13, Zenon DEF Sentences
<1>15. \A i \in 1 .. Len(c) : v[i] = c[i]
    BY <1>11, <1>12, <1>13
<1>16. ASSUME NEW i \in (Len(c) + 1) .. (Len(c) + Len(u)) PROVE v[i] = "WORD"
    <2>1. i - Len(c) \in 1 .. Len(u) /\ Len(c) + (i - Len(c)) = i /\ i \in 1 .. Len(a)
        BY <1>11, <1>12
    <2>2. a[i] = u[i - Len(c)]
        BY <1>12, <2>1
    <2>3. QED
        BY <1>11, <1>13, <2>1, <2>2
<1>17. ASSUME NEW i \in (Len(c) + Len(u) + 1) .. Len(v) PROVE v[i] = "CPAR"
    <2>1. i - Len(a) \in 1 .. Len(z) /\ Len(a) + (i - Len(a)) = i
        BY <1>7, <1>11, <1>12, <1>13
    <2>2. v[i] = z[i - Len(a)]
        BY <1>13, <2>1
    <2>3. QED
        BY <1>7, <2>1, <2>2
<1>18. Len(v) >= Len(c) + Len(u) /\ (Opening(c) \in Nat => Len(v) = Len(c) + Len(u) + Opening(c))
    <2>1. Len(v) = Len(a) + Len(z) /\ Len(a) = Len(c) + Len(u) /\ Len(z) \in Nat
        BY <1>7, <1>12, <1>13
    <2>2. Opening(c) \in Nat => Len(z) = Opening(c)
        BY <1>7
    <2>3. QED
        BY <1>11, <2>1, <2>2
<1>19. Completion(v, c, Len(u))
    BY <1>14, <1>15, <1>16, <1>17, <1>18 DEF Completion
<1>20. QED
    BY <1>10, <1>19, Zenon

\* A parenthesis that closes leads to one state, and no symbol leads on from there.
LEMMA OnlyOneCloses ==
    \A p \in States : (Entry[p] = "CPAR" => p = 45) /\ 45 \notin Below[p]
<1>1. \A p \in 0 .. 30 : (Entry[p] = "CPAR" => p = 45) /\ 45 \notin Below[p]
    BY DEF Entry, Below, Table, CommandStarts, RedirStarts, BreakStarts
<1>2. \A p \in 31 .. 60 : (Entry[p] = "CPAR" => p = 45) /\ 45 \notin Below[p]
    BY DEF Entry, Below, Table, CommandStarts, RedirStarts, BreakStarts
<1>3. QED
    BY <1>1, <1>2 DEF States

\* No parenthesis that closes another is in a form, unless it is the last symbol.
LEMMA NoneCloses ==
    ASSUME NEW form \in Seq(Vocabulary), NEW q, q # 45, At(form, q)
    PROVE  In(form, {"CPAR"}) = 0
<1>1. PICK s : Trail(form, s) /\ s[Len(form)] = q
    BY DEF At
<1>2. Len(form) \in Nat
    OBVIOUS
<1>3. \A p \in States : (Entry[p] = "CPAR" => p = 45) /\ 45 \notin Below[p]
    BY OnlyOneCloses
<1>4. ASSUME NEW i \in 1 .. Len(form), form[i] = "CPAR" PROVE FALSE
    <2>1. Enters(s[i - 1], form[i], s[i])
        BY <1>1 DEF Trail
    <2>2. s[i] = 45
        BY <1>3, <1>4, <2>1 DEF Enters, Leads
    <2>3. i # Len(form)
        BY <1>1, <2>2
    <2>4. i + 1 \in 1 .. Len(form) /\ (i + 1) - 1 = i
        BY <1>2, <2>3
    <2>5. Enters(s[(i + 1) - 1], form[i + 1], s[i + 1])
        BY <1>1, <2>4 DEF Trail
    <2>6. 45 \in Below[s[i + 1]] /\ s[i + 1] \in States
        BY <2>2, <2>4, <2>5 DEF Enters, Leads
    <2>7. QED
        BY <1>3, <2>6
<1>5. {i \in 1 .. Len(form) : form[i] \in {"CPAR"}} = {}
    BY <1>4
<1>6. QED
    BY <1>5, FS_EmptySet DEF In, Tally

(* What has been read and reduced to a form can be completed by what closes the parentheses
   of the form.                                                                 *)
LEMMA Completing ==
    ASSUME NEW c \in Sentences, NEW v, NEW k \in {0, 1}, Completion(v, c, k),
           NEW form \in Seq(Vocabulary), NEW q, q # 45, At(form, q),
           Reaches(c, Config(form, Len(c)), Derived)
    PROVE  /\ Closes(v, form, Len(c) + k)
           /\ Completes(v, form, Len(c)) => Rooted(v, Derived)
<1>1. Len(c) \in Nat /\ Len(c) + k \in Nat
    BY SentenceIs
<1>2. Opens(form) = Level(c, Len(c))
    BY <1>1, SameLevel
<1>3. In(form, {"OPAR"}) \in Nat /\ Opens(form) = In(form, {"OPAR"}) - In(form, {"CPAR"})
    BY <1>1, OpensIs
<1>4. In(form, {"CPAR"}) = 0
    BY NoneCloses
<1>5. Opening(c) = In(form, {"OPAR"})
    <2>1. Opening(c) = Level(c, Len(c))
        BY OpeningIs
    <2>2. Opens(form) = In(form, {"OPAR"})
        BY <1>3, <1>4
    <2>3. QED
        BY <1>2, <2>1, <2>2, Zenon
<1>6. v \in Sentences
    BY DEF Completion
<1>7. Len(v) \in Nat
    BY <1>6, SentenceIs
<1>8. /\ Len(v) = Len(c) + k + Opening(c)
      /\ \A i \in (Len(c) + k + 1) .. Len(v) : v[i] = "CPAR"
    BY <1>3, <1>5 DEF Completion
<1>9. Closes(v, form, Len(c) + k)
    <2>1. Len(c) + k <= Len(v)
        BY <1>1, <1>3, <1>5, <1>8
    <2>2. Len(v) - (Len(c) + k) = In(form, {"OPAR"})
        BY <1>1, <1>3, <1>5, <1>8
    <2>3. QED
        BY <1>1, <1>8, <2>1, <2>2 DEF Closes
<1>10. \A i \in 1 .. Len(c) : v[i] = c[i]
    BY DEF Completion
<1>11. Reaches(v, Config(form, Len(c)), Derived)
    BY <1>1, <1>10, SamePrefix
<1>12. MinLength(form) <= Len(c)
    BY <1>1, LongEnough
<1>13. ASSUME Completes(v, form, Len(c)) PROVE Rooted(v, Derived)
    <2>1. Rooted(v, Config(form, Len(c)))
        BY <1>12, <1>13, Zenon DEF Completes
    <2>2. QED
        BY <1>11, <2>1, ReachesOn, Zenon DEF Rooted
<1>14. QED
    BY <1>9, <1>13

\* In a state that rejects a class, what has been read can be completed.
LEMMA ViableAt ==
    ASSUME NEW c \in Sentences, NEW form \in Seq(Vocabulary), NEW q, At(form, q),
           q \in {2, 8, 9, 10, 11, 30, 31, 49, 50, 51},
           Reaches(c, Config(form, Len(c)), Derived)
    PROVE  Viable(c)
<1>1. Len(c) \in Nat /\ q # 45
    BY SentenceIs
<1>2. << >> \in Seq({"WORD"}) /\ Len(<< >>) = 0
    OBVIOUS
<1>3. <<"WORD">> \in Seq({"WORD"}) /\ Len(<<"WORD">>) = 1
    OBVIOUS
<1>4. PICK v : v = Completed(c, << >>)
    OBVIOUS
<1>5. PICK w : w = Completed(c, <<"WORD">>)
    OBVIOUS
<1>6. Completion(Completed(c, << >>), c, Len(<< >>))
    BY <1>2, CompletedIs, Zenon
<1>7. Completion(v, c, 0)
    BY <1>2, <1>4, <1>6, Zenon
<1>8. Completion(Completed(c, <<"WORD">>), c, Len(<<"WORD">>))
    BY <1>3, CompletedIs, Zenon
<1>9. Completion(w, c, 1)
    BY <1>3, <1>5, <1>8, Zenon
<1>10. v \in Sentences /\ w \in Sentences /\ Len(v) \in Nat /\ Len(w) \in Nat
    BY <1>7, <1>9, SentenceIs DEF Completion
<1>11. /\ Closes(v, form, Len(c) + 0)
       /\ Completes(v, form, Len(c)) => Rooted(v, Derived)
    BY <1>1, <1>7, Completing
<1>12. /\ Closes(w, form, Len(c) + 1)
       /\ Completes(w, form, Len(c)) => Rooted(w, Derived)
    BY <1>1, <1>9, Completing
<1>13. Closes(v, form, Len(c))
    BY <1>1, <1>11
<1>14. w[Len(c) + 1] = "WORD"
    <2>1. Len(c) + 1 \in (Len(c) + 1) .. (Len(c) + 1)
        BY <1>1
    <2>2. QED
        BY <1>9, <2>1 DEF Completion
<1>15. Completes(v, form, Len(c)) \/ Completes(w, form, Len(c))
    <2>1. CASE q = 2
        <3>1. At(form, 2)
            BY <2>1
        <3>2. Entered(2, "program", {0})
            BY DEF Entered, Entry, Below, Table
        <3>3. Peeled(form, "program", {0})
            BY <3>1, <3>2, Peel, Zenon
        <3>4. PICK g \in Seq(Vocabulary) : \E p \in {0} : form = Append(g, "program") /\ At(g, p)
            BY <3>3, Zenon DEF Peeled
        <3>5. form = Append(g, "program") /\ At(g, 0)
            BY <3>4
        <3>6. g = Nil
            BY <3>5, NothingAtStart
        <3>7. Closes(v, Append(g, "program"), Len(c))
            BY <1>13, <3>5, Zenon
        <3>8. "program" \in Vocabulary
            BY VocabularyIs
        <3>9. Closes(v, g, Len(c))
            BY <3>7, <3>8, ClosesLess
        <3>10. In(g, {"OPAR"}) = 0
            BY <3>6, InIs
        <3>11. Len(v) = Len(c)
            BY <1>1, <1>10, <3>9, <3>10 DEF Closes
        <3>12. Completes(v, Append(Nil, "program"), Len(v))
            BY <1>10, ProgramCompletes
        <3>13. Completes(v, form, Len(c))
            BY <3>5, <3>6, <3>11, <3>12, Zenon
        <3>14. QED
            BY <3>13
    <2>2. CASE q = 8
        <3>1. At(form, 8)
            BY <2>2
        <3>2. QED
            BY <1>1, <1>10, <1>12, <1>14, <3>1, WordAfterLess
    <2>3. CASE q = 9
        <3>1. At(form, 9)
            BY <2>3
        <3>2. QED
            BY <1>1, <1>10, <1>12, <1>14, <3>1, WordAfterGreat
    <2>4. CASE q = 10
        <3>1. At(form, 10)
            BY <2>4
        <3>2. QED
            BY <1>1, <1>10, <1>12, <1>14, <3>1, WordAfterDless
    <2>5. CASE q = 11
        <3>1. At(form, 11)
            BY <2>5
        <3>2. QED
            BY <1>1, <1>10, <1>12, <1>14, <3>1, WordAfterDgreat
    <2>6. CASE q = 30
        <3>1. At(form, 30)
            BY <2>6
        <3>2. QED
            BY <1>10, <1>13, <3>1, ListCloses
    <2>7. CASE q \in {31, 49, 50, 51}
        <3>1. q \in CommandStarts
            BY <2>7 DEF CommandStarts
        <3>2. QED
            BY <1>1, <1>10, <1>12, <1>14, <3>1, WordStarts
    <2>8. QED
        BY <2>1, <2>2, <2>3, <2>4, <2>5, <2>6, <2>7
<1>16. Rooted(v, Derived) \/ Rooted(w, Derived)
    BY <1>11, <1>12, <1>15
<1>17. Derives(v) \/ Derives(w)
    <2>1. CASE Rooted(v, Derived)
        BY <1>10, <2>1, DerivesIs, Zenon
    <2>2. CASE Rooted(w, Derived)
        BY <1>10, <2>2, DerivesIs, Zenon
    <2>3. QED
        BY <1>16, <2>1, <2>2, Zenon
<1>18. QED
    BY <1>4, <1>5, <1>17, ViableIs, Zenon

--------------------------------------------------------------------------------
(* What has been parsed                                                         *)

\* The first n of the tokens ts are derived from form.
Backed(ts, form, n) == Reaches(Classes(ts), Config(form, n), Derived)

\* w starts with the first n tokens and the one that is ahead; it has no others when
\* these are the last.
Goes(w, ts, n, last) ==
    /\ last => w = Classes(ts)
    /\ \A i \in 1 .. Len(ts) : i <= n + 1 => i <= Len(w) /\ w[i] = Classes(ts)[i]

\* Every program that goes so has a derivation that comes to form.
Forced(ts, form, n, last) ==
    \A w \in Sentences :
        Rooted(w, Derived) /\ Goes(w, ts, n, last) => Rooted(w, Config(form, n))

Parsed(ts, form, n, last) ==
    /\ n \in 0 .. Len(ts) /\ form \in Seq(Vocabulary)
    /\ Backed(ts, form, n) /\ Forced(ts, form, n, last)

\* The classes of tokens are a sentence.
LEMMA ClassesAre ==
    ASSUME NEW ts \in Seq(Texts)
    PROVE  /\ Classes(ts) \in Sentences /\ Len(Classes(ts)) = Len(ts) /\ Len(ts) \in Nat
           /\ \A i \in 1 .. Len(ts) : Classes(ts)[i] = ClassifyToken(ts[i])
<1>1. Len(ts) \in Nat /\ DOMAIN ts = 1 .. Len(ts)
    OBVIOUS
<1>2. Classes(ts) = [i \in 1 .. Len(ts) |-> ClassifyToken(ts[i])]
    BY <1>1, Zenon DEF Classes
<1>3. \A i \in 1 .. Len(ts) : ClassifyToken(ts[i]) \in Terminals \ {"EOF"}
    BY ClassesKnown
<1>4. Classes(ts) \in Seq(Terminals \ {"EOF"}) /\ Len(Classes(ts)) = Len(ts)
    BY <1>1, <1>2, <1>3
<1>5. QED
    BY <1>1, <1>2, <1>4 DEF Sentences

\* Nothing has been parsed.
LEMMA ParsedNothing == Parsed(<< >>, Nil, 0, FALSE)
<1>1. Len(<< >>) = 0 /\ Nil \in Seq(Vocabulary)
    BY DEF Nil
<1>2. Backed(<< >>, Nil, 0)
    BY ReachesSelf, Zenon DEF Backed, Derived
<1>3. Forced(<< >>, Nil, 0, FALSE)
    BY Zenon DEF Forced, Derived
<1>4. 0 \in 0 .. Len(<< >>)
    BY <1>1
<1>5. QED
    BY <1>1, <1>2, <1>3, <1>4, Zenon DEF Parsed

\* One more token is there to be parsed.
LEMMA ParsedOn ==
    ASSUME NEW ts \in Seq(Texts), NEW t \in Texts, NEW form, NEW n, Parsed(ts, form, n, FALSE)
    PROVE  Parsed(Append(ts, t), form, n, FALSE)
<1>1. PICK us : us = Append(ts, t)
    OBVIOUS
<1>2. us \in Seq(Texts) /\ Len(us) = Len(ts) + 1 /\ Len(ts) \in Nat
    /\ \A i \in 1 .. Len(ts) : us[i] = ts[i]
    BY <1>1, Longer
<1>3. n \in 0 .. Len(ts) /\ form \in Seq(Vocabulary) /\ Backed(ts, form, n)
    /\ Forced(ts, form, n, FALSE)
    BY Zenon DEF Parsed
<1>4. /\ \A i \in 1 .. Len(ts) : Classes(ts)[i] = ClassifyToken(ts[i])
      /\ \A i \in 1 .. Len(us) : Classes(us)[i] = ClassifyToken(us[i])
    BY <1>2, ClassesAre
<1>5. \A i \in 1 .. Len(ts) : i \in 1 .. Len(us) /\ Classes(us)[i] = Classes(ts)[i]
    <2>1. \A i \in 1 .. Len(ts) : i \in 1 .. Len(us)
        BY <1>2
    <2>2. QED
        BY <2>1, <1>2, <1>4, Zenon
<1>6. n \in Nat /\ \A i \in 1 .. n : i \in 1 .. Len(ts)
    BY <1>2, <1>3
<1>7. Backed(us, form, n)
    <2>1. \A i \in 1 .. n : Classes(us)[i] = Classes(ts)[i]
        BY <1>5, <1>6, Zenon
    <2>2. Reaches(Classes(ts), Config(form, n), Derived)
        BY <1>3, Zenon DEF Backed
    <2>3. QED
        BY <2>1, <2>2, <1>3, <1>6, SamePrefix, Zenon DEF Backed
<1>8. ASSUME NEW w, Goes(w, us, n, FALSE) PROVE Goes(w, ts, n, FALSE)
    BY <1>5, <1>8, Zenon DEF Goes
<1>9. Forced(us, form, n, FALSE)
    BY <1>3, <1>8, Zenon DEF Forced
<1>10. n \in 0 .. Len(us)
    BY <1>2, <1>3
<1>11. QED
    BY <1>1, <1>3, <1>7, <1>9, <1>10, Zenon DEF Parsed

\* There are no more tokens.
LEMMA ParsedLast ==
    ASSUME NEW ts, NEW form, NEW n, Parsed(ts, form, n, FALSE)
    PROVE  Parsed(ts, form, n, TRUE)
<1>1. ASSUME NEW w, Goes(w, ts, n, TRUE) PROVE Goes(w, ts, n, FALSE)
    BY <1>1, Zenon DEF Goes
<1>2. Forced(ts, form, n, TRUE)
    BY <1>1, Zenon DEF Parsed, Forced
<1>3. QED
    BY <1>2, Zenon DEF Parsed

\* What is ahead in a program that goes so.
LEMMA GoesAhead ==
    ASSUME NEW ts \in Seq(Texts), NEW n \in Nat, NEW w, NEW last, Goes(w, ts, n, last), Len(w) \in Nat
    PROVE  /\ n < Len(ts) => n < Len(w) /\ Ahead(w, n) = ClassifyToken(ts[n + 1])
           /\ last /\ n = Len(ts) => Ahead(w, n) = "EOF"
<1>1. /\ Len(Classes(ts)) = Len(ts) /\ Len(ts) \in Nat
      /\ \A i \in 1 .. Len(ts) : Classes(ts)[i] = ClassifyToken(ts[i])
    BY ClassesAre
<1>2. ASSUME n < Len(ts) PROVE n < Len(w) /\ Ahead(w, n) = ClassifyToken(ts[n + 1])
    <2>1. n + 1 \in 1 .. Len(ts) /\ n + 1 <= n + 1
        BY <1>1, <1>2
    <2>2. n + 1 <= Len(w) /\ w[n + 1] = Classes(ts)[n + 1]
        BY <2>1, Zenon DEF Goes
    <2>3. n < Len(w)
        BY <2>2
    <2>4. QED
        BY <2>1, <2>2, <2>3, <1>1, Zenon DEF Ahead
<1>3. ASSUME last, n = Len(ts) PROVE Ahead(w, n) = "EOF"
    <2>1. Len(w) = n
        BY <1>1, <1>3, Zenon DEF Goes
    <2>2. ~(n < Len(w))
        BY <2>1
    <2>3. QED
        BY <2>2, Zenon DEF Ahead
<1>4. QED
    BY <1>2, <1>3, Zenon

\* What is joined to the same is the same.
LEMMA JoinedSame ==
    ASSUME NEW X, NEW g \in Seq(X), NEW h \in Seq(X), NEW w \in Seq(X), Joined(g, w) = Joined(h, w)
    PROVE  g = h
<1>1. Len(Joined(g, w)) = Len(g) + Len(w) /\ Len(Joined(h, w)) = Len(h) + Len(w)
    BY JoinedIs
<1>2. Len(g) \in Nat /\ Len(h) \in Nat /\ Len(w) \in Nat
    OBVIOUS
<1>3. Len(g) = Len(h)
    BY <1>1, <1>2
<1>4. \A i \in 1 .. Len(g) : Joined(g, w)[i] = g[i]
    BY <1>2 DEF Joined
<1>5. \A i \in 1 .. Len(h) : Joined(h, w)[i] = h[i]
    BY <1>2 DEF Joined
<1>6. \A i \in 1 .. Len(g) : g[i] = h[i]
    BY <1>3, <1>4, <1>5, Zenon
<1>7. QED
    BY <1>3, <1>6, SeqEqual

\* In the state after a program only the end is taken.
LEMMA AtAccept ==
    /\ Action(2, "EOF") = 5
    /\ \A t \in Terminals : t # "EOF" => Action(2, t) = 0
<1>1. Action(2, "EOF") = 5
    BY DEF Action, Matches, SymbolType, YyPact, YyPactNInf, YyLast, YyCheck, YyTable, Table
<1>2. Shiftable[2] = {"EOF"} /\ YyDefAct[2] = 0 /\ 2 \in States
    BY DEF Shiftable, YyDefAct, Table, States
<1>3. ASSUME NEW t \in Terminals, t # "EOF" PROVE Action(2, t) = 0
    <2>1. t \notin Shiftable[2]
        BY <1>2, <1>3
    <2>2. Action(2, t) = -YyDefAct[2]
        BY <2>1, <1>2, ElseDefault
    <2>3. QED
        BY <2>2, <1>2
<1>4. QED
    BY <1>1, <1>3, Zenon

\* The states that have an error for a default.
LEMMA ErrorDefaults ==
    \A q \in States \ {5} : YyDefAct[q] = 0 => q \in {2, 8, 9, 10, 11, 30, 31, 49, 50, 51}
<1>1. \A q \in 0 .. 30 : q # 5 /\ YyDefAct[q] = 0 => q \in {2, 8, 9, 10, 11, 30}
    BY DEF YyDefAct, Table
<1>2. \A q \in 31 .. 60 : YyDefAct[q] = 0 => q \in {31, 49, 50, 51}
    BY DEF YyDefAct, Table
<1>3. QED
    BY <1>1, <1>2 DEF States

\* The states in which an error is found.
LEMMA Errors ==
    ASSUME NEW q \in States \ {5}, NEW t \in Terminals, Action(q, t) = 0
    PROVE  q \in {2, 8, 9, 10, 11, 30, 31, 49, 50, 51}
<1>1. CASE YyPact[q] # YyPactNInf /\ Matches(YyPact[q], SymbolType[t])
    <2>1. Leads(q, YyTable[YyPact[q] + SymbolType[t]], t)
        BY <1>1, ShiftLeads
    <2>2. YyTable[YyPact[q] + SymbolType[t]] # 0
        BY <2>1, Landmarks, Zenon
    <2>3. Action(q, t) = YyTable[YyPact[q] + SymbolType[t]]
        BY <1>1, Zenon DEF Action
    <2>4. QED
        BY <2>2, <2>3, Zenon
<1>2. CASE ~(YyPact[q] # YyPactNInf /\ Matches(YyPact[q], SymbolType[t]))
    <2>1. Action(q, t) = -YyDefAct[q]
        BY <1>2, Zenon DEF Action
    <2>2. YyDefAct[q] = 0
        BY <2>1, Defaults
    <2>3. QED
        BY <2>2, ErrorDefaults, Zenon
<1>3. QED
    BY <1>1, <1>2

\* Where a derivation begins.
LEMMA WholeAt ==
    ASSUME NEW w \in Sentences, NEW form \in Seq(Vocabulary), NEW n, NEW p, At(form, p),
           Config(form, n) = Whole(w)
    PROVE  n = Len(w) /\ p = 2 /\ form = <<"program">>
<1>1. form = <<"program">> /\ n = Len(w)
    BY ConfigsDiffer, Zenon DEF Whole
<1>2. At(<<"program">>, 2) /\ At(<<"program">>, p) /\ <<"program">> \in Seq(Vocabulary)
    BY <1>1, AtProgram, Zenon
<1>3. p = 2
    BY <1>2, AtOne, Zenon
<1>4. QED
    BY <1>1, <1>3

\* The class that is ahead of a form decides what comes before it in the derivation.
LEMMA ShiftDecided ==
    ASSUME NEW w \in Sentences, NEW form \in Seq(Vocabulary), NEW n \in Nat, NEW p, At(form, p),
           Rooted(w, Config(form, n)), NEW t \in Terminals, Ahead(w, n) = t
    PROVE  /\ Action(p, t) # 0
           /\ Action(p, t) > 0 /\ t # "EOF" => Rooted(w, Config(Append(form, t), n + 1))
<1>0. p \in States /\ Action(p, t) \in Int
    BY AtState, Actions
<1>1. CASE Config(form, n) = Whole(w)
    <2>1. n = Len(w) /\ p = 2
        BY <1>1, WholeAt
    <2>2. ~(n < Len(w))
        BY <2>1
    <2>3. t = "EOF"
        BY <2>2, Zenon DEF Ahead
    <2>4. Action(p, t) = 5
        BY <2>1, <2>3, AtAccept, Zenon
    <2>5. QED
        BY <2>3, <2>4
<1>2. CASE Config(form, n) # Whole(w)
    <2>1. ASSUME NEW s \in Terminals, Ahead(w, n) = s, Action(p, s) > 0,
                 Rooted(w, Config(Append(form, s), n + 1))
          PROVE  Action(p, t) > 0 /\ Rooted(w, Config(Append(form, t), n + 1))
        <3>1. s = t
            BY <2>1
        <3>2. QED
            BY <2>1, <3>1, Zenon
    <2>2. ASSUME NEW r \in 2 .. 45, Action(p, Ahead(w, n)) = -r PROVE Action(p, t) < 0
        BY <2>2, <1>0
    <2>3. \/ \E s \in Terminals :
                /\ n < Len(w) /\ Ahead(w, n) = s /\ Action(p, s) > 0
                /\ Rooted(w, Config(Append(form, s), n + 1))
          \/ \E r \in 2 .. 45 : \E g \in Seq(Vocabulary) :
                /\ Action(p, Ahead(w, n)) = -r
                /\ form = Joined(g, Rhs[r])
                /\ Rooted(w, Config(Append(g, Rules[r].lhs), n))
        BY <1>2, Determined, Zenon
    <2>4. \/ Action(p, t) > 0 /\ Rooted(w, Config(Append(form, t), n + 1))
          \/ Action(p, t) < 0
        BY <2>1, <2>2, <2>3, Zenon
    <2>5. CASE Action(p, t) > 0 /\ Rooted(w, Config(Append(form, t), n + 1))
        <3>1. Action(p, t) # 0
            BY <2>5, <1>0
        <3>2. QED
            BY <2>5, <3>1, Zenon
    <2>6. CASE Action(p, t) < 0
        <3>1. Action(p, t) # 0 /\ ~(Action(p, t) > 0)
            BY <2>6, <1>0
        <3>2. QED
            BY <3>1, Zenon
    <2>7. QED
        BY <2>4, <2>5, <2>6, Zenon
<1>3. QED
    BY <1>1, <1>2

\* The rules have their right-hand sides in the vocabulary.
LEMMA RhsIs ==
    ASSUME NEW r \in 2 .. 45
    PROVE  /\ Rules[r].lhs \in Nonterminals /\ Rhs[r] \in Productions[Rules[r].lhs]
           /\ Rhs[r] \in Seq(Vocabulary) /\ Len(Rhs[r]) \in 0 .. 4
<1>1. Rules[r].lhs \in Nonterminals /\ Rhs[r] \in Productions[Rules[r].lhs]
    BY ProductionOfRule
<1>2. QED
    BY <1>1, RightHandSides

\* A reduction is the only thing that comes before it.
LEMMA ReductionDecided ==
    ASSUME NEW w \in Sentences, NEW g \in Seq(Vocabulary), NEW n \in Nat, NEW p, NEW r \in 2 .. 45,
           At(Joined(g, Rhs[r]), p), Rooted(w, Config(Joined(g, Rhs[r]), n)), Action(p, Ahead(w, n)) = -r
    PROVE  Rooted(w, Config(Append(g, Rules[r].lhs), n))
<1>1. PICK form : form = Joined(g, Rhs[r])
    OBVIOUS
<1>2. Rhs[r] \in Seq(Vocabulary) /\ \A q \in 2 .. 45 : Rhs[q] \in Seq(Vocabulary)
    BY RhsIs, Zenon
<1>3. form \in Seq(Vocabulary) /\ At(form, p) /\ Rooted(w, Config(form, n))
    BY <1>1, <1>2, JoinedIs, Zenon
<1>4. CASE Config(form, n) = Whole(w)
    <2>1. n = Len(w) /\ p = 2
        BY <1>3, <1>4, WholeAt
    <2>2. ~(n < Len(w))
        BY <2>1
    <2>3. Action(p, Ahead(w, n)) = 5
        BY <2>1, <2>2, AtAccept, Zenon DEF Ahead
    <2>4. QED
        BY <2>3
<1>5. CASE Config(form, n) # Whole(w)
    <2>1. ASSUME NEW s \in Terminals, Ahead(w, n) = s, Action(p, s) > 0 PROVE FALSE
        <3>1. Action(p, s) = -r
            BY <2>1
        <3>2. QED
            BY <3>1, <2>1
    <2>2. ASSUME NEW q \in 2 .. 45, NEW h \in Seq(Vocabulary), Action(p, Ahead(w, n)) = -q,
                 form = Joined(h, Rhs[q]), Rooted(w, Config(Append(h, Rules[q].lhs), n))
          PROVE  Rooted(w, Config(Append(g, Rules[r].lhs), n))
        <3>1. q = r
            BY <2>2
        <3>2. Joined(g, Rhs[r]) = Joined(h, Rhs[r])
            BY <3>1, <2>2, <1>1, Zenon
        <3>3. g = h
            BY <3>2, <1>2, JoinedSame, Zenon
        <3>4. QED
            BY <3>1, <3>3, <2>2, Zenon
    <2>3. \/ \E s \in Terminals :
                /\ n < Len(w) /\ Ahead(w, n) = s /\ Action(p, s) > 0
                /\ Rooted(w, Config(Append(form, s), n + 1))
          \/ \E q \in 2 .. 45 : \E h \in Seq(Vocabulary) :
                /\ Action(p, Ahead(w, n)) = -q
                /\ form = Joined(h, Rhs[q])
                /\ Rooted(w, Config(Append(h, Rules[q].lhs), n))
        BY <1>3, <1>5, Determined, Zenon
    <2>4. QED
        BY <2>1, <2>2, <2>3, Zenon
<1>6. QED
    BY <1>4, <1>5

\* A token is shifted.
LEMMA ParsedShift ==
    ASSUME NEW ts \in Seq(Texts), NEW form, NEW n, Parsed(ts, form, n, FALSE), n < Len(ts),
           NEW p, At(form, p), NEW t, t = ClassifyToken(ts[n + 1]), Action(p, t) > 0
    PROVE  Parsed(ts, Append(form, t), n + 1, FALSE)
<1>1. n \in 0 .. Len(ts) /\ form \in Seq(Vocabulary) /\ Backed(ts, form, n)
      /\ Forced(ts, form, n, FALSE)
    BY Zenon DEF Parsed
<1>2. /\ Classes(ts) \in Sentences /\ Len(Classes(ts)) = Len(ts) /\ Len(ts) \in Nat
      /\ \A i \in 1 .. Len(ts) : Classes(ts)[i] = ClassifyToken(ts[i])
    BY ClassesAre
<1>3. n \in Nat /\ n + 1 \in Nat /\ n + 1 > 0 /\ n + 1 \in 1 .. Len(ts) /\ n + 1 - 1 = n
      /\ n + 1 \in 0 .. Len(ts)
    BY <1>1, <1>2
<1>4. t \in Terminals /\ t # "EOF" /\ t \in Vocabulary
    BY ClassesKnown, VocabularyIs
<1>5. PICK g : g = Append(form, t)
    OBVIOUS
<1>6. g \in Seq(Vocabulary)
    BY <1>1, <1>4, <1>5
<1>7. Backed(ts, g, n + 1)
    <2>1. PICK m : m = n + 1
        OBVIOUS
    <2>2. m \in Nat /\ m > 0 /\ m - 1 = n /\ Classes(ts)[m] = t
        BY <1>2, <1>3, <2>1
    <2>6. Config(form, m - 1) \in Steps(Classes(ts), Append(form, t), m)
        BY <2>2, <1>1, <1>4, Takes
    <2>7. Config(form, n) \in Steps(Classes(ts), g, m)
        BY <2>2, <2>6, <1>5, Zenon
    <2>3. Config(form, n) \in Steps(Classes(ts), Config(g, n + 1)[1], Config(g, n + 1)[2])
        BY <2>1, <2>7, ConfigIs, Zenon
    <2>4. Reaches(Classes(ts), Config(form, n), Derived)
        BY <1>1, Zenon DEF Backed
    <2>5. QED
        BY <2>3, <2>4, StepReaches, Zenon DEF Backed
<1>8. Forced(ts, g, n + 1, FALSE)
    <2> SUFFICES ASSUME NEW w \in Sentences, Rooted(w, Derived), Goes(w, ts, n + 1, FALSE)
                 PROVE  Rooted(w, Config(g, n + 1))
        BY Zenon DEF Forced
    <2>1. Goes(w, ts, n, FALSE)
        <3>1. \A i \in 1 .. Len(ts) : i <= n + 1 => i <= n + 1 + 1
            BY <1>3
        <3>2. QED
            BY <3>1, Zenon DEF Goes
    <2>2. Rooted(w, Config(form, n))
        BY <2>1, <1>1, Zenon DEF Forced
    <2>3. Ahead(w, n) = t
        BY <2>1, <1>3, SentenceIs, GoesAhead, Zenon
    <2>4. Rooted(w, Config(Append(form, t), n + 1))
        BY <2>2, <2>3, <1>1, <1>3, <1>4, ShiftDecided, Zenon
    <2>5. QED
        BY <2>4, <1>5, Zenon
<1>9. Parsed(ts, g, n + 1, FALSE)
    BY <1>3, <1>6, <1>7, <1>8, Zenon DEF Parsed
<1>10. QED
    BY <1>5, <1>9, Zenon

\* The class that the parser looks at.
Looks(ts, n, last, t) ==
    IF last THEN n = Len(ts) /\ t = "EOF" ELSE n < Len(ts) /\ t = ClassifyToken(ts[n + 1])

\* It is what is ahead.
LEMMA LooksAhead ==
    ASSUME NEW ts \in Seq(Texts), NEW n \in Nat, NEW last \in BOOLEAN, NEW t,
           Looks(ts, n, last, t), NEW w \in Sentences, Goes(w, ts, n, last)
    PROVE  Ahead(w, n) = t
<1>1. Len(w) \in Nat
    BY SentenceIs
<1>2. QED
    BY <1>1, GoesAhead, Zenon DEF Looks

\* A right-hand side is reduced.
LEMMA ParsedReduce ==
    ASSUME NEW ts \in Seq(Texts), NEW g \in Seq(Vocabulary), NEW r \in 2 .. 45, NEW n,
           NEW last \in BOOLEAN, Parsed(ts, Joined(g, Rhs[r]), n, last), NEW t, Looks(ts, n, last, t),
           NEW p, At(Joined(g, Rhs[r]), p), Action(p, t) = -r
    PROVE  Parsed(ts, Append(g, Rules[r].lhs), n, last)
<1>1. n \in 0 .. Len(ts) /\ Joined(g, Rhs[r]) \in Seq(Vocabulary)
      /\ Backed(ts, Joined(g, Rhs[r]), n) /\ Forced(ts, Joined(g, Rhs[r]), n, last)
    BY Zenon DEF Parsed
<1>2. n \in Nat
    BY <1>1, ClassesAre
<1>3. Rules[r].lhs \in Nonterminals /\ Rhs[r] \in Productions[Rules[r].lhs]
    BY RhsIs
<1>4. PICK h : h = Append(g, Rules[r].lhs)
    OBVIOUS
<1>5. h \in Seq(Vocabulary)
    <2>1. Rules[r].lhs \in Vocabulary
        BY <1>3, VocabularyIs
    <2>2. QED
        BY <2>1, <1>4
<1>6. Backed(ts, h, n)
    <2>1. Reaches(Classes(ts), Config(Joined(g, Rhs[r]), n), Derived)
        BY <1>1, Zenon DEF Backed
    <2>2. MinLength(Joined(g, Rhs[r])) <= n
        BY <2>1, <1>1, <1>2, LongEnough, Zenon
    <2>3. Config(Joined(g, Rhs[r]), n) \in Steps(Classes(ts), Append(g, Rules[r].lhs), n)
        BY <2>2, <1>2, <1>3, Unfolds, Zenon
    <2>4. Config(Joined(g, Rhs[r]), n) \in Steps(Classes(ts), Config(h, n)[1], Config(h, n)[2])
        BY <2>3, <1>4, ConfigIs, Zenon
    <2>5. QED
        BY <2>1, <2>4, StepReaches, Zenon DEF Backed
<1>7. Forced(ts, h, n, last)
    <2> SUFFICES ASSUME NEW w \in Sentences, Rooted(w, Derived), Goes(w, ts, n, last)
                 PROVE  Rooted(w, Config(h, n))
        BY Zenon DEF Forced
    <2>1. Rooted(w, Config(Joined(g, Rhs[r]), n))
        BY <1>1, Zenon DEF Forced
    <2>2. Ahead(w, n) = t
        BY <1>2, LooksAhead, Zenon
    <2>3. Action(p, Ahead(w, n)) = -r
        BY <2>2
    <2>4. Rooted(w, Config(Append(g, Rules[r].lhs), n))
        BY <2>1, <2>3, <1>2, ReductionDecided, Zenon
    <2>5. QED
        BY <2>4, <1>4, Zenon
<1>8. Parsed(ts, h, n, last)
    BY <1>1, <1>5, <1>6, <1>7, Zenon DEF Parsed
<1>9. QED
    BY <1>4, <1>8, Zenon

\* A form that leads to the state in which the text is accepted is a program.
LEMMA ProgramAt ==
    ASSUME NEW form \in Seq(Vocabulary), At(form, 2)
    PROVE  form = <<"program">>
<1>1. PICK g \in Seq(Vocabulary) : \E p :
                /\ Entry[2] \in Vocabulary /\ form = Append(g, Entry[2])
                /\ At(g, p) /\ p \in Below[2] /\ Enters(p, Entry[2], 2)
    <2>1. 2 # 0
        OBVIOUS
    <2>2. QED
        BY <2>1, AtLast, Zenon
<1>2. PICK p : /\ Entry[2] \in Vocabulary /\ form = Append(g, Entry[2])
               /\ At(g, p) /\ p \in Below[2] /\ Enters(p, Entry[2], 2)
    BY <1>1
<1>3. Entry[2] = "program" /\ Below[2] = {0}
    BY DEF Entry, Below, Table
<1>4. g = Nil
    BY <1>2, <1>3, NothingAtStart
<1>5. QED
    BY <1>2, <1>3, <1>4, AtProgram, Zenon

\* All has been parsed to a program.
LEMMA ParsedAll ==
    ASSUME NEW ts \in Seq(Texts), NEW form, NEW n, n = Len(ts), NEW last, Parsed(ts, form, n, last),
           At(form, 2)
    PROVE  Derives(Classes(ts))
<1>1. form \in Seq(Vocabulary) /\ Backed(ts, form, n)
    BY Zenon DEF Parsed
<1>2. form = <<"program">>
    BY <1>1, ProgramAt, Zenon
<1>3. Classes(ts) \in Sentences /\ Len(Classes(ts)) = Len(ts)
    BY ClassesAre
<1>4. Rooted(Classes(ts), Derived)
    BY <1>1, <1>2, <1>3, Zenon DEF Backed, Rooted, Whole
<1>5. QED
    BY <1>3, <1>4, DerivesIs, Zenon

\* An error at the end of the text.
LEMMA ParsedNot ==
    ASSUME NEW ts \in Seq(Texts), NEW form, NEW n, n = Len(ts), Parsed(ts, form, n, TRUE),
           NEW p, At(form, p), Action(p, "EOF") = 0
    PROVE  ~Derives(Classes(ts))
<1> SUFFICES ASSUME Derives(Classes(ts)) PROVE FALSE
    OBVIOUS
<1>1. form \in Seq(Vocabulary) /\ Forced(ts, form, n, TRUE)
    BY Zenon DEF Parsed
<1>2. PICK w : w = Classes(ts)
    OBVIOUS
<1>3. /\ w \in Sentences /\ Len(w) = Len(ts) /\ Len(ts) \in Nat
    BY <1>2, ClassesAre
<1>4. Rooted(w, Derived)
    BY <1>2, <1>3, DerivesIs, Zenon
<1>5. Goes(w, ts, n, TRUE)
    <2>1. \A i \in 1 .. Len(ts) : i <= Len(w)
        BY <1>3
    <2>2. QED
        BY <2>1, <1>2, Zenon DEF Goes
<1>6. Rooted(w, Config(form, n))
    BY <1>1, <1>3, <1>4, <1>5, Zenon DEF Forced
<1>7. Ahead(w, n) = "EOF" /\ n \in Nat
    <2>1. ~(n < Len(w)) /\ n \in Nat
        BY <1>3
    <2>2. QED
        BY <2>1, Zenon DEF Ahead
<1>8. "EOF" \in Terminals
    BY VocabularyIs
<1>9. Action(p, "EOF") # 0
    BY <1>1, <1>3, <1>6, <1>7, <1>8, ShiftDecided, Zenon
<1>10. QED
    BY <1>9

\* The first classes of tokens.
LEMMA FirstClasses ==
    ASSUME NEW ts \in Seq(Texts), NEW m \in 0 .. Len(ts), NEW c, c = Classes(SubSeq(ts, 1, m))
    PROVE  c \in Sentences /\ Len(c) = m /\ \A i \in 1 .. m : c[i] = Classes(ts)[i]
<1>1. PICK us : us = SubSeq(ts, 1, m)
    OBVIOUS
<1>2. us \in Seq(Texts) /\ Len(us) = m /\ \A i \in 1 .. m : us[i] = ts[i]
    BY <1>1, Cut
<1>3. c = Classes(us)
    BY <1>1, Zenon
<1>4. c \in Sentences /\ Len(c) = Len(us) /\ \A i \in 1 .. Len(us) : c[i] = ClassifyToken(us[i])
    BY <1>2, <1>3, ClassesAre, Zenon
<1>5. \A i \in 1 .. Len(ts) : Classes(ts)[i] = ClassifyToken(ts[i])
    BY ClassesAre
<1>6. \A i \in 1 .. m : i \in 1 .. Len(ts)
    OBVIOUS
<1>7. QED
    BY <1>2, <1>4, <1>5, <1>6, Zenon

\* No program starts with what has been parsed and the class that leads to an error.
LEMMA Rejected ==
    ASSUME NEW ts \in Seq(Texts), NEW form, NEW n, Parsed(ts, form, n, FALSE), n < Len(ts),
           NEW p, At(form, p), Action(p, ClassifyToken(ts[n + 1])) = 0,
           NEW c, c = Classes(SubSeq(ts, 1, n + 1)), NEW v, NEW k \in Nat, Completion(v, c, k)
    PROVE  ~Derives(v)
<1> SUFFICES ASSUME Derives(v) PROVE FALSE
    OBVIOUS
<1>1. n \in 0 .. Len(ts) /\ form \in Seq(Vocabulary) /\ Forced(ts, form, n, FALSE)
    BY Zenon DEF Parsed
<1>2. Len(ts) \in Nat
    BY ClassesAre
<1>3. n \in Nat /\ n + 1 \in 0 .. Len(ts)
    BY <1>1, <1>2
<1>4. c \in Sentences /\ Len(c) = n + 1 /\ \A i \in 1 .. n + 1 : c[i] = Classes(ts)[i]
    BY <1>3, FirstClasses, Zenon
<1>5. /\ v \in Sentences /\ Len(v) >= Len(c) + k /\ \A i \in 1 .. Len(c) : v[i] = c[i]
    BY Zenon DEF Completion
<1>6. Len(v) \in Nat
    BY <1>5, SentenceIs
<1>7. Goes(v, ts, n, FALSE)
    <2>1. ASSUME NEW i \in 1 .. Len(ts), i <= n + 1 PROVE i <= Len(v) /\ v[i] = Classes(ts)[i]
        <3>1. i \in 1 .. n + 1 /\ i \in 1 .. Len(c) /\ i <= Len(v)
            BY <2>1, <1>2, <1>3, <1>4, <1>5, <1>6
        <3>2. QED
            BY <3>1, <1>4, <1>5, Zenon
    <2>2. QED
        BY <2>1, Zenon DEF Goes
<1>8. Rooted(v, Derived)
    BY <1>5, DerivesIs, Zenon
<1>9. Rooted(v, Config(form, n))
    BY <1>1, <1>5, <1>7, <1>8, Zenon DEF Forced
<1>10. Ahead(v, n) = ClassifyToken(ts[n + 1])
    BY <1>3, <1>6, <1>7, GoesAhead, Zenon
<1>11. ClassifyToken(ts[n + 1]) \in Terminals
    BY ClassesKnown
<1>12. Action(p, ClassifyToken(ts[n + 1])) # 0
    BY <1>1, <1>3, <1>5, <1>9, <1>10, <1>11, ShiftDecided, Zenon
<1>13. QED
    BY <1>12

\* An error at a token: it is the first after which no program can follow.
LEMMA ParsedNoFurther ==
    ASSUME NEW ts \in Seq(Texts), NEW form, NEW n, Parsed(ts, form, n, FALSE), n < Len(ts),
           NEW p, p # 5, At(form, p), Action(p, ClassifyToken(ts[n + 1])) = 0
    PROVE  /\ ~Viable(Classes(SubSeq(ts, 1, n + 1)))
           /\ Viable(Classes(SubSeq(ts, 1, n)))
<1>1. n \in 0 .. Len(ts) /\ form \in Seq(Vocabulary) /\ Backed(ts, form, n)
    BY Zenon DEF Parsed
<1>2. Len(ts) \in Nat
    BY ClassesAre
<1>3. n \in Nat /\ n + 1 \in 0 .. Len(ts)
    BY <1>1, <1>2
<1>4. PICK c : c = Classes(SubSeq(ts, 1, n + 1))
    OBVIOUS
<1>5. PICK d : d = Classes(SubSeq(ts, 1, n))
    OBVIOUS
<1>6. c \in Sentences
    BY <1>3, <1>4, FirstClasses, Zenon
<1>7. d \in Sentences /\ Len(d) = n /\ \A i \in 1 .. n : d[i] = Classes(ts)[i]
    BY <1>1, <1>5, FirstClasses, Zenon
<1>8. ~Derives(Completed(c, << >>))
    <2>1. << >> \in Seq({"WORD"}) /\ Len(<< >>) = 0 /\ 0 \in Nat
        OBVIOUS
    <2>2. Completion(Completed(c, << >>), c, Len(<< >>))
        BY <1>6, <2>1, CompletedIs, Zenon
    <2>3. Completion(Completed(c, << >>), c, 0)
        BY <2>1, <2>2, Zenon
    <2>4. QED
        BY <1>4, <2>1, <2>3, Rejected, Zenon
<1>9. ~Derives(Completed(c, <<"WORD">>))
    <2>1. <<"WORD">> \in Seq({"WORD"}) /\ Len(<<"WORD">>) = 1 /\ 1 \in Nat
        OBVIOUS
    <2>2. Completion(Completed(c, <<"WORD">>), c, Len(<<"WORD">>))
        BY <1>6, <2>1, CompletedIs, Zenon
    <2>3. Completion(Completed(c, <<"WORD">>), c, 1)
        BY <2>1, <2>2, Zenon
    <2>4. QED
        BY <1>4, <2>1, <2>3, Rejected, Zenon
<1>10. ~Viable(c)
    BY <1>8, <1>9, ViableIs, Zenon
<1>11. Viable(d)
    <2>1. p \in States \ {5}
        BY <1>1, AtState
    <2>2. ClassifyToken(ts[n + 1]) \in Terminals
        BY ClassesKnown
    <2>3. p \in {2, 8, 9, 10, 11, 30, 31, 49, 50, 51}
        BY <2>1, <2>2, Errors, Zenon
    <2>4. Reaches(Classes(ts), Config(form, n), Derived)
        BY <1>1, Zenon DEF Backed
    <2>5. Reaches(d, Config(form, n), Derived)
        BY <2>4, <1>1, <1>3, <1>7, SamePrefix, Zenon
    <2>6. Reaches(d, Config(form, Len(d)), Derived)
        BY <2>5, <1>7, Zenon
    <2>7. QED
        BY <2>3, <2>6, <1>1, <1>7, ViableAt, Zenon
<1>12. QED
    BY <1>4, <1>5, <1>10, <1>11, Zenon

--------------------------------------------------------------------------------
(* The forms of stacks                                                          *)

\* From every state below it a state is the one that is entered with its symbol.
LEMMA AllEnter ==
    \A q \in States \ {0, 5} : \A p \in Below[q] : Enters(p, Entry[q], q)
<1>1. \A p \in Below[1] : Enters(p, Entry[1], 1)
    <2>1. Below[1] = {0, 12, 13, 34, 35, 36, 47} /\ Entry[1] = "NEWLINE"
        BY DEF Below, Entry, Table, CommandStarts, RedirStarts, BreakStarts
    <2>2. QED
        BY <2>1, TerminalsEnter
<1>2. \A p \in Below[2] : Enters(p, Entry[2], 2)
    <2>1. Below[2] = {0} /\ Entry[2] = "program"
        BY DEF Below, Entry, Table, CommandStarts, RedirStarts, BreakStarts
    <2>2. QED
        BY <2>1, NonterminalsEnter
<1>3. \A p \in Below[3] : Enters(p, Entry[3], 3)
    <2>1. Below[3] = {0, 12, 34, 35, 36} /\ Entry[3] = "newline_list"
        BY DEF Below, Entry, Table, CommandStarts, RedirStarts, BreakStarts
    <2>2. QED
        BY <2>1, NonterminalsEnter
<1>4. \A p \in Below[4] : Enters(p, Entry[4], 4)
    <2>1. Below[4] = {0} /\ Entry[4] = "linebreak"
        BY DEF Below, Entry, Table, CommandStarts, RedirStarts, BreakStarts
    <2>2. QED
        BY <2>1, NonterminalsEnter
<1>6. \A p \in Below[6] : Enters(p, Entry[6], 6)
    <2>1. Below[6] = {3, 32, 56} /\ Entry[6] = "NEWLINE"
        BY DEF Below, Entry, Table, CommandStarts, RedirStarts, BreakStarts
    <2>2. QED
        BY <2>1, TerminalsEnter
<1>7. \A p \in Below[7] : Enters(p, Entry[7], 7)
    <2>1. Below[7] = {4, 31, 32, 49, 50, 51, 56} /\ Entry[7] = "WORD"
        BY DEF Below, Entry, Table, CommandStarts, RedirStarts, BreakStarts
    <2>2. QED
        BY <2>1, TerminalsEnter
<1>8. \A p \in Below[8] : Enters(p, Entry[8], 8)
    <2>1. Below[8] = {4, 17, 19, 20, 31, 32, 37, 40, 43, 49, 50, 51, 55, 56} /\ Entry[8] = "LESS"
        BY DEF Below, Entry, Table, CommandStarts, RedirStarts, BreakStarts
    <2>2. QED
        BY <2>1, TerminalsEnter
<1>9. \A p \in Below[9] : Enters(p, Entry[9], 9)
    <2>1. Below[9] = {4, 17, 19, 20, 31, 32, 37, 40, 43, 49, 50, 51, 55, 56} /\ Entry[9] = "GREAT"
        BY DEF Below, Entry, Table, CommandStarts, RedirStarts, BreakStarts
    <2>2. QED
        BY <2>1, TerminalsEnter
<1>10. \A p \in Below[10] : Enters(p, Entry[10], 10)
    <2>1. Below[10] = {4, 17, 19, 20, 31, 32, 37, 40, 43, 49, 50, 51, 55, 56} /\ Entry[10] = "DLESS"
        BY DEF Below, Entry, Table, CommandStarts, RedirStarts, BreakStarts
    <2>2. QED
        BY <2>1, TerminalsEnter
<1>11. \A p \in Below[11] : Enters(p, Entry[11], 11)
    <2>1. Below[11] = {4, 17, 19, 20, 31, 32, 37, 40, 43, 49, 50, 51, 55, 56} /\ Entry[11] = "DGREAT"
        BY DEF Below, Entry, Table, CommandStarts, RedirStarts, BreakStarts
    <2>2. QED
        BY <2>1, TerminalsEnter
<1>12. \A p \in Below[12] : Enters(p, Entry[12], 12)
    <2>1. Below[12] = {4, 31, 32, 49, 50, 51, 56} /\ Entry[12] = "OPAR"
        BY DEF Below, Entry, Table, CommandStarts, RedirStarts, BreakStarts
    <2>2. QED
        BY <2>1, TerminalsEnter
<1>13. \A p \in Below[13] : Enters(p, Entry[13], 13)
    <2>1. Below[13] = {4} /\ Entry[13] = "complete_commands"
        BY DEF Below, Entry, Table, CommandStarts, RedirStarts, BreakStarts
    <2>2. QED
        BY <2>1, NonterminalsEnter
<1>14. \A p \in Below[14] : Enters(p, Entry[14], 14)
    <2>1. Below[14] = {4} /\ Entry[14] = "and_or"
        BY DEF Below, Entry, Table, CommandStarts, RedirStarts, BreakStarts
    <2>2. QED
        BY <2>1, NonterminalsEnter
<1>15. \A p \in Below[15] : Enters(p, Entry[15], 15)
    <2>1. Below[15] = {4, 31, 32, 56} /\ Entry[15] = "pipeline"
        BY DEF Below, Entry, Table, CommandStarts, RedirStarts, BreakStarts
    <2>2. QED
        BY <2>1, NonterminalsEnter
<1>16. \A p \in Below[16] : Enters(p, Entry[16], 16)
    <2>1. Below[16] = {4, 31, 32, 49, 50, 56} /\ Entry[16] = "command"
        BY DEF Below, Entry, Table, CommandStarts, RedirStarts, BreakStarts
    <2>2. QED
        BY <2>1, NonterminalsEnter
<1>17. \A p \in Below[17] : Enters(p, Entry[17], 17)
    <2>1. Below[17] = {4, 31, 32, 49, 50, 51, 56} /\ Entry[17] = "subshell"
        BY DEF Below, Entry, Table, CommandStarts, RedirStarts, BreakStarts
    <2>2. QED
        BY <2>1, NonterminalsEnter
<1>18. \A p \in Below[18] : Enters(p, Entry[18], 18)
    <2>1. Below[18] = {4, 31, 32, 49, 50, 51, 56} /\ Entry[18] = "simple_command"
        BY DEF Below, Entry, Table, CommandStarts, RedirStarts, BreakStarts
    <2>2. QED
        BY <2>1, NonterminalsEnter
<1>19. \A p \in Below[19] : Enters(p, Entry[19], 19)
    <2>1. Below[19] = {4, 31, 32, 49, 50, 51, 56} /\ Entry[19] = "cmd_name"
        BY DEF Below, Entry, Table, CommandStarts, RedirStarts, BreakStarts
    <2>2. QED
        BY <2>1, NonterminalsEnter
<1>20. \A p \in Below[20] : Enters(p, Entry[20], 20)
    <2>1. Below[20] = {4, 31, 32, 49, 50, 51, 56} /\ Entry[20] = "cmd_prefix"
        BY DEF Below, Entry, Table, CommandStarts, RedirStarts, BreakStarts
    <2>2. QED
        BY <2>1, NonterminalsEnter
<1>21. \A p \in Below[21] : Enters(p, Entry[21], 21)
    <2>1. Below[21] = {4, 31, 32, 49, 50, 51, 56} /\ Entry[21] = "io_redirect"
        BY DEF Below, Entry, Table, CommandStarts, RedirStarts, BreakStarts
    <2>2. QED
        BY <2>1, NonterminalsEnter
<1>22. \A p \in Below[22] : Enters(p, Entry[22], 22)
    <2>1. Below[22] = {4, 17, 19, 20, 31, 32, 37, 40, 43, 49, 50, 51, 55, 56} /\ Entry[22] = "io_file"
        BY DEF Below, Entry, Table, CommandStarts, RedirStarts, BreakStarts
    <2>2. QED
        BY <2>1, NonterminalsEnter
<1>23. \A p \in Below[23] : Enters(p, Entry[23], 23)
    <2>1. Below[23] = {4, 17, 19, 20, 31, 32, 37, 40, 43, 49, 50, 51, 55, 56} /\ Entry[23] = "io_here"
        BY DEF Below, Entry, Table, CommandStarts, RedirStarts, BreakStarts
    <2>2. QED
        BY <2>1, NonterminalsEnter
<1>24. \A p \in Below[24] : Enters(p, Entry[24], 24)
    <2>1. Below[24] = {8, 9, 11} /\ Entry[24] = "WORD"
        BY DEF Below, Entry, Table, CommandStarts, RedirStarts, BreakStarts
    <2>2. QED
        BY <2>1, TerminalsEnter
<1>25. \A p \in Below[25] : Enters(p, Entry[25], 25)
    <2>1. Below[25] = {8} /\ Entry[25] = "filename"
        BY DEF Below, Entry, Table, CommandStarts, RedirStarts, BreakStarts
    <2>2. QED
        BY <2>1, NonterminalsEnter
<1>26. \A p \in Below[26] : Enters(p, Entry[26], 26)
    <2>1. Below[26] = {9} /\ Entry[26] = "filename"
        BY DEF Below, Entry, Table, CommandStarts, RedirStarts, BreakStarts
    <2>2. QED
        BY <2>1, NonterminalsEnter
<1>27. \A p \in Below[27] : Enters(p, Entry[27], 27)
    <2>1. Below[27] = {10} /\ Entry[27] = "WORD"
        BY DEF Below, Entry, Table, CommandStarts, RedirStarts, BreakStarts
    <2>2. QED
        BY <2>1, TerminalsEnter
<1>28. \A p \in Below[28] : Enters(p, Entry[28], 28)
    <2>1. Below[28] = {10} /\ Entry[28] = "here_end"
        BY DEF Below, Entry, Table, CommandStarts, RedirStarts, BreakStarts
    <2>2. QED
        BY <2>1, NonterminalsEnter
<1>29. \A p \in Below[29] : Enters(p, Entry[29], 29)
    <2>1. Below[29] = {11} /\ Entry[29] = "filename"
        BY DEF Below, Entry, Table, CommandStarts, RedirStarts, BreakStarts
    <2>2. QED
        BY <2>1, NonterminalsEnter
<1>30. \A p \in Below[30] : Enters(p, Entry[30], 30)
    <2>1. Below[30] = {12} /\ Entry[30] = "compound_list"
        BY DEF Below, Entry, Table, CommandStarts, RedirStarts, BreakStarts
    <2>2. QED
        BY <2>1, NonterminalsEnter
<1>31. \A p \in Below[31] : Enters(p, Entry[31], 31)
    <2>1. Below[31] = {12} /\ Entry[31] = "linebreak"
        BY DEF Below, Entry, Table, CommandStarts, RedirStarts, BreakStarts
    <2>2. QED
        BY <2>1, NonterminalsEnter
<1>32. \A p \in Below[32] : Enters(p, Entry[32], 32)
    <2>1. Below[32] = {13} /\ Entry[32] = "newline_list"
        BY DEF Below, Entry, Table, CommandStarts, RedirStarts, BreakStarts
    <2>2. QED
        BY <2>1, NonterminalsEnter
<1>33. \A p \in Below[33] : Enters(p, Entry[33], 33)
    <2>1. Below[33] = {13} /\ Entry[33] = "linebreak"
        BY DEF Below, Entry, Table, CommandStarts, RedirStarts, BreakStarts
    <2>2. QED
        BY <2>1, NonterminalsEnter
<1>34. \A p \in Below[34] : Enters(p, Entry[34], 34)
    <2>1. Below[34] = {14, 46, 48, 60} /\ Entry[34] = "AND_IF"
        BY DEF Below, Entry, Table, CommandStarts, RedirStarts, BreakStarts
    <2>2. QED
        BY <2>1, TerminalsEnter
<1>35. \A p \in Below[35] : Enters(p, Entry[35], 35)
    <2>1. Below[35] = {14, 46, 48, 60} /\ Entry[35] = "OR_IF"
        BY DEF Below, Entry, Table, CommandStarts, RedirStarts, BreakStarts
    <2>2. QED
        BY <2>1, TerminalsEnter
<1>36. \A p \in Below[36] : Enters(p, Entry[36], 36)
    <2>1. Below[36] = {15, 57, 58} /\ Entry[36] = "PIPE"
        BY DEF Below, Entry, Table, CommandStarts, RedirStarts, BreakStarts
    <2>2. QED
        BY <2>1, TerminalsEnter
<1>37. \A p \in Below[37] : Enters(p, Entry[37], 37)
    <2>1. Below[37] = {17} /\ Entry[37] = "redirect_list"
        BY DEF Below, Entry, Table, CommandStarts, RedirStarts, BreakStarts
    <2>2. QED
        BY <2>1, NonterminalsEnter
<1>38. \A p \in Below[38] : Enters(p, Entry[38], 38)
    <2>1. Below[38] = {17} /\ Entry[38] = "io_redirect"
        BY DEF Below, Entry, Table, CommandStarts, RedirStarts, BreakStarts
    <2>2. QED
        BY <2>1, NonterminalsEnter
<1>39. \A p \in Below[39] : Enters(p, Entry[39], 39)
    <2>1. Below[39] = {19, 43} /\ Entry[39] = "WORD"
        BY DEF Below, Entry, Table, CommandStarts, RedirStarts, BreakStarts
    <2>2. QED
        BY <2>1, TerminalsEnter
<1>40. \A p \in Below[40] : Enters(p, Entry[40], 40)
    <2>1. Below[40] = {19} /\ Entry[40] = "cmd_suffix"
        BY DEF Below, Entry, Table, CommandStarts, RedirStarts, BreakStarts
    <2>2. QED
        BY <2>1, NonterminalsEnter
<1>41. \A p \in Below[41] : Enters(p, Entry[41], 41)
    <2>1. Below[41] = {19, 43} /\ Entry[41] = "io_redirect"
        BY DEF Below, Entry, Table, CommandStarts, RedirStarts, BreakStarts
    <2>2. QED
        BY <2>1, NonterminalsEnter
<1>42. \A p \in Below[42] : Enters(p, Entry[42], 42)
    <2>1. Below[42] = {20} /\ Entry[42] = "WORD"
        BY DEF Below, Entry, Table, CommandStarts, RedirStarts, BreakStarts
    <2>2. QED
        BY <2>1, TerminalsEnter
<1>43. \A p \in Below[43] : Enters(p, Entry[43], 43)
    <2>1. Below[43] = {20} /\ Entry[43] = "cmd_word"
        BY DEF Below, Entry, Table, CommandStarts, RedirStarts, BreakStarts
    <2>2. QED
        BY <2>1, NonterminalsEnter
<1>44. \A p \in Below[44] : Enters(p, Entry[44], 44)
    <2>1. Below[44] = {20} /\ Entry[44] = "io_redirect"
        BY DEF Below, Entry, Table, CommandStarts, RedirStarts, BreakStarts
    <2>2. QED
        BY <2>1, NonterminalsEnter
<1>45. \A p \in Below[45] : Enters(p, Entry[45], 45)
    <2>1. Below[45] = {30} /\ Entry[45] = "CPAR"
        BY DEF Below, Entry, Table, CommandStarts, RedirStarts, BreakStarts
    <2>2. QED
        BY <2>1, TerminalsEnter
<1>46. \A p \in Below[46] : Enters(p, Entry[46], 46)
    <2>1. Below[46] = {31} /\ Entry[46] = "and_or"
        BY DEF Below, Entry, Table, CommandStarts, RedirStarts, BreakStarts
    <2>2. QED
        BY <2>1, NonterminalsEnter
<1>47. \A p \in Below[47] : Enters(p, Entry[47], 47)
    <2>1. Below[47] = {31} /\ Entry[47] = "term"
        BY DEF Below, Entry, Table, CommandStarts, RedirStarts, BreakStarts
    <2>2. QED
        BY <2>1, NonterminalsEnter
<1>48. \A p \in Below[48] : Enters(p, Entry[48], 48)
    <2>1. Below[48] = {32} /\ Entry[48] = "and_or"
        BY DEF Below, Entry, Table, CommandStarts, RedirStarts, BreakStarts
    <2>2. QED
        BY <2>1, NonterminalsEnter
<1>49. \A p \in Below[49] : Enters(p, Entry[49], 49)
    <2>1. Below[49] = {34} /\ Entry[49] = "linebreak"
        BY DEF Below, Entry, Table, CommandStarts, RedirStarts, BreakStarts
    <2>2. QED
        BY <2>1, NonterminalsEnter
<1>50. \A p \in Below[50] : Enters(p, Entry[50], 50)
    <2>1. Below[50] = {35} /\ Entry[50] = "linebreak"
        BY DEF Below, Entry, Table, CommandStarts, RedirStarts, BreakStarts
    <2>2. QED
        BY <2>1, NonterminalsEnter
<1>51. \A p \in Below[51] : Enters(p, Entry[51], 51)
    <2>1. Below[51] = {36} /\ Entry[51] = "linebreak"
        BY DEF Below, Entry, Table, CommandStarts, RedirStarts, BreakStarts
    <2>2. QED
        BY <2>1, NonterminalsEnter
<1>52. \A p \in Below[52] : Enters(p, Entry[52], 52)
    <2>1. Below[52] = {37} /\ Entry[52] = "io_redirect"
        BY DEF Below, Entry, Table, CommandStarts, RedirStarts, BreakStarts
    <2>2. QED
        BY <2>1, NonterminalsEnter
<1>53. \A p \in Below[53] : Enters(p, Entry[53], 53)
    <2>1. Below[53] = {40, 55} /\ Entry[53] = "WORD"
        BY DEF Below, Entry, Table, CommandStarts, RedirStarts, BreakStarts
    <2>2. QED
        BY <2>1, TerminalsEnter
<1>54. \A p \in Below[54] : Enters(p, Entry[54], 54)
    <2>1. Below[54] = {40, 55} /\ Entry[54] = "io_redirect"
        BY DEF Below, Entry, Table, CommandStarts, RedirStarts, BreakStarts
    <2>2. QED
        BY <2>1, NonterminalsEnter
<1>55. \A p \in Below[55] : Enters(p, Entry[55], 55)
    <2>1. Below[55] = {43} /\ Entry[55] = "cmd_suffix"
        BY DEF Below, Entry, Table, CommandStarts, RedirStarts, BreakStarts
    <2>2. QED
        BY <2>1, NonterminalsEnter
<1>56. \A p \in Below[56] : Enters(p, Entry[56], 56)
    <2>1. Below[56] = {47} /\ Entry[56] = "newline_list"
        BY DEF Below, Entry, Table, CommandStarts, RedirStarts, BreakStarts
    <2>2. QED
        BY <2>1, NonterminalsEnter
<1>57. \A p \in Below[57] : Enters(p, Entry[57], 57)
    <2>1. Below[57] = {49} /\ Entry[57] = "pipeline"
        BY DEF Below, Entry, Table, CommandStarts, RedirStarts, BreakStarts
    <2>2. QED
        BY <2>1, NonterminalsEnter
<1>58. \A p \in Below[58] : Enters(p, Entry[58], 58)
    <2>1. Below[58] = {50} /\ Entry[58] = "pipeline"
        BY DEF Below, Entry, Table, CommandStarts, RedirStarts, BreakStarts
    <2>2. QED
        BY <2>1, NonterminalsEnter
<1>59. \A p \in Below[59] : Enters(p, Entry[59], 59)
    <2>1. Below[59] = {51} /\ Entry[59] = "command"
        BY DEF Below, Entry, Table, CommandStarts, RedirStarts, BreakStarts
    <2>2. QED
        BY <2>1, NonterminalsEnter
<1>60. \A p \in Below[60] : Enters(p, Entry[60], 60)
    <2>1. Below[60] = {56} /\ Entry[60] = "and_or"
        BY DEF Below, Entry, Table, CommandStarts, RedirStarts, BreakStarts
    <2>2. QED
        BY <2>1, NonterminalsEnter
<1>61. \A q \in 1 .. 15 : q # 5 => \A p \in Below[q] : Enters(p, Entry[q], q)
    BY <1>1, <1>2, <1>3, <1>4, <1>6, <1>7, <1>8, <1>9, <1>10, <1>11, <1>12, <1>13, <1>14, <1>15
<1>62. \A q \in 16 .. 30 : q # 5 => \A p \in Below[q] : Enters(p, Entry[q], q)
    BY <1>16, <1>17, <1>18, <1>19, <1>20, <1>21, <1>22, <1>23, <1>24, <1>25, <1>26, <1>27,
       <1>28, <1>29, <1>30
<1>63. \A q \in 31 .. 45 : q # 5 => \A p \in Below[q] : Enters(p, Entry[q], q)
    BY <1>31, <1>32, <1>33, <1>34, <1>35, <1>36, <1>37, <1>38, <1>39, <1>40, <1>41, <1>42,
       <1>43, <1>44, <1>45
<1>64. \A q \in 46 .. 60 : q # 5 => \A p \in Below[q] : Enters(p, Entry[q], q)
    BY <1>46, <1>47, <1>48, <1>49, <1>50, <1>51, <1>52, <1>53, <1>54, <1>55, <1>56, <1>57,
       <1>58, <1>59, <1>60
<1>65. \A q \in States \ {0, 5} : q \in 1 .. 15 \/ q \in 16 .. 30 \/ q \in 31 .. 45 \/ q \in 46 .. 60
    BY DEF States
<1>66. QED
    BY <1>61, <1>62, <1>63, <1>64, <1>65, Zenon

\* The symbols that states are entered with are in the vocabulary.
LEMMA EntriesKnown == \A q \in States : Entry[q] \in Vocabulary
<1>1. \A q \in 0 .. 30 : Entry[q] \in Vocabulary
    BY VocabularyIs DEF Entry, Table
<1>2. \A q \in 31 .. 60 : Entry[q] \in Vocabulary
    BY VocabularyIs DEF Entry, Table
<1>3. QED
    BY <1>1, <1>2 DEF States

\* Where a state can be entered, it is.
LEMMA LeadsEnter ==
    ASSUME NEW p, NEW q, NEW x, Leads(p, q, x), x # "EOF"
    PROVE  x \in Vocabulary /\ Enters(p, x, q)
<1>1. q \in States \ {0} /\ (q = 5 => x = "EOF")
    BY Landmarks, Zenon
<1>2. q \in States \ {0, 5}
    BY <1>1
<1>3. p \in Below[q] /\ Entry[q] = x
    BY Zenon DEF Leads
<1>4. QED
    BY <1>1, <1>2, <1>3, AllEnter, EntriesKnown

\* The form that a stack spells.
Spelt(st) == [i \in 1 .. Len(st) |-> st[i].type]

\* It leads to the state on top.
LEMMA SpeltIs ==
    ASSUME NEW st, StackPath(st)
    PROVE  /\ Spelt(st) \in Seq(Vocabulary) /\ Len(Spelt(st)) = Len(st) /\ Len(st) \in Nat
           /\ \A i \in 1 .. Len(st) : Spelt(st)[i] = st[i].type
           /\ At(Spelt(st), Under(st, Len(st)))
<1>1. Len(st) \in Nat /\ \A i \in 0 .. Len(st) : Under(st, i) \in States
    BY OnPath
<1>2. \A i \in 1 .. Len(st) : Leads(Under(st, i - 1), st[i].state, st[i].type) /\ st[i].type # "EOF"
    BY Zenon DEF StackPath
<1>3. \A i \in 1 .. Len(st) :
        st[i].type \in Vocabulary /\ Enters(Under(st, i - 1), st[i].type, st[i].state)
    BY <1>2, LeadsEnter, Zenon
<1>4. Spelt(st) \in Seq(Vocabulary) /\ Len(Spelt(st)) = Len(st)
    BY <1>1, <1>3 DEF Spelt
<1>5. \A i \in 1 .. Len(st) : Spelt(st)[i] = st[i].type
    BY Zenon DEF Spelt
<1>6. PICK s : s = [i \in 0 .. Len(st) |-> Under(st, i)]
    OBVIOUS
<1>7. s \in [0 .. Len(Spelt(st)) -> States] /\ s[0] = 0 /\ s[Len(Spelt(st))] = Under(st, Len(st))
    <2>1. s \in [0 .. Len(st) -> States]
        BY <1>1, <1>6
    <2>2. 0 \in 0 .. Len(st) /\ Len(st) \in 0 .. Len(st)
        BY <1>1
    <2>3. s[0] = Under(st, 0) /\ s[Len(st)] = Under(st, Len(st))
        BY <1>6, <2>2
    <2>4. Under(st, 0) = 0
        BY DEF Under
    <2>5. QED
        BY <1>4, <2>1, <2>3, <2>4
<1>8. ASSUME NEW i \in 1 .. Len(Spelt(st)) PROVE Enters(s[i - 1], Spelt(st)[i], s[i])
    <2>1. i \in 1 .. Len(st) /\ i - 1 \in 0 .. Len(st) /\ i \in 0 .. Len(st) /\ i # 0
        BY <1>1, <1>4
    <2>2. s[i - 1] = Under(st, i - 1) /\ s[i] = Under(st, i)
        BY <1>6, <2>1
    <2>3. Under(st, i) = st[i].state
        BY <2>1, Zenon DEF Under
    <2>4. Enters(Under(st, i - 1), st[i].type, st[i].state)
        BY <1>3, <2>1, Zenon
    <2>5. QED
        BY <1>5, <2>1, <2>2, <2>3, <2>4, Zenon
<1>9. Trail(Spelt(st), s)
    BY <1>7, <1>8, Zenon DEF Trail
<1>10. At(Spelt(st), Under(st, Len(st)))
    BY <1>7, <1>9, Zenon DEF At
<1>11. QED
    BY <1>1, <1>4, <1>5, <1>10

\* Stacks with the same symbols spell the same.
LEMMA SpeltSame ==
    ASSUME NEW st, NEW new, Len(new) = Len(st), \A i \in 1 .. Len(st) : new[i].type = st[i].type
    PROVE  Spelt(new) = Spelt(st)
BY DEF Spelt

\* The symbols w on top of a stack are popped, and e is pushed.
Replaces(st, w, e, new) ==
    \E g \in Seq(Vocabulary) : Spelt(st) = Joined(g, w) /\ Spelt(new) = Append(g, e.type)

\* What a reduction, or a shift, spells.
LEMMA SpeltPushed ==
    ASSUME NEW st, StackPath(st), NEW new, StackPath(new), NEW m \in Nat, m <= Len(st), NEW e,
           Pushed(st, m, e, new), NEW w \in Seq(Vocabulary), Len(st) = m + Len(w),
           \A k \in 1 .. Len(w) : st[m + k].type = w[k]
    PROVE  Replaces(st, w, e, new)
<1>1. PICK a \in Seq(Vocabulary) : a = Spelt(st)
    BY SpeltIs
<1>2. Len(a) = Len(st) /\ Len(st) \in Nat /\ \A i \in 1 .. Len(st) : a[i] = st[i].type
    BY <1>1, SpeltIs
<1>3. PICK b \in Seq(Vocabulary) : b = Spelt(new)
    BY SpeltIs
<1>4. Len(b) = Len(new) /\ \A i \in 1 .. Len(new) : b[i] = new[i].type
    BY <1>3, SpeltIs
<1>5. Len(new) = m + 1 /\ new[m + 1] = e /\ \A i \in 1 .. m : new[i] = st[i]
    BY Zenon DEF Pushed
<1>6. PICK g : g = SubSeq(a, 1, m)
    OBVIOUS
<1>7. g \in Seq(Vocabulary) /\ Len(g) = m /\ \A i \in 1 .. m : g[i] = a[i]
    <2>1. m \in 0 .. Len(a)
        BY <1>2
    <2>2. QED
        BY <1>6, <2>1, Cut
<1>8. Len(w) \in Nat /\ Len(a) = m + Len(w)
    BY <1>2
<1>9. a = Joined(g, w)
    <2>1. PICK j : j = Joined(g, w)
        OBVIOUS
    <2>2. j \in Seq(Vocabulary) /\ Len(j) = m + Len(w)
        BY <1>7, <2>1, JoinedIs, Zenon
    <2>3. /\ \A i \in 1 .. m : j[i] = g[i]
          /\ \A k \in 1 .. Len(w) : j[m + k] = w[k]
        BY <1>7, <1>8, <2>1 DEF Joined
    <2>4. ASSUME NEW i \in 1 .. Len(a) PROVE a[i] = j[i]
        <3>1. CASE i <= m
            BY <1>7, <2>3, <3>1
        <3>2. CASE ~(i <= m)
            <4>1. i - m \in 1 .. Len(w) /\ m + (i - m) = i /\ i \in 1 .. Len(st)
                BY <1>2, <1>8, <3>2
            <4>2. j[i] = w[i - m] /\ st[i].type = w[i - m]
                BY <2>3, <4>1
            <4>3. QED
                BY <1>2, <4>1, <4>2
        <3>3. QED
            BY <3>1, <3>2
    <2>5. Len(a) = Len(j)
        BY <1>8, <2>2
    <2>6. a = j
        BY <2>2, <2>4, <2>5, SeqEqual
    <2>7. QED
        BY <2>1, <2>6
<1>10. b = Append(g, e.type)
    <2>1. m + 1 \in 1 .. Len(new) /\ Len(b) = m + 1
        BY <1>4, <1>5
    <2>2. b[m + 1] = e.type
        BY <1>4, <1>5, <2>1
    <2>3. b[m + 1] \in Vocabulary
        BY <2>1, ElementOfSeq
    <2>4. PICK j : j = Append(g, e.type)
        OBVIOUS
    <2>5. j \in Seq(Vocabulary) /\ Len(j) = m + 1 /\ j[m + 1] = e.type /\ \A i \in 1 .. m : j[i] = g[i]
        BY <1>7, <2>2, <2>3, <2>4
    <2>6. ASSUME NEW i \in 1 .. m PROVE b[i] = j[i]
        <3>1. i \in 1 .. Len(new) /\ i \in 1 .. Len(st)
            BY <1>2, <1>5
        <3>2. b[i] = new[i].type
            BY <3>1, <1>4
        <3>3. new[i] = st[i]
            BY <1>5
        <3>4. a[i] = st[i].type
            BY <3>1, <1>2
        <3>5. g[i] = a[i] /\ j[i] = g[i]
            BY <1>7, <2>5
        <3>6. QED
            BY <3>2, <3>3, <3>4, <3>5, Zenon
    <2>7. \A i \in 1 .. Len(b) : i \in 1 .. m \/ i = m + 1
        BY <2>1
    <2>8. \A i \in 1 .. Len(b) : b[i] = j[i]
        BY <2>2, <2>5, <2>6, <2>7, Zenon
    <2>9. Len(b) = Len(j)
        BY <2>1, <2>5
    <2>10. b = j
        BY <2>5, <2>8, <2>9, SeqEqual
    <2>11. QED
        BY <2>4, <2>10
<1>11. QED
    BY <1>1, <1>3, <1>7, <1>9, <1>10, Zenon DEF Replaces

--------------------------------------------------------------------------------
(* The invariant                                                                *)

\* What the automaton has taken is parsed, and its verdict is that of the grammar.
Judged ==
    /\ phase # "over" => "ERROR" \notin parse.flags
    /\ phase = "parse" => Parsed(tokens, Spelt(stack), Consumed, FALSE)
    /\ phase = "final" => Parsed(tokens, Spelt(stack), Consumed, TRUE)
    /\ GrammarKept

\* While the text is parsed there is no verdict yet.
LEMMA Undecided ==
    ASSUME Inv', phase' # "over", "ERROR" \notin parse'.flags,
           phase' = "parse" => Parsed(tokens', Spelt(stack'), Consumed', FALSE),
           phase' = "final" => Parsed(tokens', Spelt(stack'), Consumed', TRUE)
    PROVE  Judged'
<1>1. "DONE" \notin parse'.flags
    BY DEF Inv, Path
<1>2. GrammarKept'
    BY <1>1 DEF GrammarKept
<1>3. QED
    BY <1>2, Zenon DEF Judged

\* A step in which the automaton takes nothing; the end of the text may have come.
LEMMA Stands ==
    ASSUME Inv', Judged, phase # "over", phase' # "over", tokens' = tokens,
           Spelt(stack') = Spelt(stack), Consumed' = Consumed, "ERROR" \notin parse'.flags,
           phase' = phase \/ (phase = "parse" /\ phase' = "final")
    PROVE  Judged'
<1>1. phase' = "parse" => Parsed(tokens', Spelt(stack'), Consumed', FALSE)
    BY Zenon DEF Judged
<1>2. phase' = "final" => Parsed(tokens', Spelt(stack'), Consumed', TRUE)
    <2>1. HAVE phase' = "final"
    <2>2. CASE phase = "final"
        BY <2>2, Zenon DEF Judged
    <2>3. CASE phase = "parse"
        <3>1. Parsed(tokens, Spelt(stack), Consumed, FALSE)
            BY <2>3, Zenon DEF Judged
        <3>2. Parsed(tokens, Spelt(stack), Consumed, TRUE)
            BY <3>1, ParsedLast, Zenon
        <3>3. QED
            BY <3>2, Zenon
    <2>4. QED
        BY <2>1, <2>2, <2>3
<1>3. QED
    BY <1>1, <1>2, Undecided, Zenon

\* While a line is awaited nothing has gone wrong.
LEMMA NoError ==
    ASSUME Inv, Judged, phase # "over"
    PROVE  /\ "ERROR" \notin parse.flags /\ "DONE" \notin parse.flags
           /\ parse \in [flags : SUBSET Flags, tok : Nat, look : Terminals, state : States, root : Nat]
           /\ tokens \in Seq(Texts)
<1>1. "DONE" \notin parse.flags
    BY DEF Inv, Path
<1>2. QED
    BY <1>1 DEF Judged, Inv, Shapes

--------------------------------------------------------------------------------
(* Steps in which the automaton takes nothing                                   *)

\* lex_token's input ends.
LEMMA LexEndsJudged ==
    ASSUME Inv, Inv', Judged, LexEnds
    PROVE  Judged'
<1>1. /\ phase = "parse" /\ "HAS_LOOKAHEAD" \notin parse.flags
      /\ "HERE_BODY" \notin parse.flags /\ UNCHANGED <<tokens, stack>>
    BY DEF LexEnds, Fresh, Fetching
<1>2. /\ parse \in [flags : SUBSET Flags, tok : Nat, look : Terminals, state : States, root : Nat]
      /\ "ERROR" \notin parse.flags
    BY <1>1, NoError
<1>3. parse'.tok = parse.tok /\ "HAS_LOOKAHEAD" \notin parse'.flags /\ "ERROR" \notin parse'.flags
    BY <1>1, <1>2 DEF LexEnds, StartHereBody
<1>4. phase' # "over" /\ (phase' = phase \/ phase' = "final")
    BY <1>1 DEF LexEnds
<1>5. PutAside' <=> PutAside
    <2>1. CASE "SAVE_TOKENS" \in parse.flags
        <3>1. "HERE_BODY" \in parse'.flags /\ phase' = "parse"
            BY <1>1, <1>2, <2>1 DEF LexEnds, StartHereBody
        <3>2. QED
            BY <1>1, <2>1, <3>1 DEF PutAside
    <2>2. CASE "SAVE_TOKENS" \notin parse.flags
        <3>1. phase' = "final"
            BY <2>2 DEF LexEnds
        <3>2. QED
            BY <1>1, <2>2, <3>1 DEF PutAside
    <2>3. QED
        BY <2>1, <2>2
<1>6. Consumed' = Consumed
    BY <1>1, <1>3, <1>5 DEF Consumed, Top
<1>7. QED
    BY <1>1, <1>3, <1>4, <1>6, Stands

\* handle_saved_tokens.
LEMMA ReplayTokenJudged ==
    ASSUME Inv, Inv', Judged, ReplayToken
    PROVE  Judged'
<1>1. /\ phase = "parse" /\ phase' = phase /\ "HAS_LOOKAHEAD" \notin parse.flags
      /\ "HERE_BODY" \notin parse.flags /\ UNCHANGED <<tokens, stack>>
    BY DEF ReplayToken, Fetching
<1>2. /\ parse \in [flags : SUBSET Flags, tok : Nat, look : Terminals, state : States, root : Nat]
      /\ "ERROR" \notin parse.flags
    BY <1>1, NoError
<1>3. /\ parse'.tok = parse.tok + 1 /\ "ERROR" \notin parse'.flags
      /\ "HAS_LOOKAHEAD" \in parse'.flags /\ "HERE_BODY" \notin parse'.flags
      /\ ("SAVE_TOKENS" \in parse'.flags) <=> ("SAVE_TOKENS" \in parse.flags)
    BY <1>1, <1>2 DEF ReplayToken
<1>4. PutAside' <=> PutAside
    BY <1>1, <1>3 DEF PutAside
<1>5. Consumed' = Consumed
    BY <1>1, <1>2, <1>3, <1>4 DEF Consumed, Top
<1>6. QED
    BY <1>1, <1>3, <1>5, Stands

\* handle_here_doc.
LEMMA SaveTokenJudged ==
    ASSUME Inv, Inv', Judged, SaveToken
    PROVE  Judged'
<1>1. /\ phase = "parse" /\ phase' = phase /\ "SAVE_TOKENS" \in parse.flags
      /\ UNCHANGED <<tokens, stack>>
    BY DEF SaveToken
<1>2. /\ parse \in [flags : SUBSET Flags, tok : Nat, look : Terminals, state : States, root : Nat]
      /\ "ERROR" \notin parse.flags
    BY <1>1, NoError
<1>3. /\ "SAVE_TOKENS" \in parse'.flags \/ "HERE_BODY" \in parse'.flags
      /\ "ERROR" \notin parse'.flags
    BY <1>1, <1>2 DEF SaveToken, StartHereBody
<1>4. PutAside' /\ PutAside
    BY <1>1, <1>3 DEF PutAside
<1>5. Consumed' = Consumed
    BY <1>1, <1>4 DEF Consumed, Top
<1>6. QED
    BY <1>1, <1>3, <1>5, Stands

\* A step that leaves the parser as it is.
LEMMA Untouched ==
    ASSUME Inv, Inv', Judged, UNCHANGED <<parse, tokens, stack, phase>>
    PROVE  Judged'
<1>1. Consumed' = Consumed
    BY DEF Consumed, PutAside, Top
<1>2. CASE phase = "over"
    BY <1>2 DEF Judged, GrammarKept
<1>3. CASE phase # "over"
    BY <1>1, <1>3, NoError, Stands
<1>4. QED
    BY <1>2, <1>3

\* Steps in a body, and stuttering.
LEMMA IdleJudged ==
    ASSUME Inv, Inv', Judged,
           \/ OpenHere \/ ReadNull \/ NextLine \/ UNCHANGED vars
           \/ \E w \in Delims : BodyLine(w) \/ UnendedLine(w) \/ UnwritableLine(w)
    PROVE  Judged'
<1>1. UNCHANGED <<parse, tokens, stack, phase>>
    BY DEF OpenHere, ReadNull, NextLine, BodyLine, UnendedLine, UnwritableLine, vars
<1>2. QED
    BY <1>1, Untouched

\* A body ends.
LEMMA BodyEndJudged ==
    ASSUME Inv, Inv', Judged, DelimiterLine \/ InputEnds
    PROVE  Judged'
<1>1. Reading /\ EndBody(body.fd) /\ UNCHANGED <<tokens, stack, phase>>
    BY DEF DelimiterLine, InputEnds
<1>2. /\ phase = "parse" /\ PutAside
      /\ "HAS_LOOKAHEAD" \notin parse.flags /\ "SAVE_TOKENS" \notin parse.flags
    BY <1>1, InBody
<1>3. /\ parse \in [flags : SUBSET Flags, tok : Nat, look : Terminals, state : States, root : Nat]
      /\ "ERROR" \notin parse.flags
    BY <1>2, NoError
<1>4. parse'.tok = Top.token /\ parse'.flags = parse.flags \ {"HERE_BODY"}
    BY <1>1, <1>3 DEF EndBody
<1>5. ~PutAside'
    BY <1>2, <1>4 DEF PutAside
<1>6. Consumed' = Consumed
    BY <1>2, <1>4, <1>5 DEF Consumed
<1>7. QED
    BY <1>1, <1>2, <1>3, <1>4, <1>6, Stands

\* An interrupt is no verdict.
LEMMA InterruptJudged ==
    ASSUME Inv, Inv', Judged, Interrupt
    PROVE  Judged'
<1>1. Reading /\ phase' = "over"
    BY DEF Interrupt
<1>2. phase = "parse"
    BY <1>1, InBody
<1>3. /\ parse \in [flags : SUBSET Flags, tok : Nat, look : Terminals, state : States, root : Nat]
      /\ "ERROR" \notin parse.flags /\ "DONE" \notin parse.flags
    BY <1>2, NoError
<1>4. "ERROR" \notin parse'.flags /\ "DONE" \notin parse'.flags
    BY <1>3 DEF Interrupt
<1>5. QED
    BY <1>1, <1>4 DEF Judged, GrammarKept

\* check_and_run_pending_exec.
LEMMA RunPendingJudged ==
    ASSUME Inv, Inv', Judged, RunPending
    PROVE  Judged'
<1>1. /\ phase # "over" /\ parse.root # 0 /\ tokens' = tokens /\ phase' = phase
      /\ stack' = [stack EXCEPT ![Len(stack)].node = 0]
    BY DEF RunPending
<1>2. ~PutAside /\ stack \in Seq(Symbol) /\ Len(stack) = 2
    BY <1>1, CompleteAlone
<1>3. /\ parse \in [flags : SUBSET Flags, tok : Nat, look : Terminals, state : States, root : Nat]
      /\ "ERROR" \notin parse.flags
    BY <1>1, NoError
<1>4. parse'.tok = parse.tok /\ parse'.flags = parse.flags
    BY <1>3 DEF RunPending
<1>5. ~PutAside'
    BY <1>1, <1>2, <1>4 DEF PutAside
<1>6. Consumed' = Consumed
    BY <1>2, <1>4, <1>5 DEF Consumed
<1>7. Spelt(stack') = Spelt(stack)
    <2>1. PICK st, new : st = stack /\ new = stack'
        OBVIOUS
    <2>2. /\ st \in Seq(Symbol) /\ Len(st) = 2 /\ new = [st EXCEPT ![2].node = 0]
        BY <1>1, <1>2, <2>1
    <2>3. st[1] \in Symbol /\ st[2] \in Symbol
        BY <2>2
    <2>4. Len(new) = 2 /\ new[1] = st[1] /\ new[2] = [st[2] EXCEPT !.node = 0]
        BY <2>2
    <2>5. new[2].type = st[2].type
        BY <2>3, <2>4 DEF Symbol
    <2>6. \A i \in 1 .. 2 : i = 1 \/ i = 2
        OBVIOUS
    <2>7. \A i \in 1 .. 2 : new[i].type = st[i].type
        BY <2>4, <2>5, <2>6, Zenon
    <2>8. Spelt(new) = Spelt(st)
        BY <2>2, <2>4, <2>7, SpeltSame
    <2>9. QED
        BY <2>1, <2>8
<1>8. QED
    BY <1>1, <1>3, <1>4, <1>6, <1>7, Stands

\* lex_token.
LEMMA LexTokenJudged ==
    ASSUME Inv, Inv', Judged, NEW t \in Texts, LexToken(t)
    PROVE  Judged'
<1>1. /\ phase = "parse" /\ phase' = phase /\ "HAS_LOOKAHEAD" \notin parse.flags
      /\ "HERE_BODY" \notin parse.flags /\ "HAS_SAVED_TOKENS" \notin parse.flags
      /\ tokens' = Append(tokens, t) /\ UNCHANGED stack
    BY DEF LexToken, Fresh, Fetching
<1>2. /\ parse \in [flags : SUBSET Flags, tok : Nat, look : Terminals, state : States, root : Nat]
      /\ "ERROR" \notin parse.flags /\ tokens \in Seq(Texts)
    BY <1>1, NoError
<1>3. parse'.tok = parse.tok + 1 /\ parse'.flags = parse.flags \cup {"HAS_LOOKAHEAD"}
    BY <1>1, <1>2 DEF LexToken
<1>4. PutAside' <=> PutAside
    BY <1>1, <1>3 DEF PutAside
<1>5. Consumed' = Consumed
    <2>1. "HAS_LOOKAHEAD" \in parse'.flags /\ parse.tok \in Nat /\ stack' = stack
        BY <1>1, <1>2, <1>3
    <2>2. parse'.tok - 1 = parse.tok
        BY <1>3, <2>1
    <2>3. QED
        BY <1>1, <1>4, <2>1, <2>2 DEF Consumed, Top
<1>6. PICK ts, us, f, c : ts = tokens /\ us = tokens' /\ f = Spelt(stack) /\ c = Consumed
    OBVIOUS
<1>7. Parsed(ts, f, c, FALSE)
    BY <1>1, <1>6, Zenon DEF Judged
<1>8. us = Append(ts, t) /\ ts \in Seq(Texts)
    BY <1>1, <1>2, <1>6, Zenon
<1>9. Parsed(us, f, c, FALSE)
    BY <1>7, <1>8, ParsedOn, Zenon
<1>10. Parsed(tokens', Spelt(stack'), Consumed', FALSE)
    <2>1. stack' = stack
        BY <1>1
    <2>2. QED
        BY <1>5, <1>6, <1>9, <2>1, Zenon
<1>11. phase' # "over" /\ phase' # "final" /\ "ERROR" \notin parse'.flags
    BY <1>1, <1>2, <1>3
<1>12. QED
    BY <1>10, <1>11, Undecided

--------------------------------------------------------------------------------
(* Steps of the automaton                                                       *)

\* What the automaton has before it when it decides; last: the text has ended.
LEMMA Facing ==
    ASSUME Inv, Judged, Deciding, NEW last \in BOOLEAN, last <=> phase = "final"
    PROVE  /\ tokens \in Seq(Texts) /\ StackPath(stack) /\ parse.look \in Terminals
           /\ Parsed(tokens, Spelt(stack), Consumed, last)
           /\ Looks(tokens, Consumed, last, parse.look)
           /\ At(Spelt(stack), parse.state) /\ parse.state \in States \ {5}
           /\ Consumed \in Nat /\ ~PutAside
           /\ ~last => phase = "parse" /\ parse.tok = Consumed + 1 /\ Consumed < Len(tokens)
                       /\ parse.look # "EOF" /\ parse.look = ClassifyToken(tokens[Consumed + 1])
                       /\ "HAS_LOOKAHEAD" \in parse.flags
           /\ last => phase = "final" /\ parse.look = "EOF" /\ Consumed = Len(tokens)
<1>1. /\ ~PutAside /\ phase # "over" /\ parse.state = Under(stack, Len(stack))
      /\ phase = "parse" => "HAS_LOOKAHEAD" \in parse.flags /\ "SAVE_TOKENS" \notin parse.flags
      /\ phase = "final" => "HAS_LOOKAHEAD" \notin parse.flags /\ parse.look = "EOF"
      /\ phase = "parse" \/ phase = "final"
      /\ parse.state \in States \ {5} /\ parse.look \in Terminals
    BY DecidingIs
<1>2. /\ parse \in [flags : SUBSET Flags, tok : Nat, look : Terminals, state : States, root : Nat]
      /\ tokens \in Seq(Texts)
    BY <1>1, NoError
<1>3. StackPath(stack)
    BY DEF Inv, Path
<1>4. At(Spelt(stack), parse.state)
    BY <1>1, <1>3, SpeltIs
<1>5. CASE ~last
    <2>1. phase = "parse" /\ "HAS_LOOKAHEAD" \in parse.flags
        BY <1>1, <1>5
    <2>2. parse.tok >= 1 /\ parse.look = ClassifyToken(tokens[parse.tok]) /\ parse.tok <= Len(tokens)
        BY <2>1 DEF Inv, Flow
    <2>3. Consumed = parse.tok - 1
        BY <1>1, <2>1 DEF Consumed
    <2>4. Consumed \in Nat /\ parse.tok = Consumed + 1 /\ Consumed < Len(tokens)
        BY <1>2, <2>2, <2>3
    <2>5. parse.look = ClassifyToken(tokens[Consumed + 1])
        BY <2>2, <2>4, Zenon
    <2>6. parse.look # "EOF"
        BY <2>2, ClassesKnown
    <2>7. Parsed(tokens, Spelt(stack), Consumed, FALSE)
        BY <2>1, Zenon DEF Judged
    <2>8. last = FALSE
        BY <1>5
    <2>9. Looks(tokens, Consumed, FALSE, parse.look)
        BY <2>4, <2>5, Zenon DEF Looks
    <2>10. QED
        BY <1>1, <1>2, <1>3, <1>4, <2>1, <2>4, <2>5, <2>6, <2>7, <2>8, <2>9, Zenon
<1>6. CASE last
    <2>1. phase = "final" /\ "HAS_LOOKAHEAD" \notin parse.flags /\ parse.look = "EOF"
        BY <1>1, <1>6
    <2>2. parse.tok = Len(tokens)
        BY <2>1 DEF Inv, Flow
    <2>3. Consumed = Len(tokens)
        BY <1>1, <2>1, <2>2 DEF Consumed
    <2>4. Consumed \in Nat
        BY <1>2, <2>3
    <2>5. Parsed(tokens, Spelt(stack), Consumed, TRUE)
        BY <2>1, Zenon DEF Judged
    <2>6. last = TRUE
        BY <1>6
    <2>7. Looks(tokens, Consumed, TRUE, parse.look)
        BY <2>1, <2>3, Zenon DEF Looks
    <2>8. QED
        BY <1>1, <1>2, <1>3, <1>4, <2>1, <2>3, <2>4, <2>5, <2>6, <2>7, Zenon
<1>7. QED
    BY <1>5, <1>6

\* A shift puts the class of a token on the stack.
LEMMA SpeltShifted ==
    ASSUME NEW st, StackPath(st), NEW e, NEW new, new = Append(st, e), StackPath(new)
    PROVE  Spelt(new) = Append(Spelt(st), e.type)
<1>1. st \in Seq(Symbol) /\ new \in Seq(Symbol)
    BY Zenon DEF StackPath
<1>2. Len(st) \in Nat /\ Len(new) \in Nat /\ e \in Symbol
    <2>1. Len(st) \in Nat /\ Len(new) \in Nat /\ Len(new) = Len(st) + 1 /\ new[Len(st) + 1] = e
        BY <1>1
    <2>2. Len(st) + 1 \in 1 .. Len(new)
        BY <2>1
    <2>3. new[Len(st) + 1] \in Symbol
        BY <1>1, <2>2, ElementOfSeq
    <2>4. QED
        BY <2>1, <2>3
<1>3. PICK m \in Nat : m = Len(st)
    BY <1>2
<1>4. Pushed(st, m, e, new)
    <2>1. Len(new) = m + 1 /\ new[m + 1] = e /\ \A i \in 1 .. m : new[i] = st[i]
        BY <1>1, <1>2, <1>3
    <2>2. QED
        BY <1>1, <2>1, Zenon DEF Pushed
<1>5. Nil \in Seq(Vocabulary) /\ Len(Nil) = 0
    BY DEF Nil
<1>6. m <= Len(st) /\ Len(st) = m + Len(Nil) /\ 1 .. Len(Nil) = {}
    BY <1>3, <1>5
<1>7. Replaces(st, Nil, e, new)
    <2>1. \A k \in 1 .. Len(Nil) : st[m + k].type = Nil[k]
        BY <1>6, Zenon
    <2>2. QED
        BY <1>4, <1>5, <1>6, <2>1, SpeltPushed
<1>8. PICK g \in Seq(Vocabulary) : Spelt(st) = Joined(g, Nil) /\ Spelt(new) = Append(g, e.type)
    BY <1>7, Zenon DEF Replaces
<1>9. Joined(g, Nil) = g
    BY <1>8 DEF Joined, Nil
<1>10. QED
    BY <1>8, <1>9, Zenon

\* A token is shifted.
LEMMA ShiftJudged ==
    ASSUME Inv, Inv', Judged, Shift, Decision # YyFinal
    PROVE  Judged'
<1>1. Deciding /\ Decision > 0
    BY DEF Shift
<1>2. PICK last \in BOOLEAN : last <=> phase = "final"
    OBVIOUS
<1>3. Leads(parse.state, Decision, parse.look)
    BY <1>1, DecidingIs
<1>4. parse.look # "EOF"
    BY <1>3, Landmarks DEF YyFinal
<1>5. last = FALSE
    BY <1>1, <1>2, <1>4, Facing
<1>6. PICK ts, f, c, p, t, st, new :
        /\ ts = tokens /\ f = Spelt(stack) /\ c = Consumed /\ p = parse.state /\ t = parse.look
        /\ st = stack /\ new = stack'
    OBVIOUS
<1>7. /\ ts \in Seq(Texts) /\ StackPath(st) /\ Parsed(ts, f, c, FALSE) /\ At(f, p)
      /\ c \in Nat /\ c < Len(ts) /\ t = ClassifyToken(ts[c + 1])
      /\ phase = "parse" /\ parse.tok = c + 1 /\ ~PutAside /\ "HAS_LOOKAHEAD" \in parse.flags
    BY <1>1, <1>2, <1>5, <1>6, Facing, Zenon
<1>8. Action(p, t) > 0
    BY <1>1, <1>6 DEF Decision
<1>9. Parsed(ts, Append(f, t), c + 1, FALSE)
    BY <1>7, <1>8, ParsedShift, Zenon
<1>10. PICK e : e = [type |-> parse.look, token |-> parse.tok, node |-> 0, state |-> Decision]
    OBVIOUS
<1>11. new = Append(st, e) /\ e.type = t /\ tokens' = tokens /\ phase' = phase
    BY <1>6, <1>10 DEF Shift
<1>12. Spelt(new) = Append(f, t)
    <2>1. StackPath(new)
        BY <1>6 DEF Inv, Path
    <2>2. Spelt(new) = Append(Spelt(st), e.type)
        BY <1>7, <1>11, <2>1, SpeltShifted
    <2>3. QED
        BY <1>6, <1>11, <2>2, Zenon
<1>13. /\ parse \in [flags : SUBSET Flags, tok : Nat, look : Terminals, state : States, root : Nat]
       /\ "ERROR" \notin parse.flags
    BY <1>7, NoError
<1>14. parse'.tok = parse.tok /\ parse'.flags = parse.flags \ {"HAS_LOOKAHEAD"}
    BY <1>13 DEF Shift
<1>15. ~PutAside'
    BY <1>7, <1>11, <1>14 DEF PutAside
<1>16. Consumed' = c + 1
    BY <1>7, <1>14, <1>15 DEF Consumed
<1>17. Parsed(tokens', Spelt(stack'), Consumed', FALSE)
    BY <1>6, <1>9, <1>11, <1>12, <1>16, Zenon
<1>18. phase' = "parse" /\ "ERROR" \notin parse'.flags
    BY <1>7, <1>11, <1>13, <1>14
<1>19. QED
    BY <1>17, <1>18, Undecided

\* The text is accepted.
LEMMA AcceptJudged ==
    ASSUME Inv, Inv', Judged, Shift, Decision = YyFinal
    PROVE  Judged'
<1>1. Deciding /\ Decision = 5 /\ Decision > 0
    BY DEF Shift, YyFinal
<1>2. PICK last \in BOOLEAN : last <=> phase = "final"
    OBVIOUS
<1>3. Leads(parse.state, 5, parse.look)
    BY <1>1, DecidingIs
<1>4. parse.state = 2 /\ parse.look = "EOF"
    BY <1>3, Landmarks
<1>5. last = TRUE
    BY <1>1, <1>2, <1>4, Facing
<1>6. PICK ts, f, c : ts = tokens /\ f = Spelt(stack) /\ c = Consumed
    OBVIOUS
<1>7. ts \in Seq(Texts) /\ Parsed(ts, f, c, TRUE) /\ At(f, 2) /\ c = Len(ts) /\ phase = "final"
    BY <1>1, <1>2, <1>4, <1>5, <1>6, Facing, Zenon
<1>8. Derives(Classes(ts))
    BY <1>7, ParsedAll, Zenon
<1>9. tokens' = tokens /\ phase' = "over" /\ "ERROR" \notin parse'.flags
    <2>1. /\ parse \in [flags : SUBSET Flags, tok : Nat, look : Terminals, state : States, root : Nat]
          /\ "ERROR" \notin parse.flags
        BY <1>7, NoError
    <2>2. parse'.flags = (parse.flags \ {"HAS_LOOKAHEAD"}) \cup {"DONE"}
        BY <2>1 DEF Shift
    <2>3. "ERROR" \notin parse'.flags
        BY <2>1, <2>2
    <2>4. QED
        BY <2>3 DEF Shift
<1>10. Derives(Classes(tokens'))
    BY <1>6, <1>8, <1>9, Zenon
<1>11. GrammarKept'
    BY <1>9, <1>10, Zenon DEF GrammarKept
<1>12. QED
    BY <1>9, <1>11 DEF Judged

\* A syntax error.
LEMMA SyntaxErrorJudged ==
    ASSUME Inv, Inv', Judged, SyntaxError
    PROVE  Judged'
<1>1. Deciding /\ Decision = 0
    BY DEF SyntaxError
<1>2. PICK last \in BOOLEAN : last <=> phase = "final"
    OBVIOUS
<1>3. PICK ts, f, c, p, t :
        ts = tokens /\ f = Spelt(stack) /\ c = Consumed /\ p = parse.state /\ t = parse.look
    OBVIOUS
<1>4. /\ ts \in Seq(Texts) /\ Parsed(ts, f, c, last) /\ At(f, p) /\ p \in States \ {5} /\ c \in Nat
      /\ ~last => /\ phase = "parse" /\ parse.tok = c + 1 /\ c < Len(ts)
                  /\ t # "EOF" /\ t = ClassifyToken(ts[c + 1])
      /\ last => phase = "final" /\ t = "EOF" /\ c = Len(ts)
    BY <1>1, <1>2, <1>3, Facing, Zenon
<1>5. Action(p, t) = 0
    BY <1>1, <1>3 DEF Decision
<1>6. phase # "over"
    BY <1>4
<1>7. /\ parse \in [flags : SUBSET Flags, tok : Nat, look : Terminals, state : States, root : Nat]
      /\ "DONE" \notin parse.flags
    BY <1>6, NoError
<1>8. /\ tokens' = tokens /\ phase' = "over" /\ "DONE" \notin parse'.flags
      /\ parse'.look = parse.look /\ parse'.tok = parse.tok
    BY <1>7 DEF SyntaxError
<1>9. CASE last
    <2>1. last = TRUE
        BY <1>9
    <2>2. Parsed(ts, f, c, TRUE) /\ Action(p, "EOF") = 0 /\ c = Len(ts) /\ t = "EOF"
        BY <1>4, <1>5, <2>1, Zenon
    <2>3. ~Derives(Classes(ts))
        BY <1>4, <2>2, ParsedNot, Zenon
    <2>4. parse'.look = "EOF" /\ ~Derives(Classes(tokens'))
        BY <1>3, <1>8, <2>2, <2>3, Zenon
    <2>5. GrammarKept'
        BY <1>8, <2>4, Zenon DEF GrammarKept
    <2>6. QED
        BY <1>8, <2>5 DEF Judged
<1>10. CASE ~last
    <2>1. last = FALSE
        BY <1>10
    <2>2. /\ Parsed(ts, f, c, FALSE) /\ c < Len(ts) /\ Action(p, ClassifyToken(ts[c + 1])) = 0
          /\ parse.tok = c + 1 /\ t # "EOF"
        BY <1>4, <1>5, <2>1, Zenon
    <2>3. p # 5
        BY <1>4
    <2>4. ~Viable(Classes(SubSeq(ts, 1, c + 1))) /\ Viable(Classes(SubSeq(ts, 1, c)))
        BY <1>4, <2>2, <2>3, ParsedNoFurther, Zenon
    <2>5. PICK k : k = parse.tok - 1
        OBVIOUS
    <2>6. k = c
        BY <1>4, <2>2, <2>5
    <2>7. parse'.look # "EOF" /\ parse'.tok = c + 1 /\ parse'.tok - 1 = c
        BY <1>3, <1>8, <2>2, <2>5, <2>6, Zenon
    <2>8. /\ ~Viable(Classes(SubSeq(tokens', 1, parse'.tok)))
          /\ Viable(Classes(SubSeq(tokens', 1, parse'.tok - 1)))
        BY <1>3, <1>8, <2>4, <2>7, Zenon
    <2>9. GrammarKept'
        BY <1>8, <2>7, <2>8, Zenon DEF GrammarKept
    <2>10. QED
        BY <1>8, <2>9 DEF Judged
<1>11. QED
    BY <1>9, <1>10

\* A reduction replaces a right-hand side by its left-hand side.
LEMMA ReduceStepJudged ==
    ASSUME Inv, Inv', Judged, ReduceStep
    PROVE  Judged'
<1>1. Deciding
    BY DEF ReduceStep
<1>2. PICK r, m, rhs, e, res : Reducing(r, m, rhs, e, res) /\ Reduced(r, m, rhs, e, res)
    BY ReductionIs
<1>3. PICK last \in BOOLEAN : last <=> phase = "final"
    OBVIOUS
<1>4. PICK ts, f, c, p, t, st, new :
        /\ ts = tokens /\ f = Spelt(stack) /\ c = Consumed /\ p = parse.state /\ t = parse.look
        /\ st = stack /\ new = stack'
    OBVIOUS
<1>5. /\ ts \in Seq(Texts) /\ StackPath(st) /\ Parsed(ts, f, c, last) /\ At(f, p) /\ c \in Nat
      /\ Looks(ts, c, last, t) /\ ~PutAside
      /\ ~last => phase = "parse" /\ parse.tok = c + 1
      /\ last => phase = "final"
    BY <1>1, <1>3, <1>4, Facing, Zenon
<1>6. /\ r = YyDefAct[parse.state] /\ r \in 2 .. 45
      /\ m \in Nat /\ m <= Len(st) /\ Len(st) = m + Len(Rhs[r])
      /\ Borne(nodes, Len(tokens), rhs, Rhs[r])
      /\ \A k \in 1 .. Len(Rhs[r]) : rhs[k] = st[m + k]
      /\ Len(Rhs[r]) > 0 => rhs[Len(Rhs[r])] = Top
      /\ e.type = Rules[r].lhs
      /\ e.token = IF Len(Rhs[r]) = 0 THEN parse.tok ELSE Top.token
    BY <1>2, <1>4 DEF Reducing
<1>7. Action(p, t) = -r
    <2>1. Decision \in Int /\ Decision < 0 /\ -Decision = YyDefAct[parse.state]
        BY <1>1, DecidingIs DEF ReduceStep
    <2>2. Action(p, t) = Decision
        BY <1>4 DEF Decision
    <2>3. QED
        BY <1>6, <2>1, <2>2
<1>8. Rhs[r] \in Seq(Vocabulary) /\ Len(Rhs[r]) \in Nat
    <2>1. Rhs[r] \in Seq(Vocabulary) /\ Len(Rhs[r]) \in 0 .. 4
        BY <1>6, RhsIs, Zenon
    <2>2. \A k \in 0 .. 4 : k \in Nat
        OBVIOUS
    <2>3. QED
        BY <2>1, <2>2, Zenon
<1>9. \A k \in 1 .. Len(Rhs[r]) : st[m + k].type = Rhs[r][k]
    BY <1>6 DEF Borne
<1>10. StackPath(new) /\ new \in Seq(Symbol) /\ st \in Seq(Symbol)
    BY <1>4, <1>5 DEF Inv, Path, StackPath
<1>11. Pushed(st, m, e, new)
    <2>1. PICK j : j = SubSeq(st, 1, m)
        OBVIOUS
    <2>2. m \in 0 .. Len(st) /\ Len(st) \in Nat
        BY <1>6, <1>10
    <2>3. j \in Seq(Symbol) /\ Len(j) = m /\ \A i \in 1 .. m : j[i] = st[i]
        BY <1>10, <2>1, <2>2, Cut
    <2>4. new = Append(j, e)
        BY <1>2, <1>4, <2>1, Zenon DEF Reduced
    <2>5. Len(new) = m + 1 /\ new[m + 1] = e /\ \A i \in 1 .. m : new[i] = j[i]
        BY <1>6, <2>3, <2>4
    <2>6. \A i \in 1 .. m : new[i] = st[i]
        BY <2>3, <2>5, Zenon
    <2>7. QED
        BY <1>10, <2>5, <2>6, Zenon DEF Pushed
<1>12. Replaces(st, Rhs[r], e, new)
    BY <1>5, <1>6, <1>8, <1>9, <1>10, <1>11, SpeltPushed
<1>13. PICK g \in Seq(Vocabulary) : Spelt(st) = Joined(g, Rhs[r]) /\ Spelt(new) = Append(g, e.type)
    BY <1>12, Zenon DEF Replaces
<1>14. Parsed(ts, Spelt(new), c, last)
    <2>1. f = Joined(g, Rhs[r])
        BY <1>4, <1>13, Zenon
    <2>2. Parsed(ts, Joined(g, Rhs[r]), c, last) /\ At(Joined(g, Rhs[r]), p)
        BY <1>5, <2>1, Zenon
    <2>3. ts \in Seq(Texts) /\ g \in Seq(Vocabulary) /\ r \in 2 .. 45 /\ last \in BOOLEAN
        BY <1>3, <1>5, <1>6, <1>13
    <2>4. Looks(ts, c, last, t) /\ Action(p, t) = -r
        BY <1>5, <1>7
    <2>5. Parsed(ts, Append(g, Rules[r].lhs), c, last)
        BY <2>2, <2>3, <2>4, ParsedReduce
    <2>6. QED
        BY <1>6, <1>13, <2>5, Zenon
<1>15. /\ parse \in [flags : SUBSET Flags, tok : Nat, look : Terminals, state : States, root : Nat]
       /\ "ERROR" \notin parse.flags
    <2>1. phase # "over"
        BY <1>5
    <2>2. QED
        BY <2>1, NoError
<1>16. /\ tokens' = tokens /\ phase' = phase /\ parse'.tok = parse.tok
       /\ parse'.flags = IF r = 40 THEN parse.flags \cup {"SAVE_TOKENS"} ELSE parse.flags
    BY <1>2 DEF ReduceStep, Reduced
<1>17. Consumed' = c
    <2>1. ("HAS_LOOKAHEAD" \in parse'.flags) <=> ("HAS_LOOKAHEAD" \in parse.flags)
        BY <1>16
    <2>2. CASE ~PutAside'
        BY <1>4, <1>5, <1>16, <2>1, <2>2 DEF Consumed
    <2>3. CASE PutAside'
        <3>1. r = 40
            BY <1>5, <1>16, <2>3 DEF PutAside
        <3>2. Len(Rhs[40]) = 2 /\ Rhs[40][2] = "here_end"
            BY Rules40To45 DEF Shape, Rule
        <3>3. rhs[2] = Top /\ rhs[2].type = "here_end" /\ Len(st) > 0 /\ e.token = Top.token
            BY <1>6, <3>1, <3>2 DEF Borne
        <3>4. Top.type = "here_end" /\ stack # << >> /\ phase # "over"
            BY <1>4, <1>5, <3>3
        <3>5. Top.token = Consumed
            BY <3>4 DEF Inv, Ends
        <3>6. Top' = e
            BY <1>4, <1>11 DEF Pushed, Top
        <3>7. QED
            BY <1>4, <2>3, <3>3, <3>5, <3>6 DEF Consumed
    <2>4. QED
        BY <2>2, <2>3
<1>18. Parsed(tokens', Spelt(stack'), Consumed', last)
    BY <1>4, <1>14, <1>16, <1>17, Zenon
<1>19. phase' # "over" /\ "ERROR" \notin parse'.flags /\ (last <=> phase' = "final")
    BY <1>3, <1>5, <1>15, <1>16
<1>20. phase' = "parse" => Parsed(tokens', Spelt(stack'), Consumed', FALSE)
    <2>1. HAVE phase' = "parse"
    <2>2. last = FALSE
        BY <1>19, <2>1
    <2>3. QED
        BY <1>18, <2>2, Zenon
<1>21. phase' = "final" => Parsed(tokens', Spelt(stack'), Consumed', TRUE)
    <2>1. HAVE phase' = "final"
    <2>2. last = TRUE
        BY <1>19, <2>1
    <2>3. QED
        BY <1>18, <2>2, Zenon
<1>22. QED
    BY <1>19, <1>20, <1>21, Undecided

--------------------------------------------------------------------------------
(* The theorem                                                                  *)

\* Nothing has been typed yet.
LEMMA InitJudged == Init => Judged
<1> SUFFICES ASSUME Init PROVE Judged
    OBVIOUS
<1>1. /\ tokens = << >> /\ stack = << >> /\ parse.flags = {} /\ parse.tok = 0
      /\ phase = "parse"
    BY DEF Init
<1>2. ~PutAside
    BY <1>1 DEF PutAside
<1>3. Consumed = 0
    BY <1>1, <1>2 DEF Consumed
<1>4. Spelt(stack) = Nil
    BY <1>1 DEF Spelt, Nil
<1>5. Parsed(tokens, Spelt(stack), Consumed, FALSE)
    BY <1>1, <1>3, <1>4, ParsedNothing, Zenon
<1>6. QED
    BY <1>1, <1>5 DEF Judged, GrammarKept

\* Every step keeps it.
LEMMA JudgedKept == Inv /\ Inv' /\ Judged /\ [Next]_vars => Judged'
<1> SUFFICES ASSUME Inv, Inv', Judged, [Next]_vars PROVE Judged'
    OBVIOUS
<1>1. CASE NextToken
    <2>1. ASSUME NEW t \in Signs \cup (IF EndsIn(tokens, "<<") THEN Delims ELSE Words), LexToken(t)
          PROVE  Judged'
        <3>1. t \in Texts
            BY DEF Texts
        <3>2. QED
            BY <2>1, <3>1, LexTokenJudged
    <2>2. QED
        BY <1>1, <2>1, LexEndsJudged, ReplayTokenJudged, SaveTokenJudged DEF NextToken
<1>2. CASE ReadBody
    BY <1>2, IdleJudged, BodyEndJudged, InterruptJudged DEF ReadBody
<1>3. CASE Advance
    BY <1>3, ShiftJudged, AcceptJudged, SyntaxErrorJudged, ReduceStepJudged, RunPendingJudged
       DEF Advance
<1>4. CASE UNCHANGED vars
    BY <1>4, IdleJudged
<1>5. QED
    BY <1>1, <1>2, <1>3, <1>4 DEF Next

(* A text is accepted exactly when the grammar derives it, and rejected at the
   first token after which it cannot be completed any more, whatever is typed: the
   tables, the default reductions and the stack do what the productions say.      *)
THEOREM GrammarIsKept == Spec => []GrammarKept
<1>1. Spec => []Inv
    BY Invariance
<1>2. Init => Judged
    BY InitJudged
<1>3. Inv /\ Inv' /\ Judged /\ [Next]_vars => Judged'
    BY JudgedKept
<1>4. Judged => GrammarKept
    BY DEF Judged
<1>5. QED
    BY <1>1, <1>2, <1>3, <1>4, PTL DEF Spec
================================================================================
