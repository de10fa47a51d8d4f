----------------------------- MODULE SessionProofs -----------------------------
(* What Session's runs check, for all environments, commands and directories: the
   list keeps every name once and shows what Store promises; a cd that fails
   changes nothing; PWD names the directory of the process for as long as only the
   shell sets it; a shell started from a shell finds what its parent could.

   First, what Texts computes, for all texts: a loop over characters is a function
   defined by recursion on the number of turns, and what holds after every turn is
   proved by induction on it.                                                     *)
EXTENDS Session, SequenceTheorems, FiniteSetTheorems, WellFoundedInduction, TLAPS

\* A nonempty set of positions has a least one, and Min is it.
LEMMA MinIsLeast ==
    ASSUME NEW S \in SUBSET Nat, S # {}
    PROVE  Min(S) \in S /\ \A y \in S : Min(S) <= y
<1>1. PICK x \in S : \A y \in S : ~ (<<y, x>> \in OpToRel(<, Nat))
    BY NatLessThanWellFounded, WFMin
<1>2. ASSUME NEW y \in S PROVE x <= y
    <2>1. x \in Nat /\ y \in Nat
        OBVIOUS
    <2>2. ~(y < x)
        BY <1>1, <2>1 DEF OpToRel
    <2>3. QED
        BY <2>1, <2>2
<1>3. QED
    BY <1>2 DEF Min

\* Induction on the turns of a loop, strong and weak: S are the turns after which
\* what is to be proved holds.
LEMMA StrongInduction ==
    ASSUME NEW N \in Nat, NEW S,
           \A k \in 0..N : (\A j \in 0..(k - 1) : j \in S) => k \in S
    PROVE  \A k \in 0..N : k \in S
<1> DEFINE T == {k \in 0..N : k \notin S}
<1> SUFFICES ASSUME T # {} PROVE FALSE
    OBVIOUS
<1>1. T \in SUBSET Nat
    OBVIOUS
<1> HIDE DEF T
<1>2. PICK m : m \in T /\ \A y \in T : m <= y
    BY <1>1, MinIsLeast
<1>3. m \in 0..N /\ m \notin S
    BY <1>2 DEF T
<1>4. ASSUME NEW j \in 0..(m - 1) PROVE j \in S
    <2>1. j \in 0..N /\ ~(m <= j)
        BY <1>3
    <2>2. QED
        BY <1>2, <2>1 DEF T
<1>5. QED
    BY <1>3, <1>4

LEMMA Induction ==
    ASSUME NEW N \in Nat, NEW S, 0 \in S,
           \A k \in 1..N : k - 1 \in S => k \in S
    PROVE  \A k \in 0..N : k \in S
<1>1. ASSUME NEW k \in 0..N, \A j \in 0..(k - 1) : j \in S PROVE k \in S
    <2>1. CASE k = 0
        BY <2>1
    <2>2. CASE k # 0
        <3>1. k \in 1..N /\ k - 1 \in 0..(k - 1)
            BY <2>2
        <3>2. QED
            BY <1>1, <3>1
    <2>3. QED
        BY <2>1, <2>2
<1>2. QED
    BY <1>1, StrongInduction

\* A nonempty set of positions that ends has a greatest one, and Max is it.
LEMMA MaxIsGreatest ==
    ASSUME NEW N \in Nat, NEW S \in SUBSET (0..N), S # {}
    PROVE  Max(S) \in S /\ \A y \in S : y <= Max(S)
<1> DEFINE T == {m \in Nat : \E x \in S : m = N - x}
<1>1. T \in SUBSET Nat /\ T # {}
    <2>1. \A x \in S : N - x \in Nat
        OBVIOUS
    <2>2. QED
        BY <2>1
<1> HIDE DEF T
<1>2. PICK m : m \in T /\ \A y \in T : m <= y
    BY <1>1, MinIsLeast
<1>3. PICK x \in S : m = N - x
    BY <1>2 DEF T
<1>4. ASSUME NEW y \in S PROVE x >= y
    <2>1. N - y \in T
        <3>1. N - y \in Nat
            OBVIOUS
        <3>2. QED
            BY <3>1 DEF T
    <2>2. N - x <= N - y /\ x \in 0..N /\ y \in 0..N
        BY <1>2, <1>3, <2>1
    <2>3. QED
        BY <2>2
<1>5. Max(S) \in S /\ \A y \in S : Max(S) >= y
    BY <1>4 DEF Max
<1>6. QED
    BY <1>5

\* A loop of N turns from a, where G[k] is the effect of turn k, and what it
\* computes: h[k] after turn k.
Turns(N, X) == [1..N -> [X -> X]]
IsLoop(N, X, a, G, h) ==
    /\ h \in [0..N -> X] /\ h[0] = a
    /\ \A k \in 1..N : h[k] = G[k][h[k - 1]]

\* What a loop computes exists.
LEMMA LoopExists ==
    ASSUME NEW N \in Nat, NEW X, NEW a \in X, NEW G \in Turns(N, X)
    PROVE  \E h : IsLoop(N, X, a, G, h)
<1> DEFINE Loop(w, h) == IsLoop(w, X, a, G, h)
           S == {w \in 0..N : \E h : Loop(w, h)}
<1>1. 0 \in S
    <2>1. Loop(0, [k \in 0..0 |-> a])
        BY DEF IsLoop
    <2> HIDE DEF Loop
    <2>2. QED
        BY <2>1
<1>2. ASSUME NEW w \in 1..N, w - 1 \in S PROVE w \in S
    <2>1. PICK h : Loop(w - 1, h)
        BY <1>2
    <2> DEFINE g == [k \in 0..w |-> IF k = w THEN G[w][h[w - 1]] ELSE h[k]]
    <2>2. h[w - 1] \in X /\ G[w][h[w - 1]] \in X
        BY <2>1 DEF IsLoop, Turns
    <2>3. \A k \in 0..(w - 1) : h[k] \in X /\ g[k] = h[k]
        BY <2>1 DEF IsLoop
    <2>4. g \in [0..w -> X] /\ g[0] = a
        BY <2>1, <2>2, <2>3 DEF IsLoop
    <2>5. ASSUME NEW k \in 1..w PROVE g[k] = G[k][g[k - 1]]
        BY <2>1, <2>3 DEF IsLoop
    <2> HIDE DEF g
    <2>6. Loop(w, g)
        BY <2>4, <2>5 DEF IsLoop
    <2> HIDE DEF Loop
    <2>7. QED
        BY <2>6
<1> HIDE DEF S
<1>3. \A k \in 0..N : k \in S
    BY <1>1, <1>2, Induction
<1>4. N \in S
    BY <1>3
<1>5. QED
    BY <1>4 DEF S

-------------------------------------------------------------------------------
(* Characters                                                                   *)

\* No character of a text ends it.
LEMMA NulIsNoCharacter == Nul # "/" /\ Nul # "." /\ Nul \notin Chars
BY Zenon DEF Nul, Chars

\* The slash and the dot are characters of texts.
LEMMA SlashAndDot == "/" \in Chars /\ "." \in Chars
BY CharactersAssumption

\* What is at a place of a text.
LEMMA Character ==
    ASSUME NEW s \in Seq(Chars), NEW i \in Nat
    PROVE  /\ i \in 1..Len(s) => CharAt(s, i) = s[i] /\ s[i] \in Chars
           /\ i \notin 1..Len(s) => CharAt(s, i) = Nul
           /\ CharAt(s, i) # Nul => i \in 1..Len(s)
<1>1. DOMAIN s = 1..Len(s)
    OBVIOUS
<1>2. i \in 1..Len(s) => s[i] \in Chars
    OBVIOUS
<1>3. QED
    BY <1>1, <1>2, NulIsNoCharacter DEF CharAt

\* A text without its last character.
LEMMA FrontOfText ==
    ASSUME NEW s \in Seq(Chars), s # << >>
    PROVE  /\ Front(s) \in Seq(Chars) /\ Len(Front(s)) = Len(s) - 1
           /\ \A i \in 1..(Len(s) - 1) : Front(s)[i] = s[i]
<1>1. Len(s) \in Nat \ {0}
    OBVIOUS
<1>2. Front(s) = SubSeq(s, 1, Len(s) - 1)
    BY DEF Front
<1> DEFINE w == Len(s) - 1
           f == SubSeq(s, 1, w)
<1>3. w \in Nat /\ \A i \in 1..w : s[i] \in Chars
    OBVIOUS
<1> HIDE DEF w
<1>4. /\ f \in Seq(Chars)
      /\ Len(f) = IF 1 <= w THEN w - 1 + 1 ELSE 0
      /\ \A i \in 1..(w - 1 + 1) : f[i] = s[1 + i - 1]
    BY <1>3, SubSeqProperties
<1>5. Front(s) = f
    BY <1>2 DEF w
<1> HIDE DEF f
<1>6. Len(f) = w /\ \A i \in 1..w : f[i] = s[i]
    BY <1>3, <1>4
<1>7. QED
    BY <1>4, <1>5, <1>6 DEF w

\* What is left of more than one character has a first.
LEMMA FirstIsLeft == \A w \in Nat \ {0} : w # 1 => 1 \in 1..(w - 1)
OBVIOUS

-------------------------------------------------------------------------------
(* get_path_canonical_form                                                      *)

\* The states of its loop over a path: nothing has been written beyond what
\* has been read, and that is not beyond the path.
Scans(path) ==
    {s \in [i : Nat, form : Seq(Chars), bad : {"no", "none", "fault"}] :
        Len(s.form) < s.i /\ s.i <= Len(path) + 1}

\* A turn that advances to i and has written form.
LEMMA Scanned ==
    ASSUME NEW path \in Seq(Chars), NEW s \in Scans(path), NEW i \in Nat,
           NEW form \in Seq(Chars), Len(form) < i, i <= Len(path) + 1
    PROVE  [s EXCEPT !.i = i, !.form = form] \in Scans(path)
<1>1. s \in [i : Nat, form : Seq(Chars), bad : {"no", "none", "fault"}]
    BY DEF Scans
<1>2. [s EXCEPT !.i = i, !.form = form] \in
          [i : Nat, form : Seq(Chars), bad : {"no", "none", "fault"}]
    BY <1>1
<1>3. /\ [s EXCEPT !.i = i, !.form = form].i = i
      /\ [s EXCEPT !.i = i, !.form = form].form = form
    BY <1>1
<1>4. QED
    BY <1>2, <1>3 DEF Scans

\* A turn of the loop stays within the path and within the buffer.
LEMMA CharProcessed ==
    ASSUME NEW path \in Seq(Chars), NEW s \in Scans(path)
    PROVE  ProcessChar(path, s) \in Scans(path)
<1> DEFINE c == CharAt(path, s.i)
<1>1. /\ s \in [i : Nat, form : Seq(Chars), bad : {"no", "none", "fault"}]
      /\ s.i \in Nat /\ s.form \in Seq(Chars) /\ Len(s.form) \in Nat
      /\ Len(s.form) < s.i /\ s.i <= Len(path) + 1 /\ Len(path) \in Nat
    BY DEF Scans
<1>2. ASSUME s.bad = "no", c # Nul
      PROVE  s.i \in 1..Len(path) /\ c = path[s.i] /\ c \in Chars
    BY <1>1, <1>2, Character
<1>3. ASSUME c = "/", s.i \in 1..Len(path), c = path[s.i]
      PROVE  ProcessSlash(path, s) \in Scans(path)
    <2> DEFINE S == {k \in s.i..Len(path) : \A m \in s.i..k : path[m] = "/"}
    <2>1. S \in SUBSET (0..Len(path)) /\ s.i \in S
        BY <1>1, <1>3
    <2>2. Max(S) \in S
        BY <1>1, <2>1, MaxIsGreatest
    <2>3. Max(S) \in s.i..Len(path)
        BY <2>2
    <2> HIDE DEF S
    <2>4. PICK end \in s.i..Len(path) : end = Max(S)
        BY <2>3
    <2>5. ProcessSlash(path, s) = [s EXCEPT !.i = end + 1, !.form = Append(@, "/")]
        BY <2>4 DEF ProcessSlash, S
    <2>6. Append(s.form, "/") \in Seq(Chars) /\ Len(Append(s.form, "/")) = Len(s.form) + 1
        BY <1>1, SlashAndDot
    <2>7. end + 1 \in Nat /\ Len(Append(s.form, "/")) < end + 1 /\ end + 1 <= Len(path) + 1
        BY <1>1, <2>6
    <2>8. [s EXCEPT !.i = end + 1, !.form = Append(s.form, "/")] \in Scans(path)
        BY <2>6, <2>7, Scanned, Zenon
    <2>9. QED
        BY <2>5, <2>8
<1>4. ASSUME s.i \in 1..Len(path), CharAt(path, s.i + 1) = "."
      PROVE  Parent(s) \in Scans(path)
    <2> DEFINE kept == IF Len(s.form) = 1 THEN s.form ELSE Front(s.form)
               slashes == {k \in DOMAIN kept : kept[k] = "/"}
    <2>1. CASE s.form = << >> \/ slashes = {}
        <3>1. Parent(s) = [s EXCEPT !.bad = "fault"]
            BY <2>1 DEF Parent
        <3>2. QED
            BY <1>1, <3>1 DEF Scans
    <2>2. CASE ~(s.form = << >> \/ slashes = {})
        <3>1. Parent(s) = [s EXCEPT !.i = @ + 1, !.form = SubSeq(kept, 1, Max(slashes))]
            BY <2>2 DEF Parent
        <3>2. kept \in Seq(Chars) /\ Len(kept) <= Len(s.form)
            BY <1>1, <2>2, FrontOfText
        <3> HIDE DEF kept
        <3>3. slashes \in SUBSET (0..Len(kept)) /\ Len(kept) \in Nat
            BY <3>2
        <3>4. Max(slashes) \in slashes
            BY <2>2, <3>3, MaxIsGreatest
        <3> HIDE DEF slashes
        <3>9. slashes \subseteq 1..Len(kept)
            BY <3>2 DEF slashes
        <3>5. PICK m \in 1..Len(kept) : m = Max(slashes)
            BY <3>4, <3>9
        <3>6. SubSeq(kept, 1, m) \in Seq(Chars) /\ Len(SubSeq(kept, 1, m)) = m
            BY <3>2
        <3>7. Parent(s) = [s EXCEPT !.i = s.i + 1, !.form = SubSeq(kept, 1, m)]
            BY <3>1, <3>5
        <3>8. s.i + 1 \in Nat /\ Len(SubSeq(kept, 1, m)) < s.i + 1 /\ s.i + 1 <= Len(path) + 1
            BY <1>1, <1>4, <3>2, <3>5, <3>6
        <3>10. [s EXCEPT !.i = s.i + 1, !.form = SubSeq(kept, 1, m)] \in Scans(path)
            BY <3>6, <3>8, Scanned, Zenon
        <3>11. QED
            BY <3>7, <3>10
    <2>3. QED
        BY <2>1, <2>2
<1>5. ASSUME s.i \in 1..Len(path)
      PROVE  ProcessDot(path, s) \in Scans(path)
    <2> DEFINE next == CharAt(path, s.i + 1)
    <2>1. next # Nul => s.i + 1 <= Len(path)
        BY <1>1, Character
    <2>2. CASE next = Nul
        <3>1. ProcessDot(path, s) = [s EXCEPT !.i = @ + 1]
            BY <2>2 DEF ProcessDot
        <3>2. [s EXCEPT !.i = s.i + 1] \in [i : Nat, form : Seq(Chars), bad : {"no", "none", "fault"}]
            BY <1>1
        <3>3. /\ [s EXCEPT !.i = s.i + 1].i = s.i + 1
              /\ [s EXCEPT !.i = s.i + 1].form = s.form
            BY <1>1
        <3>4. Len(s.form) < s.i + 1 /\ s.i + 1 <= Len(path) + 1
            BY <1>1, <1>5
        <3>5. [s EXCEPT !.i = s.i + 1] \in Scans(path)
            BY <3>2, <3>3, <3>4, Zenon DEF Scans
        <3>6. QED
            BY <3>1, <3>5
    <2>3. CASE next # Nul /\ next = "/"
        <3>1. ProcessDot(path, s) = [s EXCEPT !.i = @ + 2]
            BY <2>3 DEF ProcessDot
        <3>2. [s EXCEPT !.i = s.i + 2] \in [i : Nat, form : Seq(Chars), bad : {"no", "none", "fault"}]
            BY <1>1
        <3>3. /\ [s EXCEPT !.i = s.i + 2].i = s.i + 2
              /\ [s EXCEPT !.i = s.i + 2].form = s.form
            BY <1>1
        <3>4. Len(s.form) < s.i + 2 /\ s.i + 2 <= Len(path) + 1
            BY <1>1, <1>5, <2>1, <2>3
        <3>5. [s EXCEPT !.i = s.i + 2] \in Scans(path)
            BY <3>2, <3>3, <3>4, Zenon DEF Scans
        <3>6. QED
            BY <3>1, <3>5
    <2>4. CASE next # Nul /\ next # "/" /\ next # "."
        <3>1. ProcessDot(path, s) = [s EXCEPT !.i = @ + 1, !.form = Append(@, ".")]
            BY <2>4 DEF ProcessDot
        <3>2. Append(s.form, ".") \in Seq(Chars) /\ Len(Append(s.form, ".")) = Len(s.form) + 1
            BY <1>1, SlashAndDot
        <3>3. /\ s.i + 1 \in Nat /\ s.i + 1 <= Len(path) + 1
              /\ Len(Append(s.form, ".")) < s.i + 1
            BY <1>1, <1>5, <3>2
        <3>4. [s EXCEPT !.i = s.i + 1, !.form = Append(s.form, ".")] \in Scans(path)
            BY <3>2, <3>3, Scanned, Zenon
        <3>5. QED
            BY <3>1, <3>4
    <2>5. CASE next # Nul /\ next = "."
        <3>1. \/ ProcessDot(path, s) = Parent(s)
              \/ ProcessDot(path, s) = [s EXCEPT !.bad = "none"]
            BY <2>5 DEF ProcessDot
        <3>2. [s EXCEPT !.bad = "none"] \in Scans(path)
            BY <1>1 DEF Scans
        <3>3. QED
            BY <1>4, <1>5, <2>5, <3>1, <3>2
    <2>6. QED
        BY <2>2, <2>3, <2>4, <2>5
<1>6. ASSUME s.i \in 1..Len(path), c \in Chars
      PROVE  [s EXCEPT !.i = @ + 1, !.form = Append(@, c)] \in Scans(path)
    <2>1. Append(s.form, c) \in Seq(Chars) /\ Len(Append(s.form, c)) = Len(s.form) + 1
        BY <1>1, <1>6
    <2> HIDE DEF c
    <2>2. /\ s.i + 1 \in Nat /\ s.i + 1 <= Len(path) + 1
          /\ Len(Append(s.form, c)) < s.i + 1
        BY <1>1, <1>6, <2>1
    <2>3. QED
        BY <2>1, <2>2, Scanned, Zenon
<1>7. QED
    BY <1>2, <1>3, <1>5, <1>6 DEF ProcessChar

\* The canonical form is what the loop has made of the path after enough turns.
LEMMA FormIsComputed ==
    ASSUME NEW path \in Seq(Chars)
    PROVE  \E h \in [0..Len(path) -> Scans(path)] :
               /\ h[0] = [i |-> 1, form |-> << >>, bad |-> "no"]
               /\ \A k \in 1..Len(path) : h[k] = ProcessChar(path, h[k - 1])
               /\ GetPathCanonicalForm(path) =
                     LET end == h[Len(path)]
                     IN IF end.bad # "no" THEN [bad |-> end.bad, text |-> << >>]
                        ELSE IF end.form = << >> THEN [bad |-> "fault", text |-> << >>]
                        ELSE [bad |-> "no", text |-> SkipLastSlash(end.form)]
<1> DEFINE start == [i |-> 1, form |-> << >>, bad |-> "no"]
           N == Len(path)
           X == Scans(path)
           Body(g) == [k \in 0..N |-> IF k = 0 THEN start ELSE ProcessChar(path, g[k - 1])]
           After == CHOOSE g : g = Body(g)
           G == [k \in 1..N |-> [s \in X |-> ProcessChar(path, s)]]
<1>1. N \in Nat
    OBVIOUS
<1>2. start \in X
    <2>1. start \in [i : Nat, form : Seq(Chars), bad : {"no", "none", "fault"}]
        OBVIOUS
    <2>2. QED
        BY <1>1, <2>1 DEF Scans
<1>3. GetPathCanonicalForm(path) =
          LET end == After[N]
          IN IF end.bad # "no" THEN [bad |-> end.bad, text |-> << >>]
             ELSE IF end.form = << >> THEN [bad |-> "fault", text |-> << >>]
             ELSE [bad |-> "no", text |-> SkipLastSlash(end.form)]
    BY Zenon DEF GetPathCanonicalForm
<1>4. G \in Turns(N, X)
    BY CharProcessed DEF Turns
<1> HIDE DEF N, X, start
<1>5. After = Body(After)
    <2>1. PICK h : IsLoop(N, X, start, G, h)
        <3> HIDE DEF G
        <3>1. QED
            BY <1>1, <1>2, <1>4, LoopExists
    <2>2. ASSUME NEW k \in 1..N PROVE h[k] = ProcessChar(path, h[k - 1])
        <3>1. h[k - 1] \in X
            BY <1>1, <2>1 DEF IsLoop
        <3>2. QED
            BY <2>1, <3>1 DEF IsLoop
    <2>3. h = Body(h)
        BY <1>1, <2>1, <2>2 DEF IsLoop
    <2> HIDE DEF Body
    <2>4. QED
        BY <2>3
<1> HIDE DEF After
<1>6. /\ DOMAIN After = 0..N /\ After[0] = start
      /\ \A k \in 1..N : After[k] = ProcessChar(path, After[k - 1])
    BY <1>1, <1>5
<1>7. \A k \in 0..N : After[k] \in X
    <2> DEFINE S == {k \in 0..N : After[k] \in X}
    <2>1. 0 \in S
        BY <1>1, <1>2, <1>6
    <2>2. ASSUME NEW k \in 1..N, k - 1 \in S PROVE k \in S
        <3>1. After[k - 1] \in X
            BY <2>2
        <3>2. ProcessChar(path, After[k - 1]) \in X
            BY <3>1, CharProcessed DEF X
        <3>3. QED
            BY <1>6, <3>2
    <2> HIDE DEF S
    <2>3. \A k \in 0..N : k \in S
        BY <1>1, <2>1, <2>2, Induction
    <2>4. QED
        BY <2>3 DEF S
<1>8. After \in [0..N -> X]
    BY <1>5, <1>6, <1>7
<1>9. QED
    BY <1>3, <1>6, <1>8 DEF N, X, start

\* What cd_dir takes for the new directory is a text that is not longer than the
\* path it is made of, whatever that is: the buffer, which has its length, is not
\* written beyond its end.
THEOREM CanonicalFormFits ==
    ASSUME NEW path \in Seq(Chars)
    PROVE  /\ GetPathCanonicalForm(path).bad \in {"no", "none", "fault"}
           /\ GetPathCanonicalForm(path).text \in Seq(Chars)
           /\ Len(GetPathCanonicalForm(path).text) <= Len(path)
<1> DEFINE r == GetPathCanonicalForm(path)
<1>1. PICK s \in Scans(path) :
          r = IF s.bad # "no" THEN [bad |-> s.bad, text |-> << >>]
              ELSE IF s.form = << >> THEN [bad |-> "fault", text |-> << >>]
              ELSE [bad |-> "no", text |-> SkipLastSlash(s.form)]
    <2>1. Len(path) \in 0..Len(path)
        OBVIOUS
    <2>2. QED
        BY <2>1, FormIsComputed
<1> HIDE DEF r
<1>2. /\ s.bad \in {"no", "none", "fault"} /\ s.form \in Seq(Chars)
      /\ Len(s.form) \in Nat /\ Len(s.form) <= Len(path) /\ Len(path) \in Nat
    BY DEF Scans
<1>3. << >> \in Seq(Chars) /\ Len(<< >>) = 0
    OBVIOUS
<1>4. ASSUME s.form # << >>
      PROVE  /\ SkipLastSlash(s.form) \in Seq(Chars)
             /\ Len(SkipLastSlash(s.form)) <= Len(path)
    <2>1. Front(s.form) \in Seq(Chars) /\ Len(Front(s.form)) = Len(s.form) - 1
        BY <1>2, <1>4, FrontOfText
    <2>2. QED
        BY <1>2, <2>1 DEF SkipLastSlash
<1>5. r.bad \in {"no", "none", "fault"} /\ r.text \in Seq(Chars) /\ Len(r.text) <= Len(path)
    <2>1. CASE s.bad # "no"
        BY <1>1, <1>2, <1>3, <2>1
    <2>2. CASE s.bad = "no" /\ s.form = << >>
        BY <1>1, <1>2, <1>3, <2>2
    <2>3. CASE s.bad = "no" /\ s.form # << >>
        BY <1>1, <1>4, <2>3
    <2>4. QED
        BY <2>1, <2>2, <2>3
<1>6. QED
    BY <1>5 DEF r

\* What has been written begins with a slash.
Rooted(s) == s.form # << >> /\ s.form[1] = "/" /\ s.bad # "fault"

\* A turn leaves the slash at the beginning: .. cuts behind the last slash there is.
LEMMA RootedStays ==
    ASSUME NEW path \in Seq(Chars), NEW s \in Scans(path), Rooted(s)
    PROVE  Rooted(ProcessChar(path, s))
<1>1. /\ s \in [i : Nat, form : Seq(Chars), bad : {"no", "none", "fault"}]
      /\ s.form \in Seq(Chars) /\ Len(s.form) \in Nat \ {0}
      /\ s.form[1] = "/" /\ s.bad # "fault"
    BY DEF Scans, Rooted
<1>2. ASSUME NEW j, NEW c PROVE Rooted([s EXCEPT !.i = j, !.form = Append(@, c)])
    <2> DEFINE f == Append(s.form, c)
    <2>1. s.form \in Seq(Chars \cup {c})
        BY <1>1, SeqMonotonic
    <2>2. Len(f) # 0 /\ f[1] = s.form[1]
        BY <1>1, <2>1
    <2>3. f # << >>
        BY <2>2
    <2> HIDE DEF f
    <2>4. QED
        BY <1>1, <2>2, <2>3 DEF Rooted, f
<1>3. ASSUME NEW j PROVE Rooted([s EXCEPT !.i = j])
    BY <1>1 DEF Rooted
<1>4. Rooted(Parent(s))
    <2> DEFINE kept == IF Len(s.form) = 1 THEN s.form ELSE Front(s.form)
               slashes == {k \in DOMAIN kept : kept[k] = "/"}
    <2>1. kept \in Seq(Chars) /\ Len(kept) \in Nat \ {0} /\ kept[1] = "/"
        <3>1. CASE Len(s.form) = 1
            BY <1>1, <3>1
        <3>2. CASE Len(s.form) # 1
            <4>1. /\ Front(s.form) \in Seq(Chars) /\ Len(Front(s.form)) = Len(s.form) - 1
                  /\ \A i \in 1..(Len(s.form) - 1) : Front(s.form)[i] = s.form[i]
                BY <1>1, FrontOfText
            <4>2. 1 \in 1..(Len(s.form) - 1)
                BY <1>1, <3>2, FirstIsLeft, Zenon
            <4>3. QED
                BY <1>1, <3>2, <4>1, <4>2
        <3>3. QED
            BY <3>1, <3>2
    <2> HIDE DEF kept
    <2>2. slashes \in SUBSET (0..Len(kept)) /\ 1 \in slashes
        BY <2>1
    <2>3. Max(slashes) \in slashes
        BY <2>1, <2>2, MaxIsGreatest
    <2>4. slashes \subseteq 1..Len(kept)
        BY <2>1
    <2>5. Parent(s) = [s EXCEPT !.i = @ + 1, !.form = SubSeq(kept, 1, Max(slashes))]
        BY <1>1, <2>2 DEF Parent, kept
    <2> HIDE DEF slashes
    <2>6. PICK m \in 1..Len(kept) : m = Max(slashes)
        BY <2>3, <2>4
    <2> DEFINE f == SubSeq(kept, 1, m)
    <2>7. f \in Seq(Chars) /\ Len(f) = m /\ f[1] = kept[1]
        BY <2>1
    <2>8. f # << >>
        BY <2>7
    <2> HIDE DEF f
    <2>9. Parent(s) = [s EXCEPT !.i = @ + 1, !.form = f]
        BY <2>5, <2>6 DEF f
    <2>10. QED
        BY <1>1, <2>1, <2>7, <2>8, <2>9 DEF Rooted
<1>5. Rooted([s EXCEPT !.bad = "none"])
    BY <1>1 DEF Rooted
<1>6. Rooted(ProcessDot(path, s))
    BY <1>2, <1>3, <1>4, <1>5 DEF ProcessDot
<1>7. Rooted(ProcessSlash(path, s))
    BY <1>2 DEF ProcessSlash
<1>8. QED
    BY <1>2, <1>6, <1>7 DEF ProcessChar

\* For an absolute path the loop never looks for a slash that is not there, and
\* what it makes of the path is absolute: cd never leaves the root.
THEOREM CanonicalFormIsAbsolute ==
    ASSUME NEW path \in Seq(Chars), IsAbsolute(path)
    PROVE  /\ GetPathCanonicalForm(path).bad # "fault"
           /\ GetPathCanonicalForm(path).bad = "no" =>
                  IsAbsolute(GetPathCanonicalForm(path).text)
<1> DEFINE N == Len(path)
           start == [i |-> 1, form |-> << >>, bad |-> "no"]
           r == GetPathCanonicalForm(path)
<1>1. PICK h \in [0..N -> Scans(path)] :
          /\ h[0] = start
          /\ \A k \in 1..N : h[k] = ProcessChar(path, h[k - 1])
          /\ r = LET end == h[N]
                 IN IF end.bad # "no" THEN [bad |-> end.bad, text |-> << >>]
                    ELSE IF end.form = << >> THEN [bad |-> "fault", text |-> << >>]
                    ELSE [bad |-> "no", text |-> SkipLastSlash(end.form)]
    BY FormIsComputed
<1>2. N \in Nat /\ 1 \in 1..N /\ CharAt(path, 1) = "/"
    BY NulIsNoCharacter, Character DEF IsAbsolute
<1>3. Rooted(h[1])
    <2>1. h[1] = ProcessSlash(path, start)
        <3>1. h[1] = ProcessChar(path, start)
            BY <1>1, <1>2
        <3>2. QED
            BY <1>2, <3>1, NulIsNoCharacter DEF ProcessChar
    <2>2. PICK j : h[1] = [start EXCEPT !.i = j, !.form = Append(<< >>, "/")]
        BY <2>1 DEF ProcessSlash
    <2>3. Append(<< >>, "/") # << >> /\ Append(<< >>, "/")[1] = "/"
        OBVIOUS
    <2>4. QED
        BY <2>2, <2>3 DEF Rooted
<1> HIDE DEF start, r
<1>4. Rooted(h[N])
    <2> DEFINE S == {k \in 0..N : k = 0 \/ Rooted(h[k])}
    <2>1. 0 \in S
        BY <1>2
    <2>2. ASSUME NEW k \in 1..N, k - 1 \in S PROVE k \in S
        <3>1. CASE k = 1
            BY <1>3, <3>1
        <3>2. CASE k # 1
            <4>1. k - 1 \in 0..N /\ Rooted(h[k - 1]) /\ h[k - 1] \in Scans(path)
                BY <1>1, <2>2, <3>2
            <4>2. Rooted(ProcessChar(path, h[k - 1]))
                BY <4>1, RootedStays
            <4>3. QED
                BY <1>1, <4>2
        <3>3. QED
            BY <3>1, <3>2
    <2> HIDE DEF S
    <2>3. \A k \in 0..N : k \in S
        BY <1>2, <2>1, <2>2, Induction
    <2>4. QED
        BY <1>2, <2>3 DEF S
<1>5. PICK s \in Scans(path) : s = h[N]
    BY <1>1, <1>2
<1>6. /\ s.form \in Seq(Chars) /\ Len(s.form) \in Nat \ {0}
      /\ s.form[1] = "/" /\ s.bad # "fault" /\ s.form # << >>
    BY <1>4, <1>5 DEF Scans, Rooted
<1>7. \/ r = [bad |-> s.bad, text |-> << >>] /\ s.bad # "no"
      \/ r = [bad |-> "no", text |-> SkipLastSlash(s.form)]
    BY <1>1, <1>5, <1>6
<1>8. IsAbsolute(SkipLastSlash(s.form))
    <2>1. CASE Len(s.form) # 1
        <3>1. /\ Front(s.form) \in Seq(Chars) /\ Len(Front(s.form)) = Len(s.form) - 1
              /\ \A i \in 1..(Len(s.form) - 1) : Front(s.form)[i] = s.form[i]
            BY <1>6, FrontOfText
        <3>2. 1 \in 1..(Len(s.form) - 1)
            BY <1>6, <2>1, FirstIsLeft, Zenon
        <3>3. 1 \in DOMAIN Front(s.form) /\ 1 \in DOMAIN s.form
            BY <1>6, <3>1, <3>2
        <3>4. QED
            BY <1>6, <3>1, <3>2, <3>3 DEF SkipLastSlash, IsAbsolute, CharAt
    <2>2. CASE Len(s.form) = 1
        <3>1. 1 \in DOMAIN s.form
            BY <1>6
        <3>2. QED
            BY <1>6, <2>2, <3>1 DEF SkipLastSlash, IsAbsolute, CharAt
    <2>3. QED
        BY <2>1, <2>2
<1>9. r.bad # "fault" /\ (r.bad = "no" => IsAbsolute(r.text))
    BY <1>6, <1>7, <1>8
<1>10. QED
    BY <1>9 DEF r

-------------------------------------------------------------------------------
(* Numbers                                                                      *)

\* The kinds of characters of a number are different.
LEMMA KindsDiffer ==
    /\ Nul \notin Spaces /\ Nul \notin Digits /\ Nul \notin Signs
    /\ Spaces \cap Signs = {} /\ Spaces \cap Digits = {} /\ Signs \cap Digits = {}
<1>1. Nul \notin Spaces /\ Nul \notin Digits /\ Nul \notin Signs
    BY CharactersAssumption, NulIsNoCharacter, Zenon
<1> DEFINE D == {"0", "1", "2", "3", "4", "5", "6", "7", "8", "9"}
<1>2. Digits \subseteq D
    <2>1. \A k \in 1..10 : Numerals[k] \in D
        BY DEF Numerals
    <2>2. QED
        BY <2>1 DEF Digits
<1>3. Spaces \cap Signs = {} /\ Spaces \cap D = {} /\ Signs \cap D = {}
    BY DEF Spaces, Signs
<1>4. QED
    BY <1>1, <1>2, <1>3

\* How far the loops of ft_isnumber get.
LEMMA PastIs ==
    ASSUME NEW s \in Seq(Chars), NEW i \in 1..(Len(s) + 1), NEW C, Nul \notin C
    PROVE  /\ Past(s, i, C) \in i..(Len(s) + 1)
           /\ \A k \in i..(Past(s, i, C) - 1) : s[k] \in C
           /\ CharAt(s, Past(s, i, C)) \notin C
           /\ Past(s, i, C) <= Len(s) => s[Past(s, i, C)] \notin C
<1> DEFINE T == {k \in i..(Len(s) + 1) : CharAt(s, k) \notin C}
<1>1. Len(s) \in Nat
    OBVIOUS
<1>2. Len(s) + 1 \in T
    BY <1>1, Character
<1>3. T \in SUBSET Nat
    BY <1>1
<1>4. Past(s, i, C) = Min(T)
    BY DEF Past
<1>5. PICK m \in T : m = Past(s, i, C) /\ \A y \in T : m <= y
    <2> HIDE DEF T
    <2>1. QED
        BY <1>2, <1>3, <1>4, MinIsLeast
<1>6. m \in i..(Len(s) + 1) /\ CharAt(s, m) \notin C
    OBVIOUS
<1>7. ASSUME NEW k \in i..(m - 1) PROVE s[k] \in C
    <2>1. k \in 1..Len(s) /\ ~(m <= k) /\ k \in i..(Len(s) + 1)
        BY <1>1, <1>6
    <2>2. CharAt(s, k) \in C
        BY <1>5, <2>1
    <2>3. QED
        BY <2>1, <2>2, Character
<1>8. m <= Len(s) => CharAt(s, m) = s[m]
    BY <1>1, <1>6, Character
<1>9. QED
    BY <1>5, <1>6, <1>7, <1>8

\* Where such a loop ends is the first place that is not of its kind.
LEMMA PastIsThere ==
    ASSUME NEW s \in Seq(Chars), NEW i \in 1..(Len(s) + 1), NEW C, Nul \notin C,
           NEW p \in i..(Len(s) + 1), \A k \in i..(p - 1) : s[k] \in C,
           p <= Len(s) => s[p] \notin C
    PROVE  Past(s, i, C) = p
<1>1. PICK m \in i..(Len(s) + 1) :
          /\ m = Past(s, i, C)
          /\ \A k \in i..(m - 1) : s[k] \in C
          /\ m <= Len(s) => s[m] \notin C
    BY PastIs
<1>2. Len(s) \in Nat
    OBVIOUS
<1>3. CASE m < p
    <2>1. m \in i..(p - 1) /\ m <= Len(s)
        BY <1>2, <1>3
    <2>2. QED
        BY <1>1, <2>1
<1>4. CASE p < m
    <2>1. p \in i..(m - 1) /\ p <= Len(s)
        BY <1>2, <1>4
    <2>2. QED
        BY <1>1, <2>1
<1>5. QED
    BY <1>1, <1>2, <1>3, <1>4

\* exit takes for a number just blanks, at most one sign, digits and blanks.
THEOREM NumbersAreRight ==
    ASSUME NEW s \in Seq(Chars)
    PROVE  NumberIsRight(s)
<1> DEFINE start == Past(s, 1, Spaces)
           unsigned == IF CharAt(s, start) \in Signs THEN start + 1 ELSE start
           after == Past(s, unsigned, Digits)
           end == Past(s, after, Spaces)
           Number(a, b, c) ==
               /\ \A i \in (1..a) \cup ((c + 1)..Len(s)) : s[i] \in Spaces
               /\ b = a \/ (b = a + 1 /\ s[b] \in Signs)
               /\ b < c /\ \A i \in (b + 1)..c : s[i] \in Digits
<1>1. Len(s) \in Nat /\ 1 \in 1..(Len(s) + 1)
    OBVIOUS
<1>2. FtIsnumber(s) <=> /\ CharAt(s, start) # Nul
                        /\ CharAt(s, unsigned) \notin {Nul} \cup Spaces
                        /\ CharAt(s, end) = Nul
    BY DEF FtIsnumber
<1>3. ASSUME FtIsnumber(s)
      PROVE  \E a \in 0..Len(s) : \E b \in a..Len(s) : \E c \in b..Len(s) : Number(a, b, c)
    <2>1. /\ start \in 1..(Len(s) + 1)
          /\ \A k \in 1..(start - 1) : s[k] \in Spaces
        BY <1>1, KindsDiffer, PastIs
    <2>2. start \in 1..Len(s) /\ CharAt(s, start) = s[start]
        BY <1>1, <1>2, <1>3, <2>1, Character
    <2>3. PICK u \in start..(start + 1) :
              u = unsigned /\ (u = start + 1 => s[start] \in Signs)
        BY <2>2
    <2>4. u \in 1..Len(s) /\ s[u] \notin Spaces
        <3>1. u \in Nat /\ CharAt(s, u) \notin {Nul} \cup Spaces
            BY <1>2, <1>3, <2>2, <2>3
        <3>2. QED
            BY <3>1, Character
    <2> HIDE DEF start, unsigned
    <2>5. u \in 1..(Len(s) + 1)
        BY <1>1, <2>4
    <2>6. PICK a \in u..(Len(s) + 1) :
              /\ a = Past(s, u, Digits)
              /\ \A k \in u..(a - 1) : s[k] \in Digits
              /\ a <= Len(s) => s[a] \notin Digits
        BY <2>5, KindsDiffer, PastIs
    <2>7. a \in 1..(Len(s) + 1)
        BY <1>1, <2>5
    <2>8. PICK e \in a..(Len(s) + 1) :
              /\ e = Past(s, a, Spaces)
              /\ \A k \in a..(e - 1) : s[k] \in Spaces
              /\ e <= Len(s) => s[e] \notin Spaces
        BY <2>7, KindsDiffer, PastIs
    <2>9. e = Len(s) + 1
        <3>1. CharAt(s, e) = Nul
            BY <1>2, <1>3, <2>3, <2>6, <2>8
        <3>2. e \in Nat
            BY <1>1, <2>7
        <3>3. e \notin 1..Len(s)
            BY <3>1, <3>2, Character, NulIsNoCharacter
        <3>4. QED
            BY <1>1, <2>7, <3>3
    <2>10. a # u
        <3>1. SUFFICES ASSUME a = u PROVE FALSE
            OBVIOUS
        <3>2. u \in a..(e - 1)
            BY <1>1, <2>4, <2>9, <3>1
        <3>3. QED
            BY <2>4, <2>8, <3>2
    <2>11. start - 1 \in 0..Len(s) /\ u - 1 \in (start - 1)..Len(s) /\ a - 1 \in (u - 1)..Len(s)
        BY <1>1, <2>2, <2>3, <2>4, <2>6
    <2>12. Number(start - 1, u - 1, a - 1)
        <3>1. ASSUME NEW i \in (1..(start - 1)) \cup ((a - 1 + 1)..Len(s))
              PROVE  s[i] \in Spaces
            BY <1>1, <2>1, <2>7, <2>8, <2>9
        <3>2. u - 1 = start - 1 \/ (u - 1 = start - 1 + 1 /\ s[u - 1] \in Signs)
            BY <2>2, <2>3
        <3>3. u - 1 < a - 1
            BY <1>1, <2>5, <2>6, <2>10
        <3>4. \A i \in (u - 1 + 1)..(a - 1) : s[i] \in Digits
            BY <1>1, <2>5, <2>6
        <3>5. QED
            BY <3>1, <3>2, <3>3, <3>4
    <2> HIDE DEF Number
    <2>13. QED
        BY <2>11, <2>12
<1>4. ASSUME NEW a \in 0..Len(s), NEW b \in a..Len(s), NEW c \in b..Len(s), Number(a, b, c)
      PROVE  FtIsnumber(s)
    <2>1. a + 1 \in 1..Len(s) /\ b + 1 \in 1..Len(s) /\ b + 1 \in (b + 1)..c
        BY <1>1, <1>4
    <2>2. s[b + 1] \in Digits
        BY <1>4, <2>1
    <2>3. s[a + 1] \in Signs \cup Digits /\ (s[a + 1] \in Signs <=> b = a + 1)
        <3>1. CASE b = a
            BY <2>1, <2>2, <3>1, KindsDiffer
        <3>2. CASE b = a + 1 /\ s[b] \in Signs
            BY <3>2
        <3>3. QED
            BY <1>4, <3>1, <3>2
    <2>4. start = a + 1
        <3>1. \A k \in 1..(a + 1 - 1) : s[k] \in Spaces
            BY <1>1, <1>4
        <3>2. s[a + 1] \notin Spaces
            BY <2>3, KindsDiffer
        <3>3. a + 1 \in 1..(Len(s) + 1)
            BY <1>1
        <3>4. 1 \in 1..(Len(s) + 1) /\ a + 1 \in 1..(Len(s) + 1)
            BY <1>1, <3>3
        <3> HIDE DEF start
        <3>5. Past(s, 1, Spaces) = a + 1
            BY <3>1, <3>2, <3>4, KindsDiffer, PastIsThere
        <3>6. QED
            BY <3>5 DEF start
    <2>5. CharAt(s, a + 1) = s[a + 1] /\ CharAt(s, b + 1) = s[b + 1]
        BY <1>1, <2>1, Character
    <2>6. unsigned = b + 1
        <3>1. b = a \/ b = a + 1
            BY <1>4
        <3>2. QED
            BY <2>3, <2>4, <2>5, <3>1
    <2> HIDE DEF start, unsigned
    <2>7. Past(s, b + 1, Digits) = c + 1
        <3>1. \A k \in (b + 1)..(c + 1 - 1) : s[k] \in Digits
            BY <1>1, <1>4
        <3>2. c + 1 <= Len(s) => s[c + 1] \notin Digits
            <4>1. c + 1 <= Len(s) => s[c + 1] \in Spaces
                BY <1>1, <1>4
            <4>2. QED
                BY <4>1, KindsDiffer
        <3>3. b + 1 \in 1..(Len(s) + 1) /\ c + 1 \in (b + 1)..(Len(s) + 1)
            BY <1>1, <2>1, <1>4
        <3>4. QED
            BY <3>1, <3>2, <3>3, KindsDiffer, PastIsThere
    <2>8. Past(s, c + 1, Spaces) = Len(s) + 1
        <3>1. \A k \in (c + 1)..(Len(s) + 1 - 1) : s[k] \in Spaces
            BY <1>1, <1>4
        <3>2. c + 1 \in 1..(Len(s) + 1) /\ Len(s) + 1 \in (c + 1)..(Len(s) + 1)
            BY <1>1, <2>1, <1>4
        <3>3. ~(Len(s) + 1 <= Len(s))
            BY <1>1
        <3>4. QED
            BY <3>1, <3>2, <3>3, KindsDiffer, PastIsThere
    <2>9. CharAt(s, Len(s) + 1) = Nul
        BY <1>1, Character
    <2>10. end = Len(s) + 1
        BY <2>6, <2>7, <2>8
    <2>11. s[a + 1] # Nul /\ s[b + 1] \notin {Nul} \cup Spaces
        BY <2>2, <2>3, KindsDiffer
    <2>12. QED
        BY <1>2, <2>4, <2>5, <2>6, <2>9, <2>10, <2>11
<1> HIDE DEF Number, start, unsigned, after, end
<1>5. FtIsnumber(s) <=>
          \E a \in 0..Len(s) : \E b \in a..Len(s) : \E c \in b..Len(s) : Number(a, b, c)
    BY <1>3, <1>4
<1>6. QED
    BY <1>5 DEF NumberIsRight, Number

\* A digit is a number.
LEMMA DigitIsNumber == \A d \in Digits : DigitOf(d) \in 0..9
<1> SUFFICES ASSUME NEW d \in Digits PROVE DigitOf(d) \in 0..9
    OBVIOUS
<1>1. PICK k \in 1..10 : Numerals[k] = d
    BY DEF Digits
<1>2. k - 1 \in 0..9 /\ Numerals[k - 1 + 1] = d
    BY <1>1
<1>3. \E j \in 0..9 : Numerals[j + 1] = d
    BY <1>2
<1>4. QED
    BY <1>3, Zenon DEF DigitOf

\* ft_atoi returns a number for every text.
LEMMA AtoiIsNumber ==
    ASSUME NEW s \in Seq(Chars)
    PROVE  FtAtoi(s) \in Nat
<1> DEFINE N == Past(s, 1, Digits) - 1
           Body(g) == [i \in 0..N |->
                          IF i = 0 THEN 0 ELSE 10 * g[i - 1] + DigitOf(s[i])]
           Value == CHOOSE g : g = Body(g)
           G == [i \in 1..N |-> [v \in Nat |-> 10 * v + DigitOf(s[i])]]
<1>1. N \in Nat /\ \A k \in 1..N : s[k] \in Digits
    <2>1. Len(s) \in Nat /\ 1 \in 1..(Len(s) + 1)
        OBVIOUS
    <2>2. /\ Past(s, 1, Digits) \in 1..(Len(s) + 1)
          /\ \A k \in 1..(Past(s, 1, Digits) - 1) : s[k] \in Digits
        BY <2>1, PastIs, KindsDiffer
    <2>3. QED
        BY <2>1, <2>2
<1>2. FtAtoi(s) = Value[N]
    BY Zenon DEF FtAtoi
<1> HIDE DEF N
<1>3. \A i \in 1..N : DigitOf(s[i]) \in 0..9
    BY <1>1, DigitIsNumber
<1>4. G \in Turns(N, Nat)
    <2>1. \A i \in 1..N : \A v \in Nat : 10 * v + DigitOf(s[i]) \in Nat
        BY <1>3
    <2>2. QED
        BY <2>1 DEF Turns
<1>5. Value = Body(Value)
    <2>1. PICK h : IsLoop(N, Nat, 0, G, h)
        <3> HIDE DEF G
        <3>1. QED
            BY <1>1, <1>4, LoopExists
    <2>2. ASSUME NEW k \in 1..N PROVE h[k] = 10 * h[k - 1] + DigitOf(s[k])
        <3>1. h[k - 1] \in Nat
            BY <1>1, <2>1 DEF IsLoop
        <3>2. QED
            BY <2>1, <3>1 DEF IsLoop
    <2>3. h = Body(h)
        BY <1>1, <2>1, <2>2 DEF IsLoop
    <2> HIDE DEF Body
    <2>4. QED
        BY <2>3
<1> HIDE DEF Value
<1>6. /\ Value[0] = 0
      /\ \A k \in 1..N : Value[k] = 10 * Value[k - 1] + DigitOf(s[k])
    BY <1>1, <1>5
<1>7. \A k \in 0..N : Value[k] \in Nat
    <2> DEFINE S == {k \in 0..N : Value[k] \in Nat}
    <2>1. 0 \in S
        BY <1>1, <1>6
    <2>2. ASSUME NEW k \in 1..N, k - 1 \in S PROVE k \in S
        <3>1. PICK v \in Nat, d \in 0..9 : v = Value[k - 1] /\ d = DigitOf(s[k])
            BY <1>3, <2>2
        <3>2. Value[k] = 10 * v + d
            BY <1>6, <3>1
        <3>3. 10 * v + d \in Nat
            OBVIOUS
        <3>4. QED
            BY <3>2, <3>3
    <2> HIDE DEF S
    <2>3. \A k \in 0..N : k \in S
        BY <1>1, <2>1, <2>2, Induction
    <2>4. QED
        BY <2>3 DEF S
<1>8. QED
    BY <1>1, <1>2, <1>7

\* A number without its last digit is less.
LEMMA TenthIsLess ==
    \A i \in Nat : i >= 10 => /\ i \div 10 \in 0..(i - 1)
                              /\ (i % 10) + 1 \in 1..10
OBVIOUS

\* ft_itoa writes every number as a text.
LEMMA ItoaIsText ==
    ASSUME NEW k \in Nat
    PROVE  FtItoa(k) \in Seq(Chars) \ {<< >>}
<1> DEFINE Texts == Seq(Chars) \ {<< >>}
           Digit(i, g) == IF i < 10 THEN <<Numerals[i + 1]>>
                          ELSE Append(g[i \div 10], Numerals[(i % 10) + 1])
           Body(w, g) == [i \in 0..w |-> Digit(i, g)]
           Numeral == CHOOSE g : g = Body(k, g)
<1>1. FtItoa(k) = Numeral[k]
    BY Zenon DEF FtItoa
<1>2. \A i \in 1..10 : Numerals[i] \in Chars
    BY CharactersAssumption DEF Digits
<1>3. \E g : g = Body(k, g)
    <2> DEFINE S == {w \in 0..k : \E g : g = Body(w, g)}
    <2>1. ASSUME NEW w \in 0..k, \A j \in 0..(w - 1) : j \in S PROVE w \in S
        <3>1. CASE w = 0
            <4>1. [i \in 0..0 |-> <<Numerals[i + 1]>>] = Body(0, [i \in 0..0 |-> <<Numerals[i + 1]>>])
                OBVIOUS
            <4> HIDE DEF Body
            <4>2. QED
                BY <3>1, <4>1
        <3>2. CASE w # 0
            <4>1. w - 1 \in 0..(w - 1)
                BY <3>2
            <4>2. PICK g : g = Body(w - 1, g)
                BY <2>1, <4>1
            <4> DEFINE h == [i \in 0..w |-> Digit(i, g)]
            <4>3. ASSUME NEW i \in 0..(w - 1) PROVE h[i] = g[i]
                <5> HIDE DEF Digit
                <5>1. g[i] = Digit(i, g)
                    BY <4>2
                <5>2. QED
                    BY <5>1
            <4>4. ASSUME NEW i \in 0..w PROVE Digit(i, g) = Digit(i, h)
                <5>1. CASE i < 10
                    BY <5>1
                <5>2. CASE ~(i < 10)
                    <6>1. i \in Nat /\ i >= 10
                        BY <5>2
                    <6>2. PICK j \in 0..(i - 1) : j = i \div 10
                        BY <6>1, TenthIsLess
                    <6>3. j \in 0..(w - 1)
                        OBVIOUS
                    <6>4. g[j] = h[j]
                        BY <4>3, <6>3
                    <6> HIDE DEF h
                    <6>5. g[i \div 10] = h[i \div 10]
                        BY <6>2, <6>4
                    <6>6. QED
                        BY <6>5
                <5>3. QED
                    BY <5>1, <5>2
            <4>6. h = Body(w, h)
                <5> HIDE DEF Digit
                <5>1. QED
                    BY <4>4
            <4> HIDE DEF Body, h
            <4>7. QED
                BY <4>6
        <3>3. QED
            BY <3>1, <3>2
    <2> HIDE DEF S
    <2>2. \A w \in 0..k : w \in S
        BY <2>1, StrongInduction
    <2>3. k \in S
        BY <2>2
    <2>4. QED
        BY <2>3 DEF S
<1>4. Numeral = Body(k, Numeral)
    <2> HIDE DEF Body
    <2>1. QED
        BY <1>3
<1> HIDE DEF Numeral
<1>5. \A w \in 0..k : Numeral[w] \in Texts
    <2> DEFINE S == {w \in 0..k : Numeral[w] \in Texts}
    <2>1. ASSUME NEW w \in 0..k, \A j \in 0..(w - 1) : j \in S PROVE w \in S
        <3>1. CASE w < 10
            <4>1. Numeral[w] = <<Numerals[w + 1]>> /\ w + 1 \in 1..10
                BY <1>4, <3>1
            <4>2. Numerals[w + 1] \in Chars
                BY <1>2, <4>1
            <4>3. \A c \in Chars : <<c>> \in Texts
                OBVIOUS
            <4>4. QED
                BY <4>1, <4>2, <4>3
        <3>2. CASE ~(w < 10)
            <4>1. w \in Nat /\ w >= 10
                BY <3>2
            <4>2. PICK j \in 0..(w - 1), d \in 1..10 : j = w \div 10 /\ d = (w % 10) + 1
                BY <4>1, TenthIsLess
            <4>3. Numeral[w] = Append(Numeral[j], Numerals[d])
                BY <1>4, <3>2, <4>2
            <4>4. Numeral[j] \in Seq(Chars) /\ Numerals[d] \in Chars
                BY <1>2, <2>1
            <4>5. Append(Numeral[j], Numerals[d]) \in Texts
                BY <4>4
            <4>6. QED
                BY <4>3, <4>5
        <3>3. QED
            BY <3>1, <3>2
    <2> HIDE DEF S
    <2>2. \A w \in 0..k : w \in S
        BY <2>1, StrongInduction
    <2>3. QED
        BY <2>2 DEF S
<1>6. QED
    BY <1>1, <1>5

-------------------------------------------------------------------------------
(* Names and values                                                             *)

\* The name and the value of an entry of envp are texts.
LEMMA SplitIsText ==
    ASSUME NEW s \in Seq(Chars)
    PROVE  FtSplitKeyValue(s).key \in Seq(Chars) /\ FtSplitKeyValue(s).val \in Seq(Chars)
<1> DEFINE equals == {i \in DOMAIN s : s[i] = "="}
<1>1. CASE equals = {}
    <2>1. << >> \in Seq(Chars)
        OBVIOUS
    <2>2. QED
        BY <1>1, <2>1 DEF FtSplitKeyValue
<1>2. CASE equals # {}
    <2>1. Len(s) \in Nat /\ DOMAIN s = 1..Len(s) /\ \A i \in 1..Len(s) : s[i] \in Chars
        OBVIOUS
    <2>2. equals \in SUBSET Nat /\ equals \subseteq 1..Len(s)
        BY <2>1
    <2> HIDE DEF equals
    <2>3. Min(equals) \in equals
        BY <1>2, <2>2, MinIsLeast
    <2>4. PICK m \in 1..Len(s) : m = Min(equals)
        BY <2>2, <2>3
    <2>5. m - 1 \in Int /\ m + 1 \in Int /\ Len(s) \in Int /\ 1 \in Int
        BY <2>1
    <2>6. (\A i \in 1..(m - 1) : s[i] \in Chars) /\ (\A i \in (m + 1)..Len(s) : s[i] \in Chars)
        BY <2>1
    <2>7. SubSeq(s, 1, m - 1) \in Seq(Chars) /\ SubSeq(s, m + 1, Len(s)) \in Seq(Chars)
        BY <2>5, <2>6, SubSeqProperties, Zenon
    <2>8. FtSplitKeyValue(s) = [key |-> SubSeq(s, 1, m - 1), given |-> TRUE,
                                val |-> SubSeq(s, m + 1, Len(s))]
        BY <1>2, <2>4 DEF FtSplitKeyValue, equals
    <2>9. QED
        BY <2>7, <2>8
<1>3. QED
    BY <1>1, <1>2

\* What is written as name=value is read as that, whatever the value is.
THEOREM EntryIsRead ==
    ASSUME NEW k \in Chars, k # "=", NEW t \in Seq(Chars)
    PROVE  /\ <<k, "=">> \o t \in Seq(Chars)
           /\ FtSplitKeyValue(<<k, "=">> \o t) = [key |-> <<k>>, given |-> TRUE, val |-> t]
<1> DEFINE s == <<k, "=">> \o t
           equals == {i \in DOMAIN s : s[i] = "="}
<1>1. "=" \in Chars
    BY CharactersAssumption
<1>2. /\ s \in Seq(Chars) /\ Len(s) = Len(t) + 2 /\ Len(t) \in Nat
      /\ s[1] = k /\ s[2] = "="
      /\ \A i \in 1..Len(t) : s[i + 2] = t[i]
    BY <1>1
<1>3. DOMAIN s = 1..Len(s)
    BY <1>2
<1> HIDE DEF s
<1>4. equals \in SUBSET Nat /\ 2 \in equals /\ 1 \notin equals /\ 0 \notin equals
    BY <1>2, <1>3
<1>5. Min(equals) = 2
    <2> HIDE DEF equals
    <2>1. PICK m \in equals : m = Min(equals) /\ m <= 2
        BY <1>4, MinIsLeast
    <2>2. m \in Nat /\ m # 0 /\ m # 1
        BY <1>4
    <2>3. QED
        BY <2>1, <2>2
<1>6. FtSplitKeyValue(s) = [key |-> SubSeq(s, 1, 2 - 1), given |-> TRUE,
                            val |-> SubSeq(s, 2 + 1, Len(s))]
    BY <1>4, <1>5 DEF FtSplitKeyValue
<1>7. SubSeq(s, 1, 2 - 1) = <<k>>
    <2> DEFINE f == SubSeq(s, 1, 1)
    <2>1. \A i \in 1..1 : s[i] \in Chars
        BY <1>2
    <2>2. f \in Seq(Chars) /\ Len(f) = 1 /\ f[1] = k
        BY <1>2
    <2> HIDE DEF f
    <2>3. f = <<k>>
        BY <2>2
    <2>4. QED
        BY <2>3 DEF f
<1>8. SubSeq(s, 2 + 1, Len(s)) = t
    <2> DEFINE f == SubSeq(s, 3, Len(s))
    <2>1. f \in Seq(Chars) /\ Len(f) = Len(t)
        BY <1>2
    <2>2. ASSUME NEW i \in 1..Len(t) PROVE f[i] = t[i]
        <3>1. f[i] = s[3 + i - 1]
            BY <1>2
        <3>2. QED
            BY <1>2, <3>1
    <2> HIDE DEF f
    <2>3. f = t
        BY <1>2, <2>1, <2>2, SeqEqual
    <2>4. QED
        BY <2>3 DEF f
<1>9. QED
    BY <1>2, <1>6, <1>7, <1>8 DEF s

\* The separators of a text, and how many there are before a place.
Seps(s, c) == {i \in DOMAIN s : s[i] = c}
Before(s, c, i) == Cardinality({j \in Seps(s, c) : j < i})

\* Counting from a place to the next.
LEMMA BeforeCounts ==
    ASSUME NEW s \in Seq(Chars), NEW c
    PROVE  /\ Before(s, c, 1) = 0
           /\ \A i \in 1..Len(s) : Before(s, c, i + 1) =
                 IF s[i] = c THEN Before(s, c, i) + 1 ELSE Before(s, c, i)
           /\ \A i \in 1..(Len(s) + 1) : Before(s, c, i) \in Nat
           /\ Before(s, c, Len(s) + 1) = Cardinality(Seps(s, c))
<1> DEFINE S(i) == {j \in Seps(s, c) : j < i}
<1>1. Len(s) \in Nat /\ DOMAIN s = 1..Len(s) /\ Seps(s, c) \subseteq 1..Len(s)
    BY DEF Seps
<1>2. IsFiniteSet(Seps(s, c))
    <2>1. IsFiniteSet(1..Len(s))
        BY <1>1, FS_Interval
    <2>2. QED
        BY <1>1, <2>1, FS_Subset
<1>3. \A i \in Nat : IsFiniteSet(S(i)) /\ Cardinality(S(i)) \in Nat
    <2>1. ASSUME NEW i \in Nat PROVE IsFiniteSet(S(i))
        <3>1. S(i) \in SUBSET Seps(s, c)
            OBVIOUS
        <3>2. QED
            BY <1>2, <3>1, FS_Subset
    <2>2. QED
        BY <2>1, FS_CardinalityType
<1>4. S(1) = {} /\ S(Len(s) + 1) = Seps(s, c)
    BY <1>1
<1>5. ASSUME NEW i \in 1..Len(s)
      PROVE  Cardinality(S(i + 1)) = IF s[i] = c THEN Cardinality(S(i)) + 1 ELSE Cardinality(S(i))
    <2>1. CASE s[i] = c
        <3>1. S(i + 1) = S(i) \cup {i} /\ i \notin S(i)
            BY <1>1, <2>1 DEF Seps
        <3>2. IsFiniteSet(S(i))
            BY <1>1, <1>3
        <3> HIDE DEF S
        <3>3. QED
            BY <2>1, <3>1, <3>2, FS_AddElement
    <2>2. CASE s[i] # c
        <3>1. S(i + 1) = S(i)
            BY <1>1, <2>2 DEF Seps
        <3>2. QED
            BY <2>2, <3>1
    <2>3. QED
        BY <2>1, <2>2
<1>6. QED
    <2>1. Before(s, c, 1) = 0
        BY <1>4, FS_EmptySet DEF Before
    <2>2. \A i \in 1..(Len(s) + 1) : Before(s, c, i) \in Nat
        <3>1. ASSUME NEW i \in 1..(Len(s) + 1) PROVE Before(s, c, i) \in Nat
            <4>1. i \in Nat
                BY <1>1
            <4>2. Cardinality(S(i)) \in Nat
                BY <1>3, <4>1
            <4>3. QED
                BY <4>2 DEF Before
        <3>2. QED
            BY <3>1
    <2>3. QED
        BY <1>4, <1>5, <2>1, <2>2 DEF Before

\* The count grows where there is a separator, and only there.
LEMMA BeforeGrows ==
    ASSUME NEW s \in Seq(Chars), NEW c, NEW i \in 1..(Len(s) + 1), NEW j \in i..(Len(s) + 1)
    PROVE  /\ Before(s, c, i) <= Before(s, c, j)
           /\ (\E k \in i..(j - 1) : s[k] = c) => Before(s, c, i) < Before(s, c, j)
           /\ (\A k \in i..(j - 1) : s[k] # c) => Before(s, c, i) = Before(s, c, j)
<1> DEFINE B(k) == Before(s, c, k)
           Counted(m) == /\ B(i) <= B(m)
                         /\ (\E k \in i..(m - 1) : s[k] = c) => B(i) < B(m)
                         /\ (\A k \in i..(m - 1) : s[k] # c) => B(i) = B(m)
           N == Len(s) + 1 - i
           S == {d \in 0..N : Counted(i + d)}
<1>1. Len(s) \in Nat /\ N \in Nat
    OBVIOUS
<1>2. /\ \A k \in 1..Len(s) : B(k + 1) = IF s[k] = c THEN B(k) + 1 ELSE B(k)
      /\ \A k \in 1..(Len(s) + 1) : B(k) \in Nat
    BY BeforeCounts
<1> HIDE DEF B
<1>3. 0 \in S
    BY <1>1, <1>2
<1>4. ASSUME NEW d \in 1..N, d - 1 \in S PROVE d \in S
    <2> DEFINE m == i + (d - 1)
    <2>1. m \in 1..Len(s) /\ Counted(m) /\ m + 1 = i + d /\ m \in i..Len(s)
        BY <1>1, <1>4
    <2> HIDE DEF m
    <2>2. B(m + 1) = IF s[m] = c THEN B(m) + 1 ELSE B(m)
        BY <1>2, <2>1
    <2>3. B(i) \in Nat /\ B(m) \in Nat
        BY <1>2, <2>1
    <2>4. \A k \in i..((m + 1) - 1) : k \in i..(m - 1) \/ k = m
        BY <2>1
    <2>5. \A k \in i..(m - 1) : k \in i..((m + 1) - 1)
        BY <2>1
    <2>6. m \in i..((m + 1) - 1)
        BY <2>1
    <2>7. Counted(m + 1)
        <3>1. CASE s[m] = c
            BY <2>1, <2>2, <2>3, <2>6, <3>1
        <3>2. CASE s[m] # c
            BY <2>1, <2>2, <2>3, <2>4, <2>5, <3>2
        <3>3. QED
            BY <3>1, <3>2
    <2>8. QED
        BY <2>1, <2>7
<1> HIDE DEF S
<1>5. \A d \in 0..N : d \in S
    BY <1>1, <1>3, <1>4, Induction
<1>6. j - i \in 0..N /\ i + (j - i) = j
    BY <1>1
<1>7. Counted(j)
    BY <1>5, <1>6 DEF S
<1>8. QED
    BY <1>7 DEF B

\* Where an element begins, and where it ends.
Begins(s, c, i) == i \in 1..(Len(s) + 1) /\ (i = 1 \/ s[i - 1] = c)
Ends(s, c, i, e) ==
    /\ e \in i..(Len(s) + 1) /\ (e = Len(s) + 1 \/ s[e] = c)
    /\ \A k \in i..(e - 1) : s[k] # c

Between(s, i, e) == SubSeq(s, i, e - 1)

\* From every place there is an end.
LEMMA EndExists ==
    ASSUME NEW s \in Seq(Chars), NEW c, NEW i \in 1..(Len(s) + 1)
    PROVE  \E e : Ends(s, c, i, e)
<1> DEFINE S == {e \in i..(Len(s) + 1) : e = Len(s) + 1 \/ s[e] = c}
<1>1. Len(s) \in Nat /\ S \in SUBSET Nat /\ Len(s) + 1 \in S
    OBVIOUS
<1>2. \A e \in S : e \in i..(Len(s) + 1) /\ (e = Len(s) + 1 \/ s[e] = c)
    OBVIOUS
<1>3. \A e \in i..Len(s) : s[e] = c => e \in S
    BY <1>1
<1> HIDE DEF S
<1>4. PICK e : e \in S /\ \A y \in S : e <= y
    BY <1>1, MinIsLeast
<1>5. ASSUME NEW k \in i..(e - 1) PROVE s[k] # c
    BY <1>1, <1>2, <1>3, <1>4
<1>6. Ends(s, c, i, e)
    BY <1>2, <1>4, <1>5 DEF Ends
<1>7. QED
    BY <1>6

\* Every element begins somewhere: the place at which as many are before it.
LEMMA BeginExists ==
    ASSUME NEW s \in Seq(Chars), NEW c, NEW w \in 0..Cardinality(Seps(s, c))
    PROVE  \E i : Begins(s, c, i) /\ Before(s, c, i) = w
<1> DEFINE N == Cardinality(Seps(s, c))
           Place(k, i) == Begins(s, c, i) /\ Before(s, c, i) = k
           S == {k \in 0..N : \E i : Place(k, i)}
<1>1. /\ Len(s) \in Nat /\ N = Before(s, c, Len(s) + 1) /\ N \in Nat
      /\ Before(s, c, 1) = 0
    <2>1. Len(s) \in Nat /\ Len(s) + 1 \in 1..(Len(s) + 1)
        OBVIOUS
    <2>2. QED
        BY <2>1, BeforeCounts
<1>2. 0 \in S
    <2>1. Place(0, 1)
        BY <1>1 DEF Begins
    <2> HIDE DEF Place, N
    <2>2. QED
        BY <1>1, <2>1
<1>3. ASSUME NEW k \in 1..N, k - 1 \in S PROVE k \in S
    <2> HIDE DEF Place, N
    <2>1. PICK i : Place(k - 1, i)
        BY <1>3
    <2>2. i \in 1..(Len(s) + 1) /\ Before(s, c, i) = k - 1
        BY <2>1 DEF Place, Begins
    <2>3. PICK e : Ends(s, c, i, e)
        BY <2>2, EndExists
    <2>4. e \in i..(Len(s) + 1) /\ Before(s, c, e) = k - 1
        BY <2>2, <2>3, BeforeGrows DEF Ends
    <2>5. e # Len(s) + 1
        BY <1>1, <1>3, <2>4
    <2>6. e \in 1..Len(s) /\ s[e] = c
        BY <1>1, <2>2, <2>3, <2>4, <2>5 DEF Ends
    <2>7. Before(s, c, e + 1) = k
        <3>1. Before(s, c, e + 1) = Before(s, c, e) + 1
            BY <2>6, BeforeCounts
        <3>2. QED
            BY <1>1, <2>4, <3>1
    <2>8. Place(k, e + 1)
        BY <1>1, <2>6, <2>7 DEF Place, Begins
    <2>9. QED
        BY <1>1, <2>8
<1> HIDE DEF S
<1>4. \A k \in 0..N : k \in S
    BY <1>1, <1>2, <1>3, Induction
<1>5. w \in S
    BY <1>4
<1>6. QED
    BY <1>5 DEF S

\* ft_split_with_empty: the element with w before it is what lies between its
\* beginning and its end.
LEMMA ElementIs ==
    ASSUME NEW s \in Seq(Chars), NEW c, NEW i, Begins(s, c, i), NEW e, Ends(s, c, i, e)
    PROVE  /\ Before(s, c, i) + 1 \in 1..(Cardinality(Seps(s, c)) + 1)
           /\ FtSplitWithEmpty(s, c)[Before(s, c, i) + 1] = Between(s, i, e)
<1> DEFINE w == Before(s, c, i)
           N == Cardinality(Seps(s, c))
           chars == {k \in DOMAIN s \ Seps(s, c) : Before(s, c, k) = w}
<1>1. /\ Len(s) \in Nat /\ DOMAIN s = 1..Len(s)
      /\ i \in 1..(Len(s) + 1) /\ e \in i..(Len(s) + 1) /\ Len(s) + 1 \in i..(Len(s) + 1)
    BY DEF Begins, Ends
<1>2. w \in Nat /\ N = Before(s, c, Len(s) + 1) /\ N \in Nat /\ w <= N
    <2>1. N = Before(s, c, Len(s) + 1) /\ N \in Nat /\ w \in Nat
        BY <1>1, BeforeCounts
    <2>2. w <= Before(s, c, Len(s) + 1)
        BY <1>1, BeforeGrows
    <2>3. QED
        BY <2>1, <2>2
<1>3. ASSUME NEW k \in 1..Len(s) PROVE k \in chars <=> k \in i..(e - 1)
    <2>1. CASE k < i
        <3>1. i # 1 /\ i - 1 \in k..(i - 1) /\ i \in k..(Len(s) + 1) /\ k \in 1..(Len(s) + 1)
            BY <1>1, <2>1
        <3>2. s[i - 1] = c
            BY <3>1 DEF Begins
        <3>3. Before(s, c, k) < w
            BY <3>1, <3>2, BeforeGrows
        <3>4. Before(s, c, k) \in Nat
            BY <3>1, BeforeCounts
        <3>5. QED
            BY <1>1, <1>2, <2>1, <3>3, <3>4
    <2>2. CASE k \in i..(e - 1)
        <3>1. \A m \in i..(k - 1) : m \in i..(e - 1)
            BY <1>1, <2>2
        <3>2. \A m \in i..(k - 1) : s[m] # c
            BY <3>1 DEF Ends
        <3>3. k \in i..(Len(s) + 1)
            BY <1>1, <2>2
        <3>4. Before(s, c, k) = w
            BY <1>1, <3>2, <3>3, BeforeGrows
        <3>5. k \notin Seps(s, c)
            BY <2>2 DEF Ends, Seps
        <3>6. QED
            BY <1>1, <2>2, <3>4, <3>5
    <2>3. CASE k = e
        <3>1. s[e] = c
            BY <1>1, <2>3 DEF Ends
        <3>2. k \in Seps(s, c)
            BY <1>1, <2>3, <3>1 DEF Seps
        <3>3. QED
            BY <1>1, <2>3, <3>2
    <2>4. CASE k > e
        <3>1. s[e] = c
            BY <1>1, <2>4 DEF Ends
        <3>2. e \in i..(k - 1) /\ k \in i..(Len(s) + 1)
            BY <1>1, <2>4
        <3>3. w < Before(s, c, k)
            BY <1>1, <3>1, <3>2, BeforeGrows
        <3>4. Before(s, c, k) \in Nat
            <4>1. k \in 1..(Len(s) + 1)
                BY <1>1
            <4>2. QED
                BY <4>1, BeforeCounts
        <3>5. QED
            BY <1>1, <1>2, <2>4, <3>3, <3>4
    <2>5. QED
        BY <1>1, <2>1, <2>2, <2>3, <2>4
<1>4. chars = i..(e - 1)
    <2>1. chars \subseteq 1..Len(s)
        BY <1>1
    <2>2. i..(e - 1) \subseteq 1..Len(s)
        BY <1>1
    <2> HIDE DEF chars
    <2>3. QED
        BY <1>3, <2>1, <2>2
<1>5. FtSplitWithEmpty(s, c)[w + 1] = GetSubstring(s, c, w)
    <2>1. FtSplitWithEmpty(s, c) = [m \in 1..(N + 1) |-> GetSubstring(s, c, m - 1)]
        BY DEF FtSplitWithEmpty, Seps
    <2> HIDE DEF w, N
    <2>2. w + 1 \in 1..(N + 1) /\ (w + 1) - 1 = w
        BY <1>2
    <2>3. QED
        BY <2>1, <2>2
<1>6. GetSubstring(s, c, w) = IF chars = {} THEN << >> ELSE SubSeq(s, Min(chars), Max(chars))
    BY DEF GetSubstring, Seps, Before
<1> HIDE DEF chars, w, N
<1>7. GetSubstring(s, c, w) = SubSeq(s, i, e - 1)
    <2>1. CASE e = i
        <3>1. chars = {} /\ SubSeq(s, i, e - 1) = << >>
            BY <1>1, <1>4, <2>1
        <3>2. QED
            BY <1>6, <3>1
    <2>2. CASE e # i
        <3>1. chars \in SUBSET Nat /\ chars # {} /\ chars \in SUBSET (0..Len(s))
            <4>1. i..(e - 1) \subseteq Nat /\ i..(e - 1) \subseteq 0..Len(s)
                BY <1>1
            <4>2. i \in i..(e - 1)
                BY <1>1, <2>2
            <4>3. QED
                BY <1>4, <4>1, <4>2
        <3>2. /\ Min(chars) \in chars /\ \A y \in chars : Min(chars) <= y
              /\ Max(chars) \in chars /\ \A y \in chars : y <= Max(chars)
            BY <1>1, <3>1, MinIsLeast, MaxIsGreatest
        <3>3. PICK a, b : a = Min(chars) /\ b = Max(chars)
            OBVIOUS
        <3>4. i \in chars /\ e - 1 \in chars
            BY <1>1, <1>4, <2>2
        <3>5. a = i /\ b = e - 1
            BY <1>1, <1>4, <3>2, <3>3, <3>4
        <3>6. QED
            BY <1>6, <3>1, <3>3, <3>5
    <2>3. QED
        BY <2>1, <2>2
<1>8. QED
    BY <1>2, <1>5, <1>7 DEF w, N, Between

\* What an element is, whichever it is.
LEMMA ElementOf ==
    ASSUME NEW s \in Seq(Chars), NEW c, NEW w \in 1..(Cardinality(Seps(s, c)) + 1)
    PROVE  \E i, e : /\ Begins(s, c, i) /\ Before(s, c, i) = w - 1 /\ Ends(s, c, i, e)
                     /\ FtSplitWithEmpty(s, c)[w] = Between(s, i, e)
<1>1. Cardinality(Seps(s, c)) \in Nat
    BY BeforeCounts
<1>2. w - 1 \in 0..Cardinality(Seps(s, c))
    BY <1>1
<1>3. PICK i : Begins(s, c, i) /\ Before(s, c, i) = w - 1
    BY <1>2, BeginExists
<1>4. PICK e : Ends(s, c, i, e)
    BY <1>3, EndExists DEF Begins
<1>5. FtSplitWithEmpty(s, c)[Before(s, c, i) + 1] = Between(s, i, e)
    BY <1>3, <1>4, ElementIs
<1>6. Before(s, c, i) + 1 = w
    BY <1>1, <1>3
<1>7. QED
    BY <1>3, <1>4, <1>5, <1>6

\* No separator is in an element.
LEMMA ElementIsText ==
    ASSUME NEW s \in Seq(Chars), NEW c, NEW i, Begins(s, c, i), NEW e, Ends(s, c, i, e)
    PROVE  /\ Between(s, i, e) \in Seq(Chars) /\ Len(Between(s, i, e)) = e - i
           /\ \A k \in 1..(e - i) : /\ Between(s, i, e)[k] = s[i + k - 1]
                                   /\ Between(s, i, e)[k] # c
<1>1. /\ Len(s) \in Nat /\ i \in 1..(Len(s) + 1) /\ e \in i..(Len(s) + 1)
      /\ \A k \in i..(e - 1) : s[k] # c
    BY DEF Begins, Ends
<1> DEFINE b == e - 1
           d == SubSeq(s, i, b)
<1>2. b \in Int /\ i \in Int /\ \A k \in i..b : s[k] \in Chars
    BY <1>1
<1> HIDE DEF b
<1>3. /\ d \in Seq(Chars)
      /\ Len(d) = IF i <= b THEN b - i + 1 ELSE 0
      /\ \A k \in 1..(b - i + 1) : d[k] = s[i + k - 1]
    BY <1>2, SubSeqProperties
<1> HIDE DEF d
<1>4. Len(d) = e - i /\ b - i + 1 = e - i
    BY <1>1, <1>3 DEF b
<1>5. \A k \in 1..(e - i) : d[k] = s[i + k - 1] /\ i + k - 1 \in i..(e - 1)
    BY <1>1, <1>3, <1>4
<1>6. QED
    BY <1>1, <1>3, <1>4, <1>5 DEF d, b, Between

\* A text without separators is the piece that begins at a place if and only if
\* that is where an element begins, and it is the element.
LEMMA ElementAtIs ==
    ASSUME NEW s \in Seq(Chars), NEW i \in 1..(Len(s) + 1), NEW e, Ends(s, ":", i, e),
           NEW d \in Seq(Chars), \A k \in 1..Len(d) : d[k] # ":"
    PROVE  ElementAt(s, i, d) <=> Begins(s, ":", i) /\ d = Between(s, i, e)
<1>1. /\ Len(s) \in Nat /\ Len(d) \in Nat /\ e \in i..(Len(s) + 1)
      /\ e = Len(s) + 1 \/ s[e] = ":"
      /\ \A k \in i..(e - 1) : s[k] # ":"
    BY DEF Ends
<1>2. Begins(s, ":", i) <=> (i = 1 \/ s[i - 1] = ":")
    BY DEF Begins
<1>3. ASSUME ElementAt(s, i, d) PROVE Begins(s, ":", i) /\ d = Between(s, i, e)
    <2> DEFINE m == Len(d)
    <2>1. /\ i = 1 \/ s[i - 1] = ":"
          /\ i + m <= Len(s) + 1
          /\ SubSeq(s, i, i + m - 1) = d
          /\ CharAt(s, i + m) \in {Nul, ":"}
        BY <1>3 DEF ElementAt
    <2>2. m \in Nat
        BY <1>1
    <2>3. \A k \in 1..m : d[k] = s[i + k - 1]
        <3> DEFINE b == i + m - 1
        <3>1. b \in Int /\ i \in Int /\ \A k \in i..b : s[k] \in Chars
            BY <1>1, <2>1, <2>2
        <3>2. b - i + 1 = m
            BY <2>2
        <3> HIDE DEF b
        <3>3. \A k \in 1..(b - i + 1) : SubSeq(s, i, b)[k] = s[i + k - 1]
            BY <3>1, SubSeqProperties
        <3>4. SubSeq(s, i, b) = d
            BY <2>1 DEF b
        <3> HIDE DEF m
        <3>5. QED
            BY <3>2, <3>3, <3>4
    <2>4. i + m = Len(s) + 1 \/ s[i + m] = ":"
        <3>1. CASE i + m \in 1..Len(s)
            <4>1. CharAt(s, i + m) = s[i + m] /\ s[i + m] \in Chars
                BY <2>2, <3>1, Character
            <4>2. QED
                BY <2>1, <4>1, NulIsNoCharacter
        <3>2. CASE i + m \notin 1..Len(s)
            <4>1. \A w, k \in Nat : k <= w + 1 /\ k # 0 /\ k \notin 1..w => k = w + 1
                OBVIOUS
            <4>2. i + m \in Nat /\ i + m # 0
                BY <2>2
            <4> HIDE DEF m
            <4>3. QED
                BY <1>1, <2>1, <3>2, <4>1, <4>2
        <3>3. QED
            BY <3>1, <3>2
    <2>5. ~(e < i + m)
        <3> SUFFICES ASSUME e < i + m PROVE FALSE
            OBVIOUS
        <3>1. e - i + 1 \in 1..m /\ i + (e - i + 1) - 1 = e
            BY <1>1, <2>2
        <3>2. d[e - i + 1] = s[e]
            BY <2>3, <3>1
        <3>3. s[e] = ":"
            BY <1>1, <2>1, <2>2
        <3>4. QED
            BY <3>1, <3>2, <3>3
    <2>6. ~(i + m < e)
        <3> SUFFICES ASSUME i + m < e PROVE FALSE
            OBVIOUS
        <3>1. i + m \in i..(e - 1) /\ i + m # Len(s) + 1
            BY <1>1, <2>2
        <3>2. QED
            BY <1>1, <2>4, <3>1
    <2>7. i + m = e
        BY <1>1, <2>2, <2>5, <2>6
    <2>8. QED
        BY <1>2, <2>1, <2>7 DEF Between
<1>4. ASSUME Begins(s, ":", i), d = Between(s, i, e) PROVE ElementAt(s, i, d)
    <2>1. Len(d) = e - i
        BY <1>4, ElementIsText
    <2>2. i + Len(d) = e /\ i + Len(d) - 1 = e - 1
        BY <1>1, <2>1
    <2>3. CharAt(s, e) \in {Nul, ":"}
        BY <1>1, Character
    <2>4. i + Len(d) <= Len(s) + 1
        BY <1>1, <2>2
    <2>5. QED
        BY <1>2, <1>4, <2>2, <2>3, <2>4 DEF ElementAt, Between
<1>5. QED
    BY <1>3, <1>4

\* What the loop over PATH has found after k directories: the first file that can
\* be executed, else the first one that cannot.
Found(k, paths, kind, r) ==
    /\ r.found \in {"no", "plain", "exec"}
    /\ r.found = "exec" =>
          \E j \in 1..k : /\ kind[paths[j]] = "exec" /\ r.at = paths[j]
                          /\ \A m \in 1..(j - 1) : kind[paths[m]] # "exec"
    /\ r.found # "exec" => \A m \in 1..k : kind[paths[m]] # "exec"
    /\ r.found = "plain" =>
          \E j \in 1..k : /\ kind[paths[j]] = "plain" /\ r.at = paths[j]
                          /\ \A m \in 1..(j - 1) : kind[paths[m]] # "plain"
    /\ r.found = "no" => \A m \in 1..k : kind[paths[m]] # "plain"

\* What is read back from the two results a turn can give.
LEMMA ResultRead ==
    ASSUME NEW d
    PROVE  /\ [found |-> "exec", at |-> d].found = "exec" /\ [found |-> "exec", at |-> d].at = d
           /\ [found |-> "plain", at |-> d].found = "plain" /\ [found |-> "plain", at |-> d].at = d
           /\ [found |-> "no", at |-> d].found = "no"
           /\ "exec" # "plain" /\ "exec" # "no" /\ "plain" # "no"
OBVIOUS

\* A turn of the loop.
LEMMA DirSearched ==
    ASSUME NEW k \in Nat \ {0}, NEW paths, NEW kind, NEW r, Found(k - 1, paths, kind, r)
    PROVE  Found(k, paths, kind, SearchDir(r, paths[k], kind[paths[k]]))
<1> DEFINE here == kind[paths[k]]
           next == SearchDir(r, paths[k], here)
<1>1. /\ \A m \in 1..k : m \in 1..(k - 1) \/ m = k
      /\ \A m \in 1..(k - 1) : m \in 1..k
      /\ k \in 1..k
    OBVIOUS
<1>2. CASE r.found = "exec"
    <2>1. next = r
        BY <1>2 DEF SearchDir
    <2>2. QED
        BY <1>1, <1>2, <2>1, ResultRead DEF Found
<1>3. CASE r.found # "exec" /\ here = "exec"
    <2>1. next = [found |-> "exec", at |-> paths[k]]
        BY <1>3 DEF SearchDir
    <2>2. next.found = "exec" /\ next.at = paths[k]
        BY <2>1, ResultRead
    <2>3. \A m \in 1..(k - 1) : kind[paths[m]] # "exec"
        BY <1>3 DEF Found
    <2> HIDE DEF next
    <2>4. QED
        BY <1>1, <1>3, <2>2, <2>3, ResultRead DEF Found, next
<1>4. CASE r.found # "exec" /\ here = "plain" /\ r.found = "no"
    <2>1. next = [found |-> "plain", at |-> paths[k]]
        BY <1>4, ResultRead DEF SearchDir
    <2>2. next.found = "plain" /\ next.at = paths[k]
        BY <2>1, ResultRead
    <2>3. \A m \in 1..(k - 1) : kind[paths[m]] # "exec" /\ kind[paths[m]] # "plain"
        BY <1>4 DEF Found
    <2> HIDE DEF next
    <2>4. QED
        BY <1>1, <1>4, <2>2, <2>3, ResultRead DEF Found, next
<1>5. CASE r.found = "plain" /\ here # "exec"
    <2>1. next = r
        BY <1>5, ResultRead DEF SearchDir
    <2>2. QED
        BY <1>1, <1>5, <2>1, ResultRead DEF Found
<1>6. CASE r.found = "no" /\ here \notin {"plain", "exec"}
    <2>1. next = r
        BY <1>6 DEF SearchDir
    <2>2. QED
        BY <1>1, <1>6, <2>1, ResultRead DEF Found
<1>7. r.found \in {"no", "plain", "exec"}
    BY DEF Found
<1>8. QED
    BY <1>2, <1>3, <1>4, <1>5, <1>6, <1>7

\* The loop over PATH finds the first, whatever the directories are.
LEMMA PathsSearched ==
    ASSUME NEW paths, Len(paths) \in Nat, NEW kind
    PROVE  Found(Len(paths), paths, kind, SearchInPaths(paths, kind))
<1> DEFINE N == Len(paths)
           start == [found |-> "no", at |-> << >>]
           X == [found : {"no", "plain", "exec"}, at : {paths[j] : j \in 1..N} \cup {<< >>}]
           Turn(k, s) == SearchDir(s, paths[k], kind[paths[k]])
           Body(g) == [k \in 0..N |-> IF k = 0 THEN start ELSE Turn(k, g[k - 1])]
           After == CHOOSE g : g = Body(g)
           G == [k \in 1..N |-> [s \in X |-> Turn(k, s)]]
<1>1. start \in X
    OBVIOUS
<1>2. SearchInPaths(paths, kind) = After[N]
    BY Zenon DEF SearchInPaths
<1>3. ASSUME NEW k \in 1..N, NEW s \in X PROVE Turn(k, s) \in X
    BY DEF SearchDir
<1>4. G \in Turns(N, X)
    BY <1>3 DEF Turns
<1> HIDE DEF X, start, Turn
<1>5. After = Body(After)
    <2>1. PICK h : IsLoop(N, X, start, G, h)
        <3> HIDE DEF G
        <3>1. QED
            BY <1>1, <1>4, LoopExists
    <2>2. ASSUME NEW k \in 1..N PROVE h[k] = Turn(k, h[k - 1])
        <3>1. h[k - 1] \in X
            BY <2>1 DEF IsLoop
        <3>2. QED
            BY <2>1, <3>1 DEF IsLoop
    <2>3. h = Body(h)
        BY <2>1, <2>2 DEF IsLoop
    <2> HIDE DEF Body
    <2>4. QED
        BY <2>3
<1> HIDE DEF After
<1>6. After[0] = start /\ \A k \in 1..N : After[k] = Turn(k, After[k - 1])
    BY <1>5
<1> DEFINE S == {k \in 0..N : Found(k, paths, kind, After[k])}
<1>7. 0 \in S
    <2>1. Found(0, paths, kind, start)
        BY ResultRead DEF Found, start
    <2>2. QED
        BY <1>6, <2>1
<1>8. ASSUME NEW k \in 1..N, k - 1 \in S PROVE k \in S
    <2>1. Found(k - 1, paths, kind, After[k - 1]) /\ k \in Nat \ {0}
        BY <1>8
    <2>2. Found(k, paths, kind, Turn(k, After[k - 1]))
        BY <2>1, DirSearched DEF Turn
    <2>3. QED
        BY <1>6, <2>2
<1> HIDE DEF S
<1>9. \A k \in 0..N : k \in S
    BY <1>7, <1>8, Induction
<1>10. N \in S
    BY <1>9
<1>11. QED
    BY <1>2, <1>10 DEF S

\* There is an answer for every directory of PATH and the current one.
Answers(path, kind) == DOMAIN kind = ToSet(FtSplitWithEmpty(path, ":")) \cup {<< >>}

\* Where the directories of a kind are in PATH.
Places(path, kind, k) ==
    {i \in 1..(Len(path) + 1) : \E d \in DOMAIN kind : ElementAt(path, i, d) /\ kind[d] = k}

\* The element that begins at a place.
ElementFrom(path, i) == FtSplitWithEmpty(path, ":")[Before(path, ":", i) + 1]

\* An element of a kind begins at a place.
KindAt(path, kind, k, i) == Begins(path, ":", i) /\ kind[ElementFrom(path, i)] = k

\* An element that begins at a place is one of the directories, and is there.
Element(path, i) ==
    /\ Before(path, ":", i) + 1 \in 1..(Cardinality(Seps(path, ":")) + 1)
    /\ ElementAt(path, i, ElementFrom(path, i))

\* The places of a kind are the beginnings of its elements.
LEMMA PlacesAre ==
    ASSUME NEW path \in Seq(Chars), NEW kind, NEW k,
           Answers(path, kind),
           NEW i \in 1..(Len(path) + 1)
    PROVE  /\ Begins(path, ":", i) => Element(path, i)
           /\ (i \in Places(path, kind, k)) = KindAt(path, kind, k, i)
<1> DEFINE paths == FtSplitWithEmpty(path, ":")
           N == Cardinality(Seps(path, ":")) + 1
           w == Before(path, ":", i) + 1
<1>1. PICK e : Ends(path, ":", i, e)
    BY EndExists
<1>2. DOMAIN paths = 1..N
    BY DEF FtSplitWithEmpty, Seps
<1>3. ASSUME NEW d \in DOMAIN kind
      PROVE  d \in Seq(Chars) /\ \A j \in 1..Len(d) : d[j] # ":"
    <2>1. CASE d = << >>
        BY <2>1
    <2>2. CASE d # << >>
        <3>1. PICK m \in 1..N : d = paths[m]
            BY <1>2, <1>3, <2>2 DEF ToSet, Answers
        <3>2. PICK a, b : /\ Begins(path, ":", a) /\ Ends(path, ":", a, b)
                          /\ paths[m] = Between(path, a, b)
            BY <3>1, ElementOf
        <3>3. a \in Int /\ b \in Int
            BY <3>2 DEF Begins, Ends
        <3>4. PICK f : f = Between(path, a, b)
            OBVIOUS
        <3>5. /\ f \in Seq(Chars) /\ Len(f) = b - a
              /\ \A j \in 1..(b - a) : f[j] # ":"
            <4>1. Begins(path, ":", a) /\ Ends(path, ":", a, b)
                BY <3>2
            <4>2. /\ Between(path, a, b) \in Seq(Chars) /\ Len(Between(path, a, b)) = b - a
                  /\ \A j \in 1..(b - a) : Between(path, a, b)[j] # ":"
                BY <4>1, ElementIsText
            <4>3. QED
                BY <3>4, <4>2
        <3>6. d = f
            BY <3>1, <3>2, <3>4
        <3>7. QED
            BY <3>3, <3>5, <3>6
    <2>3. QED
        BY <2>1, <2>2
<1>4. ASSUME Begins(path, ":", i)
      PROVE  w \in 1..N /\ paths[w] = Between(path, i, e) /\ paths[w] \in DOMAIN kind
    <2>1. w \in 1..N /\ paths[w] = Between(path, i, e)
        BY <1>1, <1>4, ElementIs
    <2> HIDE DEF w, N
    <2>2. paths[w] \in ToSet(paths)
        BY <1>2, <2>1 DEF ToSet
    <2>3. QED
        BY <2>1, <2>2 DEF Answers, paths
<1> HIDE DEF w, N, paths
<1>5. ASSUME NEW d \in DOMAIN kind
      PROVE  ElementAt(path, i, d) <=> Begins(path, ":", i) /\ d = paths[w]
    <2>1. ElementAt(path, i, d) <=> Begins(path, ":", i) /\ d = Between(path, i, e)
        BY <1>1, <1>3, ElementAtIs
    <2>2. QED
        BY <1>4, <2>1
<1>6. Begins(path, ":", i) => ElementAt(path, i, paths[w])
    BY <1>4, <1>5
<1>7. i \in Places(path, kind, k) <=> Begins(path, ":", i) /\ kind[paths[w]] = k
    BY <1>4, <1>5 DEF Places
<1>8. QED
    BY <1>4, <1>6, <1>7 DEF w, N, paths, ElementFrom, Element, KindAt

\* The least place of a kind is where the first directory of that kind begins.
LEMMA FirstPlace ==
    ASSUME NEW path \in Seq(Chars), NEW kind, NEW k,
           Answers(path, kind),
           NEW j \in 1..(Cardinality(Seps(path, ":")) + 1),
           kind[FtSplitWithEmpty(path, ":")[j]] = k,
           \A m \in 1..(j - 1) : kind[FtSplitWithEmpty(path, ":")[m]] # k
    PROVE  /\ Places(path, kind, k) # {}
           /\ ElementAt(path, Min(Places(path, kind, k)), FtSplitWithEmpty(path, ":")[j])
<1> DEFINE paths == FtSplitWithEmpty(path, ":")
           N == Cardinality(Seps(path, ":")) + 1
           P == Places(path, kind, k)
           B(i) == Before(path, ":", i)
<1>1. PICK i : Begins(path, ":", i) /\ B(i) = j - 1
    BY ElementOf
<1>2. i \in 1..(Len(path) + 1) /\ B(i) + 1 = j /\ Len(path) \in Nat /\ N \in Nat
    <2>1. i \in 1..(Len(path) + 1)
        BY <1>1 DEF Begins
    <2>2. N \in Nat
        BY BeforeCounts
    <2> HIDE DEF N, B
    <2>3. QED
        BY <1>1, <2>1, <2>2 DEF N
<1>10. ASSUME NEW y \in 1..(Len(path) + 1)
       PROVE  /\ (y \in P) = KindAt(path, kind, k, y)
              /\ Begins(path, ":", y) => Element(path, y)
    BY PlacesAre
<1>11. ASSUME NEW y \in 1..(Len(path) + 1)
       PROVE  /\ y \in P <=> (Begins(path, ":", y) /\ kind[paths[B(y) + 1]] = k)
              /\ Begins(path, ":", y) => ElementAt(path, y, paths[B(y) + 1]) /\ B(y) + 1 \in 1..N
    <2>1. /\ (y \in P) = KindAt(path, kind, k, y)
          /\ Begins(path, ":", y) => Element(path, y)
        BY <1>10
    <2>2. ElementFrom(path, y) = paths[B(y) + 1]
        BY DEF ElementFrom
    <2> HIDE DEF P, B, N, paths
    <2>3. Begins(path, ":", y) => ElementAt(path, y, paths[B(y) + 1]) /\ B(y) + 1 \in 1..N
        BY <2>1, <2>2 DEF Element, B, N
    <2>4. QED
        BY <2>1, <2>2, <2>3 DEF KindAt
<1>3. i \in P /\ ElementAt(path, i, paths[j])
    <2> HIDE DEF P, B, paths
    <2>1. kind[paths[j]] = k
        BY DEF paths
    <2>2. QED
        BY <1>1, <1>2, <1>11, <2>1
<1>4. ASSUME NEW y \in P PROVE i <= y
    <2>1. y \in 1..(Len(path) + 1)
        BY DEF Places
    <2>2. Begins(path, ":", y) /\ kind[paths[B(y) + 1]] = k /\ B(y) + 1 \in 1..N
        <3>1. y \in P
            BY <1>4
        <3> HIDE DEF P, B, N, paths
        <3>2. QED
            BY <1>11, <2>1, <3>1
    <2>3. B(y) \in Nat /\ B(i) \in Nat
        BY <1>2, <2>1, BeforeCounts
    <2>4. ASSUME y < i PROVE FALSE
        <3>1. i - 1 \in y..(i - 1) /\ i \in y..(Len(path) + 1) /\ i # 1
            BY <1>2, <2>1, <2>4
        <3>2. path[i - 1] = ":"
            BY <1>1, <3>1 DEF Begins
        <3>3. B(y) < B(i)
            BY <2>1, <3>1, <3>2, BeforeGrows
        <3> HIDE DEF B, N
        <3>4. B(y) + 1 \in 1..(j - 1)
            BY <1>2, <2>3, <3>3
        <3>5. QED
            BY <2>2, <3>4
    <2>5. QED
        BY <1>2, <2>1, <2>4
<1>5. P \in SUBSET Nat
    BY <1>2 DEF Places
<1> HIDE DEF P
<1>6. PICK a : a = Min(P)
    OBVIOUS
<1>7. a \in P /\ \A y \in P : a <= y
    BY <1>3, <1>5, <1>6, MinIsLeast
<1>8. a = i
    BY <1>2, <1>3, <1>4, <1>5, <1>7
<1>9. QED
    BY <1>3, <1>6, <1>8 DEF P

\* No directory of a kind, no place of it.
LEMMA NoPlace ==
    ASSUME NEW path \in Seq(Chars), NEW kind, NEW k,
           Answers(path, kind),
           \A m \in 1..(Cardinality(Seps(path, ":")) + 1) :
               kind[FtSplitWithEmpty(path, ":")[m]] # k
    PROVE  Places(path, kind, k) = {}
<1> SUFFICES ASSUME NEW i \in Places(path, kind, k) PROVE FALSE
    OBVIOUS
<1>1. i \in 1..(Len(path) + 1)
    BY DEF Places
<1>2. (i \in Places(path, kind, k)) = KindAt(path, kind, k, i)
    BY <1>1, PlacesAre
<1>3. Begins(path, ":", i) /\ kind[ElementFrom(path, i)] = k
    BY <1>2 DEF KindAt
<1>4. Begins(path, ":", i) => Element(path, i)
    BY <1>1, PlacesAre
<1>5. QED
    BY <1>3, <1>4 DEF Element, ElementFrom

\* A command is searched in the directories of PATH in their order, an empty
\* element being the current directory: what get_pathname finds is the first file
\* that can be executed and, only if there is none, the first other file; whatever
\* PATH is and whatever the name is in its directories.
THEOREM PathnameIsFirst ==
    ASSUME NEW path \in Seq(Chars), NEW kind,
           DOMAIN kind = ToSet(FtSplitWithEmpty(path, ":")) \cup {<< >>}
    PROVE  PathnameIsRight(path, kind)
<1> DEFINE paths == FtSplitWithEmpty(path, ":")
           N == Cardinality(Seps(path, ":")) + 1
           At(k) == Places(path, kind, k)
           best == IF At("exec") # {} THEN "exec" ELSE IF At("plain") # {} THEN "plain" ELSE "no"
           r == GetPathname(path, kind)
<1>1. N \in Nat /\ Answers(path, kind)
    BY BeforeCounts DEF Answers
<1>2. SUFFICES r.found = best /\ (best # "no" => ElementAt(path, Min(At(best)), r.at))
    BY DEF PathnameIsRight, Places
<1>3. DOMAIN paths = 1..N
    BY DEF FtSplitWithEmpty, Seps
<1>4. Len(paths) = N
    <2> DEFINE E(m) == GetSubstring(path, ":", m - 1)
    <2>1. paths = [m \in 1..N |-> E(m)]
        BY DEF FtSplitWithEmpty, Seps
    <2> HIDE DEF N, E, paths
    <2>2. QED
        BY <1>1, <2>1
<1>5. ASSUME Found(N, paths, kind, r)
      PROVE r.found = best /\ (best # "no" => ElementAt(path, Min(At(best)), r.at))
    <2>1. CASE r.found = "exec"
        <3>1. PICK j \in 1..N : /\ kind[paths[j]] = "exec" /\ r.at = paths[j]
                                /\ \A m \in 1..(j - 1) : kind[paths[m]] # "exec"
            BY <1>5, <2>1 DEF Found
        <3>2. At("exec") # {} /\ ElementAt(path, Min(At("exec")), paths[j])
            BY <1>1, <3>1, FirstPlace
        <3>3. QED
            BY <2>1, <3>1, <3>2
    <2>2. CASE r.found = "plain"
        <3>1. PICK j \in 1..N : /\ kind[paths[j]] = "plain" /\ r.at = paths[j]
                                /\ \A m \in 1..(j - 1) : kind[paths[m]] # "plain"
            BY <1>5, <2>2 DEF Found
        <3>2. At("plain") # {} /\ ElementAt(path, Min(At("plain")), paths[j])
            BY <1>1, <3>1, FirstPlace
        <3>3. \A m \in 1..N : kind[paths[m]] # "exec"
            BY <1>5, <2>2, ResultRead DEF Found
        <3>4. At("exec") = {}
            BY <1>1, <3>3, NoPlace
        <3>5. QED
            BY <2>2, <3>1, <3>2, <3>4
    <2>3. CASE r.found = "no"
        <3>1. \A m \in 1..N : kind[paths[m]] # "exec" /\ kind[paths[m]] # "plain"
            BY <1>5, <2>3, ResultRead DEF Found
        <3>2. At("exec") = {} /\ At("plain") = {}
            BY <1>1, <3>1, NoPlace
        <3>3. QED
            BY <2>3, <3>2
    <2>4. QED
        BY <1>5, <2>1, <2>2, <2>3 DEF Found
<1>6. CASE path # << >>
    <2>1. r = SearchInPaths(paths, kind)
        BY <1>6 DEF GetPathname
    <2> HIDE DEF N, paths
    <2>2. Found(Len(paths), paths, kind, SearchInPaths(paths, kind))
        BY <1>1, <1>4, PathsSearched
    <2>3. QED
        BY <1>4, <1>5, <2>1, <2>2
<1>7. CASE path = << >>
    <2>1. r = [found |-> IF kind[<< >>] \in {"plain", "exec"} THEN kind[<< >>] ELSE "no",
               at |-> << >>]
        BY <1>7 DEF GetPathname
    <2>2. N = 1
        <3>1. Seps(path, ":") = {}
            BY <1>7 DEF Seps
        <3>2. Cardinality(Seps(path, ":")) = 0
            BY <3>1, FS_EmptySet
        <3>3. QED
            BY <3>2
    <2>3. paths[1] = << >>
        <3>1. PICK i, e : /\ Begins(path, ":", i) /\ Ends(path, ":", i, e)
                          /\ paths[1] = Between(path, i, e)
            BY <2>2, ElementOf
        <3>2. i = 1 /\ e = 1
            BY <1>7, <3>1 DEF Begins, Ends
        <3>3. Between(path, i, e) = << >>
            BY <3>2 DEF Between
        <3> HIDE DEF paths
        <3>4. QED
            BY <3>1, <3>3
    <2> HIDE DEF N, paths
    <2>4. Found(N, paths, kind, r)
        <3>1. CASE kind[<< >>] \in {"plain", "exec"}
            <4>1. r.found = kind[<< >>] /\ r.at = << >>
                BY <2>1, <3>1
            <4>2. QED
                BY <2>2, <2>3, <3>1, <4>1, ResultRead DEF Found
        <3>2. CASE kind[<< >>] \notin {"plain", "exec"}
            <4>1. r.found = "no" /\ r.at = << >>
                BY <2>1, <3>2
            <4>2. QED
                BY <2>2, <2>3, <3>2, <4>1, ResultRead DEF Found
        <3>3. QED
            BY <3>1, <3>2
    <2>5. QED
        BY <1>5, <2>4
<1>8. QED
    BY <1>6, <1>7

-------------------------------------------------------------------------------
(* Where a path leads                                                           *)

Spots == [dir : Seq(Seq(Chars)), name : Seq(Chars)]

\* A character further on the way.
LEMMA OneOnward ==
    ASSUME NEW s \in Spots, NEW c \in Chars
    PROVE  /\ Onward(s, c) \in Spots /\ Reached(s) \in Seq(Seq(Chars))
           /\ c = "/" => Onward(s, c) = [dir |-> Reached(s), name |-> << >>]
           /\ c # "/" => Onward(s, c) = [dir |-> s.dir, name |-> Append(s.name, c)]
           /\ Reached([dir |-> s.dir, name |-> << >>]) = s.dir
<1>1. s.dir \in Seq(Seq(Chars)) /\ s.name \in Seq(Chars)
    BY DEF Spots
<1>2. Reached(s) \in Seq(Seq(Chars))
    <2>1. Append(s.dir, s.name) \in Seq(Seq(Chars))
        BY <1>1
    <2>2. s.dir # << >> => Front(s.dir) \in Seq(Seq(Chars))
        <3> DEFINE w == Len(s.dir) - 1
        <3>1. s.dir # << >> => w \in Nat /\ w <= Len(s.dir)
            BY <1>1
        <3> HIDE DEF w
        <3>2. s.dir # << >> => SubSeq(s.dir, 1, w) \in Seq(Seq(Chars))
            BY <1>1, <3>1
        <3>3. QED
            BY <3>2 DEF Front, w
    <2>3. QED
        BY <1>1, <2>1, <2>2 DEF Reached, Entered
<1>3. Append(s.name, c) \in Seq(Chars) /\ << >> \in Seq(Chars)
    BY <1>1
<1>4. Reached([dir |-> s.dir, name |-> << >>]) = s.dir
    BY DEF Reached, Entered
<1>5. QED
    BY <1>1, <1>2, <1>3, <1>4 DEF Onward, Spots

\* The way of a path is what Way says.
LEMMA WayIs ==
    ASSUME NEW from \in Seq(Seq(Chars)), NEW path \in Seq(Chars)
    PROVE  /\ Way(from, path)[0] = [dir |-> IF IsAbsolute(path) THEN << >> ELSE from,
                                    name |-> << >>]
           /\ \A k \in 1..Len(path) :
                 Way(from, path)[k] = Onward(Way(from, path)[k - 1], path[k])
           /\ \A k \in 0..Len(path) : Way(from, path)[k] \in Spots
<1> DEFINE start == [dir |-> IF IsAbsolute(path) THEN << >> ELSE from, name |-> << >>]
           N == Len(path)
           X == Spots
           Body(g) == [k \in 0..N |-> IF k = 0 THEN start ELSE Onward(g[k - 1], path[k])]
           After == CHOOSE g : g = Body(g)
           G == [k \in 1..N |-> [s \in X |-> Onward(s, path[k])]]
<1>1. N \in Nat
    OBVIOUS
<1>2. start \in X
    BY DEF Spots
<1>3. Way(from, path) = After
    BY Zenon DEF Way
<1>4. ASSUME NEW k \in 1..N, NEW s \in X PROVE Onward(s, path[k]) \in X
    <2>1. path[k] \in Chars
        OBVIOUS
    <2>2. QED
        BY <2>1, OneOnward
<1>5. G \in Turns(N, X)
    BY <1>4 DEF Turns
<1> HIDE DEF N, X, start
<1>6. After = Body(After)
    <2>1. PICK h : IsLoop(N, X, start, G, h)
        <3> HIDE DEF G
        <3>1. QED
            BY <1>1, <1>2, <1>5, LoopExists
    <2>2. ASSUME NEW k \in 1..N PROVE h[k] = Onward(h[k - 1], path[k])
        <3>1. h[k - 1] \in X
            BY <1>1, <2>1 DEF IsLoop
        <3>2. QED
            BY <2>1, <3>1 DEF IsLoop
    <2>3. h = Body(h)
        BY <1>1, <2>1, <2>2 DEF IsLoop
    <2> HIDE DEF Body
    <2>4. QED
        BY <2>3
<1> HIDE DEF After
<1>7. After[0] = start /\ \A k \in 1..N : After[k] = Onward(After[k - 1], path[k])
    BY <1>1, <1>6
<1>8. \A k \in 0..N : After[k] \in X
    <2> DEFINE S == {k \in 0..N : After[k] \in X}
    <2>1. 0 \in S
        BY <1>1, <1>2, <1>7
    <2>2. ASSUME NEW k \in 1..N, k - 1 \in S PROVE k \in S
        BY <1>4, <1>7, <2>2
    <2> HIDE DEF S
    <2>3. \A k \in 0..N : k \in S
        BY <1>1, <2>1, <2>2, Induction
    <2>4. QED
        BY <2>3 DEF S
<1>9. QED
    BY <1>3, <1>7, <1>8 DEF N, X, start

\* Two ways that meet stay together for as long as the characters are the same.
LEMMA WaysMeet ==
    ASSUME NEW f \in Seq(Seq(Chars)), NEW t \in Seq(Chars), NEW j \in 0..Len(t),
           NEW g \in Seq(Seq(Chars)), NEW u \in Seq(Chars),
           NEW w \in 0..Len(u), j + w <= Len(t),
           Way(f, t)[j] = Way(g, u)[0],
           \A k \in 1..w : t[j + k] = u[k]
    PROVE  Way(f, t)[j + w] = Way(g, u)[w]
<1> DEFINE V(k) == Way(f, t)[k]
           W(k) == Way(g, u)[k]
           S == {k \in 0..w : V(j + k) = W(k)}
<1>1. w \in Nat /\ Len(t) \in Nat /\ Len(u) \in Nat /\ j \in Nat
    OBVIOUS
<1>2. \A k \in 1..Len(t) : V(k) = Onward(V(k - 1), t[k])
    BY WayIs
<1>3. \A k \in 1..Len(u) : W(k) = Onward(W(k - 1), u[k])
    BY WayIs
<1>4. V(j) = W(0)
    OBVIOUS
<1> HIDE DEF V, W
<1>5. 0 \in S
    BY <1>1, <1>4
<1>6. ASSUME NEW k \in 1..w, k - 1 \in S PROVE k \in S
    <2>1. j + k \in 1..Len(t) /\ k \in 1..Len(u) /\ (j + k) - 1 = j + (k - 1)
        BY <1>1
    <2>2. V(j + k) = Onward(V(j + (k - 1)), t[j + k])
        BY <1>2, <2>1
    <2>3. W(k) = Onward(W(k - 1), u[k])
        BY <1>3, <2>1
    <2>4. QED
        BY <1>6, <2>2, <2>3
<1> HIDE DEF S
<1>7. \A k \in 0..w : k \in S
    BY <1>1, <1>5, <1>6, Induction
<1>8. w \in S
    BY <1>1, <1>7
<1>9. QED
    BY <1>8 DEF S, V, W

\* Where a text leads from the root, and the last name of it.
Place(t) == Way(<< >>, t)[Len(t)]

\* From the root it does not matter whether the path is absolute.
LEMMA StartIsRoot ==
    ASSUME NEW t \in Seq(Chars)
    PROVE  /\ Way(<< >>, t)[0] = [dir |-> << >>, name |-> << >>]
           /\ Place(t) \in Spots /\ DirOf(<< >>, t) = Reached(Place(t))
<1>1. << >> \in Seq(Seq(Chars))
    OBVIOUS
<1>2. Way(<< >>, t)[0] = [dir |-> << >>, name |-> << >>]
    BY <1>1, WayIs
<1>3. Len(t) \in 0..Len(t)
    OBVIOUS
<1>4. QED
    BY <1>1, <1>2, <1>3, WayIs DEF Place, DirOf

\* A text that begins another leads as far as that one does after its length.
LEMMA PlaceOfPrefix ==
    ASSUME NEW t \in Seq(Chars), NEW u \in Seq(Chars), Len(u) <= Len(t),
           \A k \in 1..Len(u) : t[k] = u[k]
    PROVE  Way(<< >>, t)[Len(u)] = Place(u)
<1> DEFINE w == Len(u)
           j == 0
<1>1. << >> \in Seq(Seq(Chars)) /\ j \in 0..Len(t) /\ w \in 0..Len(u) /\ j + w <= Len(t)
    OBVIOUS
<1>2. Way(<< >>, t)[j] = Way(<< >>, u)[0]
    BY StartIsRoot
<1>3. \A k \in 1..w : t[j + k] = u[k]
    OBVIOUS
<1>4. Way(<< >>, t)[j + w] = Way(<< >>, u)[w]
    BY <1>1, <1>2, <1>3, WaysMeet
<1>5. j + w = w
    BY <1>1
<1>6. QED
    BY <1>4, <1>5 DEF Place

\* A character more.
LEMMA PlaceOfAppended ==
    ASSUME NEW t \in Seq(Chars), NEW c \in Chars
    PROVE  Place(Append(t, c)) = Onward(Place(t), c)
<1> DEFINE a == Append(t, c)
           w == Len(t)
<1>1. /\ a \in Seq(Chars) /\ w \in Nat /\ Len(a) = w + 1 /\ a[w + 1] = c
      /\ \A k \in 1..w : a[k] = t[k]
    OBVIOUS
<1>2. << >> \in Seq(Seq(Chars))
    OBVIOUS
<1> HIDE DEF a
<1>3. Way(<< >>, a)[w] = Place(t)
    BY <1>1, PlaceOfPrefix
<1>4. w + 1 \in 1..Len(a) /\ (w + 1) - 1 = w
    BY <1>1
<1> HIDE DEF w
<1>5. Way(<< >>, a)[w + 1] = Onward(Way(<< >>, a)[w], a[w + 1])
    BY <1>1, <1>2, <1>4, WayIs
<1>6. QED
    BY <1>1, <1>3, <1>5 DEF Place, a

\* A text to which a character has been added is not empty.
LEMMA AppendedIsNotEmpty ==
    ASSUME NEW t \in Seq(Chars), NEW c \in Chars
    PROVE  Append(t, c) # << >>
<1>1. PICK a : a = Append(t, c)
    OBVIOUS
<1>2. Len(a) = Len(t) + 1 /\ Len(t) \in Nat
    BY <1>1
<1>3. QED
    BY <1>1, <1>2

\* An absolute text whose last name is empty ends in a slash, and the reverse.
LEMMA EndsInSlash ==
    ASSUME NEW t \in Seq(Chars), NEW w, w = Len(t), w # 0
    PROVE  /\ (Place(t).name = << >>) <=> t[w] = "/"
           /\ w - 1 \in 0..Len(t)
           /\ Place(t) = Onward(Way(<< >>, t)[w - 1], t[w])
           /\ Way(<< >>, t)[w - 1] \in Spots
<1>1. w \in 1..Len(t) /\ w - 1 \in 0..Len(t) /\ t[w] \in Chars /\ << >> \in Seq(Seq(Chars))
    OBVIOUS
<1>2. PICK s \in Spots : s = Way(<< >>, t)[w - 1]
    BY <1>1, WayIs
<1>3. Place(t) = Onward(s, t[w])
    BY <1>1, <1>2, WayIs DEF Place
<1>4. Append(s.name, t[w]) # << >>
    <2>1. s.name \in Seq(Chars)
        BY DEF Spots
    <2>2. PICK m \in Seq(Chars) : m = s.name
        BY <2>1
    <2>3. Append(m, t[w]) # << >>
        BY <1>1, <2>2, AppendedIsNotEmpty
    <2>4. QED
        BY <2>2, <2>3
<1>5. t[w] = "/" => Onward(s, t[w]).name = << >>
    BY DEF Onward
<1>6. t[w] # "/" => Onward(s, t[w]).name = Append(s.name, t[w])
    BY DEF Onward
<1>7. QED
    BY <1>1, <1>2, <1>3, <1>4, <1>5, <1>6

\* A directory entered and left again.
LEMMA InAndOut ==
    ASSUME NEW d \in Seq(Seq(Chars)), NEW name \in Seq(Chars)
    PROVE  Append(d, name) # << >> /\ Front(Append(d, name)) = d
<1> DEFINE a == Append(d, name)
           w == Len(d)
<1>1. /\ a \in Seq(Seq(Chars)) /\ Len(a) = w + 1 /\ w \in Nat
      /\ \A k \in 1..w : a[k] = d[k]
    OBVIOUS
<1> HIDE DEF a
<1>2. a # << >>
    BY <1>1
<1>3. Front(a) = SubSeq(a, 1, w)
    BY <1>1 DEF Front
<1>4. SubSeq(a, 1, w) = d
    BY <1>1
<1>5. QED
    BY <1>2, <1>3, <1>4 DEF a

\* A name that does not end in a dot is neither . nor ..
LEMMA NoDotAtEnd ==
    ASSUME NEW name \in Seq(Chars), NEW c \in Chars, c # "."
    PROVE  Append(name, c) \notin {<< >>, <<".">>, <<".", ".">>}
<1> DEFINE a == Append(name, c)
<1>1. Len(a) = Len(name) + 1 /\ a[Len(a)] = c /\ Len(name) \in Nat
    OBVIOUS
<1>2. Len(<< >>) = 0 /\ Len(<<".">>) = 1 /\ Len(<<".", ".">>) = 2
    OBVIOUS
<1>3. <<".">>[1] = "." /\ <<".", ".">>[2] = "."
    OBVIOUS
<1> HIDE DEF a
<1>4. a # << >>
    BY <1>1, <1>2
<1>5. a # <<".">>
    BY <1>1, <1>2, <1>3
<1>6. a # <<".", ".">>
    BY <1>1, <1>2, <1>3
<1>7. QED
    BY <1>4, <1>5, <1>6 DEF a

\* No two slashes are next to each other.
OneSlash(t) == \A k \in 1..(Len(t) - 1) : ~(t[k] = "/" /\ t[k + 1] = "/")

\* A dot begins a name that goes on with another character, as far as can be seen.
NoDots(t) == \A k \in 1..(Len(t) - 1) : t[k] = "." => t[k + 1] \notin {".", "/"}

\* What .. leaves of the form: the directory around the one it led to.
LEMMA ParentIs ==
    ASSUME NEW path \in Seq(Chars), NEW s \in Scans(path), Rooted(s),
           s.form[Len(s.form)] = "/", OneSlash(s.form), NoDots(s.form)
    PROVE  \E f \in Seq(Chars) :
              /\ Parent(s) = [s EXCEPT !.i = s.i + 1, !.form = f]
              /\ f # << >> /\ f[Len(f)] = "/" /\ Len(f) <= Len(s.form)
              /\ \A k \in 1..Len(f) : f[k] = s.form[k]
              /\ Place(f) = [dir |-> Entered(Place(s.form).dir, <<".", ".">>), name |-> << >>]
<1> DEFINE kept == IF Len(s.form) = 1 THEN s.form ELSE Front(s.form)
           slashes == {k \in DOMAIN kept : kept[k] = "/"}
<1>1. PICK F \in Seq(Chars) : F = s.form
    BY DEF Scans
<1>2. PICK L \in Nat \ {0} : L = Len(F)
    BY <1>1 DEF Rooted
<1>3. F[1] = "/" /\ F[L] = "/" /\ F # << >> /\ OneSlash(F) /\ NoDots(F)
    BY <1>1, <1>2 DEF Rooted
<1>4. /\ kept \in Seq(Chars) /\ Len(kept) = (IF L = 1 THEN 1 ELSE L - 1)
      /\ \A k \in 1..Len(kept) : kept[k] = F[k]
    <2>1. CASE L = 1
        BY <1>1, <1>2, <2>1
    <2>2. CASE L # 1
        BY <1>1, <1>2, <1>3, <2>2, FrontOfText
    <2>3. QED
        BY <2>1, <2>2
<1>5. PICK K \in Nat \ {0} : K = Len(kept)
    BY <1>4
<1> HIDE DEF kept
<1>6. slashes \in SUBSET (0..K) /\ slashes \subseteq 1..K /\ 1 \in slashes
    BY <1>3, <1>4, <1>5
<1>7. Parent(s) = [s EXCEPT !.i = @ + 1, !.form = SubSeq(kept, 1, Max(slashes))]
    BY <1>1, <1>3, <1>6 DEF Parent, kept
<1>8. Max(slashes) \in slashes /\ \A y \in slashes : y <= Max(slashes)
    BY <1>5, <1>6, MaxIsGreatest
<1>9. PICK m : m = Max(slashes)
    OBVIOUS
<1>10. m \in slashes /\ \A y \in slashes : y <= m
    BY <1>8, <1>9
<1>11. m \in 1..K /\ F[m] = "/" /\ \A k \in (m + 1)..K : F[k] # "/"
    <2>1. m \in 1..K /\ kept[m] = "/"
        BY <1>5, <1>6, <1>10
    <2>2. ASSUME NEW k \in (m + 1)..K PROVE kept[k] # "/"
        <3>1. k \notin slashes /\ k \in 1..K
            BY <1>6, <1>10, <2>1
        <3>2. QED
            BY <1>4, <1>5, <3>1
    <2>3. QED
        BY <1>4, <1>5, <2>1, <2>2
<1> DEFINE f == SubSeq(kept, 1, m)
<1>12. f \in Seq(Chars) /\ Len(f) = m /\ \A k \in 1..m : f[k] = kept[k]
    BY <1>4, <1>5, <1>11
<1> HIDE DEF slashes
<1>13. Parent(s) = [s EXCEPT !.i = s.i + 1, !.form = f]
    BY <1>7, <1>9
<1> HIDE DEF f
<1>14. /\ f # << >> /\ f[Len(f)] = "/" /\ Len(f) <= L
       /\ \A k \in 1..Len(f) : f[k] = F[k]
    <2>1. m <= L /\ m # 0 /\ m \in 1..m
        BY <1>4, <1>5, <1>11
    <2>2. \A k \in 1..m : f[k] = F[k]
        BY <1>4, <1>5, <1>11, <1>12
    <2>3. QED
        BY <1>11, <1>12, <2>1, <2>2
<1>15. Place(f) = Way(<< >>, F)[m]
    BY <1>2, <1>12, <1>14, PlaceOfPrefix
<1> DEFINE V(k) == Way(<< >>, F)[k]
<1>16. /\ \A k \in 1..L : V(k) = Onward(V(k - 1), F[k])
       /\ \A k \in 0..L : V(k) \in Spots
       /\ V(0) = [dir |-> << >>, name |-> << >>]
       /\ Place(F) = V(L)
    <2>1. << >> \in Seq(Seq(Chars))
        OBVIOUS
    <2>2. QED
        BY <1>2, <2>1, WayIs, StartIsRoot DEF Place
<1> HIDE DEF V
<1>17. PICK d \in Seq(Seq(Chars)) : V(m) = [dir |-> d, name |-> << >>]
    <2>1. m \in 1..L /\ m - 1 \in 0..L
        BY <1>4, <1>5, <1>11
    <2>2. V(m) = Onward(V(m - 1), "/") /\ V(m - 1) \in Spots
        BY <1>11, <1>16, <2>1
    <2>3. QED
        BY <2>2, OneOnward, SlashAndDot
<1>18. Entered(Place(F).dir, <<".", ".">>) = d
    <2>1. CASE L = 1
        <3>1. m = 1
            BY <1>4, <1>5, <1>11, <2>1
        <3>2. V(1) = Onward(V(0), "/")
            BY <1>3, <1>16, <2>1
        <3>3. V(1) = [dir |-> << >>, name |-> << >>]
            BY <1>16, <3>2 DEF Onward, Reached, Entered
        <3>4. d = << >> /\ Place(F).dir = << >>
            BY <1>16, <1>17, <2>1, <3>1, <3>3
        <3>5. QED
            BY <3>4 DEF Entered
    <2>2. CASE L # 1
        <3>1. K = L - 1 /\ m \in 1..(L - 1)
            BY <1>2, <1>4, <1>5, <1>11, <2>2
        <3>2. m # L - 1
            <4>1. CASE m = L - 1
                <5>1. L - 1 \in 1..(L - 1) /\ (L - 1) + 1 = L
                    BY <3>1
                <5>2. F[L - 1] = "/" /\ F[L] = "/"
                    BY <1>3, <1>11, <4>1
                <5>3. QED
                    BY <1>2, <1>3, <5>1, <5>2 DEF OneSlash
            <4>2. QED
                BY <4>1
        <3> DEFINE S == {k \in 0..((L - 2) - m) : V(m + k).dir = d}
        <3>3. 0 \in S
            BY <1>17, <3>1, <3>2
        <3>4. ASSUME NEW k \in 1..((L - 2) - m), k - 1 \in S PROVE k \in S
            <4>1. m + k \in (m + 1)..K /\ m + k \in 1..L /\ (m + k) - 1 = m + (k - 1)
                BY <3>1
            <4>2. V(m + k) = Onward(V(m + (k - 1)), F[m + k]) /\ F[m + k] # "/"
                BY <1>11, <1>16, <4>1
            <4>3. V(m + k).dir = V(m + (k - 1)).dir
                BY <4>2 DEF Onward
            <4>4. QED
                BY <3>4, <4>3
        <3> HIDE DEF S
        <3>5. (L - 2) - m \in Nat
            BY <3>1, <3>2
        <3>6. \A k \in 0..((L - 2) - m) : k \in S
            BY <3>3, <3>4, <3>5, Induction
        <3>7. V(L - 2).dir = d
            <4>1. (L - 2) - m \in S /\ m + ((L - 2) - m) = L - 2
                BY <3>1, <3>5, <3>6
            <4>2. QED
                BY <4>1 DEF S
        <3>8. /\ L - 1 \in 1..L /\ (L - 1) - 1 = L - 2 /\ L - 2 \in 0..L
              /\ L \in 1..L /\ L - 1 \in (m + 1)..K /\ L - 1 \in 1..(L - 1) /\ (L - 1) + 1 = L
            BY <3>1, <3>2, <3>5
        <3>9. V(L - 1) = Onward(V(L - 2), F[L - 1]) /\ V(L - 2) \in Spots /\ F[L - 1] \in Chars
            BY <1>2, <1>16, <3>8
        <3>10. F[L - 1] # "/" /\ F[L - 1] # "."
            BY <1>2, <1>3, <1>11, <3>8 DEF NoDots
        <3>11. PICK name \in Seq(Chars) : name = V(L - 2).name
            BY <3>9 DEF Spots
        <3>12. V(L - 1) = [dir |-> d, name |-> Append(name, F[L - 1])]
            BY <3>7, <3>9, <3>10, <3>11, OneOnward
        <3>13. Append(name, F[L - 1]) \notin {<< >>, <<".">>, <<".", ".">>}
            BY <3>9, <3>10, NoDotAtEnd
        <3>14. Append(name, F[L - 1]) \in Seq(Chars)
            BY <3>9
        <3>15. Reached(V(L - 1)) = Append(d, Append(name, F[L - 1]))
            <4>1. PICK a : a = Append(name, F[L - 1])
                OBVIOUS
            <4>2. V(L - 1).dir = d /\ V(L - 1).name = a
                BY <3>12, <4>1
            <4>3. Entered(d, a) = Append(d, a)
                BY <3>13, <4>1 DEF Entered
            <4>4. QED
                BY <4>1, <4>2, <4>3 DEF Reached
        <3>16. V(L) = [dir |-> Reached(V(L - 1)), name |-> << >>]
            BY <1>3, <1>16, <3>8 DEF Onward
        <3>17. Place(F).dir = Append(d, Append(name, F[L - 1]))
            BY <1>16, <3>15, <3>16
        <3>18. PICK a : a = Append(name, F[L - 1])
            OBVIOUS
        <3>19. Append(d, a) # << >> /\ Front(Append(d, a)) = d
            BY <3>14, <3>18, InAndOut
        <3>20. <<".", ".">> \notin {<< >>, <<".">>}
            OBVIOUS
        <3>21. QED
            BY <3>17, <3>18, <3>19, <3>20 DEF Entered
    <2>3. QED
        BY <2>1, <2>2
<1>19. Place(f) = [dir |-> Entered(Place(F).dir, <<".", ".">>), name |-> << >>]
    BY <1>15, <1>17, <1>18 DEF V
<1>20. QED
    BY <1>1, <1>2, <1>12, <1>13, <1>14, <1>19

\* Paths whose dots and slashes are read for what they are.
Careful(path) == path \in Seq(Chars) /\ ~DotsMisread(path) /\ ~SlashKept(path)

\* Among the first q characters a slash has been kept that was one too many.
Kept(path, q) ==
    \E k \in DOMAIN path :
        k + 2 <= q /\ path[k] = "." /\ path[k + 1] = "/" /\ path[k + 2] = "/"

\* What F is like when the next character of the path is the i-th.
Written(path, i, F) ==
    /\ NoDots(F) /\ (OneSlash(F) \/ Kept(path, i - 1))
    /\ F # << >> /\ F[Len(F)] = "." => CharAt(path, i) \notin {Nul, "/", "."}
    /\ F # << >> /\ F[Len(F)] = "/" /\ CharAt(path, i) = "/" =>
          i > 2 /\ path[i - 1] = "/" /\ path[i - 2] = "."

\* F leads where the path does up to there; or the first dot of .. has been read and
\* F leads where the second one will; or nothing is left and both lead to the same.
Same(path, i, F) ==
    /\ Place(F) = Way(<< >>, path)[i - 1]
    /\ i > 1 /\ path[i - 1] = "." => CharAt(path, i) \notin {Nul, "/", "."}
Half(path, i, F) ==
    /\ CharAt(path, i) = "." /\ CharAt(path, i + 1) \in {Nul, "/"}
    /\ \E d \in Seq(Seq(Chars)) :
          /\ Way(<< >>, path)[i - 1] = [dir |-> d, name |-> <<".">>]
          /\ Place(F) = [dir |-> Entered(d, <<".", ".">>), name |-> << >>]
Over(path, i, F) ==
    i = Len(path) + 1 /\ Reached(Place(F)) = Reached(Way(<< >>, path)[i - 1])

Follows(path, i, F) ==
    /\ Written(path, i, F)
    /\ Same(path, i, F) \/ Half(path, i, F) \/ Over(path, i, F)

\* A character after the others of the form.
LEMMA AppendedForm ==
    ASSUME NEW F \in Seq(Chars), NEW c \in Chars
    PROVE  /\ Append(F, c) \in Seq(Chars) /\ Append(F, c) # << >>
           /\ Append(F, c)[Len(Append(F, c))] = c
           /\ NoDots(F) /\ (F # << >> /\ F[Len(F)] = "." => c \notin {".", "/"})
                 => NoDots(Append(F, c))
           /\ OneSlash(F) /\ (F # << >> /\ F[Len(F)] = "/" => c # "/")
                 => OneSlash(Append(F, c))
<1>1. PICK L \in Nat : L = Len(F)
    OBVIOUS
<1>2. PICK a : a = Append(F, c)
    OBVIOUS
<1>3. /\ a \in Seq(Chars) /\ Len(a) = L + 1 /\ a[L + 1] = c /\ \A k \in 1..L : a[k] = F[k]
      /\ L # 0 => F # << >>
    BY <1>1, <1>2
<1>4. \A k \in 1..((L + 1) - 1) : /\ k \in 1..L
                                 /\ \/ k \in 1..(L - 1) /\ k + 1 \in 1..L
                                    \/ k = L /\ L # 0
    OBVIOUS
<1>5. ASSUME NoDots(F), F # << >> /\ F[L] = "." => c \notin {".", "/"} PROVE NoDots(a)
    <2>1. SUFFICES ASSUME NEW k \in 1..((L + 1) - 1), a[k] = "." PROVE a[k + 1] \notin {".", "/"}
        BY <1>3 DEF NoDots
    <2>2. k \in 1..L /\ a[k] = F[k]
        BY <1>3, <1>4
    <2>3. CASE k \in 1..(L - 1) /\ k + 1 \in 1..L
        <3>1. F[k + 1] \notin {".", "/"} /\ a[k + 1] = F[k + 1]
            BY <1>1, <1>3, <1>5, <2>1, <2>2, <2>3 DEF NoDots
        <3>2. QED
            BY <3>1
    <2>4. CASE k = L /\ L # 0
        BY <1>3, <1>5, <2>1, <2>2, <2>4
    <2>5. QED
        BY <1>4, <2>1, <2>3, <2>4
<1>6. ASSUME OneSlash(F), F # << >> /\ F[L] = "/" => c # "/" PROVE OneSlash(a)
    <2>1. SUFFICES ASSUME NEW k \in 1..((L + 1) - 1), a[k] = "/" PROVE a[k + 1] # "/"
        BY <1>3 DEF OneSlash
    <2>2. k \in 1..L /\ a[k] = F[k]
        BY <1>3, <1>4
    <2>3. CASE k \in 1..(L - 1) /\ k + 1 \in 1..L
        <3>1. F[k + 1] # "/" /\ a[k + 1] = F[k + 1]
            BY <1>1, <1>3, <1>6, <2>1, <2>2, <2>3 DEF OneSlash
        <3>2. QED
            BY <3>1
    <2>4. CASE k = L /\ L # 0
        BY <1>3, <1>6, <2>1, <2>2, <2>4
    <2>5. QED
        BY <1>4, <2>1, <2>3, <2>4
<1>7. a # << >> /\ a[Len(a)] = c
    BY <1>1, <1>2, <1>3, AppendedIsNotEmpty
<1>8. QED
    BY <1>1, <1>2, <1>3, <1>5, <1>6, <1>7

\* Where the path leads, character by character.
LEMMA PathLeads ==
    ASSUME NEW path \in Seq(Chars), NEW i \in 1..Len(path)
    PROVE  /\ Way(<< >>, path)[i] = Onward(Way(<< >>, path)[i - 1], path[i])
           /\ Way(<< >>, path)[i - 1] \in Spots /\ Way(<< >>, path)[i] \in Spots
<1>1. << >> \in Seq(Seq(Chars)) /\ i - 1 \in 0..Len(path) /\ i \in 0..Len(path)
    OBVIOUS
<1>2. QED
    BY <1>1, WayIs

\* A slash too many stays one.
LEMMA KeptStays ==
    ASSUME NEW path \in Seq(Chars), NEW q \in Nat, NEW r \in Nat, q <= r, Kept(path, q)
    PROVE  Kept(path, r)
<1>1. DOMAIN path = 1..Len(path)
    OBVIOUS
<1>2. QED
    BY <1>1 DEF Kept

\* A character that is neither slash nor dot.
LEMMA LetterFollows ==
    ASSUME NEW path \in Seq(Chars), Careful(path), NEW i \in 1..Len(path), NEW F \in Seq(Chars),
           Follows(path, i, F), path[i] \notin {"/", "."}
    PROVE  Follows(path, i + 1, Append(F, path[i]))
<1> DEFINE c == path[i]
           G == Append(F, c)
<1>1. c \in Chars /\ CharAt(path, i) = c /\ c # Nul /\ i \in Nat /\ Len(path) \in Nat
    BY Character, NulIsNoCharacter
<1>2. Same(path, i, F)
    BY <1>1 DEF Follows, Half, Over
<1> HIDE DEF c
<1>3. Way(<< >>, path)[i] = Onward(Way(<< >>, path)[i - 1], c)
    BY PathLeads DEF c
<1>4. Place(G) = Onward(Place(F), c)
    BY <1>1, PlaceOfAppended
<1>5. c # "/" /\ c # "."
    BY DEF c
<1>6. G # << >> /\ G[Len(G)] = c /\ NoDots(G) /\ (OneSlash(F) => OneSlash(G))
    <2>1. NoDots(F)
        BY DEF Follows, Written
    <2>2. QED
        BY <1>1, <1>5, <2>1, AppendedForm
<1> HIDE DEF G
<1>7. Kept(path, i - 1) => Kept(path, i)
    BY <1>1, KeptStays
<1>8. Written(path, i + 1, G)
    <2>1. OneSlash(F) \/ Kept(path, i - 1)
        BY DEF Follows, Written
    <2>2. (i + 1) - 1 = i
        BY <1>1
    <2>3. OneSlash(G) \/ Kept(path, (i + 1) - 1)
        BY <1>6, <1>7, <2>1, <2>2
    <2>4. QED
        BY <1>5, <1>6, <2>3 DEF Written
<1>9. Same(path, i + 1, G)
    <2>1. (i + 1) - 1 = i /\ path[i] # "."
        BY <1>1
    <2>2. Place(G) = Way(<< >>, path)[i]
        BY <1>2, <1>3, <1>4 DEF Same
    <2>3. QED
        BY <2>1, <2>2 DEF Same
<1>10. QED
    BY <1>8, <1>9 DEF Follows, G, c

\* A run of slashes.
LEMMA SlashFollows ==
    ASSUME NEW path \in Seq(Chars), Careful(path), NEW i \in 1..Len(path), NEW F \in Seq(Chars),
           Follows(path, i, F), NEW e \in i..Len(path),
           \A m \in i..e : path[m] = "/", CharAt(path, e + 1) # "/"
    PROVE  Follows(path, e + 1, Append(F, "/"))
<1> DEFINE W(k) == Way(<< >>, path)[k]
           G == Append(F, "/")
<1>1. /\ i \in Nat /\ e \in Nat /\ Len(path) \in Nat /\ e \in 1..Len(path)
      /\ path[i] = "/" /\ path[e] = "/"
    OBVIOUS
<1>2. CharAt(path, i) = "/"
    BY <1>1, Character
<1>3. Same(path, i, F)
    <2>1. i # Len(path) + 1
        BY <1>1
    <2>2. QED
        BY <1>2, <2>1 DEF Follows, Half, Over
<1>4. \A k \in 1..Len(path) : W(k) = Onward(W(k - 1), path[k]) /\ W(k - 1) \in Spots /\ W(k) \in Spots
    BY PathLeads
<1>5. Place(G) = Onward(Place(F), "/")
    BY SlashAndDot, PlaceOfAppended
<1>6. Place(F) = W(i - 1)
    BY <1>3 DEF Same
<1> HIDE DEF W
<1>7. W(i) = Place(G)
    BY <1>1, <1>4, <1>5, <1>6
<1>8. W(i).name = << >>
    BY <1>1, <1>4 DEF Onward
<1>9. W(e) = W(i)
    <2> DEFINE S == {k \in 0..(e - i) : W(i + k) = W(i)}
    <2>1. 0 \in S /\ e - i \in Nat
        BY <1>1
    <2>2. ASSUME NEW k \in 1..(e - i), k - 1 \in S PROVE k \in S
        <3>1. i + k \in 1..Len(path) /\ i + k \in i..e /\ (i + k) - 1 = i + (k - 1)
            BY <1>1
        <3>2. W(i + k) = Onward(W(i), "/")
            BY <1>4, <2>2, <3>1
        <3>3. W(i) \in Spots
            BY <1>1, <1>4
        <3>4. W(i) = [dir |-> W(i).dir, name |-> << >>]
            BY <1>8, <3>3 DEF Spots
        <3>5. Onward(W(i), "/") = [dir |-> Reached(W(i)), name |-> << >>]
            BY <3>3, SlashAndDot, OneOnward
        <3>6. Reached(W(i)) = W(i).dir
            BY <1>8 DEF Reached, Entered
        <3>7. W(i + k) = W(i)
            BY <3>2, <3>4, <3>5, <3>6
        <3>8. QED
            BY <3>7
    <2> HIDE DEF S
    <2>3. \A k \in 0..(e - i) : k \in S
        BY <2>1, <2>2, Induction
    <2>4. e - i \in S /\ i + (e - i) = e
        BY <1>1, <2>1, <2>3
    <2>5. QED
        BY <2>4 DEF S
<1>10. /\ G # << >> /\ G[Len(G)] = "/" /\ NoDots(G)
       /\ OneSlash(F) /\ (F # << >> /\ F[Len(F)] = "/" => FALSE) => OneSlash(G)
    <2>1. NoDots(F) /\ (F # << >> => F[Len(F)] # ".")
        BY <1>2 DEF Follows, Written
    <2>2. QED
        BY <2>1, SlashAndDot, AppendedForm
<1> HIDE DEF G
<1>11. (e + 1) - 1 = e /\ i - 1 \in Nat /\ i - 1 <= e
    BY <1>1
<1>12. OneSlash(G) \/ Kept(path, e)
    <2>1. CASE OneSlash(F) /\ ~(F # << >> /\ F[Len(F)] = "/")
        BY <1>10, <2>1
    <2>2. CASE Kept(path, i - 1)
        BY <1>1, <1>11, <2>2, KeptStays
    <2>3. CASE F # << >> /\ F[Len(F)] = "/"
        <3>1. i > 2 /\ path[i - 1] = "/" /\ path[i - 2] = "."
            BY <1>2, <2>3 DEF Follows, Written
        <3>2. i - 2 \in DOMAIN path /\ (i - 2) + 2 <= e /\ (i - 2) + 1 = i - 1 /\ (i - 2) + 2 = i
            BY <1>1, <3>1
        <3>3. QED
            BY <1>1, <3>1, <3>2 DEF Kept
    <2>4. QED
        BY <2>1, <2>2, <2>3 DEF Follows, Written
<1>13. Written(path, e + 1, G)
    <2>1. OneSlash(G) \/ Kept(path, (e + 1) - 1)
        BY <1>11, <1>12
    <2>2. QED
        BY <1>10, <2>1 DEF Written
<1>14. Same(path, e + 1, G)
    <2>1. Place(G) = Way(<< >>, path)[(e + 1) - 1]
        BY <1>7, <1>9, <1>11 DEF W
    <2>2. path[(e + 1) - 1] # "."
        BY <1>1, <1>11
    <2>3. QED
        BY <2>1, <2>2 DEF Same
<1>15. QED
    BY <1>13, <1>14 DEF Follows, G

\* A dot that is not the second of .. begins a name, when a dot or the end of the
\* name follows it.
LEMMA DotBegins ==
    ASSUME NEW path \in Seq(Chars), Careful(path), NEW i \in 1..Len(path), NEW F \in Seq(Chars),
           Same(path, i, F), path[i] = ".", CharAt(path, i + 1) \in {Nul, "/", "."}
    PROVE  Place(F) \in Spots /\ Place(F).name = << >> /\ Place(F) = Way(<< >>, path)[i - 1]
<1>1. Place(F) = Way(<< >>, path)[i - 1]
    BY DEF Same
<1>2. /\ i \in Nat /\ Len(path) \in Nat /\ CharAt(path, i) = "."
    BY Character
<1>3. CASE i = 1
    <2>1. i - 1 = 0
        BY <1>3
    <2>2. Way(<< >>, path)[0] = [dir |-> << >>, name |-> << >>]
        BY StartIsRoot
    <2>3. QED
        BY <1>1, <2>1, <2>2, StartIsRoot
<1>4. CASE i # 1
    <2>1. PICK j \in 1..Len(path) : j = i - 1 /\ i \in 2..Len(path)
        BY <1>2, <1>4
    <2>2. path[j] = "/"
        <3>1. SUFFICES ASSUME path[j] # "/" PROVE FALSE
            OBVIOUS
        <3>2. path[i - 1] # "."
            BY <1>2, <1>4 DEF Same
        <3>3. CharAt(path, i - 1) = path[j] /\ path[j] # Nul
            BY <2>1, Character, NulIsNoCharacter
        <3>4. CharAt(path, i - 1) # "." /\ ~IsEnd(CharAt(path, i - 1))
            BY <2>1, <3>1, <3>2, <3>3 DEF IsEnd
        <3>5. i \in DOMAIN path /\ (CharAt(path, i + 1) = "." \/ IsEnd(CharAt(path, i + 1)))
            BY DEF IsEnd
        <3>6. QED
            BY <3>4, <3>5 DEF Careful, DotsMisread
    <2>3. Way(<< >>, path)[j].name = << >>
        <3>1. Way(<< >>, path)[j] = Onward(Way(<< >>, path)[j - 1], path[j])
            BY PathLeads
        <3>2. QED
            BY <2>2, <3>1 DEF Onward
    <2>4. QED
        BY <1>1, <2>1, <2>3, StartIsRoot
<1>5. QED
    BY <1>3, <1>4

\* A dot in the name of a file.
LEMMA DotFollows ==
    ASSUME NEW path \in Seq(Chars), Careful(path), NEW i \in 1..Len(path), NEW F \in Seq(Chars),
           Follows(path, i, F), path[i] = ".",
           CharAt(path, i + 1) \notin {Nul, "/", "."}
    PROVE  Follows(path, i + 1, Append(F, "."))
<1> DEFINE G == Append(F, ".")
<1>1. i \in Nat /\ Len(path) \in Nat /\ CharAt(path, i) = "." /\ i # Len(path) + 1
    BY Character
<1>2. Same(path, i, F)
    BY <1>1 DEF Follows, Half, Over
<1>3. Place(G) = Onward(Place(F), ".")
    BY SlashAndDot, PlaceOfAppended
<1>4. Way(<< >>, path)[i] = Onward(Way(<< >>, path)[i - 1], ".")
    BY PathLeads
<1>5. (i + 1) - 1 = i /\ i - 1 \in Nat /\ i - 1 <= i
    BY <1>1
<1>6. /\ G # << >> /\ G[Len(G)] = "." /\ NoDots(G) /\ (OneSlash(F) => OneSlash(G))
    <2>1. NoDots(F) /\ (F # << >> => F[Len(F)] # ".")
        BY <1>1 DEF Follows, Written
    <2>2. "." # "/"
        OBVIOUS
    <2>3. QED
        BY <2>1, <2>2, SlashAndDot, AppendedForm
<1> HIDE DEF G
<1>7. Written(path, i + 1, G)
    <2>1. OneSlash(F) \/ Kept(path, i - 1)
        BY DEF Follows, Written
    <2>2. Kept(path, i - 1) => Kept(path, i)
        BY <1>1, <1>5, KeptStays
    <2>3. OneSlash(G) \/ Kept(path, (i + 1) - 1)
        BY <1>5, <1>6, <2>1, <2>2
    <2>4. QED
        BY <1>6, <2>3 DEF Written
<1>8. Same(path, i + 1, G)
    <2>1. Place(G) = Way(<< >>, path)[(i + 1) - 1]
        BY <1>2, <1>3, <1>4, <1>5 DEF Same
    <2>2. QED
        BY <2>1 DEF Same
<1>9. QED
    BY <1>7, <1>8 DEF Follows, G

\* The second dot of ..
LEMMA SecondDot ==
    ASSUME NEW d
    PROVE  Reached(Onward([dir |-> d, name |-> <<".">>], ".")) = Entered(d, <<".", ".">>)
<1>1. PICK w : w = <<".">>
    OBVIOUS
<1>2. PICK m : m = <<".", ".">>
    OBVIOUS
<1>3. w \in Seq({"."}) /\ m \in Seq({"."})
    BY <1>1, <1>2
<1>4. Len(w) = 1 /\ w[1] = "." /\ Len(m) = 2 /\ m[1] = "." /\ m[2] = "."
    BY <1>1, <1>2
<1>5. Append(w, ".") = m
    BY <1>3, <1>4
<1>6. Onward([dir |-> d, name |-> w], ".") = [dir |-> d, name |-> Append(w, ".")]
    BY DEF Onward
<1>7. QED
    BY <1>1, <1>2, <1>5, <1>6 DEF Reached

\* A dot at the end of the path: the name . or, after another dot, the name ..
LEMMA LastDotFollows ==
    ASSUME NEW path \in Seq(Chars), Careful(path), NEW i \in 1..Len(path), NEW F \in Seq(Chars),
           Follows(path, i, F), path[i] = ".", CharAt(path, i + 1) = Nul
    PROVE  Follows(path, i + 1, F)
<1> DEFINE W(k) == Way(<< >>, path)[k]
<1>1. /\ i \in Nat /\ Len(path) \in Nat /\ CharAt(path, i) = "." /\ i # Len(path) + 1
      /\ (i + 1) - 1 = i
    BY Character
<1>2. i = Len(path)
    <2>1. i # Len(path) => i + 1 \in 1..Len(path)
        BY <1>1
    <2>2. i + 1 \in 1..Len(path) => CharAt(path, i + 1) \in Chars
        BY <1>1, Character
    <2>3. QED
        BY <2>1, <2>2, NulIsNoCharacter
<1>3. W(i) = Onward(W(i - 1), ".")
    BY PathLeads
<1>4. Reached(Place(F)) = Reached(W(i))
    <2>1. CASE Same(path, i, F)
        <3>1. PICK s \in Spots : s = Place(F) /\ s.name = << >> /\ s = W(i - 1)
            BY <2>1, DotBegins
        <3>2. W(i) = [dir |-> s.dir, name |-> Append(<< >>, ".")]
            BY <1>3, <3>1 DEF Onward
        <3>3. Append(<< >>, ".") = <<".">>
            OBVIOUS
        <3>4. Reached(W(i)) = s.dir /\ Reached(s) = s.dir
            BY <3>1, <3>2, <3>3 DEF Reached, Entered
        <3>5. QED
            BY <3>1, <3>4
    <2>2. CASE Half(path, i, F)
        <3>1. PICK d \in Seq(Seq(Chars)) :
                  /\ W(i - 1) = [dir |-> d, name |-> <<".">>]
                  /\ Place(F) = [dir |-> Entered(d, <<".", ".">>), name |-> << >>]
            BY <2>2 DEF Half
        <3>2. W(i) = Onward([dir |-> d, name |-> <<".">>], ".")
            BY <1>3, <3>1
        <3>4. Reached(W(i)) = Entered(d, <<".", ".">>)
            BY <3>2, SecondDot
        <3>5. PICK p : p = Entered(d, <<".", ".">>)
            OBVIOUS
        <3>6. Place(F).dir = p /\ Place(F).name = << >>
            BY <3>1, <3>5
        <3>7. Reached(Place(F)) = p
            BY <3>6 DEF Reached, Entered
        <3>8. QED
            BY <3>4, <3>5, <3>7
    <2>3. QED
        BY <1>1, <2>1, <2>2 DEF Follows, Over
<1>5. Over(path, i + 1, F)
    BY <1>1, <1>2, <1>4 DEF Over
<1>6. Written(path, i + 1, F)
    <2>1. /\ NoDots(F) /\ (OneSlash(F) \/ Kept(path, i - 1)) /\ (F # << >> => F[Len(F)] # ".")
        BY <1>1 DEF Follows, Written
    <2>2. i - 1 \in Nat /\ i - 1 <= i
        BY <1>1
    <2>3. Kept(path, i - 1) => Kept(path, (i + 1) - 1)
        BY <1>1, <2>2, KeptStays
    <2>4. CharAt(path, i + 1) # "/"
        BY NulIsNoCharacter
    <2>5. QED
        BY <2>1, <2>3, <2>4 DEF Written
<1>7. QED
    BY <1>5, <1>6 DEF Follows

\* A dot before a slash: both are skipped.
LEMMA SkippedDotFollows ==
    ASSUME NEW path \in Seq(Chars), Careful(path), NEW i \in 1..Len(path), NEW F \in Seq(Chars),
           Follows(path, i, F), path[i] = ".", CharAt(path, i + 1) = "/"
    PROVE  i + 2 \in 1..(Len(path) + 1) /\ Follows(path, i + 2, F)
<1> DEFINE W(k) == Way(<< >>, path)[k]
<1>1. /\ i \in Nat /\ Len(path) \in Nat /\ CharAt(path, i) = "." /\ i # Len(path) + 1
      /\ (i + 2) - 1 = i + 1 /\ (i + 1) - 1 = i /\ (i + 2) - 2 = i
    BY Character
<1>2. i + 1 \in 1..Len(path) /\ path[i + 1] = "/"
    <2>1. i + 1 \in Nat /\ CharAt(path, i + 1) # Nul
        BY <1>1, NulIsNoCharacter
    <2>2. i + 1 \in 1..Len(path)
        BY <2>1, Character
    <2>3. QED
        BY <2>1, <2>2, Character
<1>3. W(i) = Onward(W(i - 1), ".")
    BY PathLeads
<1>4. W(i + 1) = [dir |-> Reached(W(i)), name |-> << >>]
    <2>1. W(i + 1) = Onward(W((i + 1) - 1), path[i + 1])
        BY <1>2, PathLeads
    <2>2. QED
        BY <1>1, <1>2, <2>1 DEF Onward
<1>5. W(i + 1) = Place(F)
    <2>1. CASE Same(path, i, F)
        <3>1. PICK s \in Spots : s = Place(F) /\ s.name = << >> /\ s = W(i - 1)
            BY <2>1, DotBegins
        <3>2. W(i) = [dir |-> s.dir, name |-> Append(<< >>, ".")]
            BY <1>3, <3>1 DEF Onward
        <3>3. Append(<< >>, ".") = <<".">>
            OBVIOUS
        <3>4. Reached(W(i)) = s.dir
            BY <3>2, <3>3 DEF Reached, Entered
        <3>5. s = [dir |-> s.dir, name |-> << >>]
            BY <3>1 DEF Spots
        <3>6. QED
            BY <1>4, <3>1, <3>4, <3>5
    <2>2. CASE Half(path, i, F)
        <3>1. PICK d \in Seq(Seq(Chars)) :
                  /\ W(i - 1) = [dir |-> d, name |-> <<".">>]
                  /\ Place(F) = [dir |-> Entered(d, <<".", ".">>), name |-> << >>]
            BY <2>2 DEF Half
        <3>2. W(i) = Onward([dir |-> d, name |-> <<".">>], ".")
            BY <1>3, <3>1
        <3>4. Reached(W(i)) = Entered(d, <<".", ".">>)
            BY <3>2, SecondDot
        <3>5. QED
            BY <1>4, <3>1, <3>4
    <2>3. QED
        BY <1>1, <2>1, <2>2 DEF Follows, Over
<1>6. Same(path, i + 2, F)
    BY <1>1, <1>2, <1>5 DEF Same
<1>7. Written(path, i + 2, F)
    <2>1. /\ NoDots(F) /\ (OneSlash(F) \/ Kept(path, i - 1)) /\ (F # << >> => F[Len(F)] # ".")
        BY <1>1 DEF Follows, Written
    <2>2. i - 1 \in Nat /\ i + 1 \in Nat /\ i - 1 <= i + 1
        BY <1>1
    <2>3. Kept(path, i - 1) => Kept(path, (i + 2) - 1)
        BY <1>1, <2>2, KeptStays
    <2>4. i + 2 > 2 /\ path[(i + 2) - 1] = "/" /\ path[(i + 2) - 2] = "."
        BY <1>1, <1>2
    <2>5. QED
        BY <2>1, <2>3, <2>4 DEF Written
<1>8. i + 2 \in 1..(Len(path) + 1)
    BY <1>1, <1>2
<1>9. QED
    BY <1>6, <1>7, <1>8 DEF Follows

\* The first dot of .. takes the last directory away.
LEMMA ParentFollows ==
    ASSUME NEW path \in Seq(Chars), Careful(path), NEW s \in Scans(path), Rooted(s),
           s.i \in 1..Len(path), Follows(path, s.i, s.form),
           path[s.i] = ".", CharAt(path, s.i + 1) = "."
    PROVE  /\ CharAt(path, s.i + 2) \in {Nul, "/"}
           /\ \E f \in Seq(Chars) : /\ Parent(s) = [s EXCEPT !.i = s.i + 1, !.form = f]
                                    /\ Follows(path, s.i + 1, f)
<1> DEFINE W(k) == Way(<< >>, path)[k]
<1>1. PICK i \in 1..Len(path), F \in Seq(Chars) : i = s.i /\ F = s.form
    BY DEF Scans
<1>2. /\ i \in Nat /\ Len(path) \in Nat /\ CharAt(path, i) = "." /\ i # Len(path) + 1
      /\ (i + 1) - 1 = i /\ (i + 1) + 1 = i + 2 /\ path[i] = "."
    BY <1>1, Character
<1>3. i + 1 \in 1..Len(path) /\ path[i + 1] = "."
    <2>1. i + 1 \in Nat /\ CharAt(path, i + 1) # Nul
        BY <1>1, <1>2, NulIsNoCharacter
    <2>2. i + 1 \in 1..Len(path)
        BY <2>1, Character
    <2>3. QED
        BY <1>1, <2>1, <2>2, Character
<1>4. Same(path, i, F)
    <2>1. CharAt(path, i + 1) \notin {Nul, "/"}
        BY <1>1, NulIsNoCharacter
    <2>2. QED
        BY <1>1, <1>2, <2>1 DEF Follows, Half, Over
<1>5. CharAt(path, i + 2) \in {Nul, "/"}
    <2>1. i \in DOMAIN path /\ path[i] = "." /\ CharAt(path, i + 1) = "."
        BY <1>1, <1>2
    <2>2. CharAt(path, i - 1) # "."
        <3>1. SUFFICES ASSUME CharAt(path, i - 1) = "." PROVE FALSE
            OBVIOUS
        <3>2. i > 1 /\ path[i - 1] = "."
            <4>1. i - 1 \in 1..Len(path)
                BY <1>2, <3>1, Character, SlashAndDot, NulIsNoCharacter
            <4>2. QED
                BY <1>2, <3>1, <4>1, Character
        <3>3. QED
            BY <1>2, <1>4, <3>2 DEF Same
    <2>3. IsEnd(CharAt(path, i + 2))
        BY <2>1, <2>2 DEF Careful, DotsMisread
    <2>4. QED
        BY <2>3 DEF IsEnd
<1>6. PICK p \in Spots : p = Place(F) /\ p.name = << >> /\ p = W(i - 1)
    BY <1>1, <1>2, <1>4, DotBegins
<1>7. F # << >> /\ F[Len(F)] = "/"
    <2>1. F # << >>
        BY <1>1 DEF Rooted
    <2>2. PICK w : w = Len(F)
        OBVIOUS
    <2>3. w # 0
        BY <2>1, <2>2
    <2>4. QED
        BY <1>6, <2>1, <2>2, <2>3, EndsInSlash
<1>8. ~Kept(path, i - 1)
    <2>1. SUFFICES ASSUME NEW k \in DOMAIN path, k + 2 <= i - 1,
                          path[k] = ".", path[k + 1] = "/", path[k + 2] = "/"
                   PROVE  FALSE
        BY DEF Kept
    <2>2. k + 2 < i /\ i \in DOMAIN path /\ CharAt(path, i + 1) = "."
        BY <1>1, <1>2, <2>1
    <2>3. QED
        BY <1>2, <2>1, <2>2 DEF Careful, SlashKept
<1>9. OneSlash(F) /\ NoDots(F)
    BY <1>1, <1>8 DEF Follows, Written
<1>10. PICK f \in Seq(Chars) :
          /\ Parent(s) = [s EXCEPT !.i = s.i + 1, !.form = f]
          /\ f # << >> /\ f[Len(f)] = "/" /\ Len(f) <= Len(F)
          /\ \A k \in 1..Len(f) : f[k] = F[k]
          /\ Place(f) = [dir |-> Entered(p.dir, <<".", ".">>), name |-> << >>]
    <2>1. s.form[Len(s.form)] = "/" /\ OneSlash(s.form) /\ NoDots(s.form)
        BY <1>1, <1>7, <1>9
    <2>2. PICK f \in Seq(Chars) :
              /\ Parent(s) = [s EXCEPT !.i = s.i + 1, !.form = f]
              /\ f # << >> /\ f[Len(f)] = "/" /\ Len(f) <= Len(s.form)
              /\ \A k \in 1..Len(f) : f[k] = s.form[k]
              /\ Place(f) = [dir |-> Entered(Place(s.form).dir, <<".", ".">>), name |-> << >>]
        BY <2>1, ParentIs
    <2>3. Len(f) <= Len(F) /\ \A k \in 1..Len(f) : f[k] = F[k]
        BY <1>1, <2>2
    <2>4. Place(s.form).dir = p.dir
        BY <1>1, <1>6
    <2>5. QED
        BY <2>2, <2>3, <2>4
<1>11. NoDots(f) /\ OneSlash(f)
    <2>1. Len(f) \in Nat /\ Len(F) \in Nat
        OBVIOUS
    <2>2. ASSUME NEW k \in 1..(Len(f) - 1)
          PROVE  f[k] = F[k] /\ f[k + 1] = F[k + 1] /\ k \in 1..(Len(F) - 1)
        <3>1. k \in 1..Len(f) /\ k + 1 \in 1..Len(f) /\ k \in 1..(Len(F) - 1)
            BY <1>10, <2>1
        <3>2. QED
            BY <1>10, <3>1
    <2>3. QED
        BY <1>9, <2>2 DEF NoDots, OneSlash
<1>12. Half(path, i + 1, f)
    <2>1. W(i) = Onward(W(i - 1), ".")
        BY <1>2, PathLeads
    <2>2. W(i) = [dir |-> p.dir, name |-> <<".">>]
        <3>1. Append(<< >>, ".") = <<".">>
            OBVIOUS
        <3>2. QED
            BY <1>6, <2>1, <3>1 DEF Onward
    <2>3. p.dir \in Seq(Seq(Chars))
        BY DEF Spots
    <2>4. CharAt(path, i + 1) = "." /\ CharAt(path, (i + 1) + 1) \in {Nul, "/"}
        BY <1>1, <1>2, <1>5
    <2>5. Way(<< >>, path)[(i + 1) - 1] = [dir |-> p.dir, name |-> <<".">>]
        BY <1>2, <2>2
    <2>6. QED
        BY <1>10, <2>3, <2>4, <2>5 DEF Half
<1>13. Written(path, i + 1, f)
    <2>1. CharAt(path, i + 1) # "/"
        BY <1>1
    <2>2. QED
        BY <1>10, <1>11, <2>1 DEF Written
<1>14. QED
    BY <1>1, <1>5, <1>10, <1>12, <1>13 DEF Follows

\* A turn that goes on in the path, what has been written leading where it does.
GoesOn(path, s, t) ==
    t.bad = "no" /\ Rooted(t) /\ Follows(path, t.i, t.form) /\ t.i > s.i

\* A turn of the loop: what has been written leads where the path does, and the
\* turn goes on in it.
LEMMA TurnFollows ==
    ASSUME NEW path \in Seq(Chars), Careful(path), IsAbsolute(path), NEW s \in Scans(path),
           s.bad = "no", s.i = 1 \/ Rooted(s), s.i # 0, Follows(path, s.i, s.form)
    PROVE  \/ GoesOn(path, s, ProcessChar(path, s))
           \/ s.i = Len(path) + 1 /\ ProcessChar(path, s) = s
<1> DEFINE c == CharAt(path, s.i)
           t == ProcessChar(path, s)
<1>1. /\ s \in [i : Nat, form : Seq(Chars), bad : {"no", "none", "fault"}]
      /\ s.i \in Nat /\ s.i <= Len(path) + 1 /\ Len(path) \in Nat /\ s.form \in Seq(Chars)
      /\ Len(s.form) \in Nat /\ Len(s.form) < s.i
    BY DEF Scans
<1>2. CASE c = Nul
    <2>1. s.i = Len(path) + 1
        <3>1. s.i \in 1..Len(path) => c \in Chars
            BY <1>1, Character
        <3>2. QED
            BY <1>1, <1>2, <3>1, NulIsNoCharacter
    <2>2. t = s
        BY <1>2 DEF ProcessChar
    <2>3. QED
        BY <2>1, <2>2
<1>3. ASSUME c # Nul PROVE s.i \in 1..Len(path) /\ c = path[s.i] /\ c \in Chars
    BY <1>1, <1>3, Character
<1>4. CASE c = "/"
    <2>1. s.i \in 1..Len(path) /\ path[s.i] = "/"
        BY <1>3, <1>4, NulIsNoCharacter
    <2> DEFINE S == {k \in s.i..Len(path) : \A m \in s.i..k : path[m] = "/"}
    <2>2. S \in SUBSET (0..Len(path)) /\ s.i \in S
        BY <1>1, <2>1
    <2>3. Max(S) \in S /\ \A y \in S : y <= Max(S)
        BY <1>1, <2>2, MaxIsGreatest
    <2>4. PICK e : e = Max(S)
        OBVIOUS
    <2>5. e \in s.i..Len(path) /\ (\A m \in s.i..e : path[m] = "/") /\ \A y \in S : y <= e
        BY <2>3, <2>4
    <2>6. CharAt(path, e + 1) # "/"
        <3>1. SUFFICES ASSUME CharAt(path, e + 1) = "/" PROVE FALSE
            OBVIOUS
        <3>2. e + 1 \in Nat /\ e \in Nat
            BY <1>1, <2>5
        <3>3. e + 1 \in 1..Len(path) /\ path[e + 1] = "/"
            BY <3>1, <3>2, Character, NulIsNoCharacter
        <3>4. \A m \in s.i..(e + 1) : m \in s.i..e \/ m = e + 1
            BY <1>1, <3>2
        <3>5. e + 1 \in S
            BY <1>1, <2>5, <3>3, <3>4
        <3>6. QED
            BY <2>5, <3>2, <3>5
    <2> HIDE DEF S
    <2>7. t = [s EXCEPT !.i = e + 1, !.form = Append(s.form, "/")]
        BY <1>4, <2>4, NulIsNoCharacter DEF ProcessChar, ProcessSlash, S
    <2>8. Follows(path, e + 1, Append(s.form, "/"))
        BY <1>1, <2>1, <2>5, <2>6, SlashFollows
    <2>9. t.bad = "no" /\ t.i = e + 1 /\ t.form = Append(s.form, "/")
        BY <1>1, <2>7
    <2>10. e + 1 > s.i
        BY <1>1, <2>5
    <2>11. Rooted(t)
        <3>1. CASE Rooted(s)
            BY <3>1, RootedStays
        <3>2. CASE s.i = 1
            <4>1. s.form = << >>
                BY <1>1, <3>2
            <4>2. Append(<< >>, "/") # << >> /\ Append(<< >>, "/")[1] = "/"
                OBVIOUS
            <4>3. QED
                BY <2>9, <4>1, <4>2 DEF Rooted
        <3>3. QED
            BY <3>1, <3>2
    <2>12. QED
        BY <2>8, <2>9, <2>10, <2>11 DEF GoesOn
<1>5. ASSUME c # Nul, c # "/" PROVE Rooted(s)
    <2>1. s.i # 1
        BY <1>5 DEF IsAbsolute
    <2>2. QED
        BY <2>1
<1>6. CASE c = "."
    <2>1. s.i \in 1..Len(path) /\ path[s.i] = "." /\ Rooted(s)
        BY <1>3, <1>5, <1>6, NulIsNoCharacter
    <2>2. Rooted(t)
        BY <2>1, RootedStays
    <2>3. t = ProcessDot(path, s)
        BY <1>6, NulIsNoCharacter DEF ProcessChar
    <2>4. CASE CharAt(path, s.i + 1) = Nul
        <3>1. t = [s EXCEPT !.i = s.i + 1]
            BY <2>3, <2>4 DEF ProcessDot
        <3>2. t.bad = "no" /\ t.i = s.i + 1 /\ t.form = s.form
            BY <1>1, <3>1
        <3>3. Follows(path, s.i + 1, s.form)
            BY <1>1, <2>1, <2>4, LastDotFollows
        <3>4. QED
            BY <1>1, <2>2, <3>2, <3>3 DEF GoesOn
    <2>5. CASE CharAt(path, s.i + 1) = "/"
        <3>1. t = [s EXCEPT !.i = s.i + 2]
            BY <2>3, <2>5, NulIsNoCharacter DEF ProcessDot
        <3>2. t.bad = "no" /\ t.i = s.i + 2 /\ t.form = s.form
            BY <1>1, <3>1
        <3>3. Follows(path, s.i + 2, s.form)
            BY <1>1, <2>1, <2>5, SkippedDotFollows
        <3>4. QED
            BY <1>1, <2>2, <3>2, <3>3 DEF GoesOn
    <2>6. CASE CharAt(path, s.i + 1) \notin {Nul, "/", "."}
        <3>1. t = [s EXCEPT !.i = s.i + 1, !.form = Append(s.form, ".")]
            BY <2>3, <2>6 DEF ProcessDot
        <3>2. t.bad = "no" /\ t.i = s.i + 1 /\ t.form = Append(s.form, ".")
            BY <1>1, <3>1
        <3>3. Follows(path, s.i + 1, Append(s.form, "."))
            BY <1>1, <2>1, <2>6, DotFollows
        <3>4. QED
            BY <1>1, <2>2, <3>2, <3>3 DEF GoesOn
    <2>7. CASE CharAt(path, s.i + 1) = "."
        <3>1. /\ CharAt(path, s.i + 2) \in {Nul, "/"}
              /\ \E f \in Seq(Chars) : /\ Parent(s) = [s EXCEPT !.i = s.i + 1, !.form = f]
                                       /\ Follows(path, s.i + 1, f)
            BY <2>1, <2>7, ParentFollows
        <3>2. PICK f \in Seq(Chars) : /\ Parent(s) = [s EXCEPT !.i = s.i + 1, !.form = f]
                                      /\ Follows(path, s.i + 1, f)
            BY <3>1
        <3>3. t = [s EXCEPT !.i = s.i + 1, !.form = f]
            BY <2>3, <2>7, <3>1, <3>2, NulIsNoCharacter DEF ProcessDot
        <3>4. t.bad = "no" /\ t.i = s.i + 1 /\ t.form = f
            BY <1>1, <3>3
        <3>5. QED
            BY <1>1, <2>2, <3>2, <3>4 DEF GoesOn
    <2>8. QED
        BY <2>4, <2>5, <2>6, <2>7
<1>7. CASE c \notin {Nul, "/", "."}
    <2>1. s.i \in 1..Len(path) /\ c = path[s.i] /\ Rooted(s)
        BY <1>3, <1>5, <1>7
    <2>2. Rooted(t)
        BY <2>1, RootedStays
    <2>3. t = [s EXCEPT !.i = s.i + 1, !.form = Append(s.form, path[s.i])]
        BY <1>7, <2>1 DEF ProcessChar
    <2>4. t.bad = "no" /\ t.i = s.i + 1 /\ t.form = Append(s.form, path[s.i])
        BY <1>1, <2>3
    <2>5. Follows(path, s.i + 1, Append(s.form, path[s.i]))
        BY <1>1, <1>7, <2>1, LetterFollows
    <2>6. QED
        BY <1>1, <2>2, <2>4, <2>5 DEF GoesOn
<1>8. QED
    BY <1>2, <1>4, <1>6, <1>7

\* A slash at the end of a text changes neither where it leads nor its names.
LEMMA WithoutLastSlash ==
    ASSUME NEW F \in Seq(Chars), F # << >>, F[1] = "/", NoDots(F), F[Len(F)] # "."
    PROVE  /\ DirOf(<< >>, SkipLastSlash(F)) = Reached(Place(F))
           /\ IsAbsolute(SkipLastSlash(F)) /\ HasNoDots(SkipLastSlash(F))
<1> DEFINE G == SkipLastSlash(F)
<1>1. PICK L \in Nat \ {0} : L = Len(F)
    OBVIOUS
<1>2. CASE L = 1 \/ F[L] # "/"
    <2>1. G = F
        BY <1>1, <1>2 DEF SkipLastSlash, Last
    <2>2. DirOf(<< >>, F) = Reached(Place(F))
        BY StartIsRoot
    <2>3. IsAbsolute(F)
        BY <1>1 DEF IsAbsolute, CharAt
    <2>4. ASSUME NEW k \in DOMAIN F, F[k] = "."
          PROVE  CharAt(F, k + 1) # "." /\ ~IsEnd(CharAt(F, k + 1))
        <3>1. k \in 1..(L - 1) /\ k + 1 \in Nat /\ k + 1 \in 1..L
            BY <1>1, <2>4
        <3>2. F[k + 1] \notin {".", "/"}
            BY <1>1, <2>4, <3>1 DEF NoDots
        <3>3. CharAt(F, k + 1) = F[k + 1] /\ F[k + 1] \in Chars
            BY <1>1, <3>1, Character
        <3>4. QED
            BY <3>2, <3>3, NulIsNoCharacter DEF IsEnd
    <2>5. QED
        BY <2>1, <2>2, <2>3, <2>4 DEF HasNoDots
<1>3. CASE L # 1 /\ F[L] = "/"
    <2>1. G = Front(F)
        BY <1>1, <1>3 DEF SkipLastSlash, Last
    <2>2. G \in Seq(Chars) /\ Len(G) = L - 1 /\ \A k \in 1..(L - 1) : G[k] = F[k]
        BY <1>1, <2>1, FrontOfText
    <2> HIDE DEF G
    <2>3. Way(<< >>, F)[L - 1] = Place(G)
        BY <1>1, <2>2, PlaceOfPrefix
    <2>4. Place(F) = Onward(Way(<< >>, F)[L - 1], "/") /\ Way(<< >>, F)[L - 1] \in Spots
        BY <1>1, <1>3, EndsInSlash
    <2>5. Reached(Place(F)) = Reached(Place(G))
        <3>1. PICK d : d = Reached(Place(G))
            OBVIOUS
        <3>2. Place(F) = [dir |-> d, name |-> << >>]
            BY <2>3, <2>4, <3>1 DEF Onward
        <3>3. Reached(Place(F)) = d
            BY <3>2 DEF Reached, Entered
        <3>4. QED
            BY <3>1, <3>3
    <2>6. DirOf(<< >>, G) = Reached(Place(G))
        BY <2>2, StartIsRoot
    <2>7. IsAbsolute(G)
        <3>1. 1 \in 1..(L - 1) /\ 1 \in DOMAIN G
            BY <1>1, <1>3, <2>2, FirstIsLeft
        <3>2. QED
            BY <2>2, <3>1 DEF IsAbsolute, CharAt
    <2>8. ASSUME NEW k \in DOMAIN G, G[k] = "."
          PROVE  CharAt(G, k + 1) # "." /\ ~IsEnd(CharAt(G, k + 1))
        <3>1. k \in 1..(L - 1) /\ k + 1 \in Nat
            BY <1>1, <2>2
        <3>2. F[k + 1] \notin {".", "/"}
            BY <1>1, <2>2, <2>8, <3>1 DEF NoDots
        <3>3. k # L - 1
            <4>1. CASE k = L - 1
                <5>1. k + 1 = L
                    BY <1>1, <4>1
                <5>2. QED
                    BY <1>3, <3>2, <5>1
            <4>2. QED
                BY <4>1
        <3>4. k + 1 \in 1..(L - 1)
            BY <1>1, <3>1, <3>3
        <3>5. CharAt(G, k + 1) = G[k + 1] /\ G[k + 1] \in Chars /\ G[k + 1] = F[k + 1]
            BY <2>2, <3>1, <3>4, Character
        <3>6. QED
            BY <3>2, <3>5, NulIsNoCharacter DEF IsEnd
    <2>9. QED
        BY <2>5, <2>6, <2>7, <2>8 DEF HasNoDots, G
<1>4. QED
    BY <1>2, <1>3

\* The canonical form of an absolute path leads where the path does, and none of its
\* names is . or .., whatever the path is: only names with dots in them and a slash
\* too many before a .. are not read for what they are.
THEOREM CanonicalFormLeads ==
    ASSUME NEW path \in Seq(Chars)
    PROVE  CanonicalFormIsRight(path)
<1> DEFINE N == Len(path)
           start == [i |-> 1, form |-> << >>, bad |-> "no"]
           r == GetPathCanonicalForm(path)
<1>1. SUFFICES ASSUME IsAbsolute(path), ~DotsMisread(path), ~SlashKept(path)
               PROVE  /\ r.bad = "no" /\ IsAbsolute(r.text)
                      /\ DirOf(<< >>, r.text) = DirOf(<< >>, path)
                      /\ HasNoDots(r.text)
    BY CanonicalFormIsAbsolute DEF CanonicalFormIsRight
<1>2. Careful(path)
    BY <1>1 DEF Careful
<1>3. PICK h \in [0..N -> Scans(path)] :
          /\ h[0] = start
          /\ \A k \in 1..N : h[k] = ProcessChar(path, h[k - 1])
          /\ r = LET end == h[N]
                 IN IF end.bad # "no" THEN [bad |-> end.bad, text |-> << >>]
                    ELSE IF end.form = << >> THEN [bad |-> "fault", text |-> << >>]
                    ELSE [bad |-> "no", text |-> SkipLastSlash(end.form)]
    BY FormIsComputed
<1>4. N \in Nat /\ N # 0
    BY <1>1, NulIsNoCharacter, Character DEF IsAbsolute
<1> DEFINE Fine(s) == s.bad = "no" /\ (s.i = 1 \/ Rooted(s)) /\ Follows(path, s.i, s.form)
           S == {k \in 0..N : Fine(h[k]) /\ h[k].i > k}
<1>5. Fine(start) /\ start.i > 0
    <2>1. NoDots(<< >>) /\ OneSlash(<< >>)
        BY DEF NoDots, OneSlash
    <2>2. Written(path, 1, << >>)
        BY <2>1 DEF Written
    <2>3. << >> \in Seq(Chars) /\ Len(<< >>) = 0
        OBVIOUS
    <2>4. Place(<< >>) = Way(<< >>, << >>)[0]
        BY <2>3 DEF Place
    <2>5. Place(<< >>) = Way(<< >>, path)[0]
        BY <2>3, <2>4, StartIsRoot
    <2>6. Same(path, 1, << >>)
        BY <2>5 DEF Same
    <2>7. start.bad = "no" /\ start.i = 1 /\ start.form = << >>
        OBVIOUS
    <2> HIDE DEF start
    <2>8. Follows(path, start.i, start.form)
        BY <2>2, <2>6, <2>7 DEF Follows
    <2>9. QED
        BY <2>7, <2>8
<1> HIDE DEF start, r
<1>6. 0 \in S
    BY <1>3, <1>4, <1>5
<1>7. ASSUME NEW k \in 1..N, k - 1 \in S PROVE k \in S
    <2>1. PICK s \in Scans(path) : s = h[k - 1]
        BY <1>3
    <2>2. Fine(s) /\ s.i > k - 1 /\ s.i \in Nat
        BY <1>7, <2>1 DEF Scans
    <2>3. PICK t \in Scans(path) : t = h[k] /\ t = ProcessChar(path, s)
        BY <1>3, <2>1
    <2>4. GoesOn(path, s, t) \/ (s.i = N + 1 /\ t = s)
        <3>1. s.i # 0
            BY <2>2
        <3>2. QED
            BY <1>1, <1>2, <2>2, <2>3, <3>1, TurnFollows
    <2>5. t.i \in Nat
        BY DEF Scans
    <2>6. t.i > k
        BY <1>4, <2>2, <2>4, <2>5 DEF GoesOn
    <2>7. Fine(t)
        BY <2>2, <2>4 DEF GoesOn
    <2>8. QED
        BY <2>3, <2>6, <2>7
<1> HIDE DEF S
<1>8. \A k \in 0..N : k \in S
    BY <1>4, <1>6, <1>7, Induction
<1>9. PICK s \in Scans(path) : s = h[N]
    BY <1>3, <1>4
<1>10. Fine(s) /\ s.i > N
    BY <1>4, <1>8, <1>9 DEF S
<1>11. s.i = N + 1 /\ s.form \in Seq(Chars) /\ (N + 1) - 1 = N /\ s.i # 1
    BY <1>4, <1>10 DEF Scans
<1>12. s.form # << >> /\ s.form[1] = "/" /\ Follows(path, N + 1, s.form)
    BY <1>10, <1>11 DEF Rooted
<1>13. r.bad = "no" /\ r.text = SkipLastSlash(s.form)
    BY <1>3, <1>9, <1>10, <1>12
<1>14. CharAt(path, N + 1) = Nul
    <2>1. N + 1 \in Nat /\ N + 1 \notin 1..Len(path)
        BY <1>4
    <2>2. QED
        BY <2>1, Character
<1>15. NoDots(s.form) /\ s.form[Len(s.form)] # "."
    BY <1>12, <1>14 DEF Follows, Written
<1>16. Reached(Place(s.form)) = Reached(Way(<< >>, path)[N])
    <2>1. ~Half(path, N + 1, s.form)
        BY <1>14, NulIsNoCharacter DEF Half
    <2>2. QED
        BY <1>11, <1>12, <2>1 DEF Follows, Same, Over
<1>17. DirOf(<< >>, path) = Reached(Way(<< >>, path)[N])
    BY DEF DirOf
<1>18. PICK F : F = s.form
    OBVIOUS
<1>19. /\ DirOf(<< >>, SkipLastSlash(F)) = Reached(Place(F))
       /\ IsAbsolute(SkipLastSlash(F)) /\ HasNoDots(SkipLastSlash(F))
    BY <1>11, <1>12, <1>15, <1>18, WithoutLastSlash
<1>20. QED
    BY <1>13, <1>16, <1>17, <1>18, <1>19

--------------------------------------------------------------------------------
(* The environment and the directory                                           *)

\* A list of variables, whatever their values are.
IsEnv(l) == \E V : l \in Seq([key : Names, val : V])

IsSequence(s) == \E S : s \in Seq(S)

\* search_node returns the first entry of the name.
LEMMA SearchNodeIsFirst ==
    ASSUME NEW l, IsSequence(l), NEW k, Positions(l, k) # {}
    PROVE  /\ SearchNode(l, k) \in 1..Len(l)
           /\ l[SearchNode(l, k)].key = k
           /\ \A i \in 1..Len(l) : l[i].key = k => SearchNode(l, k) <= i
<1>1. DOMAIN l = 1..Len(l) /\ Len(l) \in Nat
    BY DEF IsSequence
<1>2. Positions(l, k) \in SUBSET Nat
    BY <1>1 DEF Positions
<1>3. /\ SearchNode(l, k) \in Positions(l, k)
      /\ \A y \in Positions(l, k) : SearchNode(l, k) <= y
    BY <1>2, MinIsLeast DEF SearchNode
<1>4. QED
    BY <1>1, <1>3 DEF Positions

\* The first entry of a name is the one search_node returns.
LEMMA FirstIsSearchNode ==
    ASSUME NEW l, IsSequence(l), NEW k, NEW p \in 1..Len(l), l[p].key = k,
           \A i \in 1..Len(l) : l[i].key = k => p <= i
    PROVE  Positions(l, k) # {} /\ SearchNode(l, k) = p
<1>1. DOMAIN l = 1..Len(l) /\ Len(l) \in Nat
    BY DEF IsSequence
<1>2. p \in Positions(l, k)
    BY <1>1 DEF Positions
<1>3. /\ SearchNode(l, k) \in 1..Len(l) /\ l[SearchNode(l, k)].key = k
      /\ SearchNode(l, k) <= p
    BY <1>2, SearchNodeIsFirst
<1>4. p <= SearchNode(l, k)
    BY <1>3
<1>5. QED
    BY <1>1, <1>2, <1>3, <1>4

\* What View shows is what EnvGet returns.
LEMMA GetView ==
    ASSUME NEW l, NEW k \in Names
    PROVE  /\ View(l)[k].there <=> Positions(l, k) # {}
           /\ Positions(l, k) = {} => View(l)[k] = Absent /\ EnvGet(l, k) = NULL
           /\ Positions(l, k) # {} => View(l)[k] = Present(EnvGet(l, k))
<1>1. CASE Positions(l, k) = {}
    BY <1>1 DEF View, EnvGet, Absent
<1>2. CASE Positions(l, k) # {}
    BY <1>2 DEF View, EnvGet, Present
<1>3. QED
    BY <1>1, <1>2

\* An environment is a sequence of entries with names.
LEMMA EnvIsSequence ==
    ASSUME NEW l, IsEnv(l)
    PROVE  /\ IsSequence(l)
           /\ Len(l) \in Nat /\ DOMAIN l = 1..Len(l)
           /\ \A i \in 1..Len(l) : DOMAIN l[i] = {"key", "val"} /\ l[i].key \in Names
<1>1. PICK V : l \in Seq([key : Names, val : V])
    BY DEF IsEnv
<1>2. IsSequence(l) /\ Len(l) \in Nat /\ DOMAIN l = 1..Len(l)
    BY <1>1 DEF IsSequence
<1>3. \A i \in 1..Len(l) : l[i] \in [key : Names, val : V]
    BY <1>1, ElementOfSeq
<1>4. QED
    BY <1>2, <1>3

\* env_add at the end of the list.
LEMMA AddIsEnv ==
    ASSUME NEW l, IsEnv(l), NEW k \in Names, NEW v
    PROVE  /\ IsEnv(EnvAdd(l, k, v))
           /\ Len(EnvAdd(l, k, v)) = Len(l) + 1
           /\ \A i \in 1..Len(l) : EnvAdd(l, k, v)[i] = l[i]
           /\ EnvAdd(l, k, v)[Len(l) + 1] = Entry(k, v)
<1>1. PICK V : l \in Seq([key : Names, val : V])
    BY DEF IsEnv
<1> DEFINE W == V \cup {v}
<1>2. l \in Seq([key : Names, val : W])
    <2>1. [key : Names, val : V] \subseteq [key : Names, val : W]
        OBVIOUS
    <2>2. QED
        BY <1>1, <2>1, SeqMonotonic
<1>3. Entry(k, v) \in [key : Names, val : W]
    BY DEF Entry
<1> HIDE DEF W
<1>4. EnvAdd(l, k, v) \in Seq([key : Names, val : W])
    BY <1>2, <1>3 DEF EnvAdd
<1>5. IsEnv(EnvAdd(l, k, v))
    BY <1>4 DEF IsEnv
<1>6. QED
    BY <1>2, <1>3, <1>5 DEF EnvAdd

\* A name that is added for the first time is found, and nothing else changes.
LEMMA AddView ==
    ASSUME NEW l, IsEnv(l), NEW k \in Names, NEW v, Positions(l, k) = {}
    PROVE  /\ View(EnvAdd(l, k, v)) = [View(l) EXCEPT ![k] = Present(v)]
           /\ NamesOnce(l) => NamesOnce(EnvAdd(l, k, v))
<1> DEFINE m == EnvAdd(l, k, v)
<1>1. /\ IsEnv(m) /\ Len(m) = Len(l) + 1 /\ Len(l) \in Nat
      /\ \A i \in 1..Len(l) : m[i] = l[i]
      /\ m[Len(l) + 1] = Entry(k, v)
    BY AddIsEnv, EnvIsSequence
<1>2. /\ IsSequence(m) /\ DOMAIN m = 1..(Len(l) + 1)
      /\ IsSequence(l) /\ DOMAIN l = 1..Len(l)
    BY <1>1, EnvIsSequence
<1>3. \A i \in 1..Len(l) : l[i].key # k
    BY <1>2 DEF Positions
<1>4. m[Len(l) + 1].key = k /\ m[Len(l) + 1].val = v
    BY <1>1 DEF Entry
<1> HIDE DEF m
<1>5. Positions(m, k) # {} /\ SearchNode(m, k) = Len(l) + 1
    BY <1>1, <1>2, <1>3, <1>4, FirstIsSearchNode
<1>6. ASSUME NEW j \in Names, j # k
      PROVE  View(m)[j] = View(l)[j]
    <2>1. CASE Positions(l, j) = {}
        <3>1. Positions(m, j) = {}
            BY <1>1, <1>2, <1>4, <1>6, <2>1 DEF Positions
        <3>2. QED
            BY <2>1, <3>1 DEF View
    <2>2. CASE Positions(l, j) # {}
        <3> DEFINE p == SearchNode(l, j)
        <3>1. /\ p \in 1..Len(l) /\ l[p].key = j
              /\ \A i \in 1..Len(l) : l[i].key = j => p <= i
            BY <1>2, <2>2, SearchNodeIsFirst
        <3> HIDE DEF p
        <3>2. p \in 1..Len(m) /\ m[p].key = j /\ m[p] = l[p]
            BY <1>1, <3>1
        <3>3. \A i \in 1..Len(m) : m[i].key = j => p <= i
            BY <1>1, <1>4, <1>6, <3>1
        <3>4. Positions(m, j) # {} /\ SearchNode(m, j) = p
            BY <1>2, <3>2, <3>3, FirstIsSearchNode
        <3>5. QED
            BY <2>2, <3>2, <3>4 DEF View, p
    <2>3. QED
        BY <2>1, <2>2
<1>7. View(m) = [View(l) EXCEPT ![k] = Present(v)]
    <2>1. View(m)[k] = Present(v)
        BY <1>4, <1>5 DEF View
    <2>2. QED
        BY <1>6, <2>1 DEF View
<1>8. NamesOnce(l) => NamesOnce(m)
    BY <1>1, <1>2, <1>3, <1>4 DEF NamesOnce
<1>9. QED
    BY <1>7, <1>8 DEF m

\* env_update of a name that is there: the value of its first entry changes.
LEMMA ReplaceView ==
    ASSUME NEW l, IsEnv(l), NEW k \in Names, NEW v, ~v.null, Positions(l, k) # {}
    PROVE  /\ IsEnv(EnvUpdate(l, k, v))
           /\ View(EnvUpdate(l, k, v)) = [View(l) EXCEPT ![k] = Present(v)]
           /\ NamesOnce(l) => NamesOnce(EnvUpdate(l, k, v))
<1> DEFINE m == EnvUpdate(l, k, v)
           p == SearchNode(l, k)
<1>1. m = [l EXCEPT ![p] = Entry(k, v)]
    BY DEF EnvUpdate
<1>2. IsSequence(l) /\ Len(l) \in Nat /\ DOMAIN l = 1..Len(l)
    BY EnvIsSequence
<1>3. /\ p \in 1..Len(l) /\ l[p].key = k
      /\ \A i \in 1..Len(l) : l[i].key = k => p <= i
    BY <1>2, SearchNodeIsFirst
<1>4. PICK V : l \in Seq([key : Names, val : V])
    BY DEF IsEnv
<1> HIDE DEF m, p
<1> DEFINE W == V \cup {v}
<1>5. m \in Seq([key : Names, val : W]) /\ Len(m) = Len(l)
    <2>1. [key : Names, val : V] \subseteq [key : Names, val : W]
        OBVIOUS
    <2>2. l \in Seq([key : Names, val : W])
        BY <1>4, <2>1, SeqMonotonic
    <2>3. Entry(k, v) \in [key : Names, val : W]
        BY DEF Entry
    <2> HIDE DEF W
    <2>4. QED
        BY <1>1, <1>3, <2>2, <2>3, ExceptSeq
<1>6. IsEnv(m)
    BY <1>5 DEF IsEnv
<1>7. IsSequence(m) /\ DOMAIN m = 1..Len(l)
    BY <1>5, <1>6, EnvIsSequence
<1>8. m[p].key = k /\ m[p].val = v
    BY <1>1, <1>2, <1>3 DEF Entry
<1>9. \A i \in 1..Len(l) : (i # p => m[i] = l[i]) /\ m[i].key = l[i].key
    BY <1>1, <1>2, <1>3, <1>8
<1>10. Positions(m, k) # {} /\ SearchNode(m, k) = p
    BY <1>3, <1>5, <1>7, <1>8, <1>9, FirstIsSearchNode
<1>11. ASSUME NEW j \in Names, j # k
       PROVE  View(m)[j] = View(l)[j]
    <2>1. CASE Positions(l, j) = {}
        <3>1. Positions(m, j) = {}
            BY <1>2, <1>7, <1>9, <2>1 DEF Positions
        <3>2. QED
            BY <2>1, <3>1 DEF View
    <2>2. CASE Positions(l, j) # {}
        <3> DEFINE q == SearchNode(l, j)
        <3>1. /\ q \in 1..Len(l) /\ l[q].key = j
              /\ \A i \in 1..Len(l) : l[i].key = j => q <= i
            BY <1>2, <2>2, SearchNodeIsFirst
        <3> HIDE DEF q
        <3>2. q # p /\ m[q] = l[q] /\ m[q].key = j
            BY <1>3, <1>9, <1>11, <3>1
        <3>3. \A i \in 1..Len(m) : m[i].key = j => q <= i
            BY <1>5, <1>9, <3>1
        <3>4. Positions(m, j) # {} /\ SearchNode(m, j) = q
            BY <1>5, <1>7, <3>1, <3>2, <3>3, FirstIsSearchNode
        <3>5. QED
            BY <2>2, <3>2, <3>4 DEF View, q
    <2>3. QED
        BY <2>1, <2>2
<1>12. View(m) = [View(l) EXCEPT ![k] = Present(v)]
    <2>1. View(m)[k] = Present(v)
        BY <1>8, <1>10 DEF View
    <2>2. QED
        BY <1>11, <2>1 DEF View
<1>13. NamesOnce(l) => NamesOnce(m)
    BY <1>2, <1>7, <1>9 DEF NamesOnce
<1>14. QED
    BY <1>6, <1>12, <1>13 DEF m

\* env_update: a value is set, a name that is not there is declared, and a name
\* that is there is not.
LEMMA UpdateView ==
    ASSUME NEW l, IsEnv(l), NEW k \in Names, NEW v
    PROVE  /\ IsEnv(EnvUpdate(l, k, v))
           /\ NamesOnce(l) => NamesOnce(EnvUpdate(l, k, v))
           /\ ~v.null \/ View(l)[k] = Absent =>
                View(EnvUpdate(l, k, v)) = [View(l) EXCEPT ![k] = Present(v)]
           /\ v.null /\ View(l)[k] # Absent => EnvUpdate(l, k, v) = l
<1>1. CASE Positions(l, k) = {}
    <2>1. EnvUpdate(l, k, v) = EnvAdd(l, k, v)
        BY <1>1 DEF EnvUpdate
    <2>2. QED
        BY <1>1, <2>1, AddIsEnv, AddView, GetView
<1>2. CASE Positions(l, k) # {}
    <2>1. View(l)[k] # Absent
        BY <1>2, GetView DEF Absent
    <2>2. v.null => EnvUpdate(l, k, v) = l
        BY <1>2 DEF EnvUpdate
    <2>3. QED
        BY <1>2, <2>1, <2>2, ReplaceView
<1>3. QED
    BY <1>1, <1>2

\* env_delete of a list that has every name once.
LEMMA DeleteView ==
    ASSUME NEW l, IsEnv(l), NEW k \in Names
    PROVE  /\ IsEnv(EnvDelete(l, k))
           /\ NamesOnce(l) => /\ NamesOnce(EnvDelete(l, k))
                              /\ View(EnvDelete(l, k)) = [View(l) EXCEPT ![k] = Absent]
<1>1. CASE Positions(l, k) = {}
    <2>1. EnvDelete(l, k) = l
        BY <1>1 DEF EnvDelete
    <2>2. View(l) = [View(l) EXCEPT ![k] = Absent]
        BY <1>1 DEF View
    <2>3. QED
        BY <2>1, <2>2
<1>2. CASE Positions(l, k) # {}
    <2> DEFINE m == EnvDelete(l, k)
               p == SearchNode(l, k)
               E(i) == IF i < p THEN l[i] ELSE l[i + 1]
    <2>1. IsSequence(l) /\ Len(l) \in Nat /\ DOMAIN l = 1..Len(l)
        BY EnvIsSequence
    <2>2. p \in 1..Len(l) /\ l[p].key = k
        BY <1>2, <2>1, SearchNodeIsFirst
    <2>3. m = [i \in 1..(Len(l) - 1) |-> E(i)]
        BY <1>2 DEF EnvDelete
    <2>4. PICK V : l \in Seq([key : Names, val : V])
        BY DEF IsEnv
    <2> HIDE DEF m, p
    <2>5. m \in Seq([key : Names, val : V]) /\ Len(m) = Len(l) - 1
        <3>1. \A i \in 1..(Len(l) - 1) : E(i) \in [key : Names, val : V]
            <4>1. \A i \in 1..Len(l) : l[i] \in [key : Names, val : V]
                BY <2>4, ElementOfSeq
            <4>2. \A i \in 1..(Len(l) - 1) : i \in 1..Len(l) /\ i + 1 \in 1..Len(l)
                BY <2>1
            <4>3. QED
                BY <4>1, <4>2
        <3>2. Len(l) - 1 \in Nat
            BY <2>1, <2>2
        <3> HIDE DEF E
        <3>3. [i \in 1..(Len(l) - 1) |-> E(i)] \in Seq([key : Names, val : V])
            BY <3>1, <3>2, IsASeq
        <3>4. QED
            BY <2>3, <3>2, <3>3
    <2>6. IsEnv(m)
        BY <2>5 DEF IsEnv
    <2>7. IsSequence(m) /\ DOMAIN m = 1..(Len(l) - 1)
        BY <2>5, <2>6, EnvIsSequence
    <2>8. \A i \in 1..(Len(l) - 1) : m[i] = IF i < p THEN l[i] ELSE l[i + 1]
        BY <2>3
    <2>9. ASSUME NamesOnce(l)
          PROVE  NamesOnce(m) /\ View(m) = [View(l) EXCEPT ![k] = Absent]
        <3>1. \A i, j \in 1..Len(l) : l[i].key = l[j].key => i = j
            BY <2>1, <2>9 DEF NamesOnce
        <3>2. NamesOnce(m)
            <4>1. SUFFICES ASSUME NEW i \in 1..(Len(l) - 1),
                                  NEW j \in 1..(Len(l) - 1), m[i].key = m[j].key
                           PROVE  i = j
                BY <2>7 DEF NamesOnce
            <4> DEFINE Old(a) == IF a < p THEN a ELSE a + 1
            <4>2. /\ Old(i) \in 1..Len(l) /\ m[i] = l[Old(i)]
                  /\ Old(j) \in 1..Len(l) /\ m[j] = l[Old(j)]
                BY <2>1, <2>2, <2>8
            <4>3. Old(i) = Old(j)
                BY <3>1, <4>1, <4>2
            <4>4. QED
                BY <2>2, <4>3
        <3>3. View(m)[k] = Absent
            <4>1. \A i \in 1..(Len(l) - 1) : m[i].key # k
                <5>1. SUFFICES ASSUME NEW i \in 1..(Len(l) - 1), m[i].key = k
                               PROVE  FALSE
                    OBVIOUS
                <5>2. CASE i < p
                    BY <2>1, <2>2, <2>8, <3>1, <5>1, <5>2
                <5>3. CASE ~(i < p)
                    BY <2>1, <2>2, <2>8, <3>1, <5>1, <5>3
                <5>4. QED
                    BY <5>2, <5>3
            <4>2. Positions(m, k) = {}
                BY <2>7, <4>1 DEF Positions
            <4>3. QED
                BY <4>2 DEF View
        <3>4. ASSUME NEW j \in Names, j # k
              PROVE  View(m)[j] = View(l)[j]
            <4>1. CASE Positions(l, j) = {}
                <5>1. \A i \in 1..Len(l) : l[i].key # j
                    BY <2>1, <4>1 DEF Positions
                <5>2. \A i \in 1..(Len(l) - 1) : m[i].key # j
                    BY <2>1, <2>2, <2>8, <5>1
                <5>3. Positions(m, j) = {}
                    BY <2>7, <5>2 DEF Positions
                <5>4. QED
                    BY <4>1, <5>3 DEF View
            <4>2. CASE Positions(l, j) # {}
                <5> DEFINE q == SearchNode(l, j)
                           r == IF q < p THEN q ELSE q - 1
                <5>1. q \in 1..Len(l) /\ l[q].key = j
                    BY <2>1, <4>2, SearchNodeIsFirst
                <5>2. q # p
                    BY <2>2, <3>4, <5>1
                <5> HIDE DEF q
                <5>3. r \in 1..(Len(l) - 1) /\ m[r] = l[q]
                    BY <2>1, <2>2, <2>8, <5>1, <5>2
                <5> HIDE DEF r
                <5>4. \A i \in 1..Len(m) : m[i].key = j => r <= i
                    BY <2>5, <2>7, <3>2, <5>1, <5>3 DEF NamesOnce
                <5>5. Positions(m, j) # {} /\ SearchNode(m, j) = r
                    BY <2>5, <2>7, <5>1, <5>3, <5>4, FirstIsSearchNode
                <5>6. QED
                    BY <4>2, <5>3, <5>5 DEF View, q
            <4>3. QED
                BY <4>1, <4>2
        <3>5. QED
            BY <3>2, <3>3, <3>4 DEF View
    <2>10. QED
        BY <2>6, <2>9 DEF m
<1>3. QED
    BY <1>1, <1>2

-------------------------------------------------------------------------------
(* The start of a shell                                                         *)

Essential == {PWD, PATH, SHLVL}

NotEmpty(l, k) == View(l)[k].there => ~IsEmptyStr(View(l)[k].val)

\* What is shown of a variable tells whether it is there and what it has.
LEMMA Shown ==
    /\ ~Absent.there
    /\ \A v : Present(v).there /\ Present(v).val = v
BY DEF Absent, Present

\* A default is added only if the name is not there, unless it is there and empty.
LEMMA DefaultAdded ==
    ASSUME NEW l, IsEnv(l), NEW k \in Names, NEW v,
           NEW m, m = IF IsEmptyStr(EnvGet(l, k)) THEN EnvAdd(l, k, v) ELSE l
    PROVE  /\ IsEnv(m)
           /\ NamesOnce(l) /\ NotEmpty(l, k)
              /\ (IsEmptyStr(EnvGet(l, k)) => ~v.null) =>
                /\ NamesOnce(m)
                /\ View(m)[k].there /\ ~View(m)[k].val.null
                /\ \A j \in Names \ {k} : View(m)[j] = View(l)[j]
<1>1. CASE IsEmptyStr(EnvGet(l, k))
    <2>1. m = EnvAdd(l, k, v)
        BY <1>1
    <2>2. IsEnv(m)
        BY <2>1, AddIsEnv
    <2>3. ASSUME NamesOnce(l), NotEmpty(l, k), ~v.null
          PROVE  /\ NamesOnce(m)
                 /\ View(m)[k].there /\ ~View(m)[k].val.null
                 /\ \A j \in Names \ {k} : View(m)[j] = View(l)[j]
        <3>1. Positions(l, k) = {}
            <4>1. SUFFICES ASSUME Positions(l, k) # {} PROVE FALSE
                OBVIOUS
            <4>2. View(l)[k] = Present(EnvGet(l, k))
                BY <4>1, GetView
            <4>3. View(l)[k].there /\ View(l)[k].val = EnvGet(l, k)
                BY <4>2, Shown
            <4>4. QED
                BY <1>1, <2>3, <4>3 DEF NotEmpty
        <3>2. NamesOnce(m) /\ View(m) = [View(l) EXCEPT ![k] = Present(v)]
            BY <2>1, <2>3, <3>1, AddView
        <3>3. DOMAIN View(l) = Names
            BY DEF View
        <3>4. View(m)[k] = Present(v)
            BY <3>2, <3>3
        <3>5. View(m)[k].there /\ View(m)[k].val = v
            BY <3>4, Shown
        <3>6. QED
            BY <2>3, <3>2, <3>3, <3>5
    <2>4. QED
        BY <1>1, <2>2, <2>3
<1>2. CASE ~IsEmptyStr(EnvGet(l, k))
    <2>1. Positions(l, k) # {}
        BY <1>2, GetView DEF IsEmptyStr, NULL
    <2>2. View(l)[k] = Present(EnvGet(l, k))
        BY <2>1, GetView
    <2>3. QED
        BY <1>2, <2>2 DEF Present, IsEmptyStr
<1>3. QED
    BY <1>1, <1>2

\* add_env_defaults gives a shell with a clean environment its three variables.
LEMMA DefaultsAdded ==
    ASSUME IsEnv(env), AddEnvDefaults
    PROVE  /\ IsEnv(env')
           /\ NamesOnce(env) /\ (\A k \in Essential : NotEmpty(env, k)) =>
                /\ NamesOnce(env')
                /\ \A k \in Essential :
                      View(env')[k].there /\ ~View(env')[k].val.null
<1> DEFINE l1 == AddPwd(env)
           l2 == AddPath(l1)
           l3 == AddShlvl(l2)
<1>1. env' = l3
    BY DEF AddEnvDefaults
<1>2. PWD \in Names /\ PATH \in Names /\ SHLVL \in Names
    BY EnvironmentAssumption
<1>3. PWD # PATH /\ PWD # SHLVL /\ PATH # SHLVL
    BY DEF PWD, PATH, SHLVL
<1>4. IsEmptyStr(EnvGet(env, PWD)) => ~Getcwd.null
    BY DEF AddEnvDefaults
<1>5. l1 = IF IsEmptyStr(EnvGet(env, PWD)) THEN EnvAdd(env, PWD, Getcwd) ELSE env
    BY DEF AddPwd
<1>6. l2 = IF IsEmptyStr(EnvGet(l1, PATH))
           THEN EnvAdd(l1, PATH, Str(DefaultPath)) ELSE l1
    BY DEF AddPath
<1>7. l3 = IF IsEmptyStr(EnvGet(l2, SHLVL)) THEN EnvAdd(l2, SHLVL, Str(<<"1">>))
           ELSE IncreaseShlvl(l2)
    BY DEF AddShlvl
<1> HIDE DEF l1, l2, l3
<1>8. \A t : ~Str(t).null
    BY DEF Str
<1>9. /\ IsEnv(l1)
      /\ NamesOnce(env) /\ NotEmpty(env, PWD) =>
           /\ NamesOnce(l1)
           /\ View(l1)[PWD].there /\ ~View(l1)[PWD].val.null
           /\ \A j \in Names \ {PWD} : View(l1)[j] = View(env)[j]
    BY <1>2, <1>4, <1>5, DefaultAdded
<1>10. /\ IsEnv(l2)
       /\ NamesOnce(l1) /\ NotEmpty(l1, PATH) =>
            /\ NamesOnce(l2)
            /\ View(l2)[PATH].there /\ ~View(l2)[PATH].val.null
            /\ \A j \in Names \ {PATH} : View(l2)[j] = View(l1)[j]
    BY <1>2, <1>6, <1>8, <1>9, DefaultAdded
<1>11. /\ IsEnv(l3)
       /\ NamesOnce(l2) /\ NotEmpty(l2, SHLVL) =>
            /\ NamesOnce(l3)
            /\ View(l3)[SHLVL].there /\ ~View(l3)[SHLVL].val.null
            /\ \A j \in Names \ {SHLVL} : View(l3)[j] = View(l2)[j]
    <2>1. CASE IsEmptyStr(EnvGet(l2, SHLVL))
        BY <1>2, <1>7, <1>8, <1>10, <2>1, DefaultAdded
    <2>2. CASE ~IsEmptyStr(EnvGet(l2, SHLVL))
        <3> DEFINE v == Str(FtItoa(FtAtoi(EnvGet(l2, SHLVL).text) + 1))
        <3>1. l3 = EnvUpdate(l2, SHLVL, v)
            BY <1>7, <2>2 DEF IncreaseShlvl
        <3>2. ~v.null
            BY <1>8
        <3> HIDE DEF v
        <3>3. /\ IsEnv(l3) /\ (NamesOnce(l2) => NamesOnce(l3))
              /\ View(l3) = [View(l2) EXCEPT ![SHLVL] = Present(v)]
            <4>1. IsEnv(l2) /\ SHLVL \in Names
                BY <1>2, <1>10
            <4>2. /\ IsEnv(EnvUpdate(l2, SHLVL, v))
                  /\ NamesOnce(l2) => NamesOnce(EnvUpdate(l2, SHLVL, v))
                  /\ ~v.null => View(EnvUpdate(l2, SHLVL, v)) =
                                   [View(l2) EXCEPT ![SHLVL] = Present(v)]
                BY <4>1, UpdateView
            <4>3. QED
                BY <3>1, <3>2, <4>2
        <3>4. DOMAIN View(l2) = Names
            BY DEF View
        <3>5. View(l3)[SHLVL] = Present(v)
            BY <1>2, <3>3, <3>4
        <3>6. View(l3)[SHLVL].there /\ View(l3)[SHLVL].val = v
            BY <3>5, Shown
        <3>7. QED
            BY <1>2, <3>2, <3>3, <3>4, <3>6
    <2>3. QED
        BY <2>1, <2>2
<1>12. ASSUME NamesOnce(env), \A k \in Essential : NotEmpty(env, k)
       PROVE  /\ NamesOnce(l3)
              /\ \A k \in Essential : View(l3)[k].there /\ ~View(l3)[k].val.null
    <2>1. NotEmpty(env, PWD) /\ NotEmpty(env, PATH) /\ NotEmpty(env, SHLVL)
        BY <1>12 DEF Essential
    <2>2. NamesOnce(l1) /\ NotEmpty(l1, PATH) /\ NotEmpty(l1, SHLVL)
        BY <1>2, <1>3, <1>9, <1>12, <2>1 DEF NotEmpty
    <2>3. NamesOnce(l2) /\ NotEmpty(l2, SHLVL)
        BY <1>2, <1>3, <1>10, <2>2 DEF NotEmpty
    <2>4. QED
        BY <1>2, <1>3, <1>9, <1>10, <1>11, <1>12, <2>1, <2>2, <2>3 DEF Essential
<1>13. QED
    BY <1>1, <1>11, <1>12

-------------------------------------------------------------------------------
(* The invariant                                                                *)

\* What is loaded and what is left: no name in both, none empty that must not be.
Loading ==
    /\ Clean(envp)
    /\ \A i \in DOMAIN env : \A j \in DOMAIN envp : KeyOf(envp[j]) # <<env[i].key>>
    /\ \A i \in DOMAIN env : env[i].key \in Essential => ~IsEmptyStr(env[i].val)

\* What the operations of a shell that runs keep of its list.
Good(l) ==
    /\ IsEnv(l)
    /\ clean => NamesOnce(l) /\ View(l)[SHLVL].there

Running == step \in {"ready", "export", "unset", "cd", "crashed"}

Inv ==
    /\ TypeOK
    /\ IsEnv(env)
    /\ IsSequence(envp)
    /\ UniqueNames
    /\ clean /\ step = "load" => Loading
    /\ Running => Good(env)

\* A good list is good after env_update, whatever is set.
LEMMA UpdateIsGood ==
    ASSUME NEW l, Good(l), NEW k \in Names, NEW v
    PROVE  Good(EnvUpdate(l, k, v))
<1>1. /\ IsEnv(EnvUpdate(l, k, v))
      /\ NamesOnce(l) => NamesOnce(EnvUpdate(l, k, v))
    BY UpdateView DEF Good
<1>2. ASSUME clean PROVE View(EnvUpdate(l, k, v))[SHLVL].there
    <2>1. View(l)[SHLVL].there /\ IsEnv(l) /\ SHLVL \in Names /\ DOMAIN View(l) = Names
        BY <1>2, EnvironmentAssumption DEF Good, View
    <2>2. CASE ~v.null \/ View(l)[k] = Absent
        <3>1. View(EnvUpdate(l, k, v)) = [View(l) EXCEPT ![k] = Present(v)]
            BY <2>1, <2>2, UpdateView
        <3>2. View(EnvUpdate(l, k, v))[SHLVL] \in {View(l)[SHLVL], Present(v)}
            BY <2>1, <3>1
        <3>3. QED
            BY <2>1, <3>2, Shown
    <2>3. CASE v.null /\ View(l)[k] # Absent
        BY <2>1, <2>3, UpdateView
    <2>4. QED
        BY <2>2, <2>3
<1>3. QED
    BY <1>1, <1>2 DEF Good

\* A good list is good after env_delete of another name than SHLVL.
LEMMA DeleteIsGood ==
    ASSUME NEW l, Good(l), NEW k \in Names, k # SHLVL
    PROVE  Good(EnvDelete(l, k))
<1>1. /\ IsEnv(EnvDelete(l, k))
      /\ NamesOnce(l) => /\ NamesOnce(EnvDelete(l, k))
                         /\ View(EnvDelete(l, k)) = [View(l) EXCEPT ![k] = Absent]
    BY DeleteView DEF Good
<1>2. SHLVL \in Names /\ DOMAIN View(l) = Names
    BY EnvironmentAssumption DEF View
<1>3. QED
    BY <1>1, <1>2 DEF Good

\* A cd that changes anything has got to cd_path.
LEMMA CdIsOneOf ==
    ASSUME Cd
    PROVE  \/ Stay(1)
           \/ \E p : CdPath(p)
           \/ step' = "crashed" /\ UNCHANGED <<env, cwd, status, told>>
<1> DEFINE Goal == \/ Stay(1)
                   \/ \E p : CdPath(p)
                   \/ step' = "crashed" /\ UNCHANGED <<env, cwd, status, told>>
<1>1. Stay(1) => Goal
    OBVIOUS
<1>2. ASSUME NEW p, CdPath(p) PROVE Goal
    BY <1>2
<1>3. Stay(1) \/ CdVariable(HOME) \/ CdVariable(OLDPWD) \/ CdDir(args[1])
    BY DEF Cd
<1> HIDE DEF Goal
<1>4. ASSUME NEW v, CdVariable(v) PROVE Goal
    BY <1>1, <1>2, <1>4 DEF CdVariable
<1>5. ASSUME NEW d, CdDir(d) PROVE Goal
    <2>1. CASE ~IsAbsolute(d) /\ GetPwd.null
        BY <1>1, <1>5, <2>1 DEF CdDir
    <2>2. CASE ~(~IsAbsolute(d) /\ GetPwd.null)
        <3> DEFINE curpath == IF IsAbsolute(d) THEN d ELSE GetPwd.text \o <<"/">> \o d
                   form == GetPathCanonicalForm(curpath)
        <3>1. \/ form.bad = "no" /\ CdPath(form.text)
              \/ form.bad = "none" /\ Stay(1)
              \/ /\ form.bad = "fault"
                 /\ step' = "crashed"
                 /\ UNCHANGED <<env, cwd, status, told>>
            BY <1>5, <2>2 DEF CdDir
        <3> HIDE DEF form
        <3>2. QED
            BY <1>1, <1>2, <3>1 DEF Goal
    <2>3. QED
        BY <2>1, <2>2
<1>6. Goal
    BY <1>1, <1>3, <1>4, <1>5
<1>7. QED
    BY <1>6 DEF Goal

\* What a cd does to the list, whatever its argument is.
LEMMA CdEnv ==
    ASSUME Cd, Good(env), cwd \in Directories
    PROVE  /\ cwd' \in Directories /\ step' \in {"ready", "crashed"}
           /\ told' \in BOOLEAN \/ told' = told
           /\ status' \in {0, 1} \/ status' = status
           /\ \/ env' = env
              \/ env' = Remembered
              \/ \E p : env' = EnvUpdate(Remembered, PWD, Str(p))
<1> DEFINE Goal == /\ cwd' \in Directories /\ step' \in {"ready", "crashed"}
                   /\ told' \in BOOLEAN \/ told' = told
                   /\ status' \in {0, 1} \/ status' = status
                   /\ \/ env' = env
                      \/ env' = Remembered
                      \/ \E p : env' = EnvUpdate(Remembered, PWD, Str(p))
<1>1. ASSUME Stay(1) PROVE Goal
    BY <1>1 DEF Stay
<1>2. ASSUME NEW p, CdPath(p) PROVE Goal
    <2>1. CASE ~CanEnter(cwd, p) /\ Stay(1)
        BY <1>1, <2>1
    <2>2. CASE /\ CanEnter(cwd, p)
               /\ env' = EnvUpdate(Remembered, PWD, Str(p))
               /\ cwd' = DirOf(cwd, p)
               /\ status' = 0
               /\ told' = TRUE
               /\ step' = "ready"
        BY <2>2 DEF CanEnter
    <2>3. CASE /\ CanEnter(cwd, p)
               /\ env' \in {env, Remembered}
               /\ cwd' = Return(DirOf(cwd, p))
               /\ status' = 1
               /\ told' = told
               /\ step' = "ready"
        <3>1. cwd' \in Directories
            <4>1. DirOf(cwd, p) \in Directories
                BY <2>3 DEF CanEnter
            <4>2. ASSUME NEW d \in Directories, CanEnter(d, OldPwd.text)
                  PROVE  DirOf(d, OldPwd.text) \in Directories
                BY <4>2 DEF CanEnter
            <4>3. QED
                BY <2>3, <4>1, <4>2 DEF Return
        <3>2. QED
            BY <2>3, <3>1
    <2>4. QED
        BY <1>2, <2>1, <2>2, <2>3 DEF CdPath
<1> HIDE DEF Goal
<1>3. ASSUME step' = "crashed", UNCHANGED <<env, cwd, status, told>> PROVE Goal
    BY <1>3 DEF Goal
<1>4. Goal
    BY <1>1, <1>2, <1>3, CdIsOneOf
<1>5. QED
    BY <1>4 DEF Goal

\* The invariant holds when a shell is started.
LEMMA InitIsInv == Init => Inv
<1> SUFFICES ASSUME Init PROVE Inv
    OBVIOUS
<1>1. env = << >> /\ step = "load" /\ envp \in Inherited
    BY DEF Init
<1>2. IsEnv(env)
    <2>1. << >> \in Seq([key : Names, val : {}])
        OBVIOUS
    <2>2. QED
        BY <1>1, <2>1 DEF IsEnv
<1>3. IsSequence(envp)
    BY <1>1, SessionAssumption DEF IsSequence
<1>4. TypeOK
    BY SessionAssumption DEF Init, TypeOK, Clean, RightAtFirst, NamesDir, Leads, IsAbsolute, NoParent
<1>5. UniqueNames
    BY <1>1 DEF UniqueNames, NamesOnce
<1>6. clean /\ step = "load" => Loading
    BY <1>1 DEF Init, Loading
<1>7. QED
    BY <1>1, <1>2, <1>3, <1>4, <1>5, <1>6 DEF Inv, Running

\* The part of TypeOK that is about the list.
LEMMA EnvTyped ==
    ASSUME NEW l, IsEnv(l)
    PROVE  \A i \in DOMAIN l : DOMAIN l[i] = {"key", "val"} /\ l[i].key \in Names
BY EnvIsSequence

\* An entry of a clean environment has a name that has not been loaded.
LEMMA LoadEntryKeeps == Inv /\ LoadEntry => Inv'
<1> SUFFICES ASSUME Inv, LoadEntry PROVE Inv'
    OBVIOUS
<1> DEFINE key == KeyOf(Head(envp))
           val == ValueOf(Head(envp))
<1>1. /\ step = "load" /\ step' = "load" /\ clean' = clean
      /\ envp # << >> /\ envp' = Tail(envp)
      /\ env' = IF IsValidVarName(key) THEN EnvAdd(env, key[1], val) ELSE env
    BY DEF LoadEntry
<1>2. /\ Len(envp) \in Nat /\ DOMAIN envp = 1..Len(envp) /\ Len(envp) # 0
      /\ Head(envp) = envp[1] /\ IsSequence(Tail(envp))
      /\ Len(Tail(envp)) = Len(envp) - 1
      /\ DOMAIN Tail(envp) = 1..(Len(envp) - 1)
      /\ \A j \in 1..(Len(envp) - 1) : Tail(envp)[j] = envp[j + 1]
    <2>1. PICK S : envp \in Seq(S)
        BY DEF Inv, IsSequence
    <2>2. Tail(envp) \in Seq(S)
        BY <1>1, <2>1
    <2>3. QED
        BY <1>1, <2>1, <2>2 DEF IsSequence
<1>3. IsEnv(env) /\ DOMAIN env = 1..Len(env) /\ Len(env) \in Nat
    BY EnvIsSequence DEF Inv
<1>4. CASE ~IsValidVarName(key)
    <2>1. env' = env
        BY <1>1, <1>4
    <2>2. clean => Loading'
        <3> SUFFICES ASSUME clean PROVE Loading'
            OBVIOUS
        <3>1. Loading
            BY <1>1 DEF Inv
        <3>2. Clean(Tail(envp))
            BY <1>2, <3>1 DEF Loading, Clean
        <3>3. QED
            BY <1>1, <1>2, <2>1, <3>1, <3>2 DEF Loading
    <2>3. TypeOK'
        BY <1>1, <2>1 DEF Inv, TypeOK, LoadEntry
    <2>4. QED
        BY <1>1, <1>2, <2>1, <2>2, <2>3 DEF Inv, UniqueNames, Running, IsEnv
<1>5. CASE IsValidVarName(key)
    <2>1. PICK v \in Names : key = <<v>>
        BY <1>5 DEF IsValidVarName
    <2>2. env' = EnvAdd(env, v, val)
        BY <1>1, <1>5, <2>1
    <2> HIDE DEF key, val
    <2>3. /\ IsEnv(env') /\ Len(env') = Len(env) + 1
          /\ \A i \in 1..Len(env) : env'[i] = env[i]
          /\ env'[Len(env) + 1].key = v /\ env'[Len(env) + 1].val = val
        <3>1. /\ IsEnv(env') /\ Len(env') = Len(env) + 1
              /\ \A i \in 1..Len(env) : env'[i] = env[i]
              /\ env'[Len(env) + 1] = Entry(v, val)
            BY <1>3, <2>2, AddIsEnv
        <3>2. QED
            BY <3>1 DEF Entry
    <2>4. DOMAIN env' = 1..(Len(env) + 1)
        BY <2>3, EnvIsSequence
    <2>5. ASSUME clean PROVE NamesOnce(env') /\ Loading'
        <3>1. Loading /\ NamesOnce(env)
            BY <1>1, <2>5 DEF Inv, UniqueNames
        <3>2. \A i \in 1..Len(env) : env[i].key # v
            BY <1>2, <1>3, <2>1, <3>1 DEF Loading, key
        <3>3. NamesOnce(env')
            BY <1>3, <2>3, <2>4, <3>1, <3>2 DEF NamesOnce
        <3>4. Clean(Tail(envp))
            BY <1>2, <3>1 DEF Loading, Clean
        <3>5. \A j \in 1..(Len(envp) - 1) : KeyOf(Tail(envp)[j]) # <<v>>
            BY <1>2, <2>1, <3>1 DEF Loading, Clean, key
        <3>6. \A i \in 1..(Len(env) + 1) : \A j \in 1..(Len(envp) - 1) :
                 KeyOf(Tail(envp)[j]) # <<env'[i].key>>
            BY <1>2, <1>3, <2>3, <3>1, <3>5 DEF Loading
        <3>7. v \in Essential => ~IsEmptyStr(val)
            BY <1>2, <2>1, <3>1 DEF Loading, Clean, key, val, Essential
        <3>8. \A i \in 1..(Len(env) + 1) :
                 env'[i].key \in Essential => ~IsEmptyStr(env'[i].val)
            BY <1>3, <2>3, <3>1, <3>7 DEF Loading
        <3>9. QED
            BY <1>1, <1>2, <2>4, <3>3, <3>4, <3>6, <3>8 DEF Loading
    <2>6. TypeOK'
        BY <1>1, <2>3, EnvTyped DEF Inv, TypeOK, LoadEntry
    <2>7. QED
        BY <1>1, <1>2, <2>3, <2>5, <2>6 DEF Inv, UniqueNames, Running
<1>6. QED
    BY <1>4, <1>5

\* When a clean environment has been loaded, the three names have values or are not there.
LEMMA LoadedNotEmpty ==
    ASSUME IsEnv(env), Loading, NEW k \in Essential
    PROVE  NotEmpty(env, k)
<1>1. k \in Names
    BY EnvironmentAssumption DEF Essential
<1>2. CASE Positions(env, k) = {}
    BY <1>1, <1>2, GetView DEF NotEmpty
<1>3. CASE Positions(env, k) # {}
    <2> DEFINE p == SearchNode(env, k)
    <2>1. p \in DOMAIN env /\ env[p].key = k
        BY <1>3, SearchNodeIsFirst, EnvIsSequence
    <2>2. ~IsEmptyStr(env[p].val)
        BY <2>1 DEF Loading
    <2>3. View(env)[k] = Present(env[p].val)
        BY <1>1, <1>3 DEF View
    <2>4. QED
        BY <2>2, <2>3, Shown DEF NotEmpty
<1>4. QED
    BY <1>2, <1>3

\* After the defaults the list of a clean shell is good.
LEMMA AddEnvDefaultsKeeps == Inv /\ AddEnvDefaults => Inv'
<1> SUFFICES ASSUME Inv, AddEnvDefaults PROVE Inv'
    OBVIOUS
<1>1. step = "load" /\ step' = "ready" /\ clean' = clean /\ envp' = envp
    BY DEF AddEnvDefaults
<1>2. /\ IsEnv(env')
      /\ NamesOnce(env) /\ (\A k \in Essential : NotEmpty(env, k)) =>
            /\ NamesOnce(env')
            /\ \A k \in Essential :
                  View(env')[k].there /\ ~View(env')[k].val.null
    BY DefaultsAdded DEF Inv
<1>3. ASSUME clean PROVE NamesOnce(env') /\ View(env')[SHLVL].there
    <2>1. NamesOnce(env) /\ Loading
        BY <1>1, <1>3 DEF Inv, UniqueNames
    <2>2. ASSUME NEW k \in Essential PROVE NotEmpty(env, k)
        BY <2>1, <2>2, LoadedNotEmpty DEF Inv
    <2>3. QED
        BY <1>2, <2>1, <2>2 DEF Essential
<1>4. TypeOK'
    BY <1>1, <1>2, EnvTyped DEF Inv, TypeOK, AddEnvDefaults
<1>5. QED
    BY <1>1, <1>2, <1>3, <1>4 DEF Inv, UniqueNames, Running, Good

\* Reading a command leaves the list alone.
LEMMA RunCommandKeeps == Inv /\ RunCommand => Inv'
<1> SUFFICES ASSUME Inv, RunCommand PROVE Inv'
    OBVIOUS
<1>1. step = "ready" /\ UNCHANGED <<env, envp, cwd, dirs, told, clean>>
    BY DEF RunCommand
<1>2. step' \in {"export", "unset", "cd"}
    BY SessionAssumption DEF RunCommand
<1>3. n' \in 0..MaxCommands
    BY SessionAssumption DEF RunCommand, Inv, TypeOK
<1>4. TypeOK'
    BY <1>1, <1>2, <1>3 DEF Inv, TypeOK, RunCommand, NoParent
<1>5. QED
    BY <1>1, <1>2, <1>4 DEF Inv, UniqueNames, Running, Good, View, Positions, SearchNode

\* A step that leaves the list good, and nothing to load, keeps the invariant.
LEMMA GoodIsKept ==
    ASSUME Inv, Good(env'), UNCHANGED <<envp, clean>>, step' # "load", TypeOK'
    PROVE  Inv'
<1>1. IsEnv(env') /\ (clean' => NamesOnce(env') /\ View(env')[SHLVL].there)
    BY DEF Good
<1>2. QED
    BY <1>1 DEF Inv, UniqueNames, Good

\* export keeps the invariant: each argument is an env_update of a valid name.
LEMMA ExportArgKeeps == Inv /\ ExportArg => Inv'
<1> SUFFICES ASSUME Inv, ExportArg PROVE Inv'
    OBVIOUS
<1>1. step = "export" /\ UNCHANGED <<envp, step, cwd, dirs, n, clean, parent>>
    BY DEF ExportArg
<1>2. Good(env)
    BY <1>1 DEF Inv, Running
<1> DEFINE key == KeyOf(Head(args))
           val == ValueOf(Head(args))
<1>3. \/ env' = env
      \/ ~Refused(key) /\ env' = EnvUpdate(env, key[1], val)
    BY DEF ExportArg
<1>4. told' \in BOOLEAN /\ status' \in {0, 1}
    BY DEF ExportArg, Inv, TypeOK
<1> HIDE DEF key, val
<1>5. Good(env')
    <2>1. CASE env' = env
        BY <1>2, <2>1
    <2>2. CASE ~Refused(key) /\ env' = EnvUpdate(env, key[1], val)
        <3>1. key[1] \in Names
            BY <2>2 DEF Refused, IsValidVarName
        <3>2. QED
            BY <1>2, <2>2, <3>1, UpdateIsGood
    <2>3. QED
        BY <1>3, <2>1, <2>2
<1>6. TypeOK'
    <2>1. IsEnv(env')
        BY <1>5 DEF Good
    <2>2. QED
        BY <1>1, <1>4, <2>1, EnvTyped DEF Inv, TypeOK
<1>7. QED
    BY <1>1, <1>5, <1>6, GoodIsKept

\* unset keeps the invariant: it never deletes SHLVL.
LEMMA UnsetArgKeeps == Inv /\ UnsetArg => Inv'
<1> SUFFICES ASSUME Inv, UnsetArg PROVE Inv'
    OBVIOUS
<1>1. step = "unset" /\ UNCHANGED <<envp, step, status, cwd, dirs, n, clean, parent>>
    BY DEF UnsetArg
<1>2. Good(env)
    BY <1>1 DEF Inv, Running
<1> DEFINE key == Head(args)
<1>3. env' = IF key # <<SHLVL>> /\ IsValidVarName(key)
             THEN EnvDelete(env, key[1]) ELSE env
    BY DEF UnsetArg
<1>4. told' \in BOOLEAN
    BY DEF UnsetArg, Inv, TypeOK
<1> HIDE DEF key
<1>5. Good(env')
    <2>1. CASE key # <<SHLVL>> /\ IsValidVarName(key)
        <3>1. key[1] \in Names /\ key[1] # SHLVL
            BY <2>1 DEF IsValidVarName
        <3>2. QED
            BY <1>2, <1>3, <2>1, <3>1, DeleteIsGood
    <2>2. CASE ~(key # <<SHLVL>> /\ IsValidVarName(key))
        BY <1>2, <1>3, <2>2
    <2>3. QED
        BY <2>1, <2>2
<1>6. TypeOK'
    <2>1. IsEnv(env')
        BY <1>5 DEF Good
    <2>2. QED
        BY <1>1, <1>4, <2>1, EnvTyped DEF Inv, TypeOK
<1>7. QED
    BY <1>1, <1>5, <1>6, GoodIsKept

\* Remembering the old directory keeps a good list good.
LEMMA RememberedIsGood == Good(env) => Good(Remembered)
<1>1. OLDPWD \in Names
    BY EnvironmentAssumption
<1>2. QED
    BY <1>1, UpdateIsGood DEF Remembered

\* cd keeps the invariant, however far it gets.
LEMMA CdKeeps == Inv /\ Cd => Inv'
<1> SUFFICES ASSUME Inv, Cd PROVE Inv'
    OBVIOUS
<1>1. step = "cd" /\ UNCHANGED <<envp, dirs, n, clean, parent>>
    BY DEF Cd
<1>2. Good(env) /\ cwd \in Directories
    BY <1>1 DEF Inv, Running, TypeOK
<1>3. /\ cwd' \in Directories /\ step' \in {"ready", "crashed"}
      /\ told' \in BOOLEAN \/ told' = told
      /\ status' \in {0, 1} \/ status' = status
      /\ \/ env' = env
         \/ env' = Remembered
         \/ \E p : env' = EnvUpdate(Remembered, PWD, Str(p))
    BY <1>2, CdEnv
<1>4. Good(env')
    <2>1. Good(Remembered) /\ PWD \in Names
        BY <1>2, RememberedIsGood, EnvironmentAssumption
    <2>2. QED
        BY <1>2, <1>3, <2>1, UpdateIsGood
<1>5. TypeOK'
    <2>1. IsEnv(env')
        BY <1>4 DEF Good
    <2>2. QED
        BY <1>1, <1>3, <2>1, EnvTyped DEF Inv, TypeOK
<1>6. QED
    BY <1>1, <1>3, <1>4, <1>5, GoodIsKept

\* A shell that is started begins with an empty list and a sequence of entries.
LEMMA NestKeeps == Inv /\ Nest => Inv'
<1> SUFFICES ASSUME Inv, Nest PROVE Inv'
    OBVIOUS
<1>1. /\ step' = "load" /\ env' = << >> /\ envp' = EnvToEnvp(env)
      /\ clean' = Clean(envp') /\ parent' = View(env)
      /\ status' = 0 /\ n < MaxCommands /\ n' = n + 1
      /\ UNCHANGED <<cwd, dirs, told>>
    BY DEF Nest
<1>2. IsEnv(env')
    <2>1. << >> \in Seq([key : Names, val : {}])
        OBVIOUS
    <2>2. QED
        BY <1>1, <2>1 DEF IsEnv
<1>3. IsSequence(envp')
    <2> DEFINE E(i) == <<env[i].key, "=">> \o
                       (IF env[i].val.null THEN << >> ELSE env[i].val.text)
               S == {E(i) : i \in 1..Len(env)}
    <2>1. Len(env) \in Nat /\ DOMAIN env = 1..Len(env)
        BY EnvIsSequence DEF Inv
    <2>2. envp' = [i \in 1..Len(env) |-> E(i)]
        BY <1>1, <2>1 DEF EnvToEnvp
    <2>3. \A i \in 1..Len(env) : E(i) \in S
        OBVIOUS
    <2> HIDE DEF E, S
    <2>4. envp' \in Seq(S)
        BY <2>1, <2>2, <2>3, IsASeq
    <2>5. QED
        BY <2>4 DEF IsSequence
<1>4. DOMAIN View(env) = Names
    BY DEF View
<1>5. clean' \in BOOLEAN
    BY <1>1 DEF Clean
<1>6. n' \in 0..MaxCommands
    BY <1>1, SessionAssumption DEF Inv, TypeOK
<1>7. TypeOK'
    BY <1>1, <1>4, <1>5, <1>6 DEF Inv, TypeOK
<1>8. QED
    BY <1>1, <1>2, <1>3, <1>7 DEF Inv, UniqueNames, NamesOnce, Loading, Running

\* No other step changes the list.
LEMMA OtherStepsKeep == Inv /\ (Exit \/ EndLoop \/ Rmdir \/ UNCHANGED vars) => Inv'
<1>1. ASSUME Inv, Exit PROVE Inv'
    BY <1>1 DEF Inv, Exit, TypeOK, UniqueNames, Running
<1>2. ASSUME Inv, EndLoop PROVE Inv'
    <2>1. Good(env) /\ UNCHANGED <<env, envp, clean>> /\ step' = "ready"
        BY <1>2 DEF Inv, EndLoop, Running
    <2>2. TypeOK'
        BY <1>2 DEF Inv, EndLoop, TypeOK
    <2>3. QED
        BY <1>2, <2>1, <2>2, GoodIsKept
<1>3. ASSUME Inv, Rmdir PROVE Inv'
    <2>1. Good(env) /\ UNCHANGED <<env, envp, clean>> /\ step' = "ready"
        BY <1>3 DEF Inv, Rmdir, Running
    <2>2. n' \in 0..MaxCommands
        BY <1>3, SessionAssumption DEF Inv, TypeOK, Rmdir
    <2>3. TypeOK'
        BY <1>3, <2>2 DEF Inv, Rmdir, TypeOK
    <2>4. QED
        BY <1>3, <2>1, <2>3, GoodIsKept
<1>4. ASSUME Inv, UNCHANGED vars PROVE Inv'
    BY <1>4 DEF Inv, vars, TypeOK, UniqueNames, Running, Good, Loading
<1>5. QED
    BY <1>1, <1>2, <1>3, <1>4

\* The invariant holds in every state of a session.
THEOREM InvHolds == Spec => []Inv
<1>1. Inv /\ [Next]_vars => Inv'
    BY LoadEntryKeeps, AddEnvDefaultsKeeps, RunCommandKeeps, ExportArgKeeps,
       UnsetArgKeeps, CdKeeps, NestKeeps, OtherStepsKeep DEF Next
<1>2. QED
    BY InitIsInv, <1>1, PTL DEF Spec

\* The variables of a session keep their types, whatever is inherited and run:
\* no name that is not valid gets into the list, no directory is one there never was.
THEOREM TypesHold == Spec => []TypeOK
<1>1. Inv => TypeOK
    BY DEF Inv
<1>2. QED
    BY InvHolds, <1>1, PTL

\* A shell whose environment is clean keeps every name once in its list.
THEOREM NamesAreUnique == Spec => []UniqueNames
<1>1. Inv => UniqueNames
    BY DEF Inv
<1>2. QED
    BY InvHolds, <1>1, PTL

-------------------------------------------------------------------------------
(* cd                                                                           *)

\* Remembering the old directory changes OLDPWD alone.
LEMMA RememberedView ==
    ASSUME IsEnv(env), ~OldPwd.null
    PROVE  /\ IsEnv(Remembered)
           /\ View(Remembered) = [View(env) EXCEPT ![OLDPWD] = Present(OldPwd)]
           /\ EnvGet(Remembered, PWD) = EnvGet(env, PWD)
<1>1. OLDPWD \in Names /\ PWD \in Names /\ OLDPWD # PWD
    BY EnvironmentAssumption DEF OLDPWD, PWD
<1>2. Remembered = EnvUpdate(env, OLDPWD, OldPwd)
    BY DEF Remembered
<1>3. /\ IsEnv(Remembered)
      /\ View(Remembered) = [View(env) EXCEPT ![OLDPWD] = Present(OldPwd)]
    <2>1. /\ IsEnv(EnvUpdate(env, OLDPWD, OldPwd))
          /\ ~OldPwd.null => View(EnvUpdate(env, OLDPWD, OldPwd)) =
                                [View(env) EXCEPT ![OLDPWD] = Present(OldPwd)]
        BY <1>1, UpdateView
    <2>2. QED
        BY <1>2, <2>1
<1>4. View(Remembered)[PWD] = View(env)[PWD]
    BY <1>1, <1>3 DEF View
<1>5. EnvGet(Remembered, PWD) = EnvGet(env, PWD)
    <2>1. CASE Positions(env, PWD) = {}
        BY <1>1, <1>4, <2>1, GetView
    <2>2. CASE Positions(env, PWD) # {}
        <3>1. Present(EnvGet(Remembered, PWD)) = Present(EnvGet(env, PWD))
            BY <1>1, <1>4, <2>2, GetView
        <3>2. QED
            BY <3>1, Shown
    <2>3. QED
        BY <2>1, <2>2
<1>6. QED
    BY <1>3, <1>5

\* Remembering the old directory leaves PWD as it is.
LEMMA RememberedPwd ==
    ASSUME IsEnv(env)
    PROVE  EnvGet(Remembered, PWD) = EnvGet(env, PWD)
<1>1. OldPwd.null => Remembered = env
    BY DEF Remembered
<1>2. QED
    BY <1>1, RememberedView

\* Where an absolute path leads does not depend on the directory.
LEMMA AbsoluteFromAnywhere ==
    ASSUME NEW d, NEW e, NEW path, IsAbsolute(path)
    PROVE  /\ DirOf(d, path) = DirOf(e, path)
           /\ CanEnter(d, path) => CanEnter(e, path)
           /\ \A there : Leads(d, path, there) => Leads(e, path, there)
<1>1. Way(d, path) = Way(e, path)
    BY DEF Way
<1>2. DirOf(d, path) = DirOf(e, path)
    BY <1>1 DEF DirOf
<1>3. ASSUME NEW there, Leads(d, path, there) PROVE Leads(e, path, there)
    BY <1>1, <1>3 DEF Leads
<1>4. QED
    BY <1>2, <1>3 DEF CanEnter

-------------------------------------------------------------------------------
(* The refinement                                                               *)

\* A shell that runs always shows SHLVL.
LEMMA NeverEmpty ==
    ASSUME Inv, clean, Running
    PROVE  /\ Visible = View(env) /\ Abstract!Running
           /\ DOMAIN Visible = Names
<1>1. Visible = View(env)
    BY DEF Visible, Running
<1>2. View(env)[SHLVL].there /\ SHLVL \in Names
    BY EnvironmentAssumption DEF Inv, Good
<1>3. View(env) # [v \in Names |-> Absent]
    BY <1>2, Shown
<1>4. QED
    BY <1>1, <1>3 DEF Abstract!Running, Abstract!Empty, Abstract!Absent, Absent, View

\* An argument of export assigns, declares or changes nothing.
LEMMA ExportArgRefines ==
    ASSUME Inv, ExportArg, clean
    PROVE  Abstract!Next \/ Visible' = Visible
<1>1. /\ Running /\ Running' /\ clean' = clean /\ IsEnv(env)
      /\ Visible = View(env) /\ Visible' = View(env')
    BY DEF ExportArg, Running, Visible, Inv
<1>2. Abstract!Running /\ DOMAIN Visible = Names
    BY <1>1, NeverEmpty
<1> DEFINE key == KeyOf(Head(args))
           val == ValueOf(Head(args))
<1>3. CASE env' = env
    BY <1>1, <1>3
<1>4. CASE ~Refused(key) /\ env' = EnvUpdate(env, key[1], val)
    <2>1. PICK k \in Names : key = <<k>> /\ k # SHLVL
        BY <1>4 DEF Refused, IsValidVarName
    <2>2. env' = EnvUpdate(env, k, val)
        BY <1>4, <2>1
    <2> HIDE DEF key, val
    <2>3. CASE ~val.null \/ View(env)[k] = Absent
        <3>1. Visible' = [Visible EXCEPT ![k] = Present(val)]
            BY <1>1, <2>2, <2>3, UpdateView
        <3>2. Visible'[k] = Present(val) /\ Abstract!OnlyChanges(k)
            BY <1>2, <3>1 DEF Abstract!OnlyChanges
        <3>3. CASE ~val.null
            <4>1. Abstract!HasValue(Visible'[k])
                BY <3>2, <3>3, Shown DEF Abstract!HasValue
            <4>2. Abstract!Assign(k)
                BY <2>1, <3>2, <4>1 DEF Abstract!Assign
            <4>3. QED
                BY <1>2, <4>2 DEF Abstract!Next
        <3>4. CASE val.null /\ View(env)[k] = Absent
            <4>1. Abstract!Declared(Visible'[k])
                BY <3>2, <3>4, Shown DEF Abstract!Declared
            <4>2. Visible[k] = Abstract!Absent
                BY <1>1, <3>4 DEF Absent, Abstract!Absent
            <4>3. Abstract!Declare(k)
                BY <2>1, <3>2, <4>1, <4>2 DEF Abstract!Declare
            <4>4. QED
                BY <1>2, <4>3 DEF Abstract!Next
        <3>5. QED
            BY <2>3, <3>3, <3>4
    <2>4. CASE val.null /\ View(env)[k] # Absent
        <3>1. env' = env
            BY <1>1, <2>2, <2>4, UpdateView
        <3>2. QED
            BY <1>1, <3>1
    <2>5. QED
        BY <2>3, <2>4
<1>5. QED
    BY <1>3, <1>4 DEF ExportArg

\* An argument of unset removes one name or changes nothing.
LEMMA UnsetArgRefines ==
    ASSUME Inv, UnsetArg, clean
    PROVE  Abstract!Next \/ Visible' = Visible
<1>1. /\ Running /\ Running' /\ clean' = clean /\ IsEnv(env) /\ NamesOnce(env)
      /\ Visible = View(env) /\ Visible' = View(env')
    BY DEF UnsetArg, Running, Visible, Inv, UniqueNames
<1>2. Abstract!Running /\ DOMAIN Visible = Names
    BY <1>1, NeverEmpty
<1> DEFINE key == Head(args)
<1>3. CASE key # <<SHLVL>> /\ IsValidVarName(key)
    <2>1. PICK k \in Names : key = <<k>> /\ k # SHLVL
        BY <1>3 DEF IsValidVarName
    <2>2. env' = EnvDelete(env, k)
        BY <1>3, <2>1 DEF UnsetArg
    <2>3. Visible' = [Visible EXCEPT ![k] = Absent]
        BY <1>1, <2>2, DeleteView
    <2>4. Visible'[k] = Abstract!Absent /\ Abstract!OnlyChanges(k)
        BY <1>2, <2>3 DEF Abstract!OnlyChanges, Abstract!Absent, Absent
    <2>5. Abstract!Remove(k)
        BY <2>1, <2>4 DEF Abstract!Remove
    <2>6. QED
        BY <1>2, <2>5 DEF Abstract!Next
<1>4. CASE ~(key # <<SHLVL>> /\ IsValidVarName(key))
    BY <1>1, <1>4 DEF UnsetArg
<1>5. QED
    BY <1>3, <1>4

\* cd is a move, or sets one of its two variables, or changes nothing.
LEMMA CdRefines ==
    ASSUME Inv, Cd, clean
    PROVE  Abstract!Next \/ Visible' = Visible
<1>1. Running /\ Good(env) /\ cwd \in Directories /\ clean' = clean
    BY DEF Cd, Running, Inv, TypeOK
<1>2. /\ step' \in {"ready", "crashed"}
      /\ \/ env' = env
         \/ env' = Remembered
         \/ \E p : env' = EnvUpdate(Remembered, PWD, Str(p))
    BY <1>1, CdEnv
<1>3. /\ Visible = View(env) /\ Visible' = View(env') /\ IsEnv(env)
      /\ Abstract!Running /\ DOMAIN Visible = Names
    BY <1>1, <1>2, NeverEmpty DEF Visible, Good
<1>4. OLDPWD \in Names /\ PWD \in Names
    BY EnvironmentAssumption
<1>5. OLDPWD # PWD /\ OLDPWD # SHLVL /\ PWD # SHLVL
    BY DEF OLDPWD, PWD, SHLVL
<1>6. CASE env' = env
    BY <1>3, <1>6
<1>7. CASE OldPwd.null
    <2>1. Remembered = env
        BY <1>7 DEF Remembered
    <2>2. ASSUME NEW p, env' = EnvUpdate(env, PWD, Str(p))
          PROVE  Abstract!Next
        <3>1. ~Str(p).null
            BY DEF Str
        <3>2. Visible' = [Visible EXCEPT ![PWD] = Present(Str(p))]
            BY <1>3, <1>4, <2>2, <3>1, UpdateView
        <3>3. Visible'[PWD] = Present(Str(p)) /\ Abstract!OnlyChanges(PWD)
            BY <1>3, <1>4, <3>2 DEF Abstract!OnlyChanges
        <3>4. Abstract!Assign(PWD)
            BY <1>5, <3>1, <3>3, Shown DEF Abstract!Assign, Abstract!HasValue
        <3>5. QED
            BY <1>3, <1>4, <3>4 DEF Abstract!Next
    <2>3. QED
        BY <1>2, <1>6, <2>1, <2>2
<1>8. CASE ~OldPwd.null
    <2>1. /\ IsEnv(Remembered)
          /\ View(Remembered) = [View(env) EXCEPT ![OLDPWD] = Present(OldPwd)]
        BY <1>3, <1>8, RememberedView
    <2>2. ASSUME env' = Remembered PROVE Abstract!Next
        <3>1. Visible'[OLDPWD] = Present(OldPwd) /\ Abstract!OnlyChanges(OLDPWD)
            BY <1>3, <1>4, <2>1, <2>2 DEF Abstract!OnlyChanges
        <3>2. Abstract!Assign(OLDPWD)
            BY <1>5, <1>8, <3>1, Shown DEF Abstract!Assign, Abstract!HasValue
        <3>3. QED
            BY <1>3, <1>4, <3>2 DEF Abstract!Next
    <2>3. ASSUME NEW p, env' = EnvUpdate(Remembered, PWD, Str(p))
          PROVE  Abstract!Next
        <3>1. ~Str(p).null
            BY DEF Str
        <3>2. View(env') = [View(Remembered) EXCEPT ![PWD] = Present(Str(p))]
            <4>1. ASSUME NEW v, ~v.null
                  PROVE  View(EnvUpdate(Remembered, PWD, v)) =
                           [View(Remembered) EXCEPT ![PWD] = Present(v)]
                <5> DEFINE r == Remembered
                <5>1. IsEnv(r)
                    BY <2>1
                <5> HIDE DEF r
                <5>2. View(EnvUpdate(r, PWD, v)) = [View(r) EXCEPT ![PWD] = Present(v)]
                    BY <1>4, <4>1, <5>1, UpdateView
                <5>3. QED
                    BY <5>2 DEF r
            <4>2. QED
                BY <2>3, <3>1, <4>1
        <3>3. Visible' = [Visible EXCEPT ![OLDPWD] = Present(OldPwd),
                                         ![PWD] = Present(Str(p))]
            BY <1>3, <2>1, <3>2
        <3>4. Visible[PWD] = Present(OldPwd)
            <4>1. Positions(env, PWD) # {}
                BY <1>4, <1>8, GetView DEF OldPwd, NULL
            <4>2. QED
                BY <1>3, <1>4, <4>1, GetView DEF OldPwd
        <3>5. Visible'[PWD] = Present(Str(p))
            BY <1>3, <1>4, <3>3
        <3>6. Visible' = [Visible EXCEPT ![PWD] = Visible'[PWD],
                                         ![OLDPWD] = Visible[PWD]]
            BY <1>3, <1>4, <1>5, <3>3, <3>4, <3>5
        <3>7. Abstract!HasValue(Visible[PWD]) /\ Abstract!HasValue(Visible'[PWD])
            BY <1>8, <3>1, <3>4, <3>5, Shown DEF Abstract!HasValue
        <3>8. Abstract!Move
            BY <3>6, <3>7 DEF Abstract!Move
        <3>9. QED
            BY <1>3, <3>8 DEF Abstract!Next
    <2>4. QED
        BY <1>2, <1>6, <2>2, <2>3
<1>9. QED
    BY <1>7, <1>8

\* With its defaults a shell starts.
LEMMA AddEnvDefaultsRefines ==
    ASSUME Inv, AddEnvDefaults, clean
    PROVE  Abstract!Next
<1>1. step = "load" /\ step' = "ready" /\ clean' = clean
    BY DEF AddEnvDefaults
<1>2. Visible = NoParent /\ Visible' = View(env')
    BY <1>1 DEF Visible
<1>3. /\ NamesOnce(env)
      /\ \A k \in Essential : NotEmpty(env, k)
    <2>1. NamesOnce(env) /\ Loading /\ IsEnv(env)
        BY <1>1 DEF Inv, UniqueNames
    <2>2. ASSUME NEW k \in Essential PROVE NotEmpty(env, k)
        BY <2>1, <2>2, LoadedNotEmpty
    <2>3. QED
        BY <2>1, <2>2
<1>4. \A k \in Essential : View(env')[k].there /\ ~View(env')[k].val.null
    BY <1>3, DefaultsAdded DEF Inv
<1>5. Abstract!Start
    <2>1. Visible = Abstract!Empty
        BY <1>2 DEF NoParent, Absent, Abstract!Empty, Abstract!Absent
    <2>2. DOMAIN Visible' = Names
        BY <1>2 DEF View
    <2>3. \A k \in {PWD, PATH, SHLVL} : Abstract!HasValue(Visible'[k])
        BY <1>2, <1>4 DEF Essential, Abstract!HasValue
    <2>4. QED
        BY <2>1, <2>2, <2>3 DEF Abstract!Start
<1>6. QED
    BY <1>5 DEF Abstract!Next

\* The list of a shell with a clean environment is the map Store describes.
THEOREM StoreIsImplemented == Spec => ImplementsStore
<1>1. Init => Abstract!Init
    BY DEF Init, Visible, Abstract!Init, Abstract!Empty, Abstract!Absent, NoParent, Absent
<1>2. Inv /\ [Next]_vars => [Abstract!Next]_Visible
    <2> SUFFICES ASSUME Inv, [Next]_vars
                 PROVE  Abstract!Next \/ Visible' = Visible
        OBVIOUS
    <2>1. Visible' = NoParent => Abstract!Next
        BY DEF Abstract!Next, Abstract!Quit, Abstract!Empty, Abstract!Absent,
               NoParent, Absent
    <2>2. CASE LoadEntry
        BY <2>2 DEF LoadEntry, Visible
    <2>3. CASE AddEnvDefaults
        <3>1. CASE clean
            BY <2>3, <3>1, AddEnvDefaultsRefines
        <3>2. CASE ~clean
            BY <2>3, <3>2 DEF AddEnvDefaults, Visible
        <3>3. QED
            BY <3>1, <3>2
    <2>4. CASE Exit
        BY <2>1, <2>4 DEF Exit, Visible
    <2>5. CASE RunCommand
        <3>1. step' \in {"export", "unset", "cd"}
            BY <2>5, SessionAssumption DEF RunCommand
        <3>2. QED
            BY <2>5, <3>1 DEF RunCommand, Visible, View, Positions, SearchNode
    <2>6. CASE ExportArg
        <3>1. CASE clean
            BY <2>6, <3>1, ExportArgRefines
        <3>2. CASE ~clean
            BY <2>6, <3>2 DEF ExportArg, Visible
        <3>3. QED
            BY <3>1, <3>2
    <2>7. CASE UnsetArg
        <3>1. CASE clean
            BY <2>7, <3>1, UnsetArgRefines
        <3>2. CASE ~clean
            BY <2>7, <3>2 DEF UnsetArg, Visible
        <3>3. QED
            BY <3>1, <3>2
    <2>8. CASE EndLoop
        BY <2>8 DEF EndLoop, Visible, View, Positions, SearchNode
    <2>9. CASE Cd
        <3>1. CASE clean
            BY <2>9, <3>1, CdRefines
        <3>2. CASE ~clean
            BY <2>9, <3>2 DEF Cd, Visible
        <3>3. QED
            BY <3>1, <3>2
    <2>10. CASE Nest
        BY <2>1, <2>10 DEF Nest, Visible
    <2>11. CASE Rmdir
        BY <2>11 DEF Rmdir, Visible, View, Positions, SearchNode
    <2>12. CASE UNCHANGED vars
        BY <2>12 DEF vars, Visible, View, Positions, SearchNode
    <2>13. QED
        BY <2>2, <2>3, <2>4, <2>5, <2>6, <2>7, <2>8, <2>9, <2>10, <2>11, <2>12 DEF Next
<1>3. QED
    BY InvHolds, <1>1, <1>2, PTL DEF Spec, ImplementsStore, Abstract!Spec
-------------------------------------------------------------------------------
(* What can be found                                                            *)

\* What a char * can be in the list: NULL or a text.
Vals == {NULL} \cup {Str(t) : t \in Seq(Chars)}

Values(l) == {l[i].val : i \in DOMAIN l}

\* All that is kept, left to read or left to run is texts.
TextsOnly ==
    /\ Values(env) \subseteq Vals
    /\ \A j \in DOMAIN envp : envp[j] \in Seq(Chars)
    /\ args \in Seq(Seq(Chars))

\* The entries of a name in envp.
Entries(list, v) == {j \in DOMAIN list : KeyOf(list[j]) = <<v>>}

\* What there is of a name while the list is filled: the entry that has been
\* loaded, else the first that is left.
Merged(l, list, v) ==
    IF Positions(l, v) # {} THEN Present(EnvGet(l, v))
    ELSE IF Entries(list, v) # {} THEN Present(Given(list, v))
    ELSE Absent

\* A path that names the directory if it is absolute, or leads nowhere any more.
Right(m, dir, there) ==
    m.there /\ ~m.val.null /\ IsAbsolute(m.val.text) =>
        /\ Leads(<< >>, m.val.text, Directories)
        /\ DirOf(<< >>, m.val.text) = dir \/ ~Leads(<< >>, m.val.text, there)

\* What a shell gives another of a variable.
Handed(m) == IF m.there /\ m.val.null THEN Present(Str(<< >>)) ELSE m

\* What a shell will find under a name when it has started.
Effective(v) ==
    IF step = "load" THEN Merged(env, envp, v) ELSE View(env)[v]

FoundInv ==
    /\ TextsOnly
    /\ told => Right(Effective(PWD), cwd, dirs)
    /\ Running => View(env)[SHLVL].there
    /\ step \in {"export", "unset", "cd", "crashed"} => parent = NoParent
    /\ parent # NoParent => parent[SHLVL].there
    /\ step = "load" /\ parent # NoParent =>
          \A v \in Names : Merged(env, envp, v) = Handed(parent[v])
    /\ NestedKeeps

\* A list that shows the same of a name returns the same.
LEMMA SameView ==
    ASSUME NEW l, NEW m, NEW k \in Names, View(l)[k] = View(m)[k]
    PROVE  /\ Positions(l, k) = {} <=> Positions(m, k) = {}
           /\ EnvGet(l, k) = EnvGet(m, k)
<1>1. Positions(l, k) = {} <=> Positions(m, k) = {}
    BY GetView
<1>2. CASE Positions(l, k) = {}
    BY <1>1, <1>2, GetView
<1>3. CASE Positions(l, k) # {}
    <2>1. Present(EnvGet(l, k)) = Present(EnvGet(m, k))
        BY <1>1, <1>3, GetView
    <2>2. QED
        BY <1>1, <2>1, Shown
<1>4. QED
    BY <1>2, <1>3

\* What is found first in two lists is the same if the first entries are.
LEMMA FirstShown ==
    ASSUME NEW l, IsSequence(l), NEW k \in Names, NEW p \in 1..Len(l), l[p].key = k,
           \A i \in 1..Len(l) : l[i].key = k => p <= i
    PROVE  View(l)[k] = Present(l[p].val) /\ Positions(l, k) # {}
<1>1. Positions(l, k) # {} /\ SearchNode(l, k) = p
    BY FirstIsSearchNode
<1>2. QED
    BY <1>1 DEF View

\* env_add does not hide what is there.
LEMMA AddShows ==
    ASSUME NEW l, IsEnv(l), NEW j \in Names, NEW v, NEW k \in Names
    PROVE  /\ Positions(l, k) # {} => View(EnvAdd(l, j, v))[k] = View(l)[k]
           /\ Positions(l, k) = {} /\ j # k => View(EnvAdd(l, j, v))[k] = Absent
           /\ Positions(l, k) = {} /\ j = k => View(EnvAdd(l, j, v))[k] = Present(v)
<1> DEFINE m == EnvAdd(l, j, v)
<1>1. /\ IsEnv(m) /\ Len(m) = Len(l) + 1 /\ Len(l) \in Nat
      /\ \A i \in 1..Len(l) : m[i] = l[i]
      /\ m[Len(l) + 1] = Entry(j, v)
    BY AddIsEnv, EnvIsSequence
<1>2. IsSequence(m) /\ IsSequence(l) /\ DOMAIN l = 1..Len(l) /\ DOMAIN m = 1..(Len(l) + 1)
    BY <1>1, EnvIsSequence
<1>3. m[Len(l) + 1].key = j /\ m[Len(l) + 1].val = v
    BY <1>1 DEF Entry
<1> HIDE DEF m
<1>4. ASSUME Positions(l, k) # {} PROVE View(m)[k] = View(l)[k]
    <2>1. PICK p \in 1..Len(l) : /\ p = SearchNode(l, k) /\ l[p].key = k
                                 /\ \A i \in 1..Len(l) : l[i].key = k => p <= i
        BY <1>2, <1>4, SearchNodeIsFirst
    <2>2. p \in 1..Len(m) /\ m[p] = l[p]
        BY <1>1
    <2>3. \A i \in 1..Len(m) : m[i].key = k => p <= i
        <3>1. ASSUME NEW i \in 1..Len(m), m[i].key = k PROVE p <= i
            <4>1. CASE i \in 1..Len(l)
                BY <1>1, <2>1, <3>1, <4>1
            <4>2. CASE i \notin 1..Len(l)
                BY <1>1, <4>2
            <4>3. QED
                BY <4>1, <4>2
        <3>2. QED
            BY <3>1
    <2>4. View(m)[k] = Present(m[p].val)
        BY <1>2, <2>1, <2>2, <2>3, FirstShown
    <2>5. View(l)[k] = Present(l[p].val)
        BY <1>2, <2>1, FirstShown
    <2>6. QED
        BY <2>2, <2>4, <2>5
<1>5. ASSUME Positions(l, k) = {} PROVE \A i \in 1..Len(l) : m[i].key # k
    BY <1>1, <1>2, <1>5 DEF Positions
<1>6. ASSUME Positions(l, k) = {}, j # k PROVE View(m)[k] = Absent
    <2>1. \A i \in 1..(Len(l) + 1) : m[i].key # k
        BY <1>1, <1>3, <1>5, <1>6
    <2>2. Positions(m, k) = {}
        BY <1>2, <2>1 DEF Positions
    <2>3. QED
        BY <2>2, GetView
<1>7. ASSUME Positions(l, k) = {}, j = k PROVE View(m)[k] = Present(v)
    <2>1. Len(l) + 1 \in 1..Len(m)
        BY <1>1
    <2>2. \A i \in 1..Len(m) : m[i].key = k => Len(l) + 1 <= i
        BY <1>1, <1>5, <1>7
    <2>3. QED
        BY <1>2, <1>3, <1>7, <2>1, <2>2, FirstShown
<1>8. QED
    BY <1>4, <1>6, <1>7 DEF m

\* env_delete of a name leaves what is found under the others.
LEMMA DeleteShows ==
    ASSUME NEW l, IsEnv(l), NEW j \in Names, NEW k \in Names, j # k
    PROVE  View(EnvDelete(l, j))[k] = View(l)[k]
<1>1. CASE Positions(l, j) = {}
    BY <1>1 DEF EnvDelete
<1>2. CASE Positions(l, j) # {}
    <2> DEFINE m == EnvDelete(l, j)
               E(i) == IF i < SearchNode(l, j) THEN l[i] ELSE l[i + 1]
    <2>1. IsSequence(l) /\ Len(l) \in Nat /\ DOMAIN l = 1..Len(l)
        BY EnvIsSequence
    <2>2. PICK p \in 1..Len(l) : p = SearchNode(l, j) /\ l[p].key = j
        BY <1>2, <2>1, SearchNodeIsFirst
    <2>3. m = [i \in 1..(Len(l) - 1) |-> E(i)]
        BY <1>2 DEF EnvDelete
    <2>4. IsSequence(m)
        BY DeleteView, EnvIsSequence
    <2>5. Len(l) - 1 \in Nat /\ DOMAIN m = 1..(Len(l) - 1)
        BY <2>1, <2>2, <2>3
    <2>6. Len(m) = Len(l) - 1
        <3>1. DOMAIN m = 1..Len(m) /\ Len(m) \in Nat
            BY <2>4 DEF IsSequence
        <3> HIDE DEF m
        <3>2. QED
            BY <2>5, <3>1
    <2>7. /\ \A i \in 1..(p - 1) : m[i] = l[i]
          /\ \A i \in p..(Len(l) - 1) : m[i] = l[i + 1]
        BY <2>1, <2>2, <2>3
    <2> HIDE DEF m
    <2>8. CASE Positions(l, k) = {}
        <3>1. \A i \in 1..Len(l) : l[i].key # k
            BY <2>1, <2>8 DEF Positions
        <3>2. ASSUME NEW i \in 1..(Len(l) - 1) PROVE m[i].key # k
            <4>1. CASE i < p
                BY <2>1, <2>7, <3>1, <4>1
            <4>2. CASE ~(i < p)
                BY <2>1, <2>7, <3>1, <4>2
            <4>3. QED
                BY <4>1, <4>2
        <3>3. Positions(m, k) = {}
            BY <2>5, <3>2 DEF Positions
        <3>4. QED
            BY <2>8, <3>3, GetView DEF m
    <2>9. CASE Positions(l, k) # {}
        <3>1. PICK q \in 1..Len(l) : /\ l[q].key = k
                                     /\ \A i \in 1..Len(l) : l[i].key = k => q <= i
            BY <2>1, <2>9, SearchNodeIsFirst
        <3>2. q # p
            BY <2>2, <3>1
        <3>3. View(l)[k] = Present(l[q].val)
            BY <2>1, <3>1, FirstShown
        <3> DEFINE r == IF q < p THEN q ELSE q - 1
        <3>4. r \in 1..Len(m) /\ m[r] = l[q]
            BY <2>1, <2>2, <2>6, <2>7, <3>2
        <3>5. ASSUME NEW i \in 1..Len(m), m[i].key = k PROVE r <= i
            <4>1. CASE i < p
                <5>1. i \in 1..Len(l) /\ m[i] = l[i]
                    BY <2>1, <2>6, <2>7, <4>1
                <5>2. q <= i
                    BY <3>1, <3>5, <5>1
                <5>3. QED
                    BY <4>1, <5>2
            <4>2. CASE ~(i < p)
                <5>1. i + 1 \in 1..Len(l) /\ m[i] = l[i + 1]
                    BY <2>1, <2>6, <2>7, <4>2
                <5>2. q <= i + 1
                    BY <3>1, <3>5, <5>1
                <5>3. QED
                    BY <3>2, <4>2, <5>2
            <4>3. QED
                BY <4>1, <4>2
        <3> HIDE DEF r
        <3>6. View(m)[k] = Present(m[r].val)
            BY <2>4, <3>1, <3>4, <3>5, FirstShown DEF m
        <3>7. QED
            BY <3>3, <3>4, <3>6 DEF m
    <2>10. QED
        BY <2>8, <2>9
<1>3. QED
    BY <1>1, <1>2

\* No operation makes a value that was not there or given.
LEMMA ValuesAreOld ==
    ASSUME NEW l, IsEnv(l), NEW k \in Names, NEW v
    PROVE  /\ Values(EnvAdd(l, k, v)) \subseteq Values(l) \cup {v}
           /\ Values(EnvUpdate(l, k, v)) \subseteq Values(l) \cup {v}
           /\ Values(EnvDelete(l, k)) \subseteq Values(l)
           /\ EnvGet(l, k) \in Values(l) \cup {NULL}
<1>1. IsSequence(l) /\ Len(l) \in Nat /\ DOMAIN l = 1..Len(l)
    BY EnvIsSequence
<1>2. Values(EnvAdd(l, k, v)) \subseteq Values(l) \cup {v}
    <2>1. /\ DOMAIN EnvAdd(l, k, v) = 1..(Len(l) + 1)
          /\ \A i \in 1..Len(l) : EnvAdd(l, k, v)[i] = l[i]
          /\ EnvAdd(l, k, v)[Len(l) + 1].val = v
        <3> DEFINE m == EnvAdd(l, k, v)
        <3>1. /\ IsEnv(m) /\ Len(m) = Len(l) + 1
              /\ \A i \in 1..Len(l) : m[i] = l[i]
              /\ m[Len(l) + 1] = Entry(k, v)
            BY AddIsEnv
        <3> HIDE DEF m
        <3>2. DOMAIN m = 1..(Len(l) + 1)
            BY <3>1, EnvIsSequence
        <3>3. m[Len(l) + 1].val = v
            BY <3>1 DEF Entry
        <3>4. QED
            BY <3>1, <3>2, <3>3 DEF m
    <2>2. \A i \in 1..(Len(l) + 1) : i \in 1..Len(l) \/ i = Len(l) + 1
        BY <1>1
    <2>3. QED
        BY <1>1, <2>1, <2>2 DEF Values
<1>3. ASSUME Positions(l, k) # {}
      PROVE  SearchNode(l, k) \in 1..Len(l)
    BY <1>1, <1>3, SearchNodeIsFirst
<1>4. Values(EnvUpdate(l, k, v)) \subseteq Values(l) \cup {v}
    <2>1. CASE Positions(l, k) = {} \/ v.null
        BY <1>2, <2>1 DEF EnvUpdate
    <2>2. CASE Positions(l, k) # {} /\ ~v.null
        <3>1. EnvUpdate(l, k, v) = [l EXCEPT ![SearchNode(l, k)] = Entry(k, v)]
            BY <2>2 DEF EnvUpdate
        <3>2. Entry(k, v).val = v
            BY DEF Entry
        <3>3. \A i \in DOMAIN l : EnvUpdate(l, k, v)[i] \in {l[i], Entry(k, v)}
            BY <3>1
        <3>4. DOMAIN EnvUpdate(l, k, v) = DOMAIN l
            BY <3>1
        <3>5. QED
            BY <3>2, <3>3, <3>4 DEF Values
    <2>3. QED
        BY <2>1, <2>2
<1>5. Values(EnvDelete(l, k)) \subseteq Values(l)
    <2>1. CASE Positions(l, k) = {}
        BY <2>1 DEF EnvDelete
    <2>2. CASE Positions(l, k) # {}
        <3> DEFINE E(i) == IF i < SearchNode(l, k) THEN l[i] ELSE l[i + 1]
        <3>1. EnvDelete(l, k) = [i \in 1..(Len(l) - 1) |-> E(i)]
            BY <2>2 DEF EnvDelete
        <3>2. \A i \in 1..(Len(l) - 1) : i \in 1..Len(l) /\ i + 1 \in 1..Len(l)
            BY <1>1
        <3>3. QED
            BY <1>1, <3>1, <3>2 DEF Values
    <2>3. QED
        BY <2>1, <2>2
<1>6. EnvGet(l, k) \in Values(l) \cup {NULL}
    BY <1>1, <1>3 DEF EnvGet, Values
<1>7. QED
    BY <1>2, <1>4, <1>5, <1>6

\* What an entry of envp holds is a text or NULL.
LEMMA EntryIsText ==
    ASSUME NEW s \in Seq(Chars)
    PROVE  KeyOf(s) \in Seq(Chars) /\ ValueOf(s) \in Vals
<1>1. FtSplitKeyValue(s).key \in Seq(Chars) /\ FtSplitKeyValue(s).val \in Seq(Chars)
    BY SplitIsText
<1>2. QED
    BY <1>1 DEF KeyOf, ValueOf, Vals, Str

\* A value that is not empty is a text.
LEMMA ValueIsText ==
    ASSUME NEW v \in Vals
    PROVE  /\ ~v.null => v.text \in Seq(Chars) /\ v = Str(v.text)
           /\ v.null => v = NULL
           /\ v.null \in BOOLEAN
<1>1. CASE v = NULL
    BY <1>1 DEF NULL
<1>2. CASE v # NULL
    <2>1. PICK t \in Seq(Chars) : v = Str(t)
        BY <1>2 DEF Vals
    <2>2. v.null = FALSE /\ v.text = t
        BY <2>1 DEF Str
    <2>3. QED
        BY <2>1, <2>2
<1>3. QED
    BY <1>1, <1>2

\* A text is a value and is found in it again.
LEMMA TextIsValue == \A t \in Seq(Chars) : Str(t) \in Vals /\ ~Str(t).null /\ Str(t).text = t
BY DEF Vals, Str

\* What is found in a list of texts is a text or NULL.
LEMMA FoundIsText ==
    ASSUME NEW l, IsEnv(l), Values(l) \subseteq Vals, NEW k \in Names
    PROVE  EnvGet(l, k) \in Vals
<1>1. EnvGet(l, k) \in Values(l) \cup {NULL}
    BY ValuesAreOld
<1>2. QED
    BY <1>1 DEF Vals

\* getcwd returns NULL or a text.
LEMMA GetcwdIsText == cwd \in Directories => Getcwd \in Vals
<1>1. cwd \in Directories => PathTo(cwd) \in Seq(Chars)
    BY SessionAssumption
<1>2. QED
    BY <1>1, TextIsValue DEF Getcwd, Vals

\* A cd that changes anything is given a text.
LEMMA CdIsGivenText ==
    ASSUME Inv, TextsOnly, Cd
    PROVE  \/ Stay(1)
           \/ \E p \in Seq(Chars) : CdPath(p)
           \/ step' = "crashed" /\ UNCHANGED <<env, cwd, status, told>>
<1> DEFINE Goal == \/ Stay(1)
                   \/ \E p \in Seq(Chars) : CdPath(p)
                   \/ step' = "crashed" /\ UNCHANGED <<env, cwd, status, told>>
<1>1. Stay(1) => Goal
    OBVIOUS
<1>2. ASSUME NEW p \in Seq(Chars), CdPath(p) PROVE Goal
    BY <1>2
<1>3. /\ IsEnv(env) /\ Values(env) \subseteq Vals /\ cwd \in Directories
      /\ HOME \in Names /\ OLDPWD \in Names /\ PWD \in Names
    BY EnvironmentAssumption DEF Inv, TypeOK, TextsOnly
<1> HIDE DEF Goal
<1>4. ASSUME NEW v \in Names, CdVariable(v) PROVE Goal
    <2>1. CASE IsEmptyStr(EnvGet(env, v))
        BY <1>1, <1>4, <2>1 DEF CdVariable
    <2>2. CASE ~IsEmptyStr(EnvGet(env, v))
        <3>1. EnvGet(env, v) \in Vals /\ ~EnvGet(env, v).null
            BY <1>3, <2>2, FoundIsText DEF IsEmptyStr
        <3>2. EnvGet(env, v).text \in Seq(Chars)
            BY <3>1, ValueIsText
        <3>3. QED
            BY <1>2, <1>4, <2>2, <3>2 DEF CdVariable
    <2>3. QED
        BY <2>1, <2>2
<1>5. ASSUME NEW d \in Seq(Chars), CdDir(d) PROVE Goal
    <2>1. CASE ~IsAbsolute(d) /\ GetPwd.null
        BY <1>1, <1>5, <2>1 DEF CdDir
    <2>2. CASE ~(~IsAbsolute(d) /\ GetPwd.null)
        <3> DEFINE curpath == IF IsAbsolute(d) THEN d ELSE GetPwd.text \o <<"/">> \o d
                   form == GetPathCanonicalForm(curpath)
        <3>1. \/ form.bad = "no" /\ CdPath(form.text)
              \/ form.bad = "none" /\ Stay(1)
              \/ /\ form.bad = "fault"
                 /\ step' = "crashed"
                 /\ UNCHANGED <<env, cwd, status, told>>
            BY <1>5, <2>2 DEF CdDir
        <3>2. GetPwd \in Vals
            <4>1. OldPwd \in Vals
                BY <1>3, FoundIsText DEF OldPwd
            <4>2. Getcwd \in Vals
                BY <1>3, GetcwdIsText
            <4>3. QED
                BY <4>1, <4>2 DEF GetPwd
        <3>3. curpath \in Seq(Chars)
            <4>1. CASE IsAbsolute(d)
                BY <4>1
            <4>2. CASE ~IsAbsolute(d)
                <5>1. GetPwd.text \in Seq(Chars)
                    BY <2>2, <3>2, <4>2, ValueIsText
                <5>2. "/" \in Chars
                    BY SlashAndDot
                <5>3. GetPwd.text \o <<"/">> \o d \in Seq(Chars)
                    BY <5>1, <5>2
                <5>4. QED
                    BY <4>2, <5>3
            <4>3. QED
                BY <4>1, <4>2
        <3> HIDE DEF curpath
        <3>4. form.text \in Seq(Chars)
            BY <3>3, CanonicalFormFits
        <3> HIDE DEF form
        <3>5. QED
            BY <1>1, <1>2, <3>1, <3>4 DEF Goal
    <2>3. QED
        BY <2>1, <2>2
<1>6. \/ Stay(1) \/ CdVariable(HOME) \/ CdVariable(OLDPWD)
      \/ args[1] \in Seq(Chars) /\ CdDir(args[1])
    <2>1. args \in Seq(Seq(Chars))
        BY DEF TextsOnly
    <2>2. args # << >> => args[1] \in Seq(Chars)
        BY <2>1
    <2>3. QED
        BY <2>2 DEF Cd
<1>7. Goal
    BY <1>1, <1>3, <1>4, <1>5, <1>6
<1>8. QED
    BY <1>7 DEF Goal

\* What cd leaves in the list are texts.
LEMMA CdKeepsTexts ==
    ASSUME Inv, TextsOnly, Cd
    PROVE  Values(env') \subseteq Vals
<1>1. IsEnv(env) /\ Values(env) \subseteq Vals /\ PWD \in Names /\ OLDPWD \in Names
    BY EnvironmentAssumption DEF Inv, TextsOnly
<1>2. OldPwd \in Vals
    BY <1>1, FoundIsText DEF OldPwd
<1>3. IsEnv(Remembered) /\ Values(Remembered) \subseteq Vals
    <2>1. /\ Values(EnvUpdate(env, OLDPWD, OldPwd)) \subseteq Vals
          /\ IsEnv(EnvUpdate(env, OLDPWD, OldPwd))
        BY <1>1, <1>2, ValuesAreOld, UpdateView
    <2>2. QED
        BY <1>1, <2>1 DEF Remembered
<1>4. ASSUME NEW p \in Seq(Chars), CdPath(p) PROVE Values(env') \subseteq Vals
    <2>1. Values(EnvUpdate(Remembered, PWD, Str(p))) \subseteq Values(Remembered) \cup {Str(p)}
        BY <1>1, <1>3, ValuesAreOld
    <2>2. Str(p) \in Vals
        BY TextIsValue
    <2>3. \/ env' = env \/ env' = Remembered
          \/ env' = EnvUpdate(Remembered, PWD, Str(p))
        BY <1>4 DEF CdPath, Stay
    <2>4. QED
        BY <1>1, <1>3, <2>1, <2>2, <2>3
<1>5. QED
    BY <1>1, <1>4, CdIsGivenText DEF Stay

\* The defaults are texts.
LEMMA DefaultsAreTexts ==
    ASSUME Inv, TextsOnly, AddEnvDefaults
    PROVE  Values(env') \subseteq Vals
<1> DEFINE l1 == AddPwd(env)
           l2 == AddPath(l1)
           l3 == AddShlvl(l2)
<1>1. /\ IsEnv(env) /\ Values(env) \subseteq Vals
      /\ PWD \in Names /\ PATH \in Names /\ SHLVL \in Names /\ cwd \in Directories
    BY EnvironmentAssumption DEF Inv, TypeOK, TextsOnly
<1>2. env' = l3
    BY DEF AddEnvDefaults
<1>3. IsEnv(l1) /\ Values(l1) \subseteq Vals
    <2>1. Getcwd \in Vals
        BY <1>1, GetcwdIsText
    <2>2. IsEnv(EnvAdd(env, PWD, Getcwd)) /\ Values(EnvAdd(env, PWD, Getcwd)) \subseteq Vals
        BY <1>1, <2>1, AddIsEnv, ValuesAreOld
    <2>3. QED
        BY <1>1, <2>2 DEF AddPwd
<1> HIDE DEF l1
<1>4. IsEnv(l2) /\ Values(l2) \subseteq Vals
    <2> DEFINE v == Str(DefaultPath)
    <2>1. v \in Vals
        BY TextIsValue, SessionAssumption
    <2> HIDE DEF v
    <2>2. IsEnv(EnvAdd(l1, PATH, v)) /\ Values(EnvAdd(l1, PATH, v)) \subseteq Vals
        BY <1>1, <1>3, <2>1, AddIsEnv, ValuesAreOld
    <2>3. QED
        BY <1>3, <2>2 DEF AddPath, v
<1> HIDE DEF l2
<1>5. Values(l3) \subseteq Vals
    <2>1. CASE IsEmptyStr(EnvGet(l2, SHLVL))
        <3> DEFINE v == Str(<<"1">>)
        <3>1. v \in Vals
            <4>1. "1" \in Chars
                <5>1. Numerals[2] = "1"
                    BY DEF Numerals
                <5>2. QED
                    BY <5>1, CharactersAssumption DEF Digits
            <4>2. <<"1">> \in Seq(Chars)
                BY <4>1
            <4>3. QED
                BY <4>2, TextIsValue
        <3> HIDE DEF v
        <3>2. Values(EnvAdd(l2, SHLVL, v)) \subseteq Vals
            BY <1>1, <1>4, <3>1, ValuesAreOld
        <3>3. QED
            BY <2>1, <3>2 DEF AddShlvl, v
    <2>2. CASE ~IsEmptyStr(EnvGet(l2, SHLVL))
        <3> DEFINE v == Str(FtItoa(FtAtoi(EnvGet(l2, SHLVL).text) + 1))
        <3>1. v \in Vals
            <4>1. EnvGet(l2, SHLVL) \in Vals /\ ~EnvGet(l2, SHLVL).null
                BY <1>1, <1>4, <2>2, FoundIsText DEF IsEmptyStr
            <4>2. PICK k \in Nat : k = FtAtoi(EnvGet(l2, SHLVL).text)
                BY <4>1, ValueIsText, AtoiIsNumber
            <4>3. k + 1 \in Nat
                OBVIOUS
            <4>4. FtItoa(k + 1) \in Seq(Chars)
                BY <4>3, ItoaIsText
            <4>5. QED
                BY <4>2, <4>4, TextIsValue
        <3> HIDE DEF v
        <3>2. Values(EnvUpdate(l2, SHLVL, v)) \subseteq Vals
            BY <1>1, <1>4, <3>1, ValuesAreOld
        <3>3. QED
            BY <2>2, <3>2 DEF AddShlvl, IncreaseShlvl, v
    <2>3. QED
        BY <2>1, <2>2
<1>6. QED
    BY <1>2, <1>5

\* The first entry that is left is a text, and so are those after it.
LEMMA EntriesAreTexts ==
    ASSUME Inv, TextsOnly, envp # << >>
    PROVE  /\ Head(envp) \in Seq(Chars)
           /\ \A j \in DOMAIN Tail(envp) : Tail(envp)[j] \in Seq(Chars)
           /\ Len(envp) \in Nat \ {0} /\ DOMAIN envp = 1..Len(envp)
           /\ Head(envp) = envp[1]
           /\ DOMAIN Tail(envp) = 1..(Len(envp) - 1)
           /\ \A j \in 1..(Len(envp) - 1) : Tail(envp)[j] = envp[j + 1]
<1>1. PICK S : envp \in Seq(S)
    BY DEF Inv, IsSequence
<1>2. /\ Len(envp) \in Nat \ {0} /\ DOMAIN envp = 1..Len(envp)
      /\ Head(envp) = envp[1]
      /\ DOMAIN Tail(envp) = 1..(Len(envp) - 1)
      /\ \A j \in 1..(Len(envp) - 1) : Tail(envp)[j] = envp[j + 1]
    BY <1>1
<1>3. \A j \in 1..Len(envp) : envp[j] \in Seq(Chars)
    BY <1>2 DEF TextsOnly
<1>4. QED
    BY <1>2, <1>3

\* All a session keeps is texts.
LEMMA TextsStay == Inv /\ TextsOnly /\ [Next]_vars => TextsOnly'
<1> SUFFICES ASSUME Inv, TextsOnly, [Next]_vars PROVE TextsOnly'
    OBVIOUS
<1>1. /\ IsEnv(env) /\ Values(env) \subseteq Vals /\ args \in Seq(Seq(Chars))
      /\ \A j \in DOMAIN envp : envp[j] \in Seq(Chars)
    BY DEF Inv, TextsOnly
<1>2. << >> \in Seq(Seq(Chars))
    OBVIOUS
<1>3. args # << >> => Head(args) \in Seq(Chars) /\ Tail(args) \in Seq(Seq(Chars))
    BY <1>1
<1>4. CASE LoadEntry
    <2>1. /\ envp # << >> /\ envp' = Tail(envp) /\ args' = args
          /\ env' = IF IsValidVarName(KeyOf(Head(envp)))
                    THEN EnvAdd(env, KeyOf(Head(envp))[1], ValueOf(Head(envp))) ELSE env
        BY <1>4 DEF LoadEntry
    <2>2. /\ Head(envp) \in Seq(Chars)
          /\ \A j \in DOMAIN Tail(envp) : Tail(envp)[j] \in Seq(Chars)
        BY <2>1, EntriesAreTexts
    <2>3. ValueOf(Head(envp)) \in Vals
        BY <2>2, EntryIsText
    <2>4. IsValidVarName(KeyOf(Head(envp))) => KeyOf(Head(envp))[1] \in Names
        BY DEF IsValidVarName
    <2>5. Values(env') \subseteq Vals
        BY <1>1, <2>1, <2>3, <2>4, ValuesAreOld
    <2>6. QED
        BY <1>1, <2>1, <2>2, <2>5 DEF TextsOnly
<1>5. CASE AddEnvDefaults
    BY <1>1, <1>5, DefaultsAreTexts DEF TextsOnly, AddEnvDefaults
<1>6. CASE RunCommand
    BY <1>1, <1>6, SessionAssumption DEF TextsOnly, RunCommand
<1>7. CASE ExportArg
    <2> DEFINE key == KeyOf(Head(args))
               val == ValueOf(Head(args))
    <2>1. /\ args # << >> /\ envp' = envp
          /\ args' \in {Tail(args), << >>}
          /\ env' = env \/ (~Refused(key) /\ env' = EnvUpdate(env, key[1], val))
        BY <1>7 DEF ExportArg
    <2>2. val \in Vals
        BY <1>3, <2>1, EntryIsText
    <2> HIDE DEF key, val
    <2>3. ~Refused(key) => key[1] \in Names
        BY DEF Refused, IsValidVarName
    <2>4. Values(env') \subseteq Vals
        BY <1>1, <2>1, <2>2, <2>3, ValuesAreOld
    <2>5. QED
        BY <1>1, <1>2, <1>3, <2>1, <2>4 DEF TextsOnly
<1>8. CASE UnsetArg
    <2> DEFINE key == Head(args)
    <2>1. /\ args # << >> /\ envp' = envp /\ args' = Tail(args)
          /\ env' = env \/ (IsValidVarName(key) /\ env' = EnvDelete(env, key[1]))
        BY <1>8 DEF UnsetArg
    <2> HIDE DEF key
    <2>2. IsValidVarName(key) => key[1] \in Names
        BY DEF IsValidVarName
    <2>3. Values(env') \subseteq Vals
        BY <1>1, <2>1, <2>2, ValuesAreOld
    <2>4. QED
        BY <1>1, <1>3, <2>1, <2>3 DEF TextsOnly
<1>9. CASE Cd
    <2>1. args' = << >> /\ envp' = envp
        BY <1>9 DEF Cd
    <2>2. Values(env') \subseteq Vals
        BY <1>9, CdKeepsTexts
    <2>3. QED
        BY <1>1, <1>2, <2>1, <2>2 DEF TextsOnly
<1>10. CASE Nest
    <2>1. env' = << >> /\ args' = << >> /\ envp' = EnvToEnvp(env)
        BY <1>10 DEF Nest
    <2>2. Values(env') \subseteq Vals
        BY <2>1 DEF Values
    <2>3. ASSUME NEW i \in DOMAIN env PROVE envp'[i] \in Seq(Chars)
        <3>1. env[i].key \in Names /\ env[i].val \in Vals
            BY <1>1, EnvTyped DEF Values
        <3>2. env[i].key \in Chars /\ env[i].key # "="
            BY <3>1, SessionAssumption
        <3>3. PICK t \in Seq(Chars) : t = IF env[i].val.null THEN << >> ELSE env[i].val.text
            <4>1. << >> \in Seq(Chars)
                OBVIOUS
            <4>2. CASE env[i].val.null
                BY <4>1, <4>2
            <4>3. CASE ~env[i].val.null
                BY <3>1, <4>3, ValueIsText
            <4>4. QED
                BY <4>2, <4>3
        <3>4. envp'[i] = <<env[i].key, "=">> \o t
            BY <2>1, <3>3 DEF EnvToEnvp
        <3>5. QED
            BY <3>2, <3>4, EntryIsRead
    <2>4. DOMAIN envp' = DOMAIN env
        BY <2>1 DEF EnvToEnvp
    <2>5. QED
        BY <1>2, <2>1, <2>2, <2>3, <2>4 DEF TextsOnly
<1>11. CASE Exit \/ EndLoop \/ Rmdir \/ UNCHANGED vars
    BY <1>1, <1>2, <1>11 DEF Exit, EndLoop, Rmdir, vars, TextsOnly, Values
<1>12. QED
    BY <1>4, <1>5, <1>6, <1>7, <1>8, <1>9, <1>10, <1>11 DEF Next

\* env_update of a name leaves what is found under the others.
LEMMA UpdateShows ==
    ASSUME NEW l, IsEnv(l), NEW j \in Names, NEW v, NEW k \in Names, j # k
    PROVE  View(EnvUpdate(l, j, v))[k] = View(l)[k]
<1>1. CASE ~v.null \/ View(l)[j] = Absent
    <2>1. View(EnvUpdate(l, j, v)) = [View(l) EXCEPT ![j] = Present(v)]
        BY <1>1, UpdateView
    <2>2. QED
        BY <2>1
<1>2. CASE ~(~v.null \/ View(l)[j] = Absent)
    <2>1. EnvUpdate(l, j, v) = l
        BY <1>2, UpdateView
    <2>2. QED
        BY <2>1
<1>3. QED
    BY <1>1, <1>2

\* The first entry that is left is what is there of its name.
LEMMA HeadGiven ==
    ASSUME NEW v, Inv, TextsOnly, envp # << >>, KeyOf(Head(envp)) = <<v>>
    PROVE  Entries(envp, v) # {} /\ Given(envp, v) = ValueOf(Head(envp))
<1> DEFINE E == Entries(envp, v)
<1>1. Len(envp) \in Nat \ {0} /\ DOMAIN envp = 1..Len(envp) /\ Head(envp) = envp[1]
    BY EntriesAreTexts
<1>2. E \subseteq 1..Len(envp) /\ 1 \in E
    BY <1>1 DEF Entries
<1>3. PICK m : m = Min(E)
    OBVIOUS
<1>4. Given(envp, v) = ValueOf(envp[m])
    BY <1>2, <1>3 DEF Given, Entries
<1> HIDE DEF E
<1>5. E \subseteq Int /\ \A i \in E : 1 <= i
    BY <1>1, <1>2
<1>6. m = 1
    <2>1. m \in E /\ \A i \in E : m <= i
        BY <1>2, <1>3, <1>5, MinIsLeast
    <2>2. QED
        BY <1>2, <1>5, <2>1
<1>7. QED
    BY <1>1, <1>2, <1>4, <1>6 DEF E

\* An entry of another name does not count for a name.
LEMMA TailGiven ==
    ASSUME NEW v, Inv, TextsOnly, envp # << >>, KeyOf(Head(envp)) # <<v>>
    PROVE  /\ Entries(Tail(envp), v) = {} <=> Entries(envp, v) = {}
           /\ Given(Tail(envp), v) = Given(envp, v)
<1> DEFINE E == Entries(envp, v)
           F == Entries(Tail(envp), v)
<1>1. /\ Len(envp) \in Nat \ {0} /\ DOMAIN envp = 1..Len(envp) /\ Head(envp) = envp[1]
      /\ DOMAIN Tail(envp) = 1..(Len(envp) - 1)
      /\ \A j \in 1..(Len(envp) - 1) : Tail(envp)[j] = envp[j + 1]
    BY EntriesAreTexts
<1>2. \A j \in F : j \in 1..(Len(envp) - 1) /\ KeyOf(Tail(envp)[j]) = <<v>>
    BY <1>1 DEF Entries
<1>3. \A j \in F : j \in Int /\ j + 1 \in E
    BY <1>1, <1>2 DEF Entries
<1>4. \A j \in E : j \in 1..Len(envp) /\ KeyOf(envp[j]) = <<v>>
    BY <1>1 DEF Entries
<1>5. \A j \in E : j \in Int /\ j - 1 \in F
    <2> SUFFICES ASSUME NEW j \in E PROVE j \in Int /\ j - 1 \in F
        OBVIOUS
    <2>1. j \in 1..Len(envp) /\ j # 1
        BY <1>1, <1>4
    <2>2. j - 1 \in 1..(Len(envp) - 1) /\ (j - 1) + 1 = j
        BY <1>1, <2>1
    <2>3. KeyOf(Tail(envp)[j - 1]) = <<v>>
        BY <1>1, <1>4, <2>2
    <2>4. QED
        BY <1>1, <2>1, <2>2, <2>3 DEF Entries
<1>6. F = {} => Given(Tail(envp), v) = NULL
    BY DEF Given, Entries
<1>7. E = {} => Given(envp, v) = NULL
    BY DEF Given, Entries
<1>8. F # {} => Given(Tail(envp), v) = ValueOf(Tail(envp)[Min(F)])
    BY DEF Given, Entries
<1>9. E # {} => Given(envp, v) = ValueOf(envp[Min(E)])
    BY DEF Given, Entries
<1> HIDE DEF E, F
<1>10. F = {} <=> E = {}
    BY <1>3, <1>5
<1>11. CASE E = {}
    BY <1>6, <1>7, <1>10, <1>11 DEF E, F
<1>12. CASE E # {}
    <2>1. E \subseteq Int /\ \A i \in E : 1 <= i
        BY <1>4
    <2>2. F \subseteq Int /\ \A i \in F : 1 <= i
        BY <1>2
    <2>3. PICK a : a = Min(E)
        OBVIOUS
    <2>4. PICK b : b = Min(F)
        OBVIOUS
    <2>5. a \in E /\ \A i \in E : a <= i
        BY <1>12, <2>1, <2>3, MinIsLeast
    <2>6. b \in F /\ \A i \in F : b <= i
        BY <1>10, <1>12, <2>2, <2>4, MinIsLeast
    <2>7. a <= b + 1 /\ b <= a - 1 /\ a \in Int /\ b \in Int
        BY <1>3, <1>5, <2>5, <2>6
    <2>8. a = b + 1
        BY <2>7
    <2>9. Tail(envp)[b] = envp[a]
        BY <1>1, <1>2, <2>6, <2>8
    <2>10. QED
        BY <1>8, <1>9, <1>10, <1>12, <2>3, <2>4, <2>9 DEF E, F
<1>13. QED
    BY <1>11, <1>12

\* Loading an entry does not change what the shell will find.
LEMMA MergedStays ==
    ASSUME Inv, TextsOnly, LoadEntry, NEW v \in Names
    PROVE  Merged(env', envp', v) = Merged(env, envp, v)
<1> DEFINE key == KeyOf(Head(envp))
           val == ValueOf(Head(envp))
<1>1. /\ envp # << >> /\ envp' = Tail(envp) /\ IsEnv(env)
      /\ env' = IF IsValidVarName(key) THEN EnvAdd(env, key[1], val) ELSE env
    BY DEF LoadEntry, Inv
<1>2. key = <<v>> => Entries(envp, v) # {} /\ Given(envp, v) = val
    BY <1>1, HeadGiven
<1>3. key # <<v>> => /\ Entries(envp', v) = {} <=> Entries(envp, v) = {}
                     /\ Given(envp', v) = Given(envp, v)
    BY <1>1, TailGiven
<1> HIDE DEF key, val
<1>4. \/ env' = env /\ key # <<v>>
      \/ \E k \in Names : key = <<k>> /\ env' = EnvAdd(env, k, val)
    BY <1>1 DEF IsValidVarName
<1>5. CASE Positions(env, v) # {}
    <2>1. View(env')[v] = View(env)[v]
        BY <1>1, <1>4, <1>5, AddShows
    <2>2. Positions(env', v) # {} /\ EnvGet(env', v) = EnvGet(env, v)
        BY <1>5, <2>1, SameView
    <2>3. QED
        BY <1>5, <2>2 DEF Merged
<1>6. CASE Positions(env, v) = {} /\ key = <<v>>
    <2>1. env' = EnvAdd(env, v, val)
        BY <1>4, <1>6
    <2>2. View(env')[v] = Present(val)
        BY <1>1, <1>6, <2>1, AddShows
    <2>3. Positions(env', v) # {} /\ View(env')[v] = Present(EnvGet(env', v))
        BY <2>2, GetView, Shown
    <2>4. QED
        BY <1>2, <1>6, <2>2, <2>3 DEF Merged
<1>7. CASE Positions(env, v) = {} /\ key # <<v>>
    <2>1. View(env')[v] = Absent
        <3>1. CASE env' = env
            BY <1>7, <3>1, GetView
        <3>2. CASE \E k \in Names : key = <<k>> /\ env' = EnvAdd(env, k, val)
            BY <1>1, <1>7, <3>2, AddShows
        <3>3. QED
            BY <1>4, <3>1, <3>2
    <2>2. Positions(env', v) = {}
        BY <2>1, GetView, Shown
    <2>3. QED
        BY <1>3, <1>7, <2>2 DEF Merged
<1>8. QED
    BY <1>5, <1>6, <1>7

\* A default that is missing is added, one that is there counts, even an empty one.
LEMMA DefaultShows ==
    ASSUME NEW l, IsEnv(l), NEW k \in Names, NEW v,
           NEW m, m = IF IsEmptyStr(EnvGet(l, k)) THEN EnvAdd(l, k, v) ELSE l
    PROVE  /\ IsEnv(m)
           /\ \A j \in Names \ {k} : View(m)[j] = View(l)[j]
           /\ Positions(l, k) = {} => View(m)[k] = Present(v)
           /\ Positions(l, k) # {} => View(m)[k] = View(l)[k]
<1>1. CASE IsEmptyStr(EnvGet(l, k))
    <2>1. m = EnvAdd(l, k, v)
        BY <1>1
    <2>2. ASSUME NEW j \in Names \ {k} PROVE View(m)[j] = View(l)[j]
        BY <2>1, AddShows, GetView
    <2>3. QED
        BY <2>1, <2>2, AddIsEnv, AddShows
<1>2. CASE ~IsEmptyStr(EnvGet(l, k))
    <2>1. Positions(l, k) # {}
        BY <1>2, GetView DEF IsEmptyStr, NULL
    <2>2. QED
        BY <1>2, <2>1
<1>3. QED
    BY <1>1, <1>2

\* What can be found after the defaults: SHLVL is always there.
LEMMA DefaultsShow ==
    ASSUME IsEnv(env), AddEnvDefaults
    PROVE  /\ \A k \in Names \ Essential : View(env')[k] = View(env)[k]
           /\ Positions(env, PWD) = {} => View(env')[PWD] = Present(Getcwd)
           /\ Positions(env, PWD) # {} => View(env')[PWD] = View(env)[PWD]
           /\ Positions(env, PATH) = {} => View(env')[PATH] = Present(Str(DefaultPath))
           /\ Positions(env, PATH) # {} => View(env')[PATH] = View(env)[PATH]
           /\ View(env')[SHLVL].there
           /\ ~IsEmptyStr(EnvGet(env, SHLVL)) =>
                View(env')[SHLVL] =
                    Present(Str(FtItoa(FtAtoi(EnvGet(env, SHLVL).text) + 1)))
<1> DEFINE l1 == AddPwd(env)
           l2 == AddPath(l1)
           l3 == AddShlvl(l2)
<1>1. env' = l3
    BY DEF AddEnvDefaults
<1>2. PWD \in Names /\ PATH \in Names /\ SHLVL \in Names
    BY EnvironmentAssumption
<1>3. PWD # PATH /\ PWD # SHLVL /\ PATH # SHLVL
    BY DEF PWD, PATH, SHLVL
<1>4. l1 = IF IsEmptyStr(EnvGet(env, PWD)) THEN EnvAdd(env, PWD, Getcwd) ELSE env
    BY DEF AddPwd
<1>5. l2 = IF IsEmptyStr(EnvGet(l1, PATH))
           THEN EnvAdd(l1, PATH, Str(DefaultPath)) ELSE l1
    BY DEF AddPath
<1>6. l3 = IF IsEmptyStr(EnvGet(l2, SHLVL)) THEN EnvAdd(l2, SHLVL, Str(<<"1">>))
           ELSE IncreaseShlvl(l2)
    BY DEF AddShlvl
<1> HIDE DEF l1, l2, l3
<1>7. /\ IsEnv(l1)
      /\ \A j \in Names \ {PWD} : View(l1)[j] = View(env)[j]
      /\ Positions(env, PWD) = {} => View(l1)[PWD] = Present(Getcwd)
      /\ Positions(env, PWD) # {} => View(l1)[PWD] = View(env)[PWD]
    BY <1>2, <1>4, DefaultShows
<1>8. /\ IsEnv(l2)
      /\ \A j \in Names \ {PATH} : View(l2)[j] = View(l1)[j]
      /\ Positions(l1, PATH) = {} => View(l2)[PATH] = Present(Str(DefaultPath))
      /\ Positions(l1, PATH) # {} => View(l2)[PATH] = View(l1)[PATH]
    BY <1>2, <1>5, <1>7, DefaultShows
<1>9. /\ \A j \in Names \ {SHLVL} : View(l3)[j] = View(l2)[j]
      /\ View(l3)[SHLVL].there
      /\ ~IsEmptyStr(EnvGet(l2, SHLVL)) =>
           View(l3)[SHLVL] = Present(Str(FtItoa(FtAtoi(EnvGet(l2, SHLVL).text) + 1)))
    <2>1. CASE IsEmptyStr(EnvGet(l2, SHLVL))
        <3>1. l3 = EnvAdd(l2, SHLVL, Str(<<"1">>))
            BY <1>6, <2>1
        <3>2. \A j \in Names \ {SHLVL} : View(l3)[j] = View(l2)[j]
            BY <1>2, <1>8, <3>1, AddShows, GetView
        <3>3. View(l3)[SHLVL].there
            <4>1. CASE Positions(l2, SHLVL) = {}
                BY <1>2, <1>8, <3>1, <4>1, AddShows, Shown
            <4>2. CASE Positions(l2, SHLVL) # {}
                <5>1. View(l3)[SHLVL] = View(l2)[SHLVL]
                    BY <1>2, <1>8, <3>1, <4>2, AddShows
                <5>2. QED
                    BY <1>2, <4>2, <5>1, GetView
            <4>3. QED
                BY <4>1, <4>2
        <3>4. QED
            BY <2>1, <3>2, <3>3
    <2>2. CASE ~IsEmptyStr(EnvGet(l2, SHLVL))
        <3> DEFINE v == Str(FtItoa(FtAtoi(EnvGet(l2, SHLVL).text) + 1))
        <3>1. l3 = EnvUpdate(l2, SHLVL, v)
            BY <1>6, <2>2 DEF IncreaseShlvl
        <3>2. ~v.null
            BY DEF Str
        <3> HIDE DEF v
        <3>3. View(l3) = [View(l2) EXCEPT ![SHLVL] = Present(v)]
            BY <1>2, <1>8, <3>1, <3>2, UpdateView
        <3>4. DOMAIN View(l2) = Names
            BY DEF View
        <3>5. View(l3)[SHLVL] = Present(v) /\ View(l3)[SHLVL].there
            BY <1>2, <3>3, <3>4, Shown
        <3>6. \A j \in Names \ {SHLVL} : View(l3)[j] = View(l2)[j]
            BY <1>2, <3>3, <3>4
        <3>7. QED
            BY <3>5, <3>6 DEF v
    <2>3. QED
        BY <2>1, <2>2
<1>10. View(l1)[PATH] = View(env)[PATH] /\ View(l2)[SHLVL] = View(env)[SHLVL]
    BY <1>2, <1>3, <1>7, <1>8
<1>11. /\ Positions(l1, PATH) = {} <=> Positions(env, PATH) = {}
       /\ EnvGet(l2, SHLVL) = EnvGet(env, SHLVL)
    BY <1>2, <1>10, SameView
<1>12. \A k \in Names \ Essential : View(l3)[k] = View(env)[k]
    BY <1>7, <1>8, <1>9 DEF Essential
<1>13. View(l3)[PWD] = View(l1)[PWD] /\ View(l3)[PATH] = View(l2)[PATH]
    BY <1>2, <1>3, <1>8, <1>9
<1>14. QED
    BY <1>1, <1>7, <1>8, <1>9, <1>10, <1>11, <1>12, <1>13

\* The empty text is no absolute path.
LEMMA EmptyIsRelative == \A t : t = << >> => ~IsAbsolute(t)
<1>1. CharAt(<< >>, 1) = Nul
    BY DEF CharAt
<1>2. QED
    BY <1>1, NulIsNoCharacter DEF IsAbsolute

\* What has been handed on still names the directory.
LEMMA HandedIsRight ==
    ASSUME NEW m, NEW d, NEW there, Right(m, d, there)
    PROVE  Right(Handed(m), d, there)
<1>1. CASE m.there /\ m.val.null
    <2>1. Handed(m) = Present(Str(<< >>))
        BY <1>1 DEF Handed
    <2>2. Handed(m).val.text = << >>
        BY <2>1, Shown DEF Str
    <2>3. QED
        BY <2>2, EmptyIsRelative DEF Right
<1>2. CASE ~(m.there /\ m.val.null)
    BY <1>2 DEF Handed
<1>3. QED
    BY <1>1, <1>2

\* An absolute path that cd has taken leads to the directory it has led to.
LEMMA EnteredIsRight ==
    ASSUME NEW p, NEW d, CanEnter(d, p), dirs \subseteq Directories, NEW there
    PROVE  Right(Present(Str(p)), DirOf(d, p), there)
<1>1. Present(Str(p)).val.text = p
    BY Shown DEF Str
<1>2. Leads(d, p, Directories)
    BY DEF CanEnter, Leads
<1>3. IsAbsolute(p) => DirOf(<< >>, p) = DirOf(d, p) /\ Leads(<< >>, p, Directories)
    BY <1>2, AbsoluteFromAnywhere
<1>4. QED
    BY <1>1, <1>3 DEF Right

\* With nothing left to load a shell finds what its list shows.
LEMMA AllIsLoaded ==
    ASSUME NEW l, NEW v \in Names, Entries(<< >>, v) = {}
    PROVE  Merged(l, << >>, v) = View(l)[v]
BY GetView DEF Merged

\* The defaults name the directory; a child gets its own SHLVL and what was missing.
LEMMA DefaultsAreFound == Inv /\ FoundInv /\ AddEnvDefaults => FoundInv'
<1> SUFFICES ASSUME Inv, FoundInv, AddEnvDefaults PROVE FoundInv'
    OBVIOUS
<1>1. /\ step = "load" /\ envp = << >> /\ step' = "ready"
      /\ UNCHANGED <<cwd, dirs, clean, parent>> /\ IsEnv(env)
      /\ told' = (told \/ IsEmptyStr(EnvGet(env, PWD)))
      /\ IsEmptyStr(EnvGet(env, PWD)) => ~Getcwd.null
    BY DEF AddEnvDefaults, Inv
<1>2. PWD \in Names /\ PATH \in Names /\ SHLVL \in Names
    BY EnvironmentAssumption
<1>3. TextsOnly'
    BY TextsStay DEF FoundInv, Next
<1>4. \A v \in Names : Merged(env, envp, v) = View(env)[v]
    BY <1>1, AllIsLoaded DEF Entries
<1>5. Positions(env, PWD) = {} => View(env')[PWD] = Present(Str(PathTo(cwd)))
    <2>1. ASSUME Positions(env, PWD) = {} PROVE Getcwd = Str(PathTo(cwd))
        <3>1. IsEmptyStr(EnvGet(env, PWD))
            BY <1>2, <2>1, GetView DEF IsEmptyStr, NULL
        <3>2. ~Getcwd.null
            BY <1>1, <3>1
        <3>3. QED
            BY <3>2 DEF Getcwd, NULL
    <2>2. QED
        BY <1>1, <2>1, DefaultsShow
<1>6. told' => Right(View(env')[PWD], cwd, dirs)
    <2>1. CASE Positions(env, PWD) = {}
        <3>1. DirOf(<< >>, PathTo(cwd)) = cwd /\ Leads(<< >>, PathTo(cwd), Directories)
            BY SessionAssumption DEF Inv, TypeOK
        <3>2. View(env')[PWD].val.text = PathTo(cwd)
            BY <1>5, <2>1, Shown DEF Str
        <3>3. QED
            BY <3>1, <3>2 DEF Right
    <2>2. CASE Positions(env, PWD) # {} /\ told
        <3>1. Right(View(env)[PWD], cwd, dirs)
            BY <1>1, <1>2, <1>4, <2>2 DEF FoundInv, Effective
        <3>2. QED
            BY <1>1, <2>2, <3>1, DefaultsShow
    <2>3. CASE Positions(env, PWD) # {} /\ IsEmptyStr(EnvGet(env, PWD))
        <3>1. View(env')[PWD] = Present(EnvGet(env, PWD))
            BY <1>1, <1>2, <2>3, DefaultsShow, GetView
        <3>2. View(env')[PWD].val = EnvGet(env, PWD)
            BY <3>1, Shown
        <3>3. QED
            BY <2>3, <3>2, EmptyIsRelative DEF Right, IsEmptyStr
    <2>4. QED
        BY <1>1, <2>1, <2>2, <2>3
<1>7. ASSUME clean, parent # NoParent, NEW v \in Names
      PROVE  View(env')[v] = Passed(v)
    <2>1. View(env)[v] = Handed(parent[v]) /\ View(env)[SHLVL] = Handed(parent[SHLVL])
        BY <1>1, <1>2, <1>4, <1>7 DEF FoundInv
    <2>2. PWD # PATH /\ PWD # SHLVL /\ PATH # SHLVL
        BY DEF PWD, PATH, SHLVL
    <2>3. CASE parent[v] = Absent
        <3>1. View(env)[v] = Absent /\ Positions(env, v) = {}
            BY <2>1, <2>3, Shown, GetView DEF Handed
        <3>2. v # SHLVL
            BY <1>7, <2>3, Shown DEF FoundInv
        <3>3. CASE v = PWD
            <4>1. Passed(v) = Present(Str(PathTo(cwd)))
                BY <2>2, <2>3, <3>2, <3>3, Shown DEF Passed
            <4>2. QED
                BY <1>5, <3>1, <3>3, <4>1
        <3>4. CASE v = PATH
            <4>1. View(env')[v] = Present(Str(DefaultPath))
                BY <1>1, <3>1, <3>4, DefaultsShow
            <4>2. Passed(v) = Present(Str(DefaultPath))
                BY <2>2, <2>3, <3>2, <3>4, Shown DEF Passed
            <4>3. QED
                BY <4>1, <4>2
        <3>5. CASE v # PWD /\ v # PATH
            <4>1. View(env')[v] = Absent
                BY <1>1, <3>1, <3>2, <3>5, DefaultsShow DEF Essential
            <4>2. Passed(v) = parent[v]
                BY <2>3, <3>2, <3>5, Shown DEF Passed
            <4>3. QED
                BY <2>3, <4>1, <4>2
        <3>6. QED
            BY <3>3, <3>4, <3>5
    <2>4. CASE v = SHLVL
        <3>1. parent[SHLVL].there
            BY <1>7 DEF FoundInv
        <3>2. NotEmpty(env, SHLVL)
            <4>1. Loading
                BY <1>1, <1>7 DEF Inv
            <4>2. QED
                BY <1>1, <4>1, LoadedNotEmpty DEF Essential
        <3>3. ~parent[SHLVL].val.null
            <4> SUFFICES ASSUME parent[SHLVL].val.null PROVE FALSE
                OBVIOUS
            <4>1. View(env)[SHLVL] = Present(Str(<< >>))
                BY <2>1, <3>1 DEF Handed
            <4>2. View(env)[SHLVL].there /\ View(env)[SHLVL].val.text = << >>
                BY <4>1, Shown DEF Str
            <4>3. QED
                BY <3>2, <4>2 DEF NotEmpty, IsEmptyStr
        <3>4. View(env)[SHLVL] = parent[SHLVL]
            BY <2>1, <3>3 DEF Handed
        <3>5. Positions(env, SHLVL) # {} /\ parent[SHLVL] = Present(EnvGet(env, SHLVL))
            BY <1>2, <3>1, <3>4, GetView
        <3>6. EnvGet(env, SHLVL) = parent[SHLVL].val
            BY <3>5, Shown
        <3>7. ~IsEmptyStr(EnvGet(env, SHLVL))
            BY <3>1, <3>2, <3>4, <3>6 DEF NotEmpty
        <3>8. View(env')[SHLVL] =
                 Present(Str(FtItoa(FtAtoi(parent[SHLVL].val.text) + 1)))
            BY <1>1, <3>6, <3>7, DefaultsShow
        <3>9. QED
            BY <2>2, <2>4, <3>3, <3>8 DEF Passed
    <2>5. CASE parent[v] # Absent /\ v # SHLVL
        <3>1. Handed(parent[v]) # Absent
            BY <2>5, Shown DEF Handed
        <3>2. Positions(env, v) # {}
            BY <2>1, <3>1, GetView
        <3>3. View(env')[v] = View(env)[v]
            BY <1>1, <2>5, <3>2, DefaultsShow DEF Essential
        <3>4. Passed(v) = Handed(parent[v])
            BY <2>5 DEF Passed, Handed
        <3>5. QED
            BY <2>1, <3>3, <3>4
    <2>6. QED
        BY <2>3, <2>4, <2>5
<1>8. ASSUME clean', parent' # NoParent, NEW v \in Names
      PROVE  View(env')[v] = Passed(v)'
    <2>1. Passed(v)' = Passed(v)
        BY <1>1 DEF Passed
    <2>2. QED
        BY <1>1, <1>7, <1>8, <2>1
<1>9. NestedKeeps'
    BY <1>8 DEF NestedKeeps
<1>10. View(env')[SHLVL].there
    BY <1>1, DefaultsShow
<1>11. parent' # NoParent => parent'[SHLVL].there
    BY <1>1 DEF FoundInv
<1>12. QED
    BY <1>1, <1>3, <1>6, <1>9, <1>10, <1>11 DEF FoundInv, Effective

\* A shell that is started finds what it was given.
LEMMA InitIsFound == Init => FoundInv
<1> SUFFICES ASSUME Init PROVE FoundInv
    OBVIOUS
<1>1. /\ env = << >> /\ step = "load" /\ args = << >> /\ parent = NoParent
      /\ envp \in Seq(Seq(Chars)) /\ told = RightAtFirst(Given(envp, PWD))
    BY SessionAssumption DEF Init
<1>2. TextsOnly
    <2>1. Values(env) = {}
        BY <1>1 DEF Values
    <2>2. \A j \in DOMAIN envp : envp[j] \in Seq(Chars)
        BY <1>1
    <2>3. QED
        BY <1>1, <2>1, <2>2 DEF TextsOnly
<1>3. Positions(env, PWD) = {}
    BY <1>1 DEF Positions
<1>4. told => Right(Effective(PWD), cwd, dirs)
    <2>1. CASE Entries(envp, PWD) = {}
        BY <1>1, <1>3, <2>1, Shown DEF Effective, Merged, Right
    <2>2. CASE Entries(envp, PWD) # {}
        <3>1. Effective(PWD) = Present(Given(envp, PWD))
            BY <1>1, <1>3, <2>2 DEF Effective, Merged
        <3>2. Effective(PWD).val = Given(envp, PWD)
            BY <3>1, Shown
        <3>3. QED
            BY <1>1, <3>2 DEF Right, NamesDir, RightAtFirst
    <2>3. QED
        BY <2>1, <2>2
<1>5. QED
    BY <1>1, <1>2, <1>4 DEF FoundInv, Running, NestedKeeps

\* An entry that is loaded is found as before.
LEMMA LoadEntryIsFound == Inv /\ FoundInv /\ LoadEntry => FoundInv'
<1> SUFFICES ASSUME Inv, FoundInv, LoadEntry PROVE FoundInv'
    OBVIOUS
<1>1. step = "load" /\ step' = "load" /\ UNCHANGED <<cwd, dirs, told, parent>>
    BY DEF LoadEntry
<1>2. \A v \in Names : Merged(env', envp', v) = Merged(env, envp, v)
    BY MergedStays DEF FoundInv
<1>3. PWD \in Names
    BY EnvironmentAssumption
<1>4. TextsOnly'
    BY TextsStay DEF FoundInv, Next
<1>5. QED
    BY <1>1, <1>2, <1>3, <1>4 DEF FoundInv, Effective, Running, NestedKeeps

\* A command that leaves PWD alone, or sets it as nobody tells, leaves it right.
LEMMA OneNameIsFound ==
    ASSUME FoundInv, TextsOnly', Running, Running', step # "ready", parent = NoParent,
           UNCHANGED <<cwd, dirs, parent>>,
           View(env')[SHLVL] = View(env)[SHLVL],
           told' => told /\ View(env')[PWD] = View(env)[PWD]
    PROVE  FoundInv'
<1>1. step # "load" /\ step' # "load"
    BY DEF Running
<1>2. told' => Right(Effective(PWD)', cwd', dirs')
    BY <1>1 DEF FoundInv, Effective
<1>3. View(env')[SHLVL].there
    BY DEF FoundInv
<1>4. QED
    BY <1>1, <1>2, <1>3 DEF FoundInv, NestedKeeps

\* export of a name that is not PWD leaves PWD right; SHLVL is refused.
LEMMA ExportArgIsFound == Inv /\ FoundInv /\ ExportArg => FoundInv'
<1> SUFFICES ASSUME Inv, FoundInv, ExportArg PROVE FoundInv'
    OBVIOUS
<1> DEFINE key == KeyOf(Head(args))
           val == ValueOf(Head(args))
<1>1. step = "export" /\ UNCHANGED <<step, cwd, dirs, parent>> /\ IsEnv(env)
    BY DEF ExportArg, Inv
<1>2. \/ env' = env /\ told' = told
      \/ ~Refused(key) /\ env' = EnvUpdate(env, key[1], val) /\ told' = (told /\ key # <<PWD>>)
    BY DEF ExportArg
<1>3. PWD \in Names /\ SHLVL \in Names
    BY EnvironmentAssumption
<1> HIDE DEF key, val
<1>4. \/ env' = env /\ told' = told
      \/ \E k \in Names : /\ k # SHLVL /\ env' = EnvUpdate(env, k, val)
                          /\ told' = (told /\ k # PWD)
    <2>1. CASE env' = env /\ told' = told
        BY <2>1
    <2>2. CASE /\ ~Refused(key) /\ env' = EnvUpdate(env, key[1], val)
               /\ told' = (told /\ key # <<PWD>>)
        <3>1. PICK k \in Names : key = <<k>> /\ k # SHLVL
            BY <2>2 DEF Refused, IsValidVarName
        <3>2. key[1] = k /\ (key # <<PWD>> <=> k # PWD)
            BY <3>1
        <3>3. QED
            BY <2>2, <3>1, <3>2
    <2>3. QED
        BY <1>2, <2>1, <2>2
<1>5. View(env')[SHLVL] = View(env)[SHLVL]
    BY <1>1, <1>3, <1>4, UpdateShows
<1>6. told' => told /\ View(env')[PWD] = View(env)[PWD]
    <2>1. CASE env' = env /\ told' = told
        BY <2>1
    <2>2. CASE \E k \in Names : /\ k # SHLVL /\ env' = EnvUpdate(env, k, val)
                               /\ told' = (told /\ k # PWD)
        <3>1. PICK k \in Names : env' = EnvUpdate(env, k, val) /\ told' = (told /\ k # PWD)
            BY <2>2
        <3>2. k # PWD => View(EnvUpdate(env, k, val))[PWD] = View(env)[PWD]
            BY <1>1, <1>3, UpdateShows
        <3>3. QED
            BY <3>1, <3>2
    <2>3. QED
        BY <1>4, <2>1, <2>2
<1>7. TextsOnly'
    BY TextsStay DEF FoundInv, Next
<1>8. Running /\ Running' /\ step # "ready" /\ parent = NoParent
    BY <1>1 DEF FoundInv, Running
<1>9. QED
    BY <1>1, <1>5, <1>6, <1>7, <1>8, OneNameIsFound

\* unset of a name that is not PWD leaves PWD right; SHLVL is left alone.
LEMMA UnsetArgIsFound == Inv /\ FoundInv /\ UnsetArg => FoundInv'
<1> SUFFICES ASSUME Inv, FoundInv, UnsetArg PROVE FoundInv'
    OBVIOUS
<1> DEFINE key == Head(args)
<1>1. step = "unset" /\ UNCHANGED <<step, cwd, dirs, parent>> /\ IsEnv(env)
    BY DEF UnsetArg, Inv
<1>2. /\ env' = IF key # <<SHLVL>> /\ IsValidVarName(key)
                THEN EnvDelete(env, key[1]) ELSE env
      /\ told' = (told /\ key # <<PWD>>)
    BY DEF UnsetArg
<1>3. PWD \in Names /\ SHLVL \in Names
    BY EnvironmentAssumption
<1> HIDE DEF key
<1>4. \/ env' = env
      \/ \E k \in Names : key = <<k>> /\ k # SHLVL /\ env' = EnvDelete(env, k)
    BY <1>2 DEF IsValidVarName
<1>5. View(env')[SHLVL] = View(env)[SHLVL]
    BY <1>1, <1>3, <1>4, DeleteShows
<1>6. told' => told /\ View(env')[PWD] = View(env)[PWD]
    BY <1>1, <1>2, <1>3, <1>4, DeleteShows
<1>7. TextsOnly'
    BY TextsStay DEF FoundInv, Next
<1>8. Running /\ Running' /\ step # "ready" /\ parent = NoParent
    BY <1>1 DEF FoundInv, Running
<1>9. QED
    BY <1>1, <1>5, <1>6, <1>7, <1>8, OneNameIsFound

\* cd leaves PWD right: it sets it to where it has gone, or goes back to it.
LEMMA CdIsFound == Inv /\ FoundInv /\ Cd => FoundInv'
<1> SUFFICES ASSUME Inv, FoundInv, Cd PROVE FoundInv'
    OBVIOUS
<1>1. /\ step = "cd" /\ UNCHANGED <<dirs, parent>> /\ parent = NoParent /\ IsEnv(env)
      /\ dirs \subseteq Directories /\ cwd \in Directories
    BY DEF Cd, Inv, TypeOK, FoundInv
<1>2. step' \in {"ready", "crashed"}
    BY <1>1, CdEnv DEF Inv, TypeOK, Running
<1>3. /\ PWD \in Names /\ OLDPWD \in Names /\ SHLVL \in Names
      /\ OLDPWD # PWD /\ OLDPWD # SHLVL /\ PWD # SHLVL
    BY EnvironmentAssumption DEF PWD, OLDPWD, SHLVL
<1>4. TextsOnly'
    BY TextsStay DEF FoundInv, Next
<1>5. told => Right(View(env)[PWD], cwd, dirs)
    BY <1>1 DEF FoundInv, Effective
<1>6. IsEnv(Remembered) /\ \A k \in Names \ {OLDPWD} : View(Remembered)[k] = View(env)[k]
    <2>1. CASE OldPwd.null
        BY <1>1, <2>1 DEF Remembered
    <2>2. CASE ~OldPwd.null
        BY <1>1, <1>3, <2>2, RememberedView, UpdateShows DEF Remembered
    <2>3. QED
        BY <2>1, <2>2
<1> DEFINE Goal == /\ View(env')[SHLVL] = View(env)[SHLVL]
                   /\ told' => Right(View(env')[PWD], cwd', dirs)
<1>7. ASSUME UNCHANGED <<env, cwd, told>> PROVE Goal
    BY <1>5, <1>7
<1>8. ASSUME NEW p, CdPath(p) PROVE Goal
    <2> DEFINE to == DirOf(cwd, p)
    <2>1. CASE Stay(1)
        BY <1>7, <2>1 DEF Stay
    <2>2. CASE /\ env' = EnvUpdate(Remembered, PWD, Str(p)) /\ cwd' = to
               /\ CanEnter(cwd, p)
        <3> DEFINE v == Str(p)
        <3>1. ~v.null
            BY DEF Str
        <3> HIDE DEF v
        <3>2. View(EnvUpdate(Remembered, PWD, v)) = [View(Remembered) EXCEPT ![PWD] = Present(v)]
            BY <1>3, <1>6, <3>1, UpdateView
        <3>3. DOMAIN View(Remembered) = Names
            BY DEF View
        <3>4. View(env')[PWD] = Present(v) /\ View(env')[SHLVL] = View(Remembered)[SHLVL]
            BY <1>3, <2>2, <3>2, <3>3 DEF v
        <3>5. Right(Present(v), to, dirs)
            BY <1>1, <2>2, EnteredIsRight DEF v
        <3>6. QED
            BY <1>3, <1>6, <2>2, <3>4, <3>5
    <2>3. CASE env' \in {env, Remembered} /\ cwd' = Return(to) /\ told' = told
        <3>1. View(env')[PWD] = View(env)[PWD] /\ View(env')[SHLVL] = View(env)[SHLVL]
            BY <1>3, <1>6, <2>3
        <3>2. View(env)[PWD].there => View(env)[PWD].val = OldPwd
            BY <1>3, GetView, Shown DEF OldPwd
        <3>3. ASSUME told, View(env)[PWD].there, ~OldPwd.null, IsAbsolute(OldPwd.text)
              PROVE  /\ Leads(<< >>, OldPwd.text, Directories)
                     /\ \/ DirOf(<< >>, OldPwd.text) = cwd'
                        \/ ~Leads(<< >>, OldPwd.text, dirs)
            <4>1. /\ Leads(<< >>, OldPwd.text, Directories)
                  /\ \/ DirOf(<< >>, OldPwd.text) = cwd
                     \/ ~Leads(<< >>, OldPwd.text, dirs)
                BY <1>5, <3>2, <3>3 DEF Right
            <4>2. DirOf(to, OldPwd.text) = DirOf(<< >>, OldPwd.text)
                BY <3>3, AbsoluteFromAnywhere
            <4>3. CASE CanEnter(to, OldPwd.text)
                BY <2>3, <3>3, <4>1, <4>2, <4>3 DEF Return
            <4>4. CASE ~CanEnter(to, OldPwd.text)
                <5>1. ~CanEnter(<< >>, OldPwd.text)
                    BY <3>3, <4>4, AbsoluteFromAnywhere
                <5>2. OldPwd.text # << >>
                    BY <3>3, EmptyIsRelative
                <5>3. QED
                    BY <1>1, <4>1, <5>1, <5>2 DEF CanEnter
            <4>5. QED
                BY <4>3, <4>4
        <3>4. QED
            BY <2>3, <3>1, <3>2, <3>3 DEF Right
    <2>4. QED
        BY <1>8, <2>1, <2>2, <2>3 DEF CdPath
<1> HIDE DEF Goal
<1>9. Goal
    BY <1>7, <1>8, CdIsOneOf DEF Stay
<1>10. View(env)[SHLVL].there
    BY <1>1 DEF FoundInv, Running
<1>11. QED
    BY <1>1, <1>2, <1>4, <1>9, <1>10 DEF FoundInv, Goal, Effective, NestedKeeps

\* What a shell reads of env_to_envp: each name at its place, NULL as the empty text.
LEMMA PassedOn ==
    ASSUME IsEnv(env), TextsOnly, NEW v \in Names
    PROVE  Merged(<< >>, EnvToEnvp(env), v) = Handed(View(env)[v])
<1> DEFINE list == EnvToEnvp(env)
           Text(w) == IF w.null THEN << >> ELSE w.text
<1>1. /\ Positions(<< >>, v) = {}
      /\ DOMAIN list = DOMAIN env
      /\ \A i \in DOMAIN env : list[i] = <<env[i].key, "=">> \o Text(env[i].val)
    BY DEF Positions, EnvToEnvp
<1>2. \A i \in DOMAIN env : env[i].key \in Names /\ env[i].val \in Vals
    BY EnvTyped DEF TextsOnly, Values
<1> HIDE DEF list, Text
<1>3. \A w \in Vals : Text(w) \in Seq(Chars)
    <2>1. ASSUME NEW w \in Vals PROVE Text(w) \in Seq(Chars)
        <3>1. << >> \in Seq(Chars)
            OBVIOUS
        <3>2. CASE w.null
            BY <3>1, <3>2 DEF Text
        <3>3. CASE ~w.null
            BY <2>1, <3>3, ValueIsText DEF Text
        <3>4. QED
            BY <3>2, <3>3
    <2>2. QED
        BY <2>1
<1>4. ASSUME NEW i \in DOMAIN env
      PROVE  KeyOf(list[i]) = <<env[i].key>> /\ ValueOf(list[i]) = Str(Text(env[i].val))
    <2>1. PICK t \in Seq(Chars) : t = Text(env[i].val)
        BY <1>2, <1>3, <1>4
    <2>2. PICK k \in Chars : k = env[i].key /\ k # "="
        BY <1>2, <1>4, SessionAssumption
    <2>3. FtSplitKeyValue(<<k, "=">> \o t) = [key |-> <<k>>, given |-> TRUE, val |-> t]
        BY <2>2, EntryIsRead
    <2>4. list[i] = <<k, "=">> \o t
        BY <1>1, <1>4, <2>1, <2>2
    <2>5. PICK r : r = FtSplitKeyValue(list[i])
        OBVIOUS
    <2>6. r = [key |-> <<k>>, given |-> TRUE, val |-> t]
        BY <2>3, <2>4, <2>5, Zenon
    <2>7. r.key = <<k>> /\ r.given = TRUE /\ r.val = t
        BY <2>6
    <2>8. QED
        BY <2>1, <2>2, <2>5, <2>7 DEF KeyOf, ValueOf
<1>5. Entries(list, v) = Positions(env, v)
    <2>1. \A i \in DOMAIN env : KeyOf(list[i]) = <<v>> <=> env[i].key = v
        BY <1>4
    <2>2. QED
        BY <1>1, <2>1 DEF Entries, Positions
<1>6. CASE Positions(env, v) = {}
    <2>1. Merged(<< >>, list, v) = Absent
        BY <1>1, <1>5, <1>6 DEF Merged
    <2>2. View(env)[v] = Absent
        BY <1>6, GetView
    <2>3. QED
        BY <2>1, <2>2, Shown DEF Handed, list
<1>7. CASE Positions(env, v) # {}
    <2>1. PICK p \in DOMAIN env : p = Min(Positions(env, v))
        BY <1>7, EnvIsSequence, SearchNodeIsFirst DEF SearchNode
    <2>2. Given(list, v) = ValueOf(list[p])
        BY <1>5, <1>7, <2>1 DEF Given, Entries
    <2>3. Merged(<< >>, list, v) = Present(Str(Text(env[p].val)))
        BY <1>1, <1>4, <1>5, <1>7, <2>1, <2>2 DEF Merged
    <2>4. View(env)[v] = Present(env[p].val)
        BY <1>7, <2>1 DEF View, SearchNode
    <2>5. View(env)[v].there /\ View(env)[v].val = env[p].val
        BY <2>4, Shown
    <2>6. CASE env[p].val.null
        BY <2>3, <2>5, <2>6 DEF Handed, Text, list
    <2>7. CASE ~env[p].val.null
        <3>1. env[p].val = Str(Text(env[p].val))
            BY <1>2, <2>1, <2>7, ValueIsText DEF Text
        <3>2. QED
            BY <2>3, <2>4, <2>5, <2>7, <3>1 DEF Handed, list
    <2>8. QED
        BY <2>6, <2>7
<1>8. QED
    BY <1>6, <1>7

\* A shell that is started from the shell finds what its parent could.
LEMMA NestIsFound == Inv /\ FoundInv /\ Nest => FoundInv'
<1> SUFFICES ASSUME Inv, FoundInv, Nest PROVE FoundInv'
    OBVIOUS
<1>1. /\ step = "ready" /\ step' = "load" /\ IsEnv(env)
      /\ env' = << >> /\ envp' = EnvToEnvp(env) /\ parent' = View(env)
      /\ UNCHANGED <<cwd, dirs, told>>
    BY DEF Nest, Inv
<1>2. \A v \in Names : Merged(env', envp', v) = Handed(View(env)[v])
    BY <1>1, PassedOn DEF FoundInv
<1>3. told' => Right(Merged(env', envp', PWD), cwd', dirs')
    <2>1. told => Right(View(env)[PWD], cwd, dirs)
        BY <1>1 DEF FoundInv, Effective
    <2>2. PWD \in Names
        BY EnvironmentAssumption
    <2>3. QED
        BY <1>1, <1>2, <2>1, <2>2, HandedIsRight
<1>4. View(env)[SHLVL].there
    BY <1>1 DEF FoundInv, Running
<1>5. TextsOnly'
    BY TextsStay DEF FoundInv, Next
<1>6. QED
    BY <1>1, <1>2, <1>3, <1>4, <1>5 DEF FoundInv, Effective, Running, NestedKeeps

\* Reading a command, the end of a loop, rmdir and exit leave all that is found.
LEMMA OthersAreFound ==
    Inv /\ FoundInv /\ (RunCommand \/ Exit \/ EndLoop \/ Rmdir \/ UNCHANGED vars) => FoundInv'
<1> SUFFICES ASSUME Inv, FoundInv, RunCommand \/ Exit \/ EndLoop \/ Rmdir \/ UNCHANGED vars
             PROVE  FoundInv'
    OBVIOUS
<1>1. TextsOnly' /\ PWD \in Names
    BY TextsStay, EnvironmentAssumption DEF FoundInv, Next
<1>2. CASE RunCommand
    <2>1. /\ step = "ready" /\ step' \in {"export", "unset", "cd"} /\ parent' = NoParent
          /\ UNCHANGED <<env, cwd, dirs, told>>
        BY <1>2, SessionAssumption DEF RunCommand
    <2>2. QED
        BY <1>1, <2>1 DEF FoundInv, Effective, Running, NestedKeeps
<1>3. CASE Exit
    <2>1. /\ step \in {"load", "export", "cd"} /\ step' = "exited"
          /\ UNCHANGED <<env, cwd, dirs, told, parent>>
        BY <1>3 DEF Exit
    <2>2. told => Right(View(env)[PWD], cwd, dirs)
        <3>1. CASE step # "load"
            BY <3>1 DEF FoundInv, Effective
        <3>2. CASE step = "load" /\ Positions(env, PWD) = {}
            BY <1>1, <3>2, GetView, Shown DEF Right
        <3>3. CASE step = "load" /\ Positions(env, PWD) # {}
            BY <1>1, <3>3, GetView DEF FoundInv, Effective, Merged
        <3>4. QED
            BY <3>1, <3>2, <3>3
    <2>3. QED
        BY <1>1, <2>1, <2>2 DEF FoundInv, Effective, Running, NestedKeeps
<1>4. CASE EndLoop
    <2>1. /\ step \in {"export", "unset"} /\ step' = "ready"
          /\ UNCHANGED <<env, cwd, dirs, told, parent>> /\ parent = NoParent
        BY <1>4 DEF EndLoop, FoundInv
    <2>2. QED
        BY <1>1, <2>1 DEF FoundInv, Effective, Running, NestedKeeps
<1>5. CASE Rmdir \/ UNCHANGED vars
    <2>1. UNCHANGED <<env, step, cwd, told, parent, clean>> /\ (step = "ready" \/ envp' = envp)
        BY <1>5 DEF Rmdir, vars
    <2>2. \A v \in Names : Passed(v)' = Passed(v)
        BY <2>1 DEF Passed
    <2>3. NestedKeeps'
        BY <2>1, <2>2 DEF FoundInv, NestedKeeps
    <2>4. dirs' \subseteq dirs
        BY <1>5 DEF Rmdir, vars
    <2>5. ASSUME NEW m, Right(m, cwd, dirs) PROVE Right(m, cwd, dirs')
        <3>1. \A path : Leads(<< >>, path, dirs') => Leads(<< >>, path, dirs)
            BY <2>4 DEF Leads
        <3>2. QED
            BY <2>5, <3>1 DEF Right
    <2>6. told' => Right(Effective(PWD)', cwd', dirs')
        <3>1. Effective(PWD)' = Effective(PWD)
            BY <2>1 DEF Effective
        <3>2. QED
            BY <2>1, <2>5, <3>1 DEF FoundInv
    <2>7. QED
        BY <1>1, <2>1, <2>3, <2>6 DEF FoundInv, Effective, Running
<1>6. QED
    BY <1>2, <1>3, <1>4, <1>5

\* The invariant about what is found holds in every state of a session.
THEOREM FoundHolds == Spec => []FoundInv
<1>1. Inv /\ FoundInv /\ [Next]_vars => FoundInv'
    BY LoadEntryIsFound, DefaultsAreFound, ExportArgIsFound, UnsetArgIsFound,
       CdIsFound, NestIsFound, OthersAreFound DEF Next
<1>2. QED
    BY InitIsFound, InvHolds, <1>1, PTL DEF Spec

\* While who has set PWD last was the shell, an absolute PWD names the directory of
\* the process, through cd that fails after chdir, unset and shells started from the
\* shell, or a directory on it has been removed; it never leads to another one.
THEOREM PwdNamesDirectory == Spec => []PwdNamesCwd
<1>1. FoundInv => PwdNamesCwd
    <2> SUFFICES ASSUME FoundInv, told, step # "load", ~OldPwd.null, IsAbsolute(OldPwd.text)
                 PROVE  NamesDir(OldPwd, cwd) \/ Removed(OldPwd.text)
        BY DEF PwdNamesCwd
    <2>1. Right(View(env)[PWD], cwd, dirs)
        BY DEF FoundInv, Effective
    <2>2. PWD \in Names
        BY EnvironmentAssumption
    <2>3. Positions(env, PWD) # {}
        BY <2>2, GetView DEF OldPwd, NULL
    <2>4. View(env)[PWD].there /\ View(env)[PWD].val = OldPwd
        BY <2>2, <2>3, GetView, Shown DEF OldPwd
    <2>5. QED
        BY <2>1, <2>4 DEF Right, NamesDir, Removed
<1>2. QED
    BY FoundHolds, <1>1, PTL

\* A shell started from a shell with a clean environment finds the values its parent
\* could find, its own SHLVL and the defaults that were missing, and nothing else.
THEOREM ChildFindsTheSame == Spec => []NestedKeeps
<1>1. FoundInv => NestedKeeps
    BY DEF FoundInv
<1>2. QED
    BY FoundHolds, <1>1, PTL

\* exit takes every text for what it is, whatever the texts of a run.
THEOREM NumbersAreSpecified == Spec => []NumbersAsSpecified
<1>1. NumbersAsSpecified
    BY NumbersAreRight, SessionAssumption DEF NumbersAsSpecified
<1>2. QED
    BY <1>1, PTL

\* A command is searched in the directories of PATH in their order, whatever the
\* PATHs of a run are and whatever the name is in their directories.
THEOREM SearchIsSpecified == Spec => []SearchAsSpecified
<1>1. ASSUME NEW p \in PathTexts,
             NEW kind \in [ToSet(FtSplitWithEmpty(p, ":")) \cup {<< >>} -> Kinds]
      PROVE  PathnameIsRight(p, kind)
    <2>1. DOMAIN kind = ToSet(FtSplitWithEmpty(p, ":")) \cup {<< >>}
        OBVIOUS
    <2>2. p \in Seq(Chars)
        BY SessionAssumption
    <2>3. QED
        BY <2>1, <2>2, PathnameIsFirst
<1>2. SearchAsSpecified
    BY <1>1 DEF SearchAsSpecified
<1>3. QED
    BY <1>2, PTL

\* cd goes where the kernel would: the canonical form of every path of a run leads
\* where the path does and is written inside its buffer.
THEOREM CanonicalIsSpecified == Spec => []CanonicalAsSpecified
<1>1. CanonicalAsSpecified
    BY CanonicalFormLeads, SessionAssumption DEF CanonicalAsSpecified
<1>2. QED
    BY <1>1, PTL

-------------------------------------------------------------------------------
(* Where cd ends                                                                *)

\* A relative path that is put after the name of a directory leads where it leads
\* from that directory.
LEMMA JoinedLeads ==
    ASSUME NEW w \in Seq(Chars), IsAbsolute(w), NEW d \in Seq(Chars), ~IsAbsolute(d)
    PROVE  /\ w \o <<"/">> \o d \in Seq(Chars) /\ IsAbsolute(w \o <<"/">> \o d)
           /\ DirOf(<< >>, w \o <<"/">> \o d) = DirOf(DirOf(<< >>, w), d)
<1> DEFINE t == w \o <<"/">> \o d
           m == Len(w)
           len == Len(d)
<1>1. "/" \in Chars /\ << >> \in Seq(Seq(Chars))
    BY SlashAndDot
<1>2. /\ t \in Seq(Chars) /\ m \in Nat /\ len \in Nat /\ Len(t) = (m + 1) + len
      /\ t[m + 1] = "/"
      /\ \A k \in 1..m : t[k] = w[k]
      /\ \A k \in 1..len : t[(m + 1) + k] = d[k]
    BY <1>1
<1> HIDE DEF t
<1>3. 1 \in DOMAIN w
    <2>1. CharAt(w, 1) # Nul
        BY SlashAndDot, NulIsNoCharacter DEF IsAbsolute
    <2>2. QED
        BY <2>1 DEF CharAt
<1>4. IsAbsolute(t)
    <2>1. w[1] = "/" /\ m >= 1
        BY <1>3 DEF IsAbsolute, CharAt
    <2>2. t[1] = "/" /\ 1 \in DOMAIN t
        BY <1>2, <2>1
    <2>3. QED
        BY <2>2 DEF IsAbsolute, CharAt
<1>5. Way(<< >>, t)[m] = Place(w)
    BY <1>2, PlaceOfPrefix
<1>6. PICK g \in Seq(Seq(Chars)) : g = DirOf(<< >>, w) /\ g = Reached(Place(w))
    <2>1. DirOf(<< >>, w) = Reached(Place(w)) /\ Place(w) \in Spots
        BY StartIsRoot
    <2>2. Reached(Place(w)) \in Seq(Seq(Chars))
        BY <1>1, <2>1, OneOnward
    <2>3. QED
        BY <2>1, <2>2
<1> HIDE DEF m, len
<1>7. Way(<< >>, t)[m + 1] = [dir |-> g, name |-> << >>]
    <2>1. m + 1 \in 1..Len(t) /\ (m + 1) - 1 = m
        BY <1>2
    <2>2. Way(<< >>, t)[m + 1] = Onward(Way(<< >>, t)[(m + 1) - 1], t[m + 1])
        BY <1>1, <1>2, <2>1, WayIs
    <2>3. Way(<< >>, t)[m + 1] = Onward(Place(w), "/")
        BY <1>2, <1>5, <2>1, <2>2
    <2>4. QED
        BY <1>6, <2>3 DEF Onward
<1>8. Way(g, d)[0] = [dir |-> g, name |-> << >>]
    BY WayIs
<1>9. Way(<< >>, t)[(m + 1) + len] = Way(g, d)[len]
    <2>1. PICK j : j = m + 1
        OBVIOUS
    <2>2. j \in 0..Len(t) /\ len \in 0..Len(d) /\ j + len <= Len(t)
        BY <1>2, <2>1 DEF len
    <2>3. Way(<< >>, t)[j] = Way(g, d)[0]
        BY <1>7, <1>8, <2>1
    <2>4. \A k \in 1..len : t[j + k] = d[k]
        BY <1>2, <2>1
    <2>5. Way(<< >>, t)[j + len] = Way(g, d)[len]
        BY <1>1, <1>2, <2>2, <2>3, <2>4, WaysMeet
    <2>6. QED
        BY <2>1, <2>5
<1>10. DirOf(<< >>, t) = DirOf(g, d)
    BY <1>2, <1>9 DEF DirOf, len
<1>11. QED
    BY <1>2, <1>4, <1>6, <1>10 DEF t

\* The arguments of a cd without a path.
LEMMA FewArgs ==
    /\ ~(Len(<< >>) > 1) /\ << >> # << <<"-">> >>
    /\ ~(Len(<< << >> >>) > 1) /\ << << >> >> # << <<"-">> >>
    /\ ~(Len(<< <<"-">> >>) > 1)
<1> DEFINE dash == <<"-">>
<1>1. Len(dash) = 1
    OBVIOUS
<1> HIDE DEF dash
<1>2. << >> # dash
    BY <1>1
<1>3. ~(Len(<< >>) > 1) /\ << >> # <<dash>>
    OBVIOUS
<1>4. ~(Len(<< << >> >>) > 1) /\ ~(Len(<<dash>>) > 1)
    OBVIOUS
<1>5. << << >> >> # <<dash>>
    <2>1. << << >> >>[1] = << >> /\ <<dash>>[1] = dash
        OBVIOUS
    <2>2. QED
        BY <1>2, <2>1
<1>6. QED
    BY <1>3, <1>4, <1>5 DEF dash

\* The path that a cd gives chdir leads where its argument does.
LEMMA CdGoesThere ==
    ASSUME Inv, TextsOnly, Cd, ~Stay(1), step' = "ready", Honest, ~Misread
    PROVE  \E p : CdPath(p) /\ DirOf(cwd, p) = Destination
<1> DEFINE Goal == \E p : CdPath(p) /\ DirOf(cwd, p) = Destination
<1>1. ~Stay(1)
    OBVIOUS
<1>2. CASE args = << >> \/ args = << << >> >>
    <2>1. args # << <<"-">> >> /\ ~(Len(args) > 1)
        BY <1>2, FewArgs
    <2>2. CdVariable(HOME)
        BY <1>1, <1>2, <2>1 DEF Cd
    <2>3. CdPath(EnvGet(env, HOME).text)
        BY <1>1, <2>2 DEF CdVariable
    <2>4. Destination = DirOf(cwd, EnvGet(env, HOME).text)
        BY <1>2, <2>1 DEF Destination
    <2>5. QED
        BY <2>3, <2>4
<1>3. CASE args = << <<"-">> >>
    <2>1. ~(args = << >> \/ args = << << >> >>) /\ ~(Len(args) > 1)
        BY <1>3, FewArgs
    <2>2. CdVariable(OLDPWD)
        BY <1>1, <1>3, <2>1 DEF Cd
    <2>3. CdPath(EnvGet(env, OLDPWD).text)
        BY <1>1, <2>2 DEF CdVariable
    <2>4. Destination = DirOf(cwd, EnvGet(env, OLDPWD).text)
        BY <1>3, <2>1 DEF Destination
    <2>5. QED
        BY <2>3, <2>4
<1>4. CASE ~(args = << >> \/ args = << << >> >>) /\ args # << <<"-">> >>
    <2>1. CdDir(args[1])
        BY <1>1, <1>4 DEF Cd
    <2>2. Destination = DirOf(cwd, args[1])
        BY <1>4 DEF Destination
    <2>3. PICK d \in Seq(Chars) : d = args[1]
        <3>1. args \in Seq(Seq(Chars)) /\ args # << >>
            BY <1>4 DEF TextsOnly
        <3>2. QED
            BY <3>1
    <2>4. /\ ~OldPwd.null /\ IsAbsolute(OldPwd.text) /\ DirOf(<< >>, OldPwd.text) = cwd
          /\ GetPwd = OldPwd
        BY DEF Honest, NamesDir, GetPwd
    <2>5. OldPwd.text \in Seq(Chars)
        <3>1. OldPwd \in Vals
            BY FoundIsText, EnvironmentAssumption DEF OldPwd, Inv, TextsOnly
        <3>2. QED
            BY <2>4, <3>1, ValueIsText
    <2>6. /\ Curpath \in Seq(Chars) /\ IsAbsolute(Curpath)
          /\ DirOf(<< >>, Curpath) = DirOf(cwd, d)
        <3>1. CASE IsAbsolute(d)
            BY <2>3, <3>1, AbsoluteFromAnywhere DEF Curpath
        <3>2. CASE ~IsAbsolute(d)
            <4>1. Curpath = OldPwd.text \o <<"/">> \o d
                BY <2>3, <2>4, <3>2 DEF Curpath
            <4>2. QED
                BY <2>4, <2>5, <3>2, <4>1, JoinedLeads
        <3>3. QED
            BY <3>1, <3>2
    <2> DEFINE form == GetPathCanonicalForm(Curpath)
    <2>7. \/ form.bad = "no" /\ CdPath(form.text)
          \/ form.bad = "none" /\ Stay(1)
          \/ form.bad = "fault" /\ step' = "crashed"
        <3>1. ~(~IsAbsolute(args[1]) /\ GetPwd.null)
            BY <2>4
        <3>2. QED
            BY <2>1, <3>1 DEF CdDir, Curpath
    <2>8. CdPath(form.text) /\ form.bad = "no"
        BY <1>1, <2>7
    <2>9. IsAbsolute(form.text) /\ DirOf(<< >>, form.text) = DirOf(<< >>, Curpath)
        <3>1. ~DotsMisread(Curpath) /\ ~SlashKept(Curpath)
            BY <1>4 DEF Misread
        <3>2. QED
            BY <2>6, <3>1, CanonicalFormLeads DEF CanonicalFormIsRight
    <2> HIDE DEF form
    <2>10. DirOf(cwd, form.text) = DirOf(<< >>, form.text)
        BY <2>9, AbsoluteFromAnywhere
    <2>11. DirOf(cwd, form.text) = Destination
        BY <2>2, <2>3, <2>6, <2>9, <2>10
    <2>12. QED
        BY <2>8, <2>11
<1>5. QED
    BY <1>2, <1>3, <1>4

\* A cd that succeeds sets PWD to the path it has given chdir.
LEMMA PwdIsPath ==
    ASSUME Inv, NEW p, CdPath(p), status' = 0
    PROVE  /\ env' = EnvUpdate(Remembered, PWD, Str(p)) /\ cwd' = DirOf(cwd, p)
           /\ EnvGet(env', PWD) = Str(p)
<1>1. env' = EnvUpdate(Remembered, PWD, Str(p)) /\ cwd' = DirOf(cwd, p)
    BY DEF CdPath, Stay
<1>2. PWD \in Names /\ IsEnv(Remembered)
    <2>1. OldPwd.null => Remembered = env
        BY DEF Remembered
    <2>2. QED
        BY <2>1, RememberedView, EnvironmentAssumption DEF Inv
<1> DEFINE v == Str(p)
<1>3. ~v.null
    BY DEF Str
<1> HIDE DEF v
<1>4. View(EnvUpdate(Remembered, PWD, v)) = [View(Remembered) EXCEPT ![PWD] = Present(v)]
    BY <1>2, <1>3, UpdateView
<1>5. View(env')[PWD] = Present(v)
    BY <1>1, <1>2, <1>4 DEF View, v
<1>6. Positions(env', PWD) # {} /\ Present(EnvGet(env', PWD)) = Present(v)
    BY <1>2, <1>5, GetView, Shown
<1>7. QED
    BY <1>1, <1>6, Shown DEF v

\* After a cd that succeeds PWD names the directory of the process, right or wrong
\* before. From the directory PWD names it ends where its argument leads, followed
\* by the kernel, although cd_dir resolves it by the text, and OLDPWD names the
\* directory before.
THEOREM CdLandsWhereItLeads == Spec => CdLands
<1> DEFINE A == Cd /\ status' = 0 /\ step' = "ready"
                => /\ IsAbsolute(EnvGet(env', PWD).text) =>
                          NamesDir(EnvGet(env', PWD), cwd')
                   /\ Honest /\ ~Misread => /\ cwd' = Destination
                                           /\ NamesDir(EnvGet(env', OLDPWD), cwd)
<1>1. Inv /\ FoundInv => A
    <2> SUFFICES ASSUME Inv, TextsOnly, Cd, status' = 0, step' = "ready"
                 PROVE  /\ IsAbsolute(EnvGet(env', PWD).text) =>
                              NamesDir(EnvGet(env', PWD), cwd')
                        /\ Honest /\ ~Misread => /\ cwd' = Destination
                                                /\ NamesDir(EnvGet(env', OLDPWD), cwd)
        BY DEF FoundInv
    <2>1. ~Stay(1)
        BY DEF Stay
    <2>2. IsAbsolute(EnvGet(env', PWD).text) => NamesDir(EnvGet(env', PWD), cwd')
        <3>1. PICK p : CdPath(p)
            BY <2>1, CdIsOneOf
        <3>2. EnvGet(env', PWD) = Str(p) /\ cwd' = DirOf(cwd, p)
            BY <3>1, PwdIsPath
        <3>3. ~Str(p).null /\ Str(p).text = p
            BY DEF Str
        <3>4. IsAbsolute(p) => DirOf(<< >>, p) = DirOf(cwd, p)
            BY AbsoluteFromAnywhere
        <3>5. QED
            BY <3>2, <3>3, <3>4 DEF NamesDir
    <2>3. ASSUME Honest, ~Misread PROVE cwd' = Destination /\ NamesDir(EnvGet(env', OLDPWD), cwd)
        <3>1. PICK p : CdPath(p) /\ DirOf(cwd, p) = Destination
            BY <2>1, <2>3, CdGoesThere
        <3>2. env' = EnvUpdate(Remembered, PWD, Str(p)) /\ cwd' = DirOf(cwd, p)
            BY <3>1, PwdIsPath
        <3>3. PWD \in Names /\ OLDPWD \in Names /\ PWD # OLDPWD
            BY EnvironmentAssumption DEF PWD, OLDPWD
        <3>4. ~OldPwd.null /\ NamesDir(OldPwd, cwd)
            BY <2>3 DEF Honest, NamesDir
        <3>5. /\ IsEnv(Remembered)
              /\ View(Remembered) = [View(env) EXCEPT ![OLDPWD] = Present(OldPwd)]
            BY <3>4, RememberedView DEF Inv
        <3>6. View(env')[OLDPWD] = View(Remembered)[OLDPWD]
            <4>1. PICK v : v = Str(p)
                OBVIOUS
            <4>2. View(EnvUpdate(Remembered, PWD, v))[OLDPWD] = View(Remembered)[OLDPWD]
                BY <3>3, <3>5, UpdateShows
            <4>3. QED
                BY <3>2, <4>1, <4>2
        <3>7. View(env')[OLDPWD] = Present(OldPwd)
            BY <3>3, <3>5, <3>6 DEF View
        <3>8. Positions(env', OLDPWD) # {} /\ Present(EnvGet(env', OLDPWD)) = Present(OldPwd)
            BY <3>3, <3>7, GetView, Shown
        <3>9. EnvGet(env', OLDPWD) = OldPwd
            BY <3>8, Shown
        <3>10. QED
            BY <3>1, <3>2, <3>4, <3>9
    <2>4. QED
        BY <2>2, <2>3
<1>2. QED
    BY InvHolds, FoundHolds, <1>1, PTL DEF CdLands, Spec

\* A cd that fails, even after chdir has succeeded, leaves PWD as it was, and the
\* directory if PWD names it: cd_path goes back. If PWD cannot be followed any more
\* the shell may be left where cd was to go, and nowhere else.
THEOREM FailedCdGoesBack == Spec => CdAtomic
<1> DEFINE A == Cd /\ status' = 1
                => /\ EnvGet(env', PWD) = EnvGet(env, PWD)
                   /\ Honest => \/ cwd' = cwd
                               \/ /\ ~CanEnter(cwd, OldPwd.text)
                                  /\ Misread \/ cwd' = Destination
<1>1. Inv /\ FoundInv => A
    <2> SUFFICES ASSUME Inv, TextsOnly, Cd, status' = 1
                 PROVE  /\ EnvGet(env', PWD) = EnvGet(env, PWD)
                        /\ Honest => \/ cwd' = cwd
                                    \/ /\ ~CanEnter(cwd, OldPwd.text)
                                       /\ Misread \/ cwd' = Destination
        BY DEF FoundInv
    <2>1. CASE UNCHANGED <<env, cwd>>
        BY <2>1
    <2>2. CASE ~Stay(1) /\ \E p : CdPath(p)
        <3>1. ASSUME NEW p, CdPath(p)
              PROVE  /\ env' \in {env, Remembered} /\ cwd' = Return(DirOf(cwd, p))
                     /\ step' = "ready"
            BY <2>2, <3>1 DEF CdPath
        <3>2. EnvGet(env', PWD) = EnvGet(env, PWD)
            BY <2>2, <3>1, RememberedPwd DEF Inv
        <3>3. ASSUME Honest, CanEnter(cwd, OldPwd.text) PROVE cwd' = cwd
            <4>1. PICK p : CdPath(p)
                BY <2>2
            <4>2. ~OldPwd.null /\ IsAbsolute(OldPwd.text) /\ DirOf(<< >>, OldPwd.text) = cwd
                BY <3>3 DEF Honest, NamesDir
            <4>3. CanEnter(DirOf(cwd, p), OldPwd.text) /\ DirOf(DirOf(cwd, p), OldPwd.text) = cwd
                BY <3>3, <4>2, AbsoluteFromAnywhere
            <4>4. QED
                BY <3>1, <4>1, <4>2, <4>3 DEF Return
        <3>4. ASSUME Honest, ~CanEnter(cwd, OldPwd.text), ~Misread PROVE cwd' = Destination
            <4>1. PICK p : CdPath(p) /\ DirOf(cwd, p) = Destination
                BY <2>2, <3>1, <3>4, CdGoesThere
            <4>2. ~CanEnter(DirOf(cwd, p), OldPwd.text)
                BY <3>4, AbsoluteFromAnywhere DEF Honest, NamesDir
            <4>3. QED
                BY <3>1, <4>1, <4>2 DEF Return
        <3>5. QED
            BY <3>2, <3>3, <3>4
    <2>3. QED
        BY <2>1, <2>2, CdIsOneOf DEF Stay
<1>2. QED
    BY InvHolds, FoundHolds, <1>1, PTL DEF CdAtomic, Spec
================================================================================
