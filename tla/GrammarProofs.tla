----------------------------- MODULE GrammarProofs -----------------------------
(* The tables against the grammar they were made from, of which the program has no
   proof but that bison wrote them: what Derives, which knows the productions
   only, says of a text, and what Action and Goto make of it.

   A derivation is a chain of configurations, each a form and the number of tokens
   it is to derive, and what can be reached in it is what every set that the steps do
   not leave contains (Reaches): this needs no induction over derivations.  A form is
   at the state to which its symbols lead (At).  What a derivation shifts and
   reduces is then what the tables say for that state and the token that is ahead, for
   all 61 states and every default (Lookaheads).                                   *)
EXTENDS ParserProofs, SequenceTheorems, FiniteSetTheorems, WellFoundedInduction

--------------------------------------------------------------------------------
(* Induction                                                                     *)

\* What holds of 0, and of n when it holds of n - 1, holds up to N.
LEMMA UpTo ==
    ASSUME NEW N \in Nat, NEW S, 0 \in S, \A n \in 1 .. N : n - 1 \in S => n \in S
    PROVE  \A n \in 0 .. N : n \in S
<1> DEFINE T == {n \in 0 .. N : n \notin S}
<1> SUFFICES ASSUME T # {} PROVE FALSE
    OBVIOUS
<1>1. T \in SUBSET Nat
    OBVIOUS
<1> HIDE DEF T
<1>2. PICK m \in T : \A k \in T : ~(<<k, m>> \in OpToRel(<, Nat))
    BY <1>1, NatLessThanWellFounded, WFMin
<1>3. m \in 0 .. N /\ m \notin S
    BY DEF T
<1>4. m # 0 /\ m - 1 \in 0 .. N
    BY <1>3
<1>5. m - 1 \notin T
    <2> SUFFICES ASSUME m - 1 \in T PROVE FALSE
        OBVIOUS
    <2>1. m \in Nat /\ m - 1 \in Nat /\ m - 1 < m
        BY <1>3, <1>4
    <2>2. <<m - 1, m>> \in OpToRel(<, Nat)
        BY <2>1 DEF OpToRel
    <2>3. QED
        BY <1>2, <2>2
<1>6. m - 1 \in S
    BY <1>4, <1>5 DEF T
<1>7. QED
    BY <1>3, <1>4, <1>6

--------------------------------------------------------------------------------
(* Derivations                                                                  *)

\* The symbols that are replaced.
Nonterminals == DOMAIN Productions

\* A form and how many of the classes it is to derive.
Config(form, n) == <<form, n>>
Configs == Seq(Vocabulary) \X Nat
Joined(a, b) == a \o b

\* What is left when nothing is to be derived.
Nil == << >>
Derived == Config(Nil, 0)

\* S is never left.
Closed(cls, S) == \A c \in S : Steps(cls, c[1], c[2]) \subseteq S

\* The steps from c lead to d.
Reaches(cls, c, d) == \A S : Closed(cls, S) /\ c \in S => d \in S

\* Parts of a configuration.
LEMMA ConfigIs ==
    ASSUME NEW form, NEW n
    PROVE  /\ Config(form, n)[1] = form /\ Config(form, n)[2] = n
           /\ (form \in Seq(Vocabulary) /\ n \in Nat) <=> Config(form, n) \in Configs
BY DEF Config, Configs

\* Two configurations.
LEMMA ConfigsDiffer ==
    ASSUME NEW f, NEW n, NEW g, NEW m, Config(f, n) = Config(g, m)
    PROVE  f = g /\ n = m
BY DEF Config

\* What a configuration is.
LEMMA ConfigOf ==
    ASSUME NEW c \in Configs
    PROVE  /\ c = Config(c[1], c[2]) /\ c[1] \in Seq(Vocabulary) /\ c[2] \in Nat
BY DEF Config, Configs

\* The symbols by name.
LEMMA VocabularyIs ==
    /\ Nonterminals = {"program", "complete_commands", "and_or", "pipeline", "command",
            "subshell", "compound_list", "term", "simple_command", "cmd_name", "cmd_word",
            "cmd_prefix", "cmd_suffix", "redirect_list", "io_redirect", "io_file",
            "filename", "io_here", "here_end", "newline_list", "linebreak"}
    /\ Terminals = {"EOF", "WORD", "NEWLINE", "PIPE", "LESS", "GREAT", "DLESS", "DGREAT",
            "AND_IF", "OR_IF", "OPAR", "CPAR"}
    /\ Vocabulary = Nonterminals \cup Terminals
<1>1. Nonterminals = {"program", "complete_commands", "and_or", "pipeline", "command",
            "subshell", "compound_list", "term", "simple_command", "cmd_name", "cmd_word",
            "cmd_prefix", "cmd_suffix", "redirect_list", "io_redirect", "io_file",
            "filename", "io_here", "here_end", "newline_list", "linebreak"}
    BY DEF Nonterminals, Productions
<1>2. Terminals = {"EOF", "WORD", "NEWLINE", "PIPE", "LESS", "GREAT", "DLESS", "DGREAT",
            "AND_IF", "OR_IF", "OPAR", "CPAR"}
    BY DEF Terminals, Symbols, SymbolType
<1>3. Vocabulary = Nonterminals \cup Terminals
    BY DEF Vocabulary, Nonterminals
<1>4. QED
    BY ONLY <1>1, <1>2, <1>3

\* No symbol is both.
LEMMA Disjoint == Nonterminals \cap Terminals = {}
BY VocabularyIs

\* Right-hand sides are short forms.
LEMMA RightHandSides ==
    ASSUME NEW A \in Nonterminals, NEW rhs \in Productions[A]
    PROVE  rhs \in Seq(Vocabulary) /\ Len(rhs) \in 0 .. 4
<1> DEFINE Short == {s \in Seq(Vocabulary) : Len(s) \in 0 .. 4}
<1>1. Productions["program"] \subseteq Short
    BY VocabularyIs DEF Productions
<1>2. Productions["complete_commands"] \subseteq Short
    BY VocabularyIs DEF Productions
<1>3. Productions["and_or"] \subseteq Short
    BY VocabularyIs DEF Productions
<1>4. Productions["pipeline"] \subseteq Short
    BY VocabularyIs DEF Productions
<1>5. Productions["command"] \subseteq Short
    BY VocabularyIs DEF Productions
<1>6. Productions["subshell"] \subseteq Short
    BY VocabularyIs DEF Productions
<1>7. Productions["compound_list"] \subseteq Short
    BY VocabularyIs DEF Productions
<1>8. Productions["term"] \subseteq Short
    BY VocabularyIs DEF Productions
<1>9. Productions["simple_command"] \subseteq Short
    BY VocabularyIs DEF Productions
<1>10. Productions["cmd_name"] \subseteq Short
    BY VocabularyIs DEF Productions
<1>11. Productions["cmd_word"] \subseteq Short
    BY VocabularyIs DEF Productions
<1>12. Productions["cmd_prefix"] \subseteq Short
    BY VocabularyIs DEF Productions
<1>13. Productions["cmd_suffix"] \subseteq Short
    BY VocabularyIs DEF Productions
<1>14. Productions["redirect_list"] \subseteq Short
    BY VocabularyIs DEF Productions
<1>15. Productions["io_redirect"] \subseteq Short
    BY VocabularyIs DEF Productions
<1>16. Productions["io_file"] \subseteq Short
    BY VocabularyIs DEF Productions
<1>17. Productions["filename"] \subseteq Short
    BY VocabularyIs DEF Productions
<1>18. Productions["io_here"] \subseteq Short
    BY VocabularyIs DEF Productions
<1>19. Productions["here_end"] \subseteq Short
    BY VocabularyIs DEF Productions
<1>20. Productions["newline_list"] \subseteq Short
    BY VocabularyIs DEF Productions
<1>21. Productions["linebreak"] \subseteq Short
    BY VocabularyIs DEF Productions
<1> HIDE DEF Short
<1>22. \A B \in Nonterminals : Productions[B] \subseteq Short
    BY VocabularyIs, <1>1, <1>2, <1>3, <1>4, <1>5, <1>6, <1>7, <1>8, <1>9, <1>10, <1>11, <1>12,
       <1>13, <1>14, <1>15, <1>16, <1>17, <1>18, <1>19, <1>20, <1>21
<1>23. QED
    BY <1>22 DEF Short

\* A form that is not empty.
LEMMA FormEnds ==
    ASSUME NEW X, NEW form \in Seq(X), form # << >>
    PROVE  Last(form) \in X /\ Front(form) \in Seq(X) /\ form = Append(Front(form), Last(form))
<1>1. PICK s \in Seq(X), e \in X : form = Append(s, e)
    BY SequenceEmptyOrAppend
<1>2. Last(Append(s, e)) = e
    BY DEF Last
<1>3. Front(Append(s, e)) = s
    BY DEF Front
<1>4. QED
    BY <1>1, <1>2, <1>3, Zenon

\* The end of a form.
LEMMA EndOf ==
    ASSUME NEW X, NEW s \in Seq(X), NEW e \in X
    PROVE  Append(s, e) # << >> /\ Last(Append(s, e)) = e /\ Front(Append(s, e)) = s
<1>1. Last(Append(s, e)) = e
    BY DEF Last
<1>2. Front(Append(s, e)) = s
    BY DEF Front
<1>3. Append(s, e) # << >>
    BY AppendProperties
<1>4. QED
    BY <1>1, <1>2, <1>3, Zenon

\* Two forms are joined to a form.
LEMMA JoinedIs ==
    ASSUME NEW X, NEW a \in Seq(X), NEW b \in Seq(X)
    PROVE  Joined(a, b) \in Seq(X) /\ Len(Joined(a, b)) = Len(a) + Len(b)
BY DEF Joined

\* The steps from a form that ends in a terminal.
LEMMA AtTerminal ==
    ASSUME NEW cls, NEW form \in Seq(Vocabulary), NEW t \in Terminals, NEW n \in Nat, NEW g,
           g = Append(form, t)
    PROVE  Steps(cls, g, n) = IF n > 0 /\ cls[n] = t THEN {Config(form, n - 1)} ELSE {}
<1>1. t \in Vocabulary
    BY VocabularyIs
<1>2. g # << >> /\ Last(g) = t /\ Front(g) = form
    BY <1>1, EndOf
<1>3. QED
    BY <1>2, Zenon DEF Steps, Config

\* The terminal is taken.
LEMMA Taken ==
    ASSUME NEW cls, NEW form \in Seq(Vocabulary), NEW t \in Terminals, NEW n \in Nat,
           NEW d \in Steps(cls, Append(form, t), n)
    PROVE  n > 0 /\ cls[n] = t /\ d = Config(form, n - 1)
<1>1. PICK g : g = Append(form, t)
    OBVIOUS
<1>2. Steps(cls, g, n) = IF n > 0 /\ cls[n] = t THEN {Config(form, n - 1)} ELSE {}
    BY <1>1, AtTerminal, Zenon
<1>3. d \in Steps(cls, g, n)
    BY <1>1, Zenon
<1>4. CASE n > 0 /\ cls[n] = t
    BY <1>2, <1>3, <1>4
<1>5. CASE ~(n > 0 /\ cls[n] = t)
    BY <1>2, <1>3, <1>5
<1>6. QED
    BY <1>4, <1>5

\* It can be taken when it is the last class.
LEMMA Takes ==
    ASSUME NEW cls, NEW form \in Seq(Vocabulary), NEW t \in Terminals, NEW n \in Nat, n > 0,
           cls[n] = t
    PROVE  Config(form, n - 1) \in Steps(cls, Append(form, t), n)
<1>1. PICK g : g = Append(form, t)
    OBVIOUS
<1>2. Steps(cls, g, n) = IF n > 0 /\ cls[n] = t THEN {Config(form, n - 1)} ELSE {}
    BY <1>1, AtTerminal, Zenon
<1>3. Config(form, n - 1) \in Steps(cls, g, n)
    BY <1>2
<1>4. QED
    BY <1>1, <1>3, Zenon

\* The steps by which a nonterminal is replaced.
LEMMA Unfolds ==
    ASSUME NEW cls, NEW form \in Seq(Vocabulary), NEW A \in Nonterminals, NEW n \in Nat, NEW d
    PROVE  d \in Steps(cls, Append(form, A), n) <=>
               \E rhs \in Productions[A] : /\ d = Config(Joined(form, rhs), n)
                                           /\ MinLength(Joined(form, rhs)) <= n
<1>1. A \in Vocabulary /\ A \notin Terminals
    BY VocabularyIs, Disjoint
<1>2. PICK g : g = Append(form, A)
    OBVIOUS
<1>3. g # << >> /\ Last(g) = A /\ Front(g) = form
    BY <1>1, <1>2, EndOf
<1>4. Steps(cls, g, n) = {c \in {Config(Joined(form, rhs), n) : rhs \in Productions[A]} :
                             MinLength(c[1]) <= n}
    BY <1>1, <1>3, Zenon DEF Steps, Config, Joined
<1>5. \A rhs : Config(Joined(form, rhs), n)[1] = Joined(form, rhs)
    BY ConfigIs
<1>6. d \in Steps(cls, g, n) <=>
               \E rhs \in Productions[A] : /\ d = Config(Joined(form, rhs), n)
                                           /\ MinLength(Joined(form, rhs)) <= n
    BY <1>4, <1>5, Zenon
<1>7. QED
    BY <1>2, <1>6, Zenon

\* d has a right-hand side of A after form, and must not be longer than n.
Replaced(form, A, n, d) ==
    \E rhs \in Productions[A] : /\ d = Config(Joined(form, rhs), n)
                                /\ MinLength(Joined(form, rhs)) <= n

\* One of its right-hand sides takes the place of a nonterminal.
LEMMA Unfolded ==
    ASSUME NEW cls, NEW form \in Seq(Vocabulary), NEW A \in Nonterminals, NEW n \in Nat,
           NEW d \in Steps(cls, Append(form, A), n)
    PROVE  Replaced(form, A, n, d)
<1>1. \A e : e \in Steps(cls, Append(form, A), n) <=>
               \E rhs \in Productions[A] : /\ e = Config(Joined(form, rhs), n)
                                           /\ MinLength(Joined(form, rhs)) <= n
    BY Unfolds, Zenon
<1>2. QED
    BY <1>1, Zenon DEF Replaced

\* Nothing follows an empty form.
LEMMA NilEnds ==
    ASSUME NEW cls, NEW n
    PROVE  Steps(cls, Nil, n) = {}
BY DEF Steps, Nil

\* A form is empty or ends in a terminal or in a nonterminal.
LEMMA Forms ==
    ASSUME NEW form \in Seq(Vocabulary)
    PROVE  \/ form = Nil
           \/ \E g \in Seq(Vocabulary), t \in Terminals : form = Append(g, t)
           \/ \E g \in Seq(Vocabulary), A \in Nonterminals : form = Append(g, A)
<1>1. CASE form = << >>
    BY <1>1 DEF Nil
<1>2. CASE form # << >>
    <2>1. PICK g \in Seq(Vocabulary), x \in Vocabulary : form = Append(g, x)
        BY <1>2, SequenceEmptyOrAppend
    <2>2. x \in Terminals \/ x \in Nonterminals
        BY VocabularyIs
    <2>3. QED
        BY <2>1, <2>2
<1>3. QED
    BY <1>1, <1>2

\* d is a step from form and n.
Stepped(cls, form, n, d) ==
    \/ \E g \in Seq(Vocabulary), t \in Terminals :
            form = Append(g, t) /\ n > 0 /\ cls[n] = t /\ d = Config(g, n - 1)
    \/ \E g \in Seq(Vocabulary), A \in Nonterminals : \E rhs \in Productions[A] :
            /\ form = Append(g, A) /\ d = Config(Joined(g, rhs), n)
            /\ MinLength(Joined(g, rhs)) <= n

\* A step takes a terminal or replaces a nonterminal.
LEMMA StepIs ==
    ASSUME NEW cls, NEW form \in Seq(Vocabulary), NEW n \in Nat, NEW d \in Steps(cls, form, n)
    PROVE  Stepped(cls, form, n, d)
<1>1. CASE form = Nil
    BY <1>1, NilEnds
<1>2. ASSUME NEW g \in Seq(Vocabulary), NEW t \in Terminals, form = Append(g, t)
      PROVE  n > 0 /\ cls[n] = t /\ d = Config(g, n - 1)
    <2>1. d \in Steps(cls, Append(g, t), n)
        BY <1>2, Zenon
    <2>2. QED
        BY <2>1, Taken, Zenon
<1>3. ASSUME NEW g \in Seq(Vocabulary), NEW A \in Nonterminals, form = Append(g, A)
      PROVE  \E rhs \in Productions[A] : /\ d = Config(Joined(g, rhs), n)
                                         /\ MinLength(Joined(g, rhs)) <= n
    <2>1. d \in Steps(cls, Append(g, A), n)
        BY <1>3, Zenon
    <2>2. Replaced(g, A, n, d)
        BY <2>1, Unfolded, Zenon
    <2>3. QED
        BY <2>2, Zenon DEF Replaced
<1>4. CASE \E g \in Seq(Vocabulary), t \in Terminals : form = Append(g, t)
    BY <1>2, <1>4, Zenon DEF Stepped
<1>5. CASE \E g \in Seq(Vocabulary), A \in Nonterminals : form = Append(g, A)
    <2>1. PICK g \in Seq(Vocabulary), A \in Nonterminals : form = Append(g, A)
        BY <1>5
    <2>2. PICK rhs \in Productions[A] : /\ d = Config(Joined(g, rhs), n)
                                        /\ MinLength(Joined(g, rhs)) <= n
        BY <1>3, <2>1, Zenon
    <2>3. QED
        BY <2>1, <2>2, Zenon DEF Stepped
<1>6. QED
    BY <1>1, <1>4, <1>5, Forms, Zenon

\* A step leads from configuration to configuration.
LEMMA StepsStay ==
    ASSUME NEW cls, NEW c \in Configs, NEW d \in Steps(cls, c[1], c[2])
    PROVE  d \in Configs
<1>1. PICK form \in Seq(Vocabulary), n \in Nat : d \in Steps(cls, form, n)
    BY ConfigOf
<1>2. ASSUME NEW g \in Seq(Vocabulary), NEW t \in Terminals, n > 0, d = Config(g, n - 1)
      PROVE  d \in Configs
    <2>1. n - 1 \in Nat
        BY <1>1, <1>2
    <2>2. QED
        BY <1>2, <2>1, ConfigIs
<1>3. ASSUME NEW g \in Seq(Vocabulary), NEW A \in Nonterminals, NEW rhs \in Productions[A],
             d = Config(Joined(g, rhs), n)
      PROVE  d \in Configs
    <2>1. Joined(g, rhs) \in Seq(Vocabulary)
        BY RightHandSides, JoinedIs
    <2>2. QED
        BY <1>1, <1>3, <2>1, ConfigIs
<1>4. QED
    BY <1>1, <1>2, <1>3, StepIs DEF Stepped

\* Nothing leads further than itself at least.
LEMMA ReachesSelf ==
    ASSUME NEW cls, NEW c
    PROVE  Reaches(cls, c, c)
BY DEF Reaches

\* A step first.
LEMMA StepReaches ==
    ASSUME NEW cls, NEW c, NEW d \in Steps(cls, c[1], c[2]), NEW e, Reaches(cls, d, e)
    PROVE  Reaches(cls, c, e)
BY DEF Reaches, Closed

\* A step last.
LEMMA ReachesStep ==
    ASSUME NEW cls, NEW c, NEW d, Reaches(cls, c, d), NEW e \in Steps(cls, d[1], d[2])
    PROVE  Reaches(cls, c, e)
BY DEF Reaches, Closed

\* What is reached from a configuration is one.
LEMMA ReachedIs ==
    ASSUME NEW cls, NEW c \in Configs, NEW d, Reaches(cls, c, d)
    PROVE  d \in Configs
<1>1. Closed(cls, Configs)
    BY StepsStay DEF Closed
<1>2. QED
    BY <1>1 DEF Reaches

\* What is reached and is not the start was reached by a step.
LEMMA LastStep ==
    ASSUME NEW cls, NEW c \in Configs, NEW d, Reaches(cls, c, d), c # d
    PROVE  \E e \in Configs : Reaches(cls, c, e) /\ d \in Steps(cls, e[1], e[2])
<1> DEFINE S == {e \in Configs : Reaches(cls, c, e) /\ e # d}
<1> SUFFICES ASSUME \A e \in Configs : ~(Reaches(cls, c, e) /\ d \in Steps(cls, e[1], e[2]))
             PROVE  FALSE
    OBVIOUS
<1>1. Closed(cls, S)
    <2> SUFFICES ASSUME NEW e \in S, NEW x \in Steps(cls, e[1], e[2]) PROVE x \in S
        BY DEF Closed
    <2>1. x \in Configs
        BY StepsStay
    <2>2. Reaches(cls, c, x)
        BY ReachesStep
    <2>3. QED
        BY <2>1, <2>2
<1>2. c \in S
    BY ReachesSelf
<1>3. d \in S
    BY <1>1, <1>2 DEF Reaches
<1>4. QED
    BY <1>3

\* What is reached and is not the start is reached from one of the next.
LEMMA FirstStep ==
    ASSUME NEW cls, NEW c \in Configs, NEW d, Reaches(cls, c, d), c # d
    PROVE  \E e \in Steps(cls, c[1], c[2]) : Reaches(cls, e, d)
<1> DEFINE S == {e \in Configs : e = c \/ \E f \in Steps(cls, c[1], c[2]) : Reaches(cls, f, e)}
<1>1. Closed(cls, S)
    <2> SUFFICES ASSUME NEW e \in S, NEW x \in Steps(cls, e[1], e[2]) PROVE x \in S
        BY DEF Closed
    <2>1. x \in Configs
        BY StepsStay
    <2>2. CASE e = c
        BY <2>1, <2>2, ReachesSelf
    <2>3. ASSUME NEW f \in Steps(cls, c[1], c[2]), Reaches(cls, f, e) PROVE x \in S
        BY <2>1, <2>3, ReachesStep
    <2>4. QED
        BY <2>2, <2>3
<1>2. d \in S
    BY <1>1 DEF Reaches
<1>3. QED
    BY <1>2

--------------------------------------------------------------------------------
(* Derives and the closure of the steps                                         *)

\* The sentence is to be derived from a program.
Whole(cls) == Config(<<"program">>, Len(cls))

\* f is a function of the kind that Derives looks into.
Decides(cls, f) ==
    f = [c \in Configs |-> c = Derived \/ \E d \in Steps(cls, c[1], c[2]) : f[d]]

\* There is one: it tells whether everything can be derived.
LEMMA OneDecides ==
    ASSUME NEW cls
    PROVE  Decides(cls, [c \in Configs |-> Reaches(cls, c, Derived)])
<1> DEFINE g == [c \in Configs |-> Reaches(cls, c, Derived)]
           h == [c \in Configs |-> c = Derived \/ \E d \in Steps(cls, c[1], c[2]) : g[d]]
<1>1. ASSUME NEW c \in Configs PROVE g[c] = h[c]
    <2>1. \A d \in Steps(cls, c[1], c[2]) : g[d] = Reaches(cls, d, Derived)
        BY StepsStay
    <2>2. h[c] = (c = Derived \/ \E d \in Steps(cls, c[1], c[2]) : Reaches(cls, d, Derived))
        BY <2>1
    <2>3. ASSUME Reaches(cls, c, Derived), c # Derived
          PROVE  \E d \in Steps(cls, c[1], c[2]) : Reaches(cls, d, Derived)
        BY <2>3, FirstStep
    <2>4. Reaches(cls, Derived, Derived)
        BY ReachesSelf
    <2>5. (\E d \in Steps(cls, c[1], c[2]) : Reaches(cls, d, Derived)) => Reaches(cls, c, Derived)
        BY StepReaches
    <2>6. Reaches(cls, c, Derived) \in BOOLEAN
        BY DEF Reaches
    <2>7. Reaches(cls, c, Derived) <=> h[c]
        BY <2>2, <2>3, <2>4, <2>5
    <2>8. h[c] \in BOOLEAN
        BY <2>2
    <2>9. QED
        BY <2>6, <2>7, <2>8
<1>2. g = h
    BY <1>1
<1>3. QED
    BY <1>2 DEF Decides

\* Derives looks into one.
LEMMA Decided ==
    ASSUME NEW cls
    PROVE  \E f : Decides(cls, f) /\ Derives(cls) = f[Whole(cls)]
<1> DEFINE Body(f) == [c \in Seq(Vocabulary) \X Nat |->
                          c = <<<< >>, 0>> \/ \E d \in Steps(cls, c[1], c[2]) : f[d]]
           f0 == CHOOSE f : f = Body(f)
<1>1. \A f : Decides(cls, f) <=> f = Body(f)
    BY DEF Decides, Configs, Derived, Config, Nil
<1>2. \E f : f = Body(f)
    BY <1>1, OneDecides
<1>3. f0 = Body(f0)
    BY <1>2
<1>4. Derives(cls) = f0[<<<<"program">>, Len(cls)>>]
    BY Zenon DEF Derives
<1> HIDE DEF f0, Body
<1>5. Decides(cls, f0)
    BY <1>1, <1>3
<1>6. f0[<<<<"program">>, Len(cls)>>] = f0[Whole(cls)]
    BY DEF Whole, Config
<1>7. QED
    BY <1>4, <1>5, <1>6

\* What leads to the end of a derivation is found to derive.
LEMMA FoundToDerive ==
    ASSUME NEW cls, NEW f, Decides(cls, f), NEW c \in Configs, Reaches(cls, c, Derived)
    PROVE  f[c]
<1> DEFINE S == {e \in Configs : ~f[e]}
<1> SUFFICES ASSUME ~f[c] PROVE FALSE
    OBVIOUS
<1>1. \A e \in Configs : f[e] = (e = Derived \/ \E d \in Steps(cls, e[1], e[2]) : f[d])
    BY DEF Decides
<1>2. Closed(cls, S)
    <2> SUFFICES ASSUME NEW e \in S, NEW x \in Steps(cls, e[1], e[2]) PROVE x \in S
        BY DEF Closed
    <2>1. x \in Configs
        BY StepsStay
    <2>2. QED
        BY <1>1, <2>1
<1>3. Derived \in S
    BY <1>2 DEF Reaches
<1>4. QED
    BY <1>1, <1>3

\* A configuration that is found to derive has a step to one, unless it is the end.
LEMMA FoundOn ==
    ASSUME NEW cls, NEW f, Decides(cls, f), NEW c \in Configs, f[c], c # Derived
    PROVE  \E d \in Steps(cls, c[1], c[2]) : d \in Configs /\ f[d]
<1>1. f[c] = (c = Derived \/ \E d \in Steps(cls, c[1], c[2]) : f[d])
    BY DEF Decides
<1>2. QED
    BY <1>1, StepsStay

--------------------------------------------------------------------------------
(* What the tables know of the grammar                                          *)

\* How a command and a redirection begin; what follows a command, a redirection of a
\* subshell, and a word.
CommandFirst == {"WORD", "LESS", "GREAT", "DLESS", "DGREAT", "OPAR"}
RedirFirst == {"LESS", "GREAT", "DLESS", "DGREAT"}
CommandEnd == {"PIPE", "AND_IF", "OR_IF", "CPAR", "NEWLINE", "EOF"}
ListEnd == CommandEnd \cup RedirFirst
WordEnd == ListEnd \cup {"WORD"}

\* The classes that each state shifts.
Shiftable == Table(<<
    {"NEWLINE"}, {}, {"EOF"}, {"NEWLINE"}, CommandFirst, {}, {}, {}, {"WORD"}, {"WORD"},
    {"WORD"}, {"WORD"}, {"NEWLINE"}, {"NEWLINE"}, {"AND_IF", "OR_IF"}, {"PIPE"}, {},
    RedirFirst, {}, RedirFirst \cup {"WORD"}, RedirFirst \cup {"WORD"}, {}, {}, {}, {},
    {}, {}, {}, {}, {}, {"CPAR"}, CommandFirst, CommandFirst \cup {"NEWLINE"}, {},
    {"NEWLINE"}, {"NEWLINE"}, {"NEWLINE"}, RedirFirst, {}, {}, RedirFirst \cup {"WORD"},
    {}, {}, RedirFirst \cup {"WORD"}, {}, {}, {"AND_IF", "OR_IF"}, {"NEWLINE"},
    {"AND_IF", "OR_IF"}, CommandFirst, CommandFirst, CommandFirst, {}, {}, {},
    RedirFirst \cup {"WORD"}, CommandFirst \cup {"NEWLINE"}, {"PIPE"}, {"PIPE"}, {},
    {"AND_IF", "OR_IF"}>>)

\* The classes that can follow in each state, in a sentence of the grammar.
Lookaheads == Table(<<
    CommandFirst \cup {"EOF", "NEWLINE"}, CommandFirst \cup {"CPAR", "EOF", "NEWLINE"},
    {"EOF"}, CommandFirst \cup {"EOF", "NEWLINE"}, CommandFirst \cup {"EOF"}, {},
    CommandFirst \cup {"CPAR", "EOF", "NEWLINE"}, WordEnd, {"WORD"}, {"WORD"}, {"WORD"},
    {"WORD"}, CommandFirst \cup {"NEWLINE"}, {"EOF", "NEWLINE"},
    {"AND_IF", "EOF", "NEWLINE", "OR_IF"}, CommandEnd, CommandEnd, ListEnd, CommandEnd,
    WordEnd, WordEnd, WordEnd, WordEnd, WordEnd, WordEnd, WordEnd, WordEnd, WordEnd,
    WordEnd, WordEnd, {"CPAR"}, CommandFirst, CommandFirst \cup {"EOF", "NEWLINE"},
    {"EOF"}, CommandFirst \cup {"NEWLINE"}, CommandFirst \cup {"NEWLINE"},
    CommandFirst \cup {"NEWLINE"}, ListEnd, ListEnd, WordEnd, WordEnd, WordEnd, WordEnd,
    WordEnd, WordEnd, ListEnd, {"AND_IF", "CPAR", "NEWLINE", "OR_IF"},
    {"CPAR", "NEWLINE"}, {"AND_IF", "EOF", "NEWLINE", "OR_IF"}, CommandFirst,
    CommandFirst, CommandFirst, ListEnd, WordEnd, WordEnd, WordEnd,
    CommandFirst \cup {"CPAR", "NEWLINE"}, CommandEnd, CommandEnd, CommandEnd,
    {"AND_IF", "CPAR", "NEWLINE", "OR_IF"}>>)

\* The state after symbol x in state p.
Turn(p, x) == IF x \in Terminals THEN Action(p, x) ELSE Goto(p, x)
Enters(p, x, q) == Leads(p, q, x) /\ Turn(p, x) = q

\* The symbols w lead from state p to state s.
Along(p, w, s) ==
    CASE Len(w) = 0 -> s = p
      [] Len(w) = 1 -> Enters(p, w[1], s)
      [] Len(w) = 2 -> \E q : Enters(p, w[1], q) /\ Enters(q, w[2], s)
      [] Len(w) = 3 -> \E q, r : Enters(p, w[1], q) /\ Enters(q, w[2], r) /\ Enters(r, w[3], s)
      [] Len(w) = 4 -> \E q, r, u : /\ Enters(p, w[1], q) /\ Enters(q, w[2], r)
                                    /\ Enters(r, w[3], u) /\ Enters(u, w[4], s)

(* Where the left-hand side of rule r can stand, its right-hand side can be read; then what
   can follow the left-hand side can follow, and the rule is reduced.           *)
RuleFollows(r) ==
    \A q \in States : Entry[q] = Rules[r].lhs =>
        \A p \in Below[q] : \E s :
            /\ Along(p, Rhs[r], s)
            /\ \A a \in Lookaheads[q] : a \in Lookaheads[s] /\ Action(s, a) = -r

\* The states after a terminal.
LEMMA TerminalsEnter ==
    /\ \A p \in {0, 12, 13, 34, 35, 36, 47} : Enters(p, "NEWLINE", 1)
    /\ \A p \in {3, 32, 56} : Enters(p, "NEWLINE", 6)
    /\ \A p \in {4, 31, 32, 49, 50, 51, 56} : Enters(p, "WORD", 7)
    /\ \A p \in {4, 17, 19, 20, 31, 32, 37, 40, 43, 49, 50, 51, 55, 56} : Enters(p, "LESS", 8)
    /\ \A p \in {4, 17, 19, 20, 31, 32, 37, 40, 43, 49, 50, 51, 55, 56} : Enters(p, "GREAT", 9)
    /\ \A p \in {4, 17, 19, 20, 31, 32, 37, 40, 43, 49, 50, 51, 55, 56} : Enters(p, "DLESS", 10)
    /\ \A p \in {4, 17, 19, 20, 31, 32, 37, 40, 43, 49, 50, 51, 55, 56} : Enters(p, "DGREAT", 11)
    /\ \A p \in {4, 31, 32, 49, 50, 51, 56} : Enters(p, "OPAR", 12)
    /\ \A p \in {8, 9, 11} : Enters(p, "WORD", 24)
    /\ \A p \in {10} : Enters(p, "WORD", 27)
    /\ \A p \in {14, 46, 48, 60} : Enters(p, "AND_IF", 34)
    /\ \A p \in {14, 46, 48, 60} : Enters(p, "OR_IF", 35)
    /\ \A p \in {15, 57, 58} : Enters(p, "PIPE", 36)
    /\ \A p \in {19, 43} : Enters(p, "WORD", 39)
    /\ \A p \in {20} : Enters(p, "WORD", 42)
    /\ \A p \in {30} : Enters(p, "CPAR", 45)
    /\ \A p \in {40, 55} : Enters(p, "WORD", 53)
<1>1. \A p \in {0, 12, 13, 34, 35, 36, 47} : Enters(p, "NEWLINE", 1)
    <2>1. \A p \in {0, 12, 13, 34, 35, 36, 47} : Action(p, "NEWLINE") = 1
        BY DEF Action, Matches, SymbolType, YyPact, YyPactNInf, YyLast, YyCheck, YyTable, Table
    <2>2. \A p \in {0, 12, 13, 34, 35, 36, 47} : Leads(p, 1, "NEWLINE")
        BY DEF Leads, States, Below, Entry, Table, CommandStarts, RedirStarts, BreakStarts
    <2>3. QED
        BY <2>1, <2>2, VocabularyIs DEF Enters, Turn
<1>2. \A p \in {3, 32, 56} : Enters(p, "NEWLINE", 6)
    <2>1. \A p \in {3, 32, 56} : Action(p, "NEWLINE") = 6
        BY DEF Action, Matches, SymbolType, YyPact, YyPactNInf, YyLast, YyCheck, YyTable, Table
    <2>2. \A p \in {3, 32, 56} : Leads(p, 6, "NEWLINE")
        BY DEF Leads, States, Below, Entry, Table, CommandStarts, RedirStarts, BreakStarts
    <2>3. QED
        BY <2>1, <2>2, VocabularyIs DEF Enters, Turn
<1>3. \A p \in {4, 31, 32, 49, 50, 51, 56} : Enters(p, "WORD", 7)
    <2>1. \A p \in {4, 31, 32, 49, 50, 51, 56} : Action(p, "WORD") = 7
        BY DEF Action, Matches, SymbolType, YyPact, YyPactNInf, YyLast, YyCheck, YyTable, Table
    <2>2. \A p \in {4, 31, 32, 49, 50, 51, 56} : Leads(p, 7, "WORD")
        BY DEF Leads, States, Below, Entry, Table, CommandStarts, RedirStarts, BreakStarts
    <2>3. QED
        BY <2>1, <2>2, VocabularyIs DEF Enters, Turn
<1>4. \A p \in {4, 17, 19, 20, 31, 32, 37, 40, 43, 49, 50, 51, 55, 56} : Enters(p, "LESS", 8)
    <2>1. \A p \in {4, 17, 19, 20, 31, 32, 37, 40, 43, 49, 50, 51, 55, 56} : Action(p, "LESS") = 8
        BY DEF Action, Matches, SymbolType, YyPact, YyPactNInf, YyLast, YyCheck, YyTable, Table
    <2>2. \A p \in {4, 17, 19, 20, 31, 32, 37, 40, 43, 49, 50, 51, 55, 56} : Leads(p, 8, "LESS")
        BY DEF Leads, States, Below, Entry, Table, CommandStarts, RedirStarts, BreakStarts
    <2>3. QED
        BY <2>1, <2>2, VocabularyIs DEF Enters, Turn
<1>5. \A p \in {4, 17, 19, 20, 31, 32, 37, 40, 43, 49, 50, 51, 55, 56} : Enters(p, "GREAT", 9)
    <2>1. \A p \in {4, 17, 19, 20, 31, 32, 37, 40, 43, 49, 50, 51, 55, 56} : Action(p, "GREAT") = 9
        BY DEF Action, Matches, SymbolType, YyPact, YyPactNInf, YyLast, YyCheck, YyTable, Table
    <2>2. \A p \in {4, 17, 19, 20, 31, 32, 37, 40, 43, 49, 50, 51, 55, 56} : Leads(p, 9, "GREAT")
        BY DEF Leads, States, Below, Entry, Table, CommandStarts, RedirStarts, BreakStarts
    <2>3. QED
        BY <2>1, <2>2, VocabularyIs DEF Enters, Turn
<1>6. \A p \in {4, 17, 19, 20, 31, 32, 37, 40, 43, 49, 50, 51, 55, 56} : Enters(p, "DLESS", 10)
    <2>1. \A p \in {4, 17, 19, 20, 31, 32, 37, 40, 43, 49, 50, 51, 55, 56} : Action(p, "DLESS") = 10
        BY DEF Action, Matches, SymbolType, YyPact, YyPactNInf, YyLast, YyCheck, YyTable, Table
    <2>2. \A p \in {4, 17, 19, 20, 31, 32, 37, 40, 43, 49, 50, 51, 55, 56} : Leads(p, 10, "DLESS")
        BY DEF Leads, States, Below, Entry, Table, CommandStarts, RedirStarts, BreakStarts
    <2>3. QED
        BY <2>1, <2>2, VocabularyIs DEF Enters, Turn
<1>7. \A p \in {4, 17, 19, 20, 31, 32, 37, 40, 43, 49, 50, 51, 55, 56} : Enters(p, "DGREAT", 11)
    <2>1. \A p \in {4, 17, 19, 20, 31, 32, 37, 40, 43, 49, 50, 51, 55, 56} : Action(p, "DGREAT") = 11
        BY DEF Action, Matches, SymbolType, YyPact, YyPactNInf, YyLast, YyCheck, YyTable, Table
    <2>2. \A p \in {4, 17, 19, 20, 31, 32, 37, 40, 43, 49, 50, 51, 55, 56} : Leads(p, 11, "DGREAT")
        BY DEF Leads, States, Below, Entry, Table, CommandStarts, RedirStarts, BreakStarts
    <2>3. QED
        BY <2>1, <2>2, VocabularyIs DEF Enters, Turn
<1>8. \A p \in {4, 31, 32, 49, 50, 51, 56} : Enters(p, "OPAR", 12)
    <2>1. \A p \in {4, 31, 32, 49, 50, 51, 56} : Action(p, "OPAR") = 12
        BY DEF Action, Matches, SymbolType, YyPact, YyPactNInf, YyLast, YyCheck, YyTable, Table
    <2>2. \A p \in {4, 31, 32, 49, 50, 51, 56} : Leads(p, 12, "OPAR")
        BY DEF Leads, States, Below, Entry, Table, CommandStarts, RedirStarts, BreakStarts
    <2>3. QED
        BY <2>1, <2>2, VocabularyIs DEF Enters, Turn
<1>9. \A p \in {8, 9, 11} : Enters(p, "WORD", 24)
    <2>1. \A p \in {8, 9, 11} : Action(p, "WORD") = 24
        BY DEF Action, Matches, SymbolType, YyPact, YyPactNInf, YyLast, YyCheck, YyTable, Table
    <2>2. \A p \in {8, 9, 11} : Leads(p, 24, "WORD")
        BY DEF Leads, States, Below, Entry, Table, CommandStarts, RedirStarts, BreakStarts
    <2>3. QED
        BY <2>1, <2>2, VocabularyIs DEF Enters, Turn
<1>10. \A p \in {10} : Enters(p, "WORD", 27)
    <2>1. \A p \in {10} : Action(p, "WORD") = 27
        BY DEF Action, Matches, SymbolType, YyPact, YyPactNInf, YyLast, YyCheck, YyTable, Table
    <2>2. \A p \in {10} : Leads(p, 27, "WORD")
        BY DEF Leads, States, Below, Entry, Table, CommandStarts, RedirStarts, BreakStarts
    <2>3. QED
        BY <2>1, <2>2, VocabularyIs DEF Enters, Turn
<1>11. \A p \in {14, 46, 48, 60} : Enters(p, "AND_IF", 34)
    <2>1. \A p \in {14, 46, 48, 60} : Action(p, "AND_IF") = 34
        BY DEF Action, Matches, SymbolType, YyPact, YyPactNInf, YyLast, YyCheck, YyTable, Table
    <2>2. \A p \in {14, 46, 48, 60} : Leads(p, 34, "AND_IF")
        BY DEF Leads, States, Below, Entry, Table, CommandStarts, RedirStarts, BreakStarts
    <2>3. QED
        BY <2>1, <2>2, VocabularyIs DEF Enters, Turn
<1>12. \A p \in {14, 46, 48, 60} : Enters(p, "OR_IF", 35)
    <2>1. \A p \in {14, 46, 48, 60} : Action(p, "OR_IF") = 35
        BY DEF Action, Matches, SymbolType, YyPact, YyPactNInf, YyLast, YyCheck, YyTable, Table
    <2>2. \A p \in {14, 46, 48, 60} : Leads(p, 35, "OR_IF")
        BY DEF Leads, States, Below, Entry, Table, CommandStarts, RedirStarts, BreakStarts
    <2>3. QED
        BY <2>1, <2>2, VocabularyIs DEF Enters, Turn
<1>13. \A p \in {15, 57, 58} : Enters(p, "PIPE", 36)
    <2>1. \A p \in {15, 57, 58} : Action(p, "PIPE") = 36
        BY DEF Action, Matches, SymbolType, YyPact, YyPactNInf, YyLast, YyCheck, YyTable, Table
    <2>2. \A p \in {15, 57, 58} : Leads(p, 36, "PIPE")
        BY DEF Leads, States, Below, Entry, Table, CommandStarts, RedirStarts, BreakStarts
    <2>3. QED
        BY <2>1, <2>2, VocabularyIs DEF Enters, Turn
<1>14. \A p \in {19, 43} : Enters(p, "WORD", 39)
    <2>1. \A p \in {19, 43} : Action(p, "WORD") = 39
        BY DEF Action, Matches, SymbolType, YyPact, YyPactNInf, YyLast, YyCheck, YyTable, Table
    <2>2. \A p \in {19, 43} : Leads(p, 39, "WORD")
        BY DEF Leads, States, Below, Entry, Table, CommandStarts, RedirStarts, BreakStarts
    <2>3. QED
        BY <2>1, <2>2, VocabularyIs DEF Enters, Turn
<1>15. \A p \in {20} : Enters(p, "WORD", 42)
    <2>1. \A p \in {20} : Action(p, "WORD") = 42
        BY DEF Action, Matches, SymbolType, YyPact, YyPactNInf, YyLast, YyCheck, YyTable, Table
    <2>2. \A p \in {20} : Leads(p, 42, "WORD")
        BY DEF Leads, States, Below, Entry, Table, CommandStarts, RedirStarts, BreakStarts
    <2>3. QED
        BY <2>1, <2>2, VocabularyIs DEF Enters, Turn
<1>16. \A p \in {30} : Enters(p, "CPAR", 45)
    <2>1. \A p \in {30} : Action(p, "CPAR") = 45
        BY DEF Action, Matches, SymbolType, YyPact, YyPactNInf, YyLast, YyCheck, YyTable, Table
    <2>2. \A p \in {30} : Leads(p, 45, "CPAR")
        BY DEF Leads, States, Below, Entry, Table, CommandStarts, RedirStarts, BreakStarts
    <2>3. QED
        BY <2>1, <2>2, VocabularyIs DEF Enters, Turn
<1>17. \A p \in {40, 55} : Enters(p, "WORD", 53)
    <2>1. \A p \in {40, 55} : Action(p, "WORD") = 53
        BY DEF Action, Matches, SymbolType, YyPact, YyPactNInf, YyLast, YyCheck, YyTable, Table
    <2>2. \A p \in {40, 55} : Leads(p, 53, "WORD")
        BY DEF Leads, States, Below, Entry, Table, CommandStarts, RedirStarts, BreakStarts
    <2>3. QED
        BY <2>1, <2>2, VocabularyIs DEF Enters, Turn
<1>0. QED
    BY ONLY <1>1, <1>2, <1>3, <1>4, <1>5, <1>6, <1>7, <1>8, <1>9, <1>10, <1>11, <1>12, <1>13,
       <1>14, <1>15, <1>16, <1>17

\* The states after a nonterminal.
LEMMA NonterminalsEnter ==
    /\ \A p \in {0} : Enters(p, "program", 2)
    /\ \A p \in {0, 12, 34, 35, 36} : Enters(p, "newline_list", 3)
    /\ \A p \in {0} : Enters(p, "linebreak", 4)
    /\ \A p \in {4} : Enters(p, "complete_commands", 13)
    /\ \A p \in {4} : Enters(p, "and_or", 14)
    /\ \A p \in {4, 31, 32, 56} : Enters(p, "pipeline", 15)
    /\ \A p \in {4, 31, 32, 49, 50, 56} : Enters(p, "command", 16)
    /\ \A p \in {4, 31, 32, 49, 50, 51, 56} : Enters(p, "subshell", 17)
    /\ \A p \in {4, 31, 32, 49, 50, 51, 56} : Enters(p, "simple_command", 18)
    /\ \A p \in {4, 31, 32, 49, 50, 51, 56} : Enters(p, "cmd_name", 19)
    /\ \A p \in {4, 31, 32, 49, 50, 51, 56} : Enters(p, "cmd_prefix", 20)
    /\ \A p \in {4, 31, 32, 49, 50, 51, 56} : Enters(p, "io_redirect", 21)
    /\ \A p \in {4, 17, 19, 20, 31, 32, 37, 40, 43, 49, 50, 51, 55, 56} : Enters(p, "io_file", 22)
    /\ \A p \in {4, 17, 19, 20, 31, 32, 37, 40, 43, 49, 50, 51, 55, 56} : Enters(p, "io_here", 23)
    /\ \A p \in {8} : Enters(p, "filename", 25)
    /\ \A p \in {9} : Enters(p, "filename", 26)
    /\ \A p \in {10} : Enters(p, "here_end", 28)
    /\ \A p \in {11} : Enters(p, "filename", 29)
    /\ \A p \in {12} : Enters(p, "compound_list", 30)
    /\ \A p \in {12} : Enters(p, "linebreak", 31)
    /\ \A p \in {13} : Enters(p, "newline_list", 32)
    /\ \A p \in {13} : Enters(p, "linebreak", 33)
    /\ \A p \in {17} : Enters(p, "redirect_list", 37)
    /\ \A p \in {17} : Enters(p, "io_redirect", 38)
    /\ \A p \in {19} : Enters(p, "cmd_suffix", 40)
    /\ \A p \in {19, 43} : Enters(p, "io_redirect", 41)
    /\ \A p \in {20} : Enters(p, "cmd_word", 43)
    /\ \A p \in {20} : Enters(p, "io_redirect", 44)
    /\ \A p \in {31} : Enters(p, "and_or", 46)
    /\ \A p \in {31} : Enters(p, "term", 47)
    /\ \A p \in {32} : Enters(p, "and_or", 48)
    /\ \A p \in {34} : Enters(p, "linebreak", 49)
    /\ \A p \in {35} : Enters(p, "linebreak", 50)
    /\ \A p \in {36} : Enters(p, "linebreak", 51)
    /\ \A p \in {37} : Enters(p, "io_redirect", 52)
    /\ \A p \in {40, 55} : Enters(p, "io_redirect", 54)
    /\ \A p \in {43} : Enters(p, "cmd_suffix", 55)
    /\ \A p \in {47} : Enters(p, "newline_list", 56)
    /\ \A p \in {49} : Enters(p, "pipeline", 57)
    /\ \A p \in {50} : Enters(p, "pipeline", 58)
    /\ \A p \in {51} : Enters(p, "command", 59)
    /\ \A p \in {56} : Enters(p, "and_or", 60)
<1>1. \A x \in Nonterminals : x \notin Terminals
    BY Disjoint
<1>2. \A x \in Nonterminals : \A p, q : Leads(p, q, x) /\ Goto(p, x) = q => Enters(p, x, q)
    BY <1>1 DEF Enters, Turn
<1>3. QED
    BY <1>2, VocabularyIs, GotoValues, GotoLeads

\* What is not shifted is left to the default of the state.
LEMMA ElseDefault ==
    ASSUME NEW s \in States, NEW t \in Terminals, t \notin Shiftable[s]
    PROVE  Action(s, t) = -YyDefAct[s]
<1>1. ~(YyPact[s] # YyPactNInf /\ Matches(YyPact[s], SymbolType[t]))
    <2> SUFFICES ASSUME YyPact[s] # YyPactNInf, Matches(YyPact[s], SymbolType[t]) PROVE FALSE
        OBVIOUS
    <2>1. CASE YyPact[s] = 7 /\ s \in {32, 56}
        BY <2>1, Entries DEF Shiftable, Table, CommandFirst, RedirFirst, CommandEnd
    <2>2. CASE YyPact[s] = 8 /\ s \in {0, 12, 13, 34, 35, 36, 47}
        BY <2>2, Entries DEF Shiftable, Table, CommandFirst, RedirFirst, CommandEnd
    <2>3. CASE YyPact[s] = 14 /\ s \in {8, 9, 11}
        BY <2>3, Entries DEF Shiftable, Table, CommandFirst, RedirFirst, CommandEnd
    <2>4. CASE YyPact[s] = 16 /\ s \in {15, 57, 58}
        BY <2>4, Entries DEF Shiftable, Table, CommandFirst, RedirFirst, CommandEnd
    <2>5. CASE YyPact[s] = 17 /\ s \in {14, 46, 48, 60}
        BY <2>5, Entries DEF Shiftable, Table, CommandFirst, RedirFirst, CommandEnd
    <2>6. CASE YyPact[s] = 18 /\ s \in {2}
        BY <2>6, Entries DEF Shiftable, Table, CommandFirst, RedirFirst, CommandEnd
    <2>7. CASE YyPact[s] = 21 /\ s \in {3}
        BY <2>7, Entries DEF Shiftable, Table, CommandFirst, RedirFirst, CommandEnd
    <2>8. CASE YyPact[s] = 24 /\ s \in {30}
        BY <2>8, Entries DEF Shiftable, Table, CommandFirst, RedirFirst, CommandEnd
    <2>9. CASE YyPact[s] = 30 /\ s \in {10}
        BY <2>9, Entries DEF Shiftable, Table, CommandFirst, RedirFirst, CommandEnd
    <2>10. CASE YyPact[s] = 33 /\ s \in {4, 31, 49, 50, 51}
        BY <2>10, Entries DEF Shiftable, Table, CommandFirst, RedirFirst, CommandEnd
    <2>11. CASE YyPact[s] = 40 /\ s \in {19, 43}
        BY <2>11, Entries DEF Shiftable, Table, CommandFirst, RedirFirst, CommandEnd
    <2>12. CASE YyPact[s] = 47 /\ s \in {20}
        BY <2>12, Entries DEF Shiftable, Table, CommandFirst, RedirFirst, CommandEnd
    <2>13. CASE YyPact[s] = 54 /\ s \in {40, 55}
        BY <2>13, Entries DEF Shiftable, Table, CommandFirst, RedirFirst, CommandEnd
    <2>14. CASE YyPact[s] = 58 /\ s \in {17, 37}
        BY <2>14, Entries DEF Shiftable, Table, CommandFirst, RedirFirst, CommandEnd
    <2>0. QED
        BY RowOf, <2>1, <2>2, <2>3, <2>4, <2>5, <2>6, <2>7, <2>8, <2>9, <2>10, <2>11, <2>12,
           <2>13, <2>14
<1>2. QED
    BY <1>1 DEF Action

\* The states that are entered with each nonterminal.
LEMMA EnteredWith ==
    /\ \A q \in States : Entry[q] = "program" => q \in {2}
    /\ \A q \in States : Entry[q] = "complete_commands" => q \in {13}
    /\ \A q \in States : Entry[q] = "and_or" => q \in {14, 46, 48, 60}
    /\ \A q \in States : Entry[q] = "pipeline" => q \in {15, 57, 58}
    /\ \A q \in States : Entry[q] = "command" => q \in {16, 59}
    /\ \A q \in States : Entry[q] = "subshell" => q \in {17}
    /\ \A q \in States : Entry[q] = "compound_list" => q \in {30}
    /\ \A q \in States : Entry[q] = "term" => q \in {47}
    /\ \A q \in States : Entry[q] = "simple_command" => q \in {18}
    /\ \A q \in States : Entry[q] = "cmd_name" => q \in {19}
    /\ \A q \in States : Entry[q] = "cmd_word" => q \in {43}
    /\ \A q \in States : Entry[q] = "cmd_prefix" => q \in {20}
    /\ \A q \in States : Entry[q] = "cmd_suffix" => q \in {40, 55}
    /\ \A q \in States : Entry[q] = "redirect_list" => q \in {37}
    /\ \A q \in States : Entry[q] = "io_redirect" => q \in {21, 38, 41, 44, 52, 54}
    /\ \A q \in States : Entry[q] = "io_file" => q \in {22}
    /\ \A q \in States : Entry[q] = "filename" => q \in {25, 26, 29}
    /\ \A q \in States : Entry[q] = "io_here" => q \in {23}
    /\ \A q \in States : Entry[q] = "here_end" => q \in {28}
    /\ \A q \in States : Entry[q] = "newline_list" => q \in {3, 32, 56}
    /\ \A q \in States : Entry[q] = "linebreak" => q \in {4, 31, 33, 49, 50, 51}
<1>1. \A q \in States : Entry[q] = "program" => q \in {2}
    BY SMTT(60) DEF States, Entry, Table
<1>2. \A q \in States : Entry[q] = "complete_commands" => q \in {13}
    BY SMTT(60) DEF States, Entry, Table
<1>3. \A q \in States : Entry[q] = "and_or" => q \in {14, 46, 48, 60}
    BY SMTT(60) DEF States, Entry, Table
<1>4. \A q \in States : Entry[q] = "pipeline" => q \in {15, 57, 58}
    BY SMTT(60) DEF States, Entry, Table
<1>5. \A q \in States : Entry[q] = "command" => q \in {16, 59}
    BY SMTT(60) DEF States, Entry, Table
<1>6. \A q \in States : Entry[q] = "subshell" => q \in {17}
    BY SMTT(60) DEF States, Entry, Table
<1>7. \A q \in States : Entry[q] = "compound_list" => q \in {30}
    BY SMTT(60) DEF States, Entry, Table
<1>8. \A q \in States : Entry[q] = "term" => q \in {47}
    BY SMTT(60) DEF States, Entry, Table
<1>9. \A q \in States : Entry[q] = "simple_command" => q \in {18}
    BY SMTT(60) DEF States, Entry, Table
<1>10. \A q \in States : Entry[q] = "cmd_name" => q \in {19}
    BY SMTT(60) DEF States, Entry, Table
<1>11. \A q \in States : Entry[q] = "cmd_word" => q \in {43}
    BY SMTT(60) DEF States, Entry, Table
<1>12. \A q \in States : Entry[q] = "cmd_prefix" => q \in {20}
    BY SMTT(60) DEF States, Entry, Table
<1>13. \A q \in States : Entry[q] = "cmd_suffix" => q \in {40, 55}
    BY SMTT(60) DEF States, Entry, Table
<1>14. \A q \in States : Entry[q] = "redirect_list" => q \in {37}
    BY SMTT(60) DEF States, Entry, Table
<1>15. \A q \in States : Entry[q] = "io_redirect" => q \in {21, 38, 41, 44, 52, 54}
    BY SMTT(60) DEF States, Entry, Table
<1>16. \A q \in States : Entry[q] = "io_file" => q \in {22}
    BY SMTT(60) DEF States, Entry, Table
<1>17. \A q \in States : Entry[q] = "filename" => q \in {25, 26, 29}
    BY SMTT(60) DEF States, Entry, Table
<1>18. \A q \in States : Entry[q] = "io_here" => q \in {23}
    BY SMTT(60) DEF States, Entry, Table
<1>19. \A q \in States : Entry[q] = "here_end" => q \in {28}
    BY SMTT(60) DEF States, Entry, Table
<1>20. \A q \in States : Entry[q] = "newline_list" => q \in {3, 32, 56}
    BY SMTT(60) DEF States, Entry, Table
<1>21. \A q \in States : Entry[q] = "linebreak" => q \in {4, 31, 33, 49, 50, 51}
    BY SMTT(60) DEF States, Entry, Table
<1>0. QED
    BY ONLY <1>1, <1>2, <1>3, <1>4, <1>5, <1>6, <1>7, <1>8, <1>9, <1>10, <1>11, <1>12, <1>13,
       <1>14, <1>15, <1>16, <1>17, <1>18, <1>19, <1>20, <1>21

\* The states that have a rule for a default, by the rule.
LEMMA DefaultsAre ==
    /\ \A s \in {33} : YyDefAct[s] = 2
    /\ \A s \in {4} : YyDefAct[s] = 3
    /\ \A s \in {48} : YyDefAct[s] = 4
    /\ \A s \in {14} : YyDefAct[s] = 5
    /\ \A s \in {15} : YyDefAct[s] = 6
    /\ \A s \in {57} : YyDefAct[s] = 7
    /\ \A s \in {58} : YyDefAct[s] = 8
    /\ \A s \in {16} : YyDefAct[s] = 9
    /\ \A s \in {59} : YyDefAct[s] = 10
    /\ \A s \in {18} : YyDefAct[s] = 11
    /\ \A s \in {17} : YyDefAct[s] = 12
    /\ \A s \in {37} : YyDefAct[s] = 13
    /\ \A s \in {45} : YyDefAct[s] = 14
    /\ \A s \in {47} : YyDefAct[s] = 15
    /\ \A s \in {56} : YyDefAct[s] = 16
    /\ \A s \in {60} : YyDefAct[s] = 17
    /\ \A s \in {46} : YyDefAct[s] = 18
    /\ \A s \in {55} : YyDefAct[s] = 19
    /\ \A s \in {43} : YyDefAct[s] = 20
    /\ \A s \in {20} : YyDefAct[s] = 21
    /\ \A s \in {40} : YyDefAct[s] = 22
    /\ \A s \in {19} : YyDefAct[s] = 23
    /\ \A s \in {7} : YyDefAct[s] = 24
    /\ \A s \in {42} : YyDefAct[s] = 25
    /\ \A s \in {21} : YyDefAct[s] = 26
    /\ \A s \in {44} : YyDefAct[s] = 27
    /\ \A s \in {41} : YyDefAct[s] = 28
    /\ \A s \in {54} : YyDefAct[s] = 29
    /\ \A s \in {39} : YyDefAct[s] = 30
    /\ \A s \in {53} : YyDefAct[s] = 31
    /\ \A s \in {38} : YyDefAct[s] = 32
    /\ \A s \in {52} : YyDefAct[s] = 33
    /\ \A s \in {22} : YyDefAct[s] = 34
    /\ \A s \in {23} : YyDefAct[s] = 35
    /\ \A s \in {25} : YyDefAct[s] = 36
    /\ \A s \in {26} : YyDefAct[s] = 37
    /\ \A s \in {29} : YyDefAct[s] = 38
    /\ \A s \in {24} : YyDefAct[s] = 39
    /\ \A s \in {28} : YyDefAct[s] = 40
    /\ \A s \in {27} : YyDefAct[s] = 41
    /\ \A s \in {1} : YyDefAct[s] = 42
    /\ \A s \in {6} : YyDefAct[s] = 43
    /\ \A s \in {3, 32} : YyDefAct[s] = 44
    /\ \A s \in {0, 12, 13, 34, 35, 36} : YyDefAct[s] = 45
BY SMTT(60) DEF YyDefAct, Table

\* Rule 2.
LEMMA Follows2 == RuleFollows(2)
<1>1. Rules[2].lhs = "program" /\ Rhs[2] = <<"linebreak", "complete_commands", "linebreak">>
    BY Rules2To11 DEF Shape, Rule
<1>2. ASSUME NEW p \in {0}
      PROVE  /\ Along(p, <<"linebreak", "complete_commands", "linebreak">>, 33)
             /\ \A a \in Lookaheads[2] : a \in Lookaheads[33] /\ Action(33, a) = -2
    <2>1. Along(p, <<"linebreak", "complete_commands", "linebreak">>, 33)
        BY TerminalsEnter, NonterminalsEnter DEF Along
    <2>2. \A a \in Lookaheads[2] : /\ a \in Lookaheads[33] /\ a \in Terminals
                                   /\ a \notin Shiftable[33]
        BY VocabularyIs DEF Lookaheads, Shiftable, Table, CommandFirst, RedirFirst, CommandEnd,
                            ListEnd, WordEnd
    <2>3. 33 \in States /\ YyDefAct[33] = 2
        BY DefaultsAre DEF States
    <2>4. QED
        BY <2>1, <2>2, <2>3, ElseDefault
<1>3. ASSUME NEW q \in States, Entry[q] = "program", NEW p \in Below[q]
      PROVE  \E s : /\ Along(p, <<"linebreak", "complete_commands", "linebreak">>, s)
                    /\ \A a \in Lookaheads[q] : a \in Lookaheads[s] /\ Action(s, a) = -2
    <2>1. q \in {2}
        BY <1>3, EnteredWith
    <2>2. q = 2 => p \in {0}
        BY DEF Below, Table, CommandStarts, RedirStarts, BreakStarts
    <2>3. QED
        BY <2>1, <2>2, <1>2
<1>4. QED
    BY <1>1, <1>3 DEF RuleFollows

\* Rule 3.
LEMMA Follows3 == RuleFollows(3)
<1>1. Rules[3].lhs = "program" /\ Rhs[3] = <<"linebreak">>
    BY Rules2To11 DEF Shape, Rule
<1>2. ASSUME NEW p \in {0}
      PROVE  /\ Along(p, <<"linebreak">>, 4)
             /\ \A a \in Lookaheads[2] : a \in Lookaheads[4] /\ Action(4, a) = -3
    <2>1. Along(p, <<"linebreak">>, 4)
        BY TerminalsEnter, NonterminalsEnter DEF Along
    <2>2. \A a \in Lookaheads[2] : /\ a \in Lookaheads[4] /\ a \in Terminals
                                   /\ a \notin Shiftable[4]
        BY VocabularyIs DEF Lookaheads, Shiftable, Table, CommandFirst, RedirFirst, CommandEnd,
                            ListEnd, WordEnd
    <2>3. 4 \in States /\ YyDefAct[4] = 3
        BY DefaultsAre DEF States
    <2>4. QED
        BY <2>1, <2>2, <2>3, ElseDefault
<1>3. ASSUME NEW q \in States, Entry[q] = "program", NEW p \in Below[q]
      PROVE  \E s : /\ Along(p, <<"linebreak">>, s)
                    /\ \A a \in Lookaheads[q] : a \in Lookaheads[s] /\ Action(s, a) = -3
    <2>1. q \in {2}
        BY <1>3, EnteredWith
    <2>2. q = 2 => p \in {0}
        BY DEF Below, Table, CommandStarts, RedirStarts, BreakStarts
    <2>3. QED
        BY <2>1, <2>2, <1>2
<1>4. QED
    BY <1>1, <1>3 DEF RuleFollows

\* Rule 4.
LEMMA Follows4 == RuleFollows(4)
<1>1. Rules[4].lhs = "complete_commands" /\ Rhs[4] = <<"complete_commands", "newline_list", "and_or">>
    BY Rules2To11 DEF Shape, Rule
<1>2. ASSUME NEW p \in {4}
      PROVE  /\ Along(p, <<"complete_commands", "newline_list", "and_or">>, 48)
             /\ \A a \in Lookaheads[13] : a \in Lookaheads[48] /\ Action(48, a) = -4
    <2>1. Along(p, <<"complete_commands", "newline_list", "and_or">>, 48)
        BY TerminalsEnter, NonterminalsEnter DEF Along
    <2>2. \A a \in Lookaheads[13] : /\ a \in Lookaheads[48] /\ a \in Terminals
                                   /\ a \notin Shiftable[48]
        BY VocabularyIs DEF Lookaheads, Shiftable, Table, CommandFirst, RedirFirst, CommandEnd,
                            ListEnd, WordEnd
    <2>3. 48 \in States /\ YyDefAct[48] = 4
        BY DefaultsAre DEF States
    <2>4. QED
        BY <2>1, <2>2, <2>3, ElseDefault
<1>3. ASSUME NEW q \in States, Entry[q] = "complete_commands", NEW p \in Below[q]
      PROVE  \E s : /\ Along(p, <<"complete_commands", "newline_list", "and_or">>, s)
                    /\ \A a \in Lookaheads[q] : a \in Lookaheads[s] /\ Action(s, a) = -4
    <2>1. q \in {13}
        BY <1>3, EnteredWith
    <2>2. q = 13 => p \in {4}
        BY DEF Below, Table, CommandStarts, RedirStarts, BreakStarts
    <2>3. QED
        BY <2>1, <2>2, <1>2
<1>4. QED
    BY <1>1, <1>3 DEF RuleFollows

\* Rule 5.
LEMMA Follows5 == RuleFollows(5)
<1>1. Rules[5].lhs = "complete_commands" /\ Rhs[5] = <<"and_or">>
    BY Rules2To11 DEF Shape, Rule
<1>2. ASSUME NEW p \in {4}
      PROVE  /\ Along(p, <<"and_or">>, 14)
             /\ \A a \in Lookaheads[13] : a \in Lookaheads[14] /\ Action(14, a) = -5
    <2>1. Along(p, <<"and_or">>, 14)
        BY TerminalsEnter, NonterminalsEnter DEF Along
    <2>2. \A a \in Lookaheads[13] : /\ a \in Lookaheads[14] /\ a \in Terminals
                                   /\ a \notin Shiftable[14]
        BY VocabularyIs DEF Lookaheads, Shiftable, Table, CommandFirst, RedirFirst, CommandEnd,
                            ListEnd, WordEnd
    <2>3. 14 \in States /\ YyDefAct[14] = 5
        BY DefaultsAre DEF States
    <2>4. QED
        BY <2>1, <2>2, <2>3, ElseDefault
<1>3. ASSUME NEW q \in States, Entry[q] = "complete_commands", NEW p \in Below[q]
      PROVE  \E s : /\ Along(p, <<"and_or">>, s)
                    /\ \A a \in Lookaheads[q] : a \in Lookaheads[s] /\ Action(s, a) = -5
    <2>1. q \in {13}
        BY <1>3, EnteredWith
    <2>2. q = 13 => p \in {4}
        BY DEF Below, Table, CommandStarts, RedirStarts, BreakStarts
    <2>3. QED
        BY <2>1, <2>2, <1>2
<1>4. QED
    BY <1>1, <1>3 DEF RuleFollows

\* Rule 6.
LEMMA Follows6 == RuleFollows(6)
<1>1. Rules[6].lhs = "and_or" /\ Rhs[6] = <<"pipeline">>
    BY Rules2To11 DEF Shape, Rule
<1>2. ASSUME NEW p \in {4}
      PROVE  /\ Along(p, <<"pipeline">>, 15)
             /\ \A a \in Lookaheads[14] : a \in Lookaheads[15] /\ Action(15, a) = -6
    <2>1. Along(p, <<"pipeline">>, 15)
        BY TerminalsEnter, NonterminalsEnter DEF Along
    <2>2. \A a \in Lookaheads[14] : /\ a \in Lookaheads[15] /\ a \in Terminals
                                   /\ a \notin Shiftable[15]
        BY VocabularyIs DEF Lookaheads, Shiftable, Table, CommandFirst, RedirFirst, CommandEnd,
                            ListEnd, WordEnd
    <2>3. 15 \in States /\ YyDefAct[15] = 6
        BY DefaultsAre DEF States
    <2>4. QED
        BY <2>1, <2>2, <2>3, ElseDefault
<1>3. ASSUME NEW p \in {31}
      PROVE  /\ Along(p, <<"pipeline">>, 15)
             /\ \A a \in Lookaheads[46] : a \in Lookaheads[15] /\ Action(15, a) = -6
    <2>1. Along(p, <<"pipeline">>, 15)
        BY TerminalsEnter, NonterminalsEnter DEF Along
    <2>2. \A a \in Lookaheads[46] : /\ a \in Lookaheads[15] /\ a \in Terminals
                                   /\ a \notin Shiftable[15]
        BY VocabularyIs DEF Lookaheads, Shiftable, Table, CommandFirst, RedirFirst, CommandEnd,
                            ListEnd, WordEnd
    <2>3. 15 \in States /\ YyDefAct[15] = 6
        BY DefaultsAre DEF States
    <2>4. QED
        BY <2>1, <2>2, <2>3, ElseDefault
<1>4. ASSUME NEW p \in {32}
      PROVE  /\ Along(p, <<"pipeline">>, 15)
             /\ \A a \in Lookaheads[48] : a \in Lookaheads[15] /\ Action(15, a) = -6
    <2>1. Along(p, <<"pipeline">>, 15)
        BY TerminalsEnter, NonterminalsEnter DEF Along
    <2>2. \A a \in Lookaheads[48] : /\ a \in Lookaheads[15] /\ a \in Terminals
                                   /\ a \notin Shiftable[15]
        BY VocabularyIs DEF Lookaheads, Shiftable, Table, CommandFirst, RedirFirst, CommandEnd,
                            ListEnd, WordEnd
    <2>3. 15 \in States /\ YyDefAct[15] = 6
        BY DefaultsAre DEF States
    <2>4. QED
        BY <2>1, <2>2, <2>3, ElseDefault
<1>5. ASSUME NEW p \in {56}
      PROVE  /\ Along(p, <<"pipeline">>, 15)
             /\ \A a \in Lookaheads[60] : a \in Lookaheads[15] /\ Action(15, a) = -6
    <2>1. Along(p, <<"pipeline">>, 15)
        BY TerminalsEnter, NonterminalsEnter DEF Along
    <2>2. \A a \in Lookaheads[60] : /\ a \in Lookaheads[15] /\ a \in Terminals
                                   /\ a \notin Shiftable[15]
        BY VocabularyIs DEF Lookaheads, Shiftable, Table, CommandFirst, RedirFirst, CommandEnd,
                            ListEnd, WordEnd
    <2>3. 15 \in States /\ YyDefAct[15] = 6
        BY DefaultsAre DEF States
    <2>4. QED
        BY <2>1, <2>2, <2>3, ElseDefault
<1>6. ASSUME NEW q \in States, Entry[q] = "and_or", NEW p \in Below[q]
      PROVE  \E s : /\ Along(p, <<"pipeline">>, s)
                    /\ \A a \in Lookaheads[q] : a \in Lookaheads[s] /\ Action(s, a) = -6
    <2>1. q \in {14, 46, 48, 60}
        BY <1>6, EnteredWith
    <2>2. q = 14 => p \in {4}
        BY DEF Below, Table, CommandStarts, RedirStarts, BreakStarts
    <2>3. q = 46 => p \in {31}
        BY DEF Below, Table, CommandStarts, RedirStarts, BreakStarts
    <2>4. q = 48 => p \in {32}
        BY DEF Below, Table, CommandStarts, RedirStarts, BreakStarts
    <2>5. q = 60 => p \in {56}
        BY DEF Below, Table, CommandStarts, RedirStarts, BreakStarts
    <2>6. QED
        BY <2>1, <2>2, <2>3, <2>4, <2>5, <1>2, <1>3, <1>4, <1>5
<1>7. QED
    BY <1>1, <1>6 DEF RuleFollows

\* Rule 7.
LEMMA Follows7 == RuleFollows(7)
<1>1. Rules[7].lhs = "and_or" /\ Rhs[7] = <<"and_or", "AND_IF", "linebreak", "pipeline">>
    BY Rules2To11 DEF Shape, Rule
<1>2. ASSUME NEW p \in {4}
      PROVE  /\ Along(p, <<"and_or", "AND_IF", "linebreak", "pipeline">>, 57)
             /\ \A a \in Lookaheads[14] : a \in Lookaheads[57] /\ Action(57, a) = -7
    <2>1. Along(p, <<"and_or", "AND_IF", "linebreak", "pipeline">>, 57)
        BY TerminalsEnter, NonterminalsEnter DEF Along
    <2>2. \A a \in Lookaheads[14] : /\ a \in Lookaheads[57] /\ a \in Terminals
                                   /\ a \notin Shiftable[57]
        BY VocabularyIs DEF Lookaheads, Shiftable, Table, CommandFirst, RedirFirst, CommandEnd,
                            ListEnd, WordEnd
    <2>3. 57 \in States /\ YyDefAct[57] = 7
        BY DefaultsAre DEF States
    <2>4. QED
        BY <2>1, <2>2, <2>3, ElseDefault
<1>3. ASSUME NEW p \in {31}
      PROVE  /\ Along(p, <<"and_or", "AND_IF", "linebreak", "pipeline">>, 57)
             /\ \A a \in Lookaheads[46] : a \in Lookaheads[57] /\ Action(57, a) = -7
    <2>1. Along(p, <<"and_or", "AND_IF", "linebreak", "pipeline">>, 57)
        BY TerminalsEnter, NonterminalsEnter DEF Along
    <2>2. \A a \in Lookaheads[46] : /\ a \in Lookaheads[57] /\ a \in Terminals
                                   /\ a \notin Shiftable[57]
        BY VocabularyIs DEF Lookaheads, Shiftable, Table, CommandFirst, RedirFirst, CommandEnd,
                            ListEnd, WordEnd
    <2>3. 57 \in States /\ YyDefAct[57] = 7
        BY DefaultsAre DEF States
    <2>4. QED
        BY <2>1, <2>2, <2>3, ElseDefault
<1>4. ASSUME NEW p \in {32}
      PROVE  /\ Along(p, <<"and_or", "AND_IF", "linebreak", "pipeline">>, 57)
             /\ \A a \in Lookaheads[48] : a \in Lookaheads[57] /\ Action(57, a) = -7
    <2>1. Along(p, <<"and_or", "AND_IF", "linebreak", "pipeline">>, 57)
        BY TerminalsEnter, NonterminalsEnter DEF Along
    <2>2. \A a \in Lookaheads[48] : /\ a \in Lookaheads[57] /\ a \in Terminals
                                   /\ a \notin Shiftable[57]
        BY VocabularyIs DEF Lookaheads, Shiftable, Table, CommandFirst, RedirFirst, CommandEnd,
                            ListEnd, WordEnd
    <2>3. 57 \in States /\ YyDefAct[57] = 7
        BY DefaultsAre DEF States
    <2>4. QED
        BY <2>1, <2>2, <2>3, ElseDefault
<1>5. ASSUME NEW p \in {56}
      PROVE  /\ Along(p, <<"and_or", "AND_IF", "linebreak", "pipeline">>, 57)
             /\ \A a \in Lookaheads[60] : a \in Lookaheads[57] /\ Action(57, a) = -7
    <2>1. Along(p, <<"and_or", "AND_IF", "linebreak", "pipeline">>, 57)
        BY TerminalsEnter, NonterminalsEnter DEF Along
    <2>2. \A a \in Lookaheads[60] : /\ a \in Lookaheads[57] /\ a \in Terminals
                                   /\ a \notin Shiftable[57]
        BY VocabularyIs DEF Lookaheads, Shiftable, Table, CommandFirst, RedirFirst, CommandEnd,
                            ListEnd, WordEnd
    <2>3. 57 \in States /\ YyDefAct[57] = 7
        BY DefaultsAre DEF States
    <2>4. QED
        BY <2>1, <2>2, <2>3, ElseDefault
<1>6. ASSUME NEW q \in States, Entry[q] = "and_or", NEW p \in Below[q]
      PROVE  \E s : /\ Along(p, <<"and_or", "AND_IF", "linebreak", "pipeline">>, s)
                    /\ \A a \in Lookaheads[q] : a \in Lookaheads[s] /\ Action(s, a) = -7
    <2>1. q \in {14, 46, 48, 60}
        BY <1>6, EnteredWith
    <2>2. q = 14 => p \in {4}
        BY DEF Below, Table, CommandStarts, RedirStarts, BreakStarts
    <2>3. q = 46 => p \in {31}
        BY DEF Below, Table, CommandStarts, RedirStarts, BreakStarts
    <2>4. q = 48 => p \in {32}
        BY DEF Below, Table, CommandStarts, RedirStarts, BreakStarts
    <2>5. q = 60 => p \in {56}
        BY DEF Below, Table, CommandStarts, RedirStarts, BreakStarts
    <2>6. QED
        BY <2>1, <2>2, <2>3, <2>4, <2>5, <1>2, <1>3, <1>4, <1>5
<1>7. QED
    BY <1>1, <1>6 DEF RuleFollows

\* Rule 8.
LEMMA Follows8 == RuleFollows(8)
<1>1. Rules[8].lhs = "and_or" /\ Rhs[8] = <<"and_or", "OR_IF", "linebreak", "pipeline">>
    BY Rules2To11 DEF Shape, Rule
<1>2. ASSUME NEW p \in {4}
      PROVE  /\ Along(p, <<"and_or", "OR_IF", "linebreak", "pipeline">>, 58)
             /\ \A a \in Lookaheads[14] : a \in Lookaheads[58] /\ Action(58, a) = -8
    <2>1. Along(p, <<"and_or", "OR_IF", "linebreak", "pipeline">>, 58)
        BY TerminalsEnter, NonterminalsEnter DEF Along
    <2>2. \A a \in Lookaheads[14] : /\ a \in Lookaheads[58] /\ a \in Terminals
                                   /\ a \notin Shiftable[58]
        BY VocabularyIs DEF Lookaheads, Shiftable, Table, CommandFirst, RedirFirst, CommandEnd,
                            ListEnd, WordEnd
    <2>3. 58 \in States /\ YyDefAct[58] = 8
        BY DefaultsAre DEF States
    <2>4. QED
        BY <2>1, <2>2, <2>3, ElseDefault
<1>3. ASSUME NEW p \in {31}
      PROVE  /\ Along(p, <<"and_or", "OR_IF", "linebreak", "pipeline">>, 58)
             /\ \A a \in Lookaheads[46] : a \in Lookaheads[58] /\ Action(58, a) = -8
    <2>1. Along(p, <<"and_or", "OR_IF", "linebreak", "pipeline">>, 58)
        BY TerminalsEnter, NonterminalsEnter DEF Along
    <2>2. \A a \in Lookaheads[46] : /\ a \in Lookaheads[58] /\ a \in Terminals
                                   /\ a \notin Shiftable[58]
        BY VocabularyIs DEF Lookaheads, Shiftable, Table, CommandFirst, RedirFirst, CommandEnd,
                            ListEnd, WordEnd
    <2>3. 58 \in States /\ YyDefAct[58] = 8
        BY DefaultsAre DEF States
    <2>4. QED
        BY <2>1, <2>2, <2>3, ElseDefault
<1>4. ASSUME NEW p \in {32}
      PROVE  /\ Along(p, <<"and_or", "OR_IF", "linebreak", "pipeline">>, 58)
             /\ \A a \in Lookaheads[48] : a \in Lookaheads[58] /\ Action(58, a) = -8
    <2>1. Along(p, <<"and_or", "OR_IF", "linebreak", "pipeline">>, 58)
        BY TerminalsEnter, NonterminalsEnter DEF Along
    <2>2. \A a \in Lookaheads[48] : /\ a \in Lookaheads[58] /\ a \in Terminals
                                   /\ a \notin Shiftable[58]
        BY VocabularyIs DEF Lookaheads, Shiftable, Table, CommandFirst, RedirFirst, CommandEnd,
                            ListEnd, WordEnd
    <2>3. 58 \in States /\ YyDefAct[58] = 8
        BY DefaultsAre DEF States
    <2>4. QED
        BY <2>1, <2>2, <2>3, ElseDefault
<1>5. ASSUME NEW p \in {56}
      PROVE  /\ Along(p, <<"and_or", "OR_IF", "linebreak", "pipeline">>, 58)
             /\ \A a \in Lookaheads[60] : a \in Lookaheads[58] /\ Action(58, a) = -8
    <2>1. Along(p, <<"and_or", "OR_IF", "linebreak", "pipeline">>, 58)
        BY TerminalsEnter, NonterminalsEnter DEF Along
    <2>2. \A a \in Lookaheads[60] : /\ a \in Lookaheads[58] /\ a \in Terminals
                                   /\ a \notin Shiftable[58]
        BY VocabularyIs DEF Lookaheads, Shiftable, Table, CommandFirst, RedirFirst, CommandEnd,
                            ListEnd, WordEnd
    <2>3. 58 \in States /\ YyDefAct[58] = 8
        BY DefaultsAre DEF States
    <2>4. QED
        BY <2>1, <2>2, <2>3, ElseDefault
<1>6. ASSUME NEW q \in States, Entry[q] = "and_or", NEW p \in Below[q]
      PROVE  \E s : /\ Along(p, <<"and_or", "OR_IF", "linebreak", "pipeline">>, s)
                    /\ \A a \in Lookaheads[q] : a \in Lookaheads[s] /\ Action(s, a) = -8
    <2>1. q \in {14, 46, 48, 60}
        BY <1>6, EnteredWith
    <2>2. q = 14 => p \in {4}
        BY DEF Below, Table, CommandStarts, RedirStarts, BreakStarts
    <2>3. q = 46 => p \in {31}
        BY DEF Below, Table, CommandStarts, RedirStarts, BreakStarts
    <2>4. q = 48 => p \in {32}
        BY DEF Below, Table, CommandStarts, RedirStarts, BreakStarts
    <2>5. q = 60 => p \in {56}
        BY DEF Below, Table, CommandStarts, RedirStarts, BreakStarts
    <2>6. QED
        BY <2>1, <2>2, <2>3, <2>4, <2>5, <1>2, <1>3, <1>4, <1>5
<1>7. QED
    BY <1>1, <1>6 DEF RuleFollows

\* Rule 9.
LEMMA Follows9 == RuleFollows(9)
<1>1. Rules[9].lhs = "pipeline" /\ Rhs[9] = <<"command">>
    BY Rules2To11 DEF Shape, Rule
<1>2. ASSUME NEW p \in {4, 31, 32, 56}
      PROVE  /\ Along(p, <<"command">>, 16)
             /\ \A a \in Lookaheads[15] : a \in Lookaheads[16] /\ Action(16, a) = -9
    <2>1. Along(p, <<"command">>, 16)
        BY TerminalsEnter, NonterminalsEnter DEF Along
    <2>2. \A a \in Lookaheads[15] : /\ a \in Lookaheads[16] /\ a \in Terminals
                                   /\ a \notin Shiftable[16]
        BY VocabularyIs DEF Lookaheads, Shiftable, Table, CommandFirst, RedirFirst, CommandEnd,
                            ListEnd, WordEnd
    <2>3. 16 \in States /\ YyDefAct[16] = 9
        BY DefaultsAre DEF States
    <2>4. QED
        BY <2>1, <2>2, <2>3, ElseDefault
<1>3. ASSUME NEW p \in {49}
      PROVE  /\ Along(p, <<"command">>, 16)
             /\ \A a \in Lookaheads[57] : a \in Lookaheads[16] /\ Action(16, a) = -9
    <2>1. Along(p, <<"command">>, 16)
        BY TerminalsEnter, NonterminalsEnter DEF Along
    <2>2. \A a \in Lookaheads[57] : /\ a \in Lookaheads[16] /\ a \in Terminals
                                   /\ a \notin Shiftable[16]
        BY VocabularyIs DEF Lookaheads, Shiftable, Table, CommandFirst, RedirFirst, CommandEnd,
                            ListEnd, WordEnd
    <2>3. 16 \in States /\ YyDefAct[16] = 9
        BY DefaultsAre DEF States
    <2>4. QED
        BY <2>1, <2>2, <2>3, ElseDefault
<1>4. ASSUME NEW p \in {50}
      PROVE  /\ Along(p, <<"command">>, 16)
             /\ \A a \in Lookaheads[58] : a \in Lookaheads[16] /\ Action(16, a) = -9
    <2>1. Along(p, <<"command">>, 16)
        BY TerminalsEnter, NonterminalsEnter DEF Along
    <2>2. \A a \in Lookaheads[58] : /\ a \in Lookaheads[16] /\ a \in Terminals
                                   /\ a \notin Shiftable[16]
        BY VocabularyIs DEF Lookaheads, Shiftable, Table, CommandFirst, RedirFirst, CommandEnd,
                            ListEnd, WordEnd
    <2>3. 16 \in States /\ YyDefAct[16] = 9
        BY DefaultsAre DEF States
    <2>4. QED
        BY <2>1, <2>2, <2>3, ElseDefault
<1>5. ASSUME NEW q \in States, Entry[q] = "pipeline", NEW p \in Below[q]
      PROVE  \E s : /\ Along(p, <<"command">>, s)
                    /\ \A a \in Lookaheads[q] : a \in Lookaheads[s] /\ Action(s, a) = -9
    <2>1. q \in {15, 57, 58}
        BY <1>5, EnteredWith
    <2>2. q = 15 => p \in {4, 31, 32, 56}
        BY DEF Below, Table, CommandStarts, RedirStarts, BreakStarts
    <2>3. q = 57 => p \in {49}
        BY DEF Below, Table, CommandStarts, RedirStarts, BreakStarts
    <2>4. q = 58 => p \in {50}
        BY DEF Below, Table, CommandStarts, RedirStarts, BreakStarts
    <2>5. QED
        BY <2>1, <2>2, <2>3, <2>4, <1>2, <1>3, <1>4
<1>6. QED
    BY <1>1, <1>5 DEF RuleFollows

\* Rule 10.
LEMMA Follows10 == RuleFollows(10)
<1>1. Rules[10].lhs = "pipeline" /\ Rhs[10] = <<"pipeline", "PIPE", "linebreak", "command">>
    BY Rules2To11 DEF Shape, Rule
<1>2. ASSUME NEW p \in {4, 31, 32, 56}
      PROVE  /\ Along(p, <<"pipeline", "PIPE", "linebreak", "command">>, 59)
             /\ \A a \in Lookaheads[15] : a \in Lookaheads[59] /\ Action(59, a) = -10
    <2>1. Along(p, <<"pipeline", "PIPE", "linebreak", "command">>, 59)
        BY TerminalsEnter, NonterminalsEnter DEF Along
    <2>2. \A a \in Lookaheads[15] : /\ a \in Lookaheads[59] /\ a \in Terminals
                                   /\ a \notin Shiftable[59]
        BY VocabularyIs DEF Lookaheads, Shiftable, Table, CommandFirst, RedirFirst, CommandEnd,
                            ListEnd, WordEnd
    <2>3. 59 \in States /\ YyDefAct[59] = 10
        BY DefaultsAre DEF States
    <2>4. QED
        BY <2>1, <2>2, <2>3, ElseDefault
<1>3. ASSUME NEW p \in {49}
      PROVE  /\ Along(p, <<"pipeline", "PIPE", "linebreak", "command">>, 59)
             /\ \A a \in Lookaheads[57] : a \in Lookaheads[59] /\ Action(59, a) = -10
    <2>1. Along(p, <<"pipeline", "PIPE", "linebreak", "command">>, 59)
        BY TerminalsEnter, NonterminalsEnter DEF Along
    <2>2. \A a \in Lookaheads[57] : /\ a \in Lookaheads[59] /\ a \in Terminals
                                   /\ a \notin Shiftable[59]
        BY VocabularyIs DEF Lookaheads, Shiftable, Table, CommandFirst, RedirFirst, CommandEnd,
                            ListEnd, WordEnd
    <2>3. 59 \in States /\ YyDefAct[59] = 10
        BY DefaultsAre DEF States
    <2>4. QED
        BY <2>1, <2>2, <2>3, ElseDefault
<1>4. ASSUME NEW p \in {50}
      PROVE  /\ Along(p, <<"pipeline", "PIPE", "linebreak", "command">>, 59)
             /\ \A a \in Lookaheads[58] : a \in Lookaheads[59] /\ Action(59, a) = -10
    <2>1. Along(p, <<"pipeline", "PIPE", "linebreak", "command">>, 59)
        BY TerminalsEnter, NonterminalsEnter DEF Along
    <2>2. \A a \in Lookaheads[58] : /\ a \in Lookaheads[59] /\ a \in Terminals
                                   /\ a \notin Shiftable[59]
        BY VocabularyIs DEF Lookaheads, Shiftable, Table, CommandFirst, RedirFirst, CommandEnd,
                            ListEnd, WordEnd
    <2>3. 59 \in States /\ YyDefAct[59] = 10
        BY DefaultsAre DEF States
    <2>4. QED
        BY <2>1, <2>2, <2>3, ElseDefault
<1>5. ASSUME NEW q \in States, Entry[q] = "pipeline", NEW p \in Below[q]
      PROVE  \E s : /\ Along(p, <<"pipeline", "PIPE", "linebreak", "command">>, s)
                    /\ \A a \in Lookaheads[q] : a \in Lookaheads[s] /\ Action(s, a) = -10
    <2>1. q \in {15, 57, 58}
        BY <1>5, EnteredWith
    <2>2. q = 15 => p \in {4, 31, 32, 56}
        BY DEF Below, Table, CommandStarts, RedirStarts, BreakStarts
    <2>3. q = 57 => p \in {49}
        BY DEF Below, Table, CommandStarts, RedirStarts, BreakStarts
    <2>4. q = 58 => p \in {50}
        BY DEF Below, Table, CommandStarts, RedirStarts, BreakStarts
    <2>5. QED
        BY <2>1, <2>2, <2>3, <2>4, <1>2, <1>3, <1>4
<1>6. QED
    BY <1>1, <1>5 DEF RuleFollows

\* Rule 11.
LEMMA Follows11 == RuleFollows(11)
<1>1. Rules[11].lhs = "command" /\ Rhs[11] = <<"simple_command">>
    BY Rules2To11 DEF Shape, Rule
<1>2. ASSUME NEW p \in {4, 31, 32, 49, 50, 56}
      PROVE  /\ Along(p, <<"simple_command">>, 18)
             /\ \A a \in Lookaheads[16] : a \in Lookaheads[18] /\ Action(18, a) = -11
    <2>1. Along(p, <<"simple_command">>, 18)
        BY TerminalsEnter, NonterminalsEnter DEF Along
    <2>2. \A a \in Lookaheads[16] : /\ a \in Lookaheads[18] /\ a \in Terminals
                                   /\ a \notin Shiftable[18]
        BY VocabularyIs DEF Lookaheads, Shiftable, Table, CommandFirst, RedirFirst, CommandEnd,
                            ListEnd, WordEnd
    <2>3. 18 \in States /\ YyDefAct[18] = 11
        BY DefaultsAre DEF States
    <2>4. QED
        BY <2>1, <2>2, <2>3, ElseDefault
<1>3. ASSUME NEW p \in {51}
      PROVE  /\ Along(p, <<"simple_command">>, 18)
             /\ \A a \in Lookaheads[59] : a \in Lookaheads[18] /\ Action(18, a) = -11
    <2>1. Along(p, <<"simple_command">>, 18)
        BY TerminalsEnter, NonterminalsEnter DEF Along
    <2>2. \A a \in Lookaheads[59] : /\ a \in Lookaheads[18] /\ a \in Terminals
                                   /\ a \notin Shiftable[18]
        BY VocabularyIs DEF Lookaheads, Shiftable, Table, CommandFirst, RedirFirst, CommandEnd,
                            ListEnd, WordEnd
    <2>3. 18 \in States /\ YyDefAct[18] = 11
        BY DefaultsAre DEF States
    <2>4. QED
        BY <2>1, <2>2, <2>3, ElseDefault
<1>4. ASSUME NEW q \in States, Entry[q] = "command", NEW p \in Below[q]
      PROVE  \E s : /\ Along(p, <<"simple_command">>, s)
                    /\ \A a \in Lookaheads[q] : a \in Lookaheads[s] /\ Action(s, a) = -11
    <2>1. q \in {16, 59}
        BY <1>4, EnteredWith
    <2>2. q = 16 => p \in {4, 31, 32, 49, 50, 56}
        BY DEF Below, Table, CommandStarts, RedirStarts, BreakStarts
    <2>3. q = 59 => p \in {51}
        BY DEF Below, Table, CommandStarts, RedirStarts, BreakStarts
    <2>4. QED
        BY <2>1, <2>2, <2>3, <1>2, <1>3
<1>5. QED
    BY <1>1, <1>4 DEF RuleFollows

\* Rule 12.
LEMMA Follows12 == RuleFollows(12)
<1>1. Rules[12].lhs = "command" /\ Rhs[12] = <<"subshell">>
    BY Rules12To21 DEF Shape, Rule
<1>2. ASSUME NEW p \in {4, 31, 32, 49, 50, 56}
      PROVE  /\ Along(p, <<"subshell">>, 17)
             /\ \A a \in Lookaheads[16] : a \in Lookaheads[17] /\ Action(17, a) = -12
    <2>1. Along(p, <<"subshell">>, 17)
        BY TerminalsEnter, NonterminalsEnter DEF Along
    <2>2. \A a \in Lookaheads[16] : /\ a \in Lookaheads[17] /\ a \in Terminals
                                   /\ a \notin Shiftable[17]
        BY VocabularyIs DEF Lookaheads, Shiftable, Table, CommandFirst, RedirFirst, CommandEnd,
                            ListEnd, WordEnd
    <2>3. 17 \in States /\ YyDefAct[17] = 12
        BY DefaultsAre DEF States
    <2>4. QED
        BY <2>1, <2>2, <2>3, ElseDefault
<1>3. ASSUME NEW p \in {51}
      PROVE  /\ Along(p, <<"subshell">>, 17)
             /\ \A a \in Lookaheads[59] : a \in Lookaheads[17] /\ Action(17, a) = -12
    <2>1. Along(p, <<"subshell">>, 17)
        BY TerminalsEnter, NonterminalsEnter DEF Along
    <2>2. \A a \in Lookaheads[59] : /\ a \in Lookaheads[17] /\ a \in Terminals
                                   /\ a \notin Shiftable[17]
        BY VocabularyIs DEF Lookaheads, Shiftable, Table, CommandFirst, RedirFirst, CommandEnd,
                            ListEnd, WordEnd
    <2>3. 17 \in States /\ YyDefAct[17] = 12
        BY DefaultsAre DEF States
    <2>4. QED
        BY <2>1, <2>2, <2>3, ElseDefault
<1>4. ASSUME NEW q \in States, Entry[q] = "command", NEW p \in Below[q]
      PROVE  \E s : /\ Along(p, <<"subshell">>, s)
                    /\ \A a \in Lookaheads[q] : a \in Lookaheads[s] /\ Action(s, a) = -12
    <2>1. q \in {16, 59}
        BY <1>4, EnteredWith
    <2>2. q = 16 => p \in {4, 31, 32, 49, 50, 56}
        BY DEF Below, Table, CommandStarts, RedirStarts, BreakStarts
    <2>3. q = 59 => p \in {51}
        BY DEF Below, Table, CommandStarts, RedirStarts, BreakStarts
    <2>4. QED
        BY <2>1, <2>2, <2>3, <1>2, <1>3
<1>5. QED
    BY <1>1, <1>4 DEF RuleFollows

\* Rule 13.
LEMMA Follows13 == RuleFollows(13)
<1>1. Rules[13].lhs = "command" /\ Rhs[13] = <<"subshell", "redirect_list">>
    BY Rules12To21 DEF Shape, Rule
<1>2. ASSUME NEW p \in {4, 31, 32, 49, 50, 56}
      PROVE  /\ Along(p, <<"subshell", "redirect_list">>, 37)
             /\ \A a \in Lookaheads[16] : a \in Lookaheads[37] /\ Action(37, a) = -13
    <2>1. Along(p, <<"subshell", "redirect_list">>, 37)
        BY TerminalsEnter, NonterminalsEnter DEF Along
    <2>2. \A a \in Lookaheads[16] : /\ a \in Lookaheads[37] /\ a \in Terminals
                                   /\ a \notin Shiftable[37]
        BY VocabularyIs DEF Lookaheads, Shiftable, Table, CommandFirst, RedirFirst, CommandEnd,
                            ListEnd, WordEnd
    <2>3. 37 \in States /\ YyDefAct[37] = 13
        BY DefaultsAre DEF States
    <2>4. QED
        BY <2>1, <2>2, <2>3, ElseDefault
<1>3. ASSUME NEW p \in {51}
      PROVE  /\ Along(p, <<"subshell", "redirect_list">>, 37)
             /\ \A a \in Lookaheads[59] : a \in Lookaheads[37] /\ Action(37, a) = -13
    <2>1. Along(p, <<"subshell", "redirect_list">>, 37)
        BY TerminalsEnter, NonterminalsEnter DEF Along
    <2>2. \A a \in Lookaheads[59] : /\ a \in Lookaheads[37] /\ a \in Terminals
                                   /\ a \notin Shiftable[37]
        BY VocabularyIs DEF Lookaheads, Shiftable, Table, CommandFirst, RedirFirst, CommandEnd,
                            ListEnd, WordEnd
    <2>3. 37 \in States /\ YyDefAct[37] = 13
        BY DefaultsAre DEF States
    <2>4. QED
        BY <2>1, <2>2, <2>3, ElseDefault
<1>4. ASSUME NEW q \in States, Entry[q] = "command", NEW p \in Below[q]
      PROVE  \E s : /\ Along(p, <<"subshell", "redirect_list">>, s)
                    /\ \A a \in Lookaheads[q] : a \in Lookaheads[s] /\ Action(s, a) = -13
    <2>1. q \in {16, 59}
        BY <1>4, EnteredWith
    <2>2. q = 16 => p \in {4, 31, 32, 49, 50, 56}
        BY DEF Below, Table, CommandStarts, RedirStarts, BreakStarts
    <2>3. q = 59 => p \in {51}
        BY DEF Below, Table, CommandStarts, RedirStarts, BreakStarts
    <2>4. QED
        BY <2>1, <2>2, <2>3, <1>2, <1>3
<1>5. QED
    BY <1>1, <1>4 DEF RuleFollows

\* Rule 14.
LEMMA Follows14 == RuleFollows(14)
<1>1. Rules[14].lhs = "subshell" /\ Rhs[14] = <<"OPAR", "compound_list", "CPAR">>
    BY Rules12To21 DEF Shape, Rule
<1>2. ASSUME NEW p \in {4, 31, 32, 49, 50, 51, 56}
      PROVE  /\ Along(p, <<"OPAR", "compound_list", "CPAR">>, 45)
             /\ \A a \in Lookaheads[17] : a \in Lookaheads[45] /\ Action(45, a) = -14
    <2>1. Along(p, <<"OPAR", "compound_list", "CPAR">>, 45)
        BY TerminalsEnter, NonterminalsEnter DEF Along
    <2>2. \A a \in Lookaheads[17] : /\ a \in Lookaheads[45] /\ a \in Terminals
                                   /\ a \notin Shiftable[45]
        BY VocabularyIs DEF Lookaheads, Shiftable, Table, CommandFirst, RedirFirst, CommandEnd,
                            ListEnd, WordEnd
    <2>3. 45 \in States /\ YyDefAct[45] = 14
        BY DefaultsAre DEF States
    <2>4. QED
        BY <2>1, <2>2, <2>3, ElseDefault
<1>3. ASSUME NEW q \in States, Entry[q] = "subshell", NEW p \in Below[q]
      PROVE  \E s : /\ Along(p, <<"OPAR", "compound_list", "CPAR">>, s)
                    /\ \A a \in Lookaheads[q] : a \in Lookaheads[s] /\ Action(s, a) = -14
    <2>1. q \in {17}
        BY <1>3, EnteredWith
    <2>2. q = 17 => p \in {4, 31, 32, 49, 50, 51, 56}
        BY DEF Below, Table, CommandStarts, RedirStarts, BreakStarts
    <2>3. QED
        BY <2>1, <2>2, <1>2
<1>4. QED
    BY <1>1, <1>3 DEF RuleFollows

\* Rule 15.
LEMMA Follows15 == RuleFollows(15)
<1>1. Rules[15].lhs = "compound_list" /\ Rhs[15] = <<"linebreak", "term">>
    BY Rules12To21 DEF Shape, Rule
<1>2. ASSUME NEW p \in {12}
      PROVE  /\ Along(p, <<"linebreak", "term">>, 47)
             /\ \A a \in Lookaheads[30] : a \in Lookaheads[47] /\ Action(47, a) = -15
    <2>1. Along(p, <<"linebreak", "term">>, 47)
        BY TerminalsEnter, NonterminalsEnter DEF Along
    <2>2. \A a \in Lookaheads[30] : /\ a \in Lookaheads[47] /\ a \in Terminals
                                   /\ a \notin Shiftable[47]
        BY VocabularyIs DEF Lookaheads, Shiftable, Table, CommandFirst, RedirFirst, CommandEnd,
                            ListEnd, WordEnd
    <2>3. 47 \in States /\ YyDefAct[47] = 15
        BY DefaultsAre DEF States
    <2>4. QED
        BY <2>1, <2>2, <2>3, ElseDefault
<1>3. ASSUME NEW q \in States, Entry[q] = "compound_list", NEW p \in Below[q]
      PROVE  \E s : /\ Along(p, <<"linebreak", "term">>, s)
                    /\ \A a \in Lookaheads[q] : a \in Lookaheads[s] /\ Action(s, a) = -15
    <2>1. q \in {30}
        BY <1>3, EnteredWith
    <2>2. q = 30 => p \in {12}
        BY DEF Below, Table, CommandStarts, RedirStarts, BreakStarts
    <2>3. QED
        BY <2>1, <2>2, <1>2
<1>4. QED
    BY <1>1, <1>3 DEF RuleFollows

\* Rule 16.
LEMMA Follows16 == RuleFollows(16)
<1>1. Rules[16].lhs = "compound_list" /\ Rhs[16] = <<"linebreak", "term", "newline_list">>
    BY Rules12To21 DEF Shape, Rule
<1>2. ASSUME NEW p \in {12}
      PROVE  /\ Along(p, <<"linebreak", "term", "newline_list">>, 56)
             /\ \A a \in Lookaheads[30] : a \in Lookaheads[56] /\ Action(56, a) = -16
    <2>1. Along(p, <<"linebreak", "term", "newline_list">>, 56)
        BY TerminalsEnter, NonterminalsEnter DEF Along
    <2>2. \A a \in Lookaheads[30] : /\ a \in Lookaheads[56] /\ a \in Terminals
                                   /\ a \notin Shiftable[56]
        BY VocabularyIs DEF Lookaheads, Shiftable, Table, CommandFirst, RedirFirst, CommandEnd,
                            ListEnd, WordEnd
    <2>3. 56 \in States /\ YyDefAct[56] = 16
        BY DefaultsAre DEF States
    <2>4. QED
        BY <2>1, <2>2, <2>3, ElseDefault
<1>3. ASSUME NEW q \in States, Entry[q] = "compound_list", NEW p \in Below[q]
      PROVE  \E s : /\ Along(p, <<"linebreak", "term", "newline_list">>, s)
                    /\ \A a \in Lookaheads[q] : a \in Lookaheads[s] /\ Action(s, a) = -16
    <2>1. q \in {30}
        BY <1>3, EnteredWith
    <2>2. q = 30 => p \in {12}
        BY DEF Below, Table, CommandStarts, RedirStarts, BreakStarts
    <2>3. QED
        BY <2>1, <2>2, <1>2
<1>4. QED
    BY <1>1, <1>3 DEF RuleFollows

\* Rule 17.
LEMMA Follows17 == RuleFollows(17)
<1>1. Rules[17].lhs = "term" /\ Rhs[17] = <<"term", "newline_list", "and_or">>
    BY Rules12To21 DEF Shape, Rule
<1>2. ASSUME NEW p \in {31}
      PROVE  /\ Along(p, <<"term", "newline_list", "and_or">>, 60)
             /\ \A a \in Lookaheads[47] : a \in Lookaheads[60] /\ Action(60, a) = -17
    <2>1. Along(p, <<"term", "newline_list", "and_or">>, 60)
        BY TerminalsEnter, NonterminalsEnter DEF Along
    <2>2. \A a \in Lookaheads[47] : /\ a \in Lookaheads[60] /\ a \in Terminals
                                   /\ a \notin Shiftable[60]
        BY VocabularyIs DEF Lookaheads, Shiftable, Table, CommandFirst, RedirFirst, CommandEnd,
                            ListEnd, WordEnd
    <2>3. 60 \in States /\ YyDefAct[60] = 17
        BY DefaultsAre DEF States
    <2>4. QED
        BY <2>1, <2>2, <2>3, ElseDefault
<1>3. ASSUME NEW q \in States, Entry[q] = "term", NEW p \in Below[q]
      PROVE  \E s : /\ Along(p, <<"term", "newline_list", "and_or">>, s)
                    /\ \A a \in Lookaheads[q] : a \in Lookaheads[s] /\ Action(s, a) = -17
    <2>1. q \in {47}
        BY <1>3, EnteredWith
    <2>2. q = 47 => p \in {31}
        BY DEF Below, Table, CommandStarts, RedirStarts, BreakStarts
    <2>3. QED
        BY <2>1, <2>2, <1>2
<1>4. QED
    BY <1>1, <1>3 DEF RuleFollows

\* Rule 18.
LEMMA Follows18 == RuleFollows(18)
<1>1. Rules[18].lhs = "term" /\ Rhs[18] = <<"and_or">>
    BY Rules12To21 DEF Shape, Rule
<1>2. ASSUME NEW p \in {31}
      PROVE  /\ Along(p, <<"and_or">>, 46)
             /\ \A a \in Lookaheads[47] : a \in Lookaheads[46] /\ Action(46, a) = -18
    <2>1. Along(p, <<"and_or">>, 46)
        BY TerminalsEnter, NonterminalsEnter DEF Along
    <2>2. \A a \in Lookaheads[47] : /\ a \in Lookaheads[46] /\ a \in Terminals
                                   /\ a \notin Shiftable[46]
        BY VocabularyIs DEF Lookaheads, Shiftable, Table, CommandFirst, RedirFirst, CommandEnd,
                            ListEnd, WordEnd
    <2>3. 46 \in States /\ YyDefAct[46] = 18
        BY DefaultsAre DEF States
    <2>4. QED
        BY <2>1, <2>2, <2>3, ElseDefault
<1>3. ASSUME NEW q \in States, Entry[q] = "term", NEW p \in Below[q]
      PROVE  \E s : /\ Along(p, <<"and_or">>, s)
                    /\ \A a \in Lookaheads[q] : a \in Lookaheads[s] /\ Action(s, a) = -18
    <2>1. q \in {47}
        BY <1>3, EnteredWith
    <2>2. q = 47 => p \in {31}
        BY DEF Below, Table, CommandStarts, RedirStarts, BreakStarts
    <2>3. QED
        BY <2>1, <2>2, <1>2
<1>4. QED
    BY <1>1, <1>3 DEF RuleFollows

\* Rule 19.
LEMMA Follows19 == RuleFollows(19)
<1>1. Rules[19].lhs = "simple_command" /\ Rhs[19] = <<"cmd_prefix", "cmd_word", "cmd_suffix">>
    BY Rules12To21 DEF Shape, Rule
<1>2. ASSUME NEW p \in {4, 31, 32, 49, 50, 51, 56}
      PROVE  /\ Along(p, <<"cmd_prefix", "cmd_word", "cmd_suffix">>, 55)
             /\ \A a \in Lookaheads[18] : a \in Lookaheads[55] /\ Action(55, a) = -19
    <2>1. Along(p, <<"cmd_prefix", "cmd_word", "cmd_suffix">>, 55)
        BY TerminalsEnter, NonterminalsEnter DEF Along
    <2>2. \A a \in Lookaheads[18] : /\ a \in Lookaheads[55] /\ a \in Terminals
                                   /\ a \notin Shiftable[55]
        BY VocabularyIs DEF Lookaheads, Shiftable, Table, CommandFirst, RedirFirst, CommandEnd,
                            ListEnd, WordEnd
    <2>3. 55 \in States /\ YyDefAct[55] = 19
        BY DefaultsAre DEF States
    <2>4. QED
        BY <2>1, <2>2, <2>3, ElseDefault
<1>3. ASSUME NEW q \in States, Entry[q] = "simple_command", NEW p \in Below[q]
      PROVE  \E s : /\ Along(p, <<"cmd_prefix", "cmd_word", "cmd_suffix">>, s)
                    /\ \A a \in Lookaheads[q] : a \in Lookaheads[s] /\ Action(s, a) = -19
    <2>1. q \in {18}
        BY <1>3, EnteredWith
    <2>2. q = 18 => p \in {4, 31, 32, 49, 50, 51, 56}
        BY DEF Below, Table, CommandStarts, RedirStarts, BreakStarts
    <2>3. QED
        BY <2>1, <2>2, <1>2
<1>4. QED
    BY <1>1, <1>3 DEF RuleFollows

\* Rule 20.
LEMMA Follows20 == RuleFollows(20)
<1>1. Rules[20].lhs = "simple_command" /\ Rhs[20] = <<"cmd_prefix", "cmd_word">>
    BY Rules12To21 DEF Shape, Rule
<1>2. ASSUME NEW p \in {4, 31, 32, 49, 50, 51, 56}
      PROVE  /\ Along(p, <<"cmd_prefix", "cmd_word">>, 43)
             /\ \A a \in Lookaheads[18] : a \in Lookaheads[43] /\ Action(43, a) = -20
    <2>1. Along(p, <<"cmd_prefix", "cmd_word">>, 43)
        BY TerminalsEnter, NonterminalsEnter DEF Along
    <2>2. \A a \in Lookaheads[18] : /\ a \in Lookaheads[43] /\ a \in Terminals
                                   /\ a \notin Shiftable[43]
        BY VocabularyIs DEF Lookaheads, Shiftable, Table, CommandFirst, RedirFirst, CommandEnd,
                            ListEnd, WordEnd
    <2>3. 43 \in States /\ YyDefAct[43] = 20
        BY DefaultsAre DEF States
    <2>4. QED
        BY <2>1, <2>2, <2>3, ElseDefault
<1>3. ASSUME NEW q \in States, Entry[q] = "simple_command", NEW p \in Below[q]
      PROVE  \E s : /\ Along(p, <<"cmd_prefix", "cmd_word">>, s)
                    /\ \A a \in Lookaheads[q] : a \in Lookaheads[s] /\ Action(s, a) = -20
    <2>1. q \in {18}
        BY <1>3, EnteredWith
    <2>2. q = 18 => p \in {4, 31, 32, 49, 50, 51, 56}
        BY DEF Below, Table, CommandStarts, RedirStarts, BreakStarts
    <2>3. QED
        BY <2>1, <2>2, <1>2
<1>4. QED
    BY <1>1, <1>3 DEF RuleFollows

\* Rule 21.
LEMMA Follows21 == RuleFollows(21)
<1>1. Rules[21].lhs = "simple_command" /\ Rhs[21] = <<"cmd_prefix">>
    BY Rules12To21 DEF Shape, Rule
<1>2. ASSUME NEW p \in {4, 31, 32, 49, 50, 51, 56}
      PROVE  /\ Along(p, <<"cmd_prefix">>, 20)
             /\ \A a \in Lookaheads[18] : a \in Lookaheads[20] /\ Action(20, a) = -21
    <2>1. Along(p, <<"cmd_prefix">>, 20)
        BY TerminalsEnter, NonterminalsEnter DEF Along
    <2>2. \A a \in Lookaheads[18] : /\ a \in Lookaheads[20] /\ a \in Terminals
                                   /\ a \notin Shiftable[20]
        BY VocabularyIs DEF Lookaheads, Shiftable, Table, CommandFirst, RedirFirst, CommandEnd,
                            ListEnd, WordEnd
    <2>3. 20 \in States /\ YyDefAct[20] = 21
        BY DefaultsAre DEF States
    <2>4. QED
        BY <2>1, <2>2, <2>3, ElseDefault
<1>3. ASSUME NEW q \in States, Entry[q] = "simple_command", NEW p \in Below[q]
      PROVE  \E s : /\ Along(p, <<"cmd_prefix">>, s)
                    /\ \A a \in Lookaheads[q] : a \in Lookaheads[s] /\ Action(s, a) = -21
    <2>1. q \in {18}
        BY <1>3, EnteredWith
    <2>2. q = 18 => p \in {4, 31, 32, 49, 50, 51, 56}
        BY DEF Below, Table, CommandStarts, RedirStarts, BreakStarts
    <2>3. QED
        BY <2>1, <2>2, <1>2
<1>4. QED
    BY <1>1, <1>3 DEF RuleFollows

\* Rule 22.
LEMMA Follows22 == RuleFollows(22)
<1>1. Rules[22].lhs = "simple_command" /\ Rhs[22] = <<"cmd_name", "cmd_suffix">>
    BY Rules22To31 DEF Shape, Rule
<1>2. ASSUME NEW p \in {4, 31, 32, 49, 50, 51, 56}
      PROVE  /\ Along(p, <<"cmd_name", "cmd_suffix">>, 40)
             /\ \A a \in Lookaheads[18] : a \in Lookaheads[40] /\ Action(40, a) = -22
    <2>1. Along(p, <<"cmd_name", "cmd_suffix">>, 40)
        BY TerminalsEnter, NonterminalsEnter DEF Along
    <2>2. \A a \in Lookaheads[18] : /\ a \in Lookaheads[40] /\ a \in Terminals
                                   /\ a \notin Shiftable[40]
        BY VocabularyIs DEF Lookaheads, Shiftable, Table, CommandFirst, RedirFirst, CommandEnd,
                            ListEnd, WordEnd
    <2>3. 40 \in States /\ YyDefAct[40] = 22
        BY DefaultsAre DEF States
    <2>4. QED
        BY <2>1, <2>2, <2>3, ElseDefault
<1>3. ASSUME NEW q \in States, Entry[q] = "simple_command", NEW p \in Below[q]
      PROVE  \E s : /\ Along(p, <<"cmd_name", "cmd_suffix">>, s)
                    /\ \A a \in Lookaheads[q] : a \in Lookaheads[s] /\ Action(s, a) = -22
    <2>1. q \in {18}
        BY <1>3, EnteredWith
    <2>2. q = 18 => p \in {4, 31, 32, 49, 50, 51, 56}
        BY DEF Below, Table, CommandStarts, RedirStarts, BreakStarts
    <2>3. QED
        BY <2>1, <2>2, <1>2
<1>4. QED
    BY <1>1, <1>3 DEF RuleFollows

\* Rule 23.
LEMMA Follows23 == RuleFollows(23)
<1>1. Rules[23].lhs = "simple_command" /\ Rhs[23] = <<"cmd_name">>
    BY Rules22To31 DEF Shape, Rule
<1>2. ASSUME NEW p \in {4, 31, 32, 49, 50, 51, 56}
      PROVE  /\ Along(p, <<"cmd_name">>, 19)
             /\ \A a \in Lookaheads[18] : a \in Lookaheads[19] /\ Action(19, a) = -23
    <2>1. Along(p, <<"cmd_name">>, 19)
        BY TerminalsEnter, NonterminalsEnter DEF Along
    <2>2. \A a \in Lookaheads[18] : /\ a \in Lookaheads[19] /\ a \in Terminals
                                   /\ a \notin Shiftable[19]
        BY VocabularyIs DEF Lookaheads, Shiftable, Table, CommandFirst, RedirFirst, CommandEnd,
                            ListEnd, WordEnd
    <2>3. 19 \in States /\ YyDefAct[19] = 23
        BY DefaultsAre DEF States
    <2>4. QED
        BY <2>1, <2>2, <2>3, ElseDefault
<1>3. ASSUME NEW q \in States, Entry[q] = "simple_command", NEW p \in Below[q]
      PROVE  \E s : /\ Along(p, <<"cmd_name">>, s)
                    /\ \A a \in Lookaheads[q] : a \in Lookaheads[s] /\ Action(s, a) = -23
    <2>1. q \in {18}
        BY <1>3, EnteredWith
    <2>2. q = 18 => p \in {4, 31, 32, 49, 50, 51, 56}
        BY DEF Below, Table, CommandStarts, RedirStarts, BreakStarts
    <2>3. QED
        BY <2>1, <2>2, <1>2
<1>4. QED
    BY <1>1, <1>3 DEF RuleFollows

\* Rule 24.
LEMMA Follows24 == RuleFollows(24)
<1>1. Rules[24].lhs = "cmd_name" /\ Rhs[24] = <<"WORD">>
    BY Rules22To31 DEF Shape, Rule
<1>2. ASSUME NEW p \in {4, 31, 32, 49, 50, 51, 56}
      PROVE  /\ Along(p, <<"WORD">>, 7)
             /\ \A a \in Lookaheads[19] : a \in Lookaheads[7] /\ Action(7, a) = -24
    <2>1. Along(p, <<"WORD">>, 7)
        BY TerminalsEnter, NonterminalsEnter DEF Along
    <2>2. \A a \in Lookaheads[19] : /\ a \in Lookaheads[7] /\ a \in Terminals
                                   /\ a \notin Shiftable[7]
        BY VocabularyIs DEF Lookaheads, Shiftable, Table, CommandFirst, RedirFirst, CommandEnd,
                            ListEnd, WordEnd
    <2>3. 7 \in States /\ YyDefAct[7] = 24
        BY DefaultsAre DEF States
    <2>4. QED
        BY <2>1, <2>2, <2>3, ElseDefault
<1>3. ASSUME NEW q \in States, Entry[q] = "cmd_name", NEW p \in Below[q]
      PROVE  \E s : /\ Along(p, <<"WORD">>, s)
                    /\ \A a \in Lookaheads[q] : a \in Lookaheads[s] /\ Action(s, a) = -24
    <2>1. q \in {19}
        BY <1>3, EnteredWith
    <2>2. q = 19 => p \in {4, 31, 32, 49, 50, 51, 56}
        BY DEF Below, Table, CommandStarts, RedirStarts, BreakStarts
    <2>3. QED
        BY <2>1, <2>2, <1>2
<1>4. QED
    BY <1>1, <1>3 DEF RuleFollows

\* Rule 25.
LEMMA Follows25 == RuleFollows(25)
<1>1. Rules[25].lhs = "cmd_word" /\ Rhs[25] = <<"WORD">>
    BY Rules22To31 DEF Shape, Rule
<1>2. ASSUME NEW p \in {20}
      PROVE  /\ Along(p, <<"WORD">>, 42)
             /\ \A a \in Lookaheads[43] : a \in Lookaheads[42] /\ Action(42, a) = -25
    <2>1. Along(p, <<"WORD">>, 42)
        BY TerminalsEnter, NonterminalsEnter DEF Along
    <2>2. \A a \in Lookaheads[43] : /\ a \in Lookaheads[42] /\ a \in Terminals
                                   /\ a \notin Shiftable[42]
        BY VocabularyIs DEF Lookaheads, Shiftable, Table, CommandFirst, RedirFirst, CommandEnd,
                            ListEnd, WordEnd
    <2>3. 42 \in States /\ YyDefAct[42] = 25
        BY DefaultsAre DEF States
    <2>4. QED
        BY <2>1, <2>2, <2>3, ElseDefault
<1>3. ASSUME NEW q \in States, Entry[q] = "cmd_word", NEW p \in Below[q]
      PROVE  \E s : /\ Along(p, <<"WORD">>, s)
                    /\ \A a \in Lookaheads[q] : a \in Lookaheads[s] /\ Action(s, a) = -25
    <2>1. q \in {43}
        BY <1>3, EnteredWith
    <2>2. q = 43 => p \in {20}
        BY DEF Below, Table, CommandStarts, RedirStarts, BreakStarts
    <2>3. QED
        BY <2>1, <2>2, <1>2
<1>4. QED
    BY <1>1, <1>3 DEF RuleFollows

\* Rule 26.
LEMMA Follows26 == RuleFollows(26)
<1>1. Rules[26].lhs = "cmd_prefix" /\ Rhs[26] = <<"io_redirect">>
    BY Rules22To31 DEF Shape, Rule
<1>2. ASSUME NEW p \in {4, 31, 32, 49, 50, 51, 56}
      PROVE  /\ Along(p, <<"io_redirect">>, 21)
             /\ \A a \in Lookaheads[20] : a \in Lookaheads[21] /\ Action(21, a) = -26
    <2>1. Along(p, <<"io_redirect">>, 21)
        BY TerminalsEnter, NonterminalsEnter DEF Along
    <2>2. \A a \in Lookaheads[20] : /\ a \in Lookaheads[21] /\ a \in Terminals
                                   /\ a \notin Shiftable[21]
        BY VocabularyIs DEF Lookaheads, Shiftable, Table, CommandFirst, RedirFirst, CommandEnd,
                            ListEnd, WordEnd
    <2>3. 21 \in States /\ YyDefAct[21] = 26
        BY DefaultsAre DEF States
    <2>4. QED
        BY <2>1, <2>2, <2>3, ElseDefault
<1>3. ASSUME NEW q \in States, Entry[q] = "cmd_prefix", NEW p \in Below[q]
      PROVE  \E s : /\ Along(p, <<"io_redirect">>, s)
                    /\ \A a \in Lookaheads[q] : a \in Lookaheads[s] /\ Action(s, a) = -26
    <2>1. q \in {20}
        BY <1>3, EnteredWith
    <2>2. q = 20 => p \in {4, 31, 32, 49, 50, 51, 56}
        BY DEF Below, Table, CommandStarts, RedirStarts, BreakStarts
    <2>3. QED
        BY <2>1, <2>2, <1>2
<1>4. QED
    BY <1>1, <1>3 DEF RuleFollows

\* Rule 27.
LEMMA Follows27 == RuleFollows(27)
<1>1. Rules[27].lhs = "cmd_prefix" /\ Rhs[27] = <<"cmd_prefix", "io_redirect">>
    BY Rules22To31 DEF Shape, Rule
<1>2. ASSUME NEW p \in {4, 31, 32, 49, 50, 51, 56}
      PROVE  /\ Along(p, <<"cmd_prefix", "io_redirect">>, 44)
             /\ \A a \in Lookaheads[20] : a \in Lookaheads[44] /\ Action(44, a) = -27
    <2>1. Along(p, <<"cmd_prefix", "io_redirect">>, 44)
        BY TerminalsEnter, NonterminalsEnter DEF Along
    <2>2. \A a \in Lookaheads[20] : /\ a \in Lookaheads[44] /\ a \in Terminals
                                   /\ a \notin Shiftable[44]
        BY VocabularyIs DEF Lookaheads, Shiftable, Table, CommandFirst, RedirFirst, CommandEnd,
                            ListEnd, WordEnd
    <2>3. 44 \in States /\ YyDefAct[44] = 27
        BY DefaultsAre DEF States
    <2>4. QED
        BY <2>1, <2>2, <2>3, ElseDefault
<1>3. ASSUME NEW q \in States, Entry[q] = "cmd_prefix", NEW p \in Below[q]
      PROVE  \E s : /\ Along(p, <<"cmd_prefix", "io_redirect">>, s)
                    /\ \A a \in Lookaheads[q] : a \in Lookaheads[s] /\ Action(s, a) = -27
    <2>1. q \in {20}
        BY <1>3, EnteredWith
    <2>2. q = 20 => p \in {4, 31, 32, 49, 50, 51, 56}
        BY DEF Below, Table, CommandStarts, RedirStarts, BreakStarts
    <2>3. QED
        BY <2>1, <2>2, <1>2
<1>4. QED
    BY <1>1, <1>3 DEF RuleFollows

\* Rule 28.
LEMMA Follows28 == RuleFollows(28)
<1>1. Rules[28].lhs = "cmd_suffix" /\ Rhs[28] = <<"io_redirect">>
    BY Rules22To31 DEF Shape, Rule
<1>2. ASSUME NEW p \in {19}
      PROVE  /\ Along(p, <<"io_redirect">>, 41)
             /\ \A a \in Lookaheads[40] : a \in Lookaheads[41] /\ Action(41, a) = -28
    <2>1. Along(p, <<"io_redirect">>, 41)
        BY TerminalsEnter, NonterminalsEnter DEF Along
    <2>2. \A a \in Lookaheads[40] : /\ a \in Lookaheads[41] /\ a \in Terminals
                                   /\ a \notin Shiftable[41]
        BY VocabularyIs DEF Lookaheads, Shiftable, Table, CommandFirst, RedirFirst, CommandEnd,
                            ListEnd, WordEnd
    <2>3. 41 \in States /\ YyDefAct[41] = 28
        BY DefaultsAre DEF States
    <2>4. QED
        BY <2>1, <2>2, <2>3, ElseDefault
<1>3. ASSUME NEW p \in {43}
      PROVE  /\ Along(p, <<"io_redirect">>, 41)
             /\ \A a \in Lookaheads[55] : a \in Lookaheads[41] /\ Action(41, a) = -28
    <2>1. Along(p, <<"io_redirect">>, 41)
        BY TerminalsEnter, NonterminalsEnter DEF Along
    <2>2. \A a \in Lookaheads[55] : /\ a \in Lookaheads[41] /\ a \in Terminals
                                   /\ a \notin Shiftable[41]
        BY VocabularyIs DEF Lookaheads, Shiftable, Table, CommandFirst, RedirFirst, CommandEnd,
                            ListEnd, WordEnd
    <2>3. 41 \in States /\ YyDefAct[41] = 28
        BY DefaultsAre DEF States
    <2>4. QED
        BY <2>1, <2>2, <2>3, ElseDefault
<1>4. ASSUME NEW q \in States, Entry[q] = "cmd_suffix", NEW p \in Below[q]
      PROVE  \E s : /\ Along(p, <<"io_redirect">>, s)
                    /\ \A a \in Lookaheads[q] : a \in Lookaheads[s] /\ Action(s, a) = -28
    <2>1. q \in {40, 55}
        BY <1>4, EnteredWith
    <2>2. q = 40 => p \in {19}
        BY DEF Below, Table, CommandStarts, RedirStarts, BreakStarts
    <2>3. q = 55 => p \in {43}
        BY DEF Below, Table, CommandStarts, RedirStarts, BreakStarts
    <2>4. QED
        BY <2>1, <2>2, <2>3, <1>2, <1>3
<1>5. QED
    BY <1>1, <1>4 DEF RuleFollows

\* Rule 29.
LEMMA Follows29 == RuleFollows(29)
<1>1. Rules[29].lhs = "cmd_suffix" /\ Rhs[29] = <<"cmd_suffix", "io_redirect">>
    BY Rules22To31 DEF Shape, Rule
<1>2. ASSUME NEW p \in {19}
      PROVE  /\ Along(p, <<"cmd_suffix", "io_redirect">>, 54)
             /\ \A a \in Lookaheads[40] : a \in Lookaheads[54] /\ Action(54, a) = -29
    <2>1. Along(p, <<"cmd_suffix", "io_redirect">>, 54)
        BY TerminalsEnter, NonterminalsEnter DEF Along
    <2>2. \A a \in Lookaheads[40] : /\ a \in Lookaheads[54] /\ a \in Terminals
                                   /\ a \notin Shiftable[54]
        BY VocabularyIs DEF Lookaheads, Shiftable, Table, CommandFirst, RedirFirst, CommandEnd,
                            ListEnd, WordEnd
    <2>3. 54 \in States /\ YyDefAct[54] = 29
        BY DefaultsAre DEF States
    <2>4. QED
        BY <2>1, <2>2, <2>3, ElseDefault
<1>3. ASSUME NEW p \in {43}
      PROVE  /\ Along(p, <<"cmd_suffix", "io_redirect">>, 54)
             /\ \A a \in Lookaheads[55] : a \in Lookaheads[54] /\ Action(54, a) = -29
    <2>1. Along(p, <<"cmd_suffix", "io_redirect">>, 54)
        BY TerminalsEnter, NonterminalsEnter DEF Along
    <2>2. \A a \in Lookaheads[55] : /\ a \in Lookaheads[54] /\ a \in Terminals
                                   /\ a \notin Shiftable[54]
        BY VocabularyIs DEF Lookaheads, Shiftable, Table, CommandFirst, RedirFirst, CommandEnd,
                            ListEnd, WordEnd
    <2>3. 54 \in States /\ YyDefAct[54] = 29
        BY DefaultsAre DEF States
    <2>4. QED
        BY <2>1, <2>2, <2>3, ElseDefault
<1>4. ASSUME NEW q \in States, Entry[q] = "cmd_suffix", NEW p \in Below[q]
      PROVE  \E s : /\ Along(p, <<"cmd_suffix", "io_redirect">>, s)
                    /\ \A a \in Lookaheads[q] : a \in Lookaheads[s] /\ Action(s, a) = -29
    <2>1. q \in {40, 55}
        BY <1>4, EnteredWith
    <2>2. q = 40 => p \in {19}
        BY DEF Below, Table, CommandStarts, RedirStarts, BreakStarts
    <2>3. q = 55 => p \in {43}
        BY DEF Below, Table, CommandStarts, RedirStarts, BreakStarts
    <2>4. QED
        BY <2>1, <2>2, <2>3, <1>2, <1>3
<1>5. QED
    BY <1>1, <1>4 DEF RuleFollows

\* Rule 30.
LEMMA Follows30 == RuleFollows(30)
<1>1. Rules[30].lhs = "cmd_suffix" /\ Rhs[30] = <<"WORD">>
    BY Rules22To31 DEF Shape, Rule
<1>2. ASSUME NEW p \in {19}
      PROVE  /\ Along(p, <<"WORD">>, 39)
             /\ \A a \in Lookaheads[40] : a \in Lookaheads[39] /\ Action(39, a) = -30
    <2>1. Along(p, <<"WORD">>, 39)
        BY TerminalsEnter, NonterminalsEnter DEF Along
    <2>2. \A a \in Lookaheads[40] : /\ a \in Lookaheads[39] /\ a \in Terminals
                                   /\ a \notin Shiftable[39]
        BY VocabularyIs DEF Lookaheads, Shiftable, Table, CommandFirst, RedirFirst, CommandEnd,
                            ListEnd, WordEnd
    <2>3. 39 \in States /\ YyDefAct[39] = 30
        BY DefaultsAre DEF States
    <2>4. QED
        BY <2>1, <2>2, <2>3, ElseDefault
<1>3. ASSUME NEW p \in {43}
      PROVE  /\ Along(p, <<"WORD">>, 39)
             /\ \A a \in Lookaheads[55] : a \in Lookaheads[39] /\ Action(39, a) = -30
    <2>1. Along(p, <<"WORD">>, 39)
        BY TerminalsEnter, NonterminalsEnter DEF Along
    <2>2. \A a \in Lookaheads[55] : /\ a \in Lookaheads[39] /\ a \in Terminals
                                   /\ a \notin Shiftable[39]
        BY VocabularyIs DEF Lookaheads, Shiftable, Table, CommandFirst, RedirFirst, CommandEnd,
                            ListEnd, WordEnd
    <2>3. 39 \in States /\ YyDefAct[39] = 30
        BY DefaultsAre DEF States
    <2>4. QED
        BY <2>1, <2>2, <2>3, ElseDefault
<1>4. ASSUME NEW q \in States, Entry[q] = "cmd_suffix", NEW p \in Below[q]
      PROVE  \E s : /\ Along(p, <<"WORD">>, s)
                    /\ \A a \in Lookaheads[q] : a \in Lookaheads[s] /\ Action(s, a) = -30
    <2>1. q \in {40, 55}
        BY <1>4, EnteredWith
    <2>2. q = 40 => p \in {19}
        BY DEF Below, Table, CommandStarts, RedirStarts, BreakStarts
    <2>3. q = 55 => p \in {43}
        BY DEF Below, Table, CommandStarts, RedirStarts, BreakStarts
    <2>4. QED
        BY <2>1, <2>2, <2>3, <1>2, <1>3
<1>5. QED
    BY <1>1, <1>4 DEF RuleFollows

\* Rule 31.
LEMMA Follows31 == RuleFollows(31)
<1>1. Rules[31].lhs = "cmd_suffix" /\ Rhs[31] = <<"cmd_suffix", "WORD">>
    BY Rules22To31 DEF Shape, Rule
<1>2. ASSUME NEW p \in {19}
      PROVE  /\ Along(p, <<"cmd_suffix", "WORD">>, 53)
             /\ \A a \in Lookaheads[40] : a \in Lookaheads[53] /\ Action(53, a) = -31
    <2>1. Along(p, <<"cmd_suffix", "WORD">>, 53)
        BY TerminalsEnter, NonterminalsEnter DEF Along
    <2>2. \A a \in Lookaheads[40] : /\ a \in Lookaheads[53] /\ a \in Terminals
                                   /\ a \notin Shiftable[53]
        BY VocabularyIs DEF Lookaheads, Shiftable, Table, CommandFirst, RedirFirst, CommandEnd,
                            ListEnd, WordEnd
    <2>3. 53 \in States /\ YyDefAct[53] = 31
        BY DefaultsAre DEF States
    <2>4. QED
        BY <2>1, <2>2, <2>3, ElseDefault
<1>3. ASSUME NEW p \in {43}
      PROVE  /\ Along(p, <<"cmd_suffix", "WORD">>, 53)
             /\ \A a \in Lookaheads[55] : a \in Lookaheads[53] /\ Action(53, a) = -31
    <2>1. Along(p, <<"cmd_suffix", "WORD">>, 53)
        BY TerminalsEnter, NonterminalsEnter DEF Along
    <2>2. \A a \in Lookaheads[55] : /\ a \in Lookaheads[53] /\ a \in Terminals
                                   /\ a \notin Shiftable[53]
        BY VocabularyIs DEF Lookaheads, Shiftable, Table, CommandFirst, RedirFirst, CommandEnd,
                            ListEnd, WordEnd
    <2>3. 53 \in States /\ YyDefAct[53] = 31
        BY DefaultsAre DEF States
    <2>4. QED
        BY <2>1, <2>2, <2>3, ElseDefault
<1>4. ASSUME NEW q \in States, Entry[q] = "cmd_suffix", NEW p \in Below[q]
      PROVE  \E s : /\ Along(p, <<"cmd_suffix", "WORD">>, s)
                    /\ \A a \in Lookaheads[q] : a \in Lookaheads[s] /\ Action(s, a) = -31
    <2>1. q \in {40, 55}
        BY <1>4, EnteredWith
    <2>2. q = 40 => p \in {19}
        BY DEF Below, Table, CommandStarts, RedirStarts, BreakStarts
    <2>3. q = 55 => p \in {43}
        BY DEF Below, Table, CommandStarts, RedirStarts, BreakStarts
    <2>4. QED
        BY <2>1, <2>2, <2>3, <1>2, <1>3
<1>5. QED
    BY <1>1, <1>4 DEF RuleFollows

\* Rule 32.
LEMMA Follows32 == RuleFollows(32)
<1>1. Rules[32].lhs = "redirect_list" /\ Rhs[32] = <<"io_redirect">>
    BY Rules32To39 DEF Shape, Rule
<1>2. ASSUME NEW p \in {17}
      PROVE  /\ Along(p, <<"io_redirect">>, 38)
             /\ \A a \in Lookaheads[37] : a \in Lookaheads[38] /\ Action(38, a) = -32
    <2>1. Along(p, <<"io_redirect">>, 38)
        BY TerminalsEnter, NonterminalsEnter DEF Along
    <2>2. \A a \in Lookaheads[37] : /\ a \in Lookaheads[38] /\ a \in Terminals
                                   /\ a \notin Shiftable[38]
        BY VocabularyIs DEF Lookaheads, Shiftable, Table, CommandFirst, RedirFirst, CommandEnd,
                            ListEnd, WordEnd
    <2>3. 38 \in States /\ YyDefAct[38] = 32
        BY DefaultsAre DEF States
    <2>4. QED
        BY <2>1, <2>2, <2>3, ElseDefault
<1>3. ASSUME NEW q \in States, Entry[q] = "redirect_list", NEW p \in Below[q]
      PROVE  \E s : /\ Along(p, <<"io_redirect">>, s)
                    /\ \A a \in Lookaheads[q] : a \in Lookaheads[s] /\ Action(s, a) = -32
    <2>1. q \in {37}
        BY <1>3, EnteredWith
    <2>2. q = 37 => p \in {17}
        BY DEF Below, Table, CommandStarts, RedirStarts, BreakStarts
    <2>3. QED
        BY <2>1, <2>2, <1>2
<1>4. QED
    BY <1>1, <1>3 DEF RuleFollows

\* Rule 33.
LEMMA Follows33 == RuleFollows(33)
<1>1. Rules[33].lhs = "redirect_list" /\ Rhs[33] = <<"redirect_list", "io_redirect">>
    BY Rules32To39 DEF Shape, Rule
<1>2. ASSUME NEW p \in {17}
      PROVE  /\ Along(p, <<"redirect_list", "io_redirect">>, 52)
             /\ \A a \in Lookaheads[37] : a \in Lookaheads[52] /\ Action(52, a) = -33
    <2>1. Along(p, <<"redirect_list", "io_redirect">>, 52)
        BY TerminalsEnter, NonterminalsEnter DEF Along
    <2>2. \A a \in Lookaheads[37] : /\ a \in Lookaheads[52] /\ a \in Terminals
                                   /\ a \notin Shiftable[52]
        BY VocabularyIs DEF Lookaheads, Shiftable, Table, CommandFirst, RedirFirst, CommandEnd,
                            ListEnd, WordEnd
    <2>3. 52 \in States /\ YyDefAct[52] = 33
        BY DefaultsAre DEF States
    <2>4. QED
        BY <2>1, <2>2, <2>3, ElseDefault
<1>3. ASSUME NEW q \in States, Entry[q] = "redirect_list", NEW p \in Below[q]
      PROVE  \E s : /\ Along(p, <<"redirect_list", "io_redirect">>, s)
                    /\ \A a \in Lookaheads[q] : a \in Lookaheads[s] /\ Action(s, a) = -33
    <2>1. q \in {37}
        BY <1>3, EnteredWith
    <2>2. q = 37 => p \in {17}
        BY DEF Below, Table, CommandStarts, RedirStarts, BreakStarts
    <2>3. QED
        BY <2>1, <2>2, <1>2
<1>4. QED
    BY <1>1, <1>3 DEF RuleFollows

\* Rule 34.
LEMMA Follows34 == RuleFollows(34)
<1>1. Rules[34].lhs = "io_redirect" /\ Rhs[34] = <<"io_file">>
    BY Rules32To39 DEF Shape, Rule
<1>2. ASSUME NEW p \in {4, 31, 32, 49, 50, 51, 56}
      PROVE  /\ Along(p, <<"io_file">>, 22)
             /\ \A a \in Lookaheads[21] : a \in Lookaheads[22] /\ Action(22, a) = -34
    <2>1. Along(p, <<"io_file">>, 22)
        BY TerminalsEnter, NonterminalsEnter DEF Along
    <2>2. \A a \in Lookaheads[21] : /\ a \in Lookaheads[22] /\ a \in Terminals
                                   /\ a \notin Shiftable[22]
        BY VocabularyIs DEF Lookaheads, Shiftable, Table, CommandFirst, RedirFirst, CommandEnd,
                            ListEnd, WordEnd
    <2>3. 22 \in States /\ YyDefAct[22] = 34
        BY DefaultsAre DEF States
    <2>4. QED
        BY <2>1, <2>2, <2>3, ElseDefault
<1>3. ASSUME NEW p \in {17}
      PROVE  /\ Along(p, <<"io_file">>, 22)
             /\ \A a \in Lookaheads[38] : a \in Lookaheads[22] /\ Action(22, a) = -34
    <2>1. Along(p, <<"io_file">>, 22)
        BY TerminalsEnter, NonterminalsEnter DEF Along
    <2>2. \A a \in Lookaheads[38] : /\ a \in Lookaheads[22] /\ a \in Terminals
                                   /\ a \notin Shiftable[22]
        BY VocabularyIs DEF Lookaheads, Shiftable, Table, CommandFirst, RedirFirst, CommandEnd,
                            ListEnd, WordEnd
    <2>3. 22 \in States /\ YyDefAct[22] = 34
        BY DefaultsAre DEF States
    <2>4. QED
        BY <2>1, <2>2, <2>3, ElseDefault
<1>4. ASSUME NEW p \in {19, 43}
      PROVE  /\ Along(p, <<"io_file">>, 22)
             /\ \A a \in Lookaheads[41] : a \in Lookaheads[22] /\ Action(22, a) = -34
    <2>1. Along(p, <<"io_file">>, 22)
        BY TerminalsEnter, NonterminalsEnter DEF Along
    <2>2. \A a \in Lookaheads[41] : /\ a \in Lookaheads[22] /\ a \in Terminals
                                   /\ a \notin Shiftable[22]
        BY VocabularyIs DEF Lookaheads, Shiftable, Table, CommandFirst, RedirFirst, CommandEnd,
                            ListEnd, WordEnd
    <2>3. 22 \in States /\ YyDefAct[22] = 34
        BY DefaultsAre DEF States
    <2>4. QED
        BY <2>1, <2>2, <2>3, ElseDefault
<1>5. ASSUME NEW p \in {20}
      PROVE  /\ Along(p, <<"io_file">>, 22)
             /\ \A a \in Lookaheads[44] : a \in Lookaheads[22] /\ Action(22, a) = -34
    <2>1. Along(p, <<"io_file">>, 22)
        BY TerminalsEnter, NonterminalsEnter DEF Along
    <2>2. \A a \in Lookaheads[44] : /\ a \in Lookaheads[22] /\ a \in Terminals
                                   /\ a \notin Shiftable[22]
        BY VocabularyIs DEF Lookaheads, Shiftable, Table, CommandFirst, RedirFirst, CommandEnd,
                            ListEnd, WordEnd
    <2>3. 22 \in States /\ YyDefAct[22] = 34
        BY DefaultsAre DEF States
    <2>4. QED
        BY <2>1, <2>2, <2>3, ElseDefault
<1>6. ASSUME NEW p \in {37}
      PROVE  /\ Along(p, <<"io_file">>, 22)
             /\ \A a \in Lookaheads[52] : a \in Lookaheads[22] /\ Action(22, a) = -34
    <2>1. Along(p, <<"io_file">>, 22)
        BY TerminalsEnter, NonterminalsEnter DEF Along
    <2>2. \A a \in Lookaheads[52] : /\ a \in Lookaheads[22] /\ a \in Terminals
                                   /\ a \notin Shiftable[22]
        BY VocabularyIs DEF Lookaheads, Shiftable, Table, CommandFirst, RedirFirst, CommandEnd,
                            ListEnd, WordEnd
    <2>3. 22 \in States /\ YyDefAct[22] = 34
        BY DefaultsAre DEF States
    <2>4. QED
        BY <2>1, <2>2, <2>3, ElseDefault
<1>7. ASSUME NEW p \in {40, 55}
      PROVE  /\ Along(p, <<"io_file">>, 22)
             /\ \A a \in Lookaheads[54] : a \in Lookaheads[22] /\ Action(22, a) = -34
    <2>1. Along(p, <<"io_file">>, 22)
        BY TerminalsEnter, NonterminalsEnter DEF Along
    <2>2. \A a \in Lookaheads[54] : /\ a \in Lookaheads[22] /\ a \in Terminals
                                   /\ a \notin Shiftable[22]
        BY VocabularyIs DEF Lookaheads, Shiftable, Table, CommandFirst, RedirFirst, CommandEnd,
                            ListEnd, WordEnd
    <2>3. 22 \in States /\ YyDefAct[22] = 34
        BY DefaultsAre DEF States
    <2>4. QED
        BY <2>1, <2>2, <2>3, ElseDefault
<1>8. ASSUME NEW q \in States, Entry[q] = "io_redirect", NEW p \in Below[q]
      PROVE  \E s : /\ Along(p, <<"io_file">>, s)
                    /\ \A a \in Lookaheads[q] : a \in Lookaheads[s] /\ Action(s, a) = -34
    <2>1. q \in {21, 38, 41, 44, 52, 54}
        BY <1>8, EnteredWith
    <2>2. q = 21 => p \in {4, 31, 32, 49, 50, 51, 56}
        BY DEF Below, Table, CommandStarts, RedirStarts, BreakStarts
    <2>3. q = 38 => p \in {17}
        BY DEF Below, Table, CommandStarts, RedirStarts, BreakStarts
    <2>4. q = 41 => p \in {19, 43}
        BY DEF Below, Table, CommandStarts, RedirStarts, BreakStarts
    <2>5. q = 44 => p \in {20}
        BY DEF Below, Table, CommandStarts, RedirStarts, BreakStarts
    <2>6. q = 52 => p \in {37}
        BY DEF Below, Table, CommandStarts, RedirStarts, BreakStarts
    <2>7. q = 54 => p \in {40, 55}
        BY DEF Below, Table, CommandStarts, RedirStarts, BreakStarts
    <2>8. QED
        BY <2>1, <2>2, <2>3, <2>4, <2>5, <2>6, <2>7, <1>2, <1>3, <1>4, <1>5, <1>6, <1>7
<1>9. QED
    BY <1>1, <1>8 DEF RuleFollows

\* Rule 35.
LEMMA Follows35 == RuleFollows(35)
<1>1. Rules[35].lhs = "io_redirect" /\ Rhs[35] = <<"io_here">>
    BY Rules32To39 DEF Shape, Rule
<1>2. ASSUME NEW p \in {4, 31, 32, 49, 50, 51, 56}
      PROVE  /\ Along(p, <<"io_here">>, 23)
             /\ \A a \in Lookaheads[21] : a \in Lookaheads[23] /\ Action(23, a) = -35
    <2>1. Along(p, <<"io_here">>, 23)
        BY TerminalsEnter, NonterminalsEnter DEF Along
    <2>2. \A a \in Lookaheads[21] : /\ a \in Lookaheads[23] /\ a \in Terminals
                                   /\ a \notin Shiftable[23]
        BY VocabularyIs DEF Lookaheads, Shiftable, Table, CommandFirst, RedirFirst, CommandEnd,
                            ListEnd, WordEnd
    <2>3. 23 \in States /\ YyDefAct[23] = 35
        BY DefaultsAre DEF States
    <2>4. QED
        BY <2>1, <2>2, <2>3, ElseDefault
<1>3. ASSUME NEW p \in {17}
      PROVE  /\ Along(p, <<"io_here">>, 23)
             /\ \A a \in Lookaheads[38] : a \in Lookaheads[23] /\ Action(23, a) = -35
    <2>1. Along(p, <<"io_here">>, 23)
        BY TerminalsEnter, NonterminalsEnter DEF Along
    <2>2. \A a \in Lookaheads[38] : /\ a \in Lookaheads[23] /\ a \in Terminals
                                   /\ a \notin Shiftable[23]
        BY VocabularyIs DEF Lookaheads, Shiftable, Table, CommandFirst, RedirFirst, CommandEnd,
                            ListEnd, WordEnd
    <2>3. 23 \in States /\ YyDefAct[23] = 35
        BY DefaultsAre DEF States
    <2>4. QED
        BY <2>1, <2>2, <2>3, ElseDefault
<1>4. ASSUME NEW p \in {19, 43}
      PROVE  /\ Along(p, <<"io_here">>, 23)
             /\ \A a \in Lookaheads[41] : a \in Lookaheads[23] /\ Action(23, a) = -35
    <2>1. Along(p, <<"io_here">>, 23)
        BY TerminalsEnter, NonterminalsEnter DEF Along
    <2>2. \A a \in Lookaheads[41] : /\ a \in Lookaheads[23] /\ a \in Terminals
                                   /\ a \notin Shiftable[23]
        BY VocabularyIs DEF Lookaheads, Shiftable, Table, CommandFirst, RedirFirst, CommandEnd,
                            ListEnd, WordEnd
    <2>3. 23 \in States /\ YyDefAct[23] = 35
        BY DefaultsAre DEF States
    <2>4. QED
        BY <2>1, <2>2, <2>3, ElseDefault
<1>5. ASSUME NEW p \in {20}
      PROVE  /\ Along(p, <<"io_here">>, 23)
             /\ \A a \in Lookaheads[44] : a \in Lookaheads[23] /\ Action(23, a) = -35
    <2>1. Along(p, <<"io_here">>, 23)
        BY TerminalsEnter, NonterminalsEnter DEF Along
    <2>2. \A a \in Lookaheads[44] : /\ a \in Lookaheads[23] /\ a \in Terminals
                                   /\ a \notin Shiftable[23]
        BY VocabularyIs DEF Lookaheads, Shiftable, Table, CommandFirst, RedirFirst, CommandEnd,
                            ListEnd, WordEnd
    <2>3. 23 \in States /\ YyDefAct[23] = 35
        BY DefaultsAre DEF States
    <2>4. QED
        BY <2>1, <2>2, <2>3, ElseDefault
<1>6. ASSUME NEW p \in {37}
      PROVE  /\ Along(p, <<"io_here">>, 23)
             /\ \A a \in Lookaheads[52] : a \in Lookaheads[23] /\ Action(23, a) = -35
    <2>1. Along(p, <<"io_here">>, 23)
        BY TerminalsEnter, NonterminalsEnter DEF Along
    <2>2. \A a \in Lookaheads[52] : /\ a \in Lookaheads[23] /\ a \in Terminals
                                   /\ a \notin Shiftable[23]
        BY VocabularyIs DEF Lookaheads, Shiftable, Table, CommandFirst, RedirFirst, CommandEnd,
                            ListEnd, WordEnd
    <2>3. 23 \in States /\ YyDefAct[23] = 35
        BY DefaultsAre DEF States
    <2>4. QED
        BY <2>1, <2>2, <2>3, ElseDefault
<1>7. ASSUME NEW p \in {40, 55}
      PROVE  /\ Along(p, <<"io_here">>, 23)
             /\ \A a \in Lookaheads[54] : a \in Lookaheads[23] /\ Action(23, a) = -35
    <2>1. Along(p, <<"io_here">>, 23)
        BY TerminalsEnter, NonterminalsEnter DEF Along
    <2>2. \A a \in Lookaheads[54] : /\ a \in Lookaheads[23] /\ a \in Terminals
                                   /\ a \notin Shiftable[23]
        BY VocabularyIs DEF Lookaheads, Shiftable, Table, CommandFirst, RedirFirst, CommandEnd,
                            ListEnd, WordEnd
    <2>3. 23 \in States /\ YyDefAct[23] = 35
        BY DefaultsAre DEF States
    <2>4. QED
        BY <2>1, <2>2, <2>3, ElseDefault
<1>8. ASSUME NEW q \in States, Entry[q] = "io_redirect", NEW p \in Below[q]
      PROVE  \E s : /\ Along(p, <<"io_here">>, s)
                    /\ \A a \in Lookaheads[q] : a \in Lookaheads[s] /\ Action(s, a) = -35
    <2>1. q \in {21, 38, 41, 44, 52, 54}
        BY <1>8, EnteredWith
    <2>2. q = 21 => p \in {4, 31, 32, 49, 50, 51, 56}
        BY DEF Below, Table, CommandStarts, RedirStarts, BreakStarts
    <2>3. q = 38 => p \in {17}
        BY DEF Below, Table, CommandStarts, RedirStarts, BreakStarts
    <2>4. q = 41 => p \in {19, 43}
        BY DEF Below, Table, CommandStarts, RedirStarts, BreakStarts
    <2>5. q = 44 => p \in {20}
        BY DEF Below, Table, CommandStarts, RedirStarts, BreakStarts
    <2>6. q = 52 => p \in {37}
        BY DEF Below, Table, CommandStarts, RedirStarts, BreakStarts
    <2>7. q = 54 => p \in {40, 55}
        BY DEF Below, Table, CommandStarts, RedirStarts, BreakStarts
    <2>8. QED
        BY <2>1, <2>2, <2>3, <2>4, <2>5, <2>6, <2>7, <1>2, <1>3, <1>4, <1>5, <1>6, <1>7
<1>9. QED
    BY <1>1, <1>8 DEF RuleFollows

\* Rule 36.
LEMMA Follows36 == RuleFollows(36)
<1>1. Rules[36].lhs = "io_file" /\ Rhs[36] = <<"LESS", "filename">>
    BY Rules32To39 DEF Shape, Rule
<1>2. ASSUME NEW p \in {4, 17, 19, 20, 31, 32, 37, 40, 43, 49, 50, 51, 55, 56}
      PROVE  /\ Along(p, <<"LESS", "filename">>, 25)
             /\ \A a \in Lookaheads[22] : a \in Lookaheads[25] /\ Action(25, a) = -36
    <2>1. Along(p, <<"LESS", "filename">>, 25)
        BY TerminalsEnter, NonterminalsEnter DEF Along
    <2>2. \A a \in Lookaheads[22] : /\ a \in Lookaheads[25] /\ a \in Terminals
                                   /\ a \notin Shiftable[25]
        BY VocabularyIs DEF Lookaheads, Shiftable, Table, CommandFirst, RedirFirst, CommandEnd,
                            ListEnd, WordEnd
    <2>3. 25 \in States /\ YyDefAct[25] = 36
        BY DefaultsAre DEF States
    <2>4. QED
        BY <2>1, <2>2, <2>3, ElseDefault
<1>3. ASSUME NEW q \in States, Entry[q] = "io_file", NEW p \in Below[q]
      PROVE  \E s : /\ Along(p, <<"LESS", "filename">>, s)
                    /\ \A a \in Lookaheads[q] : a \in Lookaheads[s] /\ Action(s, a) = -36
    <2>1. q \in {22}
        BY <1>3, EnteredWith
    <2>2. q = 22 => p \in {4, 17, 19, 20, 31, 32, 37, 40, 43, 49, 50, 51, 55, 56}
        BY DEF Below, Table, CommandStarts, RedirStarts, BreakStarts
    <2>3. QED
        BY <2>1, <2>2, <1>2
<1>4. QED
    BY <1>1, <1>3 DEF RuleFollows

\* Rule 37.
LEMMA Follows37 == RuleFollows(37)
<1>1. Rules[37].lhs = "io_file" /\ Rhs[37] = <<"GREAT", "filename">>
    BY Rules32To39 DEF Shape, Rule
<1>2. ASSUME NEW p \in {4, 17, 19, 20, 31, 32, 37, 40, 43, 49, 50, 51, 55, 56}
      PROVE  /\ Along(p, <<"GREAT", "filename">>, 26)
             /\ \A a \in Lookaheads[22] : a \in Lookaheads[26] /\ Action(26, a) = -37
    <2>1. Along(p, <<"GREAT", "filename">>, 26)
        BY TerminalsEnter, NonterminalsEnter DEF Along
    <2>2. \A a \in Lookaheads[22] : /\ a \in Lookaheads[26] /\ a \in Terminals
                                   /\ a \notin Shiftable[26]
        BY VocabularyIs DEF Lookaheads, Shiftable, Table, CommandFirst, RedirFirst, CommandEnd,
                            ListEnd, WordEnd
    <2>3. 26 \in States /\ YyDefAct[26] = 37
        BY DefaultsAre DEF States
    <2>4. QED
        BY <2>1, <2>2, <2>3, ElseDefault
<1>3. ASSUME NEW q \in States, Entry[q] = "io_file", NEW p \in Below[q]
      PROVE  \E s : /\ Along(p, <<"GREAT", "filename">>, s)
                    /\ \A a \in Lookaheads[q] : a \in Lookaheads[s] /\ Action(s, a) = -37
    <2>1. q \in {22}
        BY <1>3, EnteredWith
    <2>2. q = 22 => p \in {4, 17, 19, 20, 31, 32, 37, 40, 43, 49, 50, 51, 55, 56}
        BY DEF Below, Table, CommandStarts, RedirStarts, BreakStarts
    <2>3. QED
        BY <2>1, <2>2, <1>2
<1>4. QED
    BY <1>1, <1>3 DEF RuleFollows

\* Rule 38.
LEMMA Follows38 == RuleFollows(38)
<1>1. Rules[38].lhs = "io_file" /\ Rhs[38] = <<"DGREAT", "filename">>
    BY Rules32To39 DEF Shape, Rule
<1>2. ASSUME NEW p \in {4, 17, 19, 20, 31, 32, 37, 40, 43, 49, 50, 51, 55, 56}
      PROVE  /\ Along(p, <<"DGREAT", "filename">>, 29)
             /\ \A a \in Lookaheads[22] : a \in Lookaheads[29] /\ Action(29, a) = -38
    <2>1. Along(p, <<"DGREAT", "filename">>, 29)
        BY TerminalsEnter, NonterminalsEnter DEF Along
    <2>2. \A a \in Lookaheads[22] : /\ a \in Lookaheads[29] /\ a \in Terminals
                                   /\ a \notin Shiftable[29]
        BY VocabularyIs DEF Lookaheads, Shiftable, Table, CommandFirst, RedirFirst, CommandEnd,
                            ListEnd, WordEnd
    <2>3. 29 \in States /\ YyDefAct[29] = 38
        BY DefaultsAre DEF States
    <2>4. QED
        BY <2>1, <2>2, <2>3, ElseDefault
<1>3. ASSUME NEW q \in States, Entry[q] = "io_file", NEW p \in Below[q]
      PROVE  \E s : /\ Along(p, <<"DGREAT", "filename">>, s)
                    /\ \A a \in Lookaheads[q] : a \in Lookaheads[s] /\ Action(s, a) = -38
    <2>1. q \in {22}
        BY <1>3, EnteredWith
    <2>2. q = 22 => p \in {4, 17, 19, 20, 31, 32, 37, 40, 43, 49, 50, 51, 55, 56}
        BY DEF Below, Table, CommandStarts, RedirStarts, BreakStarts
    <2>3. QED
        BY <2>1, <2>2, <1>2
<1>4. QED
    BY <1>1, <1>3 DEF RuleFollows

\* Rule 39.
LEMMA Follows39 == RuleFollows(39)
<1>1. Rules[39].lhs = "filename" /\ Rhs[39] = <<"WORD">>
    BY Rules32To39 DEF Shape, Rule
<1>2. ASSUME NEW p \in {8}
      PROVE  /\ Along(p, <<"WORD">>, 24)
             /\ \A a \in Lookaheads[25] : a \in Lookaheads[24] /\ Action(24, a) = -39
    <2>1. Along(p, <<"WORD">>, 24)
        BY TerminalsEnter, NonterminalsEnter DEF Along
    <2>2. \A a \in Lookaheads[25] : /\ a \in Lookaheads[24] /\ a \in Terminals
                                   /\ a \notin Shiftable[24]
        BY VocabularyIs DEF Lookaheads, Shiftable, Table, CommandFirst, RedirFirst, CommandEnd,
                            ListEnd, WordEnd
    <2>3. 24 \in States /\ YyDefAct[24] = 39
        BY DefaultsAre DEF States
    <2>4. QED
        BY <2>1, <2>2, <2>3, ElseDefault
<1>3. ASSUME NEW p \in {9}
      PROVE  /\ Along(p, <<"WORD">>, 24)
             /\ \A a \in Lookaheads[26] : a \in Lookaheads[24] /\ Action(24, a) = -39
    <2>1. Along(p, <<"WORD">>, 24)
        BY TerminalsEnter, NonterminalsEnter DEF Along
    <2>2. \A a \in Lookaheads[26] : /\ a \in Lookaheads[24] /\ a \in Terminals
                                   /\ a \notin Shiftable[24]
        BY VocabularyIs DEF Lookaheads, Shiftable, Table, CommandFirst, RedirFirst, CommandEnd,
                            ListEnd, WordEnd
    <2>3. 24 \in States /\ YyDefAct[24] = 39
        BY DefaultsAre DEF States
    <2>4. QED
        BY <2>1, <2>2, <2>3, ElseDefault
<1>4. ASSUME NEW p \in {11}
      PROVE  /\ Along(p, <<"WORD">>, 24)
             /\ \A a \in Lookaheads[29] : a \in Lookaheads[24] /\ Action(24, a) = -39
    <2>1. Along(p, <<"WORD">>, 24)
        BY TerminalsEnter, NonterminalsEnter DEF Along
    <2>2. \A a \in Lookaheads[29] : /\ a \in Lookaheads[24] /\ a \in Terminals
                                   /\ a \notin Shiftable[24]
        BY VocabularyIs DEF Lookaheads, Shiftable, Table, CommandFirst, RedirFirst, CommandEnd,
                            ListEnd, WordEnd
    <2>3. 24 \in States /\ YyDefAct[24] = 39
        BY DefaultsAre DEF States
    <2>4. QED
        BY <2>1, <2>2, <2>3, ElseDefault
<1>5. ASSUME NEW q \in States, Entry[q] = "filename", NEW p \in Below[q]
      PROVE  \E s : /\ Along(p, <<"WORD">>, s)
                    /\ \A a \in Lookaheads[q] : a \in Lookaheads[s] /\ Action(s, a) = -39
    <2>1. q \in {25, 26, 29}
        BY <1>5, EnteredWith
    <2>2. q = 25 => p \in {8}
        BY DEF Below, Table, CommandStarts, RedirStarts, BreakStarts
    <2>3. q = 26 => p \in {9}
        BY DEF Below, Table, CommandStarts, RedirStarts, BreakStarts
    <2>4. q = 29 => p \in {11}
        BY DEF Below, Table, CommandStarts, RedirStarts, BreakStarts
    <2>5. QED
        BY <2>1, <2>2, <2>3, <2>4, <1>2, <1>3, <1>4
<1>6. QED
    BY <1>1, <1>5 DEF RuleFollows

\* Rule 40.
LEMMA Follows40 == RuleFollows(40)
<1>1. Rules[40].lhs = "io_here" /\ Rhs[40] = <<"DLESS", "here_end">>
    BY Rules40To45 DEF Shape, Rule
<1>2. ASSUME NEW p \in {4, 17, 19, 20, 31, 32, 37, 40, 43, 49, 50, 51, 55, 56}
      PROVE  /\ Along(p, <<"DLESS", "here_end">>, 28)
             /\ \A a \in Lookaheads[23] : a \in Lookaheads[28] /\ Action(28, a) = -40
    <2>1. Along(p, <<"DLESS", "here_end">>, 28)
        BY TerminalsEnter, NonterminalsEnter DEF Along
    <2>2. \A a \in Lookaheads[23] : /\ a \in Lookaheads[28] /\ a \in Terminals
                                   /\ a \notin Shiftable[28]
        BY VocabularyIs DEF Lookaheads, Shiftable, Table, CommandFirst, RedirFirst, CommandEnd,
                            ListEnd, WordEnd
    <2>3. 28 \in States /\ YyDefAct[28] = 40
        BY DefaultsAre DEF States
    <2>4. QED
        BY <2>1, <2>2, <2>3, ElseDefault
<1>3. ASSUME NEW q \in States, Entry[q] = "io_here", NEW p \in Below[q]
      PROVE  \E s : /\ Along(p, <<"DLESS", "here_end">>, s)
                    /\ \A a \in Lookaheads[q] : a \in Lookaheads[s] /\ Action(s, a) = -40
    <2>1. q \in {23}
        BY <1>3, EnteredWith
    <2>2. q = 23 => p \in {4, 17, 19, 20, 31, 32, 37, 40, 43, 49, 50, 51, 55, 56}
        BY DEF Below, Table, CommandStarts, RedirStarts, BreakStarts
    <2>3. QED
        BY <2>1, <2>2, <1>2
<1>4. QED
    BY <1>1, <1>3 DEF RuleFollows

\* Rule 41.
LEMMA Follows41 == RuleFollows(41)
<1>1. Rules[41].lhs = "here_end" /\ Rhs[41] = <<"WORD">>
    BY Rules40To45 DEF Shape, Rule
<1>2. ASSUME NEW p \in {10}
      PROVE  /\ Along(p, <<"WORD">>, 27)
             /\ \A a \in Lookaheads[28] : a \in Lookaheads[27] /\ Action(27, a) = -41
    <2>1. Along(p, <<"WORD">>, 27)
        BY TerminalsEnter, NonterminalsEnter DEF Along
    <2>2. \A a \in Lookaheads[28] : /\ a \in Lookaheads[27] /\ a \in Terminals
                                   /\ a \notin Shiftable[27]
        BY VocabularyIs DEF Lookaheads, Shiftable, Table, CommandFirst, RedirFirst, CommandEnd,
                            ListEnd, WordEnd
    <2>3. 27 \in States /\ YyDefAct[27] = 41
        BY DefaultsAre DEF States
    <2>4. QED
        BY <2>1, <2>2, <2>3, ElseDefault
<1>3. ASSUME NEW q \in States, Entry[q] = "here_end", NEW p \in Below[q]
      PROVE  \E s : /\ Along(p, <<"WORD">>, s)
                    /\ \A a \in Lookaheads[q] : a \in Lookaheads[s] /\ Action(s, a) = -41
    <2>1. q \in {28}
        BY <1>3, EnteredWith
    <2>2. q = 28 => p \in {10}
        BY DEF Below, Table, CommandStarts, RedirStarts, BreakStarts
    <2>3. QED
        BY <2>1, <2>2, <1>2
<1>4. QED
    BY <1>1, <1>3 DEF RuleFollows

\* Rule 42.
LEMMA Follows42 == RuleFollows(42)
<1>1. Rules[42].lhs = "newline_list" /\ Rhs[42] = <<"NEWLINE">>
    BY Rules40To45 DEF Shape, Rule
<1>2. ASSUME NEW p \in {0, 12, 34, 35, 36}
      PROVE  /\ Along(p, <<"NEWLINE">>, 1)
             /\ \A a \in Lookaheads[3] : a \in Lookaheads[1] /\ Action(1, a) = -42
    <2>1. Along(p, <<"NEWLINE">>, 1)
        BY TerminalsEnter, NonterminalsEnter DEF Along
    <2>2. \A a \in Lookaheads[3] : /\ a \in Lookaheads[1] /\ a \in Terminals
                                   /\ a \notin Shiftable[1]
        BY VocabularyIs DEF Lookaheads, Shiftable, Table, CommandFirst, RedirFirst, CommandEnd,
                            ListEnd, WordEnd
    <2>3. 1 \in States /\ YyDefAct[1] = 42
        BY DefaultsAre DEF States
    <2>4. QED
        BY <2>1, <2>2, <2>3, ElseDefault
<1>3. ASSUME NEW p \in {13}
      PROVE  /\ Along(p, <<"NEWLINE">>, 1)
             /\ \A a \in Lookaheads[32] : a \in Lookaheads[1] /\ Action(1, a) = -42
    <2>1. Along(p, <<"NEWLINE">>, 1)
        BY TerminalsEnter, NonterminalsEnter DEF Along
    <2>2. \A a \in Lookaheads[32] : /\ a \in Lookaheads[1] /\ a \in Terminals
                                   /\ a \notin Shiftable[1]
        BY VocabularyIs DEF Lookaheads, Shiftable, Table, CommandFirst, RedirFirst, CommandEnd,
                            ListEnd, WordEnd
    <2>3. 1 \in States /\ YyDefAct[1] = 42
        BY DefaultsAre DEF States
    <2>4. QED
        BY <2>1, <2>2, <2>3, ElseDefault
<1>4. ASSUME NEW p \in {47}
      PROVE  /\ Along(p, <<"NEWLINE">>, 1)
             /\ \A a \in Lookaheads[56] : a \in Lookaheads[1] /\ Action(1, a) = -42
    <2>1. Along(p, <<"NEWLINE">>, 1)
        BY TerminalsEnter, NonterminalsEnter DEF Along
    <2>2. \A a \in Lookaheads[56] : /\ a \in Lookaheads[1] /\ a \in Terminals
                                   /\ a \notin Shiftable[1]
        BY VocabularyIs DEF Lookaheads, Shiftable, Table, CommandFirst, RedirFirst, CommandEnd,
                            ListEnd, WordEnd
    <2>3. 1 \in States /\ YyDefAct[1] = 42
        BY DefaultsAre DEF States
    <2>4. QED
        BY <2>1, <2>2, <2>3, ElseDefault
<1>5. ASSUME NEW q \in States, Entry[q] = "newline_list", NEW p \in Below[q]
      PROVE  \E s : /\ Along(p, <<"NEWLINE">>, s)
                    /\ \A a \in Lookaheads[q] : a \in Lookaheads[s] /\ Action(s, a) = -42
    <2>1. q \in {3, 32, 56}
        BY <1>5, EnteredWith
    <2>2. q = 3 => p \in {0, 12, 34, 35, 36}
        BY DEF Below, Table, CommandStarts, RedirStarts, BreakStarts
    <2>3. q = 32 => p \in {13}
        BY DEF Below, Table, CommandStarts, RedirStarts, BreakStarts
    <2>4. q = 56 => p \in {47}
        BY DEF Below, Table, CommandStarts, RedirStarts, BreakStarts
    <2>5. QED
        BY <2>1, <2>2, <2>3, <2>4, <1>2, <1>3, <1>4
<1>6. QED
    BY <1>1, <1>5 DEF RuleFollows

\* Rule 43.
LEMMA Follows43 == RuleFollows(43)
<1>1. Rules[43].lhs = "newline_list" /\ Rhs[43] = <<"newline_list", "NEWLINE">>
    BY Rules40To45 DEF Shape, Rule
<1>2. ASSUME NEW p \in {0, 12, 34, 35, 36}
      PROVE  /\ Along(p, <<"newline_list", "NEWLINE">>, 6)
             /\ \A a \in Lookaheads[3] : a \in Lookaheads[6] /\ Action(6, a) = -43
    <2>1. Along(p, <<"newline_list", "NEWLINE">>, 6)
        BY TerminalsEnter, NonterminalsEnter DEF Along
    <2>2. \A a \in Lookaheads[3] : /\ a \in Lookaheads[6] /\ a \in Terminals
                                   /\ a \notin Shiftable[6]
        BY VocabularyIs DEF Lookaheads, Shiftable, Table, CommandFirst, RedirFirst, CommandEnd,
                            ListEnd, WordEnd
    <2>3. 6 \in States /\ YyDefAct[6] = 43
        BY DefaultsAre DEF States
    <2>4. QED
        BY <2>1, <2>2, <2>3, ElseDefault
<1>3. ASSUME NEW p \in {13}
      PROVE  /\ Along(p, <<"newline_list", "NEWLINE">>, 6)
             /\ \A a \in Lookaheads[32] : a \in Lookaheads[6] /\ Action(6, a) = -43
    <2>1. Along(p, <<"newline_list", "NEWLINE">>, 6)
        BY TerminalsEnter, NonterminalsEnter DEF Along
    <2>2. \A a \in Lookaheads[32] : /\ a \in Lookaheads[6] /\ a \in Terminals
                                   /\ a \notin Shiftable[6]
        BY VocabularyIs DEF Lookaheads, Shiftable, Table, CommandFirst, RedirFirst, CommandEnd,
                            ListEnd, WordEnd
    <2>3. 6 \in States /\ YyDefAct[6] = 43
        BY DefaultsAre DEF States
    <2>4. QED
        BY <2>1, <2>2, <2>3, ElseDefault
<1>4. ASSUME NEW p \in {47}
      PROVE  /\ Along(p, <<"newline_list", "NEWLINE">>, 6)
             /\ \A a \in Lookaheads[56] : a \in Lookaheads[6] /\ Action(6, a) = -43
    <2>1. Along(p, <<"newline_list", "NEWLINE">>, 6)
        BY TerminalsEnter, NonterminalsEnter DEF Along
    <2>2. \A a \in Lookaheads[56] : /\ a \in Lookaheads[6] /\ a \in Terminals
                                   /\ a \notin Shiftable[6]
        BY VocabularyIs DEF Lookaheads, Shiftable, Table, CommandFirst, RedirFirst, CommandEnd,
                            ListEnd, WordEnd
    <2>3. 6 \in States /\ YyDefAct[6] = 43
        BY DefaultsAre DEF States
    <2>4. QED
        BY <2>1, <2>2, <2>3, ElseDefault
<1>5. ASSUME NEW q \in States, Entry[q] = "newline_list", NEW p \in Below[q]
      PROVE  \E s : /\ Along(p, <<"newline_list", "NEWLINE">>, s)
                    /\ \A a \in Lookaheads[q] : a \in Lookaheads[s] /\ Action(s, a) = -43
    <2>1. q \in {3, 32, 56}
        BY <1>5, EnteredWith
    <2>2. q = 3 => p \in {0, 12, 34, 35, 36}
        BY DEF Below, Table, CommandStarts, RedirStarts, BreakStarts
    <2>3. q = 32 => p \in {13}
        BY DEF Below, Table, CommandStarts, RedirStarts, BreakStarts
    <2>4. q = 56 => p \in {47}
        BY DEF Below, Table, CommandStarts, RedirStarts, BreakStarts
    <2>5. QED
        BY <2>1, <2>2, <2>3, <2>4, <1>2, <1>3, <1>4
<1>6. QED
    BY <1>1, <1>5 DEF RuleFollows

\* Rule 44.
LEMMA Follows44 == RuleFollows(44)
<1>1. Rules[44].lhs = "linebreak" /\ Rhs[44] = <<"newline_list">>
    BY Rules40To45 DEF Shape, Rule
<1>2. ASSUME NEW p \in {0}
      PROVE  /\ Along(p, <<"newline_list">>, 3)
             /\ \A a \in Lookaheads[4] : a \in Lookaheads[3] /\ Action(3, a) = -44
    <2>1. Along(p, <<"newline_list">>, 3)
        BY TerminalsEnter, NonterminalsEnter DEF Along
    <2>2. \A a \in Lookaheads[4] : /\ a \in Lookaheads[3] /\ a \in Terminals
                                   /\ a \notin Shiftable[3]
        BY VocabularyIs DEF Lookaheads, Shiftable, Table, CommandFirst, RedirFirst, CommandEnd,
                            ListEnd, WordEnd
    <2>3. 3 \in States /\ YyDefAct[3] = 44
        BY DefaultsAre DEF States
    <2>4. QED
        BY <2>1, <2>2, <2>3, ElseDefault
<1>3. ASSUME NEW p \in {12}
      PROVE  /\ Along(p, <<"newline_list">>, 3)
             /\ \A a \in Lookaheads[31] : a \in Lookaheads[3] /\ Action(3, a) = -44
    <2>1. Along(p, <<"newline_list">>, 3)
        BY TerminalsEnter, NonterminalsEnter DEF Along
    <2>2. \A a \in Lookaheads[31] : /\ a \in Lookaheads[3] /\ a \in Terminals
                                   /\ a \notin Shiftable[3]
        BY VocabularyIs DEF Lookaheads, Shiftable, Table, CommandFirst, RedirFirst, CommandEnd,
                            ListEnd, WordEnd
    <2>3. 3 \in States /\ YyDefAct[3] = 44
        BY DefaultsAre DEF States
    <2>4. QED
        BY <2>1, <2>2, <2>3, ElseDefault
<1>4. ASSUME NEW p \in {13}
      PROVE  /\ Along(p, <<"newline_list">>, 32)
             /\ \A a \in Lookaheads[33] : a \in Lookaheads[32] /\ Action(32, a) = -44
    <2>1. Along(p, <<"newline_list">>, 32)
        BY TerminalsEnter, NonterminalsEnter DEF Along
    <2>2. \A a \in Lookaheads[33] : /\ a \in Lookaheads[32] /\ a \in Terminals
                                   /\ a \notin Shiftable[32]
        BY VocabularyIs DEF Lookaheads, Shiftable, Table, CommandFirst, RedirFirst, CommandEnd,
                            ListEnd, WordEnd
    <2>3. 32 \in States /\ YyDefAct[32] = 44
        BY DefaultsAre DEF States
    <2>4. QED
        BY <2>1, <2>2, <2>3, ElseDefault
<1>5. ASSUME NEW p \in {34}
      PROVE  /\ Along(p, <<"newline_list">>, 3)
             /\ \A a \in Lookaheads[49] : a \in Lookaheads[3] /\ Action(3, a) = -44
    <2>1. Along(p, <<"newline_list">>, 3)
        BY TerminalsEnter, NonterminalsEnter DEF Along
    <2>2. \A a \in Lookaheads[49] : /\ a \in Lookaheads[3] /\ a \in Terminals
                                   /\ a \notin Shiftable[3]
        BY VocabularyIs DEF Lookaheads, Shiftable, Table, CommandFirst, RedirFirst, CommandEnd,
                            ListEnd, WordEnd
    <2>3. 3 \in States /\ YyDefAct[3] = 44
        BY DefaultsAre DEF States
    <2>4. QED
        BY <2>1, <2>2, <2>3, ElseDefault
<1>6. ASSUME NEW p \in {35}
      PROVE  /\ Along(p, <<"newline_list">>, 3)
             /\ \A a \in Lookaheads[50] : a \in Lookaheads[3] /\ Action(3, a) = -44
    <2>1. Along(p, <<"newline_list">>, 3)
        BY TerminalsEnter, NonterminalsEnter DEF Along
    <2>2. \A a \in Lookaheads[50] : /\ a \in Lookaheads[3] /\ a \in Terminals
                                   /\ a \notin Shiftable[3]
        BY VocabularyIs DEF Lookaheads, Shiftable, Table, CommandFirst, RedirFirst, CommandEnd,
                            ListEnd, WordEnd
    <2>3. 3 \in States /\ YyDefAct[3] = 44
        BY DefaultsAre DEF States
    <2>4. QED
        BY <2>1, <2>2, <2>3, ElseDefault
<1>7. ASSUME NEW p \in {36}
      PROVE  /\ Along(p, <<"newline_list">>, 3)
             /\ \A a \in Lookaheads[51] : a \in Lookaheads[3] /\ Action(3, a) = -44
    <2>1. Along(p, <<"newline_list">>, 3)
        BY TerminalsEnter, NonterminalsEnter DEF Along
    <2>2. \A a \in Lookaheads[51] : /\ a \in Lookaheads[3] /\ a \in Terminals
                                   /\ a \notin Shiftable[3]
        BY VocabularyIs DEF Lookaheads, Shiftable, Table, CommandFirst, RedirFirst, CommandEnd,
                            ListEnd, WordEnd
    <2>3. 3 \in States /\ YyDefAct[3] = 44
        BY DefaultsAre DEF States
    <2>4. QED
        BY <2>1, <2>2, <2>3, ElseDefault
<1>8. ASSUME NEW q \in States, Entry[q] = "linebreak", NEW p \in Below[q]
      PROVE  \E s : /\ Along(p, <<"newline_list">>, s)
                    /\ \A a \in Lookaheads[q] : a \in Lookaheads[s] /\ Action(s, a) = -44
    <2>1. q \in {4, 31, 33, 49, 50, 51}
        BY <1>8, EnteredWith
    <2>2. q = 4 => p \in {0}
        BY DEF Below, Table, CommandStarts, RedirStarts, BreakStarts
    <2>3. q = 31 => p \in {12}
        BY DEF Below, Table, CommandStarts, RedirStarts, BreakStarts
    <2>4. q = 33 => p \in {13}
        BY DEF Below, Table, CommandStarts, RedirStarts, BreakStarts
    <2>5. q = 49 => p \in {34}
        BY DEF Below, Table, CommandStarts, RedirStarts, BreakStarts
    <2>6. q = 50 => p \in {35}
        BY DEF Below, Table, CommandStarts, RedirStarts, BreakStarts
    <2>7. q = 51 => p \in {36}
        BY DEF Below, Table, CommandStarts, RedirStarts, BreakStarts
    <2>8. QED
        BY <2>1, <2>2, <2>3, <2>4, <2>5, <2>6, <2>7, <1>2, <1>3, <1>4, <1>5, <1>6, <1>7
<1>9. QED
    BY <1>1, <1>8 DEF RuleFollows

\* Rule 45.
LEMMA Follows45 == RuleFollows(45)
<1>1. Rules[45].lhs = "linebreak" /\ Rhs[45] = << >>
    BY Rules40To45 DEF Shape, Rule
<1>2. ASSUME NEW p \in {0}
      PROVE  /\ Along(p, << >>, 0)
             /\ \A a \in Lookaheads[4] : a \in Lookaheads[0] /\ Action(0, a) = -45
    <2>1. Along(p, << >>, 0)
        BY TerminalsEnter, NonterminalsEnter DEF Along
    <2>2. \A a \in Lookaheads[4] : /\ a \in Lookaheads[0] /\ a \in Terminals
                                   /\ a \notin Shiftable[0]
        BY VocabularyIs DEF Lookaheads, Shiftable, Table, CommandFirst, RedirFirst, CommandEnd,
                            ListEnd, WordEnd
    <2>3. 0 \in States /\ YyDefAct[0] = 45
        BY DefaultsAre DEF States
    <2>4. QED
        BY <2>1, <2>2, <2>3, ElseDefault
<1>3. ASSUME NEW p \in {12}
      PROVE  /\ Along(p, << >>, 12)
             /\ \A a \in Lookaheads[31] : a \in Lookaheads[12] /\ Action(12, a) = -45
    <2>1. Along(p, << >>, 12)
        BY TerminalsEnter, NonterminalsEnter DEF Along
    <2>2. \A a \in Lookaheads[31] : /\ a \in Lookaheads[12] /\ a \in Terminals
                                   /\ a \notin Shiftable[12]
        BY VocabularyIs DEF Lookaheads, Shiftable, Table, CommandFirst, RedirFirst, CommandEnd,
                            ListEnd, WordEnd
    <2>3. 12 \in States /\ YyDefAct[12] = 45
        BY DefaultsAre DEF States
    <2>4. QED
        BY <2>1, <2>2, <2>3, ElseDefault
<1>4. ASSUME NEW p \in {13}
      PROVE  /\ Along(p, << >>, 13)
             /\ \A a \in Lookaheads[33] : a \in Lookaheads[13] /\ Action(13, a) = -45
    <2>1. Along(p, << >>, 13)
        BY TerminalsEnter, NonterminalsEnter DEF Along
    <2>2. \A a \in Lookaheads[33] : /\ a \in Lookaheads[13] /\ a \in Terminals
                                   /\ a \notin Shiftable[13]
        BY VocabularyIs DEF Lookaheads, Shiftable, Table, CommandFirst, RedirFirst, CommandEnd,
                            ListEnd, WordEnd
    <2>3. 13 \in States /\ YyDefAct[13] = 45
        BY DefaultsAre DEF States
    <2>4. QED
        BY <2>1, <2>2, <2>3, ElseDefault
<1>5. ASSUME NEW p \in {34}
      PROVE  /\ Along(p, << >>, 34)
             /\ \A a \in Lookaheads[49] : a \in Lookaheads[34] /\ Action(34, a) = -45
    <2>1. Along(p, << >>, 34)
        BY TerminalsEnter, NonterminalsEnter DEF Along
    <2>2. \A a \in Lookaheads[49] : /\ a \in Lookaheads[34] /\ a \in Terminals
                                   /\ a \notin Shiftable[34]
        BY VocabularyIs DEF Lookaheads, Shiftable, Table, CommandFirst, RedirFirst, CommandEnd,
                            ListEnd, WordEnd
    <2>3. 34 \in States /\ YyDefAct[34] = 45
        BY DefaultsAre DEF States
    <2>4. QED
        BY <2>1, <2>2, <2>3, ElseDefault
<1>6. ASSUME NEW p \in {35}
      PROVE  /\ Along(p, << >>, 35)
             /\ \A a \in Lookaheads[50] : a \in Lookaheads[35] /\ Action(35, a) = -45
    <2>1. Along(p, << >>, 35)
        BY TerminalsEnter, NonterminalsEnter DEF Along
    <2>2. \A a \in Lookaheads[50] : /\ a \in Lookaheads[35] /\ a \in Terminals
                                   /\ a \notin Shiftable[35]
        BY VocabularyIs DEF Lookaheads, Shiftable, Table, CommandFirst, RedirFirst, CommandEnd,
                            ListEnd, WordEnd
    <2>3. 35 \in States /\ YyDefAct[35] = 45
        BY DefaultsAre DEF States
    <2>4. QED
        BY <2>1, <2>2, <2>3, ElseDefault
<1>7. ASSUME NEW p \in {36}
      PROVE  /\ Along(p, << >>, 36)
             /\ \A a \in Lookaheads[51] : a \in Lookaheads[36] /\ Action(36, a) = -45
    <2>1. Along(p, << >>, 36)
        BY TerminalsEnter, NonterminalsEnter DEF Along
    <2>2. \A a \in Lookaheads[51] : /\ a \in Lookaheads[36] /\ a \in Terminals
                                   /\ a \notin Shiftable[36]
        BY VocabularyIs DEF Lookaheads, Shiftable, Table, CommandFirst, RedirFirst, CommandEnd,
                            ListEnd, WordEnd
    <2>3. 36 \in States /\ YyDefAct[36] = 45
        BY DefaultsAre DEF States
    <2>4. QED
        BY <2>1, <2>2, <2>3, ElseDefault
<1>8. ASSUME NEW q \in States, Entry[q] = "linebreak", NEW p \in Below[q]
      PROVE  \E s : /\ Along(p, << >>, s)
                    /\ \A a \in Lookaheads[q] : a \in Lookaheads[s] /\ Action(s, a) = -45
    <2>1. q \in {4, 31, 33, 49, 50, 51}
        BY <1>8, EnteredWith
    <2>2. q = 4 => p \in {0}
        BY DEF Below, Table, CommandStarts, RedirStarts, BreakStarts
    <2>3. q = 31 => p \in {12}
        BY DEF Below, Table, CommandStarts, RedirStarts, BreakStarts
    <2>4. q = 33 => p \in {13}
        BY DEF Below, Table, CommandStarts, RedirStarts, BreakStarts
    <2>5. q = 49 => p \in {34}
        BY DEF Below, Table, CommandStarts, RedirStarts, BreakStarts
    <2>6. q = 50 => p \in {35}
        BY DEF Below, Table, CommandStarts, RedirStarts, BreakStarts
    <2>7. q = 51 => p \in {36}
        BY DEF Below, Table, CommandStarts, RedirStarts, BreakStarts
    <2>8. QED
        BY <2>1, <2>2, <2>3, <2>4, <2>5, <2>6, <2>7, <1>2, <1>3, <1>4, <1>5, <1>6, <1>7
<1>9. QED
    BY <1>1, <1>8 DEF RuleFollows

\* Every rule is so.
LEMMA RulesFollow == \A r \in 2 .. 45 : RuleFollows(r)
BY Follows2, Follows3, Follows4, Follows5, Follows6, Follows7, Follows8, Follows9, Follows10,
   Follows11, Follows12, Follows13, Follows14, Follows15, Follows16, Follows17, Follows18,
   Follows19, Follows20, Follows21, Follows22, Follows23, Follows24, Follows25, Follows26,
   Follows27, Follows28, Follows29, Follows30, Follows31, Follows32, Follows33, Follows34,
   Follows35, Follows36, Follows37, Follows38, Follows39, Follows40, Follows41, Follows42,
   Follows43, Follows44, Follows45

--------------------------------------------------------------------------------
(* The rules are the productions                                                *)

\* Every production is a rule ...
LEMMA RuleOfProduction ==
    ASSUME NEW A \in Nonterminals, NEW rhs \in Productions[A]
    PROVE  \E r \in 2 .. 45 : Rules[r].lhs = A /\ Rhs[r] = rhs
<1> DEFINE Is(B, w) == \E r \in 2 .. 45 : Rules[r].lhs = B /\ Rhs[r] = w
<1>1. ASSUME NEW w \in Productions["program"] PROVE Is("program", w)
    <2>1. \/ w = <<"linebreak", "complete_commands", "linebreak">>
          \/ w = <<"linebreak">>
        BY DEF Productions
    <2>2. /\ Rules[2].lhs = "program" /\ Rhs[2] = <<"linebreak", "complete_commands", "linebreak">>
          /\ Rules[3].lhs = "program" /\ Rhs[3] = <<"linebreak">>
        BY Rules2To11 DEF Shape, Rule
    <2>3. QED
        BY ONLY <2>1, <2>2
<1>2. ASSUME NEW w \in Productions["complete_commands"] PROVE Is("complete_commands", w)
    <2>1. \/ w = <<"complete_commands", "newline_list", "and_or">>
          \/ w = <<"and_or">>
        BY DEF Productions
    <2>2. /\ Rules[4].lhs = "complete_commands"
          /\ Rhs[4] = <<"complete_commands", "newline_list", "and_or">>
          /\ Rules[5].lhs = "complete_commands" /\ Rhs[5] = <<"and_or">>
        BY Rules2To11 DEF Shape, Rule
    <2>3. QED
        BY ONLY <2>1, <2>2
<1>3. ASSUME NEW w \in Productions["and_or"] PROVE Is("and_or", w)
    <2>1. \/ w = <<"pipeline">>
          \/ w = <<"and_or", "AND_IF", "linebreak", "pipeline">>
          \/ w = <<"and_or", "OR_IF", "linebreak", "pipeline">>
        BY DEF Productions
    <2>2. /\ Rules[6].lhs = "and_or" /\ Rhs[6] = <<"pipeline">>
          /\ Rules[7].lhs = "and_or" /\ Rhs[7] = <<"and_or", "AND_IF", "linebreak", "pipeline">>
          /\ Rules[8].lhs = "and_or" /\ Rhs[8] = <<"and_or", "OR_IF", "linebreak", "pipeline">>
        BY Rules2To11 DEF Shape, Rule
    <2>3. QED
        BY ONLY <2>1, <2>2
<1>4. ASSUME NEW w \in Productions["pipeline"] PROVE Is("pipeline", w)
    <2>1. \/ w = <<"command">>
          \/ w = <<"pipeline", "PIPE", "linebreak", "command">>
        BY DEF Productions
    <2>2. /\ Rules[9].lhs = "pipeline" /\ Rhs[9] = <<"command">>
          /\ Rules[10].lhs = "pipeline" /\ Rhs[10] = <<"pipeline", "PIPE", "linebreak", "command">>
        BY Rules2To11 DEF Shape, Rule
    <2>3. QED
        BY ONLY <2>1, <2>2
<1>5. ASSUME NEW w \in Productions["command"] PROVE Is("command", w)
    <2>1. \/ w = <<"simple_command">>
          \/ w = <<"subshell">>
          \/ w = <<"subshell", "redirect_list">>
        BY DEF Productions
    <2>2. /\ Rules[11].lhs = "command" /\ Rhs[11] = <<"simple_command">>
          /\ Rules[12].lhs = "command" /\ Rhs[12] = <<"subshell">>
          /\ Rules[13].lhs = "command" /\ Rhs[13] = <<"subshell", "redirect_list">>
        BY Rules12To21, Rules2To11 DEF Shape, Rule
    <2>3. QED
        BY ONLY <2>1, <2>2
<1>6. ASSUME NEW w \in Productions["subshell"] PROVE Is("subshell", w)
    <2>1. w = <<"OPAR", "compound_list", "CPAR">>
        BY DEF Productions
    <2>2. /\ Rules[14].lhs = "subshell" /\ Rhs[14] = <<"OPAR", "compound_list", "CPAR">>
        BY Rules12To21 DEF Shape, Rule
    <2>3. QED
        BY ONLY <2>1, <2>2
<1>7. ASSUME NEW w \in Productions["compound_list"] PROVE Is("compound_list", w)
    <2>1. \/ w = <<"linebreak", "term">>
          \/ w = <<"linebreak", "term", "newline_list">>
        BY DEF Productions
    <2>2. /\ Rules[15].lhs = "compound_list" /\ Rhs[15] = <<"linebreak", "term">>
          /\ Rules[16].lhs = "compound_list" /\ Rhs[16] = <<"linebreak", "term", "newline_list">>
        BY Rules12To21 DEF Shape, Rule
    <2>3. QED
        BY ONLY <2>1, <2>2
<1>8. ASSUME NEW w \in Productions["term"] PROVE Is("term", w)
    <2>1. \/ w = <<"term", "newline_list", "and_or">>
          \/ w = <<"and_or">>
        BY DEF Productions
    <2>2. /\ Rules[17].lhs = "term" /\ Rhs[17] = <<"term", "newline_list", "and_or">>
          /\ Rules[18].lhs = "term" /\ Rhs[18] = <<"and_or">>
        BY Rules12To21 DEF Shape, Rule
    <2>3. QED
        BY ONLY <2>1, <2>2
<1>9. ASSUME NEW w \in Productions["simple_command"] PROVE Is("simple_command", w)
    <2>1. \/ w = <<"cmd_prefix", "cmd_word", "cmd_suffix">>
          \/ w = <<"cmd_prefix", "cmd_word">>
          \/ w = <<"cmd_prefix">>
          \/ w = <<"cmd_name", "cmd_suffix">>
          \/ w = <<"cmd_name">>
        BY DEF Productions
    <2>2. /\ Rules[19].lhs = "simple_command" /\ Rhs[19] = <<"cmd_prefix", "cmd_word", "cmd_suffix">>
          /\ Rules[20].lhs = "simple_command" /\ Rhs[20] = <<"cmd_prefix", "cmd_word">>
          /\ Rules[21].lhs = "simple_command" /\ Rhs[21] = <<"cmd_prefix">>
          /\ Rules[22].lhs = "simple_command" /\ Rhs[22] = <<"cmd_name", "cmd_suffix">>
          /\ Rules[23].lhs = "simple_command" /\ Rhs[23] = <<"cmd_name">>
        BY Rules12To21, Rules22To31 DEF Shape, Rule
    <2>3. QED
        BY ONLY <2>1, <2>2
<1>10. ASSUME NEW w \in Productions["cmd_name"] PROVE Is("cmd_name", w)
    <2>1. w = <<"WORD">>
        BY DEF Productions
    <2>2. /\ Rules[24].lhs = "cmd_name" /\ Rhs[24] = <<"WORD">>
        BY Rules22To31 DEF Shape, Rule
    <2>3. QED
        BY ONLY <2>1, <2>2
<1>11. ASSUME NEW w \in Productions["cmd_word"] PROVE Is("cmd_word", w)
    <2>1. w = <<"WORD">>
        BY DEF Productions
    <2>2. /\ Rules[25].lhs = "cmd_word" /\ Rhs[25] = <<"WORD">>
        BY Rules22To31 DEF Shape, Rule
    <2>3. QED
        BY ONLY <2>1, <2>2
<1>12. ASSUME NEW w \in Productions["cmd_prefix"] PROVE Is("cmd_prefix", w)
    <2>1. \/ w = <<"io_redirect">>
          \/ w = <<"cmd_prefix", "io_redirect">>
        BY DEF Productions
    <2>2. /\ Rules[26].lhs = "cmd_prefix" /\ Rhs[26] = <<"io_redirect">>
          /\ Rules[27].lhs = "cmd_prefix" /\ Rhs[27] = <<"cmd_prefix", "io_redirect">>
        BY Rules22To31 DEF Shape, Rule
    <2>3. QED
        BY ONLY <2>1, <2>2
<1>13. ASSUME NEW w \in Productions["cmd_suffix"] PROVE Is("cmd_suffix", w)
    <2>1. \/ w = <<"io_redirect">>
          \/ w = <<"cmd_suffix", "io_redirect">>
          \/ w = <<"WORD">>
          \/ w = <<"cmd_suffix", "WORD">>
        BY DEF Productions
    <2>2. /\ Rules[28].lhs = "cmd_suffix" /\ Rhs[28] = <<"io_redirect">>
          /\ Rules[29].lhs = "cmd_suffix" /\ Rhs[29] = <<"cmd_suffix", "io_redirect">>
          /\ Rules[30].lhs = "cmd_suffix" /\ Rhs[30] = <<"WORD">>
          /\ Rules[31].lhs = "cmd_suffix" /\ Rhs[31] = <<"cmd_suffix", "WORD">>
        BY Rules22To31 DEF Shape, Rule
    <2>3. QED
        BY ONLY <2>1, <2>2
<1>14. ASSUME NEW w \in Productions["redirect_list"] PROVE Is("redirect_list", w)
    <2>1. \/ w = <<"io_redirect">>
          \/ w = <<"redirect_list", "io_redirect">>
        BY DEF Productions
    <2>2. /\ Rules[32].lhs = "redirect_list" /\ Rhs[32] = <<"io_redirect">>
          /\ Rules[33].lhs = "redirect_list" /\ Rhs[33] = <<"redirect_list", "io_redirect">>
        BY Rules32To39 DEF Shape, Rule
    <2>3. QED
        BY ONLY <2>1, <2>2
<1>15. ASSUME NEW w \in Productions["io_redirect"] PROVE Is("io_redirect", w)
    <2>1. \/ w = <<"io_file">>
          \/ w = <<"io_here">>
        BY DEF Productions
    <2>2. /\ Rules[34].lhs = "io_redirect" /\ Rhs[34] = <<"io_file">>
          /\ Rules[35].lhs = "io_redirect" /\ Rhs[35] = <<"io_here">>
        BY Rules32To39 DEF Shape, Rule
    <2>3. QED
        BY ONLY <2>1, <2>2
<1>16. ASSUME NEW w \in Productions["io_file"] PROVE Is("io_file", w)
    <2>1. \/ w = <<"LESS", "filename">>
          \/ w = <<"GREAT", "filename">>
          \/ w = <<"DGREAT", "filename">>
        BY DEF Productions
    <2>2. /\ Rules[36].lhs = "io_file" /\ Rhs[36] = <<"LESS", "filename">>
          /\ Rules[37].lhs = "io_file" /\ Rhs[37] = <<"GREAT", "filename">>
          /\ Rules[38].lhs = "io_file" /\ Rhs[38] = <<"DGREAT", "filename">>
        BY Rules32To39 DEF Shape, Rule
    <2>3. QED
        BY ONLY <2>1, <2>2
<1>17. ASSUME NEW w \in Productions["filename"] PROVE Is("filename", w)
    <2>1. w = <<"WORD">>
        BY DEF Productions
    <2>2. /\ Rules[39].lhs = "filename" /\ Rhs[39] = <<"WORD">>
        BY Rules32To39 DEF Shape, Rule
    <2>3. QED
        BY ONLY <2>1, <2>2
<1>18. ASSUME NEW w \in Productions["io_here"] PROVE Is("io_here", w)
    <2>1. w = <<"DLESS", "here_end">>
        BY DEF Productions
    <2>2. /\ Rules[40].lhs = "io_here" /\ Rhs[40] = <<"DLESS", "here_end">>
        BY Rules40To45 DEF Shape, Rule
    <2>3. QED
        BY ONLY <2>1, <2>2
<1>19. ASSUME NEW w \in Productions["here_end"] PROVE Is("here_end", w)
    <2>1. w = <<"WORD">>
        BY DEF Productions
    <2>2. /\ Rules[41].lhs = "here_end" /\ Rhs[41] = <<"WORD">>
        BY Rules40To45 DEF Shape, Rule
    <2>3. QED
        BY ONLY <2>1, <2>2
<1>20. ASSUME NEW w \in Productions["newline_list"] PROVE Is("newline_list", w)
    <2>1. \/ w = <<"NEWLINE">>
          \/ w = <<"newline_list", "NEWLINE">>
        BY DEF Productions
    <2>2. /\ Rules[42].lhs = "newline_list" /\ Rhs[42] = <<"NEWLINE">>
          /\ Rules[43].lhs = "newline_list" /\ Rhs[43] = <<"newline_list", "NEWLINE">>
        BY Rules40To45 DEF Shape, Rule
    <2>3. QED
        BY ONLY <2>1, <2>2
<1>21. ASSUME NEW w \in Productions["linebreak"] PROVE Is("linebreak", w)
    <2>1. \/ w = <<"newline_list">>
          \/ w = << >>
        BY DEF Productions
    <2>2. /\ Rules[44].lhs = "linebreak" /\ Rhs[44] = <<"newline_list">>
          /\ Rules[45].lhs = "linebreak" /\ Rhs[45] = << >>
        BY Rules40To45 DEF Shape, Rule
    <2>3. 44 \in 2 .. 45 /\ 45 \in 2 .. 45
        OBVIOUS
    <2>4. QED
        BY ONLY <2>1, <2>2, <2>3, Zenon
<1> HIDE DEF Is
<1>22. \A B \in Nonterminals : \A w \in Productions[B] : Is(B, w)
    BY VocabularyIs, <1>1, <1>2, <1>3, <1>4, <1>5, <1>6, <1>7, <1>8, <1>9, <1>10, <1>11, <1>12,
       <1>13, <1>14, <1>15, <1>16, <1>17, <1>18, <1>19, <1>20, <1>21
<1>23. QED
    BY <1>22 DEF Is

\* ... and every rule a production.
LEMMA ProductionOfRule ==
    ASSUME NEW r \in 2 .. 45
    PROVE  Rules[r].lhs \in Nonterminals /\ Rhs[r] \in Productions[Rules[r].lhs]
<1> DEFINE Is(i) == Rules[i].lhs \in Nonterminals /\ Rhs[i] \in Productions[Rules[i].lhs]
<1>1. Is(2) /\ Is(3) /\ Is(4) /\ Is(5) /\ Is(6) /\ Is(7) /\ Is(8) /\ Is(9) /\ Is(10) /\ Is(11)
    BY VocabularyIs, Rules2To11 DEF Shape, Rule, Productions
<1>2. Is(12) /\ Is(13) /\ Is(14) /\ Is(15) /\ Is(16) /\ Is(17) /\ Is(18) /\ Is(19) /\ Is(20) /\ Is(21)
    BY VocabularyIs, Rules12To21 DEF Shape, Rule, Productions
<1>3. Is(22) /\ Is(23) /\ Is(24) /\ Is(25) /\ Is(26) /\ Is(27) /\ Is(28) /\ Is(29) /\ Is(30) /\ Is(31)
    BY VocabularyIs, Rules22To31 DEF Shape, Rule, Productions
<1>4. Is(32) /\ Is(33) /\ Is(34) /\ Is(35) /\ Is(36) /\ Is(37) /\ Is(38) /\ Is(39)
    BY VocabularyIs, Rules32To39 DEF Shape, Rule, Productions
<1>5. Is(40) /\ Is(41) /\ Is(42) /\ Is(43) /\ Is(44) /\ Is(45)
    BY VocabularyIs, Rules40To45 DEF Shape, Rule, Productions
<1> HIDE DEF Is
<1>6. \A i \in 2 .. 45 : Is(i)
    BY <1>1, <1>2, <1>3, <1>4, <1>5
<1>7. QED
    BY <1>6 DEF Is

--------------------------------------------------------------------------------
(* Where a form leads                                                           *)

\* The states that are passed by the symbols of form, from the first.
Trail(form, s) ==
    /\ s \in [0 .. Len(form) -> States] /\ s[0] = 0
    /\ \A i \in 1 .. Len(form) : Enters(s[i - 1], form[i], s[i])

\* The symbols of form lead to state q.
At(form, q) == \E s : Trail(form, s) /\ s[Len(form)] = q

\* They pass the same states each time.
LEMMA TrailsAgree ==
    ASSUME NEW form \in Seq(Vocabulary), NEW s, NEW u, Trail(form, s), Trail(form, u)
    PROVE  s[Len(form)] = u[Len(form)]
<1> DEFINE Same == {i \in 0 .. Len(form) : s[i] = u[i]}
<1>1. Len(form) \in Nat
    OBVIOUS
<1>2. 0 \in Same
    BY <1>1 DEF Trail
<1>3. ASSUME NEW n \in 1 .. Len(form), n - 1 \in Same PROVE n \in Same
    <2>1. Turn(s[n - 1], form[n]) = s[n] /\ Turn(u[n - 1], form[n]) = u[n]
        BY DEF Trail, Enters
    <2>2. QED
        BY <1>1, <1>3, <2>1
<1> HIDE DEF Same
<1>4. \A n \in 0 .. Len(form) : n \in Same
    BY ONLY <1>1, <1>2, <1>3, UpTo
<1>5. Len(form) \in Same
    BY <1>1, <1>4
<1>6. QED
    BY <1>5 DEF Same

\* So there is one state a form leads to.
LEMMA AtOne ==
    ASSUME NEW form \in Seq(Vocabulary), NEW q, NEW u, At(form, q), At(form, u)
    PROVE  q = u
BY TrailsAgree DEF At

\* It is one of the automaton.
LEMMA AtState ==
    ASSUME NEW form \in Seq(Vocabulary), NEW q, At(form, q)
    PROVE  q \in States
BY DEF At, Trail

\* Nothing leads nowhere.
LEMMA AtNil == At(Nil, 0)
<1> DEFINE s == [i \in 0 .. 0 |-> 0]
<1>1. Len(Nil) = 0
    BY DEF Nil
<1>2. Trail(Nil, s)
    BY <1>1 DEF Trail, States
<1>3. QED
    BY <1>1, <1>2 DEF At

\* One symbol more.
LEMMA AtMore ==
    ASSUME NEW form \in Seq(Vocabulary), NEW x \in Vocabulary, NEW p, NEW q, At(form, p),
           Enters(p, x, q)
    PROVE  At(Append(form, x), q)
<1>1. PICK s : Trail(form, s) /\ s[Len(form)] = p
    BY DEF At
<1>2. PICK g : g = Append(form, x)
    OBVIOUS
<1>3. /\ Len(form) \in Nat /\ Len(g) = Len(form) + 1 /\ g[Len(form) + 1] = x
      /\ \A i \in 1 .. Len(form) : g[i] = form[i]
    BY <1>2
<1> DEFINE u == [i \in 0 .. Len(g) |-> IF i = Len(g) THEN q ELSE s[i]]
<1>4. q \in States
    BY DEF Enters, Leads
<1>5. u \in [0 .. Len(g) -> States] /\ u[0] = 0 /\ u[Len(g)] = q
    BY <1>1, <1>3, <1>4 DEF Trail
<1>6. ASSUME NEW i \in 1 .. Len(g) PROVE Enters(u[i - 1], g[i], u[i])
    <2>1. CASE i = Len(g)
        <3>1. u[i - 1] = p /\ u[i] = q /\ g[i] = x
            BY <1>1, <1>3, <2>1
        <3>2. QED
            BY <3>1
    <2>2. CASE i # Len(g)
        <3>1. i \in 1 .. Len(form) /\ u[i - 1] = s[i - 1] /\ u[i] = s[i] /\ g[i] = form[i]
            BY <1>3, <2>2
        <3>2. QED
            BY <1>1, <3>1 DEF Trail
    <2>3. QED
        BY <2>1, <2>2
<1> HIDE DEF u
<1>7. Trail(g, u)
    BY <1>5, <1>6 DEF Trail
<1>8. At(g, q)
    BY <1>5, <1>7 DEF At
<1>9. QED
    BY <1>2, <1>8, Zenon

\* One symbol less.
LEMMA AtLess ==
    ASSUME NEW form \in Seq(Vocabulary), NEW x \in Vocabulary, NEW q, At(Append(form, x), q)
    PROVE  \E p : At(form, p) /\ Enters(p, x, q)
<1>1. PICK g : g = Append(form, x)
    OBVIOUS
<1>2. PICK s : Trail(g, s) /\ s[Len(g)] = q
    BY <1>1, Zenon DEF At
<1>3. /\ Len(form) \in Nat /\ Len(g) = Len(form) + 1 /\ g[Len(form) + 1] = x
      /\ \A i \in 1 .. Len(form) : g[i] = form[i]
    BY <1>1
<1> DEFINE u == [i \in 0 .. Len(form) |-> s[i]]
<1>4. u \in [0 .. Len(form) -> States] /\ u[0] = 0 /\ u[Len(form)] = s[Len(form)]
    BY <1>2, <1>3 DEF Trail
<1>5. ASSUME NEW i \in 1 .. Len(form) PROVE Enters(u[i - 1], form[i], u[i])
    <2>1. i \in 1 .. Len(g) /\ u[i - 1] = s[i - 1] /\ u[i] = s[i] /\ g[i] = form[i]
        BY <1>3
    <2>2. QED
        BY <1>2, <2>1 DEF Trail
<1> HIDE DEF u
<1>6. At(form, s[Len(form)])
    BY <1>4, <1>5 DEF At, Trail
<1>7. Len(g) \in 1 .. Len(g) /\ Len(g) - 1 = Len(form)
    BY <1>3
<1>8. Enters(s[Len(form)], x, q)
    BY <1>2, <1>3, <1>7 DEF Trail
<1>9. QED
    BY <1>6, <1>8

\* No symbol leads back to where the stack is empty.
LEMMA NothingAtStart ==
    ASSUME NEW form \in Seq(Vocabulary), NEW q, At(form, q), q = 0
    PROVE  form = Nil
<1>1. CASE form = Nil
    BY <1>1
<1>2. CASE form # Nil
    <2>1. PICK g \in Seq(Vocabulary), x \in Vocabulary : form = Append(g, x)
        BY <1>2, SequenceEmptyOrAppend DEF Nil
    <2>2. PICK p : Enters(p, x, q)
        BY <2>1, AtLess
    <2>3. p \in Below[0]
        BY <2>2 DEF Enters, Leads
    <2>4. FALSE
        BY <2>3 DEF Below, Table
    <2>5. QED
        BY <2>4
<1>3. QED
    BY <1>1, <1>2

\* The last symbol of a form, and the state before it.
LEMMA AtLast ==
    ASSUME NEW form \in Seq(Vocabulary), NEW q, At(form, q), q # 0
    PROVE  \E g \in Seq(Vocabulary) : \E p :
                /\ Entry[q] \in Vocabulary /\ form = Append(g, Entry[q])
                /\ At(g, p) /\ p \in Below[q] /\ Enters(p, Entry[q], q)
<1>1. CASE form = Nil
    <2>1. Nil \in Seq(Vocabulary)
        BY <1>1
    <2>2. At(Nil, q)
        BY <1>1
    <2>3. q = 0
        BY <2>1, <2>2, AtNil, AtOne
    <2>4. QED
        BY <2>3
<1>2. CASE form # Nil
    <2>1. PICK g \in Seq(Vocabulary), x \in Vocabulary : form = Append(g, x)
        BY <1>2, SequenceEmptyOrAppend DEF Nil
    <2>2. At(Append(g, x), q)
        BY <2>1, Zenon
    <2>3. PICK p : At(g, p) /\ Enters(p, x, q)
        BY <2>2, AtLess
    <2>4. p \in Below[q] /\ Entry[q] = x
        BY <2>3 DEF Enters, Leads
    <2>5. form = Append(g, Entry[q])
        BY <2>1, <2>4, Zenon
    <2>6. Enters(p, Entry[q], q)
        BY <2>3, <2>4
    <2>7. QED
        BY <2>1, <2>3, <2>4, <2>5, <2>6, Zenon
<1>3. QED
    BY <1>1, <1>2

--------------------------------------------------------------------------------
(* Forms that are joined to a right-hand side                                   *)

\* A symbol after what is joined.
LEMMA JoinedMore ==
    ASSUME NEW X, NEW g \in Seq(X), NEW v \in Seq(X), NEW x \in X
    PROVE  Joined(g, Append(v, x)) = Append(Joined(g, v), x)
<1>1. PICK w \in Seq(X) : w = Append(v, x)
    BY AppendProperties
<1>2. Len(w) = Len(v) + 1 /\ w[Len(v) + 1] = x /\ \A i \in 1 .. Len(v) : w[i] = v[i]
    BY <1>1, Longer
<1>3. PICK a \in Seq(X) : a = Joined(g, w)
    BY ConcatProperties DEF Joined
<1>4. /\ Len(a) = Len(g) + Len(w)
      /\ \A i \in 1 .. Len(g) + Len(w) : a[i] = IF i <= Len(g) THEN g[i] ELSE w[i - Len(g)]
    BY <1>3, ConcatProperties, Zenon DEF Joined
<1>5. PICK b \in Seq(X) : b = Joined(g, v)
    BY ConcatProperties DEF Joined
<1>6. /\ Len(b) = Len(g) + Len(v)
      /\ \A i \in 1 .. Len(g) + Len(v) : b[i] = IF i <= Len(g) THEN g[i] ELSE v[i - Len(g)]
    BY <1>5, ConcatProperties, Zenon DEF Joined
<1>7. PICK c \in Seq(X) : c = Append(b, x)
    BY AppendProperties
<1>8. Len(c) = Len(b) + 1 /\ c[Len(b) + 1] = x /\ \A i \in 1 .. Len(b) : c[i] = b[i]
    BY <1>7, Longer
<1>9. Len(g) \in Nat /\ Len(v) \in Nat
    OBVIOUS
<1>14. \A x1, x2 \in Nat : \A k \in 1 .. (x1 + x2) + 1 : k # (x1 + x2) + 1 => k \in 1 .. x1 + x2
    OBVIOUS
<1>10. Len(a) = Len(c)
    BY <1>2, <1>4, <1>6, <1>8
<1>11. ASSUME NEW i \in 1 .. Len(a) PROVE a[i] = c[i]
    <2>1. CASE i = Len(a)
        <3>1. Len(a) = Len(g) + (Len(v) + 1) /\ Len(b) = Len(g) + Len(v)
            BY <1>2, <1>4, <1>6
        <3>2. i = Len(g) + (Len(v) + 1)
            BY ONLY <2>1, <3>1
        <3>3. i - Len(g) = Len(v) + 1 /\ ~(i <= Len(g)) /\ i = Len(b) + 1
            BY ONLY <1>9, <3>1, <3>2
        <3>4. i \in 1 .. Len(g) + Len(w)
            BY <1>4
        <3>5. QED
            BY ONLY <1>2, <1>4, <1>8, <3>3, <3>4, Zenon
    <2>2. CASE i # Len(a)
        <3>4. Len(a) = (Len(g) + Len(v)) + 1 /\ Len(b) = Len(g) + Len(v)
              /\ Len(a) = Len(g) + Len(w)
            BY <1>2, <1>4, <1>6
        <3>5. i \in 1 .. (Len(g) + Len(v)) + 1 /\ i # (Len(g) + Len(v)) + 1
            BY <3>4, <2>2, Zenon
        <3>6. i \in 1 .. Len(g) + Len(v)
            BY <1>9, <1>14, <3>5, Zenon
        <3>1. i \in 1 .. Len(g) + Len(w) /\ i \in 1 .. Len(g) + Len(v) /\ i \in 1 .. Len(b)
            BY <3>4, <3>6, Zenon
        <3>2. ~(i <= Len(g)) => i - Len(g) \in 1 .. Len(v)
            BY <1>9, <3>1
        <3>3. QED
            BY ONLY <1>2, <1>4, <1>6, <1>8, <3>1, <3>2, Zenon
    <2>3. QED
        BY <2>1, <2>2
<1>12. a = c
    BY <1>10, <1>11, SeqEqual, Zenon
<1>13. QED
    BY <1>1, <1>3, <1>5, <1>7, <1>12, Zenon

\* One symbol after the other.
LEMMA OneByOne ==
    ASSUME NEW X, NEW g \in Seq(X), NEW w \in Seq(X)
    PROVE  /\ Len(w) = 0 => Joined(g, w) = g
           /\ Len(w) = 1 => Joined(g, w) = Append(g, w[1])
           /\ Len(w) = 2 => Joined(g, w) = Append(Append(g, w[1]), w[2])
           /\ Len(w) = 3 => Joined(g, w) = Append(Append(Append(g, w[1]), w[2]), w[3])
           /\ Len(w) = 4 =>
                Joined(g, w) = Append(Append(Append(Append(g, w[1]), w[2]), w[3]), w[4])
<1>1. ASSUME NEW v \in Seq(X), Len(v) = 0 PROVE v = << >> /\ Joined(g, v) = g
    BY <1>1 DEF Joined
<1>2. ASSUME NEW n \in Nat, NEW v \in Seq(X), Len(v) = n + 1
      PROVE  \E u \in Seq(X) : /\ Len(u) = n /\ \A i \in 1 .. n : u[i] = v[i]
                               /\ Joined(g, v) = Append(Joined(g, u), v[n + 1])
    <2>1. v # << >>
        BY <1>2
    <2>2. PICK u \in Seq(X), x \in X : v = Append(u, x)
        BY <2>1, SequenceEmptyOrAppend
    <2>7. Joined(g, Append(u, x)) = Append(Joined(g, u), x)
        BY JoinedMore
    <2>3. Len(v) = Len(u) + 1 /\ v[Len(u) + 1] = x /\ (\A i \in 1 .. Len(u) : v[i] = u[i])
          /\ Len(u) \in Nat
        BY <2>2, Longer
    <2>4. Len(u) = n /\ v[n + 1] = x /\ \A i \in 1 .. n : u[i] = v[i]
        BY <1>2, <2>3
    <2>5. Joined(g, v) = Append(Joined(g, u), v[n + 1])
        BY <2>2, <2>4, <2>7, Zenon
    <2>6. QED
        BY <2>4, <2>5
<1>3. ASSUME NEW v \in Seq(X), Len(v) = 1 PROVE Joined(g, v) = Append(g, v[1])
    <2>1. 0 \in Nat /\ Len(v) = 0 + 1 /\ 0 + 1 = 1
        BY <1>3
    <2>2. PICK u \in Seq(X) : Len(u) = 0 /\ Joined(g, v) = Append(Joined(g, u), v[0 + 1])
        BY <1>2, <2>1, Zenon
    <2>3. Joined(g, u) = g
        BY <1>1, <2>2
    <2>4. QED
        BY <2>1, <2>2, <2>3, Zenon
<1>4. ASSUME NEW v \in Seq(X), Len(v) = 2
      PROVE  Joined(g, v) = Append(Append(g, v[1]), v[2])
    <2>1. PICK u \in Seq(X) : /\ Len(u) = 1 /\ \A i \in 1 .. 1 : u[i] = v[i]
                              /\ Joined(g, v) = Append(Joined(g, u), v[1 + 1])
        <3>1. 1 \in Nat /\ Len(v) = 1 + 1
            BY <1>4
        <3>2. QED
            BY <1>2, <3>1, Zenon
    <2>2. u[1] = v[1]
        BY <2>1
    <2>3. Joined(g, u) = Append(g, u[1])
        BY <1>3, <2>1
    <2>4. 1 + 1 = 2
        OBVIOUS
    <2>5. QED
        BY <2>1, <2>2, <2>3, <2>4, Zenon
<1>5. ASSUME NEW v \in Seq(X), Len(v) = 3
      PROVE  Joined(g, v) = Append(Append(Append(g, v[1]), v[2]), v[3])
    <2>1. PICK u \in Seq(X) : /\ Len(u) = 2 /\ \A i \in 1 .. 2 : u[i] = v[i]
                              /\ Joined(g, v) = Append(Joined(g, u), v[2 + 1])
        <3>1. 2 \in Nat /\ Len(v) = 2 + 1
            BY <1>5
        <3>2. QED
            BY <1>2, <3>1, Zenon
    <2>2. u[1] = v[1] /\ u[2] = v[2]
        BY <2>1
    <2>3. Joined(g, u) = Append(Append(g, u[1]), u[2])
        BY <1>4, <2>1
    <2>4. 2 + 1 = 3
        OBVIOUS
    <2>5. QED
        BY <2>1, <2>2, <2>3, <2>4, Zenon
<1>6. ASSUME NEW v \in Seq(X), Len(v) = 4
      PROVE  Joined(g, v) = Append(Append(Append(Append(g, v[1]), v[2]), v[3]), v[4])
    <2>1. PICK u \in Seq(X) : /\ Len(u) = 3 /\ \A i \in 1 .. 3 : u[i] = v[i]
                              /\ Joined(g, v) = Append(Joined(g, u), v[3 + 1])
        <3>1. 3 \in Nat /\ Len(v) = 3 + 1
            BY <1>6
        <3>2. QED
            BY <1>2, <3>1, Zenon
    <2>2. u[1] = v[1] /\ u[2] = v[2] /\ u[3] = v[3]
        BY <2>1
    <2>3. Joined(g, u) = Append(Append(Append(g, u[1]), u[2]), u[3])
        BY <1>5, <2>1
    <2>4. 3 + 1 = 4
        OBVIOUS
    <2>5. QED
        BY <2>1, <2>2, <2>3, <2>4, Zenon
<1>7. QED
    BY <1>1, <1>3, <1>4, <1>5, <1>6, Zenon

\* The states along a right-hand side.
LEMMA AtJoined ==
    ASSUME NEW g \in Seq(Vocabulary), NEW p, At(g, p), NEW w \in Seq(Vocabulary),
           Len(w) \in 0 .. 4, NEW s, Along(p, w, s)
    PROVE  At(Joined(g, w), s)
<1>1. \A i \in 1 .. Len(w) : w[i] \in Vocabulary
    OBVIOUS
<1>2. CASE Len(w) = 0
    <2>1. Joined(g, w) = g
        BY <1>2, OneByOne
    <2>2. s = p
        BY <1>2 DEF Along
    <2>3. QED
        BY <2>1, <2>2
<1>3. CASE Len(w) = 1
    <2>1. Joined(g, w) = Append(g, w[1])
        BY <1>3, OneByOne
    <2>2. Enters(p, w[1], s)
        BY <1>3 DEF Along
    <2>3. w[1] \in Vocabulary
        BY <1>1, <1>3
    <2>4. At(Append(g, w[1]), s)
        BY <2>2, <2>3, AtMore
    <2>5. QED
        BY <2>1, <2>4, Zenon
<1>4. CASE Len(w) = 2
    <2>1. PICK g1 : g1 = Append(g, w[1])
        OBVIOUS
    <2>2. Joined(g, w) = Append(g1, w[2])
        BY <1>4, <2>1, OneByOne, Zenon
    <2>3. PICK q : Enters(p, w[1], q) /\ Enters(q, w[2], s)
        BY <1>4 DEF Along
    <2>4. w[1] \in Vocabulary /\ w[2] \in Vocabulary
        BY <1>1, <1>4
    <2>5. At(g1, q) /\ g1 \in Seq(Vocabulary)
        BY <2>1, <2>3, <2>4, AtMore, AppendProperties, Zenon
    <2>6. At(Append(g1, w[2]), s)
        BY <2>3, <2>4, <2>5, AtMore, Zenon
    <2>7. QED
        BY <2>2, <2>6, Zenon
<1>5. CASE Len(w) = 3
    <2>1. PICK g1 : g1 = Append(g, w[1])
        OBVIOUS
    <2>2. PICK g2 : g2 = Append(g1, w[2])
        OBVIOUS
    <2>3. Joined(g, w) = Append(g2, w[3])
        BY <1>5, <2>1, <2>2, OneByOne, Zenon
    <2>4. PICK q, r : Enters(p, w[1], q) /\ Enters(q, w[2], r) /\ Enters(r, w[3], s)
        BY <1>5 DEF Along
    <2>5. w[1] \in Vocabulary /\ w[2] \in Vocabulary /\ w[3] \in Vocabulary
        BY <1>1, <1>5
    <2>6. At(g1, q) /\ g1 \in Seq(Vocabulary)
        BY <2>1, <2>4, <2>5, AtMore, AppendProperties, Zenon
    <2>7. At(g2, r) /\ g2 \in Seq(Vocabulary)
        BY <2>2, <2>4, <2>5, <2>6, AtMore, AppendProperties, Zenon
    <2>8. At(Append(g2, w[3]), s)
        BY <2>4, <2>5, <2>7, AtMore, Zenon
    <2>9. QED
        BY <2>3, <2>8, Zenon
<1>6. CASE Len(w) = 4
    <2>1. PICK g1 : g1 = Append(g, w[1])
        OBVIOUS
    <2>2. PICK g2 : g2 = Append(g1, w[2])
        OBVIOUS
    <2>3. PICK g3 : g3 = Append(g2, w[3])
        OBVIOUS
    <2>4. Joined(g, w) = Append(g3, w[4])
        BY <1>6, <2>1, <2>2, <2>3, OneByOne, Zenon
    <2>5. PICK q, r, u : /\ Enters(p, w[1], q) /\ Enters(q, w[2], r)
                         /\ Enters(r, w[3], u) /\ Enters(u, w[4], s)
        BY <1>6 DEF Along
    <2>6. /\ w[1] \in Vocabulary /\ w[2] \in Vocabulary /\ w[3] \in Vocabulary
          /\ w[4] \in Vocabulary
        BY <1>1, <1>6
    <2>7. At(g1, q) /\ g1 \in Seq(Vocabulary)
        BY <2>1, <2>5, <2>6, AtMore, AppendProperties, Zenon
    <2>8. At(g2, r) /\ g2 \in Seq(Vocabulary)
        BY <2>2, <2>5, <2>6, <2>7, AtMore, AppendProperties, Zenon
    <2>9. At(g3, u) /\ g3 \in Seq(Vocabulary)
        BY <2>3, <2>5, <2>6, <2>8, AtMore, AppendProperties, Zenon
    <2>10. At(Append(g3, w[4]), s)
        BY <2>5, <2>6, <2>9, AtMore, Zenon
    <2>11. QED
        BY <2>4, <2>10, Zenon
<1>7. QED
    BY <1>2, <1>3, <1>4, <1>5, <1>6

\* The states that are entered with each terminal.
LEMMA TerminalEntries ==
    /\ \A q \in States : Entry[q] = "WORD" => q \in {7, 24, 27, 39, 42, 53}
    /\ \A q \in States : Entry[q] = "NEWLINE" => q \in {1, 6}
    /\ \A q \in States : Entry[q] = "PIPE" => q \in {36}
    /\ \A q \in States : Entry[q] = "LESS" => q \in {8}
    /\ \A q \in States : Entry[q] = "GREAT" => q \in {9}
    /\ \A q \in States : Entry[q] = "DLESS" => q \in {10}
    /\ \A q \in States : Entry[q] = "DGREAT" => q \in {11}
    /\ \A q \in States : Entry[q] = "AND_IF" => q \in {34}
    /\ \A q \in States : Entry[q] = "OR_IF" => q \in {35}
    /\ \A q \in States : Entry[q] = "OPAR" => q \in {12}
    /\ \A q \in States : Entry[q] = "CPAR" => q \in {45}
BY SMTT(60) DEF States, Entry, Table

\* A terminal can follow where it is shifted.
LEMMA ShiftFollows ==
    ASSUME NEW p, NEW q, NEW t \in Terminals, t # "EOF", Enters(p, t, q)
    PROVE  t \in Lookaheads[p]
<1>1. q \in States /\ p \in Below[q] /\ Entry[q] = t
    BY DEF Enters, Leads
<1>2. CASE t = "WORD"
    <2>1. q \in {7, 24, 27, 39, 42, 53}
        BY <1>1, <1>2, TerminalEntries
    <2>2. p \in {4, 8, 9, 10, 11, 19, 20, 31, 32, 40, 43, 49, 50, 51, 55, 56}
        BY <1>1, <2>1 DEF Below, Table, CommandStarts, RedirStarts, BreakStarts
    <2>3. QED
        BY <1>2, <2>2 DEF Lookaheads, Table, CommandFirst, RedirFirst, CommandEnd, ListEnd,
           WordEnd
<1>3. CASE t = "NEWLINE"
    <2>1. q \in {1, 6}
        BY <1>1, <1>3, TerminalEntries
    <2>2. p \in {0, 3, 12, 13, 32, 34, 35, 36, 47, 56}
        BY <1>1, <2>1 DEF Below, Table, CommandStarts, RedirStarts, BreakStarts
    <2>3. QED
        BY <1>3, <2>2 DEF Lookaheads, Table, CommandFirst, RedirFirst, CommandEnd, ListEnd,
           WordEnd
<1>4. CASE t = "PIPE"
    <2>1. q \in {36}
        BY <1>1, <1>4, TerminalEntries
    <2>2. p \in {15, 57, 58}
        BY <1>1, <2>1 DEF Below, Table, CommandStarts, RedirStarts, BreakStarts
    <2>3. QED
        BY <1>4, <2>2 DEF Lookaheads, Table, CommandFirst, RedirFirst, CommandEnd, ListEnd,
           WordEnd
<1>5. CASE t = "LESS"
    <2>1. q \in {8}
        BY <1>1, <1>5, TerminalEntries
    <2>2. p \in {4, 17, 19, 20, 31, 32, 37, 40, 43, 49, 50, 51, 55, 56}
        BY <1>1, <2>1 DEF Below, Table, CommandStarts, RedirStarts, BreakStarts
    <2>3. QED
        BY <1>5, <2>2 DEF Lookaheads, Table, CommandFirst, RedirFirst, CommandEnd, ListEnd,
           WordEnd
<1>6. CASE t = "GREAT"
    <2>1. q \in {9}
        BY <1>1, <1>6, TerminalEntries
    <2>2. p \in {4, 17, 19, 20, 31, 32, 37, 40, 43, 49, 50, 51, 55, 56}
        BY <1>1, <2>1 DEF Below, Table, CommandStarts, RedirStarts, BreakStarts
    <2>3. QED
        BY <1>6, <2>2 DEF Lookaheads, Table, CommandFirst, RedirFirst, CommandEnd, ListEnd,
           WordEnd
<1>7. CASE t = "DLESS"
    <2>1. q \in {10}
        BY <1>1, <1>7, TerminalEntries
    <2>2. p \in {4, 17, 19, 20, 31, 32, 37, 40, 43, 49, 50, 51, 55, 56}
        BY <1>1, <2>1 DEF Below, Table, CommandStarts, RedirStarts, BreakStarts
    <2>3. QED
        BY <1>7, <2>2 DEF Lookaheads, Table, CommandFirst, RedirFirst, CommandEnd, ListEnd,
           WordEnd
<1>8. CASE t = "DGREAT"
    <2>1. q \in {11}
        BY <1>1, <1>8, TerminalEntries
    <2>2. p \in {4, 17, 19, 20, 31, 32, 37, 40, 43, 49, 50, 51, 55, 56}
        BY <1>1, <2>1 DEF Below, Table, CommandStarts, RedirStarts, BreakStarts
    <2>3. QED
        BY <1>8, <2>2 DEF Lookaheads, Table, CommandFirst, RedirFirst, CommandEnd, ListEnd,
           WordEnd
<1>9. CASE t = "AND_IF"
    <2>1. q \in {34}
        BY <1>1, <1>9, TerminalEntries
    <2>2. p \in {14, 46, 48, 60}
        BY <1>1, <2>1 DEF Below, Table, CommandStarts, RedirStarts, BreakStarts
    <2>3. QED
        BY <1>9, <2>2 DEF Lookaheads, Table, CommandFirst, RedirFirst, CommandEnd, ListEnd,
           WordEnd
<1>10. CASE t = "OR_IF"
    <2>1. q \in {35}
        BY <1>1, <1>10, TerminalEntries
    <2>2. p \in {14, 46, 48, 60}
        BY <1>1, <2>1 DEF Below, Table, CommandStarts, RedirStarts, BreakStarts
    <2>3. QED
        BY <1>10, <2>2 DEF Lookaheads, Table, CommandFirst, RedirFirst, CommandEnd, ListEnd,
           WordEnd
<1>11. CASE t = "OPAR"
    <2>1. q \in {12}
        BY <1>1, <1>11, TerminalEntries
    <2>2. p \in {4, 31, 32, 49, 50, 51, 56}
        BY <1>1, <2>1 DEF Below, Table, CommandStarts, RedirStarts, BreakStarts
    <2>3. QED
        BY <1>11, <2>2 DEF Lookaheads, Table, CommandFirst, RedirFirst, CommandEnd, ListEnd,
           WordEnd
<1>12. CASE t = "CPAR"
    <2>1. q \in {45}
        BY <1>1, <1>12, TerminalEntries
    <2>2. p \in {30}
        BY <1>1, <2>1 DEF Below, Table, CommandStarts, RedirStarts, BreakStarts
    <2>3. QED
        BY <1>12, <2>2 DEF Lookaheads, Table, CommandFirst, RedirFirst, CommandEnd, ListEnd,
           WordEnd
<1>13. QED
    BY VocabularyIs, <1>2, <1>3, <1>4, <1>5, <1>6, <1>7, <1>8, <1>9, <1>10, <1>11, <1>12

--------------------------------------------------------------------------------
(* What can be decided in a derivation of a sentence                            *)

\* The sentences, of which EOF is no class, and what comes after the first n classes of one.
Sentences == Seq(Terminals \ {"EOF"})
Ahead(w, n) == IF n < Len(w) THEN w[n + 1] ELSE "EOF"

\* The derivation of w from a program comes to c.
Rooted(w, c) == Reaches(w, Whole(w), c)

\* Forms that lead to a state in which the class that is ahead can follow.
Fine(w) ==
    {c \in Configs : c[2] <= Len(w) /\ \E q : At(c[1], q) /\ Ahead(w, c[2]) \in Lookaheads[q]}

\* Parts of them.
LEMMA FineIs ==
    ASSUME NEW w, NEW form, NEW n
    PROVE  Config(form, n) \in Fine(w) <=>
                /\ form \in Seq(Vocabulary) /\ n \in Nat /\ n <= Len(w)
                /\ \E q : At(form, q) /\ Ahead(w, n) \in Lookaheads[q]
BY ConfigIs DEF Fine

\* The classes of a sentence.
LEMMA SentenceIs ==
    ASSUME NEW w \in Sentences
    PROVE  /\ Len(w) \in Nat /\ w \in Seq(Vocabulary)
           /\ \A i \in 1 .. Len(w) : w[i] \in Terminals /\ w[i] # "EOF"
<1>1. w \in Seq(Terminals \ {"EOF"})
    BY DEF Sentences
<1>2. Len(w) \in Nat /\ \A i \in 1 .. Len(w) : w[i] \in Terminals /\ w[i] # "EOF"
    BY <1>1
<1>3. Terminals \ {"EOF"} \subseteq Vocabulary
    BY VocabularyIs
<1>4. w \in Seq(Vocabulary)
    BY <1>1, <1>3
<1>5. QED
    BY <1>2, <1>4

\* A program leads to the state in which the text is accepted.
LEMMA AtProgram ==
    /\ <<"program">> \in Seq(Vocabulary) /\ <<"program">> = Append(Nil, "program")
    /\ At(<<"program">>, 2) /\ "EOF" \in Lookaheads[2]
<1>1. "program" \in Vocabulary
    BY VocabularyIs
<1>2. <<"program">> \in Seq(Vocabulary) /\ Nil \in Seq(Vocabulary)
    BY <1>1 DEF Nil
<1>3. <<"program">> = Append(Nil, "program")
    BY DEF Nil
<1>4. Enters(0, "program", 2)
    BY NonterminalsEnter
<1>5. At(Append(Nil, "program"), 2)
    BY <1>1, <1>2, <1>4, AtNil, AtMore
<1>6. At(<<"program">>, 2)
    BY <1>3, <1>5, Zenon
<1>7. "EOF" \in Lookaheads[2]
    BY DEF Lookaheads, Table
<1>8. QED
    BY <1>2, <1>3, <1>6, <1>7

\* The whole of a sentence is ahead of nothing but its end.
LEMMA WholeIs ==
    ASSUME NEW w \in Sentences
    PROVE  Whole(w) \in Configs /\ Whole(w) \in Fine(w)
<1>1. Len(w) \in Nat
    BY SentenceIs
<1>2. Ahead(w, Len(w)) = "EOF"
    BY <1>1 DEF Ahead
<1>3. Whole(w) \in Configs
    BY <1>1, AtProgram, ConfigIs, Zenon DEF Whole
<1>4. PICK p : p = <<"program">>
    OBVIOUS
<1>5. p \in Seq(Vocabulary) /\ At(p, 2) /\ Ahead(w, Len(w)) \in Lookaheads[2]
    BY <1>2, <1>4, AtProgram, Zenon
<1>6. Config(p, Len(w)) \in Fine(w)
    BY <1>1, <1>5, FineIs
<1>7. QED
    BY <1>3, <1>4, <1>6, Zenon DEF Whole

\* Form f ends in the right-hand side rhs of A, and a rule says so before what can follow in q.
Handled(A, rhs, f, q) ==
    \E r \in 2 .. 45 : \E s :
        /\ Rules[r].lhs = A /\ Rhs[r] = rhs /\ At(f, s)
        /\ \A a \in Lookaheads[q] : a \in Lookaheads[s] /\ Action(s, a) = -r

\* A rule is found for the last nonterminal, and it follows.
LEMMA Unfolding ==
    ASSUME NEW g \in Seq(Vocabulary), NEW A \in Nonterminals, NEW rhs \in Productions[A],
           NEW q, At(Append(g, A), q)
    PROVE  Handled(A, rhs, Joined(g, rhs), q)
<1>1. A \in Vocabulary
    BY VocabularyIs
<1>2. PICK p : At(g, p) /\ Enters(p, A, q)
    BY <1>1, AtLess
<1>3. q \in States /\ Entry[q] = A /\ p \in Below[q]
    BY <1>2 DEF Enters, Leads
<1>4. PICK r \in 2 .. 45 : Rules[r].lhs = A /\ Rhs[r] = rhs
    BY RuleOfProduction
<1>5. RuleFollows(r)
    BY <1>4, RulesFollow
<1>6. PICK s : /\ Along(p, rhs, s)
               /\ \A a \in Lookaheads[q] : a \in Lookaheads[s] /\ Action(s, a) = -r
    BY <1>3, <1>4, <1>5 DEF RuleFollows
<1>7. rhs \in Seq(Vocabulary) /\ Len(rhs) \in 0 .. 4
    BY RightHandSides
<1>8. At(Joined(g, rhs), s)
    BY <1>2, <1>6, <1>7, AtJoined
<1>9. QED
    BY <1>4, <1>6, <1>8 DEF Handled

\* A terminal that is taken from the end of a form was shifted.
LEMMA Taking ==
    ASSUME NEW g \in Seq(Vocabulary), NEW t \in Terminals, t # "EOF", NEW q, At(Append(g, t), q)
    PROVE  \E p : At(g, p) /\ t \in Lookaheads[p] /\ Action(p, t) = q /\ q \in States \ {0}
<1>1. t \in Vocabulary
    BY VocabularyIs
<1>2. PICK p : At(g, p) /\ Enters(p, t, q)
    BY <1>1, AtLess
<1>3. t \in Lookaheads[p]
    BY <1>2, ShiftFollows
<1>4. q \in States /\ p \in Below[q] /\ Turn(p, t) = q
    BY <1>2 DEF Enters, Leads
<1>5. Action(p, t) = q
    BY <1>4 DEF Turn
<1>6. Below[0] = {}
    BY DEF Below, Table
<1>7. QED
    BY <1>2, <1>3, <1>4, <1>5, <1>6

\* The derivation of a sentence stays among them.
LEMMA FineStays ==
    ASSUME NEW w \in Sentences
    PROVE  Closed(w, Fine(w))
<1> SUFFICES ASSUME NEW c \in Fine(w), NEW d \in Steps(w, c[1], c[2]) PROVE d \in Fine(w)
    BY DEF Closed
<1>1. c \in Configs
    BY DEF Fine
<1>2. PICK form \in Seq(Vocabulary), n \in Nat : c = Config(form, n) /\ c[1] = form /\ c[2] = n
    BY <1>1, ConfigOf
<1>3. Config(form, n) \in Fine(w)
    BY <1>2
<1>4. n <= Len(w)
    BY <1>3, FineIs
<1>5. PICK q : At(form, q) /\ Ahead(w, n) \in Lookaheads[q]
    BY <1>3, FineIs
<1>6. d \in Steps(w, form, n)
    BY <1>2
<1>7. ASSUME NEW g \in Seq(Vocabulary), NEW t \in Terminals, form = Append(g, t), n > 0,
             w[n] = t, d = Config(g, n - 1)
      PROVE  d \in Fine(w)
    <2>1. Len(w) \in Nat /\ n \in 1 .. Len(w)
        BY <1>4, <1>7, SentenceIs
    <2>2. t # "EOF"
        BY <1>7, <2>1, SentenceIs
    <2>3. At(Append(g, t), q)
        BY <1>5, <1>7, Zenon
    <2>4. PICK p : At(g, p) /\ t \in Lookaheads[p]
        BY <2>2, <2>3, Taking
    <2>5. n - 1 \in Nat /\ n - 1 <= Len(w) /\ n - 1 < Len(w) /\ (n - 1) + 1 = n
        BY <2>1
    <2>6. Ahead(w, n - 1) = t
        BY <1>7, <2>5 DEF Ahead
    <2>7. Config(g, n - 1) \in Fine(w)
        BY <2>4, <2>5, <2>6, FineIs
    <2>8. QED
        BY <1>7, <2>7
<1>8. ASSUME NEW g \in Seq(Vocabulary), NEW A \in Nonterminals, NEW rhs \in Productions[A],
             form = Append(g, A), d = Config(Joined(g, rhs), n)
      PROVE  d \in Fine(w)
    <2>1. At(Append(g, A), q)
        BY <1>5, <1>8, Zenon
    <2>2. Handled(A, rhs, Joined(g, rhs), q)
        BY <2>1, Unfolding, Zenon
    <2>7. PICK s : /\ At(Joined(g, rhs), s)
                   /\ \A a \in Lookaheads[q] : a \in Lookaheads[s]
        BY <2>2 DEF Handled
    <2>3. Ahead(w, n) \in Lookaheads[s]
        BY <1>5, <2>7
    <2>4. Joined(g, rhs) \in Seq(Vocabulary)
        BY RightHandSides, JoinedIs
    <2>5. Config(Joined(g, rhs), n) \in Fine(w)
        BY <1>4, <2>7, <2>3, <2>4, FineIs
    <2>6. QED
        BY <1>8, <2>5
<1>9. QED
    BY <1>6, <1>7, <1>8, StepIs DEF Stepped

\* What the derivation of a sentence comes to is among them.
LEMMA RootedFine ==
    ASSUME NEW w \in Sentences, NEW form, NEW n, Rooted(w, Config(form, n))
    PROVE  /\ form \in Seq(Vocabulary) /\ n \in Nat /\ n <= Len(w)
           /\ \E q : At(form, q) /\ Ahead(w, n) \in Lookaheads[q]
<1>1. Config(form, n) \in Fine(w)
    BY FineStays, WholeIs DEF Rooted, Reaches
<1>2. QED
    BY <1>1, FineIs

(* The state that a form of the derivation leads to, and the class that is ahead, decide
   on the step that came to it: backwards, a shift or a reduction.              *)
LEMMA Determined ==
    ASSUME NEW w \in Sentences, NEW form \in Seq(Vocabulary), NEW n \in Nat, NEW p, At(form, p),
           Rooted(w, Config(form, n)), Config(form, n) # Whole(w)
    PROVE  \/ \E t \in Terminals :
                /\ n < Len(w) /\ Ahead(w, n) = t /\ Action(p, t) > 0
                /\ Rooted(w, Config(Append(form, t), n + 1))
           \/ \E r \in 2 .. 45 : \E g \in Seq(Vocabulary) :
                /\ Action(p, Ahead(w, n)) = -r
                /\ form = Joined(g, Rhs[r])
                /\ Rooted(w, Config(Append(g, Rules[r].lhs), n))
<1>1. PICK e \in Configs : Rooted(w, e) /\ Config(form, n) \in Steps(w, e[1], e[2])
    BY WholeIs, LastStep DEF Rooted
<1>2. PICK f \in Seq(Vocabulary), m \in Nat : e = Config(f, m) /\ e[1] = f /\ e[2] = m
    BY <1>1, ConfigOf
<1>3. Config(form, n) \in Steps(w, f, m) /\ Rooted(w, Config(f, m))
    BY <1>1, <1>2
<1>4. m <= Len(w)
    BY <1>3, RootedFine
<1>5. PICK q : At(f, q) /\ Ahead(w, m) \in Lookaheads[q]
    BY <1>3, RootedFine
<1>6. ASSUME NEW g \in Seq(Vocabulary), NEW t \in Terminals, f = Append(g, t), m > 0, w[m] = t,
             Config(form, n) = Config(g, m - 1)
      PROVE  /\ n < Len(w) /\ Ahead(w, n) = t /\ Action(p, t) > 0
             /\ Rooted(w, Config(Append(form, t), n + 1))
    <2>1. form = g /\ n = m - 1
        BY <1>6, ConfigsDiffer
    <2>2. Len(w) \in Nat /\ m \in 1 .. Len(w)
        BY <1>4, <1>6, SentenceIs
    <2>3. t # "EOF"
        BY <1>6, <2>2, SentenceIs
    <2>4. At(Append(g, t), q)
        BY <1>5, <1>6, Zenon
    <2>5. PICK s : At(g, s) /\ Action(s, t) = q /\ q \in States \ {0}
        BY <2>3, <2>4, Taking
    <2>6. s = p
        BY <2>1, <2>5, AtOne
    <2>7. Action(p, t) > 0
        BY <2>5, <2>6 DEF States
    <2>8. n < Len(w) /\ n + 1 = m
        BY <2>1, <2>2
    <2>9. Ahead(w, n) = t
        BY <1>6, <2>8 DEF Ahead
    <2>10. Config(f, m) = Config(Append(form, t), n + 1)
        BY <1>6, <2>1, <2>8, Zenon
    <2>11. QED
        BY <1>3, <2>7, <2>8, <2>9, <2>10
<1>7. ASSUME NEW g \in Seq(Vocabulary), NEW A \in Nonterminals, NEW rhs \in Productions[A],
             f = Append(g, A), Config(form, n) = Config(Joined(g, rhs), m)
      PROVE  \E r \in 2 .. 45 :
                /\ Action(p, Ahead(w, n)) = -r
                /\ form = Joined(g, Rhs[r])
                /\ Rooted(w, Config(Append(g, Rules[r].lhs), n))
    <2>1. form = Joined(g, rhs) /\ n = m
        BY <1>7, ConfigsDiffer
    <2>2. At(Append(g, A), q)
        BY <1>5, <1>7, Zenon
    <2>11. Handled(A, rhs, Joined(g, rhs), q)
        BY <2>2, Unfolding, Zenon
    <2>3. PICK r \in 2 .. 45 : \E s :
                /\ Rules[r].lhs = A /\ Rhs[r] = rhs /\ At(Joined(g, rhs), s)
                /\ \A a \in Lookaheads[q] : a \in Lookaheads[s] /\ Action(s, a) = -r
        BY <2>11, Zenon DEF Handled
    <2>4. PICK s : /\ Rules[r].lhs = A /\ Rhs[r] = rhs /\ At(Joined(g, rhs), s)
                   /\ \A a \in Lookaheads[q] : a \in Lookaheads[s] /\ Action(s, a) = -r
        BY <2>3
    <2>5. At(form, s)
        BY <2>1, <2>4
    <2>6. s = p
        BY <2>5, AtOne
    <2>7. Action(p, Ahead(w, n)) = -r
        BY <1>5, <2>1, <2>4, <2>6
    <2>8. Config(f, m) = Config(Append(g, Rules[r].lhs), n)
        BY <1>7, <2>1, <2>4, Zenon
    <2>9. form = Joined(g, Rhs[r])
        BY <2>1, <2>4
    <2>10. QED
        BY <1>3, <2>7, <2>8, <2>9
<1>8. CASE f = Nil
    BY <1>3, <1>8, NilEnds
<1>9. ASSUME NEW g \in Seq(Vocabulary), NEW t \in Terminals, f = Append(g, t)
      PROVE  /\ n < Len(w) /\ Ahead(w, n) = t /\ Action(p, t) > 0
             /\ Rooted(w, Config(Append(form, t), n + 1))
    <2>1. Config(form, n) \in Steps(w, Append(g, t), m)
        BY <1>3, <1>9, Zenon
    <2>2. m > 0 /\ w[m] = t /\ Config(form, n) = Config(g, m - 1)
        BY <2>1, Taken, Zenon
    <2>3. QED
        BY <1>6, <1>9, <2>2, Zenon
<1>10. ASSUME NEW g \in Seq(Vocabulary), NEW A \in Nonterminals, f = Append(g, A)
       PROVE  \E r \in 2 .. 45 :
                /\ Action(p, Ahead(w, n)) = -r
                /\ form = Joined(g, Rhs[r])
                /\ Rooted(w, Config(Append(g, Rules[r].lhs), n))
    <2>1. Config(form, n) \in Steps(w, Append(g, A), m)
        BY <1>3, <1>10, Zenon
    <2>4. Replaced(g, A, m, Config(form, n))
        BY <2>1, Unfolded, Zenon
    <2>2. PICK rhs \in Productions[A] : Config(form, n) = Config(Joined(g, rhs), m)
        BY <2>4, Zenon DEF Replaced
    <2>3. QED
        BY <1>7, <1>10, <2>2, Zenon
<1>11. CASE \E g \in Seq(Vocabulary), t \in Terminals : f = Append(g, t)
    BY <1>9, <1>11, Zenon
<1>12. CASE \E g \in Seq(Vocabulary), A \in Nonterminals : f = Append(g, A)
    <2>1. PICK g \in Seq(Vocabulary), A \in Nonterminals : f = Append(g, A)
        BY <1>12
    <2>2. PICK r \in 2 .. 45 :
                /\ Action(p, Ahead(w, n)) = -r
                /\ form = Joined(g, Rhs[r])
                /\ Rooted(w, Config(Append(g, Rules[r].lhs), n))
        BY <1>10, <2>1, Zenon
    <2>3. QED
        BY <2>1, <2>2, Zenon
<1>13. QED
    BY <1>8, <1>11, <1>12, Forms, Zenon

--------------------------------------------------------------------------------
(* Derivations of a sentence end                                                *)

\* How far a symbol is from being replaced by nothing but terminals.
Height == [x \in Vocabulary |->
    CASE x \in {"program"} -> 12
      [] x \in {"compound_list", "linebreak"} -> 11
      [] x \in {"term", "complete_commands"} -> 10
      [] x \in {"and_or"} -> 9
      [] x \in {"pipeline"} -> 8
      [] x \in {"command"} -> 7
      [] x \in {"simple_command"} -> 6
      [] x \in {"cmd_prefix", "cmd_suffix", "redirect_list"} -> 5
      [] x \in {"io_redirect"} -> 4
      [] x \in {"io_file", "io_here"} -> 3
      [] x \in Terminals -> 1
      [] OTHER -> 2]

\* Every step of the derivation of a sentence makes the weight less.
HeightOf(form) == IF form = Nil THEN 0 ELSE Height[Last(form)]
Weight(c) == 20 * c[2] + HeightOf(c[1])

\* The heights.
LEMMA HeightsAre ==
    /\ \A x \in Vocabulary : Height[x] \in 1 .. 12
    /\ \A t \in Terminals : Height[t] = 1
    /\ Height["program"] = 12
    /\ Height["complete_commands"] = 10
    /\ Height["and_or"] = 9
    /\ Height["pipeline"] = 8
    /\ Height["command"] = 7
    /\ Height["subshell"] = 2
    /\ Height["compound_list"] = 11
    /\ Height["term"] = 10
    /\ Height["simple_command"] = 6
    /\ Height["cmd_name"] = 2
    /\ Height["cmd_word"] = 2
    /\ Height["cmd_prefix"] = 5
    /\ Height["cmd_suffix"] = 5
    /\ Height["redirect_list"] = 5
    /\ Height["io_redirect"] = 4
    /\ Height["io_file"] = 3
    /\ Height["filename"] = 2
    /\ Height["io_here"] = 3
    /\ Height["here_end"] = 2
    /\ Height["newline_list"] = 2
    /\ Height["linebreak"] = 11
<1>1. \A x \in Vocabulary : Height[x] \in 1 .. 12
    BY DEF Height
<1>2. \A t \in Terminals : Height[t] = 1
    BY VocabularyIs DEF Height
<1>3. Height["program"] = 12
    BY VocabularyIs DEF Height
<1>4. Height["complete_commands"] = 10
    BY VocabularyIs DEF Height
<1>5. Height["and_or"] = 9
    BY VocabularyIs DEF Height
<1>6. Height["pipeline"] = 8
    BY VocabularyIs DEF Height
<1>7. Height["command"] = 7
    BY VocabularyIs DEF Height
<1>8. Height["subshell"] = 2
    BY VocabularyIs DEF Height
<1>9. Height["compound_list"] = 11
    BY VocabularyIs DEF Height
<1>10. Height["term"] = 10
    BY VocabularyIs DEF Height
<1>11. Height["simple_command"] = 6
    BY VocabularyIs DEF Height
<1>12. Height["cmd_name"] = 2
    BY VocabularyIs DEF Height
<1>13. Height["cmd_word"] = 2
    BY VocabularyIs DEF Height
<1>14. Height["cmd_prefix"] = 5
    BY VocabularyIs DEF Height
<1>15. Height["cmd_suffix"] = 5
    BY VocabularyIs DEF Height
<1>16. Height["redirect_list"] = 5
    BY VocabularyIs DEF Height
<1>17. Height["io_redirect"] = 4
    BY VocabularyIs DEF Height
<1>18. Height["io_file"] = 3
    BY VocabularyIs DEF Height
<1>19. Height["filename"] = 2
    BY VocabularyIs DEF Height
<1>20. Height["io_here"] = 3
    BY VocabularyIs DEF Height
<1>21. Height["here_end"] = 2
    BY VocabularyIs DEF Height
<1>22. Height["newline_list"] = 2
    BY VocabularyIs DEF Height
<1>23. Height["linebreak"] = 11
    BY VocabularyIs DEF Height
<1>24. QED
    BY ONLY <1>1, <1>2, <1>3, <1>4, <1>5, <1>6, <1>7, <1>8, <1>9, <1>10, <1>11, <1>12, <1>13,
       <1>14, <1>15, <1>16, <1>17, <1>18, <1>19, <1>20, <1>21, <1>22, <1>23

\* The last symbol of a right-hand side is of lower height.
LEMMA HeightsFall ==
    ASSUME NEW A \in Nonterminals, NEW rhs \in Productions[A]
    PROVE  IF Len(rhs) = 0 THEN A = "linebreak" ELSE Height[rhs[Len(rhs)]] < Height[A]
<1> DEFINE Falls(B, w) == IF Len(w) = 0 THEN B = "linebreak" ELSE Height[w[Len(w)]] < Height[B]
<1> HIDE DEF Falls
<1>1. ASSUME NEW w \in Productions["program"] PROVE Falls("program", w)
    <2>1. \/ w = <<"linebreak", "complete_commands", "linebreak">>
          \/ w = <<"linebreak">>
        BY DEF Productions
    <2>5. w = <<"linebreak", "complete_commands", "linebreak">> => Len(w) # 0 /\ w[Len(w)] = "linebreak"
        OBVIOUS
    <2>6. w = <<"linebreak">> => Len(w) # 0 /\ w[Len(w)] = "linebreak"
        OBVIOUS
    <2>2. Len(w) # 0 /\ w[Len(w)] = "linebreak"
        BY <2>1, <2>5, <2>6, Zenon
    <2>3. Height["linebreak"] = 11 /\ Height["program"] = 12
        BY HeightsAre, VocabularyIs
    <2>4. QED
        BY <2>2, <2>3 DEF Falls
<1>2. ASSUME NEW w \in Productions["complete_commands"] PROVE Falls("complete_commands", w)
    <2>1. \/ w = <<"complete_commands", "newline_list", "and_or">>
          \/ w = <<"and_or">>
        BY DEF Productions
    <2>5. w = <<"complete_commands", "newline_list", "and_or">> => Len(w) # 0 /\ w[Len(w)] = "and_or"
        OBVIOUS
    <2>6. w = <<"and_or">> => Len(w) # 0 /\ w[Len(w)] = "and_or"
        OBVIOUS
    <2>2. Len(w) # 0 /\ w[Len(w)] = "and_or"
        BY <2>1, <2>5, <2>6, Zenon
    <2>3. Height["and_or"] = 9 /\ Height["complete_commands"] = 10
        BY HeightsAre, VocabularyIs
    <2>4. QED
        BY <2>2, <2>3 DEF Falls
<1>3. ASSUME NEW w \in Productions["and_or"] PROVE Falls("and_or", w)
    <2>1. \/ w = <<"pipeline">>
          \/ w = <<"and_or", "AND_IF", "linebreak", "pipeline">>
          \/ w = <<"and_or", "OR_IF", "linebreak", "pipeline">>
        BY DEF Productions
    <2>5. w = <<"pipeline">> => Len(w) # 0 /\ w[Len(w)] = "pipeline"
        OBVIOUS
    <2>6. w = <<"and_or", "AND_IF", "linebreak", "pipeline">> => Len(w) # 0 /\ w[Len(w)] = "pipeline"
        OBVIOUS
    <2>7. w = <<"and_or", "OR_IF", "linebreak", "pipeline">> => Len(w) # 0 /\ w[Len(w)] = "pipeline"
        OBVIOUS
    <2>2. Len(w) # 0 /\ w[Len(w)] = "pipeline"
        BY <2>1, <2>5, <2>6, <2>7, Zenon
    <2>3. Height["pipeline"] = 8 /\ Height["and_or"] = 9
        BY HeightsAre, VocabularyIs
    <2>4. QED
        BY <2>2, <2>3 DEF Falls
<1>4. ASSUME NEW w \in Productions["pipeline"] PROVE Falls("pipeline", w)
    <2>1. \/ w = <<"command">>
          \/ w = <<"pipeline", "PIPE", "linebreak", "command">>
        BY DEF Productions
    <2>5. w = <<"command">> => Len(w) # 0 /\ w[Len(w)] = "command"
        OBVIOUS
    <2>6. w = <<"pipeline", "PIPE", "linebreak", "command">> => Len(w) # 0 /\ w[Len(w)] = "command"
        OBVIOUS
    <2>2. Len(w) # 0 /\ w[Len(w)] = "command"
        BY <2>1, <2>5, <2>6, Zenon
    <2>3. Height["command"] = 7 /\ Height["pipeline"] = 8
        BY HeightsAre, VocabularyIs
    <2>4. QED
        BY <2>2, <2>3 DEF Falls
<1>5. ASSUME NEW w \in Productions["command"] PROVE Falls("command", w)
    <2>1. \/ w = <<"simple_command">>
          \/ w = <<"subshell">>
          \/ w = <<"subshell", "redirect_list">>
        BY DEF Productions
    <2>5. w = <<"simple_command">> => Len(w) # 0 /\ w[Len(w)] = "simple_command"
        OBVIOUS
    <2>6. w = <<"subshell">> => Len(w) # 0 /\ w[Len(w)] = "subshell"
        OBVIOUS
    <2>7. w = <<"subshell", "redirect_list">> => Len(w) # 0 /\ w[Len(w)] = "redirect_list"
        OBVIOUS
    <2>2. /\ Len(w) # 0
          /\ \/ w[Len(w)] = "redirect_list"
             \/ w[Len(w)] = "simple_command"
             \/ w[Len(w)] = "subshell"
        BY <2>1, <2>5, <2>6, <2>7, Zenon
    <2>3. /\ Height["redirect_list"] = 5
          /\ Height["simple_command"] = 6
          /\ Height["subshell"] = 2
          /\ Height["command"] = 7
        BY HeightsAre, VocabularyIs
    <2>4. QED
        BY <2>2, <2>3 DEF Falls
<1>6. ASSUME NEW w \in Productions["subshell"] PROVE Falls("subshell", w)
    <2>1. w = <<"OPAR", "compound_list", "CPAR">>
        BY DEF Productions
    <2>5. w = <<"OPAR", "compound_list", "CPAR">> => Len(w) # 0 /\ w[Len(w)] = "CPAR"
        OBVIOUS
    <2>2. Len(w) # 0 /\ w[Len(w)] = "CPAR"
        BY <2>1, <2>5, Zenon
    <2>3. Height["CPAR"] = 1 /\ Height["subshell"] = 2
        BY HeightsAre, VocabularyIs
    <2>4. QED
        BY <2>2, <2>3 DEF Falls
<1>7. ASSUME NEW w \in Productions["compound_list"] PROVE Falls("compound_list", w)
    <2>1. \/ w = <<"linebreak", "term">>
          \/ w = <<"linebreak", "term", "newline_list">>
        BY DEF Productions
    <2>5. w = <<"linebreak", "term">> => Len(w) # 0 /\ w[Len(w)] = "term"
        OBVIOUS
    <2>6. w = <<"linebreak", "term", "newline_list">> => Len(w) # 0 /\ w[Len(w)] = "newline_list"
        OBVIOUS
    <2>2. Len(w) # 0 /\ (w[Len(w)] = "newline_list" \/ w[Len(w)] = "term")
        BY <2>1, <2>5, <2>6, Zenon
    <2>3. Height["newline_list"] = 2 /\ Height["term"] = 10 /\ Height["compound_list"] = 11
        BY HeightsAre, VocabularyIs
    <2>4. QED
        BY <2>2, <2>3 DEF Falls
<1>8. ASSUME NEW w \in Productions["term"] PROVE Falls("term", w)
    <2>1. \/ w = <<"term", "newline_list", "and_or">>
          \/ w = <<"and_or">>
        BY DEF Productions
    <2>5. w = <<"term", "newline_list", "and_or">> => Len(w) # 0 /\ w[Len(w)] = "and_or"
        OBVIOUS
    <2>6. w = <<"and_or">> => Len(w) # 0 /\ w[Len(w)] = "and_or"
        OBVIOUS
    <2>2. Len(w) # 0 /\ w[Len(w)] = "and_or"
        BY <2>1, <2>5, <2>6, Zenon
    <2>3. Height["and_or"] = 9 /\ Height["term"] = 10
        BY HeightsAre, VocabularyIs
    <2>4. QED
        BY <2>2, <2>3 DEF Falls
<1>9. ASSUME NEW w \in Productions["simple_command"] PROVE Falls("simple_command", w)
    <2>1. \/ w = <<"cmd_prefix", "cmd_word", "cmd_suffix">>
          \/ w = <<"cmd_prefix", "cmd_word">>
          \/ w = <<"cmd_prefix">>
          \/ w = <<"cmd_name", "cmd_suffix">>
          \/ w = <<"cmd_name">>
        BY DEF Productions
    <2>5. w = <<"cmd_prefix", "cmd_word", "cmd_suffix">> => Len(w) # 0 /\ w[Len(w)] = "cmd_suffix"
        OBVIOUS
    <2>6. w = <<"cmd_prefix", "cmd_word">> => Len(w) # 0 /\ w[Len(w)] = "cmd_word"
        OBVIOUS
    <2>7. w = <<"cmd_prefix">> => Len(w) # 0 /\ w[Len(w)] = "cmd_prefix"
        OBVIOUS
    <2>8. w = <<"cmd_name", "cmd_suffix">> => Len(w) # 0 /\ w[Len(w)] = "cmd_suffix"
        OBVIOUS
    <2>9. w = <<"cmd_name">> => Len(w) # 0 /\ w[Len(w)] = "cmd_name"
        OBVIOUS
    <2>2. /\ Len(w) # 0
          /\ \/ w[Len(w)] = "cmd_name"
             \/ w[Len(w)] = "cmd_prefix"
             \/ w[Len(w)] = "cmd_suffix"
             \/ w[Len(w)] = "cmd_word"
        BY <2>1, <2>5, <2>6, <2>7, <2>8, <2>9, Zenon
    <2>3. /\ Height["cmd_name"] = 2
          /\ Height["cmd_prefix"] = 5
          /\ Height["cmd_suffix"] = 5
          /\ Height["cmd_word"] = 2
          /\ Height["simple_command"] = 6
        BY HeightsAre, VocabularyIs
    <2>4. QED
        BY <2>2, <2>3 DEF Falls
<1>10. ASSUME NEW w \in Productions["cmd_name"] PROVE Falls("cmd_name", w)
    <2>1. w = <<"WORD">>
        BY DEF Productions
    <2>5. w = <<"WORD">> => Len(w) # 0 /\ w[Len(w)] = "WORD"
        OBVIOUS
    <2>2. Len(w) # 0 /\ w[Len(w)] = "WORD"
        BY <2>1, <2>5, Zenon
    <2>3. Height["WORD"] = 1 /\ Height["cmd_name"] = 2
        BY HeightsAre, VocabularyIs
    <2>4. QED
        BY <2>2, <2>3 DEF Falls
<1>11. ASSUME NEW w \in Productions["cmd_word"] PROVE Falls("cmd_word", w)
    <2>1. w = <<"WORD">>
        BY DEF Productions
    <2>5. w = <<"WORD">> => Len(w) # 0 /\ w[Len(w)] = "WORD"
        OBVIOUS
    <2>2. Len(w) # 0 /\ w[Len(w)] = "WORD"
        BY <2>1, <2>5, Zenon
    <2>3. Height["WORD"] = 1 /\ Height["cmd_word"] = 2
        BY HeightsAre, VocabularyIs
    <2>4. QED
        BY <2>2, <2>3 DEF Falls
<1>12. ASSUME NEW w \in Productions["cmd_prefix"] PROVE Falls("cmd_prefix", w)
    <2>1. \/ w = <<"io_redirect">>
          \/ w = <<"cmd_prefix", "io_redirect">>
        BY DEF Productions
    <2>5. w = <<"io_redirect">> => Len(w) # 0 /\ w[Len(w)] = "io_redirect"
        OBVIOUS
    <2>6. w = <<"cmd_prefix", "io_redirect">> => Len(w) # 0 /\ w[Len(w)] = "io_redirect"
        OBVIOUS
    <2>2. Len(w) # 0 /\ w[Len(w)] = "io_redirect"
        BY <2>1, <2>5, <2>6, Zenon
    <2>3. Height["io_redirect"] = 4 /\ Height["cmd_prefix"] = 5
        BY HeightsAre, VocabularyIs
    <2>4. QED
        BY <2>2, <2>3 DEF Falls
<1>13. ASSUME NEW w \in Productions["cmd_suffix"] PROVE Falls("cmd_suffix", w)
    <2>1. \/ w = <<"io_redirect">>
          \/ w = <<"cmd_suffix", "io_redirect">>
          \/ w = <<"WORD">>
          \/ w = <<"cmd_suffix", "WORD">>
        BY DEF Productions
    <2>5. w = <<"io_redirect">> => Len(w) # 0 /\ w[Len(w)] = "io_redirect"
        OBVIOUS
    <2>6. w = <<"cmd_suffix", "io_redirect">> => Len(w) # 0 /\ w[Len(w)] = "io_redirect"
        OBVIOUS
    <2>7. w = <<"WORD">> => Len(w) # 0 /\ w[Len(w)] = "WORD"
        OBVIOUS
    <2>8. w = <<"cmd_suffix", "WORD">> => Len(w) # 0 /\ w[Len(w)] = "WORD"
        OBVIOUS
    <2>2. Len(w) # 0 /\ (w[Len(w)] = "WORD" \/ w[Len(w)] = "io_redirect")
        BY <2>1, <2>5, <2>6, <2>7, <2>8, Zenon
    <2>3. Height["WORD"] = 1 /\ Height["io_redirect"] = 4 /\ Height["cmd_suffix"] = 5
        BY HeightsAre, VocabularyIs
    <2>4. QED
        BY <2>2, <2>3 DEF Falls
<1>14. ASSUME NEW w \in Productions["redirect_list"] PROVE Falls("redirect_list", w)
    <2>1. \/ w = <<"io_redirect">>
          \/ w = <<"redirect_list", "io_redirect">>
        BY DEF Productions
    <2>5. w = <<"io_redirect">> => Len(w) # 0 /\ w[Len(w)] = "io_redirect"
        OBVIOUS
    <2>6. w = <<"redirect_list", "io_redirect">> => Len(w) # 0 /\ w[Len(w)] = "io_redirect"
        OBVIOUS
    <2>2. Len(w) # 0 /\ w[Len(w)] = "io_redirect"
        BY <2>1, <2>5, <2>6, Zenon
    <2>3. Height["io_redirect"] = 4 /\ Height["redirect_list"] = 5
        BY HeightsAre, VocabularyIs
    <2>4. QED
        BY <2>2, <2>3 DEF Falls
<1>15. ASSUME NEW w \in Productions["io_redirect"] PROVE Falls("io_redirect", w)
    <2>1. \/ w = <<"io_file">>
          \/ w = <<"io_here">>
        BY DEF Productions
    <2>5. w = <<"io_file">> => Len(w) # 0 /\ w[Len(w)] = "io_file"
        OBVIOUS
    <2>6. w = <<"io_here">> => Len(w) # 0 /\ w[Len(w)] = "io_here"
        OBVIOUS
    <2>2. Len(w) # 0 /\ (w[Len(w)] = "io_file" \/ w[Len(w)] = "io_here")
        BY <2>1, <2>5, <2>6, Zenon
    <2>3. Height["io_file"] = 3 /\ Height["io_here"] = 3 /\ Height["io_redirect"] = 4
        BY HeightsAre, VocabularyIs
    <2>4. QED
        BY <2>2, <2>3 DEF Falls
<1>16. ASSUME NEW w \in Productions["io_file"] PROVE Falls("io_file", w)
    <2>1. \/ w = <<"LESS", "filename">>
          \/ w = <<"GREAT", "filename">>
          \/ w = <<"DGREAT", "filename">>
        BY DEF Productions
    <2>5. w = <<"LESS", "filename">> => Len(w) # 0 /\ w[Len(w)] = "filename"
        OBVIOUS
    <2>6. w = <<"GREAT", "filename">> => Len(w) # 0 /\ w[Len(w)] = "filename"
        OBVIOUS
    <2>7. w = <<"DGREAT", "filename">> => Len(w) # 0 /\ w[Len(w)] = "filename"
        OBVIOUS
    <2>2. Len(w) # 0 /\ w[Len(w)] = "filename"
        BY <2>1, <2>5, <2>6, <2>7, Zenon
    <2>3. Height["filename"] = 2 /\ Height["io_file"] = 3
        BY HeightsAre, VocabularyIs
    <2>4. QED
        BY <2>2, <2>3 DEF Falls
<1>17. ASSUME NEW w \in Productions["filename"] PROVE Falls("filename", w)
    <2>1. w = <<"WORD">>
        BY DEF Productions
    <2>5. w = <<"WORD">> => Len(w) # 0 /\ w[Len(w)] = "WORD"
        OBVIOUS
    <2>2. Len(w) # 0 /\ w[Len(w)] = "WORD"
        BY <2>1, <2>5, Zenon
    <2>3. Height["WORD"] = 1 /\ Height["filename"] = 2
        BY HeightsAre, VocabularyIs
    <2>4. QED
        BY <2>2, <2>3 DEF Falls
<1>18. ASSUME NEW w \in Productions["io_here"] PROVE Falls("io_here", w)
    <2>1. w = <<"DLESS", "here_end">>
        BY DEF Productions
    <2>5. w = <<"DLESS", "here_end">> => Len(w) # 0 /\ w[Len(w)] = "here_end"
        OBVIOUS
    <2>2. Len(w) # 0 /\ w[Len(w)] = "here_end"
        BY <2>1, <2>5, Zenon
    <2>3. Height["here_end"] = 2 /\ Height["io_here"] = 3
        BY HeightsAre, VocabularyIs
    <2>4. QED
        BY <2>2, <2>3 DEF Falls
<1>19. ASSUME NEW w \in Productions["here_end"] PROVE Falls("here_end", w)
    <2>1. w = <<"WORD">>
        BY DEF Productions
    <2>5. w = <<"WORD">> => Len(w) # 0 /\ w[Len(w)] = "WORD"
        OBVIOUS
    <2>2. Len(w) # 0 /\ w[Len(w)] = "WORD"
        BY <2>1, <2>5, Zenon
    <2>3. Height["WORD"] = 1 /\ Height["here_end"] = 2
        BY HeightsAre, VocabularyIs
    <2>4. QED
        BY <2>2, <2>3 DEF Falls
<1>20. ASSUME NEW w \in Productions["newline_list"] PROVE Falls("newline_list", w)
    <2>1. \/ w = <<"NEWLINE">>
          \/ w = <<"newline_list", "NEWLINE">>
        BY DEF Productions
    <2>5. w = <<"NEWLINE">> => Len(w) # 0 /\ w[Len(w)] = "NEWLINE"
        OBVIOUS
    <2>6. w = <<"newline_list", "NEWLINE">> => Len(w) # 0 /\ w[Len(w)] = "NEWLINE"
        OBVIOUS
    <2>2. Len(w) # 0 /\ w[Len(w)] = "NEWLINE"
        BY <2>1, <2>5, <2>6, Zenon
    <2>3. Height["NEWLINE"] = 1 /\ Height["newline_list"] = 2
        BY HeightsAre, VocabularyIs
    <2>4. QED
        BY <2>2, <2>3 DEF Falls
<1>21. ASSUME NEW w \in Productions["linebreak"] PROVE Falls("linebreak", w)
    <2>1. \/ w = <<"newline_list">>
          \/ w = << >>
        BY DEF Productions
    <2>5. w = <<"newline_list">> => Len(w) # 0 /\ w[Len(w)] = "newline_list"
        OBVIOUS
    <2>6. w = << >> => Len(w) = 0
        OBVIOUS
    <2>2. Len(w) = 0 \/ (Len(w) # 0 /\ w[Len(w)] = "newline_list")
        BY <2>1, <2>5, <2>6, Zenon
    <2>3. Height["newline_list"] = 2 /\ Height["linebreak"] = 11
        BY HeightsAre, VocabularyIs
    <2>4. QED
        BY <2>2, <2>3 DEF Falls
<1>22. \A B \in Nonterminals : \A w \in Productions[B] : Falls(B, w)
    BY VocabularyIs, <1>1, <1>2, <1>3, <1>4, <1>5, <1>6, <1>7, <1>8, <1>9, <1>10, <1>11, <1>12,
       <1>13, <1>14, <1>15, <1>16, <1>17, <1>18, <1>19, <1>20, <1>21
<1>23. QED
    BY <1>22 DEF Falls

\* What is joined to a right-hand side ends as that does.
LEMMA JoinedEnds ==
    ASSUME NEW g \in Seq(Vocabulary), NEW w \in Seq(Vocabulary), Len(w) \in 1 .. 4
    PROVE  \E h \in Seq(Vocabulary) : Joined(g, w) = Append(h, w[Len(w)])
<1>1. \A i \in 1 .. Len(w) : w[i] \in Vocabulary
    OBVIOUS
<1>2. PICK g1 : g1 = Append(g, w[1])
    OBVIOUS
<1>3. PICK g2 : g2 = Append(g1, w[2])
    OBVIOUS
<1>4. PICK g3 : g3 = Append(g2, w[3])
    OBVIOUS
<1>5. CASE Len(w) = 1
    <2>1. Joined(g, w) = Append(g, w[Len(w)])
        BY <1>5, OneByOne
    <2>2. QED
        BY <2>1
<1>6. CASE Len(w) = 2
    <2>0. Joined(g, w) = Append(Append(g, w[1]), w[2])
        BY <1>6, OneByOne, Zenon
    <2>1. Joined(g, w) = Append(g1, w[Len(w)])
        BY <2>0, <1>2, <1>6, Zenon
    <2>2. w[1] \in Vocabulary
        BY <1>1, <1>6
    <2>3. g1 \in Seq(Vocabulary)
        BY <1>2, <2>2, AppendProperties, Zenon
    <2>4. QED
        BY <2>1, <2>3
<1>7. CASE Len(w) = 3
    <2>0. Joined(g, w) = Append(Append(Append(g, w[1]), w[2]), w[3])
        BY <1>7, OneByOne, Zenon
    <2>1. Joined(g, w) = Append(g2, w[Len(w)])
        BY <2>0, <1>2, <1>3, <1>7, Zenon
    <2>2. w[1] \in Vocabulary /\ w[2] \in Vocabulary
        BY <1>1, <1>7
    <2>3. g1 \in Seq(Vocabulary)
        BY <1>2, <2>2, AppendProperties, Zenon
    <2>4. g2 \in Seq(Vocabulary)
        BY <1>3, <2>2, <2>3, AppendProperties, Zenon
    <2>5. QED
        BY <2>1, <2>4
<1>8. CASE Len(w) = 4
    <2>0. Joined(g, w) = Append(Append(Append(Append(g, w[1]), w[2]), w[3]), w[4])
        BY <1>8, OneByOne, Zenon
    <2>1. Joined(g, w) = Append(g3, w[Len(w)])
        BY <2>0, <1>2, <1>3, <1>4, <1>8, Zenon
    <2>2. w[1] \in Vocabulary /\ w[2] \in Vocabulary /\ w[3] \in Vocabulary
        BY <1>1, <1>8
    <2>3. g1 \in Seq(Vocabulary)
        BY <1>2, <2>2, AppendProperties, Zenon
    <2>4. g2 \in Seq(Vocabulary)
        BY <1>3, <2>2, <2>3, AppendProperties, Zenon
    <2>5. g3 \in Seq(Vocabulary)
        BY <1>4, <2>2, <2>4, AppendProperties, Zenon
    <2>6. QED
        BY <2>1, <2>5
<1>9. QED
    BY <1>5, <1>6, <1>7, <1>8

\* The height of a form is that of its end.
LEMMA HeightEnd ==
    ASSUME NEW g \in Seq(Vocabulary), NEW x \in Vocabulary
    PROVE  HeightOf(Append(g, x)) = Height[x]
<1>1. PICK h : h = Append(g, x)
    OBVIOUS
<1>2. h # Nil /\ Last(h) = x
    BY <1>1, EndOf DEF Nil
<1>3. HeightOf(h) = Height[x]
    BY <1>2 DEF HeightOf
<1>4. QED
    BY <1>1, <1>3, Zenon

\* It is at most 12.
LEMMA HeightIn ==
    ASSUME NEW form \in Seq(Vocabulary)
    PROVE  HeightOf(form) \in 0 .. 12
<1>1. CASE form = Nil
    BY <1>1 DEF HeightOf
<1>2. CASE form # Nil
    <2>1. PICK g \in Seq(Vocabulary), x \in Vocabulary : form = Append(g, x)
        BY <1>2, SequenceEmptyOrAppend DEF Nil
    <2>2. HeightOf(Append(g, x)) \in 1 .. 12
        BY HeightEnd, HeightsAre
    <2>3. HeightOf(form) \in 1 .. 12
        BY <2>1, <2>2, Zenon
    <2>4. QED
        BY <2>3
<1>3. QED
    BY <1>1, <1>2

\* Before a line break that can be empty there is nothing of its height.
LEMMA BeforeBreak ==
    ASSUME NEW g \in Seq(Vocabulary), NEW q, At(Append(g, "linebreak"), q)
    PROVE  HeightOf(g) < 11
<1>1. "linebreak" \in Vocabulary
    BY VocabularyIs
<1>2. PICK p : At(g, p) /\ Enters(p, "linebreak", q)
    BY <1>1, AtLess
<1>3. q \in States /\ Entry[q] = "linebreak" /\ p \in Below[q]
    BY <1>2 DEF Enters, Leads
<1>4. q \in {4, 31, 33, 49, 50, 51}
    BY <1>3, EnteredWith
<1>5. p \in {0, 12, 13, 34, 35, 36}
    <2>1. /\ q = 4 => p \in {0}
          /\ q = 31 => p \in {12}
          /\ q = 33 => p \in {13}
          /\ q = 49 => p \in {34}
          /\ q = 50 => p \in {35}
          /\ q = 51 => p \in {36}
        <3>1. /\ Below[4] = {0} /\ Below[31] = {12} /\ Below[33] = {13}
              /\ Below[49] = {34} /\ Below[50] = {35} /\ Below[51] = {36}
            BY DEF Below, Table, CommandStarts, RedirStarts, BreakStarts
        <3>2. QED
            BY <1>3, <3>1, Zenon
    <2>2. QED
        BY <1>4, <2>1
<1>6. CASE p = 0
    <2>1. g = Nil
        BY <1>2, <1>6, NothingAtStart
    <2>2. QED
        BY <2>1 DEF HeightOf
<1>7. CASE p # 0
    <2>1. PICK h \in Seq(Vocabulary) : Entry[p] \in Vocabulary /\ g = Append(h, Entry[p])
        BY <1>2, <1>7, AtLast
    <2>6. /\ Entry[12] = "OPAR" /\ Entry[13] = "complete_commands" /\ Entry[34] = "AND_IF"
          /\ Entry[35] = "OR_IF" /\ Entry[36] = "PIPE"
        BY DEF Entry, Table
    <2>2. Entry[p] \in {"OPAR", "complete_commands", "AND_IF", "OR_IF", "PIPE"}
        BY <1>5, <1>7, <2>6
    <2>3. Height[Entry[p]] < 11
        BY <2>2, HeightsAre, VocabularyIs
    <2>4. HeightOf(Append(h, Entry[p])) < 11
        BY <2>1, <2>3, HeightEnd
    <2>5. QED
        BY <2>1, <2>4, Zenon
<1>8. QED
    BY <1>6, <1>7

\* A step makes the weight less.
LEMMA WeightFalls ==
    ASSUME NEW w \in Sentences, NEW c \in Fine(w), NEW d \in Steps(w, c[1], c[2])
    PROVE  d \in Configs /\ Weight(c) \in Nat /\ Weight(d) \in Nat /\ Weight(d) < Weight(c)
<1>1. c \in Configs
    BY DEF Fine
<1>2. PICK form \in Seq(Vocabulary), n \in Nat : c = Config(form, n) /\ c[1] = form /\ c[2] = n
    BY <1>1, ConfigOf
<1>3. Config(form, n) \in Fine(w) /\ d \in Steps(w, form, n)
    BY <1>2
<1>4. PICK q : At(form, q)
    BY <1>3, FineIs
<1>5. d \in Configs
    BY <1>1, StepsStay
<1>6. Weight(c) = 20 * n + HeightOf(form) /\ HeightOf(form) \in 0 .. 12
    BY <1>2, HeightIn DEF Weight
<1>7. ASSUME NEW g \in Seq(Vocabulary), NEW m \in Nat, d = Config(g, m)
      PROVE  Weight(d) = 20 * m + HeightOf(g) /\ HeightOf(g) \in 0 .. 12
    BY <1>7, ConfigIs, HeightIn DEF Weight
<1>16. ASSUME NEW s \in Seq(Vocabulary), Len(s) \in 1 .. 4 PROVE s[Len(s)] \in Vocabulary
    <2>1. Len(s) \in 1 .. Len(s)
        BY <1>16
    <2>2. QED
        BY <2>1, ElementOfSeq, Zenon
<1>14. \A k \in Nat : \A a, b \in 0 .. 12 : k > 0 =>
            20 * (k - 1) + b \in Nat /\ 20 * (k - 1) + b < 20 * k + a
    OBVIOUS
<1>15. \A k \in Nat : \A a, b \in 0 .. 12 : b < a =>
            20 * k + b \in Nat /\ 20 * k + b < 20 * k + a
    OBVIOUS
<1>8. ASSUME NEW g \in Seq(Vocabulary), n > 0, d = Config(g, n - 1)
      PROVE  Weight(d) \in Nat /\ Weight(d) < Weight(c)
    <2>1. n - 1 \in Nat
        BY <1>8
    <2>2. Weight(d) = 20 * (n - 1) + HeightOf(g) /\ HeightOf(g) \in 0 .. 12
        BY <1>7, <1>8, <2>1
    <2>3. QED
        BY <1>6, <1>8, <2>1, <2>2, <1>14, Zenon
<1>9. ASSUME NEW g \in Seq(Vocabulary), NEW A \in Nonterminals, NEW rhs \in Productions[A],
             form = Append(g, A), d = Config(Joined(g, rhs), n)
      PROVE  Weight(d) \in Nat /\ Weight(d) < Weight(c)
    <2>1. A \in Vocabulary /\ rhs \in Seq(Vocabulary) /\ Len(rhs) \in 0 .. 4
        BY RightHandSides, VocabularyIs
    <2>2. Joined(g, rhs) \in Seq(Vocabulary)
        BY <2>1, JoinedIs
    <2>3. Weight(d) = 20 * n + HeightOf(Joined(g, rhs)) /\ HeightOf(Joined(g, rhs)) \in 0 .. 12
        BY <1>7, <1>9, <2>2
    <2>4. HeightOf(Append(g, A)) = Height[A]
        BY <2>1, HeightEnd
    <2>5. HeightOf(form) = Height[A]
        BY <1>9, <2>4, Zenon
    <2>6. HeightOf(Joined(g, rhs)) < Height[A]
        <3>1. CASE Len(rhs) = 0
            <4>1. A = "linebreak" /\ Joined(g, rhs) = g
                BY <2>1, <3>1, HeightsFall, OneByOne, Zenon
            <4>2. At(Append(g, "linebreak"), q)
                BY <1>4, <1>9, <4>1, Zenon
            <4>3. HeightOf(g) < 11
                BY <4>2, BeforeBreak
            <4>4. QED
                BY <4>1, <4>3, HeightsAre
        <3>2. CASE Len(rhs) # 0
            <4>1. Len(rhs) \in 1 .. 4
                BY <2>1, <3>2
            <4>2. PICK h \in Seq(Vocabulary) : Joined(g, rhs) = Append(h, rhs[Len(rhs)])
                BY <2>1, <4>1, JoinedEnds
            <4>3. rhs[Len(rhs)] \in Vocabulary
                BY <1>16, <2>1, <4>1, Zenon
            <4>4. HeightOf(Append(h, rhs[Len(rhs)])) = Height[rhs[Len(rhs)]]
                BY <4>3, HeightEnd
            <4>5. Height[rhs[Len(rhs)]] < Height[A]
                BY <3>2, HeightsFall
            <4>6. QED
                BY <4>2, <4>4, <4>5, Zenon
        <3>3. QED
            BY <3>1, <3>2
    <2>9. HeightOf(form) \in 0 .. 12 /\ HeightOf(Joined(g, rhs)) < HeightOf(form)
        BY <1>6, <2>5, <2>6, Zenon
    <2>8. QED
        BY <1>15, <2>3, <2>9, <1>6, Zenon
<1>10. Weight(c) \in Nat
    BY <1>6
<1>11. CASE \E g \in Seq(Vocabulary), t \in Terminals :
                form = Append(g, t) /\ n > 0 /\ w[n] = t /\ d = Config(g, n - 1)
    <2>1. PICK g \in Seq(Vocabulary), t \in Terminals :
                form = Append(g, t) /\ n > 0 /\ w[n] = t /\ d = Config(g, n - 1)
        BY <1>11
    <2>2. QED
        BY <1>8, <1>5, <1>10, <2>1, Zenon
<1>12. CASE \E g \in Seq(Vocabulary), A \in Nonterminals : \E rhs \in Productions[A] :
                /\ form = Append(g, A) /\ d = Config(Joined(g, rhs), n)
                /\ MinLength(Joined(g, rhs)) <= n
    <2>1. PICK g \in Seq(Vocabulary), A \in Nonterminals : \E rhs \in Productions[A] :
                form = Append(g, A) /\ d = Config(Joined(g, rhs), n)
        BY <1>12
    <2>2. PICK rhs \in Productions[A] : form = Append(g, A) /\ d = Config(Joined(g, rhs), n)
        BY <2>1
    <2>3. QED
        BY <1>9, <1>5, <1>10, <2>1, <2>2, Zenon
<1>13. Stepped(w, form, n, d)
    BY <1>3, StepIs, Zenon
<1>17. QED
    BY <1>5, <1>10, <1>11, <1>12, <1>13, Zenon DEF Stepped

(* What Derives finds is the end of a derivation: among what the derivation comes to and
   is found to derive, the least weight is that of the end.                     *)
LEMMA DerivesIs ==
    ASSUME NEW w \in Sentences
    PROVE  Derives(w) <=> Rooted(w, Derived)
<1>1. PICK f : Decides(w, f) /\ Derives(w) = f[Whole(w)]
    BY Decided
<1>2. Whole(w) \in Configs
    BY WholeIs
<1>3. ASSUME Rooted(w, Derived) PROVE Derives(w)
    BY <1>1, <1>2, <1>3, FoundToDerive DEF Rooted
<1>4. ASSUME Derives(w) PROVE Rooted(w, Derived)
    <2> DEFINE Met == {c \in Configs : Rooted(w, c) /\ f[c]}
               Weights == {Weight(c) : c \in Met}
    <2>1. Rooted(w, Whole(w))
        BY ReachesSelf DEF Rooted
    <2>2. Whole(w) \in Met
        BY <1>1, <1>2, <1>4, <2>1
    <2>3. ASSUME NEW c \in Met PROVE c \in Fine(w)
        BY <2>3, FineStays, WholeIs DEF Rooted, Reaches
    <2>4. ASSUME NEW c \in Met PROVE Weight(c) \in Nat
        <3>1. c \in Configs
            OBVIOUS
        <3>2. c[1] \in Seq(Vocabulary) /\ c[2] \in Nat
            BY <3>1, ConfigOf
        <3>3. HeightOf(c[1]) \in 0 .. 12
            BY <3>2, HeightIn
        <3>4. QED
            BY <3>2, <3>3 DEF Weight
    <2>5. ASSUME NEW c \in Met, c # Derived
          PROVE  \E d \in Met : Weight(d) < Weight(c)
        <3>1. PICK d \in Steps(w, c[1], c[2]) : d \in Configs /\ f[d]
            BY <1>1, <2>5, FoundOn
        <3>2. Rooted(w, d)
            BY <3>1, ReachesStep DEF Rooted
        <3>3. Weight(d) < Weight(c)
            BY <2>3, <3>1, WeightFalls
        <3>4. QED
            BY <3>1, <3>2, <3>3
    <2> HIDE DEF Met
    <2>6. Weights \subseteq Nat /\ Weights # {}
        BY <2>2, <2>4
    <2>7. PICK m \in Weights : \A y \in Weights : ~(<<y, m>> \in OpToRel(<, Nat))
        BY <2>6, NatLessThanWellFounded, WFMin
    <2>8. PICK c \in Met : m = Weight(c)
        BY <2>7
    <2>9. ASSUME c # Derived PROVE FALSE
        <3>1. PICK d \in Met : Weight(d) < Weight(c)
            BY <2>5, <2>9
        <3>2. Weight(d) \in Weights /\ Weight(d) \in Nat /\ m \in Nat
            BY <2>4, <2>8, <3>1
        <3>3. <<Weight(d), m>> \in OpToRel(<, Nat)
            BY <2>8, <3>1, <3>2 DEF OpToRel
        <3>4. QED
            BY <2>7, <3>2, <3>3
    <2>10. QED
        BY <2>8, <2>9 DEF Met
<1>5. QED
    BY <1>3, <1>4
================================================================================
