--------------------------------- MODULE Texts ---------------------------------
(* What the builtins do with texts, character by character: the canonical form of
   a path (builtin/get_path_canonical_form.c), the search of a command in PATH
   (execute/get_pathname.c, ft_split_with_empty.c), the number exit takes
   (builtin/builtin_exit.c) and the name and value export takes
   (builtin/ft_split_key_value.c), each with what it is to be.                 *)
EXTENDS Integers, Intervals, FiniteSetsExt

IsAbsolute(t) == CharAt(t, 1) = "/"

-------------------------------------------------------------------------------
(* get_path_canonical_form: i is the next character of the path, form what has
   been written of the result; bad says why there is none: "none" for an error,
   "fault" for an access outside the result.                                    *)

ProcessSlash(path, s) ==
    LET end == Max({k \in s.i..Len(path) : \A m \in s.i..k : path[m] = "/"})
    IN [s EXCEPT !.i = end + 1, !.form = Append(@, "/")]

\* A ".." takes the last directory away: the slash at the end, unless it is the
\* first character, and then everything up to the last slash.
Parent(s) ==
    LET kept == IF Len(s.form) = 1 THEN s.form ELSE Front(s.form)
        slashes == {k \in DOMAIN kept : kept[k] = "/"}
    IN IF s.form = << >> \/ slashes = {} THEN [s EXCEPT !.bad = "fault"]
       ELSE [s EXCEPT !.i = @ + 1, !.form = SubSeq(kept, 1, Max(slashes))]

ProcessDot(path, s) ==
    LET next == CharAt(path, s.i + 1)
    IN IF next = Nul THEN [s EXCEPT !.i = @ + 1]
       ELSE IF next = "/" THEN [s EXCEPT !.i = @ + 2]
       ELSE IF next # "." THEN [s EXCEPT !.i = @ + 1, !.form = Append(@, ".")]
       ELSE IF CharAt(path, s.i + 2) \in {Nul, "/"} THEN Parent(s)
       ELSE [s EXCEPT !.bad = "none"]

\* A slip for SkipLastSlash: the root loses its slash too.
SkipLastSlashAlways(form) ==
    IF form # << >> /\ Last(form) = "/" THEN Front(form) ELSE form

SkipLastSlash(form) ==
    IF Len(form) # 1 /\ Last(form) = "/" THEN Front(form) ELSE form

ProcessChar(path, s) ==
    LET c == CharAt(path, s.i)
    IN IF s.bad # "no" \/ c = Nul THEN s
       ELSE IF c = "/" THEN ProcessSlash(path, s)
       ELSE IF c = "." THEN ProcessDot(path, s)
       ELSE [s EXCEPT !.i = @ + 1, !.form = Append(@, c)]

GetPathCanonicalForm(path) ==
    LET After[k \in 0..Len(path)] ==
            IF k = 0 THEN [i |-> 1, form |-> << >>, bad |-> "no"]
            ELSE ProcessChar(path, After[k - 1])
        end == After[Len(path)]
    IN IF end.bad # "no" THEN [bad |-> end.bad, text |-> << >>]
       ELSE IF end.form = << >> THEN [bad |-> "fault", text |-> << >>]
       ELSE [bad |-> "no", text |-> SkipLastSlash(end.form)]

\* Where a name leads; there is an empty one between two slashes.
Entered(dir, name) ==
    IF name \in {<< >>, <<".">>} THEN dir
    ELSE IF name # <<".", ".">> THEN Append(dir, name)
    ELSE IF dir = << >> THEN dir ELSE Front(dir)

\* A place on the way: the directory reached, as the names that lead to it from the
\* root, and what has been read of the next name.
Reached(place) == Entered(place.dir, place.name)

Onward(place, c) ==
    IF c = "/" THEN [dir |-> Reached(place), name |-> << >>]
    ELSE [dir |-> place.dir, name |-> Append(place.name, c)]

\* The places after each character of a path that is followed from a directory.
Way(from, path) ==
    LET After[k \in 0..Len(path)] ==
            IF k = 0
            THEN [dir |-> IF IsAbsolute(path) THEN << >> ELSE from, name |-> << >>]
            ELSE Onward(After[k - 1], path[k])
    IN After

DirOf(from, path) == Reached(Way(from, path)[Len(path)])

PathTo(dir) ==
    IF dir = << >> THEN <<"/">>
    ELSE FlattenSeq([k \in DOMAIN dir |-> <<"/">> \o dir[k]])

IsEnd(c) == c \in {Nul, "/"}

\* A dot is misread that another one or the end of its name follows, unless the
\* name is just . or .. .
DotsMisread(path) ==
    \E i \in DOMAIN path :
        /\ path[i] = "."
        /\ CharAt(path, i + 1) = "." \/ IsEnd(CharAt(path, i + 1))
        /\ IsEnd(CharAt(path, i - 1)) =>
               CharAt(path, i + 1) = "." /\ ~IsEnd(CharAt(path, i + 2))
        /\ CharAt(path, i - 1) = "." /\ IsEnd(CharAt(path, i - 2)) =>
               ~IsEnd(CharAt(path, i + 1))

\* The slash after the one that ends a . or .. is written to the form although it
\* ends in a slash; a .. that comes later takes only that one away.
SlashKept(path) ==
    \E i, j \in DOMAIN path :
        /\ i + 2 < j
        /\ path[i] = "." /\ path[i + 1] = "/" /\ path[i + 2] = "/"
        /\ path[j] = "." /\ CharAt(path, j + 1) = "."

\* No name of it is . or .. (or ends in a dot).
HasNoDots(path) ==
    \A i \in DOMAIN path : path[i] = "." =>
        CharAt(path, i + 1) # "." /\ ~IsEnd(CharAt(path, i + 1))

\* The canonical form of an absolute path leads where the path does and has no
\* dots; nothing is accessed outside of it.
CanonicalFormIsRight(path) ==
    LET r == GetPathCanonicalForm(path)
    IN IsAbsolute(path) => /\ r.bad # "fault"
                           /\ ~DotsMisread(path) /\ ~SlashKept(path) =>
                                /\ r.bad = "no" /\ IsAbsolute(r.text)
                                /\ DirOf(<< >>, r.text) = DirOf(<< >>, path)
                                /\ HasNoDots(r.text)

-------------------------------------------------------------------------------
(* get_pathname                                                                 *)

\* The n-th element (from 0): what is between two separators, or an end.
GetSubstring(s, c, n) ==
    LET seps == {i \in DOMAIN s : s[i] = c}
        Before(i) == Cardinality({j \in seps : j < i})
        chars == {i \in DOMAIN s \ seps : Before(i) = n}
    IN IF chars = {} THEN << >> ELSE SubSeq(s, Min(chars), Max(chars))

FtSplitWithEmpty(s, c) ==
    [n \in 1..(Cardinality({i \in DOMAIN s : s[i] = c}) + 1) |->
        GetSubstring(s, c, n - 1)]

\* One directory of PATH: here is what the name is in it. The first file that can
\* be executed ends the loop, the first one that cannot is kept.
SearchDir(s, dir, here) ==
    IF s.found = "exec" \/ here \notin {"plain", "exec"} THEN s
    ELSE IF here = "exec" THEN [found |-> "exec", at |-> dir]
    ELSE IF s.found = "no" THEN [found |-> "plain", at |-> dir]
    ELSE s

\* The loop over the directories: kind[d] is what the name is in d, an empty d
\* being the current directory.
SearchInPaths(paths, kind) ==
    LET After[i \in 0..Len(paths)] ==
            IF i = 0 THEN [found |-> "no", at |-> << >>]
            ELSE SearchDir(After[i - 1], paths[i], kind[paths[i]])
    IN After[Len(paths)]

\* A slip for GetPathname: empty elements of PATH are skipped.
GetPathnameSkipping(path, kind) ==
    IF path = << >>
    THEN [found |-> IF kind[<< >>] \in {"plain", "exec"} THEN kind[<< >>] ELSE "no",
          at |-> << >>]
    ELSE SearchInPaths(SelectSeq(FtSplitWithEmpty(path, ":"), LAMBDA d : d # << >>),
                       kind)

\* Without PATH, or with an empty one, only the current directory is searched.
GetPathname(path, kind) ==
    IF path = << >>
    THEN [found |-> IF kind[<< >>] \in {"plain", "exec"} THEN kind[<< >>] ELSE "no",
          at |-> << >>]
    ELSE SearchInPaths(FtSplitWithEmpty(path, ":"), kind)

\* The directory d is the piece of the path that begins at i.
ElementAt(path, i, d) ==
    /\ i = 1 \/ path[i - 1] = ":"
    /\ i + Len(d) <= Len(path) + 1
    /\ SubSeq(path, i, i + Len(d) - 1) = d
    /\ CharAt(path, i + Len(d)) \in {Nul, ":"}

\* The command is the first executable file of its name in the order of PATH, and
\* when there is none the first other file.
PathnameIsRight(path, kind) ==
    LET At(k) == {i \in 1..(Len(path) + 1) : \E d \in DOMAIN kind :
                     ElementAt(path, i, d) /\ kind[d] = k}
        best == IF At("exec") # {} THEN "exec"
                ELSE IF At("plain") # {} THEN "plain" ELSE "no"
        r == GetPathname(path, kind)
    IN /\ r.found = best
       /\ best # "no" => ElementAt(path, Min(At(best)), r.at)

-------------------------------------------------------------------------------
(* builtin_exit, ft_split_key_value                                             *)

Spaces == {" ", "\t"}
Numerals == <<"0", "1", "2", "3", "4", "5", "6", "7", "8", "9">>
Digits == {Numerals[k] : k \in 1..10}
Signs == {"+", "-"}

ASSUME CharactersAssumption ==
    {"/", ".", "="} \cup Spaces \cup Digits \cup Signs \subseteq Chars

\* How far a loop over characters of a set gets from i.
Past(s, i, set) == Min({k \in i..(Len(s) + 1) : CharAt(s, k) \notin set})

\* A slip for FtIsnumber: what follows the digits is not looked at.
FtIsnumberPrefix(s) ==
    LET start == Past(s, 1, Spaces)
        unsigned == IF CharAt(s, start) \in Signs THEN start + 1 ELSE start
    IN CharAt(s, unsigned) \in Digits

FtIsnumber(s) ==
    LET start == Past(s, 1, Spaces)
        unsigned == IF CharAt(s, start) \in Signs THEN start + 1 ELSE start
        after == Past(s, unsigned, Digits)
    IN /\ CharAt(s, start) # Nul
       /\ CharAt(s, unsigned) \notin {Nul} \cup Spaces
       /\ CharAt(s, Past(s, after, Spaces)) = Nul

\* exit takes blanks, at most one sign, digits and blanks for a number.
NumberIsRight(s) ==
    FtIsnumber(s) <=>
        \E a \in 0..Len(s) : \E b \in a..Len(s) : \E c \in b..Len(s) :
            /\ \A i \in (1..a) \cup ((c + 1)..Len(s)) : s[i] \in Spaces
            /\ b = a \/ (b = a + 1 /\ s[b] \in Signs)
            /\ b < c /\ \A i \in (b + 1)..c : s[i] \in Digits

\* ft_atoi and ft_itoa of the library, for numbers without a sign.
DigitOf(d) == CHOOSE k \in 0..9 : Numerals[k + 1] = d

FtAtoi(s) ==
    LET end == Past(s, 1, Digits) - 1
        Value[i \in 0..end] ==
            IF i = 0 THEN 0 ELSE 10 * Value[i - 1] + DigitOf(s[i])
    IN Value[end]

FtItoa(k) ==
    LET Numeral[i \in 0..k] ==
            IF i < 10 THEN <<Numerals[i + 1]>>
            ELSE Append(Numeral[i \div 10], Numerals[(i % 10) + 1])
    IN Numeral[k]

\* The text up to the first = is the name; val says whether there is a =.
FtSplitKeyValue(s) ==
    LET equals == {i \in DOMAIN s : s[i] = "="}
    IN IF equals = {} THEN [key |-> s, given |-> FALSE, val |-> << >>]
       ELSE [key |-> SubSeq(s, 1, Min(equals) - 1), given |-> TRUE,
             val |-> SubSeq(s, Min(equals) + 1, Len(s))]
===============================================================================
