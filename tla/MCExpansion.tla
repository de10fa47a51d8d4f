----------------------------- MODULE MCExpansion ------------------------------
(* Expansion on all lines made of a few pieces.                                *)
EXTENDS Expansion

CONSTANT MaxPieces

\* Single characters of every kind a rule of the lexer tells apart, and the
\* references and quotations that take several of them.
Pieces == {<<"a">>, <<"$">>, <<"'">>, <<"\"">>, <<" ">>, <<">">>, <<"&">>,
           <<"#">>, <<NewLine>>, <<"$", "a">>, <<"$", "?">>}

MCLines == {FlattenSeq(p) : p \in UNION {[1..n -> Pieces] : n \in 1..MaxPieces}}

\* Letters that are no part of a name of the line, and blanks before, after and
\* between them.
MCValues == {<< >>, <<"x">>, <<" ">>, <<" ", "x">>, <<"x", " ">>, <<"x", " ", "y">>,
             <<" ", " ", "x">>}

MCVariable == <<"a">>
MCStatus == <<"4", "2">>
=============================================================================
