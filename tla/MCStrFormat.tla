----------------------------- MODULE MCStrFormat -----------------------------
(* Model-checking instance of StrFormat: every directive made of a flag or two, *)
(* a width, a precision, a modifier and a letter; formats of two directives.    *)
EXTENDS StrFormat

Pieces(ss) == {FlattenSeq(s) : s \in ss}
Flags_ == {<<>>, <<"0">>, <<"+">>, <<"-">>, <<" ", "0">>}
Widths == {<<>>, <<"4">>, <<"1", "2">>, <<"*">>}
Precisions == {<<>>, <<".">>, <<".", "2">>, <<".", "0">>, <<".", "-", "1">>, <<".", "*">>}
Mods == {<<>>, <<"l">>, <<"z">>}
Letters == {<<"d">>, <<"u">>, <<"x">>, <<"c">>, <<"s">>, <<"n">>, <<"g">>, <<"p">>, <<"y">>}
Single == Pieces({<<<<"%">>, f, w, r, m, c>> : f \in Flags_, w \in Widths, r \in Precisions, m \in Mods, c \in Letters})
Few == {<<"%", "d">>, <<"%", "0", "1", "2", "u">>, <<"%", "4", "s">>, <<"%", ".", "2", "s">>, <<"%", "c">>,
        <<"%", "1", "$", "d">>, <<"%", "l", "l", "X">>, <<"%", " ", "i">>, <<"%", "y">>}
Between == {<<>>, <<"a">>, <<"%", "%">>}
Double == Pieces({<<a, x, b, y>> : a \in {<<>>, <<"%", "%">>}, b \in Between, x \in Few, y \in Few})
MCFormats == Single \cup Double \cup Between \cup {<<"%">>, <<"a", "%">>}

MCLuaFormats ==
  Pieces({<<<<"%">>, f, w, r, c>> : f \in Flags_ \cup {<<"+", "+", "+", "+", "+", "+">>},
    w \in Widths \cup {<<"1", "2", "1">>}, r \in Precisions, c \in Letters \cup {<<"q">>}})
  \cup Pieces({<<x, b, y>> : b \in Between, x \in Few, y \in Few})
MCTexts == {<<>>, <<"s">>, <<"s", "t", "u">>, <<"s", "t", "u", "v", "w">>}
MCFloatTexts == {<<"1", ".", "5">>}
=============================================================================
