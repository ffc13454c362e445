------------------------------- MODULE MCFraming -------------------------------
(* Short texts and the longest ones, cut where a field or a text ends; the *)
(* last string of the heap does not fit a buffer.                          *)
EXTENDS Framing

TextOf(n) == [i \in 1 .. n |-> 65 + (i % 26)]
TextValue == {<<65>>, <<65, 66>>, <<200>>} \cup {TextOf(n) : n \in {3, 254, 255}}
StackValue == {<<0, 0, 0, 0>>, <<3, 0, 0, 0>>, <<16, 0, 0, 0>>, <<0, 0, 0, 255>>}
HeapValue == {<<>>, <<88>>, [i \in 1 .. 1020 |-> 88]}
BeyondValue == {<<0, 0>>, <<89, 90>>}
CutValue == (1 .. 13) \cup {255, 259, 260, 262, 263, 264}
===============================================================================
