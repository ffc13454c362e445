------------------------------- MODULE MCOptions -------------------------------
(* Numbers around 65535, with zeros before them and other characters in    *)
(* them, and two that do not fit an int.                                   *)
EXTENDS Options

PortValue ==
  UNION {[1 .. n -> {0, 3, 5, 6, 10}] : n \in 0 .. 6}
    \cup {<<4, 2, 9, 4, 9, 6, 7, 2, 9, 7>>, <<9, 9, 9, 9, 9, 9, 9, 9, 9, 9, 9, 9>>}
===============================================================================
