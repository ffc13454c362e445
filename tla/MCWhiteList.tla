----------------------------- MODULE MCWhiteList -----------------------------
(* The white list with two addresses, so that a command on one can         *)
(* interleave with lookups of the other, and files with duplicate rows.    *)
EXTENDS WhiteList, TLC

CONSTANTS a1, a2

MCAddress == {a1, a2}
===============================================================================
