---------------------------- MODULE MCClientNetwork ----------------------------
(* One echo client; the bounds on messages and packets are in the cfgs.    *)
EXTENDS ClientNetwork

CONSTANT c1
===============================================================================
