------------------------------ MODULE AccessList ------------------------------
(***************************************************************************)
(* What the rest of the server may rely on when it asks CWhiteList who may *)
(* connect: the abstract specification of the white list.                  *)
(*                                                                         *)
(* The list is a durable set of addresses.  The operator's commands change *)
(* it one address at a time; between the moment a change is durable and    *)
(* the moment the server has it in memory that address is unsettled.       *)
(* Lookups come from another thread and take no lock: an address that is   *)
(* not in the list is refused, an address in the list is admitted when no  *)
(* change is under way, and while one is, a listed address may be refused. *)
(* Stopping the server in any way loses nothing.                           *)
(***************************************************************************)
CONSTANTS Address,   \* the IP addresses, as strings in the code
          None       \* no answer given yet

VARIABLES
  listed,      \* the addresses in the durable list
  unsettled,   \* the address whose change is durable and not yet in memory
  up,          \* the server is running and answers lookups
  answer       \* the last lookup: <<address, admitted>>

vars == <<listed, unsettled, up, answer>>

Init ==
  /\ listed \in SUBSET Address
  /\ unsettled = {}
  /\ up = FALSE
  /\ answer = None

(* The answers a lookup of address a may get.                              *)
Answers(a) ==
  {r \in BOOLEAN : /\ r => a \in listed \cup unsettled
                   /\ unsettled = {} /\ a \in listed => r}

Start == /\ ~up
         /\ up' = TRUE
         /\ UNCHANGED <<listed, unsettled, answer>>

Stop == /\ up
        /\ up' = FALSE
        /\ unsettled' = {}
        /\ answer' = None
        /\ UNCHANGED listed

Commit(a, list) ==
  /\ up
  /\ unsettled = {}
  /\ listed' = list
  /\ unsettled' = {a}
  /\ UNCHANGED <<up, answer>>

Add(a) == a \notin listed /\ Commit(a, listed \cup {a})

Remove(a) == a \in listed /\ Commit(a, listed \ {a})

Settle == /\ unsettled # {}
          /\ unsettled' = {}
          /\ UNCHANGED <<listed, up, answer>>

Lookup(a) == /\ up
             /\ \E r \in Answers(a) : answer' = <<a, r>>
             /\ UNCHANGED <<listed, unsettled, up>>

Next == \/ Start \/ Stop \/ Settle
        \/ \E a \in Address : Add(a) \/ Remove(a) \/ Lookup(a)

Spec == Init /\ [][Next]_vars
===============================================================================
