------------------------------ MODULE Interlock ------------------------------
(***************************************************************************)
(* What the safety boundary promises of the heater (safety.c:5-8, 47-48):  *)
(* the relay is never on, and asking for heat locks the machine until it   *)
(* starts over.  The machine may lock for reasons of its own.              *)
(***************************************************************************)
VARIABLES
  on,        \* the relay is energised
  asked,     \* heat was asked for
  locked     \* the machine takes no command

vars == <<on, asked, locked>>

Init == ~on /\ ~asked /\ ~locked

Request == asked' /\ locked' /\ UNCHANGED on
Lock    == locked' /\ UNCHANGED <<on, asked>>
Restart == ~on' /\ ~asked' /\ ~locked'

Next == Request \/ Lock \/ Restart

Spec == Init /\ [][Next]_vars
=============================================================================
