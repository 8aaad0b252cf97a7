------------------------------ MODULE MCUpdate ------------------------------
(***************************************************************************)
(* A device with one context, and a firmware of two chunks waiting for it. *)
(***************************************************************************)
EXTENDS UpdateAgent

CONSTANTS t1, c1

One == {t1}
OneContext == {c1}
Id == c1 :> 1
MCWorkBuffers == {[size |-> 512, addr |-> 8]}
MCParams == 1 :> Uint(5)
MCImages == 4 :> 3
MCDesired == 1 :> Uint(4)

(* Without misfortune the updater makes eight calls before it rests; a     *)
(* reset makes it start over.                                              *)
MCCalls == t1 :> AgentCalls
MCMaxCalls == t1 :> 24
=============================================================================
