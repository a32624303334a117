-------------------------- MODULE MCTerminalStore ---------------------------
(* Instance of TerminalStore: one drone, a packet event of it and a system event. *)
EXTENDS TerminalStore

CONSTANTS d1, none

MCSourceOf == <<d1, none>>
=============================================================================
