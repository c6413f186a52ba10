-------------------------------- MODULE Host --------------------------------
(***************************************************************************)
(* What nasd keeps for the host by itself: the documents that a request    *)
(* replaces and the targets of Wake-on-LAN.  They share no state.          *)
(***************************************************************************)
EXTENDS HostSettings, WakeOnLan

\* What was asked for holds: a document whose request met no error is in
\* force, after a restart too (HostSettings), and a wake reaches the machine its
\* target was added for (WakeOnLan).
AsAsked == InForce /\ WokenAsAdded
=============================================================================
