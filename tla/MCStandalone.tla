---------------------------- MODULE MCStandalone ----------------------------
(* Two listen addresses. *)
EXTENDS Standalone
CONSTANTS a1, a2
MCListen == <<a1, a2>>
=============================================================================
