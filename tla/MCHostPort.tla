----------------------------- MODULE MCHostPort -----------------------------
(***************************************************************************)
(* HostPort with a few calls: two in flight together, and one made after   *)
(* the connection is gone.                                                 *)
(***************************************************************************)
EXTENDS HostPort
=============================================================================
