---------------------------- MODULE MCVerbsSend ----------------------------
(* Small instances of VerbsSend.                                           *)
EXTENDS VerbsSend
=============================================================================
