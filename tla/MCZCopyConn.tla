---------------------------- MODULE MCZCopyConn ----------------------------
(* Small instances of ZCopyConn.                                           *)
EXTENDS ZCopyConn, TLC

Get(size, max, off) == [op |-> "get", size |-> size, max |-> max, off |-> off]
Put(size, off) == [op |-> "put", size |-> size, max |-> 0, off |-> off]
Ensure == [op |-> "ensure", size |-> 0, max |-> 0, off |-> 0]

\* A GET, one that exceeds its max, one of a missing key, and a PUT.
CoreRequests == {Get(1, 2, 0), Get(3, 2, 0), Get(-1, 1, 0), Put(1, 0)}

\* Every branch of the PUT and GET handlers, the odd sizes included: with a window of
\* 2 and a limit of 1, Put(2, 0) is refused by the server and its payload follows,
\* Put(1, 2) is accepted and its payload cannot be sent.
OddRequests == {Get(1, 1, 0), Get(0, 1, 0), Get(1, 0, 0), Put(0, 0), Put(1, 0),
                Put(2, 0), Put(1, 2), Ensure}

\* Well-formed requests only, for the run with an application that waits.
PatientRequests == {Get(1, 1, 0), Put(1, 0)}

GetRequests == {Get(1, 2, 0)}

Symmetry == Permutations(Calls \ {Hello})
=============================================================================
