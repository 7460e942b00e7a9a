--------------------------- MODULE MessageChannel ---------------------------
(***************************************************************************)
(* What a MessageConn of pkg/rdma/verbs_linux_cgo.go amounts to, seen from *)
(* one direction.  conn.go promises "an ordered, reliable message          *)
(* channel": messages are delivered in the order they were sent, each      *)
(* once, until the receiver meets an error or closes; from then on nothing *)
(* is delivered.  A payload that the sender WRITEs to a place in shared    *)
(* memory stays there until it is read, and nothing stops a later message  *)
(* from being written over it: its receiver then gets the later payload.   *)
(* With no two messages at one place the channel is the promised one.      *)
(***************************************************************************)
EXTENDS Naturals, Sequences

CONSTANTS
    Message,   \* records of an id and the place of the payload
    NoPlace    \* the place of a message that brings its payload along

VARIABLES
    chan,    \* sent and not yet delivered
    got,     \* the payloads delivered: ids of the messages they belong to
    broken   \* the receiver has met an error or is closed

vars == <<chan, got, broken>>

Init == chan = <<>> /\ got = <<>> /\ broken = FALSE

Send(m) ==
    /\ chan' = IF broken THEN chan ELSE Append(chan, m)
    /\ UNCHANGED <<got, broken>>

\* The payload of the i-th message is what the first one's receiver finds.
Found(i) ==
    \/ i = 1
    \/ chan[1].place # NoPlace /\ chan[i].place = chan[1].place

Recv ==
    /\ chan # <<>>
    /\ \E i \in 1..Len(chan) : Found(i) /\ got' = Append(got, chan[i].id)
    /\ chan' = Tail(chan)
    /\ UNCHANGED broken

Fail ==
    /\ broken' = TRUE
    /\ chan' = <<>>
    /\ UNCHANGED got

Next == (\E m \in Message : Send(m)) \/ Recv \/ Fail

Spec == Init /\ [][Next]_vars
=============================================================================
