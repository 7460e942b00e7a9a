----------------------------- MODULE VerbsRecv -----------------------------
(***************************************************************************)
(* The receive side of one verbs connection (pkg/rdma/verbs_linux_cgo.go): *)
(* Depth notify slots that are posted, filled by the adapter, handed out   *)
(* as views of C memory and posted again; the region that RDMA WRITEs of   *)
(* the peer fill; RecvMessage, RecvBorrowedMessage, Release and Close.     *)
(*                                                                         *)
(* One goroutine receives (the client's recvLoop, the server's serveConn). *)
(* Borrowed messages are released by the application, which may be another *)
(* goroutine.  Locks are not variables: recvFrameMu and the read lock of   *)
(* mu are held exactly while rpc = "wait"; every other critical section is *)
(* one step.  Messages are numbered in the order they are sent.            *)
(***************************************************************************)
EXTENDS Integers, Sequences

CONSTANTS
    Depth,      \* notify_depth
    RwSlots,    \* peer_rw_slots of the sender
    Offsets,    \* where SendMessageAt may write; RW slots too (one address space)
    Kinds,      \* how the peer sends: "frame", "rw" (SendMessage), "at"
    MaxMsgs,    \* bound: messages sent
    Window,     \* frames the peer may have posted and not landed
    ClosedBy,   \* who calls Close: "receiver" (server) or "other" (client)
    Ahead,      \* whether receiving goes on while a SEND frame is borrowed
    Reuse,      \* whether a range is written again before it was read, as after
                \* a GET or PUT that timed out
    Faults      \* what may go wrong: "post", "ctx", "stop", "wc"

Slots == 1..Depth
Msgs  == 1..MaxMsgs
Cells == 0..(RwSlots - 1) \cup Offsets
NoSlot == 0
NoCell == -1

ASSUME RecvAssumption ==
    /\ Depth \in Nat \ {0} /\ RwSlots \in Nat \ {0}
    /\ MaxMsgs \in Nat /\ Window \in Nat \ {0}
    /\ Offsets \subseteq Nat
ASSUME RecvEnvironment ==
    /\ Kinds \subseteq {"frame", "rw", "at"}
    /\ ClosedBy \in {"receiver", "other"}
    /\ Ahead \in BOOLEAN /\ Reuse \in BOOLEAN
    /\ Faults \subseteq {"post", "ctx", "stop", "wc"}

\* What a work request of the peer carries: message m, or, with cell # NoCell,
\* the WRITE of its payload ("write") or the notify frame for it.
Frame == [k: {"frame", "write", "rw", "at"}, m: 0..MaxMsgs, cell: Cells \cup {NoCell}]
Empty == [k |-> "frame", m |-> 0, cell |-> NoCell]

VARIABLES
    sent,     \* messages sent so far
    place,    \* history: the cell each of them went to, NoCell for a SEND
    rwSeq,    \* rw_send_seq of the peer
    notify,   \* the peer waits for its WRITE and then sends this frame
    wire,     \* posted by the peer, not yet landed
    rq, cq,   \* slots posted for receiving; completions not yet polled
    buf,      \* contents of the notify slots
    cell,     \* contents of the RW region: the message last written
    last,     \* last_notify_slot, NoSlot when has_last_notify_slot is 0
    rpc,      \* where the receiving goroutine is
    cur,      \* its locals: the call, the slot of the frame, what it parsed
    held,     \* borrowed messages that the application has not released
    got,      \* history: what was delivered until Close, in order
    cc,       \* the C connection: "open", "nil" (c.cc cleared), "freed"
    clpc      \* Close: "no", "lock" (waits for c.mu), "free", "done"

peerVars == <<sent, place, rwSeq, notify>>
slotVars == <<rq, cq, buf, last>>
closeVars == <<cc, clpc>>
vars == <<peerVars, wire, slotVars, cell, rpc, cur, held, got, closeVars>>

\* A borrowed message: its place, and whether Release reposts a slot.
Borrowed == [m: 0..MaxMsgs, slot: Slots \cup {NoSlot}, cell: Cells \cup {NoCell}]
NoCur == [call |-> "message", slot |-> NoSlot, f |-> Empty]

TypeOK ==
    /\ sent \in 0..MaxMsgs /\ rwSeq \in Nat
    /\ place \in Seq(Cells \cup {NoCell}) /\ Len(place) = sent
    /\ notify \in Seq(Frame) /\ wire \in Seq(Frame)
    /\ rq \in Seq(Slots) /\ cq \in Seq(Slots)
    /\ buf \in [Slots -> Frame]
    /\ cell \in [Cells -> 0..MaxMsgs]
    /\ last \in Slots \cup {NoSlot}
    /\ rpc \in {"idle", "enter", "wait", "parse", "rwget", "repost", "rwcopy",
                "copy", "release", "dead"}
    /\ cur \in [call: {"message", "borrow"}, slot: Slots \cup {NoSlot}, f: Frame]
    /\ held \subseteq Borrowed
    /\ got \in Seq(0..MaxMsgs)
    /\ cc \in {"open", "nil", "freed"} /\ clpc \in {"no", "lock", "free", "done"}

\* ensure_ready is over: every slot is posted (init_notify_slots) and the
\* descriptors are exchanged.
Init ==
    /\ sent = 0 /\ place = <<>> /\ rwSeq = 0 /\ notify = <<>> /\ wire = <<>>
    /\ rq = [i \in 1..Depth |-> i] /\ cq = <<>>
    /\ buf = [s \in Slots |-> Empty]
    /\ cell = [c \in Cells |-> 0]
    /\ last = NoSlot
    /\ rpc = "idle" /\ cur = NoCur /\ held = {} /\ got = <<>>
    /\ cc = "open" /\ clpc = "no"

-----------------------------------------------------------------------------
(***************************************************************************)
(* The peer.                                                               *)
(***************************************************************************)
CanSend == sent < MaxMsgs /\ notify = <<>> /\ Len(wire) < Window

\* go_rdma_send_message of a message that fits a frame.
SendFrame ==
    /\ "frame" \in Kinds /\ CanSend
    /\ sent' = sent + 1 /\ place' = Append(place, NoCell)
    /\ wire' = Append(wire, [k |-> "frame", m |-> sent', cell |-> NoCell])
    /\ UNCHANGED <<rwSeq, notify, slotVars, cell, rpc, cur, held, got, closeVars>>

\* Mutant of SendWrite: rw_send_seq has moved on when the notify frame is made.
SendWriteNextSlot(k, c) ==
    /\ sent' = sent + 1 /\ place' = Append(place, c)
    /\ wire' = Append(wire, [k |-> "write", m |-> sent', cell |-> c])
    /\ notify' = <<[k |-> k, m |-> sent', cell |-> IF k = "rw" THEN (c + 1) % RwSlots ELSE c]>>
    /\ UNCHANGED <<slotVars, cell, rpc, cur, held, got, closeVars>>

SendWrite(k, c) ==
    /\ sent' = sent + 1 /\ place' = Append(place, c)
    /\ wire' = Append(wire, [k |-> "write", m |-> sent', cell |-> c])
    /\ notify' = <<[k |-> k, m |-> sent', cell |-> c]>>
    /\ UNCHANGED <<slotVars, cell, rpc, cur, held, got, closeVars>>

\* Mutant of RwCell: the sequence number is used as it is.
RwCellNoWrap == rwSeq

\* rw_send_seq % peer_rw_slots.
RwCell == rwSeq % RwSlots

\* SendMessage of a message larger than a frame: go_rdma_send_message_rw.
SendRW ==
    /\ "rw" \in Kinds /\ CanSend
    /\ SendWrite("rw", RwCell)
    /\ rwSeq' = rwSeq + 1

\* No message that was sent to this range is still to be read.  This is what
\* PutZeroCopy and GetZeroCopy wait for, as long as they do not time out: the answer
\* to a PUT follows its payload's receipt, a GET returns with its payload.
RangeFree(c) ==
    /\ \A i \in 1..Len(wire) : wire[i].cell # c
    /\ \A i \in 1..Len(cq) : buf[cq[i]].cell # c
    /\ rpc = "parse" => buf[cur.slot].cell # c
    /\ cur.f.cell # c
    /\ \A h \in held : h.cell # c

\* SendMessageAt.
SendAt(c) ==
    /\ "at" \in Kinds /\ CanSend
    /\ Reuse \/ RangeFree(c)
    /\ SendWrite("at", c)
    /\ UNCHANGED rwSeq

\* The WRITE has completed (everything before it has landed): the notify frame.
SendNotify ==
    /\ notify # <<>> /\ wire = <<>>
    /\ wire' = notify /\ notify' = <<>>
    /\ UNCHANGED <<sent, place, rwSeq, slotVars, cell, rpc, cur, held, got, closeVars>>

\* The adapter: in order, a WRITE needs no slot, a SEND waits for a posted one.
Land ==
    /\ wire # <<>> /\ cc = "open"
    /\ wire' = Tail(wire)
    /\ LET f == Head(wire)
       IN \/ /\ f.k = "write"
             /\ cell' = [cell EXCEPT ![f.cell] = f.m]
             /\ UNCHANGED <<rq, cq, buf>>
          \/ /\ f.k # "write" /\ rq # <<>>
             /\ buf' = [buf EXCEPT ![Head(rq)] = f]
             /\ cq' = Append(cq, Head(rq)) /\ rq' = Tail(rq)
             /\ UNCHANGED cell
    /\ UNCHANGED <<peerVars, last, rpc, cur, held, got, closeVars>>

-----------------------------------------------------------------------------
(***************************************************************************)
(* The receiving goroutine.                                                *)
(***************************************************************************)
recvRest == <<peerVars, wire, cell, closeVars>>

\* c.mu.RLock succeeds: no writer holds the lock or waits for it.
RLockFree == clpc # "lock"

\* Mutant of ReleaseLast: the slot is forgotten.
ReleaseLastForgets == last' = NoSlot /\ UNCHANGED rq

\* Mutant of ReleaseLast: has_last_notify_slot is not reset.
ReleaseLastKeeps == rq' = (IF last = NoSlot THEN rq ELSE Append(rq, last)) /\ UNCHANGED last

\* go_rdma_release_last_recv_slot: nothing to do, or the slot is posted again.
ReleaseLast ==
    /\ rq' = IF last = NoSlot THEN rq ELSE Append(rq, last)
    /\ last' = NoSlot

PostFails == "post" \in Faults /\ last # NoSlot

\* The call returns an error and the receiving loop ends; or it returns because
\* its context is done, and may be repeated.
Die == rpc' = "dead" /\ cur' = NoCur
Idle == rpc' = "idle" /\ cur' = NoCur

\* RecvMessage or RecvBorrowedMessage is called; payloads in the RW region may be
\* with the application meanwhile.
Call(c) ==
    /\ rpc = "idle"
    /\ Ahead \/ \A h \in held : h.slot = NoSlot
    /\ rpc' = "enter" /\ cur' = [NoCur EXCEPT !.call = c]
    /\ UNCHANGED <<recvRest, slotVars, held, got>>

\* The receiving loop ends by itself (a message that does not decode).
Stop ==
    /\ "stop" \in Faults /\ rpc = "idle" /\ held = {}
    /\ Die
    /\ UNCHANGED <<recvRest, slotVars, held, got>>

\* RecvFrame up to the poll: the slot of the last message is posted again,
\* whoever still looks at it.
RecvFrame ==
    /\ rpc = "enter"
    /\ \/ cc = "open" /\ RLockFree /\ ReleaseLast
          /\ rpc' = "wait" /\ UNCHANGED cur
       \/ cc = "open" /\ RLockFree /\ PostFails /\ Die /\ UNCHANGED <<rq, last>>
       \/ cc # "open" /\ Die /\ UNCHANGED <<rq, last>>
    /\ UNCHANGED <<recvRest, cq, buf, held, got>>

\* The context is done: the call returns, having consumed nothing.
RecvExpired ==
    /\ "ctx" \in Faults /\ rpc = "enter"
    /\ Idle
    /\ UNCHANGED <<recvRest, slotVars, held, got>>

\* go_rdma_recv_frame has a completion; both locks are released.
RecvCompletion ==
    /\ rpc = "wait" /\ cq # <<>>
    /\ cq' = Tail(cq) /\ last' = Head(cq)
    /\ rpc' = "parse" /\ cur' = [cur EXCEPT !.slot = Head(cq)]
    /\ UNCHANGED <<recvRest, rq, buf, held, got>>

\* go_rdma_recv_frame fails.  The poll itself does, or a completion was taken whose
\* status, opcode, wr_id or length is refused: its slot is neither posted again nor
\* recorded as the last one.
RecvBroken ==
    /\ "wc" \in Faults /\ rpc = "wait"
    /\ cq' = cq \/ (cq # <<>> /\ cq' = Tail(cq))
    /\ Die
    /\ UNCHANGED <<recvRest, rq, buf, last, held, got>>

\* Mutant of RecvTimeout: without a poll interval only a completion ends the poll.
RecvNoInterval == FALSE

\* EAGAIN after the poll interval or at the deadline: round the loop.
RecvTimeout ==
    /\ rpc = "wait" /\ cq = <<>>
    /\ rpc' = "enter"
    /\ UNCHANGED <<recvRest, slotVars, cur, held, got>>

\* The frame is read through the view, without a lock.  Freed memory may hold
\* anything.
View(s) == IF cc = "freed" THEN {Empty} \cup {buf[t] : t \in Slots} ELSE {buf[s]}

\* The call returns message m.  What it returns when Close has cleared c.cc under it
\* is none of the channel's (ViewsLive is about that).
Deliver(m) == got' = IF cc = "open" THEN Append(got, m) ELSE got

\* Mutant of Lend: the slot of a borrowed frame is posted at once.
LendEarly ==
    /\ held' = held \cup {[m |-> buf[cur.slot].m, slot |-> cur.slot, cell |-> NoCell]}
    /\ ReleaseLast

\* A SEND frame is lent as it is.
Lend ==
    /\ held' = held \cup {[m |-> buf[cur.slot].m, slot |-> cur.slot, cell |-> NoCell]}
    /\ UNCHANGED <<rq, last>>

\* parseWriteNotifyFrame, and the return of a borrowed SEND frame.
Parse ==
    /\ rpc = "parse"
    /\ \E f \in View(cur.slot) :
        \/ /\ f.cell # NoCell
           /\ rpc' = "rwget" /\ cur' = [cur EXCEPT !.f = f]
           /\ UNCHANGED <<rq, last, held, got>>
        \/ /\ f.cell = NoCell /\ cur.call = "borrow"
           /\ Lend /\ Idle /\ Deliver(f.m)
        \/ /\ f.cell = NoCell /\ cur.call = "message"
           /\ rpc' = "copy" /\ UNCHANGED <<rq, last, cur, held, got>>
    /\ UNCHANGED <<recvRest, cq, buf>>

\* getRWRecvPayload and getRWRecvPayloadAt.
RwGet ==
    /\ rpc = "rwget" /\ RLockFree
    /\ \/ cc = "open" /\ rpc' = "repost" /\ UNCHANGED cur
       \/ cc # "open" /\ Die
    /\ UNCHANGED <<recvRest, slotVars, held, got>>

\* RepostFrame fails: closed, no slot to repost, or the post itself.
RepostFails ==
    /\ cc # "open" \/ last = NoSlot \/ PostFails
    /\ UNCHANGED <<rq, last>>

\* RepostFrame, called by whoever holds a borrowed SEND.
RepostFrame ==
    /\ RLockFree
    /\ cc = "open" /\ last # NoSlot /\ ReleaseLast

\* RecvBorrowedMessage posts the notify slot again and returns the payload.
RwRepost ==
    /\ rpc = "repost" /\ RLockFree
    /\ \/ /\ RepostFrame
          /\ \/ /\ cur.call = "borrow"
                /\ held' = held \cup {[m |-> cur.f.m, slot |-> NoSlot, cell |-> cur.f.cell]}
                /\ Deliver(cell[cur.f.cell])
                /\ Idle
             \/ /\ cur.call = "message"
                /\ rpc' = "rwcopy" /\ UNCHANGED <<cur, held, got>>
       \/ RepostFails /\ Die /\ UNCHANGED <<held, got>>
    /\ UNCHANGED <<recvRest, cq, buf>>

\* RecvMessage copies the payload; its Release has nothing to do.  The region a
\* client receives into is the application's memory, which Close does not free.
RwCopy ==
    /\ rpc = "rwcopy"
    /\ Deliver(cell[cur.f.cell])
    /\ Idle
    /\ UNCHANGED <<recvRest, slotVars, held>>

\* RecvMessage copies a SEND frame, then releases it; when the release fails
\* the copy is dropped.
Copy ==
    /\ rpc = "copy"
    /\ \E f \in View(cur.slot) : cur' = [cur EXCEPT !.f = f]
    /\ rpc' = "release"
    /\ UNCHANGED <<recvRest, slotVars, held, got>>

CopyRelease ==
    /\ rpc = "release" /\ RLockFree
    /\ \/ RepostFrame /\ Idle /\ Deliver(cur.f.m)
       \/ RepostFails /\ Die /\ UNCHANGED got
    /\ UNCHANGED <<recvRest, cq, buf, held>>

\* The application releases a borrowed message: an RW payload needs nothing, a
\* SEND reposts the slot received last, whichever that is.  recvFrameMu is
\* held by a receive that waits.
Release(h) ==
    /\ h \in held
    /\ held' = held \ {h}
    /\ \/ h.slot = NoSlot /\ UNCHANGED <<rq, last>>
       \/ h.slot # NoSlot /\ rpc # "wait" /\ RLockFree /\ (RepostFrame \/ RepostFails)
    /\ UNCHANGED <<recvRest, cq, buf, rpc, cur, got>>

-----------------------------------------------------------------------------
(***************************************************************************)
(* Close.                                                                  *)
(***************************************************************************)
closeRest == <<peerVars, wire, slotVars, cell, rpc, cur, held, got>>

\* serveConn closes after its loop; Client.Close while recvLoop runs.
CloseBegin ==
    /\ clpc = "no"
    /\ ClosedBy = "other" \/ (rpc = "dead" /\ held = {})
    /\ clpc' = "lock"
    /\ UNCHANGED <<closeRest, cc>>

\* c.mu.Lock: the poll of a receive has to end first.
CloseLocked ==
    /\ clpc = "lock" /\ rpc # "wait"
    /\ cc' = "nil" /\ clpc' = "free"
    /\ UNCHANGED closeRest

\* go_rdma_free_conn, outside the lock.
CloseFree ==
    /\ clpc = "free"
    /\ cc' = "freed" /\ clpc' = "done"
    /\ UNCHANGED closeRest

-----------------------------------------------------------------------------
Receiver == \/ \E c \in {"message", "borrow"} : Call(c)
            \/ RecvFrame
            \/ RecvCompletion
            \/ Parse
            \/ RwGet
            \/ RwRepost
            \/ RwCopy
            \/ Copy
            \/ CopyRelease

Close == CloseBegin \/ CloseLocked \/ CloseFree

Next ==
    \/ SendFrame
    \/ SendRW
    \/ \E c \in Offsets : SendAt(c)
    \/ SendNotify
    \/ Land
    \/ Receiver
    \/ RecvBroken
    \/ RecvTimeout
    \/ RecvExpired
    \/ Stop
    \/ \E h \in held : Release(h)
    \/ Close

Spec == Init /\ [][Next]_vars

\* The loop keeps receiving and releases what it borrowed, the adapter works, a poll
\* ends with its interval, and Close goes on once it was called; a context that is
\* not done when it is made lets some call reach the poll.
FairSpec == /\ Spec
            /\ WF_vars(Receiver) /\ SF_vars(RecvFrame)
            /\ WF_vars(RecvTimeout)
            /\ WF_vars(Land) /\ WF_vars(SendNotify)
            /\ WF_vars(\E h \in held : Release(h))
            /\ WF_vars(CloseLocked \/ CloseFree)

-----------------------------------------------------------------------------
(***************************************************************************)
(* Properties.                                                             *)
(***************************************************************************)
Distinct(q) == \A i, j \in 1..Len(q) : q[i] = q[j] => i = j
In(q) == {q[i] : i \in 1..Len(q)}

\* A notify slot is in one place: posted, completed, or the last one received.
\* Posted twice, two messages would land in it (release_last_recv_slot,
\* repost_recv).  It is lost, and the ring shrinks, only where the receiving loop
\* ends: recv_frame's error returns after a completion.
SlotOnce ==
    /\ Distinct(rq) /\ Distinct(cq)
    /\ In(rq) \cap In(cq) = {}
    /\ last \notin In(rq) \cup In(cq)
    /\ rpc # "dead" => Slots \subseteq In(rq) \cup In(cq) \cup {last}

\* A lent SEND frame is not overwritten before its Release, as long as nobody
\* receives in the meantime: one last_notify_slot is all the connection keeps.
BorrowedIntact ==
    \A h \in held : h.slot # NoSlot => buf[h.slot].m = h.m /\ last = h.slot

\* Nobody looks at a notify slot through a view after go_rdma_free_conn freed it:
\* RecvBorrowedMessage's parsing and RecvMessage's copying hold no lock.
ViewsLive ==
    cc = "freed" => /\ rpc \notin {"parse", "copy"}
                    /\ \A h \in held : h.slot = NoSlot

\* The channel is over for a receiver that met an error and after Close.
Over == rpc = "dead" \/ cc # "open"

\* Sent, and still to be delivered.
Message == [id: Msgs, place: Cells \cup {NoCell}]
Undelivered ==
    IF Over THEN <<>>
    ELSE [i \in 1..(sent - Len(got)) |->
            [id |-> Len(got) + i, place |-> place[Len(got) + i]]]

Channel == INSTANCE MessageChannel
           WITH NoPlace <- NoCell, chan <- Undelivered, broken <- Over

\* The receive side implements a reliable message channel that is in order but for
\* payloads overwritten in shared memory (MessageChannel): any mix of SENDs, RW slots
\* and offsets, however few RW slots and however early a range is used again,
\* RecvMessage and RecvBorrowedMessage, poll timeouts, expired contexts, failing
\* posts and completions, and a Close at any time.
InOrder == Channel!Spec

\* What conn.go promises, "an ordered, reliable message channel": the i-th message
\* delivered is the i-th that was sent.  It holds where no place in the shared memory
\* is written again too early (VerbsRecvProofs!OrderKept); a sender that laps the RW
\* slots, or Reuse, breaks it.
AsSent == \A i \in 1..Len(got) : got[i] = i

\* Every message is delivered in the end: timeouts lose none, no receive waits
\* with every slot elsewhere, no notify slot is forgotten.
AllDelivered == \A i \in Msgs : sent >= i ~> Len(got) >= i \/ rpc = "dead"

\* Close gets the lock although a receive polls again and again under its read side,
\* and returns (RecvFrame's poll interval, Close).
CloseFinishes == clpc = "lock" ~> clpc = "done"
=============================================================================
