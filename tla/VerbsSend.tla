----------------------------- MODULE VerbsSend -----------------------------
(***************************************************************************)
(* The send side of one verbs connection (pkg/rdma/verbs_linux_cgo.go): a  *)
(* ring of Depth staging buffers and work requests behind two 32-bit       *)
(* counters, tx_prod and send_completed, with completions requested for    *)
(* some of the work requests only and reaped only when the ring is full or *)
(* an RDMA WRITE has to be waited for.  One sender at a time: the client's *)
(* sendLoop, the server's sendMu.                                          *)
(*                                                                         *)
(* A message is a number of frames.  The adapter executes work requests in *)
(* order; after an error every work request is flushed with an error.      *)
(***************************************************************************)
EXTENDS Integers, Sequences

CONSTANTS
    Depth,      \* send_depth
    Mod,        \* counters are modulo Mod (2^32 in the code)
    Interval,   \* send_signal_interval
    MaxFrames,  \* longest message, in frames
    Inline,     \* whether a frame may fit the inline threshold
    MRs,        \* where an RDMA WRITE may read the payload from
    Faults      \* what may go wrong: "timeout", "post", "qp"

ASSUME RingAssumption == /\ Mod \in Nat \ {0}
                         /\ Depth \in Nat \ {0} /\ Depth < Mod \div 2
                         /\ Interval \in Nat \ {0}
                         /\ MaxFrames \in Nat \ {0}
ASSUME SendEnvironment == /\ Inline \subseteq BOOLEAN /\ Inline # {}
                          /\ MRs \subseteq {"reg", "shared", "staged"}
                          /\ Faults \subseteq {"timeout", "post", "qp"}

VARIABLES
    tx,      \* tx_prod
    done,    \* send_completed
    sq,      \* work requests posted and not yet executed
    cq,      \* completions not yet polled
    qp,      \* the queue pair works, or is in the error state
    op       \* the sending function that is running

ringVars == <<tx, done, sq, cq>>
vars == <<ringVars, qp, op>>

Counter == 0..(Mod - 1)
\* What a work request reads when it is executed: staging slot 0..Depth-1, the
\* caller's payload, or nothing (an inline SEND was copied by ibv_post_send).
Payload == -1
Inlined == -2
Source  == Inlined..(Depth - 1)

\* Its local variables: where it is, the frames it has yet to post, whether it
\* is an RDMA WRITE (data, then a notify frame), where its data is read from,
\* writes_start and writes_done_target.
Op == [pc: {"idle", "frame", "write", "drain", "cleanup"}, left: 0..MaxFrames,
       rw: BOOLEAN, mr: {"reg", "shared", "staged"}, start: Counter, target: Counter]

TypeOK ==
    /\ tx \in Counter /\ done \in Counter
    /\ sq \in Seq([id: Counter, sig: BOOLEAN, src: Source])
    /\ cq \in Seq([id: Counter, ok: BOOLEAN])
    /\ qp \in {"ok", "err"}
    /\ op \in Op

\* No sending function is running.
NoOp == [pc |-> "idle", left |-> 0, rw |-> FALSE, mr |-> "staged",
         start |-> 0, target |-> 0]

Init ==
    /\ tx = 0 /\ done = 0
    /\ sq = <<>> /\ cq = <<>>
    /\ qp = "ok"
    /\ op = NoOp

-----------------------------------------------------------------------------
\* Unsigned and signed differences of two counters.
Diff(a, b)  == (a - b) % Mod
After(a, b) == LET d == Diff(a, b) IN 0 < d /\ d < Mod \div 2

\* Mutant of Plus1: the counter does not wrap.
Plus1Unbounded(a) == a + 1

Plus1(a) == (a + 1) % Mod

\* Mutant of Full: one work request too many.
FullOffByOne == Diff(tx, done) > Depth

\* wait_local_send_slot waits while the ring is full.
Full == Diff(tx, done) >= Depth

\* Mutant of NeedSignal: the ring may fill up without a signaled request.
NeedSignalInterval(force) ==
    force \/ Interval <= 1 \/ Plus1(tx) % Interval = 0

\* Which SENDs ask for a completion.
NeedSignal(force) ==
    \/ force
    \/ Interval <= 1
    \/ Plus1(tx) % Interval = 0
    \/ Diff(tx, done) + 1 >= Depth

\* ibv_post_send of one work request.
Post(sig, src) ==
    /\ sq' = Append(sq, [id |-> tx, sig |-> sig, src |-> src])
    /\ tx' = Plus1(tx)

\* Mutant of Slot: the slot is taken from the other counter.
SlotByCompleted == done % Depth

\* The staging buffer of the next work request.
Slot == tx % Depth

\* The function returns, through its cleanup if it is an RDMA WRITE.
Leave == op' = IF op.rw /\ op.pc # "cleanup"
               THEN [op EXCEPT !.pc = "cleanup", !.left = 0] ELSE NoOp

\* go_rdma_send_message: at least one frame (an empty message returns at once).
SendMessage(n) ==
    /\ op.pc = "idle"
    /\ op' = [NoOp EXCEPT !.pc = "frame", !.left = n]
    /\ UNCHANGED <<ringVars, qp>>

\* go_rdma_send_message_rw and _rw_at past their checks: ibv_reg_mr of the
\* payload works, or the payload lies in the shared region, or it is staged.
SendMessageRW(n, m) ==
    /\ op.pc = "idle"
    /\ op' = [pc |-> "write", left |-> n, rw |-> TRUE, mr |-> m, start |-> tx, target |-> 0]
    /\ UNCHANGED <<ringVars, qp>>

\* go_rdma_send_frame with a free slot; the last frame forces a completion.
PostFrame ==
    /\ op.pc = "frame"
    /\ ~Full
    /\ \E inl \in Inline : Post(NeedSignal(op.left = 1), IF inl THEN Inlined ELSE Slot)
    /\ \/ op.left = 1 /\ Leave
       \/ op.left > 1 /\ op' = [op EXCEPT !.left = @ - 1]
    /\ UNCHANGED <<done, cq, qp>>

\* One chunk of an RDMA WRITE, always signaled.
PostWrite ==
    /\ op.pc = "write"
    /\ ~Full
    /\ Post(TRUE, IF op.mr = "staged" THEN Slot ELSE Payload)
    /\ op' = IF op.left = 1
             THEN [op EXCEPT !.left = 0, !.pc = "drain", !.target = tx']
             ELSE [op EXCEPT !.left = @ - 1]
    /\ UNCHANGED <<done, cq, qp>>

\* wait_send_completed_until(writes_done_target), then the notify frame.
Drained ==
    /\ op.pc = "drain"
    /\ ~After(op.target, done)
    /\ op' = [op EXCEPT !.pc = "frame", !.left = 1]
    /\ UNCHANGED <<ringVars, qp>>

\* Mutant of MustWait: cleanup forgets to wait before deregistering.
MustWaitNoCleanup == FALSE

\* cleanup waits, without a deadline, for everything posted from payload_mr.
MustWait == op.mr = "reg" /\ After(tx, op.start) /\ After(tx, done)

Cleanup ==
    /\ op.pc = "cleanup"
    /\ ~MustWait
    /\ Leave
    /\ UNCHANGED <<ringVars, qp>>

Waiting == \/ op.pc \in {"frame", "write"} /\ Full
           \/ op.pc = "drain" /\ After(op.target, done)
           \/ op.pc = "cleanup" /\ MustWait

\* go_rdma_reap_data_send_completion.
Reap ==
    /\ Waiting
    /\ cq # <<>>
    /\ cq' = Tail(cq)
    /\ LET wc == Head(cq)
           d == Plus1(wc.id)
       IN \/ /\ wc.ok
             /\ done' = IF After(d, done) THEN d ELSE done
             /\ UNCHANGED op
          \/ /\ ~wc.ok
             /\ UNCHANGED done
             /\ Leave
    /\ UNCHANGED <<tx, sq, qp>>

\* poll_cq_with_timeout: EAGAIN at the deadline; the cleanup has none.
Timeout ==
    /\ "timeout" \in Faults
    /\ Waiting
    /\ cq = <<>>
    /\ op.pc # "cleanup"
    /\ Leave
    /\ UNCHANGED <<ringVars, qp>>

\* ibv_post_send fails.
PostFail ==
    /\ "post" \in Faults
    /\ op.pc \in {"frame", "write"}
    /\ ~Full
    /\ Leave
    /\ UNCHANGED <<ringVars, qp>>

\* The adapter executes a work request.
Execute ==
    /\ sq # <<>>
    /\ sq' = Tail(sq)
    /\ cq' = IF qp = "err" \/ Head(sq).sig
             THEN Append(cq, [id |-> Head(sq).id, ok |-> qp = "ok"]) ELSE cq
    /\ UNCHANGED <<tx, done, qp, op>>

\* The peer is gone or a retry limit is reached.
Break ==
    /\ "qp" \in Faults
    /\ qp = "ok"
    /\ qp' = "err"
    /\ UNCHANGED <<ringVars, op>>

Sender == \/ PostFrame
          \/ PostWrite
          \/ Drained
          \/ Cleanup
          \/ Reap

Next ==
    \/ \E n \in 1..MaxFrames : SendMessage(n)
    \/ \E n \in 1..MaxFrames, m \in MRs : SendMessageRW(n, m)
    \/ Sender
    \/ Timeout
    \/ PostFail
    \/ Execute
    \/ Break

Spec == Init /\ [][Next]_vars

\* The sending thread runs and the adapter works.  Calls, faults and deadlines are
\* not forced: a send must not need its deadline to return.
FairSpec == Spec /\ WF_vars(Sender) /\ WF_vars(Execute)

-----------------------------------------------------------------------------
\* The send queue (max_send_wr is Depth) and the larger completion queue
\* never overflow: what is posted and not reaped fits the ring
\* (wait_local_send_slot), across counter wrap-around, timeouts and errors.
RingBound == Len(sq) + Len(cq) <= Depth

\* A staging buffer is not overwritten while an executed-later SEND or WRITE
\* still has to read it: posted work requests read distinct slots.
SlotExclusive ==
    \A i, j \in 1..Len(sq) :
        i # j /\ sq[i].src >= 0 => sq[i].src # sq[j].src

\* go_rdma_send_frame: "Always keep at least one signaled WQE to guarantee
\* progress": whoever waits for a completion has one coming.
WaitHasSignal ==
    Waiting /\ qp = "ok" => cq # <<>> \/ \E i \in 1..Len(sq) : sq[i].sig

\* Once the function has returned the adapter no longer reads the caller's
\* payload (the cleanup waits before ibv_dereg_mr), unless it has stopped.
PayloadNotRetained ==
    op.pc = "idle" /\ qp = "ok" => \A i \in 1..Len(sq) : sq[i].src # Payload

\* Every send returns: no wait for a completion that nobody will generate, in
\* the ring, in the drain or in the cleanup.
SendReturns == op.pc # "idle" ~> op.pc = "idle"

\* The same while the queue pair works, though completions are requested for some
\* work requests only and earlier sends gave up half-way (go_rdma_send_frame's
\* choice of signaled requests, wait_local_send_slot).
SendReturnsWhileUp == op.pc # "idle" ~> op.pc = "idle" \/ qp = "err"
=============================================================================
