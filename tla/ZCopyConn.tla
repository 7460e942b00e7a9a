----------------------------- MODULE ZCopyConn -----------------------------
(***************************************************************************)
(* One zero-copy connection: the client of pkg/rdma/client/client.go and   *)
(* the zcopyConn that serves it (internal/s3rdmaserver/zcopy/service.go;   *)
(* internal/inmems3/zcopy/service.go differs in waitCredit only).          *)
(*                                                                         *)
(* Client: any number of calling goroutines (Calls; a call is named by its *)
(* request id), sendLoop, recvLoop and Close.  Server: the serveConn loop  *)
(* and one goroutine per GET.  Between them two ordered channels of        *)
(* frames.  A frame [k, c] carries the message kind k of call c; sizes and *)
(* offsets that the real message repeats are read back from req[c], which  *)
(* never changes once the call has started.                                *)
(***************************************************************************)
EXTENDS Integers, Sequences, FiniteSets

CONSTANTS
    Calls,          \* request ids, Hello included
    Hello,          \* the handshake of New
    NoCall,         \* "no call" where a call is expected
    Requests,       \* what the application may ask for
    Credits,        \* computeSafeCredits: what hello_req announces
    QueueLen,       \* capacity of sendReqCh
    Window,         \* frames one direction of the transport can hold
    SharedLen,      \* length of the client's shared memory
    ServerWindow,   \* length of the server's receive region
    MaxObjectSize,  \* the server's PUT limit, 0 = none
    KeepGranted,    \* waitCredit honours credits after close (s3rdmaserver)
    Faults          \* which deadlines may pass, and whether Close is called

(***************************************************************************)
(* A request: for "put" size is the length of the source buffer, for "get" *)
(* size is that of the stored object (-1: no such key) and max the length  *)
(* of the target buffer; off is the shared-memory offset.                  *)
(***************************************************************************)
Request == [op: {"hello", "ensure", "put", "get"}, size: Int, max: Nat, off: Nat]

FaultKinds == {"call", "ack", "send", "data", "idle", "close"}

ASSUME CallsAssumption == /\ IsFiniteSet(Calls)
                          /\ Hello \in Calls
                          /\ NoCall \notin Calls
ASSUME RequestsAssumption == Requests \subseteq Request
ASSUME BoundsAssumption == /\ Credits \in Nat \ {0}
                           /\ QueueLen \in Nat \ {0}
                           /\ Window \in Nat \ {0}
                           /\ SharedLen \in Nat \ {0}
                           /\ ServerWindow \in Nat
                           /\ MaxObjectSize \in Nat
ASSUME EnvironmentAssumption == /\ KeepGranted \in BOOLEAN
                                /\ Faults \subseteq FaultKinds

VARIABLES
    req,      \* what each call asked for
    cpc,      \* where each call is
    outcome,  \* how each call returned
    expired,  \* calls whose context deadline has passed
    pending,  \* the pending map: calls whose result channel is registered
    ch,       \* contents of each call's result channel
    bor,      \* the payload borrowed together with a get_meta
    out,      \* the reply channel of each call's sendRequest
    sendQ,    \* sendReqCh; its head is the request sendLoop is working on
    putStep,  \* sendLoop has sent put_req and owes the payload
    slDone,   \* sendLoop has exited
    rpc,      \* where recvLoop is
    rcur,     \* the call of the get_meta recvLoop is working on
    ackst,    \* progress of sendAck(1) for each call's credit
    clpc,     \* where Client.Close is
    clcur,    \* the call whose release function Close is running
    cUp,      \* the client's transport endpoint is open
    c2s, s2c, \* frames in flight
    spc,      \* where the serveConn loop is
    scur,     \* the response (or the PUT) serveConn is working on
    credits,  \* zcopyConn.credits
    g,        \* where each GET goroutine is
    applied,  \* calls for which the server ran CreateBucket
    sUp,      \* the server's transport endpoint is open
    lent,     \* history: credits taken by waitCredit and not yet acked back
    granted   \* history: what hello_req announced, 0 before it is served

callVars   == <<req, cpc, outcome, expired, out>>
inboxVars  == <<pending, ch, bor>>
sendVars   == <<sendQ, putStep, slDone>>
recvVars   == <<rpc, rcur>>
closeVars  == <<clpc, clcur, cUp>>
clientVars == <<callVars, inboxVars, sendVars, recvVars, ackst, closeVars>>
creditVars == <<credits, lent, granted>>
serverVars == <<spc, scur, creditVars, g, applied, sUp>>
vars == <<clientVars, c2s, s2c, serverVars>>

ReqFrameKinds  == {"hello", "ensure", "put", "get", "ack", "data"}
RespKinds      == {"helloresp", "ok", "err"}
RespFrameKinds == RespKinds \cup {"meta", "data"}
C2SFrame == [k: ReqFrameKinds, c: Calls]
S2CFrame == [k: RespFrameKinds, c: Calls]
Frame(k, c) == [k |-> k, c |-> c]

(***************************************************************************)
(* Type invariant.                                                         *)
(***************************************************************************)
CallType ==
    /\ req \in [Calls -> Request]
    /\ cpc \in [Calls -> {"idle", "enq", "out", "wait", "reg", "held",
                          "rel", "errack", "done"}]
    /\ outcome \in [Calls -> {"none", "ok", "remote", "fail", "timeout", "closed"}]
    /\ expired \in SUBSET Calls
    /\ out \in [Calls -> {"none", "ok", "fail"}]
InboxType ==
    /\ pending \in SUBSET Calls
    /\ ch \in [Calls -> RespKinds \cup {"none", "meta", "fail"}]
    /\ bor \in [Calls -> Calls \cup {NoCall}]
LoopType ==
    /\ sendQ \in Seq([k: ReqFrameKinds \ {"data"}, c: Calls])
    /\ putStep \in BOOLEAN
    /\ slDone \in BOOLEAN
    /\ rpc \in {"ctl", "pay", "ack", "dead"}
    /\ rcur \in Calls \cup {NoCall}
    /\ ackst \in [Calls -> {"none", "enq", "out", "ok", "lost"}]
CloseType ==
    /\ clpc \in {"open", "rel", "chan", "wait", "done"}
    /\ clcur \in Calls \cup {NoCall}
    /\ cUp \in BOOLEAN
WireType ==
    /\ c2s \in Seq(C2SFrame)
    /\ s2c \in Seq(S2CFrame)
ServerType ==
    /\ spc \in {"recv", "reply", "payload", "drain", "closed"}
    /\ scur \in [k: RespKinds, c: Calls]
    /\ credits \in Nat
    /\ g \in [Calls -> {"none", "look", "err", "credit", "meta", "pay", "done"}]
    /\ applied \in SUBSET Calls
    /\ sUp \in BOOLEAN
    /\ lent \in SUBSET Calls
    /\ granted \in {0, Credits}
TypeOK == CallType /\ InboxType /\ LoopType /\ CloseType /\ WireType /\ ServerType

HelloRequest == [op |-> "hello", size |-> 0, max |-> 0, off |-> 0]

(***************************************************************************)
(* New has opened the connection, started both loops and entered hello.    *)
(***************************************************************************)
Init ==
    /\ req = [c \in Calls |-> HelloRequest]
    /\ cpc = [c \in Calls |-> IF c = Hello THEN "enq" ELSE "idle"]
    /\ outcome = [c \in Calls |-> "none"]
    /\ expired = {}
    /\ pending = {Hello}
    /\ ch = [c \in Calls |-> "none"]
    /\ bor = [c \in Calls |-> NoCall]
    /\ out = [c \in Calls |-> "none"]
    /\ sendQ = <<>>
    /\ putStep = FALSE
    /\ slDone = FALSE
    /\ rpc = "ctl"
    /\ rcur = NoCall
    /\ ackst = [c \in Calls |-> "none"]
    /\ clpc = "open"
    /\ clcur = NoCall
    /\ cUp = TRUE
    /\ c2s = <<>>
    /\ s2c = <<>>
    /\ spc = "recv"
    /\ scur = Frame("ok", Hello)
    /\ credits = 0
    /\ g = [c \in Calls |-> "none"]
    /\ applied = {}
    /\ sUp = TRUE
    /\ lent = {}
    /\ granted = 0

-----------------------------------------------------------------------------
(***************************************************************************)
(* The client's calls.                                                     *)
(***************************************************************************)
ClosedCh == clpc \in {"chan", "wait", "done"}

\* validateRef: the buffer lies inside the shared memory.
ValidRef(r) == LET n == IF r.op = "put" THEN r.size ELSE r.max
               IN  n >= 0 /\ r.off + n <= SharedLen

\* A call returns; its context is cancelled by the deferred cancel().
Return(c, how) ==
    /\ cpc' = [cpc EXCEPT ![c] = "done"]
    /\ outcome' = [outcome EXCEPT ![c] = how]

\* EnsureBucket, PutZeroCopy or GetZeroCopy begins: validate, registerPending.
Start(c, r) ==
    /\ cpc[c] = "idle"
    /\ outcome[Hello] = "ok"
    /\ r.op # "hello"
    /\ ValidRef(r)
    /\ req' = [req EXCEPT ![c] = r]
    /\ cpc' = [cpc EXCEPT ![c] = "enq"]
    /\ pending' = pending \cup {c}
    /\ UNCHANGED <<outcome, expired, out, ch, bor, sendVars, recvVars, ackst,
                   closeVars, c2s, s2c, serverVars>>

\* The deadline of the call's context passes.
Expire(c) ==
    /\ "call" \in Faults
    /\ cpc[c] \in {"enq", "out", "wait"}
    /\ c \notin expired
    /\ expired' = expired \cup {c}
    /\ UNCHANGED <<req, cpc, outcome, out, inboxVars, sendVars, recvVars, ackst,
                   closeVars, c2s, s2c, serverVars>>

\* sendReqCh has room; the head of sendQ has left it once sendLoop is there to
\* work on it.
QueueRoom == Len(sendQ) < IF slDone THEN QueueLen ELSE QueueLen + 1

\* sendSerialized, first select: room in sendReqCh.
Enqueue(c) ==
    /\ cpc[c] = "enq"
    /\ QueueRoom
    /\ sendQ' = Append(sendQ, Frame(req[c].op, c))
    /\ cpc' = [cpc EXCEPT ![c] = "out"]
    /\ UNCHANGED <<req, outcome, expired, out, inboxVars, putStep, slDone,
                   recvVars, ackst, closeVars, c2s, s2c, serverVars>>

\* sendSerialized gives up (context or closedCh): removePending and return.
SendAbandon(c) ==
    /\ cpc[c] \in {"enq", "out"}
    /\ \/ c \in expired /\ Return(c, "timeout")
       \/ ClosedCh /\ out[c] = "none" /\ Return(c, "closed")
    /\ pending' = pending \ {c}
    /\ UNCHANGED <<req, expired, out, ch, bor, sendVars, recvVars, ackst,
                   closeVars, c2s, s2c, serverVars>>

\* sendSerialized returns what sendLoop reported.
SendReturned(c) ==
    /\ cpc[c] = "out"
    /\ \/ /\ out[c] = "ok"
          /\ cpc' = [cpc EXCEPT ![c] = "wait"]
          /\ UNCHANGED <<outcome, pending>>
       \/ /\ out[c] = "fail"
          /\ Return(c, "fail")
          /\ pending' = pending \ {c}
    /\ UNCHANGED <<req, expired, out, ch, bor, sendVars, recvVars, ackst,
                   closeVars, c2s, s2c, serverVars>>

\* GetZeroCopy's checks of a get_meta and the payload borrowed with it.
GoodPayload(c) ==
    /\ req[c].size <= req[c].max
    /\ bor[c] # NoCall
    /\ req[bor[c]].size = req[c].size
    /\ req[bor[c]].off = req[c].off

\* waitResult returns the delivered result; a rejected payload is acked first.
TakeResult(c) ==
    /\ cpc[c] = "wait"
    /\ ch[c] # "none"
    /\ \/ ch[c] \in {"helloresp", "ok"} /\ Return(c, "ok") /\ UNCHANGED ackst
       \/ ch[c] = "err" /\ Return(c, "remote") /\ UNCHANGED ackst
       \/ ch[c] = "fail" /\ Return(c, "fail") /\ UNCHANGED ackst
       \/ /\ ch[c] = "meta" /\ GoodPayload(c)
          /\ cpc' = [cpc EXCEPT ![c] = "reg"]
          /\ UNCHANGED <<outcome, ackst>>
       \/ /\ ch[c] = "meta" /\ ~GoodPayload(c)
          /\ cpc' = [cpc EXCEPT ![c] = "errack"]
          /\ ackst' = [ackst EXCEPT ![c] = "enq"]
          /\ UNCHANGED outcome
    /\ ch' = [ch EXCEPT ![c] = "none"]
    /\ UNCHANGED <<req, expired, out, pending, bor, sendVars, recvVars,
                   closeVars, c2s, s2c, serverVars>>

\* waitResult returns on ctx.Done or closedCh; select may prefer either of
\* them to a result that is already in the channel.
WaitAbandon(c) ==
    /\ cpc[c] = "wait"
    /\ \/ /\ c \in expired
          /\ pending' = pending \ {c}
          /\ Return(c, "timeout")
       \/ /\ ClosedCh
          /\ Return(c, "closed")
          /\ UNCHANGED pending
    /\ UNCHANGED <<req, expired, out, ch, bor, sendVars, recvVars, ackst,
                   closeVars, c2s, s2c, serverVars>>

\* GetZeroCopy's error paths return once sendAck has.
ErrAckReturn(c) ==
    /\ cpc[c] = "errack"
    /\ ackst[c] \in {"ok", "lost"}
    /\ Return(c, "fail")
    /\ UNCHANGED <<req, expired, out, inboxVars, sendVars, recvVars, ackst,
                   closeVars, c2s, s2c, serverVars>>

\* registerRelease, and GetZeroCopy returns its BufferRef.
RegisterRelease(c) ==
    /\ cpc[c] = "reg"
    /\ clpc # "rel"
    /\ cpc' = [cpc EXCEPT ![c] = "held"]
    /\ outcome' = [outcome EXCEPT ![c] = "ok"]
    /\ UNCHANGED <<req, expired, out, inboxVars, sendVars, recvVars, ackst,
                   closeVars, c2s, s2c, serverVars>>

\* Mutant of Release: the token stays in releaseFns.
ReleaseKeepsToken(c) ==
    /\ cpc[c] = "held"
    /\ clpc # "rel"
    /\ ackst' = [ackst EXCEPT ![c] = "enq"]
    /\ UNCHANGED <<callVars, inboxVars, sendVars, recvVars, closeVars, c2s, s2c,
                   serverVars>>

\* The application calls Release: the token is deleted, its function runs.
Release(c) ==
    /\ cpc[c] = "held"
    /\ clpc # "rel"
    /\ cpc' = [cpc EXCEPT ![c] = "rel"]
    /\ ackst' = [ackst EXCEPT ![c] = "enq"]
    /\ UNCHANGED <<req, outcome, expired, out, inboxVars, sendVars, recvVars,
                   closeVars, c2s, s2c, serverVars>>

ReleaseReturn(c) ==
    /\ cpc[c] = "rel"
    /\ clcur # c
    /\ ackst[c] \in {"ok", "lost"}
    /\ cpc' = [cpc EXCEPT ![c] = "done"]
    /\ UNCHANGED <<req, outcome, expired, out, inboxVars, sendVars, recvVars,
                   ackst, closeVars, c2s, s2c, serverVars>>

\* sendAck(1): sendSerialized, first select.
AckEnqueue(c) ==
    /\ ackst[c] = "enq"
    /\ QueueRoom
    /\ sendQ' = Append(sendQ, Frame("ack", c))
    /\ ackst' = [ackst EXCEPT ![c] = "out"]
    /\ UNCHANGED <<callVars, inboxVars, putStep, slDone, recvVars, closeVars,
                   c2s, s2c, serverVars>>

\* sendAck returns without having sent: control timeout or closedCh.
AckAbandon(c) ==
    /\ ackst[c] \in {"enq", "out"}
    /\ "ack" \in Faults \/ ClosedCh
    /\ ackst' = [ackst EXCEPT ![c] = "lost"]
    /\ UNCHANGED <<callVars, inboxVars, sendVars, recvVars, closeVars, c2s,
                   s2c, serverVars>>

-----------------------------------------------------------------------------
(***************************************************************************)
(* sendLoop.  A request whose caller has gone has a cancelled context, and *)
(* SendMessage refuses it.                                                 *)
(***************************************************************************)
CtxDone(f) == IF f.k = "ack" THEN ackst[f.c] # "out"
                             ELSE f.c \in expired \/ cpc[f.c] = "done"

\* req.out <- err, and the request leaves the loop.
Report(f, res) ==
    /\ sendQ' = Tail(sendQ)
    /\ IF f.k = "ack"
       THEN /\ ackst' = IF ackst[f.c] = "out"
                        THEN [ackst EXCEPT ![f.c] = IF res = "ok" THEN "ok" ELSE "lost"]
                        ELSE ackst
            /\ UNCHANGED out
       ELSE /\ out' = [out EXCEPT ![f.c] = res]
            /\ UNCHANGED ackst

SendReady(f) == cUp /\ ~slDone /\ ~CtxDone(f)
C2SRoom == Len(c2s) < Window

\* One control message; put_req is followed by its payload (SendPayload).
SendControl ==
    /\ sendQ # <<>>
    /\ ~putStep
    /\ LET f == Head(sendQ) IN
       /\ SendReady(f)
       /\ C2SRoom
       /\ c2s' = Append(c2s, f)
       /\ IF f.k = "put" THEN putStep' = TRUE /\ UNCHANGED <<sendQ, out, ackst>>
                         ELSE Report(f, "ok") /\ UNCHANGED putStep
    /\ UNCHANGED <<req, cpc, outcome, expired, inboxVars, slDone, recvVars,
                   closeVars, s2c, serverVars>>

\* go_rdma_send_message_rw_at: an empty payload sends nothing at all, one that
\* does not fit the peer's region is refused.
FitsServer(r) == r.off + r.size <= ServerWindow

SendPayload ==
    /\ sendQ # <<>>
    /\ putStep
    /\ LET f == Head(sendQ) IN
       /\ SendReady(f)
       /\ \/ req[f.c].size = 0 /\ UNCHANGED c2s
          \/ /\ req[f.c].size > 0 /\ FitsServer(req[f.c]) /\ C2SRoom
             /\ c2s' = Append(c2s, Frame("data", f.c))
       /\ putStep' = FALSE
       /\ Report(f, "ok")
    /\ UNCHANGED <<req, cpc, outcome, expired, inboxVars, slDone, recvVars,
                   closeVars, s2c, serverVars>>

\* The send fails: endpoint closed on either side, context done, no fit.
SendFail ==
    /\ sendQ # <<>>
    /\ ~slDone
    /\ LET f == Head(sendQ) IN
       /\ \/ ~cUp
          \/ ~sUp
          \/ CtxDone(f)
          \/ putStep /\ req[f.c].size > 0 /\ ~FitsServer(req[f.c])
       /\ putStep' = FALSE
       /\ Report(f, "fail")
    /\ UNCHANGED <<req, cpc, outcome, expired, inboxVars, slDone, recvVars,
                   closeVars, c2s, s2c, serverVars>>

\* sendLoop sees closedCh: what is queued is answered ErrClosed, the loop ends.
InQ(k, c) == \E i \in 1..Len(sendQ) : sendQ[i] = Frame(k, c)
SendLoopExit ==
    /\ ClosedCh
    /\ ~slDone
    /\ ~putStep
    /\ slDone' = TRUE
    /\ sendQ' = <<>>
    /\ out' = [c \in Calls |-> IF InQ(req[c].op, c) THEN "fail" ELSE out[c]]
    /\ ackst' = [c \in Calls |-> IF ackst[c] = "out" THEN "lost" ELSE ackst[c]]
    /\ UNCHANGED <<req, cpc, outcome, expired, inboxVars, putStep, recvVars,
                   closeVars, c2s, s2c, serverVars>>

-----------------------------------------------------------------------------
(***************************************************************************)
(* recvLoop.                                                               *)
(***************************************************************************)
\* Mutant of Deliver: the channel stays in the map.
DeliverKeepsPending(c, k, b) ==
    /\ ch' = [ch EXCEPT ![c] = k]
    /\ bor' = [bor EXCEPT ![c] = b]
    /\ UNCHANGED pending

\* deliver: take the channel out of the map, send, close.
Deliver(c, k, b) ==
    /\ pending' = pending \ {c}
    /\ ch' = [ch EXCEPT ![c] = k]
    /\ bor' = [bor EXCEPT ![c] = b]

\* setRecvErr and failAllPending; the loop ends.
RecvDie ==
    /\ rpc' = "dead"
    /\ rcur' = NoCall
    /\ ch' = [c \in Calls |-> IF c \in pending THEN "fail" ELSE ch[c]]
    /\ pending' = {}
    /\ UNCHANGED bor

\* RecvMessage, Decode and the switch on msg.Op.  A payload is not a control
\* message: Decode fails and the loop ends.
RecvControl ==
    /\ rpc = "ctl"
    /\ cUp
    /\ s2c # <<>>
    /\ s2c' = Tail(s2c)
    /\ LET f == Head(s2c) IN
       \/ /\ f.k \in RespKinds
          /\ IF f.c \in pending THEN Deliver(f.c, f.k, NoCall)
                                ELSE UNCHANGED inboxVars
          /\ UNCHANGED recvVars
       \/ /\ f.k = "meta"
          /\ rpc' = "pay"
          /\ rcur' = f.c
          /\ UNCHANGED inboxVars
       \/ /\ f.k = "data"
          /\ RecvDie
    /\ UNCHANGED <<callVars, sendVars, ackst, closeVars, c2s, serverVars>>

\* Mutant of RecvPayload: the credit is acked on receipt, not on release.
RecvPayloadAcksEarly ==
    /\ rpc = "pay"
    /\ cUp
    /\ s2c # <<>>
    /\ s2c' = Tail(s2c)
    /\ IF rcur \in pending
       THEN Deliver(rcur, "meta", IF Head(s2c).k = "data" THEN Head(s2c).c ELSE NoCall)
       ELSE UNCHANGED inboxVars
    /\ ackst' = [ackst EXCEPT ![rcur] = "enq"]
    /\ rpc' = "ack"
    /\ UNCHANGED <<callVars, sendVars, rcur, closeVars, c2s, serverVars>>

\* RecvBorrowedMessage takes whatever frame comes next for the payload of
\* rcur; if no one waits for it any more the credit is acked from here.
RecvPayload ==
    /\ rpc = "pay"
    /\ cUp
    /\ s2c # <<>>
    /\ s2c' = Tail(s2c)
    /\ IF rcur \in pending
       THEN /\ Deliver(rcur, "meta", IF Head(s2c).k = "data" THEN Head(s2c).c ELSE NoCall)
            /\ rpc' = "ctl"
            /\ rcur' = NoCall
            /\ UNCHANGED ackst
       ELSE /\ ackst' = [ackst EXCEPT ![rcur] = "enq"]
            /\ rpc' = "ack"
            /\ UNCHANGED <<inboxVars, rcur>>
    /\ UNCHANGED <<callVars, sendVars, closeVars, c2s, serverVars>>

RecvAckReturn ==
    /\ rpc = "ack"
    /\ ackst[rcur] \in {"ok", "lost"}
    /\ rpc' = "ctl"
    /\ rcur' = NoCall
    /\ UNCHANGED <<callVars, inboxVars, sendVars, ackst, closeVars, c2s, s2c,
                   serverVars>>

\* The receive fails: the client closed the connection or the peer is gone.
RecvError ==
    /\ rpc \in {"ctl", "pay"}
    /\ ~cUp \/ ~sUp
    /\ RecvDie
    /\ UNCHANGED <<callVars, sendVars, ackst, closeVars, c2s, s2c, serverVars>>

-----------------------------------------------------------------------------
(***************************************************************************)
(* Client.Close: run every registered release function under releaseMu,    *)
(* close closedCh, close the connection, wait for both loops.              *)
(***************************************************************************)
CloseStart ==
    /\ clpc = "open"
    /\ \/ "close" \in Faults /\ outcome[Hello] = "ok"
       \/ outcome[Hello] \notin {"none", "ok"}
    /\ clpc' = "rel"
    /\ UNCHANGED <<callVars, inboxVars, sendVars, recvVars, ackst, clcur, cUp,
                   c2s, s2c, serverVars>>

CloseRelease(c) ==
    /\ clpc = "rel"
    /\ clcur = NoCall
    /\ cpc[c] = "held"
    /\ clcur' = c
    /\ cpc' = [cpc EXCEPT ![c] = "rel"]
    /\ ackst' = [ackst EXCEPT ![c] = "enq"]
    /\ UNCHANGED <<req, outcome, expired, out, inboxVars, sendVars, recvVars,
                   clpc, cUp, c2s, s2c, serverVars>>

CloseReleased ==
    /\ clcur # NoCall
    /\ ackst[clcur] \in {"ok", "lost"}
    /\ cpc' = [cpc EXCEPT ![clcur] = "done"]
    /\ clcur' = NoCall
    /\ UNCHANGED <<req, outcome, expired, out, inboxVars, sendVars, recvVars,
                   ackst, clpc, cUp, c2s, s2c, serverVars>>

CloseChannel ==
    /\ clpc = "rel"
    /\ clcur = NoCall
    /\ \A c \in Calls : cpc[c] # "held"
    /\ clpc' = "chan"
    /\ UNCHANGED <<callVars, inboxVars, sendVars, recvVars, ackst, clcur, cUp,
                   c2s, s2c, serverVars>>

CloseConn ==
    /\ clpc = "chan"
    /\ clpc' = "wait"
    /\ cUp' = FALSE
    /\ UNCHANGED <<callVars, inboxVars, sendVars, recvVars, ackst, clcur, c2s,
                   s2c, serverVars>>

CloseReturn ==
    /\ clpc = "wait"
    /\ slDone
    /\ rpc = "dead"
    /\ clpc' = "done"
    /\ UNCHANGED <<callVars, inboxVars, sendVars, recvVars, ackst, clcur, cUp,
                   c2s, s2c, serverVars>>

-----------------------------------------------------------------------------
(***************************************************************************)
(* The serveConn loop.  Its deferred function (close the credits, wait for *)
(* the GETs, close the connection) is the state "drain".                   *)
(***************************************************************************)
Reply(k, c) == spc' = "reply" /\ scur' = Frame(k, c)
Drain       == spc' = "drain" /\ UNCHANGED scur
zcClosed    == spc \in {"drain", "closed"}

TooLarge(r) == MaxObjectSize > 0 /\ r.size > MaxObjectSize

\* hello_req: setCredits.
ServeHello(c) ==
    /\ credits' = Credits
    /\ granted' = Credits
    /\ Reply("helloresp", c)
    /\ UNCHANGED <<g, applied, lent>>

\* Mutant of ServeAck: an ack of one credit is dropped.
ServeAckDropped(c) ==
    /\ lent' = lent \ {c}
    /\ UNCHANGED <<spc, scur, credits, g, applied, granted>>

\* ack: addCredits(1).
ServeAck(c) ==
    /\ credits' = credits + 1
    /\ lent' = lent \ {c}
    /\ UNCHANGED <<spc, scur, g, applied, granted>>

ServeEnsure(c) ==
    /\ applied' = applied \cup {c}
    /\ Reply("ok", c)
    /\ UNCHANGED <<creditVars, g>>

\* Mutant of ServePut: resp_ok goes out without waiting for the payload.
ServePutEarly(c) ==
    /\ applied' = applied \cup {c}
    /\ Reply("ok", c)
    /\ UNCHANGED <<creditVars, g>>

\* handlePut up to recvPayloadAt: a rejected request leaves its payload in the
\* channel, an empty one has none to wait for.
ServePut(c) ==
    /\ \/ /\ TooLarge(req[c])
          /\ Reply("err", c)
          /\ UNCHANGED applied
       \/ /\ ~TooLarge(req[c]) /\ req[c].size = 0
          /\ applied' = applied \cup {c}
          /\ Reply("ok", c)
       \/ /\ ~TooLarge(req[c]) /\ req[c].size > 0
          /\ spc' = "payload"
          /\ scur' = Frame("ok", c)
          /\ UNCHANGED applied
    /\ UNCHANGED <<creditVars, g>>

\* handleGetAsync: the goroutine starts, the loop goes on.
ServeGet(c) ==
    /\ g' = [g EXCEPT ![c] = "look"]
    /\ UNCHANGED <<spc, scur, creditVars, applied>>

\* recvControl and the switch; a payload does not decode and ends the loop.
ServeControl ==
    /\ spc = "recv"
    /\ c2s # <<>>
    /\ c2s' = Tail(c2s)
    /\ LET f == Head(c2s) IN
       \/ f.k = "hello"  /\ ServeHello(f.c)
       \/ f.k = "ack"    /\ ServeAck(f.c)
       \/ f.k = "ensure" /\ ServeEnsure(f.c)
       \/ f.k = "put"    /\ ServePut(f.c)
       \/ f.k = "get"    /\ ServeGet(f.c)
       \/ f.k = "data"   /\ Drain /\ UNCHANGED <<creditVars, g, applied>>
    /\ UNCHANGED <<clientVars, s2c, sUp>>

\* recvPayloadAt takes the next frame, whatever it is, for the payload.
ServePayload ==
    /\ spc = "payload"
    /\ c2s # <<>>
    /\ c2s' = Tail(c2s)
    /\ LET f == Head(c2s)
           c == scur.c
           match == /\ f.k = "data"
                    /\ req[f.c].off = req[c].off
                    /\ req[f.c].size = req[c].size
       IN \/ match /\ applied' = applied \cup {c} /\ Reply("ok", c)
          \/ ~match /\ Drain /\ UNCHANGED applied
    /\ UNCHANGED <<clientVars, s2c, creditVars, g, sUp>>

\* The receive fails: peer gone, idle timeout, payload timeout.
ServeRecvError ==
    /\ \/ spc \in {"recv", "payload"} /\ ~cUp
       \/ spc = "recv" /\ "idle" \in Faults /\ c2s = <<>>
       \/ spc = "payload" /\ "data" \in Faults /\ c2s = <<>>
    /\ Drain
    /\ UNCHANGED <<clientVars, c2s, s2c, creditVars, g, applied, sUp>>

\* Mutant of sendMuFree: sendMu is released between get_meta and its payload.
sendMuUnheld == TRUE

\* sendMu is held across get_meta and its payload.
sendMuFree  == \A c \in Calls : g[c] # "pay"
CanSend     == sendMuFree /\ Len(s2c) < Window
SendRefused == sendMuFree /\ (~cUp \/ ("send" \in Faults /\ Len(s2c) >= Window))

\* sendRespOK, sendRespErr or hello_resp from the loop; failing ends it.
ServeReply ==
    /\ spc = "reply"
    /\ \/ /\ CanSend
          /\ s2c' = Append(s2c, scur)
          /\ spc' = "recv"
       \/ /\ SendRefused
          /\ spc' = "drain"
          /\ UNCHANGED s2c
    /\ UNCHANGED <<clientVars, c2s, scur, creditVars, g, applied, sUp>>

\* The deferred function: wg.Wait returned, conn.Close.
ServeClose ==
    /\ spc = "drain"
    /\ \A c \in Calls : g[c] \in {"none", "done"}
    /\ spc' = "closed"
    /\ sUp' = FALSE
    /\ UNCHANGED <<clientVars, c2s, s2c, scur, creditVars, g, applied>>

-----------------------------------------------------------------------------
(***************************************************************************)
(* A GET goroutine: handleGet and sendGetPayload.                          *)
(***************************************************************************)
GetStep(c, to) == g' = [g EXCEPT ![c] = to]

\* GetObject, and the max check, which max = 0 switches off.
GetLookup(c) ==
    /\ g[c] = "look"
    /\ LET r == req[c]
           reject == r.size < 0 \/ (r.max > 0 /\ r.size > r.max)
       IN GetStep(c, IF reject THEN "err" ELSE "credit")
    /\ UNCHANGED <<clientVars, c2s, s2c, spc, scur, creditVars, applied, sUp>>

GetReject(c) ==
    /\ g[c] = "err"
    /\ \/ CanSend /\ s2c' = Append(s2c, Frame("err", c))
       \/ SendRefused /\ UNCHANGED s2c
    /\ GetStep(c, "done")
    /\ UNCHANGED <<clientVars, c2s, spc, scur, creditVars, applied, sUp>>

\* Mutant of GetWaitCredit: the loop around creditCV.Wait is missing.
GetTakesCredit(c) ==
    /\ g[c] = "credit"
    /\ credits' = credits - 1
    /\ lent' = lent \cup {c}
    /\ GetStep(c, "meta")
    /\ UNCHANGED <<clientVars, c2s, s2c, spc, scur, granted, applied, sUp>>

\* Mutant of GetWaitCredit: close does not wake the waiters.
GetWaitsForever(c) ==
    /\ g[c] = "credit"
    /\ credits > 0
    /\ credits' = credits - 1
    /\ lent' = lent \cup {c}
    /\ GetStep(c, "meta")
    /\ UNCHANGED <<clientVars, c2s, s2c, spc, scur, granted, applied, sUp>>

\* How waitCredit leaves its loop, in the two servers: s3rdmaserver still hands
\* out credits it has after close, inmems3 does not.
MayTakeKeeping  == credits > 0
MayTakeDropping == credits > 0 /\ ~zcClosed
MayTake == IF KeepGranted THEN MayTakeKeeping ELSE MayTakeDropping

GetWaitCredit(c) ==
    /\ g[c] = "credit"
    /\ \/ /\ MayTake
          /\ credits' = credits - 1
          /\ lent' = lent \cup {c}
          /\ UNCHANGED granted
          /\ GetStep(c, "meta")
       \/ /\ zcClosed
          /\ ~MayTake
          /\ GetStep(c, "done")
          /\ UNCHANGED creditVars
    /\ UNCHANGED <<clientVars, c2s, s2c, spc, scur, applied, sUp>>

\* sendMu.Lock, get_meta.
GetSendMeta(c) ==
    /\ g[c] = "meta"
    /\ \/ CanSend /\ s2c' = Append(s2c, Frame("meta", c)) /\ GetStep(c, "pay")
       \/ SendRefused /\ UNCHANGED s2c /\ GetStep(c, "done")
    /\ UNCHANGED <<clientVars, c2s, spc, scur, creditVars, applied, sUp>>

\* SendMessageAt and sendMu.Unlock: nothing is sent for an empty object; the
\* data deadline, a closed peer or an object beyond the region loses it.
GetSendPayload(c) ==
    /\ g[c] = "pay"
    /\ LET r == req[c] IN
       \/ r.size = 0 /\ UNCHANGED s2c
       \/ /\ r.size > 0 /\ r.off + r.size <= SharedLen /\ Len(s2c) < Window
          /\ s2c' = Append(s2c, Frame("data", c))
       \/ /\ r.size > 0
          /\ r.off + r.size > SharedLen \/ "data" \in Faults \/ ~cUp
          /\ UNCHANGED s2c
    /\ GetStep(c, "done")
    /\ UNCHANGED <<clientVars, c2s, spc, scur, creditVars, applied, sUp>>

-----------------------------------------------------------------------------
CallStep(c) ==
    \/ Enqueue(c)
    \/ SendAbandon(c)
    \/ SendReturned(c)
    \/ TakeResult(c)
    \/ WaitAbandon(c)
    \/ ErrAckReturn(c)
    \/ RegisterRelease(c)
    \/ ReleaseReturn(c)

AckStep(c) == AckEnqueue(c) \/ AckAbandon(c)
SendLoop   == SendControl \/ SendPayload \/ SendFail \/ SendLoopExit
RecvLoop   == RecvControl \/ RecvPayload \/ RecvAckReturn \/ RecvError
CloseStep  == \/ \E c \in Calls : CloseRelease(c)
              \/ CloseReleased
              \/ CloseChannel
              \/ CloseConn
              \/ CloseReturn
ServeConn  == \/ ServeControl
              \/ ServePayload
              \/ ServeRecvError
              \/ ServeReply
              \/ ServeClose
GetGoroutine(c) == \/ GetLookup(c)
                   \/ GetReject(c)
                   \/ GetWaitCredit(c)
                   \/ GetSendMeta(c)
                   \/ GetSendPayload(c)

Next ==
    \/ \E c \in Calls, r \in Requests : Start(c, r)
    \/ \E c \in Calls : Expire(c)
    \/ \E c \in Calls : Release(c)
    \/ \E c \in Calls : CallStep(c)
    \/ \E c \in Calls : AckStep(c)
    \/ SendLoop
    \/ RecvLoop
    \/ CloseStart
    \/ CloseStep
    \/ ServeConn
    \/ \E c \in Calls : GetGoroutine(c)

Spec == Init /\ [][Next]_vars

(***************************************************************************)
(* Goroutines are scheduled and the application releases what it was       *)
(* given.  Starting a call and closing the client are its choice, and no   *)
(* deadline is forced to pass: progress must not depend on one.            *)
(***************************************************************************)
Fairness ==
    /\ \A c \in Calls : /\ WF_vars(CallStep(c))
                        /\ WF_vars(AckEnqueue(c))
                        /\ WF_vars(ClosedCh /\ AckAbandon(c))
                        /\ WF_vars(Release(c))
                        /\ WF_vars(GetGoroutine(c))
    /\ WF_vars(SendLoop)
    /\ WF_vars(RecvLoop)
    /\ WF_vars(CloseStep)
    /\ WF_vars(ServeConn)
FairSpec == Spec /\ Fairness

-----------------------------------------------------------------------------
(***************************************************************************)
(* Properties.                                                             *)
(***************************************************************************)
\* Credits are neither minted nor destroyed (setCredits, waitCredit, addCredits
\* against sendAck): what zcopyConn.credits holds and what GETs have taken and
\* not acked back add up to what hello announced, whatever times out, whichever
\* side closes, and however often a buffer is released.
CreditConservation == credits + Cardinality(lent) = granted

\* The payload of GET c is with the client, or on the wire to it: from get_meta
\* until the release function has run.
Unreleased(c) ==
    \/ \E i \in 1..Len(s2c) : s2c[i] = Frame("meta", c)
    \/ rpc = "pay" /\ rcur = c
    \/ ch[c] = "meta"
    \/ cpc[c] \in {"reg", "held"}

\* Flow control: at no time are more payloads borrowed by the client than the
\* credits it announced in hello_req (waitCredit, Release, recvLoop's own ack).
FlowControl == Cardinality({c \in Calls : Unreleased(c)}) <= Credits

\* A registered result channel is empty and belongs to a call that is still
\* waiting, unless the client was closed: deliver, failAllPending and
\* removePending never let a second result meet a channel of capacity one.
PendingIsLive ==
    \A c \in pending : /\ ch[c] = "none"
                       /\ \/ cpc[c] \in {"enq", "out", "wait"}
                          \/ outcome[c] = "closed"

\* PutZeroCopy or EnsureBucket returned nil: the server did create the bucket,
\* and for a PUT it consumed that PUT's own payload first.
OkMeansApplied ==
    \A c \in Calls :
        outcome[c] = "ok" /\ req[c].op \in {"put", "ensure"} =>
            /\ c \in applied
            /\ ~\E i \in 1..Len(c2s) : c2s[i] = Frame("data", c)

\* GetZeroCopy returned a BufferRef: the payload it was matched with is its own,
\* not the one of another GET multiplexed on the connection.
GetOwnPayload ==
    \A c \in Calls : cpc[c] \in {"reg", "held", "rel"} => bor[c] = c

\* As long as nobody has asked for a PUT or for an empty object, and no payload
\* send fails, neither receive loop (recvLoop, serveConn) takes a payload for a
\* control message or a control message for a payload, whoever gives up a call
\* and when: while both endpoints are open both loops are alive.
StreamInSync ==
    (\A c \in Calls : req[c].op # "put" /\ (req[c].op = "get" => req[c].size # 0)) =>
        /\ rpc = "dead" => ~cUp \/ ~sUp
        /\ zcClosed => ~cUp

\* The client was not closed, no deadline has passed and no ack was lost.
Undisturbed == /\ clpc = "open"
               /\ expired = {}
               /\ \A c \in Calls : ackst[c] # "lost"

\* Every call that was started returns with the server's answer unless something
\* disturbs the connection, with however few credits, queue slots and channel
\* slots: sendLoop, recvLoop, serveConn and the GETs do not wait in a circle as long
\* as no call was given up.  (After that recvLoop acks late payloads itself, and only
\* the timeout of that ack may get it out of such a circle.)
AllServed ==
    \A c \in Calls : cpc[c] = "enq" ~> outcome[c] \in {"ok", "remote"} \/ ~Undisturbed

\* Client.Close returns, and the server's deferred cleanup reaches conn.Close:
\* no GET goroutine stays in waitCredit, no loop in a send or a receive.
CloseTerminates ==
    /\ clpc = "rel" ~> clpc = "done"
    /\ clpc = "rel" ~> spc = "closed"

\* A BorrowedMessage that was delivered is never abandoned: the call it was
\* delivered to has not returned without releasing it.
BorrowedReleased == \A c \in Calls : ~(ch[c] = "meta" /\ cpc[c] = "done")
=============================================================================
