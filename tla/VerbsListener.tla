--------------------------- MODULE VerbsListener ---------------------------
(***************************************************************************)
(* The listening side of pkg/rdma/verbs_linux_cgo.go: accept workers that  *)
(* poll one CM event channel in C (go_rdma_accept), hand established       *)
(* connections over the channel acceptOut to the Serve loop of the zcopy   *)
(* service, and Close, which must not destroy the C listener, or close     *)
(* acceptOut, under a worker.                                              *)
(***************************************************************************)
EXTENDS Integers, Sequences, SequencesExt, Filter

CONSTANTS
    Workers,  \* accept workers
    Conns,    \* connection ids that peers may ask for
    NoConn,   \* "no connection"
    OutCap    \* capacity of acceptOut

ASSUME ListenerAssumption == /\ Workers # {}
                             /\ NoConn \notin Conns
                             /\ OutCap \in Nat \ {0}

VARIABLES
    cl,         \* l.cl is not nil; l.done is closed exactly when it becomes so
    events,     \* CM events queued on the listener's channel
    wpc,        \* where each worker is
    wconn,      \* the connection it is setting up
    acceptOut,  \* established connections
    outClosed,  \* acceptOut is closed
    conn,       \* what became of each connection
    serve,      \* the Serve loop
    closing,    \* where Close is
    freed       \* the C listener is destroyed

workerVars == <<wpc, wconn>>
vars == <<cl, events, workerVars, acceptOut, outClosed, conn, serve, closing, freed>>

\* "new": no request yet; "asked": the id exists and is on the listener's
\* channel; "own": on a channel of its own; "served": given to serveConn;
\* "gone": closed, rejected or destroyed.
TypeOK ==
    /\ cl \in BOOLEAN /\ outClosed \in BOOLEAN /\ freed \in BOOLEAN
    /\ events \in Seq([k: {"request", "bad", "end"}, c: Conns])
    /\ wpc \in [Workers -> {"top", "poll", "get", "setup", "shake", "hand", "exit"}]
    /\ wconn \in [Workers -> Conns \cup {NoConn}]
    /\ \A w \in Workers : wconn[w] # NoConn <=> wpc[w] \in {"setup", "shake", "hand"}
    /\ acceptOut \in Seq(Conns) /\ Len(acceptOut) <= OutCap
    /\ conn \in [Conns -> {"new", "asked", "own", "served", "gone"}]
    /\ serve \in {"accept", "returned"}
    /\ closing \in {"no", "wait", "free", "done"}

\* newVerbsMessageListener has listened and started the workers; Serve runs.
Init ==
    /\ cl = TRUE /\ outClosed = FALSE /\ freed = FALSE
    /\ events = <<>> /\ acceptOut = <<>>
    /\ wpc = [w \in Workers |-> "top"]
    /\ wconn = [w \in Workers |-> NoConn]
    /\ conn = [c \in Conns |-> "new"]
    /\ serve = "accept"
    /\ closing = "no"

-----------------------------------------------------------------------------
(***************************************************************************)
(* The peers: a connection request, well-formed or with an error status,   *)
(* and the end of a request (REJECTED, DISCONNECTED, ...), which is queued *)
(* on the channel the id belongs to.                                       *)
(***************************************************************************)
PeerConnect(c) ==
    /\ conn[c] = "new" /\ ~freed
    /\ conn' = [conn EXCEPT ![c] = "asked"]
    /\ \E k \in {"request", "bad"} : events' = Append(events, [k |-> k, c |-> c])
    /\ UNCHANGED <<cl, workerVars, acceptOut, outClosed, serve, closing, freed>>

PeerEnd(c) ==
    /\ conn[c] = "asked" /\ ~freed
    /\ [k |-> "end", c |-> c] \notin ToSet(events)
    /\ events' = Append(events, [k |-> "end", c |-> c])
    /\ UNCHANGED <<cl, workerVars, acceptOut, outClosed, conn, serve, closing, freed>>

-----------------------------------------------------------------------------
(***************************************************************************)
(* acceptWorker.                                                           *)
(***************************************************************************)
Goto(w, pc, c) == /\ wpc' = [wpc EXCEPT ![w] = pc]
                  /\ wconn' = [wconn EXCEPT ![w] = c]

\* The head of the loop, and the same check after a timeout or an error.
WorkerTop(w) ==
    /\ wpc[w] = "top"
    /\ Goto(w, IF cl THEN "poll" ELSE "exit", NoConn)
    /\ UNCHANGED <<cl, events, acceptOut, outClosed, conn, serve, closing, freed>>

\* poll on the channel: readable, or nothing within the accept poll timeout.
WorkerPoll(w) ==
    /\ wpc[w] = "poll"
    /\ Goto(w, IF events # <<>> THEN "get" ELSE "top", NoConn)
    /\ UNCHANGED <<cl, events, acceptOut, outClosed, conn, serve, closing, freed>>

\* The events of other ids: rdma_destroy_id and rdma_migrate_id take the id's
\* own ones off the channel.
Without(evs, c) == Drop(evs, {e \in ToSet(evs) : e.c = c})

\* rdma_get_cm_event, which blocks while there is no event (the channel's fd is
\* never made non-blocking), and what go_rdma_accept does with the event.
WorkerGet(w) ==
    /\ wpc[w] = "get"
    /\ events # <<>>
    /\ LET e == Head(events) IN
       \/ /\ e.k = "request"
          /\ Goto(w, "setup", e.c)
          /\ events' = Tail(events)
          /\ UNCHANGED conn
       \/ /\ e.k \in {"bad", "end"}
          /\ Goto(w, IF e.k = "bad" THEN "top" ELSE "poll", NoConn)
          /\ events' = Without(Tail(events), e.c)
          /\ conn' = [conn EXCEPT ![e.c] = "gone"]
    /\ UNCHANGED <<cl, acceptOut, outClosed, serve, closing, freed>>

\* Mutant of WorkerSetup: the id stays on the listener's channel.
WorkerSetupNoMigrate(w) ==
    /\ wpc[w] = "setup"
    /\ Goto(w, "shake", wconn[w])
    /\ UNCHANGED <<cl, events, acceptOut, outClosed, conn, serve, closing, freed>>

\* calloc, rdma_create_event_channel and rdma_migrate_id.  The id is destroyed if
\* one of the first two fails; if the migration fails it is only rejected.
WorkerSetup(w) ==
    /\ wpc[w] = "setup"
    /\ LET c == wconn[w] IN
       \/ /\ Goto(w, "shake", c)
          /\ events' = Without(events, c)
          /\ conn' = [conn EXCEPT ![c] = IF @ = "asked" THEN "own" ELSE @]
       \/ /\ Goto(w, "top", NoConn)
          /\ events' = Without(events, c)
          /\ conn' = [conn EXCEPT ![c] = "gone"]
       \/ /\ Goto(w, "top", NoConn)
          /\ UNCHANGED <<events, conn>>
    /\ UNCHANGED <<cl, acceptOut, outClosed, serve, closing, freed>>

\* Mutant of WorkerShake: the freed connection is still returned.
WorkerShakeKeeps(w) ==
    /\ wpc[w] = "shake"
    /\ Goto(w, "top", wconn[w])
    /\ conn' = [conn EXCEPT ![wconn[w]] = "gone"]
    /\ UNCHANGED <<cl, events, acceptOut, outClosed, serve, closing, freed>>

\* Mutant of WorkerShake: a failed handshake ends the worker.
WorkerShakeExits(w) ==
    /\ wpc[w] = "shake"
    /\ \/ Goto(w, "hand", wconn[w]) /\ UNCHANGED conn
       \/ Goto(w, "exit", NoConn) /\ conn' = [conn EXCEPT ![wconn[w]] = "gone"]
    /\ UNCHANGED <<cl, events, acceptOut, outClosed, serve, closing, freed>>

\* Resources, rdma_accept, ESTABLISHED, exchange of the RW descriptors; each
\* may fail or time out, and then the connection is freed.
WorkerShake(w) ==
    /\ wpc[w] = "shake"
    /\ \/ Goto(w, "hand", wconn[w]) /\ UNCHANGED conn
       \/ Goto(w, "top", NoConn) /\ conn' = [conn EXCEPT ![wconn[w]] = "gone"]
    /\ UNCHANGED <<cl, events, acceptOut, outClosed, serve, closing, freed>>

\* Mutant of WorkerHand: the worker does not watch done while it hands over.
WorkerHandBlocking(w) ==
    /\ wpc[w] = "hand"
    /\ Len(acceptOut) < OutCap
    /\ acceptOut' = Append(acceptOut, wconn[w])
    /\ Goto(w, "top", NoConn)
    /\ UNCHANGED <<cl, events, outClosed, conn, serve, closing, freed>>

\* The select on done and acceptOut.
WorkerHand(w) ==
    /\ wpc[w] = "hand"
    /\ \/ /\ ~cl
          /\ conn' = [conn EXCEPT ![wconn[w]] = "gone"]
          /\ Goto(w, "exit", NoConn)
          /\ UNCHANGED acceptOut
       \/ /\ Len(acceptOut) < OutCap
          /\ acceptOut' = Append(acceptOut, wconn[w])
          /\ Goto(w, "top", NoConn)
          /\ UNCHANGED conn
    /\ UNCHANGED <<cl, events, outClosed, serve, closing, freed>>

Worker(w) == \/ WorkerTop(w)
             \/ WorkerPoll(w)
             \/ WorkerGet(w)
             \/ WorkerSetup(w)
             \/ WorkerShake(w)
             \/ WorkerHand(w)

-----------------------------------------------------------------------------
\* One round of Service.Serve: AcceptMessage's select on done and acceptOut,
\* and a goroutine for the connection.
Serve ==
    /\ serve = "accept"
    /\ \/ /\ acceptOut # <<>>
          /\ acceptOut' = Tail(acceptOut)
          /\ conn' = [conn EXCEPT ![Head(acceptOut)] = "served"]
          /\ UNCHANGED serve
       \/ /\ ~cl \/ (outClosed /\ acceptOut = <<>>)
          /\ serve' = "returned"
          /\ UNCHANGED <<acceptOut, conn>>
    /\ UNCHANGED <<cl, events, workerVars, outClosed, closing, freed>>

\* serveConn ends and closes its connection (see ZCopyConn).
ServeConnEnds(c) ==
    /\ conn[c] = "served"
    /\ conn' = [conn EXCEPT ![c] = "gone"]
    /\ UNCHANGED <<cl, events, workerVars, acceptOut, outClosed, serve, closing, freed>>

\* Close: l.cl = nil and close(l.done) under l.mu.
CloseBegin ==
    /\ closing = "no"
    /\ cl' = FALSE
    /\ closing' = "wait"
    /\ UNCHANGED <<events, workerVars, acceptOut, outClosed, conn, serve, freed>>

\* Mutant of WorkersDone: the C listener is destroyed before the workers left.
WorkersDoneNoWait == TRUE

\* workerWg.Wait returns.
WorkersDone == \A w \in Workers : wpc[w] = "exit"

CloseFree ==
    /\ closing = "wait"
    /\ WorkersDone
    /\ freed' = TRUE
    /\ closing' = "free"
    /\ UNCHANGED <<cl, events, workerVars, acceptOut, outClosed, conn, serve>>

CloseOut ==
    /\ closing = "free"
    /\ outClosed' = TRUE
    /\ closing' = "done"
    /\ UNCHANGED <<cl, events, workerVars, acceptOut, conn, serve, freed>>

Closer == CloseFree \/ CloseOut

Next ==
    \/ \E c \in Conns : PeerConnect(c)
    \/ \E c \in Conns : PeerEnd(c)
    \/ \E w \in Workers : Worker(w)
    \/ Serve
    \/ \E c \in Conns : ServeConnEnds(c)
    \/ CloseBegin
    \/ Closer

Spec == Init /\ [][Next]_vars

\* Goroutines run and polls time out; peers and the decision to close are free.
FairSpec == /\ Spec
            /\ \A w \in Workers : WF_vars(Worker(w))
            /\ WF_vars(Serve)
            /\ WF_vars(Closer)

-----------------------------------------------------------------------------
\* Close destroys the C listener and closes acceptOut only when no accept
\* worker can touch either: no use after free in go_rdma_accept and no send on
\* a closed channel.
NoUseAfterFree ==
    freed \/ outClosed =>
        \A w \in Workers : wpc[w] \notin {"poll", "get", "setup", "shake", "hand"}

\* A connection that a worker is setting up, or that waits in acceptOut, is not
\* destroyed by go_rdma_accept draining the events of child ids from the listener's
\* channel.
ConnAlive ==
    /\ \A w \in Workers : wpc[w] \in {"setup", "shake", "hand"} => conn[wconn[w]] # "gone"
    /\ \A c \in ToSet(acceptOut) : conn[c] # "gone"

\* Every connection request is taken off the listener's channel unless the
\* listener is closed: neither failed handshakes, drained events nor a full
\* acceptOut stop the workers.
RequestsDrained ==
    \A c \in Conns : LET waits == [k |-> "request", c |-> c] \in ToSet(events)
                     IN  waits ~> ~waits \/ ~cl

\* Close returns and the Serve loop ends: every worker notices that the
\* listener is closed, wherever it was.
CloseReturns ==
    /\ closing = "wait" ~> closing = "done"
    /\ closing = "wait" ~> serve = "returned"
=============================================================================
