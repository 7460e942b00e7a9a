----------------------------- MODULE ServerApp -----------------------------
(***************************************************************************)
(* A server process: Run of internal/inmems3/app and of                    *)
(* internal/s3rdmaserver/app.  Listeners are opened in order, each is      *)
(* served by a goroutine, a signal or a failed listener starts the         *)
(* shutdown, and the servers are stopped one after the other within (or    *)
(* not within) five seconds.                                               *)
(***************************************************************************)
EXTENDS Integers, FiniteSets

CONSTANTS
    Apps,         \* which of the two programs to look at
    MaxInFlight   \* bound: HTTP requests, and RPCs, under way at a time

ASSUME AppAssumption == /\ Apps \subseteq {"inmem", "s3rdma"}
                        /\ MaxInFlight \in Nat

Listeners == {"tcp", "rdma", "grpc"}

VARIABLES
    app,      \* the program
    on,       \* the listeners its configuration enables
    pc,       \* where Run is
    ln,       \* each listening socket: "none", "open", "closed"
    srv,      \* the goroutine around each Serve
    stop,     \* the servers that were told to stop
    errs,     \* errors in errCh
    sig,      \* a signal is in sigCh
    late,     \* the five seconds of ctx are over
    http,     \* HTTP requests under way
    rpc,      \* control RPCs under way
    fail      \* runErr, shutdownErr or the error of a failed start-up is set

env == <<errs, sig, http, rpc>>
vars == <<app, on, pc, ln, srv, stop, late, fail, env>>

SetupPcs == {"load", "tcp", "rdma", "grpc", "go", "notify"}
StopPcs == {"zclose", "zwait", "gstop", "gwait", "shutdown", "drain"}
Pcs == SetupPcs \cup {"select"} \cup StopPcs \cup {"returned", "killed"}

TypeOK ==
    /\ app \in Apps /\ on \subseteq Listeners
    /\ pc \in Pcs
    /\ ln \in [Listeners -> {"none", "open", "closed"}]
    /\ srv \in [Listeners -> {"none", "spawned", "serving", "sending", "ended"}]
    /\ stop \subseteq on
    /\ errs \in 0..Cardinality(on)
    /\ sig \in BOOLEAN /\ late \in BOOLEAN /\ fail \in BOOLEAN
    /\ http \in 0..MaxInFlight /\ rpc \in 0..MaxInFlight

\* Validate: a data listener is enabled; only inmem-s3-server has a control one.
Validate(a, o) == o \cap {"tcp", "rdma"} # {} /\ (a = "s3rdma" => "grpc" \notin o)

Init ==
    /\ app \in Apps
    /\ on \in {o \in SUBSET Listeners : Validate(app, o)}
    /\ pc = "load"
    /\ ln = [l \in Listeners |-> "none"]
    /\ srv = [l \in Listeners |-> "none"]
    /\ stop = {} /\ errs = 0 /\ sig = FALSE /\ late = FALSE
    /\ http = 0 /\ rpc = 0 /\ fail = FALSE

Closed(ls) == [l \in Listeners |-> IF l \in ls /\ ln[l] = "open" THEN "closed" ELSE ln[l]]

-----------------------------------------------------------------------------
(***************************************************************************)
(* Start-up.                                                               *)
(***************************************************************************)
\* s3-rdma-server closes what it has opened; inmem-s3-server just returns.
CleanupSetup == IF app = "s3rdma" THEN Closed(Listeners) ELSE ln

SetupFails ==
    /\ ln' = CleanupSetup
    /\ fail' = TRUE /\ pc' = "returned"
    /\ UNCHANGED <<app, on, srv, stop, late, env>>

After == [load |-> "tcp", tcp |-> "rdma", rdma |-> "grpc", grpc |-> "go"]

\* Loading the payload root, then each listener in turn.
Load ==
    /\ pc = "load"
    /\ \/ pc' = After[pc] /\ UNCHANGED <<app, on, ln, srv, stop, late, fail, env>>
       \/ SetupFails

Listen ==
    /\ pc \in Listeners
    /\ \/ /\ ln' = IF pc \in on THEN [ln EXCEPT ![pc] = "open"] ELSE ln
          /\ pc' = After[pc]
          /\ UNCHANGED <<app, on, srv, stop, late, fail, env>>
       \/ pc \in on /\ SetupFails

\* A goroutine per listener.
Spawn ==
    /\ pc = "go"
    /\ srv' = [l \in Listeners |-> IF l \in on THEN "spawned" ELSE "none"]
    /\ pc' = "notify"
    /\ UNCHANGED <<app, on, ln, stop, late, fail, env>>

\* signal.Notify: until now a signal kills the process.
Notify ==
    /\ pc = "notify"
    /\ pc' = "select"
    /\ UNCHANGED <<app, on, ln, srv, stop, late, fail, env>>

-----------------------------------------------------------------------------
(***************************************************************************)
(* The select and the shutdown.  ctx starts here and covers all of it.     *)
(***************************************************************************)
SelectSignal ==
    /\ pc = "select" /\ sig
    /\ sig' = FALSE
    /\ pc' = "zclose"
    /\ UNCHANGED <<app, on, ln, srv, stop, late, fail, errs, http, rpc>>

\* Only s3-rdma-server keeps the error for its result.
SelectError ==
    /\ pc = "select" /\ errs > 0
    /\ errs' = errs - 1
    /\ fail' = (app = "s3rdma")
    /\ pc' = "zclose"
    /\ UNCHANGED <<app, on, ln, srv, stop, late, sig, http, rpc>>

\* zcopySrv.Close: the verbs listener tells its workers and waits for them.
CloseZCopy ==
    /\ pc = "zclose"
    /\ stop' = stop \cup ({"rdma"} \cap on)
    /\ pc' = "zwait"
    /\ UNCHANGED <<app, on, ln, srv, late, fail, env>>

ZCopyClosed ==
    /\ pc = "zwait"
    /\ ln' = Closed({"rdma"})
    /\ pc' = "gstop"
    /\ UNCHANGED <<app, on, srv, stop, late, fail, env>>

\* Mutant of StopServer: the nil check is missing.
StopServerUnchecked(l) ==
    /\ stop' = stop \cup {l}
    /\ ln' = IF srv[l] = "serving" THEN Closed({l}) ELSE ln

\* A server told to stop closes the listeners its Serve has taken over.
StopServer(l) ==
    /\ stop' = stop \cup ({l} \cap on)
    /\ ln' = IF srv[l] = "serving" THEN Closed({l}) ELSE ln

\* GracefulStop refuses new RPCs and waits for Serve and for the RPCs under way,
\* without a deadline.
GracefulStop ==
    /\ pc = "gstop"
    /\ StopServer("grpc")
    /\ pc' = "gwait"
    /\ UNCHANGED <<app, on, srv, late, fail, env>>

GracefulStopped ==
    /\ pc = "gwait"
    /\ rpc = 0 /\ srv["grpc"] # "serving"
    /\ pc' = "shutdown"
    /\ UNCHANGED <<app, on, ln, srv, stop, late, fail, env>>

\* Shutdown(ctx) closes the listener, even with ctx done, and waits for requests.
Shutdown ==
    /\ pc = "shutdown"
    /\ StopServer("tcp")
    /\ pc' = "drain"
    /\ UNCHANGED <<app, on, srv, late, fail, env>>

Drained ==
    /\ pc = "drain" /\ http = 0
    /\ pc' = "returned"
    /\ UNCHANGED <<app, on, ln, srv, stop, late, fail, env>>

\* Mutant of ShutdownExpired: the error is dropped.
ShutdownExpiredQuiet ==
    /\ pc = "drain" /\ late
    /\ pc' = "returned"
    /\ UNCHANGED <<app, on, ln, srv, stop, late, fail, env>>

\* The requests that are left go down with the process; inmem-s3-server only
\* logs that.
ShutdownExpired ==
    /\ pc = "drain" /\ late
    /\ fail' = (fail \/ app = "s3rdma")
    /\ pc' = "returned"
    /\ UNCHANGED <<app, on, ln, srv, stop, late, env>>

Expire ==
    /\ pc \in StopPcs /\ ~late
    /\ late' = TRUE
    /\ UNCHANGED <<app, on, pc, ln, srv, stop, fail, env>>

-----------------------------------------------------------------------------
(***************************************************************************)
(* The goroutines around Serve.                                            *)
(***************************************************************************)
Running == pc # "killed"

\* Serve takes the listener over; one that was already told to stop closes it.
ServeStart(l) ==
    /\ Running /\ srv[l] = "spawned"
    /\ srv' = [srv EXCEPT ![l] = IF l \in stop THEN "ended" ELSE "serving"]
    /\ ln' = IF l \in stop \ {"rdma"} THEN Closed({l}) ELSE ln
    /\ UNCHANGED <<app, on, pc, stop, late, fail, env>>

\* Serve returns because the server was stopped: ErrServerClosed, ErrClosed or
\* nil, none of which is reported.
ServeStopped(l) ==
    /\ Running /\ srv[l] = "serving" /\ l \in stop
    /\ srv' = [srv EXCEPT ![l] = "ended"]
    /\ UNCHANGED <<app, on, pc, ln, stop, late, fail, env>>

\* Accept fails for good and Serve closes the listener.  The zcopy service never
\* fails: AcceptMessage returns no other error than ErrClosed.
ServeFails(l) ==
    /\ Running /\ srv[l] = "serving" /\ l \notin stop /\ l # "rdma"
    /\ srv' = [srv EXCEPT ![l] = "sending"]
    /\ ln' = Closed({l})
    /\ UNCHANGED <<app, on, pc, stop, late, fail, env>>

\* Mutant of ErrChCap: the channel is not buffered for every sender.
ErrChCapOne == 1

\* The capacity of errCh: len(servers)+2 and len(httpServers)+1.
ErrChCap == Cardinality(on \cap {"tcp"}) + IF app = "inmem" THEN 2 ELSE 1

SendErr(l) ==
    /\ Running /\ srv[l] = "sending"
    /\ errs < ErrChCap
    /\ errs' = errs + 1
    /\ srv' = [srv EXCEPT ![l] = "ended"]
    /\ UNCHANGED <<app, on, pc, ln, stop, late, fail, sig, http, rpc>>

-----------------------------------------------------------------------------
(***************************************************************************)
(* The world outside: requests, RPCs and signals.                          *)
(***************************************************************************)
HTTPBegins ==
    /\ Running /\ srv["tcp"] = "serving" /\ "tcp" \notin stop
    /\ http < MaxInFlight
    /\ http' = http + 1
    /\ UNCHANGED <<app, on, pc, ln, srv, stop, late, fail, errs, sig, rpc>>

HTTPEnds ==
    /\ Running /\ http > 0
    /\ http' = http - 1
    /\ UNCHANGED <<app, on, pc, ln, srv, stop, late, fail, errs, sig, rpc>>

RPCBegins ==
    /\ Running /\ srv["grpc"] = "serving" /\ "grpc" \notin stop
    /\ rpc < MaxInFlight
    /\ rpc' = rpc + 1
    /\ UNCHANGED <<app, on, pc, ln, srv, stop, late, fail, errs, sig, http>>

RPCEnds ==
    /\ Running /\ rpc > 0
    /\ rpc' = rpc - 1
    /\ UNCHANGED <<app, on, pc, ln, srv, stop, late, fail, errs, sig, http>>

\* SIGINT or SIGTERM.  sigCh holds one; further ones are dropped.
Signal ==
    /\ pc \notin {"returned", "killed"}
    /\ IF pc \in SetupPcs THEN pc' = "killed" /\ UNCHANGED sig
                          ELSE sig' = TRUE /\ UNCHANGED pc
    /\ UNCHANGED <<app, on, ln, srv, stop, late, fail, errs, http, rpc>>

-----------------------------------------------------------------------------
Setup == Load \/ Listen \/ Spawn \/ Notify
Stopping == CloseZCopy \/ ZCopyClosed \/ GracefulStop \/ GracefulStopped
              \/ Shutdown \/ Drained \/ ShutdownExpired
Run == Setup \/ SelectSignal \/ SelectError \/ Stopping
Serve(l) == ServeStart(l) \/ ServeStopped(l) \/ SendErr(l)

Next ==
    \/ Run \/ Expire
    \/ \E l \in Listeners : Serve(l) \/ ServeFails(l)
    \/ HTTPBegins \/ HTTPEnds \/ RPCBegins \/ RPCEnds
    \/ Signal

Spec == Init /\ [][Next]_vars

\* The goroutines run and the timer of ctx fires.  Neither an HTTP request nor an
\* RPC need ever end: both servers wait for a client that does not finish, without
\* a timeout.
FairSpec ==
    /\ Spec
    /\ WF_vars(Run) /\ WF_vars(Expire)
    /\ \A l \in Listeners : WF_vars(Serve(l))

-----------------------------------------------------------------------------
(***************************************************************************)
(* Properties.                                                             *)
(***************************************************************************)
\* s3-rdma-server returns nil, "clean exit", only when no HTTP request was cut off.
\* (Requests over verbs connections are: nobody waits for those.)
NilMeansDrained ==
    (app = "s3rdma" /\ pc = "returned" /\ ~fail) => http = 0

NothingLeft ==
    /\ \A l \in Listeners : ln[l] # "open"
    /\ \A l \in Listeners : srv[l] \in {"none", "ended"}

\* GracefulStop has no deadline: it waits as long as a client keeps its RPC open.
WaitsForClient == pc = "gwait" /\ rpc > 0

\* A signal, a listener that failed and (s3-rdma-server) a start-up that failed
\* all lead to a Run that has returned, with every listener closed and every
\* Serve goroutine ended: none is left blocked on errCh, an HTTP client that does
\* not finish holds nothing up, and a Serve that had not begun when its server was
\* stopped still closes its listener.  The one thing that may keep Run for good is
\* a control RPC that its client never completes.  (A signal that comes before
\* signal.Notify kills the process.)
ShutsDown ==
    (sig \/ errs > 0 \/ (fail /\ app = "s3rdma"))
      ~> \/ pc = "killed"
         \/ pc = "returned" /\ NothingLeft
         \/ []WaitsForClient
=============================================================================
