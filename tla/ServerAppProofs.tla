-------------------------- MODULE ServerAppProofs --------------------------
(***************************************************************************)
(* Theorems about ServerApp, for either program, any configuration and any *)
(* number of requests under way.                                           *)
(***************************************************************************)
EXTENDS ServerApp, FiniteSetTheorems, TLAPS

Early == {"load", "tcp", "rdma", "grpc", "go"}
ServeStates == {"none", "spawned", "serving", "sending", "ended"}

\* Which goroutines there are, and which of them may have an error to report.
ServeInv ==
    /\ on \subseteq Listeners
    /\ app \in {"inmem", "s3rdma"}
    /\ app = "s3rdma" => "grpc" \notin on
    /\ srv \in [Listeners -> ServeStates]
    /\ \A l \in Listeners : srv[l] # "none" => l \in on
    /\ srv["rdma"] # "sending"
    /\ pc \in Early => \A l \in Listeners : srv[l] = "none"

\* No request can begin any more.
TcpStopped == "tcp" \in stop \/ srv["tcp"] = "none"

DrainInv ==
    /\ pc = "drain" \/ (pc = "returned" /\ ~fail) => TcpStopped
    /\ fail \in BOOLEAN
    /\ NilMeansDrained

Ended(l) == IF srv[l] = "ended" THEN 1 ELSE 0

\* An error in errCh comes from a goroutine that has ended.
ErrsInv == errs \in Nat /\ errs <= Ended("tcp") + Ended("grpc")

\* A goroutine that has an error to report finds room in errCh.
ErrChHasRoom == \A l \in Listeners : srv[l] = "sending" => errs < ErrChCap

-----------------------------------------------------------------------------
LEMMA CapAtLeast == ErrChCap \in Nat /\ ErrChCap >= IF app = "inmem" THEN 2 ELSE 1
<1>1. IsFiniteSet({"tcp"})
    BY FS_Singleton
<1>2. IsFiniteSet(on \cap {"tcp"})
    BY <1>1, FS_Subset
<1>3. Cardinality(on \cap {"tcp"}) \in Nat
    BY <1>2, FS_CardinalityType
<1>. QED BY <1>3 DEF ErrChCap

LEMMA InitServe == Init => ServeInv
BY AppAssumption DEF Init, Validate, Listeners, ServeInv, ServeStates

\* Only the goroutines themselves and Spawn change srv.
RunSteps == Load \/ Listen \/ Notify \/ SelectSignal \/ SelectError \/ Stopping \/ Expire
WorldSteps == HTTPBegins \/ HTTPEnds \/ RPCBegins \/ RPCEnds \/ Signal

LEMMA SrvUnchanged ==
    RunSteps \/ WorldSteps => UNCHANGED <<app, on, srv>> /\ (pc' \in Early => pc \in Early)
<1>1. Load \/ Listen \/ Notify => UNCHANGED <<app, on, srv>> /\ (pc' \in Early => pc \in Early)
    BY DEF Load, Listen, Notify, SetupFails, Early, Listeners
<1>2. SelectSignal \/ SelectError \/ Expire
        => UNCHANGED <<app, on, srv>> /\ (pc' \in Early => pc \in Early)
    BY DEF SelectSignal, SelectError, Expire, Early
<1>3. Stopping => UNCHANGED <<app, on, srv>> /\ pc' \notin Early
    BY DEF Stopping, CloseZCopy, ZCopyClosed, GracefulStop, GracefulStopped, Shutdown,
           Drained, ShutdownExpired, Early
<1>4. WorldSteps => UNCHANGED <<app, on, srv>> /\ (pc' \in Early => pc \in Early)
    BY DEF WorldSteps, HTTPBegins, HTTPEnds, RPCBegins, RPCEnds, Signal, Early
<1>. QED BY <1>1, <1>2, <1>3, <1>4 DEF RunSteps

LEMMA NextCases ==
    [Next]_vars <=> \/ RunSteps \/ WorldSteps \/ Spawn
                    \/ \E l \in Listeners : Serve(l) \/ ServeFails(l)
                    \/ UNCHANGED vars
BY DEF Next, Run, Setup, RunSteps, WorldSteps

LEMMA NextServe == ServeInv /\ [Next]_vars => ServeInv'
<1> SUFFICES ASSUME ServeInv, [Next]_vars PROVE ServeInv'
    OBVIOUS
<1>1. CASE RunSteps \/ WorldSteps \/ UNCHANGED vars
  <2>1. UNCHANGED <<app, on, srv>> /\ (pc' \in Early => pc \in Early)
      BY <1>1, SrvUnchanged DEF vars
  <2>. QED BY <2>1 DEF ServeInv
<1>2. CASE Spawn
    BY <1>2 DEF Spawn, ServeInv, ServeStates, Listeners, Early
<1>3. ASSUME NEW l \in Listeners, Serve(l) \/ ServeFails(l) PROVE ServeInv'
  <2>1. /\ UNCHANGED <<app, on, pc>> /\ srv[l] # "none"
        /\ \E v \in {"serving", "sending", "ended"} :
             /\ srv' = [srv EXCEPT ![l] = v]
             /\ v = "sending" => l # "rdma"
      BY <1>3 DEF Serve, ServeStart, ServeStopped, SendErr, ServeFails
  <2>. QED BY <2>1 DEF ServeInv, ServeStates, Listeners
<1>. QED BY <1>1, <1>2, <1>3, NextCases

-----------------------------------------------------------------------------
(***************************************************************************)
(* Run returns nil only when nothing was cut off.                          *)
(***************************************************************************)
LEMMA InitDrain == Init => DrainInv
BY DEF Init, DrainInv, NilMeansDrained

LEMMA NextDrain == ServeInv /\ DrainInv /\ [Next]_vars => DrainInv'
<1> SUFFICES ASSUME ServeInv, DrainInv, [Next]_vars PROVE DrainInv'
    OBVIOUS
<1>1. CASE Load \/ Listen
  <2>1. \/ pc' \in {"tcp", "rdma", "grpc", "go"} /\ UNCHANGED fail
        \/ pc' = "returned" /\ fail' = TRUE
      BY <1>1 DEF Load, Listen, SetupFails, After, Listeners
  <2>. QED BY <2>1 DEF DrainInv, NilMeansDrained
<1>2. CASE Spawn \/ Notify \/ SelectSignal \/ SelectError
    BY <1>2 DEF Spawn, Notify, SelectSignal, SelectError, DrainInv, NilMeansDrained
<1>3. CASE CloseZCopy \/ ZCopyClosed \/ GracefulStop \/ GracefulStopped
    BY <1>3 DEF CloseZCopy, ZCopyClosed, GracefulStop, GracefulStopped, DrainInv, NilMeansDrained
<1>4. CASE Shutdown
    BY <1>4 DEF Shutdown, StopServer, DrainInv, NilMeansDrained, TcpStopped, ServeInv, Listeners
<1>5. CASE Drained
    BY <1>5 DEF Drained, env, DrainInv, NilMeansDrained, TcpStopped
<1>6. CASE ShutdownExpired
    BY <1>6 DEF ShutdownExpired, DrainInv, NilMeansDrained, TcpStopped
<1>7. CASE Expire \/ Signal \/ RPCBegins \/ RPCEnds \/ UNCHANGED vars
    BY <1>7 DEF Expire, Signal, RPCBegins, RPCEnds, vars, env, DrainInv, NilMeansDrained,
                TcpStopped, StopPcs, SetupPcs
<1>8. CASE HTTPBegins
    BY <1>8 DEF HTTPBegins, DrainInv, NilMeansDrained, TcpStopped
<1>9. CASE HTTPEnds
    BY <1>9 DEF HTTPEnds, DrainInv, NilMeansDrained, TcpStopped
<1>10. ASSUME NEW l \in Listeners, Serve(l) \/ ServeFails(l) PROVE DrainInv'
  <2>1. /\ UNCHANGED <<app, pc, stop, fail, http>> /\ srv[l] # "none"
        /\ \E v \in {"serving", "sending", "ended"} : srv' = [srv EXCEPT ![l] = v]
      BY <1>10 DEF Serve, ServeStart, ServeStopped, SendErr, ServeFails, env
  <2>2. srv["tcp"] = "none" => srv'["tcp"] = "none"
      BY <2>1 DEF ServeInv, Listeners
  <2>. QED BY <2>1, <2>2 DEF DrainInv, NilMeansDrained, TcpStopped
<1>. QED BY <1>1, <1>2, <1>3, <1>4, <1>5, <1>6, <1>7, <1>8, <1>9, <1>10
         DEF Next, Run, Setup, Stopping

\* s3-rdma-server returns nil only when every HTTP request has been answered: no
\* request begins after Shutdown, whether or not Serve had begun by then.
THEOREM NilDrained == Spec => []NilMeansDrained
<1>1. Init => ServeInv /\ DrainInv
    BY InitServe, InitDrain
<1>2. ServeInv /\ DrainInv /\ [Next]_vars => (ServeInv /\ DrainInv)'
    BY NextServe, NextDrain
<1>3. DrainInv => NilMeansDrained
    BY DEF DrainInv
<1>. QED BY <1>1, <1>2, <1>3, PTL DEF Spec

-----------------------------------------------------------------------------
(***************************************************************************)
(* errCh.                                                                  *)
(***************************************************************************)
LEMMA NextErrs == ServeInv /\ ErrsInv /\ [Next]_vars => ErrsInv'
<1> SUFFICES ASSUME ServeInv, ErrsInv, [Next]_vars PROVE ErrsInv'
    OBVIOUS
<1>1. CASE RunSteps \/ WorldSteps \/ UNCHANGED vars
  <2>1. UNCHANGED srv
      BY <1>1, SrvUnchanged DEF vars
  <2>2. errs' = errs \/ (errs > 0 /\ errs' = errs - 1)
    <3>1. CASE SelectError
        BY <3>1 DEF SelectError
    <3>2. CASE Load \/ Listen \/ Notify \/ SelectSignal \/ Stopping \/ Expire
        BY <3>2 DEF Load, Listen, Notify, SetupFails, SelectSignal, Stopping, Expire, CloseZCopy,
           ZCopyClosed, GracefulStop, GracefulStopped, Shutdown, Drained, ShutdownExpired, env
    <3>3. CASE WorldSteps \/ UNCHANGED vars
        BY <3>3 DEF WorldSteps, HTTPBegins, HTTPEnds, RPCBegins, RPCEnds, Signal, vars, env
    <3>. QED BY <1>1, <3>1, <3>2, <3>3 DEF RunSteps
  <2>. QED BY <2>1, <2>2 DEF ErrsInv, Ended
<1>2. CASE Spawn
  <2>1. errs' = errs /\ \A l \in Listeners : srv[l] = "none"
      BY <1>2 DEF Spawn, env, ServeInv, Early
  <2>2. \A l \in Listeners : srv'[l] # "ended"
      BY <1>2 DEF Spawn
  <2>. QED BY <2>1, <2>2 DEF ErrsInv, Ended, Listeners
<1>3. ASSUME NEW l \in Listeners, ServeStart(l) \/ ServeStopped(l) \/ ServeFails(l)
      PROVE  ErrsInv'
  <2>1. /\ UNCHANGED errs /\ srv[l] \in {"spawned", "serving"}
        /\ \E v \in ServeStates : srv' = [srv EXCEPT ![l] = v]
      BY <1>3 DEF ServeStart, ServeStopped, ServeFails, env, ServeStates
  <2>2. \A k \in Listeners : srv[k] = "ended" => srv'[k] = "ended"
      BY <2>1 DEF ServeInv
  <2>. QED BY <2>1, <2>2 DEF ErrsInv, Ended, Listeners
<1>4. ASSUME NEW l \in Listeners, SendErr(l) PROVE ErrsInv'
  <2>1. /\ errs' = errs + 1 /\ srv[l] = "sending" /\ srv' = [srv EXCEPT ![l] = "ended"]
      BY <1>4 DEF SendErr
  <2>2. l \in {"tcp", "grpc"}
      BY <2>1 DEF ServeInv, Listeners
  <2>3. srv'[l] = "ended" /\ \A k \in Listeners \ {l} : srv'[k] = srv[k]
      BY <2>1 DEF ServeInv
  <2>. QED BY <2>1, <2>2, <2>3 DEF ErrsInv, Ended, Listeners
<1>. QED BY <1>1, <1>2, <1>3, <1>4, NextCases DEF Serve

LEMMA RoomLeft == ServeInv /\ ErrsInv => ErrChHasRoom
<1> SUFFICES ASSUME ServeInv, ErrsInv, NEW l \in Listeners, srv[l] = "sending"
             PROVE  errs < ErrChCap
    BY DEF ErrChHasRoom
<1>1. l \in {"tcp", "grpc"}
    BY DEF ServeInv, Listeners
<1>2. errs \in Nat /\ errs <= 1
    BY <1>1 DEF ErrsInv, Ended
<1>3. CASE app = "inmem"
    BY <1>2, <1>3, CapAtLeast
<1>4. CASE app = "s3rdma"
  <2>1. srv["grpc"] = "none"
      BY <1>4 DEF ServeInv, Listeners
  <2>2. l = "tcp"
      BY <1>1, <2>1
  <2>3. errs = 0
      BY <2>1, <2>2 DEF ErrsInv, Ended
  <2>. QED BY <1>4, <2>3, CapAtLeast
<1>5. app \in {"inmem", "s3rdma"}
    BY DEF ServeInv
<1>. QED BY <1>3, <1>4, <1>5

\* errCh never blocks a Serve goroutine, so that none outlives Run because its
\* error was not asked for.
THEOREM ErrChNeverBlocks == Spec => []ErrChHasRoom
<1>1. Init => ServeInv /\ ErrsInv
    BY InitServe DEF Init, ErrsInv, Ended, Listeners
<1>2. ServeInv /\ ErrsInv /\ [Next]_vars => (ServeInv /\ ErrsInv)'
    BY NextServe, NextErrs
<1>. QED BY <1>1, <1>2, RoomLeft, PTL DEF Spec

-----------------------------------------------------------------------------
(***************************************************************************)
(* Types.                                                                  *)
(***************************************************************************)
LnStates == {"none", "open", "closed"}

\* TypeOK without the bound on errs, which needs ErrsInv.
PlainTypes ==
    /\ app \in Apps /\ on \subseteq Listeners
    /\ pc \in Pcs
    /\ ln \in [Listeners -> LnStates]
    /\ srv \in [Listeners -> ServeStates]
    /\ stop \subseteq on
    /\ sig \in BOOLEAN /\ late \in BOOLEAN /\ fail \in BOOLEAN
    /\ http \in 0..MaxInFlight /\ rpc \in 0..MaxInFlight

LEMMA ClosedType ==
    ASSUME ln \in [Listeners -> LnStates], NEW ls
    PROVE  Closed(ls) \in [Listeners -> LnStates]
BY DEF Closed, LnStates

LEMMA StopServerType ==
    ASSUME PlainTypes, NEW l, StopServer(l)
    PROVE  stop' \subseteq on /\ ln' \in [Listeners -> LnStates]
BY ClosedType DEF StopServer, PlainTypes

LEMMA NextTypes == ServeInv /\ PlainTypes /\ [Next]_vars => PlainTypes'
<1> SUFFICES ASSUME ServeInv, PlainTypes, [Next]_vars PROVE PlainTypes'
    OBVIOUS
<1>0. ServeInv' /\ MaxInFlight \in Nat
    BY NextServe, AppAssumption
<1>s. srv' \in [Listeners -> ServeStates]
    BY <1>0 DEF ServeInv
<1>1. CASE Load \/ Listen
  <2>1. CleanupSetup \in [Listeners -> LnStates]
      BY ClosedType DEF CleanupSetup, PlainTypes
  <2>2. [ln EXCEPT ![pc] = "open"] \in [Listeners -> LnStates]
      BY DEF PlainTypes, LnStates
  <2>3. ln' \in [Listeners -> LnStates]
      BY <1>1, <2>1, <2>2 DEF Load, Listen, SetupFails, PlainTypes
  <2>4. pc' \in Pcs
      BY <1>1 DEF Load, Listen, SetupFails, After, Listeners, Pcs, SetupPcs
  <2>5. UNCHANGED <<app, on, srv, stop, late, sig, http, rpc>> /\ fail' \in BOOLEAN
      BY <1>1 DEF Load, Listen, SetupFails, env, PlainTypes
  <2>. QED BY <2>3, <2>4, <2>5 DEF PlainTypes
<1>2. CASE Spawn \/ Notify \/ SelectSignal \/ SelectError
  <2>1. pc' \in Pcs
      BY <1>2 DEF Spawn, Notify, SelectSignal, SelectError, Pcs, SetupPcs, StopPcs
  <2>2. UNCHANGED <<app, on, ln, stop, late, http, rpc>> /\ fail' \in BOOLEAN /\ sig' \in BOOLEAN
      BY <1>2 DEF Spawn, Notify, SelectSignal, SelectError, env, PlainTypes
  <2>. QED BY <1>s, <2>1, <2>2 DEF PlainTypes
<1>3. CASE Stopping
  <2>1. pc' \in Pcs /\ UNCHANGED <<app, on, srv, late, sig, http, rpc>> /\ fail' \in BOOLEAN
      BY <1>3 DEF Stopping, CloseZCopy, ZCopyClosed, GracefulStop, GracefulStopped, Shutdown,
                  Drained, ShutdownExpired, Pcs, StopPcs, env, PlainTypes
  <2>2. stop' \subseteq on
      BY <1>3, StopServerType DEF Stopping, CloseZCopy, ZCopyClosed, GracefulStop,
                  GracefulStopped, Shutdown, Drained, ShutdownExpired, PlainTypes
  <2>3. ln' \in [Listeners -> LnStates]
      BY <1>3, StopServerType, ClosedType DEF Stopping, CloseZCopy, ZCopyClosed, GracefulStop,
                  GracefulStopped, Shutdown, Drained, ShutdownExpired, PlainTypes
  <2>. QED BY <2>1, <2>2, <2>3 DEF PlainTypes
<1>4. CASE Expire \/ UNCHANGED vars
    BY <1>4 DEF Expire, vars, env, PlainTypes
<1>5. ASSUME NEW l \in Listeners, Serve(l) \/ ServeFails(l) PROVE PlainTypes'
  <2>1. UNCHANGED <<app, on, pc, stop, late, fail, sig, http, rpc>>
      BY <1>5 DEF Serve, ServeStart, ServeStopped, SendErr, ServeFails, env
  <2>2. ln' \in [Listeners -> LnStates]
      BY <1>5, ClosedType DEF Serve, ServeStart, ServeStopped, SendErr, ServeFails, PlainTypes
  <2>. QED BY <1>s, <2>1, <2>2 DEF PlainTypes
<1>6. CASE HTTPBegins \/ HTTPEnds
    BY <1>0, <1>6 DEF HTTPBegins, HTTPEnds, PlainTypes
<1>7. CASE RPCBegins \/ RPCEnds
    BY <1>0, <1>7 DEF RPCBegins, RPCEnds, PlainTypes
<1>8. CASE Signal
    BY <1>8 DEF Signal, PlainTypes, Pcs
<1>. QED BY <1>1, <1>2, <1>3, <1>4, <1>5, <1>6, <1>7, <1>8 DEF Next, Run, Setup

\* As many goroutines have ended as there are listeners, at most.
LEMMA EndedBound ==
    ASSUME ServeInv
    PROVE  /\ Cardinality(on) \in Nat
           /\ Ended("tcp") + Ended("grpc") <= Cardinality(on)
<1>1. IsFiniteSet(Listeners)
  <2>1. IsFiniteSet({"tcp"})
      BY FS_Singleton
  <2>2. IsFiniteSet({"tcp"} \cup {"rdma"})
      BY <2>1, FS_AddElement
  <2>3. IsFiniteSet(({"tcp"} \cup {"rdma"}) \cup {"grpc"})
      BY <2>2, FS_AddElement
  <2>4. Listeners = ({"tcp"} \cup {"rdma"}) \cup {"grpc"}
      BY DEF Listeners
  <2>. QED BY <2>3, <2>4
<1>2. IsFiniteSet(on)
    BY <1>1, FS_Subset DEF ServeInv
<1>3. Cardinality(on) \in Nat
    BY <1>2, FS_CardinalityType
<1>4. ASSUME NEW S, S \subseteq on PROVE Cardinality(S) <= Cardinality(on)
    BY <1>2, <1>4, FS_Subset
<1>5. Cardinality({"tcp"}) = 1 /\ Cardinality({"grpc"}) = 1 /\ IsFiniteSet({"tcp"})
    BY FS_Singleton
<1>6. Cardinality({"tcp"} \cup {"grpc"}) = 2
    BY <1>5, FS_AddElement
<1>7. \A l \in {"tcp", "grpc"} : srv[l] = "ended" => l \in on
    BY DEF ServeInv, Listeners
<1>8. CASE srv["tcp"] = "ended" /\ srv["grpc"] = "ended"
  <2>1. {"tcp"} \cup {"grpc"} \subseteq on
      BY <1>7, <1>8
  <2>2. 2 <= Cardinality(on)
      BY <2>1, <1>4, <1>6
  <2>. QED BY <1>3, <1>8, <2>2 DEF Ended
<1>9. CASE srv["tcp"] = "ended" /\ srv["grpc"] # "ended"
  <2>1. 1 <= Cardinality(on)
      BY <1>4, <1>5, <1>7, <1>9
  <2>. QED BY <1>3, <1>9, <2>1 DEF Ended
<1>10. CASE srv["tcp"] # "ended" /\ srv["grpc"] = "ended"
  <2>1. 1 <= Cardinality(on)
      BY <1>4, <1>5, <1>7, <1>10
  <2>. QED BY <1>3, <1>10, <2>1 DEF Ended
<1>11. CASE srv["tcp"] # "ended" /\ srv["grpc"] # "ended"
    BY <1>3, <1>11 DEF Ended
<1>. QED BY <1>3, <1>8, <1>9, <1>10, <1>11

\* TypeOK, for either program and any configuration: Run stops only servers it has
\* started, and errCh never holds more errors than there are servers.
THEOREM AppTypes == Spec => []TypeOK
<1>1. Init => ServeInv /\ ErrsInv /\ PlainTypes
  <2>1. Init => ServeInv /\ ErrsInv
      BY InitServe DEF Init, ErrsInv, Ended, Listeners
  <2>2. ASSUME Init PROVE PlainTypes
    <3>1. app \in Apps /\ on \subseteq Listeners /\ stop \subseteq on /\ pc \in Pcs
        BY <2>2 DEF Init, Pcs, SetupPcs
    <3>2. ln \in [Listeners -> LnStates] /\ srv \in [Listeners -> ServeStates]
        BY <2>2 DEF Init, LnStates, ServeStates
    <3>3. http \in 0..MaxInFlight /\ rpc \in 0..MaxInFlight
        BY <2>2, AppAssumption DEF Init
    <3>4. sig \in BOOLEAN /\ late \in BOOLEAN /\ fail \in BOOLEAN
        BY <2>2 DEF Init
    <3>. QED BY <3>1, <3>2, <3>3, <3>4 DEF PlainTypes
  <2>. QED BY <2>1, <2>2
<1>2. ServeInv /\ ErrsInv /\ PlainTypes /\ [Next]_vars => (ServeInv /\ ErrsInv /\ PlainTypes)'
    BY NextServe, NextErrs, NextTypes
<1>3. ServeInv /\ ErrsInv /\ PlainTypes => TypeOK
  <2> SUFFICES ASSUME ServeInv, ErrsInv, PlainTypes PROVE TypeOK
      OBVIOUS
  <2>1. errs \in 0..Cardinality(on)
    <3>1. Ended("tcp") \in Nat /\ Ended("grpc") \in Nat
        BY DEF Ended
    <3>. QED BY <3>1, EndedBound DEF ErrsInv
  <2>. QED BY <2>1 DEF TypeOK, PlainTypes, LnStates, ServeStates
<1>. QED BY <1>1, <1>2, <1>3, PTL DEF Spec
=============================================================================
