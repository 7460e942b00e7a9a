------------------------ MODULE VerbsListenerProofs ------------------------
(***************************************************************************)
(* Close of the listener frees nothing under an accept worker, for any     *)
(* number of workers and connections; and with one worker, the default,    *)
(* no connection is destroyed while it is set up or waits.                 *)
(***************************************************************************)
EXTENDS VerbsListener, FilterProofs, TLAPS

WorkerStates == {"top", "poll", "get", "setup", "shake", "hand", "exit"}

\* The order of Close: what is freed is freed in its last two states, and it
\* gets there only when every worker has left.  A worker that has left does not
\* come back, which is what makes this inductive.
CloseOrder ==
    /\ wpc \in [Workers -> WorkerStates]
    /\ freed \/ outClosed => closing \in {"free", "done"}
    /\ closing \in {"free", "done"} => WorkersDone

\* No step of an accept worker (acceptWorker, go_rdma_accept) starts from "exit":
\* once workerWg.Wait can return it stays so.
LEMMA WorkerKeepsOrder ==
    ASSUME CloseOrder, NEW w \in Workers, Worker(w)
    PROVE  CloseOrder'
<1>1. wpc[w] # "exit"
  BY DEF Worker, WorkerTop, WorkerPoll, WorkerGet, WorkerSetup, WorkerShake, WorkerHand
<1>2. closing \notin {"free", "done"} /\ ~freed /\ ~outClosed
  BY <1>1 DEF CloseOrder, WorkersDone
<1>3. UNCHANGED <<closing, freed, outClosed>>
  BY DEF Worker, WorkerTop, WorkerPoll, WorkerGet, WorkerSetup, WorkerShake, WorkerHand
<1>4. \E pc \in WorkerStates : wpc' = [wpc EXCEPT ![w] = pc]
  <2>1. CASE WorkerTop(w)   BY <2>1 DEF WorkerTop, Goto, WorkerStates
  <2>2. CASE WorkerPoll(w)  BY <2>2 DEF WorkerPoll, Goto, WorkerStates
  <2>3. CASE WorkerGet(w)   BY <2>3 DEF WorkerGet, Goto, WorkerStates
  <2>4. CASE WorkerSetup(w) BY <2>4 DEF WorkerSetup, Goto, WorkerStates
  <2>5. CASE WorkerShake(w) BY <2>5 DEF WorkerShake, Goto, WorkerStates
  <2>6. CASE WorkerHand(w)  BY <2>6 DEF WorkerHand, Goto, WorkerStates
  <2>7. QED
    BY <2>1, <2>2, <2>3, <2>4, <2>5, <2>6 DEF Worker
<1>5. QED
  BY <1>2, <1>3, <1>4 DEF CloseOrder

\* The order of Close holds in every reachable state of the listener.
THEOREM CloseOrdered == Spec => []CloseOrder
<1>1. Init => CloseOrder
  BY DEF Init, CloseOrder, WorkerStates
<1>2. CloseOrder /\ [Next]_vars => CloseOrder'
  <2> SUFFICES ASSUME CloseOrder, [Next]_vars
               PROVE  CloseOrder'
    OBVIOUS
  <2>1. ASSUME NEW w \in Workers, Worker(w)
        PROVE  CloseOrder'
    BY <2>1, WorkerKeepsOrder
  <2>2. CASE CloseFree
    BY <2>2 DEF CloseFree, CloseOrder, WorkersDone, workerVars
  <2>3. CASE CloseOut
    BY <2>3 DEF CloseOut, CloseOrder, WorkersDone, workerVars
  <2>4. CASE CloseBegin
    BY <2>4 DEF CloseBegin, CloseOrder, WorkersDone, workerVars
  <2>5. CASE \/ \E c \in Conns : PeerConnect(c) \/ PeerEnd(c) \/ ServeConnEnds(c)
             \/ Serve
             \/ UNCHANGED vars
    <3>1. UNCHANGED <<wpc, closing, freed, outClosed>>
      BY <2>5 DEF PeerConnect, PeerEnd, ServeConnEnds, Serve, workerVars, vars
    <3>2. QED
      BY <3>1 DEF CloseOrder, WorkersDone
  <2>6. QED
    BY <2>1, <2>2, <2>3, <2>4, <2>5 DEF Next, Closer
<1>3. QED
  BY <1>1, <1>2, PTL DEF Spec

\* For any number of accept workers, Close (verbsMessageListener) destroys the C
\* listener and closes acceptOut only when none of them can touch either.
THEOREM ListenerNotFreedInUse == Spec => []NoUseAfterFree
<1>1. CloseOrder => NoUseAfterFree
  BY DEF CloseOrder, NoUseAfterFree, WorkersDone
<1>2. QED
  BY <1>1, CloseOrdered, PTL

-----------------------------------------------------------------------------
(***************************************************************************)
(* Types.                                                                  *)
(***************************************************************************)
Event == [k: {"request", "bad", "end"}, c: Conns]
ConnStates == {"new", "asked", "own", "served", "gone"}
Busy == {"setup", "shake", "hand"}

\* Where Goto leads is a state of a worker, with a connection if it needs one.
GoesWell(pc, c) == /\ pc \in WorkerStates
                   /\ c \in Conns \cup {NoConn}
                   /\ c # NoConn <=> pc \in Busy

LEMMA WithoutType ==
    ASSUME NEW evs \in Seq(Event), NEW c
    PROVE  /\ Without(evs, c) \in Seq(Event)
           /\ \A i \in 1..Len(Without(evs, c)) :
                 /\ Without(evs, c)[i].c # c
                 /\ \E j \in 1..Len(evs) : Without(evs, c)[i] = evs[j]
<1> DEFINE S == {e \in ToSet(evs) : e.c = c}
           d == Drop(evs, S)
<1>1. d \in Seq(Event)
  BY DropPicks
<1>2. Elements(d) = Elements(evs) \ S
  BY DropElements
<1>3. Elements(evs) = ToSet(evs)
  BY DEF Elements, ToSet
<1> HIDE DEF d
<1>4. ASSUME NEW i \in 1..Len(d)
      PROVE  d[i].c # c /\ \E j \in 1..Len(evs) : d[i] = evs[j]
  <2>1. d[i] \in Elements(evs) \ S
    BY <1>2 DEF Elements
  <2> QED BY <2>1, <1>3 DEF Elements
<1> QED BY <1>1, <1>4 DEF Without, d

LEMMA GotoType ==
    ASSUME TypeOK, NEW w \in Workers, NEW pc, NEW c, Goto(w, pc, c), GoesWell(pc, c)
    PROVE  /\ wpc' \in [Workers -> WorkerStates]
           /\ wconn' \in [Workers -> Conns \cup {NoConn}]
           /\ \A v \in Workers : wconn'[v] # NoConn <=> wpc'[v] \in Busy
<1>1. wpc' = [wpc EXCEPT ![w] = pc] /\ wconn' = [wconn EXCEPT ![w] = c]
  BY DEF Goto
<1>2. wpc \in [Workers -> WorkerStates] /\ wconn \in [Workers -> Conns \cup {NoConn}]
  BY DEF TypeOK, WorkerStates
<1>3. wpc' \in [Workers -> WorkerStates] /\ wconn' \in [Workers -> Conns \cup {NoConn}]
  BY <1>1, <1>2 DEF GoesWell
<1>4. ASSUME NEW v \in Workers PROVE wconn'[v] # NoConn <=> wpc'[v] \in Busy
  <2>1. CASE v = w
    BY <1>1, <1>2, <2>1 DEF GoesWell
  <2>2. CASE v # w
    BY <1>1, <1>2, <2>2 DEF TypeOK, Busy
  <2> QED BY <2>1, <2>2
<1> QED BY <1>3, <1>4

LEMMA WorkerConn ==
    ASSUME TypeOK, NEW w \in Workers, wpc[w] \in Busy
    PROVE  wconn[w] \in Conns
BY DEF TypeOK, Busy

\* Everything but the workers' own state, as TypeOK has it.
RestType ==
    /\ cl \in BOOLEAN /\ outClosed \in BOOLEAN /\ freed \in BOOLEAN
    /\ events \in Seq(Event)
    /\ acceptOut \in Seq(Conns) /\ Len(acceptOut) <= OutCap
    /\ conn \in [Conns -> ConnStates]
    /\ serve \in {"accept", "returned"}
    /\ closing \in {"no", "wait", "free", "done"}

LEMMA RestOfTypes == TypeOK => RestType
BY DEF TypeOK, RestType, Event, ConnStates

LEMMA TypesFromRest ==
    ASSUME RestType', NEW w \in Workers, NEW pc, NEW c, TypeOK, Goto(w, pc, c), GoesWell(pc, c)
    PROVE  TypeOK'
<1>1. /\ wpc' \in [Workers -> WorkerStates]
      /\ wconn' \in [Workers -> Conns \cup {NoConn}]
      /\ \A v \in Workers : wconn'[v] # NoConn <=> wpc'[v] \in Busy
  BY GotoType
<1> QED BY <1>1 DEF TypeOK, RestType, WorkerStates, ConnStates, Event, Busy

LEMMA WorkerKeepsTypes ==
    ASSUME TypeOK, NEW w \in Workers, Worker(w)
    PROVE  TypeOK'
<1>0. RestType
  BY RestOfTypes
<1>a. NoConn \notin Conns
  BY ListenerAssumption
<1>1. CASE WorkerTop(w)
  <2>1. PICK pc \in {"poll", "exit"} : Goto(w, pc, NoConn)
    BY <1>1 DEF WorkerTop
  <2>2. GoesWell(pc, NoConn)
    BY DEF GoesWell, WorkerStates, Busy
  <2>3. RestType'
    BY <1>0, <1>1 DEF WorkerTop, RestType
  <2> QED BY <2>1, <2>2, <2>3, TypesFromRest
<1>2. CASE WorkerPoll(w)
  <2>1. PICK pc \in {"get", "top"} : Goto(w, pc, NoConn)
    BY <1>2 DEF WorkerPoll
  <2>2. GoesWell(pc, NoConn)
    BY DEF GoesWell, WorkerStates, Busy
  <2>3. RestType'
    BY <1>0, <1>2 DEF WorkerPoll, RestType
  <2> QED BY <2>1, <2>2, <2>3, TypesFromRest
<1>3. CASE WorkerGet(w)
  <2>1. events # <<>> /\ UNCHANGED <<cl, acceptOut, outClosed, serve, closing, freed>>
    BY <1>3 DEF WorkerGet
  <2>2. Head(events) \in Event /\ Tail(events) \in Seq(Event)
    BY <1>0, <2>1 DEF RestType
  <2>3. Head(events).c \in Conns
    BY <2>2 DEF Event
  <2>4. CASE /\ Goto(w, "setup", Head(events).c)
             /\ events' = Tail(events) /\ UNCHANGED conn
    <3>1. GoesWell("setup", Head(events).c)
      BY <2>3, <1>a DEF GoesWell, WorkerStates, Busy
    <3>2. RestType'
      BY <1>0, <2>1, <2>2, <2>4 DEF RestType
    <3> QED BY <2>4, <3>1, <3>2, TypesFromRest
  <2>5. CASE /\ Goto(w, IF Head(events).k = "bad" THEN "top" ELSE "poll", NoConn)
             /\ events' = Without(Tail(events), Head(events).c)
             /\ conn' = [conn EXCEPT ![Head(events).c] = "gone"]
    <3>1. PICK pc \in {"top", "poll"} : Goto(w, pc, NoConn)
      BY <2>5
    <3>2. GoesWell(pc, NoConn)
      BY DEF GoesWell, WorkerStates, Busy
    <3>3. events' \in Seq(Event)
      BY <2>2, <2>5, WithoutType
    <3>4. conn' \in [Conns -> ConnStates]
      BY <1>0, <2>5 DEF RestType, ConnStates
    <3>5. RestType'
      BY <1>0, <2>1, <3>3, <3>4 DEF RestType
    <3> QED BY <3>1, <3>2, <3>5, TypesFromRest
  <2> QED BY <1>3, <2>4, <2>5 DEF WorkerGet
<1>4. CASE WorkerSetup(w)
  <2>1. wconn[w] \in Conns /\ UNCHANGED <<cl, acceptOut, outClosed, serve, closing, freed>>
    BY <1>4, WorkerConn DEF WorkerSetup, Busy
  <2>2. GoesWell("shake", wconn[w]) /\ GoesWell("top", NoConn)
    BY <2>1, <1>a DEF GoesWell, WorkerStates, Busy
  <2>3. Without(events, wconn[w]) \in Seq(Event)
    BY <1>0, WithoutType DEF RestType
  <2>4. /\ [conn EXCEPT ![wconn[w]] = IF @ = "asked" THEN "own" ELSE @] \in [Conns -> ConnStates]
        /\ [conn EXCEPT ![wconn[w]] = "gone"] \in [Conns -> ConnStates]
    BY <1>0, <2>1 DEF RestType, ConnStates
  <2>5. events' \in Seq(Event) /\ conn' \in [Conns -> ConnStates]
    <3>1. events \in Seq(Event) /\ conn \in [Conns -> ConnStates]
      BY <1>0 DEF RestType
    <3> QED BY <1>4, <2>3, <2>4, <3>1 DEF WorkerSetup
  <2>6. RestType'
    BY <1>0, <2>1, <2>5 DEF RestType
  <2>7. Goto(w, "shake", wconn[w]) \/ Goto(w, "top", NoConn)
    BY <1>4 DEF WorkerSetup
  <2> QED BY <2>2, <2>6, <2>7, TypesFromRest
<1>5. CASE WorkerShake(w)
  <2>1. wconn[w] \in Conns
    BY <1>5, WorkerConn DEF WorkerShake, Busy
  <2>2. GoesWell("hand", wconn[w]) /\ GoesWell("top", NoConn)
    BY <2>1, <1>a DEF GoesWell, WorkerStates, Busy
  <2>3. RestType'
    BY <1>0, <1>5, <2>1 DEF WorkerShake, RestType, ConnStates
  <2>4. Goto(w, "hand", wconn[w]) \/ Goto(w, "top", NoConn)
    BY <1>5 DEF WorkerShake
  <2> QED BY <2>2, <2>3, <2>4, TypesFromRest
<1>6. CASE WorkerHand(w)
  <2>1. wconn[w] \in Conns
    BY <1>6, WorkerConn DEF WorkerHand, Busy
  <2>2. GoesWell("exit", NoConn) /\ GoesWell("top", NoConn)
    BY DEF GoesWell, WorkerStates, Busy
  <2>3. RestType'
    BY <1>0, <1>6, <2>1, ListenerAssumption, SMTT(30) DEF WorkerHand, RestType, ConnStates
  <2>4. Goto(w, "exit", NoConn) \/ Goto(w, "top", NoConn)
    BY <1>6 DEF WorkerHand
  <2> QED BY <2>2, <2>3, <2>4, TypesFromRest
<1> QED BY <1>1, <1>2, <1>3, <1>4, <1>5, <1>6 DEF Worker

\* The steps of anybody but the workers leave the workers' state alone.
LEMMA OthersKeepTypes ==
    ASSUME TypeOK, RestType', UNCHANGED workerVars
    PROVE  TypeOK'
BY DEF TypeOK, RestType, workerVars, ConnStates, Event

LEMMA NextKeepsTypes == TypeOK /\ [Next]_vars => TypeOK'
<1> SUFFICES ASSUME TypeOK, [Next]_vars PROVE TypeOK'
  OBVIOUS
<1>0. RestType
  BY RestOfTypes
<1>1. ASSUME NEW w \in Workers, Worker(w) PROVE TypeOK'
  BY <1>1, WorkerKeepsTypes
<1>2. ASSUME NEW c \in Conns, PeerConnect(c) PROVE TypeOK'
  <2>1. PICK k \in {"request", "bad"} : events' = Append(events, [k |-> k, c |-> c])
    BY <1>2 DEF PeerConnect
  <2>2. [k |-> k, c |-> c] \in Event
    BY DEF Event
  <2>3. events' \in Seq(Event)
    BY <1>0, <2>1, <2>2 DEF RestType
  <2>4. conn' \in [Conns -> ConnStates]
    BY <1>0, <1>2 DEF PeerConnect, RestType, ConnStates
  <2>5. RestType'
    BY <1>0, <1>2, <2>3, <2>4 DEF PeerConnect, RestType
  <2> QED BY <1>2, <2>5, OthersKeepTypes DEF PeerConnect
<1>3. ASSUME NEW c \in Conns, PeerEnd(c) PROVE TypeOK'
  <2>1. [k |-> "end", c |-> c] \in Event
    BY DEF Event
  <2>2. events' \in Seq(Event)
    BY <1>0, <1>3, <2>1 DEF PeerEnd, RestType
  <2>3. RestType'
    BY <1>0, <1>3, <2>2 DEF PeerEnd, RestType
  <2> QED BY <1>3, <2>3, OthersKeepTypes DEF PeerEnd
<1>4. CASE Serve
  <2>1. acceptOut # <<>> =>
          /\ Tail(acceptOut) \in Seq(Conns) /\ Len(Tail(acceptOut)) <= OutCap
          /\ Head(acceptOut) \in Conns
    BY <1>0, ListenerAssumption DEF RestType
  <2>2. [conn EXCEPT ![Head(acceptOut)] = "served"] \in [Conns -> ConnStates]
    BY <1>0 DEF RestType, ConnStates
  <2>3. RestType'
    BY <1>0, <1>4, <2>1, <2>2 DEF Serve, RestType
  <2> QED BY <1>4, <2>3, OthersKeepTypes DEF Serve
<1>5. ASSUME NEW c \in Conns, ServeConnEnds(c) PROVE TypeOK'
  <2>1. RestType'
    BY <1>0, <1>5 DEF ServeConnEnds, RestType, ConnStates
  <2> QED BY <1>5, <2>1, OthersKeepTypes DEF ServeConnEnds
<1>6. CASE CloseBegin \/ Closer \/ UNCHANGED vars
  <2>1. RestType' /\ UNCHANGED workerVars
    BY <1>0, <1>6 DEF CloseBegin, Closer, CloseFree, CloseOut, vars, RestType
  <2> QED BY <2>1, OthersKeepTypes
<1> QED BY <1>1, <1>2, <1>3, <1>4, <1>5, <1>6 DEF Next

LEMMA InitTypes ==
    ASSUME Init
    PROVE  TypeOK
<1>1. /\ wpc \in [Workers -> WorkerStates] /\ wconn \in [Workers -> Conns \cup {NoConn}]
      /\ conn \in [Conns -> ConnStates]
  BY DEF Init, WorkerStates, ConnStates
<1>2. ASSUME NEW w \in Workers PROVE wconn[w] # NoConn <=> wpc[w] \in Busy
  BY DEF Init, Busy
<1>3. /\ events = <<>> /\ acceptOut = <<>> /\ closing = "no" /\ serve = "accept"
      /\ cl \in BOOLEAN /\ outClosed \in BOOLEAN /\ freed \in BOOLEAN
  BY DEF Init
<1>4. Len(acceptOut) <= OutCap /\ events \in Seq(Event) /\ acceptOut \in Seq(Conns)
  BY <1>3, ListenerAssumption
<1> QED BY <1>1, <1>2, <1>3, <1>4 DEF TypeOK, WorkerStates, ConnStates, Busy, Event

\* TypeOK holds for any number of workers and connections: among other things a
\* worker of acceptWorker holds a connection exactly while go_rdma_accept sets one
\* up or the select hands it over, and acceptOut stays within its capacity.
THEOREM ListenerTypes == Spec => []TypeOK
BY InitTypes, NextKeepsTypes, PTL DEF Spec

-----------------------------------------------------------------------------
(***************************************************************************)
(* One worker.  An id has events on the listener's channel only until it   *)
(* is migrated; a connection that is set up or waits is in one place.      *)
(***************************************************************************)
OneWorker == \A v, w \in Workers : v = w

EventsInv == \A i \in 1..Len(events) : conn[events[i].c] = "asked"

SetupInv ==
    \A w \in Workers :
        /\ wpc[w] = "setup" => conn[wconn[w]] = "asked"
        /\ wpc[w] \in {"shake", "hand"} =>
              conn[wconn[w]] = "own" /\ wconn[w] \notin Elements(acceptOut)

OutInv == /\ \A i \in 1..Len(acceptOut) : conn[acceptOut[i]] = "own"
          /\ Distinct(acceptOut)

AliveInv == TypeOK /\ EventsInv /\ SetupInv /\ OutInv

\* What a connection's change of state may not disturb.
LEMMA OthersAlive ==
    ASSUME RestType, NEW c \in Conns, NEW v,
           conn' = [conn EXCEPT ![c] = v],
           EventsInv, OutInv, UNCHANGED acceptOut,
           c \notin Elements(acceptOut)
    PROVE  OutInv'
<1>1. ASSUME NEW i \in 1..Len(acceptOut) PROVE conn'[acceptOut[i]] = "own"
  <2>1. acceptOut[i] # c /\ acceptOut[i] \in Conns
    BY DEF Elements, RestType
  <2> QED BY <2>1 DEF OutInv, RestType
<1> QED BY <1>1 DEF OutInv, Distinct

LEMMA OwnOnly ==
    ASSUME OutInv, NEW c, conn[c] # "own"
    PROVE  c \notin Elements(acceptOut)
BY DEF OutInv, Elements

\* Events of c are gone from the channel once it has been destroyed or migrated.
LEMMA EventsDropped ==
    ASSUME RestType, NEW evs \in Seq(Event), NEW c \in Conns, NEW v,
           \A i \in 1..Len(evs) : conn[evs[i].c] = "asked",
           events' = Without(evs, c),
           conn' = [conn EXCEPT ![c] = v]
    PROVE  EventsInv'
<1>1. ASSUME NEW i \in 1..Len(events') PROVE conn'[(events'[i]).c] = "asked"
  <2>1. PICK j \in 1..Len(evs) : events'[i] = evs[j]
    BY WithoutType
  <2>2. evs[j].c # c
    BY <2>1, WithoutType
  <2>3. evs[j] \in Event
    BY <2>1
  <2>4. evs[j].c \in Conns
    BY <2>3 DEF Event
  <2> QED BY <2>1, <2>2, <2>4 DEF RestType
<1> QED BY <1>1 DEF EventsInv

LEMMA WorkerKeepsAlive ==
    ASSUME OneWorker, AliveInv, NEW w \in Workers, Worker(w)
    PROVE  (EventsInv /\ SetupInv /\ OutInv)'
<1>0. RestType /\ TypeOK /\ EventsInv /\ SetupInv /\ OutInv
  BY RestOfTypes DEF AliveInv
<1>w. \A v \in Workers : v = w
  BY DEF OneWorker
<1>g. ASSUME NEW pc, NEW c, Goto(w, pc, c) PROVE wpc'[w] = pc /\ wconn'[w] = c
  BY <1>g, <1>0 DEF Goto, TypeOK
<1>1. CASE WorkerTop(w) \/ WorkerPoll(w)
  <2>1. UNCHANGED <<events, conn, acceptOut>> /\ wpc'[w] \in {"poll", "exit", "get", "top"}
    BY <1>1, <1>g DEF WorkerTop, WorkerPoll
  <2>2. SetupInv'
    BY <2>1, <1>w DEF SetupInv
  <2>3. EventsInv' /\ OutInv'
    BY <2>1, <1>0 DEF EventsInv, OutInv, Distinct
  <2> QED BY <2>2, <2>3
<1>3. CASE WorkerGet(w)
  <2>1. events # <<>> /\ UNCHANGED <<cl, acceptOut, outClosed, serve, closing, freed>>
    BY <1>3 DEF WorkerGet
  <2>2. Head(events) \in Event /\ Tail(events) \in Seq(Event)
    BY <1>0, <2>1 DEF RestType
  <2>3. Head(events).c \in Conns /\ conn[Head(events).c] = "asked"
    <3>1. Head(events) = events[1] /\ 1 \in 1..Len(events)
      BY <1>0, <2>1 DEF RestType
    <3> QED BY <2>2, <3>1, <1>0 DEF Event, EventsInv
  <2>t. \A i \in 1..Len(Tail(events)) : conn[(Tail(events)[i]).c] = "asked"
    <3> SUFFICES ASSUME NEW i \in 1..Len(Tail(events))
                 PROVE  conn[(Tail(events)[i]).c] = "asked"
      OBVIOUS
    <3>1. Tail(events)[i] = events[i + 1] /\ i + 1 \in 1..Len(events)
      BY <1>0, <2>1 DEF RestType
    <3> QED BY <3>1, <1>0 DEF EventsInv
  <2>4. CASE /\ Goto(w, "setup", Head(events).c)
             /\ events' = Tail(events) /\ UNCHANGED conn
    <3>1. EventsInv'
      BY <2>4, <2>t DEF EventsInv
    <3>2. OutInv'
      BY <2>1, <2>4, <1>0 DEF OutInv, Distinct
    <3>3. wpc'[w] = "setup" /\ wconn'[w] = Head(events).c
      BY <2>4, <1>g
    <3>4. SetupInv'
      BY <3>3, <2>3, <2>4, <1>w DEF SetupInv
    <3> QED BY <3>1, <3>2, <3>4
  <2>5. CASE /\ Goto(w, IF Head(events).k = "bad" THEN "top" ELSE "poll", NoConn)
             /\ events' = Without(Tail(events), Head(events).c)
             /\ conn' = [conn EXCEPT ![Head(events).c] = "gone"]
    <3>1. EventsInv'
      BY <1>0, <2>2, <2>3, <2>t, <2>5, EventsDropped
    <3>2. OutInv'
      BY <1>0, <2>1, <2>3, <2>5, OwnOnly, OthersAlive
    <3>3. wpc'[w] \in {"top", "poll"}
      BY <2>5, <1>g
    <3>4. SetupInv'
      BY <3>3, <1>w DEF SetupInv
    <3> QED BY <3>1, <3>2, <3>4
  <2> QED BY <1>3, <2>4, <2>5 DEF WorkerGet
<1>4. CASE WorkerSetup(w)
  <2>1. wconn[w] \in Conns /\ UNCHANGED acceptOut
    BY <1>0, <1>4, WorkerConn DEF WorkerSetup, Busy
  <2>2. conn[wconn[w]] = "asked" /\ wconn[w] \notin Elements(acceptOut)
    BY <1>0, <1>4, OwnOnly DEF WorkerSetup, SetupInv
  <2>e. events \in Seq(Event) /\ \A i \in 1..Len(events) : conn[events[i].c] = "asked"
    BY <1>0 DEF RestType, EventsInv
  <2>3. CASE /\ Goto(w, "shake", wconn[w])
             /\ events' = Without(events, wconn[w])
             /\ conn' = [conn EXCEPT ![wconn[w]] = IF @ = "asked" THEN "own" ELSE @]
    <3>0. conn' = [conn EXCEPT ![wconn[w]] = "own"]
      BY <1>0, <2>1, <2>2, <2>3 DEF RestType
    <3>1. EventsInv'
      BY <1>0, <2>1, <2>e, <2>3, <3>0, EventsDropped
    <3>2. OutInv'
      BY <1>0, <2>1, <2>2, <3>0, OthersAlive
    <3>3. wpc'[w] = "shake" /\ wconn'[w] = wconn[w]
      BY <2>3, <1>g
    <3>4. conn'[wconn[w]] = "own" /\ Elements(acceptOut)' = Elements(acceptOut)
      BY <1>0, <2>1, <3>0 DEF RestType, Elements
    <3>5. SetupInv'
      BY <3>3, <3>4, <2>2, <1>w DEF SetupInv
    <3> QED BY <3>1, <3>2, <3>5
  <2>4. CASE /\ Goto(w, "top", NoConn)
             /\ events' = Without(events, wconn[w])
             /\ conn' = [conn EXCEPT ![wconn[w]] = "gone"]
    <3>1. EventsInv'
      BY <1>0, <2>1, <2>e, <2>4, EventsDropped
    <3>2. OutInv'
      BY <1>0, <2>1, <2>2, <2>4, OthersAlive
    <3>3. SetupInv'
      BY <2>4, <1>g, <1>w DEF SetupInv
    <3> QED BY <3>1, <3>2, <3>3
  <2>5. CASE Goto(w, "top", NoConn) /\ UNCHANGED <<events, conn>>
    <3>1. EventsInv' /\ OutInv'
      BY <1>0, <2>1, <2>5 DEF EventsInv, OutInv, Distinct
    <3>2. SetupInv'
      BY <2>5, <1>g, <1>w DEF SetupInv
    <3> QED BY <3>1, <3>2
  <2> QED BY <1>4, <2>3, <2>4, <2>5 DEF WorkerSetup
<1>5. CASE WorkerShake(w)
  <2>1. wconn[w] \in Conns /\ UNCHANGED <<acceptOut, events>>
    BY <1>0, <1>5, WorkerConn DEF WorkerShake, Busy
  <2>2. conn[wconn[w]] = "own" /\ wconn[w] \notin Elements(acceptOut)
    BY <1>0, <1>5 DEF WorkerShake, SetupInv
  <2>3. CASE Goto(w, "hand", wconn[w]) /\ UNCHANGED conn
    <3>1. EventsInv' /\ OutInv'
      BY <1>0, <2>1, <2>3 DEF EventsInv, OutInv, Distinct
    <3>2. wpc'[w] = "hand" /\ wconn'[w] = wconn[w] /\ Elements(acceptOut)' = Elements(acceptOut)
      BY <2>1, <2>3, <1>g DEF Elements
    <3>3. SetupInv'
      BY <2>2, <2>3, <3>2, <1>w DEF SetupInv
    <3> QED BY <3>1, <3>3
  <2>4. CASE Goto(w, "top", NoConn) /\ conn' = [conn EXCEPT ![wconn[w]] = "gone"]
    <3>1. OutInv'
      BY <1>0, <2>1, <2>2, <2>4, OthersAlive
    <3>2. EventsInv'
      <4> SUFFICES ASSUME NEW i \in 1..Len(events) PROVE conn'[events[i].c] = "asked"
        BY <2>1 DEF EventsInv
      <4>1. conn[events[i].c] = "asked" /\ events[i] \in Event
        BY <1>0 DEF EventsInv, RestType
      <4> QED BY <4>1, <1>0, <2>1, <2>2, <2>4 DEF RestType, Event
    <3>3. SetupInv'
      BY <2>4, <1>g, <1>w DEF SetupInv
    <3> QED BY <3>1, <3>2, <3>3
  <2> QED BY <1>5, <2>3, <2>4 DEF WorkerShake
<1>6. CASE WorkerHand(w)
  <2>1. wconn[w] \in Conns /\ UNCHANGED events
    BY <1>0, <1>6, WorkerConn DEF WorkerHand, Busy
  <2>2. conn[wconn[w]] = "own" /\ wconn[w] \notin Elements(acceptOut)
    BY <1>0, <1>6 DEF WorkerHand, SetupInv
  <2>3. CASE /\ conn' = [conn EXCEPT ![wconn[w]] = "gone"]
             /\ Goto(w, "exit", NoConn) /\ UNCHANGED acceptOut
    <3>1. OutInv'
      BY <1>0, <2>1, <2>2, <2>3, OthersAlive
    <3>2. EventsInv'
      <4> SUFFICES ASSUME NEW i \in 1..Len(events) PROVE conn'[events[i].c] = "asked"
        BY <2>1 DEF EventsInv
      <4>1. conn[events[i].c] = "asked" /\ events[i] \in Event
        BY <1>0 DEF EventsInv, RestType
      <4> QED BY <4>1, <1>0, <2>1, <2>2, <2>3 DEF RestType, Event
    <3>3. SetupInv'
      BY <2>3, <1>g, <1>w DEF SetupInv
    <3> QED BY <3>1, <3>2, <3>3
  <2>4. CASE /\ acceptOut' = Append(acceptOut, wconn[w])
             /\ Goto(w, "top", NoConn) /\ UNCHANGED conn
    <3>0. acceptOut \in Seq(Conns)
      BY <1>0 DEF RestType
    <3>1. /\ Len(acceptOut') = Len(acceptOut) + 1 /\ Len(acceptOut) \in Nat
          /\ acceptOut'[Len(acceptOut) + 1] = wconn[w]
          /\ \A i \in 1..Len(acceptOut) : acceptOut'[i] = acceptOut[i]
      BY <2>1, <2>4, <3>0
    <3>2. ASSUME NEW i \in 1..Len(acceptOut') PROVE conn'[acceptOut'[i]] = "own"
      BY <3>1, <2>2, <2>4, <1>0 DEF OutInv
    <3>3. ASSUME NEW i \in 1..Len(acceptOut'), NEW j \in 1..Len(acceptOut'),
                 acceptOut'[i] = acceptOut'[j]
          PROVE  i = j
      <4>1. \A k \in 1..Len(acceptOut) : acceptOut[k] # wconn[w]
        BY <2>2 DEF Elements
      <4>2. \A k \in 1..Len(acceptOut') : k \in 1..Len(acceptOut) \/ k = Len(acceptOut) + 1
        BY <3>1
      <4> QED BY <3>1, <3>3, <4>1, <4>2, <1>0 DEF OutInv, Distinct
    <3>4. OutInv'
      BY <3>2, <3>3 DEF OutInv, Distinct
    <3>5. EventsInv'
      BY <1>0, <2>1, <2>4 DEF EventsInv
    <3>6. SetupInv'
      BY <2>4, <1>g, <1>w DEF SetupInv
    <3> QED BY <3>4, <3>5, <3>6
  <2> QED BY <1>6, <2>3, <2>4 DEF WorkerHand
<1> QED BY <1>1, <1>3, <1>4, <1>5, <1>6 DEF Worker

LEMMA NextKeepsAlive ==
    ASSUME OneWorker, AliveInv, [Next]_vars
    PROVE  AliveInv'
<1>0. RestType /\ TypeOK /\ EventsInv /\ SetupInv /\ OutInv
  BY RestOfTypes DEF AliveInv
<1>t. TypeOK'
  BY <1>0, NextKeepsTypes
<1>c. \A w \in Workers : wpc[w] \in Busy => wconn[w] \in Conns
  BY <1>0, WorkerConn
<1> SUFFICES (EventsInv /\ SetupInv /\ OutInv)'
  BY <1>t DEF AliveInv
<1>1. ASSUME NEW w \in Workers, Worker(w) PROVE (EventsInv /\ SetupInv /\ OutInv)'
  BY <1>1, WorkerKeepsAlive
<1>2. ASSUME NEW c \in Conns, PeerConnect(c) PROVE (EventsInv /\ SetupInv /\ OutInv)'
  <2>1. PICK k \in {"request", "bad"} : events' = Append(events, [k |-> k, c |-> c])
    BY <1>2 DEF PeerConnect
  <2>2. /\ conn[c] = "new" /\ conn' = [conn EXCEPT ![c] = "asked"]
        /\ UNCHANGED <<wpc, wconn, acceptOut>>
    BY <1>2 DEF PeerConnect, workerVars
  <2>3. [k |-> k, c |-> c] \in Event /\ events \in Seq(Event)
    BY <1>0 DEF Event, RestType
  <2>4. conn'[c] = "asked" /\ \A d \in Conns : d # c => conn'[d] = conn[d]
    BY <1>0, <2>2 DEF RestType
  <2>5. EventsInv'
    <3> SUFFICES ASSUME NEW i \in 1..Len(events') PROVE conn'[(events'[i]).c] = "asked"
      BY DEF EventsInv
    <3>1. CASE i \in 1..Len(events)
      <4>1. events'[i] = events[i] /\ events[i] \in Event
        BY <2>1, <2>3, <3>1
      <4> QED BY <4>1, <3>1, <1>0, <2>4 DEF EventsInv, Event
    <3>2. CASE i = Len(events) + 1
      <4>1. events'[i] = [k |-> k, c |-> c]
        BY <2>1, <2>3, <3>2
      <4> QED BY <4>1, <2>4
    <3> QED BY <3>1, <3>2, <2>1, <2>3
  <2>6. OutInv'
    BY <1>0, <2>2, OwnOnly, OthersAlive
  <2>7. Elements(acceptOut)' = Elements(acceptOut)
    BY <2>2 DEF Elements
  <2>8. SetupInv'
    BY <1>0, <1>c, <2>2, <2>4, <2>7 DEF SetupInv, Busy
  <2> QED BY <2>5, <2>6, <2>8
<1>3. ASSUME NEW c \in Conns, PeerEnd(c) PROVE (EventsInv /\ SetupInv /\ OutInv)'
  <2>1. /\ conn[c] = "asked" /\ UNCHANGED <<wpc, wconn, acceptOut, conn>>
        /\ events' = Append(events, [k |-> "end", c |-> c])
    BY <1>3 DEF PeerEnd, workerVars
  <2>2. [k |-> "end", c |-> c] \in Event /\ events \in Seq(Event)
    BY <1>0 DEF Event, RestType
  <2>3. EventsInv'
    <3> SUFFICES ASSUME NEW i \in 1..Len(events') PROVE conn'[(events'[i]).c] = "asked"
      BY DEF EventsInv
    <3>1. CASE i \in 1..Len(events)
      BY <2>1, <2>2, <3>1, <1>0 DEF EventsInv
    <3>2. CASE i = Len(events) + 1
      BY <2>1, <2>2, <3>2
    <3> QED BY <3>1, <3>2, <2>1, <2>2
  <2>4. OutInv' /\ SetupInv'
    BY <1>0, <2>1 DEF OutInv, SetupInv, Distinct, Elements
  <2> QED BY <2>3, <2>4
<1>4. CASE Serve
  <2>1. UNCHANGED <<events, wpc, wconn>>
    BY <1>4 DEF Serve, workerVars
  <2>2. CASE UNCHANGED <<acceptOut, conn>>
    BY <1>0, <2>1, <2>2 DEF EventsInv, OutInv, SetupInv, Distinct, Elements
  <2>3. CASE /\ acceptOut # <<>> /\ acceptOut' = Tail(acceptOut)
             /\ conn' = [conn EXCEPT ![Head(acceptOut)] = "served"]
    <3>1. acceptOut \in Seq(Conns)
      BY <1>0 DEF RestType
    <3>2. /\ Len(acceptOut') = Len(acceptOut) - 1 /\ Len(acceptOut) \in Nat \ {0}
          /\ \A i \in 1..Len(acceptOut') : acceptOut'[i] = acceptOut[i + 1] /\ i + 1 \in 1..Len(acceptOut)
          /\ Head(acceptOut) = acceptOut[1] /\ acceptOut[1] \in Conns /\ 1 \in 1..Len(acceptOut)
      BY <2>3, <3>1
    <3>3. conn[acceptOut[1]] = "own" /\ \A d \in Conns : d # acceptOut[1] => conn'[d] = conn[d]
      BY <1>0, <2>3, <3>2 DEF OutInv, RestType
    <3>4. EventsInv'
      <4> SUFFICES ASSUME NEW i \in 1..Len(events) PROVE conn'[events[i].c] = "asked"
        BY <2>1 DEF EventsInv
      <4>1. conn[events[i].c] = "asked" /\ events[i] \in Event
        BY <1>0 DEF EventsInv, RestType
      <4> QED BY <4>1, <3>3 DEF Event
    <3>5. OutInv'
      <4>1. ASSUME NEW i \in 1..Len(acceptOut') PROVE conn'[acceptOut'[i]] = "own"
        <5>1. acceptOut'[i] = acceptOut[i + 1] /\ i + 1 \in 1..Len(acceptOut) /\ i + 1 # 1
          BY <3>2
        <5>2. acceptOut[i + 1] # acceptOut[1]
          BY <1>0, <5>1, <3>2 DEF OutInv, Distinct
        <5>3. acceptOut[i + 1] \in Conns
          BY <3>1, <5>1
        <5> QED BY <1>0, <3>3, <5>1, <5>2, <5>3 DEF OutInv
      <4>2. ASSUME NEW i \in 1..Len(acceptOut'), NEW j \in 1..Len(acceptOut'),
                   acceptOut'[i] = acceptOut'[j]
            PROVE  i = j
        <5>1. i + 1 = j + 1
          BY <1>0, <3>2, <4>2 DEF OutInv, Distinct
        <5> QED BY <5>1, <3>2
      <4> QED BY <4>1, <4>2 DEF OutInv, Distinct
    <3>6. Elements(acceptOut)' \subseteq Elements(acceptOut)
      BY <3>2 DEF Elements
    <3>7. acceptOut[1] \in Elements(acceptOut)
      BY <3>2 DEF Elements
    <3>8. SetupInv'
      <4> SUFFICES ASSUME NEW w \in Workers
                   PROVE  /\ wpc[w] = "setup" => conn'[wconn[w]] = "asked"
                          /\ wpc[w] \in {"shake", "hand"} =>
                                conn'[wconn[w]] = "own" /\ wconn[w] \notin Elements(acceptOut)'
        BY <2>1 DEF SetupInv
      <4>1. ASSUME wpc[w] \in Busy PROVE conn'[wconn[w]] = conn[wconn[w]]
        <5>1. wconn[w] # acceptOut[1]
          BY <1>0, <3>3, <3>7, <4>1 DEF SetupInv, Busy
        <5> QED BY <1>c, <3>3, <4>1, <5>1
      <4> QED BY <1>0, <3>6, <4>1 DEF SetupInv, Busy
    <3> QED BY <3>4, <3>5, <3>8
  <2> QED BY <1>4, <2>2, <2>3 DEF Serve
<1>5. ASSUME NEW c \in Conns, ServeConnEnds(c) PROVE (EventsInv /\ SetupInv /\ OutInv)'
  <2>1. /\ conn[c] = "served" /\ conn' = [conn EXCEPT ![c] = "gone"]
        /\ UNCHANGED <<events, wpc, wconn, acceptOut>>
    BY <1>5 DEF ServeConnEnds, workerVars
  <2>2. \A d \in Conns : d # c => conn'[d] = conn[d]
    BY <1>0, <2>1 DEF RestType
  <2>3. OutInv'
    BY <1>0, <2>1, OwnOnly, OthersAlive
  <2>4. EventsInv'
    <3> SUFFICES ASSUME NEW i \in 1..Len(events) PROVE conn'[events[i].c] = "asked"
      BY <2>1 DEF EventsInv
    <3>1. conn[events[i].c] = "asked" /\ events[i] \in Event
      BY <1>0 DEF EventsInv, RestType
    <3> QED BY <3>1, <2>1, <2>2 DEF Event
  <2>5. Elements(acceptOut)' = Elements(acceptOut)
    BY <2>1 DEF Elements
  <2>6. SetupInv'
    BY <1>0, <1>c, <2>1, <2>2, <2>5 DEF SetupInv, Busy
  <2> QED BY <2>3, <2>4, <2>6
<1>6. CASE CloseBegin \/ Closer \/ UNCHANGED vars
  <2>1. UNCHANGED <<events, wpc, wconn, acceptOut, conn>>
    BY <1>6 DEF CloseBegin, Closer, CloseFree, CloseOut, vars, workerVars
  <2> QED BY <1>0, <2>1 DEF EventsInv, SetupInv, OutInv, Distinct, Elements
<1> QED BY <1>1, <1>2, <1>3, <1>4, <1>5, <1>6 DEF Next

\* With one accept worker (DefaultVerbsAcceptWorkers) and any number of
\* connections, go_rdma_accept never destroys, by draining the events of child ids,
\* a connection that the worker sets up or that waits in acceptOut.
THEOREM ConnectionsAlive == ASSUME OneWorker PROVE Spec => []ConnAlive
<1>1. ASSUME Init PROVE AliveInv
  <2>1. TypeOK
    BY <1>1, InitTypes
  <2>2. EventsInv /\ SetupInv /\ OutInv
    BY <1>1 DEF Init, EventsInv, SetupInv, OutInv, Distinct
  <2> QED BY <2>1, <2>2 DEF AliveInv
<1>2. ASSUME AliveInv, [Next]_vars PROVE AliveInv'
  BY <1>2, NextKeepsAlive
<1>3. ASSUME AliveInv PROVE ConnAlive
  <2>1. ASSUME NEW w \in Workers, wpc[w] \in {"setup", "shake", "hand"}
        PROVE  conn[wconn[w]] # "gone"
    BY <1>3, <2>1 DEF AliveInv, SetupInv
  <2>2. ASSUME NEW c \in ToSet(acceptOut) PROVE conn[c] # "gone"
    <3>1. PICK i \in 1..Len(acceptOut) : c = acceptOut[i]
      BY <1>3, RestOfTypes DEF ToSet, AliveInv, RestType
    <3> QED BY <1>3, <3>1 DEF AliveInv, OutInv
  <2> QED BY <2>1, <2>2 DEF ConnAlive
<1>4. QED
  BY <1>1, <1>2, <1>3, PTL DEF Spec
=============================================================================
