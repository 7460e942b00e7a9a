-------------------------- MODULE ZCopyConnProofs --------------------------
(***************************************************************************)
(* Proofs about ZCopyConn for every set of calls and every bound.          *)
(*                                                                         *)
(* Flow control.  CreditConservation is not inductive: an ack that arrives *)
(* would raise credits without shrinking lent if the same credit could be  *)
(* acked twice, or acked without having been taken.  ReqInv (each request  *)
(* is in one place only, so a GET is served once and hello only before any *)
(* credit exists) and TokenInv (from waitCredit to addCredits the credit   *)
(* of a GET is in exactly one place: goroutine, get_meta, client, release, *)
(* ack) exclude that; with them every step that moves a credit moves one.  *)
(*                                                                         *)
(* Results.  LiveInv ties the pending map to the calls.  PayloadInv orders *)
(* the server-to-client stream: a payload follows its get_meta.  KindInv   *)
(* says what a frame tells about its call, PutInv orders the client-to-    *)
(* server stream: a payload follows its put_req.  SyncInv adds what holds  *)
(* while no payload is left out.                                           *)
(***************************************************************************)
EXTENDS ZCopyConn, FiniteSetTheorems, TLAPS

USE DEF callVars, inboxVars, sendVars, recvVars, closeVars, clientVars,
        creditVars, serverVars

\* What popping the head of a non-empty queue or channel leaves.
LEMMA HeadTail ==
  ASSUME NEW S, NEW s \in Seq(S), s # <<>>
  PROVE  /\ Head(s) \in S
         /\ Tail(s) \in Seq(S)
         /\ Len(s) \in Nat \ {0}
         /\ Head(s) = s[1]
         /\ Len(Tail(s)) = Len(s) - 1
         /\ \A i \in 1..Len(Tail(s)) : Tail(s)[i] = s[i + 1]
  OBVIOUS

\* New and newZCopyConn start in a well-typed state.
LEMMA InitType == Init => TypeOK
  <1> SUFFICES ASSUME Init PROVE TypeOK OBVIOUS
  <1> USE CallsAssumption, BoundsAssumption DEF Init
  <1>1. CallType BY DEF CallType, HelloRequest, Request
  <1>2. InboxType BY DEF InboxType, RespKinds
  <1>3. LoopType
    <2>1. sendQ \in Seq([k: ReqFrameKinds \ {"data"}, c: Calls]) OBVIOUS
    <2>2. putStep \in BOOLEAN /\ slDone \in BOOLEAN OBVIOUS
    <2>3. rpc \in {"ctl", "pay", "ack", "dead"} /\ rcur \in Calls \cup {NoCall} OBVIOUS
    <2>4. ackst \in [Calls -> {"none", "enq", "out", "ok", "lost"}] OBVIOUS
    <2> QED BY <2>1, <2>2, <2>3, <2>4 DEF LoopType
  <1>4. CloseType BY DEF CloseType
  <1>5. WireType BY DEF WireType
  <1>6. ServerType BY DEF ServerType, RespKinds, Frame
  <1> QED BY <1>1, <1>2, <1>3, <1>4, <1>5, <1>6 DEF TypeOK

\* Whatever control message serveConn receives, the types are kept.
LEMMA ServeControlType == TypeOK /\ ServeControl => TypeOK'
  <1> SUFFICES ASSUME TypeOK, ServeControl PROVE TypeOK' OBVIOUS
  <1> USE DEF TypeOK
  <1> DEFINE f == Head(c2s)
  <1>a. c2s # <<>> /\ c2s \in Seq(C2SFrame) BY DEF ServeControl, WireType
  <1>b. f \in C2SFrame /\ Tail(c2s) \in Seq(C2SFrame) BY <1>a, HeadTail
  <1>c. f.c \in Calls BY <1>b DEF C2SFrame
  <1>1. CallType' /\ InboxType' /\ LoopType' /\ CloseType'
    BY DEF ServeControl, CallType, InboxType, LoopType, CloseType
  <1>2. WireType' BY <1>b DEF ServeControl, WireType
  <1>3. ServerType'
    <2> HIDE DEF f
    <2> USE DEF ServerType, RespKinds, Frame
    <2>0. sUp' = sUp BY DEF ServeControl
    <2>1. CASE ServeHello(f.c) BY <1>c, <2>0, <2>1, BoundsAssumption DEF ServeHello, Reply
    <2>2. CASE ServeAck(f.c) BY <1>c, <2>0, <2>2 DEF ServeAck
    <2>3. CASE ServeEnsure(f.c) BY <1>c, <2>0, <2>3 DEF ServeEnsure, Reply
    <2>4. CASE ServePut(f.c) BY <1>c, <2>0, <2>4 DEF ServePut, Reply
    <2>5. CASE ServeGet(f.c) BY <1>c, <2>0, <2>5 DEF ServeGet
    <2>6. CASE Drain /\ UNCHANGED <<creditVars, g, applied>> BY <2>0, <2>6 DEF Drain
    <2> QED BY <2>1, <2>2, <2>3, <2>4, <2>5, <2>6 DEF ServeControl, f
  <1> QED BY <1>1, <1>2, <1>3

\* Every step of the client, the wire and the server keeps the types.
LEMMA NextType == TypeOK /\ [Next]_vars => TypeOK'
  <1> SUFFICES ASSUME TypeOK, [Next]_vars PROVE TypeOK' OBVIOUS
  <1> USE DEF TypeOK
  <1>1. ASSUME NEW c \in Calls, NEW r \in Requests, Start(c, r) PROVE TypeOK'
    BY <1>1, RequestsAssumption
    DEF Start, CallType, InboxType, LoopType, CloseType, WireType, ServerType
  <1>2. ASSUME NEW c \in Calls, Expire(c) PROVE TypeOK'
    <2>1. CallType' BY <1>2 DEF Expire, CallType
    <2>2. InboxType' BY <1>2 DEF Expire, InboxType
    <2>3. LoopType' BY <1>2 DEF Expire, LoopType
    <2>4. CloseType' BY <1>2 DEF Expire, CloseType
    <2>5. WireType' BY <1>2 DEF Expire, WireType
    <2>6. ServerType' BY <1>2 DEF Expire, ServerType
    <2> QED BY <2>1, <2>2, <2>3, <2>4, <2>5, <2>6
  <1>3. ASSUME NEW c \in Calls, Release(c) PROVE TypeOK'
    <2>1. CallType' BY <1>3 DEF Release, CallType
    <2>2. InboxType' BY <1>3 DEF Release, InboxType
    <2>3. LoopType' BY <1>3 DEF Release, LoopType
    <2>4. CloseType' BY <1>3 DEF Release, CloseType
    <2>5. WireType' BY <1>3 DEF Release, WireType
    <2>6. ServerType' BY <1>3 DEF Release, ServerType
    <2> QED BY <2>1, <2>2, <2>3, <2>4, <2>5, <2>6
  <1>4. ASSUME NEW c \in Calls, Enqueue(c) PROVE TypeOK'
    <2>1. CallType' BY <1>4 DEF Enqueue, CallType
    <2>2. InboxType' BY <1>4 DEF Enqueue, InboxType
    <2>3. LoopType' BY <1>4 DEF Enqueue, LoopType, Frame, ReqFrameKinds, CallType, Request
    <2>4. CloseType' BY <1>4 DEF Enqueue, CloseType
    <2>5. WireType' BY <1>4 DEF Enqueue, WireType
    <2>6. ServerType' BY <1>4 DEF Enqueue, ServerType
    <2> QED BY <2>1, <2>2, <2>3, <2>4, <2>5, <2>6
  <1>5. ASSUME NEW c \in Calls, SendAbandon(c) PROVE TypeOK'
    <2>1. CallType' BY <1>5 DEF SendAbandon, CallType, Return
    <2>2. InboxType' BY <1>5 DEF SendAbandon, InboxType
    <2>3. LoopType' BY <1>5 DEF SendAbandon, LoopType
    <2>4. CloseType' BY <1>5 DEF SendAbandon, CloseType
    <2>5. WireType' BY <1>5 DEF SendAbandon, WireType
    <2>6. ServerType' BY <1>5 DEF SendAbandon, ServerType
    <2> QED BY <2>1, <2>2, <2>3, <2>4, <2>5, <2>6
  <1>6. ASSUME NEW c \in Calls, SendReturned(c) PROVE TypeOK'
    <2>1. CallType' BY <1>6 DEF SendReturned, CallType, Return
    <2>2. InboxType' BY <1>6 DEF SendReturned, InboxType
    <2>3. LoopType' BY <1>6 DEF SendReturned, LoopType
    <2>4. CloseType' BY <1>6 DEF SendReturned, CloseType
    <2>5. WireType' BY <1>6 DEF SendReturned, WireType
    <2>6. ServerType' BY <1>6 DEF SendReturned, ServerType
    <2> QED BY <2>1, <2>2, <2>3, <2>4, <2>5, <2>6
  <1>7. ASSUME NEW c \in Calls, TakeResult(c) PROVE TypeOK'
    <2>1. CallType' BY <1>7 DEF TakeResult, CallType, Return
    <2>2. InboxType' BY <1>7 DEF TakeResult, InboxType
    <2>3. LoopType' BY <1>7 DEF TakeResult, LoopType
    <2>4. CloseType' BY <1>7 DEF TakeResult, CloseType
    <2>5. WireType' BY <1>7 DEF TakeResult, WireType
    <2>6. ServerType' BY <1>7 DEF TakeResult, ServerType
    <2> QED BY <2>1, <2>2, <2>3, <2>4, <2>5, <2>6
  <1>8. ASSUME NEW c \in Calls, WaitAbandon(c) PROVE TypeOK'
    <2>1. CallType' BY <1>8 DEF WaitAbandon, CallType, Return
    <2>2. InboxType' BY <1>8 DEF WaitAbandon, InboxType
    <2>3. LoopType' BY <1>8 DEF WaitAbandon, LoopType
    <2>4. CloseType' BY <1>8 DEF WaitAbandon, CloseType
    <2>5. WireType' BY <1>8 DEF WaitAbandon, WireType
    <2>6. ServerType' BY <1>8 DEF WaitAbandon, ServerType
    <2> QED BY <2>1, <2>2, <2>3, <2>4, <2>5, <2>6
  <1>9. ASSUME NEW c \in Calls, ErrAckReturn(c) PROVE TypeOK'
    <2>1. CallType' BY <1>9 DEF ErrAckReturn, CallType, Return
    <2>2. InboxType' BY <1>9 DEF ErrAckReturn, InboxType
    <2>3. LoopType' BY <1>9 DEF ErrAckReturn, LoopType
    <2>4. CloseType' BY <1>9 DEF ErrAckReturn, CloseType
    <2>5. WireType' BY <1>9 DEF ErrAckReturn, WireType
    <2>6. ServerType' BY <1>9 DEF ErrAckReturn, ServerType
    <2> QED BY <2>1, <2>2, <2>3, <2>4, <2>5, <2>6
  <1>10. ASSUME NEW c \in Calls, RegisterRelease(c) PROVE TypeOK'
    <2>1. CallType' BY <1>10 DEF RegisterRelease, CallType
    <2>2. InboxType' BY <1>10 DEF RegisterRelease, InboxType
    <2>3. LoopType' BY <1>10 DEF RegisterRelease, LoopType
    <2>4. CloseType' BY <1>10 DEF RegisterRelease, CloseType
    <2>5. WireType' BY <1>10 DEF RegisterRelease, WireType
    <2>6. ServerType' BY <1>10 DEF RegisterRelease, ServerType
    <2> QED BY <2>1, <2>2, <2>3, <2>4, <2>5, <2>6
  <1>11. ASSUME NEW c \in Calls, ReleaseReturn(c) PROVE TypeOK'
    <2>1. CallType' BY <1>11 DEF ReleaseReturn, CallType
    <2>2. InboxType' BY <1>11 DEF ReleaseReturn, InboxType
    <2>3. LoopType' BY <1>11 DEF ReleaseReturn, LoopType
    <2>4. CloseType' BY <1>11 DEF ReleaseReturn, CloseType
    <2>5. WireType' BY <1>11 DEF ReleaseReturn, WireType
    <2>6. ServerType' BY <1>11 DEF ReleaseReturn, ServerType
    <2> QED BY <2>1, <2>2, <2>3, <2>4, <2>5, <2>6
  <1>12. ASSUME NEW c \in Calls, AckEnqueue(c) PROVE TypeOK'
    <2>1. CallType' BY <1>12 DEF AckEnqueue, CallType
    <2>2. InboxType' BY <1>12 DEF AckEnqueue, InboxType
    <2>3. LoopType' BY <1>12 DEF AckEnqueue, LoopType, Frame, ReqFrameKinds
    <2>4. CloseType' BY <1>12 DEF AckEnqueue, CloseType
    <2>5. WireType' BY <1>12 DEF AckEnqueue, WireType
    <2>6. ServerType' BY <1>12 DEF AckEnqueue, ServerType
    <2> QED BY <2>1, <2>2, <2>3, <2>4, <2>5, <2>6
  <1>13. ASSUME NEW c \in Calls, AckAbandon(c) PROVE TypeOK'
    <2>1. CallType' BY <1>13 DEF AckAbandon, CallType
    <2>2. InboxType' BY <1>13 DEF AckAbandon, InboxType
    <2>3. LoopType' BY <1>13 DEF AckAbandon, LoopType
    <2>4. CloseType' BY <1>13 DEF AckAbandon, CloseType
    <2>5. WireType' BY <1>13 DEF AckAbandon, WireType
    <2>6. ServerType' BY <1>13 DEF AckAbandon, ServerType
    <2> QED BY <2>1, <2>2, <2>3, <2>4, <2>5, <2>6
  <1>14. CASE SendControl
    <2>a. sendQ # <<>> /\ sendQ \in Seq([k: ReqFrameKinds \ {"data"}, c: Calls])
      BY <1>14 DEF SendControl, LoopType
    <2>b. Head(sendQ) \in [k: ReqFrameKinds \ {"data"}, c: Calls] /\ Tail(sendQ) \in Seq([k: ReqFrameKinds \ {"data"}, c: Calls])
      BY <2>a, HeadTail
    <2>1. CallType' BY <1>14, <2>b DEF SendControl, CallType, Report
    <2>2. InboxType' BY <1>14, <2>b DEF SendControl, InboxType
    <2>3. LoopType' BY <1>14, <2>b DEF SendControl, LoopType, Report
    <2>4. CloseType' BY <1>14, <2>b DEF SendControl, CloseType
    <2>5. WireType' BY <1>14, <2>b DEF SendControl, WireType, C2SFrame
    <2>6. ServerType' BY <1>14, <2>b DEF SendControl, ServerType
    <2> QED BY <2>1, <2>2, <2>3, <2>4, <2>5, <2>6
  <1>15. CASE SendPayload
    <2>a. sendQ # <<>> /\ sendQ \in Seq([k: ReqFrameKinds \ {"data"}, c: Calls])
      BY <1>15 DEF SendPayload, LoopType
    <2>b. Head(sendQ) \in [k: ReqFrameKinds \ {"data"}, c: Calls] /\ Tail(sendQ) \in Seq([k: ReqFrameKinds \ {"data"}, c: Calls])
      BY <2>a, HeadTail
    <2>1. CallType' BY <1>15, <2>b DEF SendPayload, CallType, Report
    <2>2. InboxType' BY <1>15, <2>b DEF SendPayload, InboxType
    <2>3. LoopType' BY <1>15, <2>b DEF SendPayload, LoopType, Report
    <2>4. CloseType' BY <1>15, <2>b DEF SendPayload, CloseType
    <2>c. Frame("data", Head(sendQ).c) \in C2SFrame BY <2>b DEF Frame, C2SFrame, ReqFrameKinds
    <2>5. WireType' BY <1>15, <2>c DEF SendPayload, WireType
    <2>6. ServerType' BY <1>15, <2>b DEF SendPayload, ServerType
    <2> QED BY <2>1, <2>2, <2>3, <2>4, <2>5, <2>6
  <1>16. CASE SendFail
    <2>a. sendQ # <<>> /\ sendQ \in Seq([k: ReqFrameKinds \ {"data"}, c: Calls])
      BY <1>16 DEF SendFail, LoopType
    <2>b. Head(sendQ) \in [k: ReqFrameKinds \ {"data"}, c: Calls] /\ Tail(sendQ) \in Seq([k: ReqFrameKinds \ {"data"}, c: Calls])
      BY <2>a, HeadTail
    <2>1. CallType' BY <1>16, <2>b DEF SendFail, CallType, Report
    <2>2. InboxType' BY <1>16, <2>b DEF SendFail, InboxType
    <2>3. LoopType' BY <1>16, <2>b DEF SendFail, LoopType, Report
    <2>4. CloseType' BY <1>16, <2>b DEF SendFail, CloseType
    <2>5. WireType' BY <1>16, <2>b DEF SendFail, WireType
    <2>6. ServerType' BY <1>16, <2>b DEF SendFail, ServerType
    <2> QED BY <2>1, <2>2, <2>3, <2>4, <2>5, <2>6
  <1>17. CASE SendLoopExit
    <2>1. CallType' BY <1>17 DEF SendLoopExit, CallType
    <2>2. InboxType' BY <1>17 DEF SendLoopExit, InboxType
    <2>3. LoopType' BY <1>17 DEF SendLoopExit, LoopType
    <2>4. CloseType' BY <1>17 DEF SendLoopExit, CloseType
    <2>5. WireType' BY <1>17 DEF SendLoopExit, WireType
    <2>6. ServerType' BY <1>17 DEF SendLoopExit, ServerType
    <2> QED BY <2>1, <2>2, <2>3, <2>4, <2>5, <2>6
  <1>18. CASE RecvControl
    <2>a. s2c # <<>> /\ s2c \in Seq(S2CFrame)
      BY <1>18 DEF RecvControl, WireType
    <2>b. Head(s2c) \in S2CFrame /\ Tail(s2c) \in Seq(S2CFrame)
      BY <2>a, HeadTail
    <2>1. CallType' BY <1>18, <2>b DEF RecvControl, CallType
    <2>2. InboxType' BY <1>18, <2>b DEF RecvControl, InboxType, Deliver, RecvDie, S2CFrame
    <2>3. LoopType' BY <1>18, <2>b DEF RecvControl, LoopType, RecvDie, S2CFrame
    <2>4. CloseType' BY <1>18, <2>b DEF RecvControl, CloseType
    <2>5. WireType' BY <1>18, <2>b DEF RecvControl, WireType
    <2>6. ServerType' BY <1>18, <2>b DEF RecvControl, ServerType
    <2> QED BY <2>1, <2>2, <2>3, <2>4, <2>5, <2>6
  <1>19. CASE RecvPayload
    <2>a. s2c # <<>> /\ s2c \in Seq(S2CFrame)
      BY <1>19 DEF RecvPayload, WireType
    <2>b. Head(s2c) \in S2CFrame /\ Tail(s2c) \in Seq(S2CFrame)
      BY <2>a, HeadTail
    <2>1. CallType' BY <1>19, <2>b DEF RecvPayload, CallType
    <2>2. InboxType' BY <1>19, <2>b DEF RecvPayload, InboxType, Deliver, S2CFrame
    <2>3. LoopType' BY <1>19, <2>b DEF RecvPayload, LoopType, Deliver
    <2>4. CloseType' BY <1>19, <2>b DEF RecvPayload, CloseType
    <2>5. WireType' BY <1>19, <2>b DEF RecvPayload, WireType
    <2>6. ServerType' BY <1>19, <2>b DEF RecvPayload, ServerType
    <2> QED BY <2>1, <2>2, <2>3, <2>4, <2>5, <2>6
  <1>20. CASE RecvAckReturn
    <2>1. CallType' BY <1>20 DEF RecvAckReturn, CallType
    <2>2. InboxType' BY <1>20 DEF RecvAckReturn, InboxType
    <2>3. LoopType' BY <1>20 DEF RecvAckReturn, LoopType
    <2>4. CloseType' BY <1>20 DEF RecvAckReturn, CloseType
    <2>5. WireType' BY <1>20 DEF RecvAckReturn, WireType
    <2>6. ServerType' BY <1>20 DEF RecvAckReturn, ServerType
    <2> QED BY <2>1, <2>2, <2>3, <2>4, <2>5, <2>6
  <1>21. CASE RecvError
    <2>1. CallType' BY <1>21 DEF RecvError, CallType
    <2>2. InboxType' BY <1>21 DEF RecvError, InboxType, RecvDie
    <2>3. LoopType' BY <1>21 DEF RecvError, LoopType, RecvDie
    <2>4. CloseType' BY <1>21 DEF RecvError, CloseType
    <2>5. WireType' BY <1>21 DEF RecvError, WireType
    <2>6. ServerType' BY <1>21 DEF RecvError, ServerType
    <2> QED BY <2>1, <2>2, <2>3, <2>4, <2>5, <2>6
  <1>22. CASE CloseStart
    <2>1. CallType' BY <1>22 DEF CloseStart, CallType
    <2>2. InboxType' BY <1>22 DEF CloseStart, InboxType
    <2>3. LoopType' BY <1>22 DEF CloseStart, LoopType
    <2>4. CloseType' BY <1>22 DEF CloseStart, CloseType
    <2>5. WireType' BY <1>22 DEF CloseStart, WireType
    <2>6. ServerType' BY <1>22 DEF CloseStart, ServerType
    <2> QED BY <2>1, <2>2, <2>3, <2>4, <2>5, <2>6
  <1>23. ASSUME NEW c \in Calls, CloseRelease(c) PROVE TypeOK'
    <2>1. CallType' BY <1>23 DEF CloseRelease, CallType
    <2>2. InboxType' BY <1>23 DEF CloseRelease, InboxType
    <2>3. LoopType' BY <1>23 DEF CloseRelease, LoopType
    <2>4. CloseType' BY <1>23 DEF CloseRelease, CloseType
    <2>5. WireType' BY <1>23 DEF CloseRelease, WireType
    <2>6. ServerType' BY <1>23 DEF CloseRelease, ServerType
    <2> QED BY <2>1, <2>2, <2>3, <2>4, <2>5, <2>6
  <1>24. CASE CloseReleased
    <2>1. CallType' BY <1>24 DEF CloseReleased, CallType
    <2>2. InboxType' BY <1>24 DEF CloseReleased, InboxType
    <2>3. LoopType' BY <1>24 DEF CloseReleased, LoopType
    <2>4. CloseType' BY <1>24 DEF CloseReleased, CloseType
    <2>5. WireType' BY <1>24 DEF CloseReleased, WireType
    <2>6. ServerType' BY <1>24 DEF CloseReleased, ServerType
    <2> QED BY <2>1, <2>2, <2>3, <2>4, <2>5, <2>6
  <1>25. CASE CloseChannel
    <2>1. CallType' BY <1>25 DEF CloseChannel, CallType
    <2>2. InboxType' BY <1>25 DEF CloseChannel, InboxType
    <2>3. LoopType' BY <1>25 DEF CloseChannel, LoopType
    <2>4. CloseType' BY <1>25 DEF CloseChannel, CloseType
    <2>5. WireType' BY <1>25 DEF CloseChannel, WireType
    <2>6. ServerType' BY <1>25 DEF CloseChannel, ServerType
    <2> QED BY <2>1, <2>2, <2>3, <2>4, <2>5, <2>6
  <1>26. CASE CloseConn
    <2>1. CallType' BY <1>26 DEF CloseConn, CallType
    <2>2. InboxType' BY <1>26 DEF CloseConn, InboxType
    <2>3. LoopType' BY <1>26 DEF CloseConn, LoopType
    <2>4. CloseType' BY <1>26 DEF CloseConn, CloseType
    <2>5. WireType' BY <1>26 DEF CloseConn, WireType
    <2>6. ServerType' BY <1>26 DEF CloseConn, ServerType
    <2> QED BY <2>1, <2>2, <2>3, <2>4, <2>5, <2>6
  <1>27. CASE CloseReturn
    <2>1. CallType' BY <1>27 DEF CloseReturn, CallType
    <2>2. InboxType' BY <1>27 DEF CloseReturn, InboxType
    <2>3. LoopType' BY <1>27 DEF CloseReturn, LoopType
    <2>4. CloseType' BY <1>27 DEF CloseReturn, CloseType
    <2>5. WireType' BY <1>27 DEF CloseReturn, WireType
    <2>6. ServerType' BY <1>27 DEF CloseReturn, ServerType
    <2> QED BY <2>1, <2>2, <2>3, <2>4, <2>5, <2>6
  <1>28. CASE ServeControl
    BY <1>28, ServeControlType
  <1>29. CASE ServePayload
    <2>a. c2s # <<>> /\ c2s \in Seq(C2SFrame)
      BY <1>29 DEF ServePayload, WireType
    <2>b. Head(c2s) \in C2SFrame /\ Tail(c2s) \in Seq(C2SFrame)
      BY <2>a, HeadTail
    <2>1. CallType' BY <1>29, <2>b DEF ServePayload, CallType
    <2>2. InboxType' BY <1>29, <2>b DEF ServePayload, InboxType
    <2>3. LoopType' BY <1>29, <2>b DEF ServePayload, LoopType
    <2>4. CloseType' BY <1>29, <2>b DEF ServePayload, CloseType
    <2>5. WireType' BY <1>29, <2>b DEF ServePayload, WireType
    <2>6. ServerType' BY <1>29, <2>b DEF ServePayload, ServerType, Reply, Drain, RespKinds, Frame
    <2> QED BY <2>1, <2>2, <2>3, <2>4, <2>5, <2>6
  <1>30. CASE ServeRecvError
    <2>1. CallType' BY <1>30 DEF ServeRecvError, CallType
    <2>2. InboxType' BY <1>30 DEF ServeRecvError, InboxType
    <2>3. LoopType' BY <1>30 DEF ServeRecvError, LoopType
    <2>4. CloseType' BY <1>30 DEF ServeRecvError, CloseType
    <2>5. WireType' BY <1>30 DEF ServeRecvError, WireType
    <2>6. ServerType' BY <1>30 DEF ServeRecvError, ServerType, Drain
    <2> QED BY <2>1, <2>2, <2>3, <2>4, <2>5, <2>6
  <1>31. CASE ServeReply
    <2>1. CallType' BY <1>31 DEF ServeReply, CallType
    <2>2. InboxType' BY <1>31 DEF ServeReply, InboxType
    <2>3. LoopType' BY <1>31 DEF ServeReply, LoopType
    <2>4. CloseType' BY <1>31 DEF ServeReply, CloseType
    <2>c. scur \in S2CFrame BY DEF ServerType, S2CFrame, RespFrameKinds
    <2>5. WireType' BY <1>31, <2>c DEF ServeReply, WireType
    <2>6. ServerType' BY <1>31 DEF ServeReply, ServerType
    <2> QED BY <2>1, <2>2, <2>3, <2>4, <2>5, <2>6
  <1>32. CASE ServeClose
    <2>1. CallType' BY <1>32 DEF ServeClose, CallType
    <2>2. InboxType' BY <1>32 DEF ServeClose, InboxType
    <2>3. LoopType' BY <1>32 DEF ServeClose, LoopType
    <2>4. CloseType' BY <1>32 DEF ServeClose, CloseType
    <2>5. WireType' BY <1>32 DEF ServeClose, WireType
    <2>6. ServerType' BY <1>32 DEF ServeClose, ServerType
    <2> QED BY <2>1, <2>2, <2>3, <2>4, <2>5, <2>6
  <1>33. ASSUME NEW c \in Calls, GetLookup(c) PROVE TypeOK'
    <2>1. CallType' BY <1>33 DEF GetLookup, CallType
    <2>2. InboxType' BY <1>33 DEF GetLookup, InboxType
    <2>3. LoopType' BY <1>33 DEF GetLookup, LoopType
    <2>4. CloseType' BY <1>33 DEF GetLookup, CloseType
    <2>5. WireType' BY <1>33 DEF GetLookup, WireType
    <2>6. ServerType' BY <1>33 DEF GetLookup, ServerType, GetStep
    <2> QED BY <2>1, <2>2, <2>3, <2>4, <2>5, <2>6
  <1>34. ASSUME NEW c \in Calls, GetReject(c) PROVE TypeOK'
    <2>1. CallType' BY <1>34 DEF GetReject, CallType
    <2>2. InboxType' BY <1>34 DEF GetReject, InboxType
    <2>3. LoopType' BY <1>34 DEF GetReject, LoopType
    <2>4. CloseType' BY <1>34 DEF GetReject, CloseType
    <2>c. Frame("err", c) \in S2CFrame BY <1>34 DEF Frame, S2CFrame, RespFrameKinds, RespKinds
    <2>5. WireType' BY <1>34, <2>c DEF GetReject, WireType
    <2>6. ServerType' BY <1>34 DEF GetReject, ServerType, GetStep
    <2> QED BY <2>1, <2>2, <2>3, <2>4, <2>5, <2>6
  <1>35. ASSUME NEW c \in Calls, GetWaitCredit(c) PROVE TypeOK'
    <2>1. CallType' BY <1>35 DEF GetWaitCredit, CallType
    <2>2. InboxType' BY <1>35 DEF GetWaitCredit, InboxType
    <2>3. LoopType' BY <1>35 DEF GetWaitCredit, LoopType
    <2>4. CloseType' BY <1>35 DEF GetWaitCredit, CloseType
    <2>5. WireType' BY <1>35 DEF GetWaitCredit, WireType
    <2>6. ServerType' BY <1>35 DEF GetWaitCredit, MayTake, MayTakeKeeping, MayTakeDropping, ServerType, GetStep
    <2> QED BY <2>1, <2>2, <2>3, <2>4, <2>5, <2>6
  <1>36. ASSUME NEW c \in Calls, GetSendMeta(c) PROVE TypeOK'
    <2>1. CallType' BY <1>36 DEF GetSendMeta, CallType
    <2>2. InboxType' BY <1>36 DEF GetSendMeta, InboxType
    <2>3. LoopType' BY <1>36 DEF GetSendMeta, LoopType
    <2>4. CloseType' BY <1>36 DEF GetSendMeta, CloseType
    <2>c. Frame("meta", c) \in S2CFrame BY <1>36 DEF Frame, S2CFrame, RespFrameKinds, RespKinds
    <2>5. WireType' BY <1>36, <2>c DEF GetSendMeta, WireType
    <2>6. ServerType' BY <1>36 DEF GetSendMeta, ServerType, GetStep
    <2> QED BY <2>1, <2>2, <2>3, <2>4, <2>5, <2>6
  <1>37. ASSUME NEW c \in Calls, GetSendPayload(c) PROVE TypeOK'
    <2>1. CallType' BY <1>37 DEF GetSendPayload, CallType
    <2>2. InboxType' BY <1>37 DEF GetSendPayload, InboxType
    <2>3. LoopType' BY <1>37 DEF GetSendPayload, LoopType
    <2>4. CloseType' BY <1>37 DEF GetSendPayload, CloseType
    <2>c. Frame("data", c) \in S2CFrame BY <1>37 DEF Frame, S2CFrame, RespFrameKinds, RespKinds
    <2>5. WireType' BY <1>37, <2>c DEF GetSendPayload, WireType
    <2>6. ServerType' BY <1>37 DEF GetSendPayload, ServerType, GetStep
    <2> QED BY <2>1, <2>2, <2>3, <2>4, <2>5, <2>6
  <1>38. CASE UNCHANGED vars
    BY <1>38 DEF vars, CallType, InboxType, LoopType, CloseType, WireType, ServerType
  <1>39. QED
    BY <1>1, <1>2, <1>3, <1>4, <1>5, <1>6, <1>7, <1>8, <1>9, <1>10, <1>11, <1>12, <1>13, <1>14, <1>15, <1>16, <1>17, <1>18, <1>19, <1>20, <1>21, <1>22, <1>23, <1>24, <1>25, <1>26, <1>27, <1>28, <1>29, <1>30, <1>31, <1>32, <1>33, <1>34, <1>35, <1>36, <1>37, <1>38
    DEF Next, CallStep, AckStep, SendLoop, RecvLoop, CloseStep, ServeConn, GetGoroutine

\* Every variable keeps its type, whatever the size of the instance.
THEOREM TypeCorrect == Spec => []TypeOK
  BY InitType, NextType, PTL DEF Spec

-----------------------------------------------------------------------------
\* A queue or channel holds a frame of kind k for call c; at most one of them.
Has(s, k, c) == \E i \in 1..Len(s) : s[i].k = k /\ s[i].c = c
Once(s, k) == \A i, j \in 1..Len(s) :
                 s[i].k = k /\ s[j].k = k /\ s[i].c = s[j].c => i = j

\* Sending a frame adds that frame and no other to a channel.
LEMMA HasAppend ==
  ASSUME NEW S, NEW s \in Seq(S), NEW e \in S, NEW k, NEW c
  PROVE  Has(Append(s, e), k, c) <=> Has(s, k, c) \/ (e.k = k /\ e.c = c)
  <1>1. Len(Append(s, e)) = Len(s) + 1 /\ Len(s) \in Nat OBVIOUS
  <1>2. Append(s, e)[Len(s) + 1] = e OBVIOUS
  <1>3. \A i \in 1..Len(s) : Append(s, e)[i] = s[i] OBVIOUS
  <1>4. ASSUME Has(Append(s, e), k, c) PROVE Has(s, k, c) \/ (e.k = k /\ e.c = c)
    <2>1. PICK i \in 1..Len(Append(s, e)) : Append(s, e)[i].k = k /\ Append(s, e)[i].c = c
      BY <1>4 DEF Has
    <2>2. i \in 1..Len(s) \/ i = Len(s) + 1 BY <1>1, <2>1
    <2> QED BY <1>2, <1>3, <2>1, <2>2 DEF Has
  <1>5. ASSUME Has(s, k, c) PROVE Has(Append(s, e), k, c)
    <2>1. PICK i \in 1..Len(s) : s[i].k = k /\ s[i].c = c BY <1>5 DEF Has
    <2>2. i \in 1..Len(Append(s, e)) BY <1>1, <2>1
    <2> QED BY <1>3, <2>1, <2>2 DEF Has
  <1>6. ASSUME e.k = k, e.c = c PROVE Has(Append(s, e), k, c)
    <2>1. Len(s) + 1 \in 1..Len(Append(s, e)) BY <1>1
    <2> QED BY <1>2, <1>6, <2>1 DEF Has
  <1> QED BY <1>4, <1>5, <1>6

\* A frame that was not in the channel can be sent without duplicating it.
LEMMA OnceAppend ==
  ASSUME NEW S, NEW s \in Seq(S), NEW e \in S, NEW k,
         Once(s, k), e.k = k => ~Has(s, k, e.c)
  PROVE  Once(Append(s, e), k)
  <1>1. Len(Append(s, e)) = Len(s) + 1 /\ Len(s) \in Nat OBVIOUS
  <1>2. Append(s, e)[Len(s) + 1] = e OBVIOUS
  <1>3. \A i \in 1..Len(s) : Append(s, e)[i] = s[i] OBVIOUS
  <1>4. \A i \in 1..Len(Append(s, e)) : i \in 1..Len(s) \/ i = Len(s) + 1 BY <1>1
  <1> QED BY <1>1, <1>2, <1>3, <1>4 DEF Once, Has

\* Receiving the head of a channel without duplicates removes that frame only.
LEMMA HasTail ==
  ASSUME NEW S, NEW s \in Seq(S), s # <<>>, NEW k, NEW c
  PROVE  /\ Has(Tail(s), k, c) => Has(s, k, c)
         /\ Head(s).k = k /\ Head(s).c = c => Has(s, k, c)
         /\ Has(s, k, c) => Has(Tail(s), k, c) \/ (Head(s).k = k /\ Head(s).c = c)
  <1> USE HeadTail
  <1>0. Len(s) \in Nat \ {0} /\ Len(Tail(s)) = Len(s) - 1 OBVIOUS
  <1>1. ASSUME Has(Tail(s), k, c) PROVE Has(s, k, c)
    <2>1. PICK i \in 1..Len(Tail(s)) : Tail(s)[i].k = k /\ Tail(s)[i].c = c BY <1>1 DEF Has
    <2>2. i + 1 \in 1..Len(s) BY <1>0, <2>1
    <2>3. Tail(s)[i] = s[i + 1] BY <2>1
    <2> QED BY <2>1, <2>2, <2>3 DEF Has
  <1>2. ASSUME Head(s).k = k, Head(s).c = c PROVE Has(s, k, c)
    <2>1. 1 \in 1..Len(s) BY <1>0
    <2> QED BY <2>1, <1>2 DEF Has
  <1>3. ASSUME Has(s, k, c) PROVE Has(Tail(s), k, c) \/ (Head(s).k = k /\ Head(s).c = c)
    <2>1. PICK i \in 1..Len(s) : s[i].k = k /\ s[i].c = c BY <1>3 DEF Has
    <2>2. CASE i = 1 BY <2>1, <2>2
    <2>3. CASE i # 1
      <3>1. i - 1 \in 1..Len(Tail(s)) BY <1>0, <2>1, <2>3
      <3>2. Tail(s)[i - 1] = s[i] BY <3>1, <2>1
      <3> QED BY <2>1, <3>1, <3>2 DEF Has
    <2> QED BY <2>2, <2>3
  <1> QED BY <1>1, <1>2, <1>3

\* Receiving the head of a channel duplicates nothing.
LEMMA OnceTail ==
  ASSUME NEW S, NEW s \in Seq(S), s # <<>>, NEW k, Once(s, k)
  PROVE  /\ Once(Tail(s), k)
         /\ Head(s).k = k => ~Has(Tail(s), k, Head(s).c)
  <1> USE HeadTail
  <1>0. Len(s) \in Nat \ {0} /\ Len(Tail(s)) = Len(s) - 1 OBVIOUS
  <1>1. \A i \in 1..Len(Tail(s)) : i + 1 \in 1..Len(s) /\ i \in Int BY <1>0
  <1>2. \A i \in 1..Len(Tail(s)) : Tail(s)[i] = s[i + 1] OBVIOUS
  <1>3. 1 \in 1..Len(s) /\ Head(s) = s[1] BY <1>0
  <1>4. Once(Tail(s), k)
    <2> SUFFICES ASSUME NEW i \in 1..Len(Tail(s)), NEW j \in 1..Len(Tail(s)),
                        Tail(s)[i].k = k, Tail(s)[j].k = k, Tail(s)[i].c = Tail(s)[j].c
                 PROVE  i = j
      BY DEF Once
    <2>1. i + 1 = j + 1 BY <1>1, <1>2 DEF Once
    <2> QED BY <1>1, <2>1
  <1>5. ASSUME Head(s).k = k, Has(Tail(s), k, Head(s).c) PROVE FALSE
    <2>1. PICK i \in 1..Len(Tail(s)) : Tail(s)[i].k = k /\ Tail(s)[i].c = Head(s).c
      BY <1>5 DEF Has
    <2>2. i + 1 = 1 BY <1>1, <1>2, <1>3, <1>5, <2>1 DEF Once
    <2>3. i \in 1..Len(Tail(s)) /\ i >= 1 BY <2>1
    <2> QED BY <2>2, <2>3
  <1> QED BY <1>4, <1>5

\* An empty channel (after sendLoop has drained its queue) holds no frame.
LEMMA HasEmpty == \A k, c : ~Has(<<>>, k, c) /\ Once(<<>>, k)
  BY DEF Has, Once

-----------------------------------------------------------------------------
(***************************************************************************)
(* The requests of a call on their way: a hello_req or a get_req is queued *)
(* once, sent once and served once; the hello is served before any credit  *)
(* is granted.                                                             *)
(***************************************************************************)
ReqInv ==
    /\ cpc[Hello] # "idle"
    /\ clcur \in Calls => cpc[clcur] # "idle"
    /\ \A c \in Calls : c # Hello /\ cpc[c] # "idle" => req[c].op # "hello"
    /\ \A c \in Calls : Has(sendQ, "hello", c) \/ Has(c2s, "hello", c) => c = Hello
    /\ Once(c2s, "hello") /\ Once(c2s, "get")
    /\ Once(sendQ, "hello") /\ Once(sendQ, "get")
    /\ \A c \in Calls : cpc[c] \in {"idle", "enq"} =>
           /\ ~Has(sendQ, "hello", c) /\ ~Has(c2s, "hello", c)
           /\ ~Has(sendQ, "get", c) /\ ~Has(c2s, "get", c)
           /\ g[c] = "none"
    /\ \A c \in Calls : Has(sendQ, "hello", c) => ~Has(c2s, "hello", c)
    /\ \A c \in Calls : Has(sendQ, "get", c) => ~Has(c2s, "get", c)
    /\ \A c \in Calls : Has(sendQ, "get", c) \/ Has(c2s, "get", c) => g[c] = "none"
    /\ cpc[Hello] = "enq" \/ Has(sendQ, "hello", Hello) \/ Has(c2s, "hello", Hello)
          => granted = 0

\* Before hello is sent no request is anywhere.
LEMMA InitReq == Init => ReqInv
  BY CallsAssumption, HasEmpty DEF Init, ReqInv

\* Steps that put nothing new into a queue preserve ReqInv.
LEMMA ReqFrame ==
  ASSUME ReqInv,
         UNCHANGED <<req, granted>>,
         clcur' = clcur \/ (clcur' \in Calls => cpc'[clcur'] # "idle"),
         \A c \in Calls, k \in {"hello", "get"} :
            /\ Has(sendQ, k, c)' => Has(sendQ, k, c)
            /\ Has(c2s, k, c)' => Has(c2s, k, c),
         \A k \in {"hello", "get"} : Once(sendQ, k)' /\ Once(c2s, k)',
         \A c \in Calls : g'[c] = g[c] \/ g[c] # "none",
         \A c \in Calls : \/ cpc'[c] = cpc[c]
                          \/ cpc[c] # "idle" /\ cpc'[c] \notin {"idle", "enq"}
  PROVE  ReqInv'
  BY CallsAssumption DEF ReqInv

\* A request moves from caller to sendReqCh to the wire to serveConn, never twice.
LEMMA NextReq == TypeOK /\ ReqInv /\ [Next]_vars => ReqInv'
  <1> SUFFICES ASSUME TypeOK, ReqInv, [Next]_vars PROVE ReqInv' OBVIOUS
  <1> DEFINE QFrame == [k: ReqFrameKinds \ {"data"}, c: Calls]
  <1>t. /\ DOMAIN req = Calls /\ DOMAIN cpc = Calls /\ DOMAIN g = Calls
        /\ sendQ \in Seq(QFrame) /\ c2s \in Seq(C2SFrame)
        /\ \A c \in Calls : req[c].op \in {"hello", "ensure", "put", "get"}
    BY DEF TypeOK, CallType, LoopType, WireType, ServerType, Request
  <1>o. Once(c2s, "hello") /\ Once(c2s, "get") /\ Once(sendQ, "hello") /\ Once(sendQ, "get")
    BY DEF ReqInv
  <1> HIDE DEF QFrame
  <1>1. ASSUME NEW c \in Calls, NEW r \in Requests, Start(c, r) PROVE ReqInv'
    <2>1. /\ r.op # "hello" /\ c # Hello /\ cpc[c] = "idle"
          /\ cpc' = [cpc EXCEPT ![c] = "enq"] /\ req' = [req EXCEPT ![c] = r]
          /\ UNCHANGED <<sendQ, c2s, g, granted, clcur>>
      BY <1>1 DEF Start, ReqInv
    <2> QED BY <1>t, <2>1, CallsAssumption DEF ReqInv
  <1>2. ASSUME NEW c \in Calls, Enqueue(c) PROVE ReqInv'
    <2> DEFINE e == Frame(req[c].op, c)
    <2>1. /\ cpc[c] = "enq" /\ cpc' = [cpc EXCEPT ![c] = "out"]
          /\ sendQ' = Append(sendQ, e) /\ UNCHANGED <<req, c2s, g, granted, clcur>>
      BY <1>2 DEF Enqueue
    <2>2. e.k = req[c].op /\ e.c = c /\ e \in QFrame
      BY <1>t DEF Frame, ReqFrameKinds, QFrame
    <2> HIDE DEF e
    <2>3. \A k, x : Has(sendQ, k, x)' <=> Has(sendQ, k, x) \/ (e.k = k /\ e.c = x)
      BY <1>t, <2>1, <2>2, HasAppend
    <2>4. /\ ~Has(sendQ, "hello", c) /\ ~Has(c2s, "hello", c)
          /\ ~Has(sendQ, "get", c) /\ ~Has(c2s, "get", c)
          /\ g[c] = "none"
      BY <2>1 DEF ReqInv
    <2>5. Once(sendQ, "hello")' /\ Once(sendQ, "get")'
      BY <1>t, <1>o, <2>1, <2>2, <2>4, OnceAppend
    <2>6. req[c].op = "hello" => c = Hello BY <2>1 DEF ReqInv
    <2> QED BY <1>t, <2>1, <2>2, <2>3, <2>4, <2>5, <2>6, CallsAssumption DEF ReqInv
  <1>3. ASSUME NEW c \in Calls, AckEnqueue(c) PROVE ReqInv'
    <2> DEFINE e == Frame("ack", c)
    <2>1. sendQ' = Append(sendQ, e) /\ UNCHANGED <<cpc, req, c2s, g, granted, clcur>>
      BY <1>3 DEF AckEnqueue
    <2>2. e.k = "ack" /\ e \in QFrame BY DEF Frame, ReqFrameKinds, QFrame
    <2> HIDE DEF e
    <2>3. \A k, x : Has(sendQ, k, x)' <=> Has(sendQ, k, x) \/ (e.k = k /\ e.c = x)
      BY <1>t, <2>1, <2>2, HasAppend
    <2>4. Once(sendQ, "hello")' /\ Once(sendQ, "get")'
      BY <1>t, <1>o, <2>1, <2>2, OnceAppend
    <2> QED BY <1>o, <2>1, <2>2, <2>3, <2>4, ReqFrame
  <1>4. CASE SendControl
    <2> DEFINE f == Head(sendQ)
    <2>1. /\ sendQ # <<>> /\ c2s' = Append(c2s, f)
          /\ \/ f.k = "put" /\ sendQ' = sendQ
             \/ f.k # "put" /\ sendQ' = Tail(sendQ)
          /\ UNCHANGED <<req, cpc, g, granted, clcur>>
      BY <1>4 DEF SendControl, Report
    <2>a. f \in QFrame BY <1>t, <2>1, HeadTail
    <2>2. f \in QFrame /\ f \in C2SFrame /\ f.c \in Calls
      BY <2>a DEF QFrame, C2SFrame
    <2> HIDE DEF f
    <2>3. \A k, x : Has(c2s, k, x)' <=> Has(c2s, k, x) \/ (f.k = k /\ f.c = x)
      BY <1>t, <2>1, <2>2, HasAppend
    <2>4. \A k, x : /\ f.k = k /\ f.c = x => Has(sendQ, k, x)
                    /\ Has(Tail(sendQ), k, x) => Has(sendQ, k, x)
      BY <1>t, <2>1, HasTail DEF f
    <2>5. \A k \in {"hello", "get"} :
             /\ Once(Tail(sendQ), k)
             /\ f.k = k => ~Has(Tail(sendQ), k, f.c)
      BY <1>t, <1>o, <2>1, OnceTail DEF f
    <2>6. \A k \in {"hello", "get"} : f.k = k => ~Has(c2s, k, f.c)
      BY <2>2, <2>4 DEF ReqInv
    <2>7. Once(c2s, "hello")' /\ Once(c2s, "get")'
      BY <1>t, <1>o, <2>1, <2>2, <2>6, OnceAppend
    <2>8. /\ Once(sendQ, "hello")' /\ Once(sendQ, "get")'
          /\ \A k \in {"hello", "get"}, x \in Calls : Has(sendQ, k, x)' =>
                /\ Has(sendQ, k, x)
                /\ ~(f.k = k /\ f.c = x)
      BY <1>o, <2>1, <2>4, <2>5
    <2>9. /\ f.k = "hello" => f.c = Hello /\ cpc[f.c] \notin {"idle", "enq"} /\ granted = 0
          /\ f.k = "get" => cpc[f.c] \notin {"idle", "enq"} /\ g[f.c] = "none"
      BY <2>2, <2>4 DEF ReqInv
    <2> QED BY <1>t, <2>1, <2>2, <2>3, <2>7, <2>8, <2>9, CallsAssumption DEF ReqInv
  <1>5. CASE SendPayload
    <2> DEFINE e == Frame("data", Head(sendQ).c)
    <2>1. /\ sendQ # <<>> /\ sendQ' = Tail(sendQ)
          /\ c2s' = c2s \/ c2s' = Append(c2s, e)
          /\ UNCHANGED <<req, cpc, g, granted, clcur>>
      BY <1>5 DEF SendPayload, Report
    <2>a. Head(sendQ) \in QFrame BY <1>t, <2>1, HeadTail
    <2>2. Head(sendQ).c \in Calls BY <2>a DEF QFrame
    <2>3. e \in C2SFrame /\ e.k = "data" BY <2>2 DEF Frame, C2SFrame, ReqFrameKinds
    <2> HIDE DEF e
    <2>b. \A k, x : Has(Append(c2s, e), k, x) <=> Has(c2s, k, x) \/ (e.k = k /\ e.c = x)
      BY <1>t, <2>3, HasAppend
    <2>4. \A k \in {"hello", "get"}, x \in Calls : Has(c2s, k, x)' => Has(c2s, k, x)
      BY <2>1, <2>3, <2>b
    <2>5. \A k \in {"hello", "get"} : Once(c2s, k)'
      BY <1>t, <1>o, <2>1, <2>3, OnceAppend
    <2>6. \A k \in {"hello", "get"}, x \in Calls : Has(sendQ, k, x)' => Has(sendQ, k, x)
      BY <1>t, <2>1, HasTail
    <2>7. \A k \in {"hello", "get"} : Once(sendQ, k)' BY <1>t, <1>o, <2>1, OnceTail
    <2> QED BY <2>1, <2>4, <2>5, <2>6, <2>7, ReqFrame
  <1>6. CASE SendFail
    <2>1. /\ sendQ # <<>> /\ sendQ' = Tail(sendQ)
          /\ UNCHANGED <<c2s, req, cpc, g, granted, clcur>>
      BY <1>6 DEF SendFail, Report
    <2>2. \A k \in {"hello", "get"}, x \in Calls : Has(sendQ, k, x)' => Has(sendQ, k, x)
      BY <1>t, <2>1, HasTail
    <2>3. \A k \in {"hello", "get"} : Once(sendQ, k)' BY <1>t, <1>o, <2>1, OnceTail
    <2> QED BY <1>o, <2>1, <2>2, <2>3, ReqFrame
  <1>7. CASE SendLoopExit
    <2>1. sendQ' = <<>> /\ UNCHANGED <<c2s, req, cpc, g, granted, clcur>>
      BY <1>7 DEF SendLoopExit
    <2> QED BY <1>o, <2>1, HasEmpty, ReqFrame
  <1>8. CASE ServeControl
    <2> DEFINE f == Head(c2s)
    <2>1. c2s # <<>> /\ c2s' = Tail(c2s) /\ UNCHANGED <<sendQ, req, cpc, clcur>>
      BY <1>8 DEF ServeControl
    <2>a. f \in C2SFrame BY <1>t, <2>1, HeadTail
    <2>2. f \in C2SFrame /\ f.c \in Calls BY <2>a DEF C2SFrame
    <2> HIDE DEF f
    <2>3. \A k, x : Has(c2s, k, x)' => Has(c2s, k, x) BY <1>t, <2>1, HasTail
    <2>4. Once(c2s, "hello")' /\ Once(c2s, "get")' BY <1>t, <1>o, <2>1, OnceTail
    <2>b. \A k, x : f.k = k /\ f.c = x => Has(c2s, k, x)
      BY <1>t, <2>1, HasTail DEF f
    <2>c. \A k \in {"hello", "get"} : f.k = k => ~Has(Tail(c2s), k, f.c)
      BY <1>t, <1>o, <2>1, OnceTail DEF f
    <2>5. \A k \in {"hello", "get"} : f.k = k => Has(c2s, k, f.c) /\ ~Has(c2s', k, f.c)
      BY <2>1, <2>b, <2>c
    <2>6. CASE f.k = "hello" /\ ServeHello(f.c)
      <3>1. f.c = Hello BY <2>2, <2>5, <2>6 DEF ReqInv
      <3>2. UNCHANGED g BY <2>6 DEF ServeHello
      <3>3. Has(c2s, "hello", Hello) /\ ~Has(c2s', "hello", Hello)
        BY <2>5, <2>6, <3>1
      <3>4. ~Has(sendQ, "hello", Hello) /\ cpc[Hello] # "enq"
        BY <3>3, CallsAssumption DEF ReqInv
      <3> QED BY <2>1, <2>3, <2>4, <3>2, <3>3, <3>4 DEF ReqInv
    <2>7. CASE f.k = "get" /\ ServeGet(f.c)
      <3>1. g' = [g EXCEPT ![f.c] = "look"] /\ UNCHANGED granted BY <2>7 DEF ServeGet
      <3>2. /\ ~Has(c2s', "get", f.c) /\ ~Has(sendQ, "get", f.c)
            /\ cpc[f.c] \notin {"idle", "enq"}
        BY <2>2, <2>5, <2>7 DEF ReqInv
      <3> QED BY <1>t, <2>1, <2>2, <2>3, <2>4, <3>1, <3>2 DEF ReqInv
    <2>8. CASE UNCHANGED <<g, granted>>
      BY <1>o, <2>1, <2>3, <2>4, <2>8, ReqFrame
    <2> QED
      BY <1>8, <2>6, <2>7, <2>8
      DEF ServeControl, ServeAck, ServeEnsure, ServePut, f
  <1>9. CASE ServePayload
    <2>1. c2s # <<>> /\ c2s' = Tail(c2s) /\ UNCHANGED <<sendQ, req, cpc, g, granted, clcur>>
      BY <1>9 DEF ServePayload
    <2>2. \A k, x : Has(c2s, k, x)' => Has(c2s, k, x) BY <1>t, <2>1, HasTail
    <2>3. Once(c2s, "hello")' /\ Once(c2s, "get")' BY <1>t, <1>o, <2>1, OnceTail
    <2> QED BY <1>o, <2>1, <2>2, <2>3, ReqFrame
  <1>10. CASE /\ UNCHANGED <<sendQ, c2s, req, granted>>
              /\ clcur' = clcur \/ (clcur' \in Calls => cpc'[clcur'] # "idle")
              /\ \A c \in Calls : g'[c] = g[c] \/ g[c] # "none"
              /\ \A c \in Calls : \/ cpc'[c] = cpc[c]
                                  \/ cpc[c] # "idle" /\ cpc'[c] \notin {"idle", "enq"}
    BY <1>o, <1>10, ReqFrame
  <1>11. ASSUME NEW c \in Calls, CallStep(c), ~Enqueue(c) PROVE ReqInv'
    <2>1. UNCHANGED <<sendQ, c2s, req, granted, g, clcur>>
      BY <1>11 DEF CallStep, SendAbandon, SendReturned, TakeResult, WaitAbandon,
                   ErrAckReturn, RegisterRelease, ReleaseReturn
    <2>2. /\ cpc[c] # "idle"
          /\ \E to \in {"wait", "reg", "held", "errack", "done"} :
                cpc' = [cpc EXCEPT ![c] = to]
      BY <1>11 DEF CallStep, SendAbandon, SendReturned, TakeResult, WaitAbandon,
                   ErrAckReturn, RegisterRelease, ReleaseReturn, Return
    <2> QED BY <1>t, <1>10, <2>1, <2>2
  <1>12. ASSUME NEW c \in Calls, Expire(c) \/ AckAbandon(c) PROVE ReqInv'
    BY <1>10, <1>12 DEF Expire, AckAbandon
  <1>13. ASSUME NEW c \in Calls, Release(c) \/ CloseRelease(c) PROVE ReqInv'
    BY <1>t, <1>10, <1>13 DEF Release, CloseRelease
  <1>14. CASE RecvLoop
    BY <1>10, <1>14 DEF RecvLoop, RecvControl, RecvPayload, RecvAckReturn, RecvError
  <1>15. CASE CloseReleased
    <2>1. /\ UNCHANGED <<sendQ, c2s, req, granted, g>> /\ clcur' = NoCall
          /\ clcur # NoCall /\ cpc' = [cpc EXCEPT ![clcur] = "done"]
      BY <1>15 DEF CloseReleased
    <2>2. clcur \in Calls /\ cpc[clcur] # "idle"
      BY <2>1 DEF TypeOK, CloseType, ReqInv
    <2> QED BY <1>t, <1>10, <2>1, <2>2, CallsAssumption
  <1>16. CASE CloseStart \/ CloseChannel \/ CloseConn \/ CloseReturn
    BY <1>10, <1>16 DEF CloseStart, CloseChannel, CloseConn, CloseReturn
  <1>17. CASE ServeRecvError \/ ServeReply \/ ServeClose
    BY <1>10, <1>17 DEF ServeRecvError, ServeReply, ServeClose
  <1>18. ASSUME NEW c \in Calls, GetGoroutine(c) PROVE ReqInv'
    <2>1. /\ UNCHANGED <<sendQ, c2s, req, granted, cpc, clcur>>
          /\ g[c] # "none" /\ \E to : g' = [g EXCEPT ![c] = to]
      BY <1>18 DEF GetGoroutine, GetLookup, GetReject, GetWaitCredit, GetSendMeta,
                   GetSendPayload, GetStep
    <2> QED BY <1>t, <1>10, <2>1
  <1>19. CASE UNCHANGED vars BY <1>10, <1>19 DEF vars
  <1> QED
    BY <1>1, <1>2, <1>3, <1>4, <1>5, <1>6, <1>7, <1>8, <1>9, <1>11, <1>12, <1>13,
       <1>14, <1>15, <1>16, <1>17, <1>18, <1>19
    DEF Next, AckStep, SendLoop, CloseStep, ServeConn, CallStep

-----------------------------------------------------------------------------
(***************************************************************************)
(* Where the credit of GET c is, once waitCredit has taken it: with the    *)
(* goroutine, in a get_meta on the wire, with recvLoop, in the result      *)
(* channel, with the application, or in sendAck.  It is in one place only, *)
(* and it is acked from there at most once.                                *)
(***************************************************************************)
Receiving(c) == rpc = "pay" /\ rcur = c
Holding(c) == cpc[c] \in {"reg", "held"}

Token(c) ==
    /\ g[c] \in {"none", "look", "err", "credit"} => c \notin lent
    /\ g[c] \in {"none", "look", "err", "credit", "meta"} =>
          /\ ~Has(s2c, "meta", c) /\ ~Receiving(c) /\ ch[c] # "meta"
          /\ ~Holding(c) /\ ackst[c] = "none"
    /\ g[c] = "meta" => c \in lent
    /\ Has(s2c, "meta", c) =>
          c \in lent /\ ~Receiving(c) /\ ch[c] # "meta" /\ ~Holding(c) /\ ackst[c] = "none"
    /\ Receiving(c) => c \in lent /\ ch[c] # "meta" /\ ~Holding(c) /\ ackst[c] = "none"
    /\ ch[c] = "meta" => c \in lent /\ ~Holding(c) /\ ackst[c] = "none"
    /\ Holding(c) => c \in lent /\ ackst[c] = "none"
    /\ ackst[c] \in {"enq", "out"} => c \in lent
    /\ Has(c2s, "ack", c) => c \in lent /\ ackst[c] = "ok"

TokenInv ==
    /\ rpc = "pay" => rcur \in Calls
    /\ Once(s2c, "meta")
    /\ Once(c2s, "ack")
    /\ \A c \in Calls : Token(c)

\* Before hello is served there is no credit to be misplaced.
LEMMA InitToken == Init => TokenInv
  <1> SUFFICES ASSUME Init PROVE TokenInv OBVIOUS
  <1>1. \A c \in Calls : cpc[c] \in {"idle", "enq"} BY DEF Init
  <1>2. \A c \in Calls : Token(c)
    BY <1>1, HasEmpty DEF Init, Token, Receiving, Holding
  <1> QED BY <1>2, HasEmpty DEF Init, TokenInv

\* What the steps that do not move a credit change.
Quiet(c) ==
    /\ lent' = lent
    /\ \/ g'[c] = g[c]
       \/ g'[c] \in {"look", "err", "credit"} /\ g[c] \in {"none", "look", "err", "credit"}
       \/ g'[c] = "done"
    /\ Has(s2c', "meta", c) => Has(s2c, "meta", c)
    /\ Has(c2s', "ack", c) => Has(c2s, "ack", c)
    /\ rpc' = "pay" /\ rcur' = c => rpc = "pay" /\ rcur = c
    /\ ch'[c] = "meta" => ch[c] = "meta"
    /\ cpc'[c] \in {"reg", "held"} => cpc[c] \in {"reg", "held"}
    /\ \/ ackst'[c] = ackst[c]
       \/ ackst[c] \in {"enq", "out"} /\ ackst'[c] \in {"out", "ok", "lost"}

\* A step that leaves the places of one credit alone keeps its Token fact.
LEMMA QuietToken == ASSUME NEW c \in Calls, Token(c), Quiet(c) PROVE Token(c)'
  BY DEF Token, Quiet, Receiving, Holding

\* Steps that do not touch the channels at all and move no credit.
LEMMA QuietStep ==
  ASSUME TokenInv, UNCHANGED <<s2c, c2s, rpc, rcur, lent>>,
         \A c \in Calls :
            /\ \/ g'[c] = g[c]
               \/ g'[c] \in {"look", "err", "credit"} /\ g[c] \in {"none", "look", "err", "credit"}
               \/ g'[c] = "done"
            /\ ch'[c] = "meta" => ch[c] = "meta"
            /\ cpc'[c] \in {"reg", "held"} => cpc[c] \in {"reg", "held"}
            /\ \/ ackst'[c] = ackst[c]
               \/ ackst[c] \in {"enq", "out"} /\ ackst'[c] \in {"out", "ok", "lost"}
  PROVE  TokenInv'
  <1>1. \A c \in Calls : Quiet(c) BY DEF Quiet
  <1>2. \A c \in Calls : Token(c)' BY <1>1, QuietToken DEF TokenInv
  <1> QED BY <1>2 DEF TokenInv

\* Every step keeps the credit of each GET in one place.
LEMMA NextToken == TypeOK /\ ReqInv /\ TokenInv /\ [Next]_vars => TokenInv'
  <1> SUFFICES ASSUME TypeOK, ReqInv, TokenInv, [Next]_vars PROVE TokenInv' OBVIOUS
  <1> DEFINE QFrame == [k: ReqFrameKinds \ {"data"}, c: Calls]
  <1>t. /\ DOMAIN cpc = Calls /\ DOMAIN g = Calls /\ DOMAIN ch = Calls /\ DOMAIN ackst = Calls
        /\ sendQ \in Seq(QFrame) /\ c2s \in Seq(C2SFrame) /\ s2c \in Seq(S2CFrame)
    BY DEF TypeOK, CallType, InboxType, LoopType, WireType, ServerType
  <1>o. Once(s2c, "meta") /\ Once(c2s, "ack") /\ \A c \in Calls : Token(c)
    BY DEF TokenInv
  <1> HIDE DEF QFrame
  <1>1. ASSUME NEW c \in Calls, NEW r \in Requests, Start(c, r) PROVE TokenInv'
    BY <1>t, <1>1, QuietStep DEF Start
  <1>2. ASSUME NEW c \in Calls, Expire(c) PROVE TokenInv'
    BY <1>2, QuietStep DEF Expire
  <1>3. ASSUME NEW c \in Calls, CallStep(c), ~TakeResult(c) PROVE TokenInv'
    <2>1. UNCHANGED <<s2c, c2s, rpc, rcur, lent, g, ch, ackst>>
      BY <1>3 DEF CallStep, Enqueue, SendAbandon, SendReturned, WaitAbandon,
                  ErrAckReturn, RegisterRelease, ReleaseReturn
    <2>2. \/ \E to \in {"out", "wait", "done"} : cpc' = [cpc EXCEPT ![c] = to]
          \/ cpc[c] = "reg" /\ cpc' = [cpc EXCEPT ![c] = "held"]
      BY <1>3 DEF CallStep, Enqueue, SendAbandon, SendReturned, WaitAbandon,
                  ErrAckReturn, RegisterRelease, ReleaseReturn, Return
    <2> QED BY <1>t, <2>1, <2>2, QuietStep
  <1>4. ASSUME NEW c \in Calls, TakeResult(c) PROVE TokenInv'
    <2>1. /\ UNCHANGED <<s2c, c2s, rpc, rcur, lent, g>>
          /\ cpc[c] = "wait" /\ ch' = [ch EXCEPT ![c] = "none"]
          /\ \/ cpc' = [cpc EXCEPT ![c] = "done"] /\ ackst' = ackst
             \/ ch[c] = "meta" /\ cpc' = [cpc EXCEPT ![c] = "reg"] /\ ackst' = ackst
             \/ /\ ch[c] = "meta" /\ cpc' = [cpc EXCEPT ![c] = "errack"]
                /\ ackst' = [ackst EXCEPT ![c] = "enq"]
      BY <1>4 DEF TakeResult, Return
    <2>2. ASSUME NEW d \in Calls PROVE Token(d)'
      <3>1. CASE d = c
        BY <1>t, <1>o, <2>1, <3>1 DEF Token, Receiving, Holding
      <3>2. CASE d # c
        BY <1>t, <1>o, <2>1, <3>2 DEF Token, Receiving, Holding
      <3> QED BY <3>1, <3>2
    <2> QED BY <1>o, <2>1, <2>2 DEF TokenInv
  <1>5. ASSUME NEW c \in Calls, Release(c) \/ CloseRelease(c) PROVE TokenInv'
    <2>1. /\ UNCHANGED <<s2c, c2s, rpc, rcur, lent, g, ch>> /\ cpc[c] = "held"
          /\ cpc' = [cpc EXCEPT ![c] = "rel"] /\ ackst' = [ackst EXCEPT ![c] = "enq"]
      BY <1>5 DEF Release, CloseRelease
    <2>2. ASSUME NEW d \in Calls PROVE Token(d)'
      <3>1. CASE d = c
        BY <1>t, <1>o, <2>1, <3>1 DEF Token, Receiving, Holding
      <3>2. CASE d # c
        BY <1>t, <1>o, <2>1, <3>2 DEF Token, Receiving, Holding
      <3> QED BY <3>1, <3>2
    <2> QED BY <1>o, <2>1, <2>2 DEF TokenInv
  <1>6. ASSUME NEW c \in Calls, AckStep(c) PROVE TokenInv'
    BY <1>t, <1>6, QuietStep DEF AckStep, AckEnqueue, AckAbandon
  <1>7. CASE SendControl
    <2> DEFINE f == Head(sendQ)
    <2>1. /\ sendQ # <<>> /\ ~CtxDone(f) /\ c2s' = Append(c2s, f)
          /\ UNCHANGED <<s2c, rpc, rcur, lent, g, ch, cpc>>
          /\ \/ f.k # "ack" /\ UNCHANGED ackst
             \/ /\ f.k = "ack"
                /\ ackst' = IF ackst[f.c] = "out" THEN [ackst EXCEPT ![f.c] = "ok"] ELSE ackst
      BY <1>7 DEF SendControl, SendReady, Report
    <2>a. f \in QFrame BY <1>t, <2>1, HeadTail
    <2>2. f \in C2SFrame /\ f.c \in Calls BY <2>a DEF QFrame, C2SFrame
    <2>3. f.k = "ack" => ackst[f.c] = "out" BY <2>1 DEF CtxDone
    <2> HIDE DEF f
    <2>4. \A k, x : Has(c2s', k, x) <=> Has(c2s, k, x) \/ (f.k = k /\ f.c = x)
      BY <1>t, <2>1, <2>2, HasAppend
    <2>5. f.k = "ack" => ~Has(c2s, "ack", f.c)
      BY <1>o, <2>2, <2>3 DEF Token
    <2>6. Once(c2s', "ack") BY <1>t, <1>o, <2>1, <2>2, <2>5, OnceAppend
    <2>7. ASSUME NEW d \in Calls PROVE Token(d)'
      <3>1. CASE f.k = "ack" /\ d = f.c
        <4>1. /\ ackst[d] = "out" /\ ackst'[d] = "ok" /\ d \in lent
              /\ g[d] \notin {"none", "look", "err", "credit", "meta"}
              /\ ~Has(s2c, "meta", d) /\ ~Receiving(d) /\ ch[d] # "meta" /\ ~Holding(d)
          BY <1>t, <1>o, <2>1, <2>3, <3>1 DEF Token
        <4> QED BY <2>1, <4>1 DEF Token, Receiving, Holding
      <3>2. CASE ~(f.k = "ack" /\ d = f.c)
        <4>1. Quiet(d) BY <1>t, <2>1, <2>2, <2>4, <3>2 DEF Quiet
        <4> QED BY <1>o, <4>1, QuietToken
      <3> QED BY <3>1, <3>2
    <2> QED BY <1>o, <2>1, <2>6, <2>7 DEF TokenInv
  <1>8. CASE SendPayload
    <2> DEFINE e == Frame("data", Head(sendQ).c)
    <2>1. /\ sendQ # <<>>
          /\ c2s' = c2s \/ c2s' = Append(c2s, e)
          /\ UNCHANGED <<s2c, rpc, rcur, lent, g, ch, cpc>>
          /\ \/ ackst' = ackst
             \/ \E x \in Calls : ackst[x] = "out" /\ ackst' = [ackst EXCEPT ![x] = "ok"]
      <3>1. sendQ # <<>> BY <1>8 DEF SendPayload
      <3>2. Head(sendQ) \in QFrame BY <1>t, <3>1, HeadTail
      <3>3. Head(sendQ).c \in Calls BY <3>2 DEF QFrame
      <3> QED BY <1>8, <3>1, <3>3 DEF SendPayload, Report
    <2>2. Head(sendQ) \in QFrame BY <1>t, <2>1, HeadTail
    <2>3. e \in C2SFrame /\ e.k = "data"
      BY <2>2 DEF Frame, C2SFrame, ReqFrameKinds, QFrame
    <2> HIDE DEF e
    <2>4. \A x : Has(Append(c2s, e), "ack", x) <=> Has(c2s, "ack", x) \/ (e.k = "ack" /\ e.c = x)
      BY <1>t, <2>3, HasAppend
    <2>a. Once(Append(c2s, e), "ack") BY <1>t, <1>o, <2>3, OnceAppend
    <2>5. Once(c2s', "ack") BY <1>o, <2>1, <2>a
    <2>6. \A d \in Calls : Quiet(d) BY <1>t, <2>1, <2>3, <2>4 DEF Quiet
    <2> QED BY <1>o, <2>1, <2>5, <2>6, QuietToken DEF TokenInv
  <1>9. CASE SendFail
    <2>1. /\ UNCHANGED <<s2c, c2s, rpc, rcur, lent, g, ch, cpc>>
          /\ \/ ackst' = ackst
             \/ \E x \in Calls : ackst[x] = "out" /\ ackst' = [ackst EXCEPT ![x] = "lost"]
      <3>1. sendQ # <<>> BY <1>9 DEF SendFail
      <3>2. Head(sendQ) \in QFrame BY <1>t, <3>1, HeadTail
      <3>3. Head(sendQ).c \in Calls BY <3>2 DEF QFrame
      <3> QED BY <1>9, <3>1, <3>3 DEF SendFail, Report
    <2> QED BY <1>t, <2>1, QuietStep
  <1>10. CASE SendLoopExit
    BY <1>t, <1>10, QuietStep DEF SendLoopExit
  <1>11. CASE RecvControl
    <2> DEFINE f == Head(s2c)
    <2>1. /\ s2c # <<>> /\ s2c' = Tail(s2c) /\ rpc = "ctl"
          /\ UNCHANGED <<c2s, lent, g, cpc, ackst>>
      BY <1>11 DEF RecvControl
    <2>a. f \in S2CFrame BY <1>t, <2>1, HeadTail
    <2>2. f.c \in Calls BY <2>a DEF S2CFrame
    <2>3. \/ /\ f.k = "meta" /\ rpc' = "pay" /\ rcur' = f.c /\ ch' = ch
          \/ /\ rpc' # "pay"
             /\ \A d \in Calls : ch'[d] = "meta" => ch[d] = "meta"
      BY <1>11, <1>t, <2>1, <2>2 DEF RecvControl, Deliver, RecvDie, RespKinds
    <2>4. \A d : Has(s2c', "meta", d) => Has(s2c, "meta", d) BY <1>t, <2>1, HasTail
    <2>5. Once(s2c', "meta") BY <1>t, <1>o, <2>1, OnceTail
    <2>6. f.k = "meta" => Has(s2c, "meta", f.c) /\ ~Has(s2c', "meta", f.c)
      <3>1. f.k = "meta" => Has(s2c, "meta", f.c) BY <1>t, <2>1, HasTail
      <3>2. f.k = "meta" => ~Has(Tail(s2c), "meta", f.c) BY <1>t, <1>o, <2>1, OnceTail
      <3> QED BY <2>1, <3>1, <3>2
    <2> HIDE DEF f
    <2>7. ASSUME NEW d \in Calls PROVE Token(d)'
      <3>1. CASE f.k = "meta" /\ d = f.c /\ rpc' = "pay"
        <4>1. Has(s2c, "meta", d) /\ ~Has(s2c', "meta", d) /\ ch'[d] = ch[d]
          BY <2>3, <2>6, <3>1
        <4> QED BY <1>o, <2>1, <4>1 DEF Token, Receiving, Holding
      <3>2. CASE ~(f.k = "meta" /\ d = f.c /\ rpc' = "pay")
        <4>1. Quiet(d) BY <2>1, <2>3, <2>4, <3>2 DEF Quiet
        <4> QED BY <1>o, <4>1, QuietToken
      <3> QED BY <3>1, <3>2
    <2> QED BY <1>o, <2>1, <2>2, <2>3, <2>5, <2>7 DEF TokenInv
  <1>12. CASE RecvPayload
    <2>1. /\ s2c # <<>> /\ s2c' = Tail(s2c) /\ rpc = "pay" /\ rpc' # "pay"
          /\ UNCHANGED <<c2s, lent, g, cpc>> /\ rcur \in Calls
          /\ \/ ch' = [ch EXCEPT ![rcur] = "meta"] /\ ackst' = ackst
             \/ ackst' = [ackst EXCEPT ![rcur] = "enq"] /\ ch' = ch
      BY <1>12 DEF RecvPayload, Deliver, TokenInv
    <2>2. \A d : Has(s2c', "meta", d) => Has(s2c, "meta", d) BY <1>t, <2>1, HasTail
    <2>3. Once(s2c', "meta") BY <1>t, <1>o, <2>1, OnceTail
    <2>4. ASSUME NEW d \in Calls PROVE Token(d)'
      <3>1. CASE d = rcur
        BY <1>t, <1>o, <2>1, <2>2, <3>1 DEF Token, Receiving, Holding
      <3>2. CASE d # rcur
        <4>1. Quiet(d) BY <1>t, <2>1, <2>2, <3>2 DEF Quiet
        <4> QED BY <1>o, <4>1, QuietToken
      <3> QED BY <3>1, <3>2
    <2> QED BY <1>o, <2>1, <2>3, <2>4 DEF TokenInv
  <1>13. CASE RecvAckReturn \/ RecvError
    <2>1. /\ UNCHANGED <<s2c, c2s, lent, g, cpc, ackst>> /\ rpc' # "pay"
          /\ \A d \in Calls : ch'[d] = "meta" => ch[d] = "meta"
      BY <1>13 DEF RecvAckReturn, RecvError, RecvDie
    <2>2. \A d \in Calls : Quiet(d) BY <2>1 DEF Quiet
    <2> QED BY <1>o, <2>1, <2>2, QuietToken DEF TokenInv
  <1>14. CASE CloseStart \/ CloseReleased \/ CloseChannel \/ CloseConn \/ CloseReturn
    <2>1. /\ UNCHANGED <<s2c, c2s, rpc, rcur, lent, g, ch, ackst>>
          /\ cpc' = cpc \/ cpc' = [cpc EXCEPT ![clcur] = "done"]
      BY <1>14 DEF CloseStart, CloseReleased, CloseChannel, CloseConn, CloseReturn
    <2> QED BY <1>t, <2>1, QuietStep
  <1>15. CASE ServeControl
    <2> DEFINE f == Head(c2s)
    <2>1. /\ c2s # <<>> /\ c2s' = Tail(c2s)
          /\ UNCHANGED <<s2c, rpc, rcur, ch, cpc, ackst>>
      BY <1>15 DEF ServeControl
    <2>a. f \in C2SFrame BY <1>t, <2>1, HeadTail
    <2>2. f.c \in Calls BY <2>a DEF C2SFrame
    <2>3. \A d : Has(c2s', "ack", d) => Has(c2s, "ack", d) BY <1>t, <2>1, HasTail
    <2>4. Once(c2s', "ack") BY <1>t, <1>o, <2>1, OnceTail
    <2>5. \A k : f.k = k => Has(c2s, k, f.c) BY <1>t, <2>1, HasTail
    <2>6. f.k = "ack" => ~Has(c2s', "ack", f.c)
      <3>1. f.k = "ack" => ~Has(Tail(c2s), "ack", f.c) BY <1>t, <1>o, <2>1, OnceTail
      <3> QED BY <2>1, <3>1
    <2>7. \/ f.k = "ack" /\ lent' = lent \ {f.c} /\ g' = g
          \/ f.k = "get" /\ lent' = lent /\ g' = [g EXCEPT ![f.c] = "look"]
          \/ lent' = lent /\ g' = g
      BY <1>15 DEF ServeControl, ServeHello, ServeAck, ServeEnsure, ServePut, ServeGet
    <2> HIDE DEF f
    <2>8. f.k = "get" => g[f.c] = "none" BY <2>2, <2>5 DEF ReqInv
    <2>9. ASSUME NEW d \in Calls PROVE Token(d)'
      <3>1. CASE f.k = "ack" /\ lent' = lent \ {f.c} /\ g' = g
        <4>1. CASE d = f.c
          <5>1. Has(c2s, "ack", d) /\ ~Has(c2s', "ack", d) /\ d \notin lent'
            BY <2>5, <2>6, <3>1, <4>1
          <5>2. /\ ackst[d] = "ok" /\ d \in lent
                /\ g[d] \notin {"none", "look", "err", "credit", "meta"}
                /\ ~Has(s2c, "meta", d) /\ ~Receiving(d) /\ ch[d] # "meta" /\ ~Holding(d)
            BY <1>o, <5>1 DEF Token
          <5> QED BY <2>1, <3>1, <5>1, <5>2 DEF Token, Receiving, Holding
        <4>2. CASE d # f.c
          BY <1>o, <2>1, <2>3, <3>1, <4>2 DEF Token, Receiving, Holding
        <4> QED BY <4>1, <4>2
      <3>2. CASE \/ f.k = "get" /\ lent' = lent /\ g' = [g EXCEPT ![f.c] = "look"]
                 \/ lent' = lent /\ g' = g
        <4>1. Quiet(d) BY <1>t, <2>1, <2>2, <2>3, <2>8, <3>2 DEF Quiet
        <4> QED BY <1>o, <4>1, QuietToken
      <3> QED BY <2>7, <3>1, <3>2
    <2> QED BY <1>o, <2>1, <2>4, <2>9 DEF TokenInv
  <1>16. CASE ServePayload
    <2>1. /\ c2s # <<>> /\ c2s' = Tail(c2s)
          /\ UNCHANGED <<s2c, rpc, rcur, ch, cpc, ackst, lent, g>>
      BY <1>16 DEF ServePayload
    <2>2. \A d : Has(c2s', "ack", d) => Has(c2s, "ack", d) BY <1>t, <2>1, HasTail
    <2>3. Once(c2s', "ack") BY <1>t, <1>o, <2>1, OnceTail
    <2>4. \A d \in Calls : Quiet(d) BY <2>1, <2>2 DEF Quiet
    <2> QED BY <1>o, <2>1, <2>3, <2>4, QuietToken DEF TokenInv
  <1>17. CASE ServeRecvError \/ ServeClose
    BY <1>17, QuietStep DEF ServeRecvError, ServeClose
  <1>18. CASE ServeReply
    <2>1. /\ s2c' = s2c \/ s2c' = Append(s2c, scur)
          /\ UNCHANGED <<c2s, rpc, rcur, ch, cpc, ackst, lent, g>>
      BY <1>18 DEF ServeReply
    <2>2. scur \in S2CFrame /\ scur.k # "meta"
      BY DEF TypeOK, ServerType, S2CFrame, RespFrameKinds, RespKinds
    <2>3. \A x : Has(Append(s2c, scur), "meta", x) <=> Has(s2c, "meta", x) \/ (scur.k = "meta" /\ scur.c = x)
      BY <1>t, <2>2, HasAppend
    <2>4. Once(s2c', "meta") BY <1>t, <1>o, <2>1, <2>2, OnceAppend
    <2>5. \A d \in Calls : Quiet(d) BY <2>1, <2>2, <2>3 DEF Quiet
    <2> QED BY <1>o, <2>1, <2>4, <2>5, QuietToken DEF TokenInv
  <1>19. ASSUME NEW c \in Calls, GetLookup(c) PROVE TokenInv'
    <2>1. /\ UNCHANGED <<s2c, c2s, rpc, rcur, ch, cpc, ackst, lent>> /\ g[c] = "look"
          /\ g' = [g EXCEPT ![c] = "err"] \/ g' = [g EXCEPT ![c] = "credit"]
      BY <1>19 DEF GetLookup, GetStep
    <2> QED BY <1>t, <2>1, QuietStep
  <1>20. ASSUME NEW c \in Calls, NEW k \in {"err", "data"}, g' = [g EXCEPT ![c] = "done"],
                s2c' = s2c \/ s2c' = Append(s2c, Frame(k, c)),
                UNCHANGED <<c2s, rpc, rcur, ch, cpc, ackst, lent>>
         PROVE  TokenInv'
    <2> DEFINE e == Frame(k, c)
    <2>1. e \in S2CFrame /\ e.k # "meta" BY DEF Frame, S2CFrame, RespFrameKinds, RespKinds
    <2>2. s2c' = s2c \/ s2c' = Append(s2c, e) BY <1>20
    <2> HIDE DEF e
    <2>3. \A x : Has(Append(s2c, e), "meta", x) <=> Has(s2c, "meta", x) \/ (e.k = "meta" /\ e.c = x)
      BY <1>t, <2>1, HasAppend
    <2>4. Once(s2c', "meta") BY <1>t, <1>o, <2>1, <2>2, OnceAppend
    <2>5. \A d \in Calls : Quiet(d) BY <1>t, <1>20, <2>1, <2>2, <2>3 DEF Quiet
    <2> QED BY <1>o, <1>20, <2>4, <2>5, QuietToken DEF TokenInv
  <1>21. ASSUME NEW c \in Calls, GetReject(c) PROVE TokenInv'
    BY <1>20, <1>21 DEF GetReject, GetStep
  <1>22. ASSUME NEW c \in Calls, GetSendPayload(c) PROVE TokenInv'
    BY <1>20, <1>22 DEF GetSendPayload, GetStep
  <1>23. ASSUME NEW c \in Calls, GetWaitCredit(c) PROVE TokenInv'
    <2>1. /\ UNCHANGED <<s2c, c2s, rpc, rcur, ch, cpc, ackst>> /\ g[c] = "credit"
          /\ \/ lent' = lent \cup {c} /\ g' = [g EXCEPT ![c] = "meta"]
             \/ lent' = lent /\ g' = [g EXCEPT ![c] = "done"]
      BY <1>23 DEF GetWaitCredit, GetStep
    <2>2. ASSUME NEW d \in Calls PROVE Token(d)'
      <3>1. CASE d = c
        BY <1>t, <1>o, <2>1, <3>1 DEF Token, Receiving, Holding
      <3>2. CASE d # c
        BY <1>t, <1>o, <2>1, <3>2 DEF Token, Receiving, Holding
      <3> QED BY <3>1, <3>2
    <2> QED BY <1>o, <2>1, <2>2 DEF TokenInv
  <1>24. ASSUME NEW c \in Calls, GetSendMeta(c) PROVE TokenInv'
    <2> DEFINE e == Frame("meta", c)
    <2>1. /\ UNCHANGED <<c2s, rpc, rcur, ch, cpc, ackst, lent>> /\ g[c] = "meta"
          /\ \/ s2c' = Append(s2c, e) /\ g' = [g EXCEPT ![c] = "pay"]
             \/ s2c' = s2c /\ g' = [g EXCEPT ![c] = "done"]
      BY <1>24 DEF GetSendMeta, GetStep
    <2>2. e \in S2CFrame /\ e.k = "meta" /\ e.c = c BY DEF Frame, S2CFrame, RespFrameKinds
    <2> HIDE DEF e
    <2>3. \A x : Has(Append(s2c, e), "meta", x) <=> Has(s2c, "meta", x) \/ x = c
      BY <1>t, <2>2, HasAppend
    <2>4. /\ ~Has(s2c, "meta", c) /\ ~Receiving(c) /\ ch[c] # "meta" /\ ~Holding(c)
          /\ ackst[c] = "none" /\ c \in lent /\ ~Has(c2s, "ack", c)
      BY <1>o, <2>1 DEF Token
    <2>a. Once(Append(s2c, e), "meta") BY <1>t, <1>o, <2>2, <2>4, OnceAppend
    <2>5. Once(s2c', "meta") BY <1>o, <2>1, <2>a
    <2>6. ASSUME NEW d \in Calls PROVE Token(d)'
      <3>1. CASE d = c
        BY <1>t, <2>1, <2>4, <3>1 DEF Token, Receiving, Holding
      <3>2. CASE d # c
        <4>1. Quiet(d) BY <1>t, <2>1, <2>3, <3>2 DEF Quiet
        <4> QED BY <1>o, <4>1, QuietToken
      <3> QED BY <3>1, <3>2
    <2> QED BY <1>o, <2>1, <2>5, <2>6 DEF TokenInv
  <1>25. CASE UNCHANGED vars BY <1>25, QuietStep DEF vars
  <1> QED
    BY <1>1, <1>2, <1>3, <1>4, <1>5, <1>6, <1>7, <1>8, <1>9, <1>10, <1>11, <1>12, <1>13,
       <1>14, <1>15, <1>16, <1>17, <1>18, <1>19, <1>21, <1>22, <1>23, <1>24, <1>25
    DEF Next, SendLoop, RecvLoop, CloseStep, ServeConn, GetGoroutine, CallStep

-----------------------------------------------------------------------------
(***************************************************************************)
(* Counting.  With ReqInv and TokenInv, every step that moves a credit     *)
(* moves exactly one.                                                      *)
(***************************************************************************)
\* The outstanding credits can be counted.
LEMMA LentFinite ==
  ASSUME TypeOK
  PROVE  IsFiniteSet(lent) /\ Cardinality(lent) \in Nat
  BY CallsAssumption, FS_Subset, FS_CardinalityType DEF TypeOK, ServerType

\* Every step that moves a credit keeps the sum of CreditConservation.
LEMMA NextCredit ==
  TypeOK /\ ReqInv /\ TokenInv /\ CreditConservation /\ [Next]_vars => CreditConservation'
  <1> SUFFICES ASSUME TypeOK, ReqInv, TokenInv, CreditConservation, [Next]_vars
               PROVE  CreditConservation'
    OBVIOUS
  <1>f. IsFiniteSet(lent) /\ Cardinality(lent) \in Nat BY LentFinite
  <1>n. credits \in Nat /\ granted \in Nat /\ c2s \in Seq(C2SFrame)
    BY BoundsAssumption DEF TypeOK, ServerType, WireType
  <1>1. CASE UNCHANGED creditVars BY <1>1 DEF CreditConservation
  <1>2. CASE ServeControl
    <2> DEFINE f == Head(c2s)
    <2>1. c2s # <<>> BY <1>2 DEF ServeControl
    <2>2. f \in C2SFrame BY <1>n, <2>1, HeadTail
    <2>3. f.c \in Calls /\ \A k : f.k = k => Has(c2s, k, f.c)
      BY <1>n, <2>1, <2>2, HasTail DEF C2SFrame
    <2> HIDE DEF f
    <2>4. CASE f.k = "hello" /\ ServeHello(f.c)
      <3>1. Has(c2s, "hello", Hello) BY <2>3, <2>4 DEF ReqInv
      <3>2. granted = 0 BY <3>1 DEF ReqInv
      <3>3. Cardinality(lent) = 0 BY <1>f, <1>n, <3>2 DEF CreditConservation
      <3> QED BY <2>4, <3>3, BoundsAssumption DEF ServeHello, CreditConservation
    <2>5. CASE f.k = "ack" /\ ServeAck(f.c)
      <3>1. f.c \in lent BY <2>3, <2>5 DEF TokenInv, Token
      <3>2. Cardinality(lent \ {f.c}) = Cardinality(lent) - 1 BY <1>f, <3>1, FS_RemoveElement
      <3> QED BY <1>f, <1>n, <2>5, <3>2 DEF ServeAck, CreditConservation
    <2>6. CASE UNCHANGED creditVars BY <2>6, <1>1
    <2> QED BY <1>2, <2>4, <2>5, <2>6 DEF ServeControl, ServeEnsure, ServePut, ServeGet, f
  <1>3. ASSUME NEW c \in Calls, GetWaitCredit(c) PROVE CreditConservation'
    <2>1. CASE credits > 0 /\ credits' = credits - 1 /\ lent' = lent \cup {c} /\ UNCHANGED granted
      <3>1. c \notin lent BY <1>3 DEF GetWaitCredit, TokenInv, Token
      <3>2. Cardinality(lent \cup {c}) = Cardinality(lent) + 1 BY <1>f, <3>1, FS_AddElement
      <3> QED BY <1>f, <1>n, <2>1, <3>2 DEF CreditConservation
    <2>2. CASE UNCHANGED creditVars BY <1>1, <2>2
    <2> QED BY <1>3, <2>1, <2>2 DEF GetWaitCredit, MayTake, MayTakeKeeping, MayTakeDropping
  <1>4. ASSUME NEW c \in Calls, GetGoroutine(c), ~GetWaitCredit(c) PROVE UNCHANGED creditVars
    BY <1>4 DEF GetGoroutine, GetLookup, GetReject, GetSendMeta, GetSendPayload
  <1>5. ASSUME ServeConn, ~ServeControl PROVE UNCHANGED creditVars
    BY <1>5 DEF ServeConn, ServePayload, ServeRecvError, ServeReply, ServeClose
  <1>6. ASSUME NEW c \in Calls, CallStep(c) \/ AckStep(c) \/ Expire(c) \/ Release(c)
        PROVE  UNCHANGED creditVars
    BY <1>6 DEF CallStep, AckStep, Expire, Release, Enqueue, SendAbandon, SendReturned,
                TakeResult, WaitAbandon, ErrAckReturn, RegisterRelease, ReleaseReturn,
                AckEnqueue, AckAbandon
  <1>7. ASSUME SendLoop \/ RecvLoop PROVE UNCHANGED creditVars
    BY <1>7 DEF SendLoop, RecvLoop, SendControl, SendPayload, SendFail, SendLoopExit,
                RecvControl, RecvPayload, RecvAckReturn, RecvError
  <1>8. ASSUME CloseStart \/ CloseStep PROVE UNCHANGED creditVars
    BY <1>8 DEF CloseStart, CloseStep, CloseRelease, CloseReleased, CloseChannel,
                CloseConn, CloseReturn
  <1>9. ASSUME NEW c \in Calls, NEW r \in Requests, Start(c, r) PROVE UNCHANGED creditVars
    BY <1>9 DEF Start
  <1>10. CASE UNCHANGED vars BY <1>1, <1>10 DEF vars
  <1> QED
    BY <1>1, <1>2, <1>3, <1>4, <1>5, <1>6, <1>7, <1>8, <1>9, <1>10 DEF Next

\* The inductive invariant behind the flow-control theorems.
CreditInv == TypeOK /\ ReqInv /\ TokenInv /\ CreditConservation

\* The strengthening of CreditConservation is an invariant of the connection.
THEOREM CreditInvariant == Spec => []CreditInv
  <1>1. Init => CreditInv
    <2>1. Init => CreditConservation
      BY FS_EmptySet DEF Init, CreditConservation
    <2> QED BY <2>1, InitType, InitReq, InitToken DEF CreditInv
  <1>2. CreditInv /\ [Next]_vars => CreditInv'
    BY NextType, NextReq, NextToken, NextCredit DEF CreditInv
  <1> QED BY <1>1, <1>2, PTL DEF Spec

\* Whatever deadlines pass and whoever closes, in a connection with any number of
\* calls no ack is sent twice and no credit is spent twice: the server's counter
\* and the unacked GETs add up to what hello_req announced.
THEOREM CreditsConserved == Spec => []CreditConservation
  BY CreditInvariant, PTL DEF CreditInv

\* The client never has more payloads outstanding than the credits it announced,
\* for every number of calls, credits, queue slots and channel slots.
THEOREM FlowControlled == Spec => []FlowControl
  <1>1. CreditInv => FlowControl
    <2> SUFFICES ASSUME CreditInv PROVE FlowControl OBVIOUS
    <2> DEFINE U == {c \in Calls : Unreleased(c)}
    <2>f. IsFiniteSet(lent) /\ Cardinality(lent) \in Nat BY LentFinite DEF CreditInv
    <2>1. ASSUME NEW c \in Calls, Unreleased(c) PROVE c \in lent
      <3>1. (\E i \in 1..Len(s2c) : s2c[i] = Frame("meta", c)) => Has(s2c, "meta", c)
        BY DEF Has, Frame
      <3> QED BY <2>1, <3>1 DEF Unreleased, CreditInv, TokenInv, Token, Receiving, Holding
    <2>2. U \subseteq lent BY <2>1
    <2>3. IsFiniteSet(U) /\ Cardinality(U) <= Cardinality(lent) BY <2>f, <2>2, FS_Subset
    <2>4. Cardinality(U) \in Nat BY <2>3, FS_CardinalityType
    <2>5. credits \in Nat /\ granted \in {0, Credits} /\ credits + Cardinality(lent) = granted
      BY DEF CreditInv, TypeOK, ServerType, CreditConservation
    <2>6. Cardinality(U) <= Credits BY <2>f, <2>3, <2>4, <2>5, BoundsAssumption
    <2> QED BY <2>6 DEF FlowControl
  <1> QED BY <1>1, CreditInvariant, PTL

-----------------------------------------------------------------------------
(***************************************************************************)
(* The pending map.  PendingIsLive is not inductive: a call that has not   *)
(* begun must be found neither in the map nor with a result, and the call  *)
(* whose release function Close runs must be past its result.              *)
(***************************************************************************)
LiveInv ==
    /\ clcur \in Calls => cpc[clcur] = "rel"
    /\ \A c \in Calls : cpc[c] = "idle" => c \notin pending /\ ch[c] = "none"
    /\ \A c \in pending : /\ ch[c] = "none"
                          /\ \/ cpc[c] \in {"enq", "out", "wait"}
                             \/ cpc[c] = "done" /\ outcome[c] = "closed"

\* New registers the result channel of hello and no other.
LEMMA InitLive == Init => LiveInv
  BY CallsAssumption DEF Init, LiveInv

\* deliver, failAllPending, removePending and registerPending keep the map and
\* the result channels apart.
LEMMA NextLive == TypeOK /\ LiveInv /\ [Next]_vars => LiveInv'
  <1> SUFFICES ASSUME TypeOK, LiveInv, [Next]_vars PROVE LiveInv' OBVIOUS
  <1>t. /\ DOMAIN cpc = Calls /\ DOMAIN ch = Calls /\ DOMAIN outcome = Calls
        /\ pending \subseteq Calls /\ clcur \in Calls \cup {NoCall}
    BY DEF TypeOK, CallType, InboxType, CloseType
  <1>1. ASSUME NEW c \in Calls, NEW r \in Requests, Start(c, r) PROVE LiveInv'
    BY <1>t, <1>1 DEF Start, LiveInv
  <1>2. CASE UNCHANGED <<cpc, outcome, pending, ch, clcur>> BY <1>2 DEF LiveInv
  <1>3. ASSUME NEW c \in Calls, Enqueue(c) PROVE LiveInv'
    BY <1>t, <1>3 DEF Enqueue, LiveInv
  <1>4. ASSUME NEW c \in Calls, SendAbandon(c) PROVE LiveInv'
    BY <1>t, <1>4 DEF SendAbandon, Return, LiveInv
  <1>5. ASSUME NEW c \in Calls, SendReturned(c) PROVE LiveInv'
    BY <1>t, <1>5 DEF SendReturned, Return, LiveInv
  <1>6. ASSUME NEW c \in Calls, TakeResult(c) PROVE LiveInv'
    <2>1. /\ cpc[c] = "wait" /\ c \notin pending /\ ch' = [ch EXCEPT ![c] = "none"]
          /\ \E to \in {"done", "reg", "errack"} : cpc' = [cpc EXCEPT ![c] = to]
          /\ outcome' = outcome \/ \E how : outcome' = [outcome EXCEPT ![c] = how]
          /\ UNCHANGED <<pending, clcur>>
      BY <1>6 DEF TakeResult, Return, LiveInv
    <2> QED BY <1>t, <2>1 DEF LiveInv
  <1>7. ASSUME NEW c \in Calls, WaitAbandon(c) PROVE LiveInv'
    BY <1>t, <1>7 DEF WaitAbandon, Return, LiveInv
  <1>8. ASSUME NEW c \in Calls, cpc[c] \in {"errack", "reg", "held", "rel"},
               \E to \in {"done", "held", "rel"} : cpc' = [cpc EXCEPT ![c] = to],
               outcome' = outcome \/ \E how : outcome' = [outcome EXCEPT ![c] = how],
               UNCHANGED <<pending, ch>>,
               \/ clcur' = clcur /\ clcur # c
               \/ clcur' = NoCall /\ clcur = c
               \/ clcur' = c /\ clcur = NoCall /\ cpc'[c] = "rel"
        PROVE  LiveInv'
    <2>1. c \notin pending BY <1>8 DEF LiveInv
    <2>2. \A d \in Calls : d # c => cpc'[d] = cpc[d] /\ outcome'[d] = outcome[d]
      BY <1>t, <1>8
    <2>3. cpc'[c] \in {"done", "held", "rel"} BY <1>t, <1>8
    <2> QED BY <1>t, <1>8, <2>1, <2>2, <2>3, CallsAssumption DEF LiveInv
  <1>9. ASSUME NEW c \in Calls,
               ErrAckReturn(c) \/ RegisterRelease(c) \/ ReleaseReturn(c) \/ Release(c)
        PROVE  LiveInv'
    <2>1. cpc[c] # "rel" => clcur # c BY DEF LiveInv
    <2> QED BY <1>8, <1>9, <2>1 DEF ErrAckReturn, RegisterRelease, ReleaseReturn, Release, Return
  <1>10. ASSUME NEW c \in Calls, CloseRelease(c) PROVE LiveInv'
    <2>1. cpc'[c] = "rel" BY <1>t, <1>10 DEF CloseRelease
    <2> QED BY <1>8, <1>10, <2>1 DEF CloseRelease
  <1>11. CASE CloseReleased
    <2>1. clcur \in Calls /\ cpc[clcur] = "rel" BY <1>t, <1>11 DEF CloseReleased, LiveInv
    <2> QED BY <1>8, <1>11, <2>1 DEF CloseReleased
  <1>12. CASE RecvControl \/ RecvPayload
    <2>1. /\ UNCHANGED <<cpc, outcome, clcur>>
          /\ \/ UNCHANGED <<pending, ch>>
             \/ \E c \in pending : \E k : pending' = pending \ {c} /\ ch' = [ch EXCEPT ![c] = k]
             \/ /\ pending' = {}
                /\ ch' = [c \in Calls |-> IF c \in pending THEN "fail" ELSE ch[c]]
      BY <1>12 DEF RecvControl, RecvPayload, Deliver, RecvDie
    <2>2. CASE UNCHANGED <<pending, ch>> BY <1>2, <2>1, <2>2
    <2>3. ASSUME NEW c \in pending, NEW k, pending' = pending \ {c}, ch' = [ch EXCEPT ![c] = k]
          PROVE LiveInv'
      BY <1>t, <2>1, <2>3 DEF LiveInv
    <2>4. CASE pending' = {} /\ ch' = [c \in Calls |-> IF c \in pending THEN "fail" ELSE ch[c]]
      BY <1>t, <2>1, <2>4 DEF LiveInv
    <2> QED BY <2>1, <2>2, <2>3, <2>4
  <1>13. CASE RecvError
    BY <1>t, <1>13 DEF RecvError, RecvDie, LiveInv
  <1>14. ASSUME NEW c \in Calls, Expire(c) \/ AckStep(c) \/ GetGoroutine(c) PROVE LiveInv'
    BY <1>2, <1>14 DEF Expire, AckStep, AckEnqueue, AckAbandon, GetGoroutine, GetLookup,
                       GetReject, GetWaitCredit, GetSendMeta, GetSendPayload
  <1>15. CASE SendLoop
    BY <1>2, <1>15 DEF SendLoop, SendControl, SendPayload, SendFail, SendLoopExit
  <1>16. CASE ServeConn
    BY <1>2, <1>16 DEF ServeConn, ServeControl, ServePayload, ServeRecvError, ServeReply,
                       ServeClose
  <1>17. CASE RecvAckReturn \/ CloseStart \/ CloseChannel \/ CloseConn \/ CloseReturn
    BY <1>2, <1>17 DEF RecvAckReturn, CloseStart, CloseChannel, CloseConn, CloseReturn
  <1>18. CASE UNCHANGED vars BY <1>2, <1>18 DEF vars
  <1> QED
    BY <1>1, <1>3, <1>4, <1>5, <1>6, <1>7, <1>9, <1>10, <1>11, <1>12, <1>13, <1>14,
       <1>15, <1>16, <1>17, <1>18
    DEF Next, CallStep, RecvLoop, CloseStep

\* The map and the result channels stay apart in every connection.
THEOREM LiveInvariant == Spec => [](TypeOK /\ LiveInv)
  <1>1. TypeOK /\ LiveInv /\ [Next]_vars => (TypeOK /\ LiveInv)' BY NextType, NextLive
  <1>2. Init => TypeOK /\ LiveInv BY InitType, InitLive
  <1> QED BY <1>1, <1>2, PTL DEF Spec

\* However many calls are made, however they time out or are closed: a registered
\* result channel is empty and its call still waits for it or was closed.
THEOREM PendingLive == Spec => []PendingIsLive
  <1>1. TypeOK /\ LiveInv => PendingIsLive BY DEF LiveInv, PendingIsLive
  <1> QED BY <1>1, LiveInvariant, PTL

-----------------------------------------------------------------------------
\* The frame sent last, and: a payload comes right behind the control message of
\* kind k that announces it.
Newest(s) == s[Len(s)]
Behind(s, k) == \A i, j \in 1..Len(s) :
                   j = i + 1 /\ s[j].k = "data" => s[i].k = k /\ s[i].c = s[j].c

\* An empty channel has nothing out of order.
LEMMA BehindEmpty == \A k : Behind(<<>>, k)
  BY DEF Behind

\* Sending keeps payloads behind their announcement when a payload is sent right
\* after it (or into an empty channel).
LEMMA BehindAppend ==
  ASSUME NEW S, NEW s \in Seq(S), NEW e \in S, NEW k, Behind(s, k),
         e.k = "data" /\ s # <<>> => Newest(s).k = k /\ Newest(s).c = e.c
  PROVE  /\ Behind(Append(s, e), k)
         /\ Append(s, e) # <<>>
         /\ Newest(Append(s, e)) = e
         /\ Append(s, e)[1] = IF s = <<>> THEN e ELSE s[1]
  <1>1. Len(Append(s, e)) = Len(s) + 1 /\ Len(s) \in Nat OBVIOUS
  <1>2. Append(s, e)[Len(s) + 1] = e OBVIOUS
  <1>3. \A i \in 1..Len(s) : Append(s, e)[i] = s[i] OBVIOUS
  <1>4. ASSUME NEW i \in 1..Len(Append(s, e)), NEW j \in 1..Len(Append(s, e)),
               j = i + 1, Append(s, e)[j].k = "data"
        PROVE  Append(s, e)[i].k = k /\ Append(s, e)[i].c = Append(s, e)[j].c
    <2>1. i \in 1..Len(s) BY <1>1, <1>4
    <2>2. CASE j \in 1..Len(s) BY <1>3, <1>4, <2>1, <2>2 DEF Behind
    <2>3. CASE j \notin 1..Len(s)
      <3>1. j = Len(s) + 1 /\ i = Len(s) /\ Len(s) # 0 BY <1>1, <1>4, <2>1, <2>3
      <3>2. s # <<>> BY <3>1
      <3>3. Append(s, e)[j] = e /\ Append(s, e)[i] = Newest(s)
        BY <1>2, <1>3, <2>1, <3>1 DEF Newest
      <3> QED BY <1>4, <3>2, <3>3
    <2> QED BY <2>2, <2>3
  <1>5. Append(s, e)[1] = IF s = <<>> THEN e ELSE s[1] OBVIOUS
  <1>6. Behind(Append(s, e), k) BY <1>4 DEF Behind
  <1>7. Newest(Append(s, e)) = e BY <1>1, <1>2 DEF Newest
  <1>8. Append(s, e) # <<>> OBVIOUS
  <1> QED BY <1>5, <1>6, <1>7, <1>8

\* Receiving the head keeps the order, leaves the newest frame in place, and a
\* payload that is now first was announced by the frame received.
LEMMA BehindTail ==
  ASSUME NEW S, NEW s \in Seq(S), s # <<>>, NEW k, Behind(s, k)
  PROVE  /\ Behind(Tail(s), k)
         /\ Tail(s) # <<>> => Newest(Tail(s)) = Newest(s)
         /\ Tail(s) = <<>> => Newest(s) = Head(s)
         /\ Tail(s) # <<>> /\ Tail(s)[1].k = "data" =>
               Head(s).k = k /\ Head(s).c = Tail(s)[1].c
         /\ Head(s) = s[1]
  <1> USE HeadTail
  <1>0. /\ Len(s) \in Nat \ {0} /\ Len(Tail(s)) = Len(s) - 1 /\ Tail(s) \in Seq(S)
        /\ Head(s) = s[1]
    OBVIOUS
  <1>1. \A i \in 1..Len(Tail(s)) : Tail(s)[i] = s[i + 1] OBVIOUS
  <1>2. ASSUME NEW i \in 1..Len(Tail(s)), NEW j \in 1..Len(Tail(s)),
               j = i + 1, Tail(s)[j].k = "data"
        PROVE  Tail(s)[i].k = k /\ Tail(s)[i].c = Tail(s)[j].c
    <2>1. i + 1 \in 1..Len(s) /\ j + 1 \in 1..Len(s) /\ j + 1 = (i + 1) + 1 BY <1>0, <1>2
    <2>2. Tail(s)[i] = s[i + 1] /\ Tail(s)[j] = s[j + 1] BY <1>1
    <2> QED BY <1>2, <2>1, <2>2 DEF Behind
  <1>3. Behind(Tail(s), k) BY <1>2 DEF Behind
  <1>4. ASSUME Tail(s) # <<>>
        PROVE  /\ Newest(Tail(s)) = Newest(s)
               /\ Tail(s)[1].k = "data" => Head(s).k = k /\ Head(s).c = Tail(s)[1].c
    <2>1. Len(Tail(s)) \in Nat /\ Len(Tail(s)) # 0 BY <1>0, <1>4
    <2>a. \A n \in Nat : n # 0 => n \in 1..n /\ 1 \in 1..n OBVIOUS
    <2>2. Len(Tail(s)) \in 1..Len(Tail(s)) /\ 1 \in 1..Len(Tail(s)) BY ONLY <2>1, <2>a
    <2>3. Tail(s)[Len(Tail(s))] = s[Len(s)] BY <1>0, <1>1, <2>2
    <2>4. Tail(s)[1] = s[2] BY <1>1, <2>2
    <2>5. 1 \in 1..Len(s) /\ 2 \in 1..Len(s) /\ 2 = 1 + 1 BY <1>0, <2>1
    <2>6. s[2].k = "data" => s[1].k = k /\ s[1].c = s[2].c BY <2>5 DEF Behind
    <2> QED BY <1>0, <2>3, <2>4, <2>6 DEF Newest
  <1>5. Tail(s) = <<>> => Newest(s) = Head(s)
    <2>a. Len(<<>>) = 0 OBVIOUS
    <2>1. Tail(s) = <<>> => Len(s) = 1 BY ONLY <1>0, <2>a
    <2> QED BY <1>0, <2>1 DEF Newest
  <1> QED BY <1>0, <1>3, <1>4, <1>5

(***************************************************************************)
(* Why a borrowed payload is the call's own.  sendMu keeps get_meta and    *)
(* its payload together, so a payload in s2c follows its get_meta, and one *)
(* at the head when recvLoop expects a payload is that of the get_meta     *)
(* received last.  Anything else recvLoop takes for a payload is no        *)
(* payload, and GetZeroCopy rejects it.                                    *)
(***************************************************************************)
PayloadInv ==
    /\ Behind(s2c, "meta")
    /\ rpc = "pay" /\ s2c # <<>> /\ s2c[1].k = "data" => rcur = s2c[1].c
    /\ \A c, d \in Calls : g[c] = "pay" /\ g[d] = "pay" => c = d
    /\ \A c \in Calls : g[c] = "pay" /\ s2c # <<>> =>
                           Newest(s2c).k = "meta" /\ Newest(s2c).c = c
    /\ \A c \in Calls : g[c] = "pay" /\ s2c = <<>> /\ rpc = "pay" => rcur = c
    /\ \A c \in Calls : bor[c] \in {c, NoCall}
    /\ \A c \in Calls : cpc[c] \in {"reg", "held", "rel"} => bor[c] = c

\* Nothing has been sent and nothing borrowed.
LEMMA InitPayload == Init => PayloadInv
  BY CallsAssumption, BehindEmpty DEF Init, PayloadInv

\* Steps that leave the server-to-client channel, recvLoop and the payload
\* senders alone, and hand out no payload.
LEMMA PayloadFrame ==
  ASSUME PayloadInv, UNCHANGED <<s2c, bor>>,
         rpc' = "pay" => rpc = "pay" /\ rcur' = rcur,
         \A c \in Calls : g'[c] = "pay" => g[c] = "pay",
         \A c \in Calls : cpc'[c] \in {"reg", "held", "rel"} =>
                             cpc[c] \in {"reg", "held", "rel"} \/ bor[c] = c
  PROVE  PayloadInv'
  BY DEF PayloadInv

\* Sending a frame that is no payload, with sendMu free.
LEMMA PayloadSend ==
  ASSUME PayloadInv, s2c \in Seq(S2CFrame), NEW e \in S2CFrame, sendMuFree,
         e.k # "data", s2c' = Append(s2c, e), UNCHANGED <<bor, cpc, rpc, rcur>>,
         \A c \in Calls : g'[c] = "pay" => e.k = "meta" /\ e.c = c
  PROVE  PayloadInv'
  <1>1. /\ Behind(s2c', "meta") /\ s2c' # <<>> /\ Newest(s2c') = e
        /\ s2c'[1] = IF s2c = <<>> THEN e ELSE s2c[1]
    BY BehindAppend DEF PayloadInv
  <1> QED BY <1>1 DEF PayloadInv

\* Receiving a frame, whatever the loop does with it.
LEMMA PayloadRecv ==
  ASSUME PayloadInv, s2c \in Seq(S2CFrame), s2c # <<>>, s2c' = Tail(s2c),
         UNCHANGED <<cpc, g>>,
         rpc' = "pay" => Head(s2c).k = "meta" /\ rcur' = Head(s2c).c,
         \A c \in Calls : bor'[c] \in {c, NoCall},
         \A c \in Calls : cpc[c] \in {"reg", "held", "rel"} => bor'[c] = bor[c]
  PROVE  PayloadInv'
  <1>1. /\ Behind(s2c', "meta")
        /\ s2c' # <<>> => Newest(s2c') = Newest(s2c)
        /\ s2c' = <<>> => Newest(s2c) = Head(s2c)
        /\ s2c' # <<>> /\ s2c'[1].k = "data" => Head(s2c).c = s2c'[1].c
    BY BehindTail DEF PayloadInv
  <1> QED BY <1>1 DEF PayloadInv

\* Whatever is sent, received, lost or abandoned, payloads stay with their calls.
LEMMA NextPayload == TypeOK /\ LiveInv /\ PayloadInv /\ [Next]_vars => PayloadInv'
  <1> SUFFICES ASSUME TypeOK, LiveInv, PayloadInv, [Next]_vars PROVE PayloadInv' OBVIOUS
  <1>t. /\ DOMAIN cpc = Calls /\ DOMAIN g = Calls /\ DOMAIN bor = Calls
        /\ pending \subseteq Calls /\ clcur \in Calls \cup {NoCall}
        /\ s2c \in Seq(S2CFrame)
    BY DEF TypeOK, CallType, InboxType, CloseType, WireType, ServerType
  <1>b. \A c \in Calls : bor[c] \in {c, NoCall} BY DEF PayloadInv
  <1>p. \A c \in pending : cpc[c] \notin {"reg", "held", "rel"} BY DEF LiveInv
  <1>0. CASE UNCHANGED <<s2c, bor, rpc, rcur, g, cpc>> BY <1>0, PayloadFrame
  <1>1. ASSUME UNCHANGED <<s2c, bor, rpc, rcur, g>>, NEW c \in Calls,
               \E to : /\ cpc' = [cpc EXCEPT ![c] = to]
                       /\ to \in {"reg", "held", "rel"} =>
                             cpc[c] \in {"reg", "held", "rel"} \/ bor[c] = c
        PROVE  PayloadInv'
    BY <1>t, <1>1, PayloadFrame
  <1>2. ASSUME NEW c \in Calls, NEW r \in Requests, Start(c, r) PROVE PayloadInv'
    <2>1. UNCHANGED <<s2c, bor, rpc, rcur, g>> /\ \E to \in {"enq"} : cpc' = [cpc EXCEPT ![c] = to]
      BY <1>2 DEF Start
    <2> QED BY <1>1, <2>1
  <1>3. ASSUME NEW c \in Calls, TakeResult(c) PROVE PayloadInv'
    <2>1. GoodPayload(c) => bor[c] = c BY <1>b DEF GoodPayload
    <2>2. /\ UNCHANGED <<s2c, bor, rpc, rcur, g>>
          /\ \/ \E to \in {"done", "errack"} : cpc' = [cpc EXCEPT ![c] = to]
             \/ bor[c] = c /\ cpc' = [cpc EXCEPT ![c] = "reg"]
      BY <1>3, <2>1 DEF TakeResult, Return
    <2>3. CASE \E to \in {"done", "errack"} : cpc' = [cpc EXCEPT ![c] = to] BY <1>1, <2>2, <2>3
    <2>4. CASE bor[c] = c /\ cpc' = [cpc EXCEPT ![c] = "reg"] BY <1>1, <2>2, <2>4
    <2> QED BY <2>2, <2>3, <2>4
  <1>4. ASSUME NEW c \in Calls, CallStep(c), ~TakeResult(c) PROVE PayloadInv'
    <2>1. /\ UNCHANGED <<s2c, bor, rpc, rcur, g>>
          /\ \/ \E to \in {"out", "wait", "done"} : cpc' = [cpc EXCEPT ![c] = to]
             \/ cpc[c] = "reg" /\ cpc' = [cpc EXCEPT ![c] = "held"]
      BY <1>4 DEF CallStep, Enqueue, SendAbandon, SendReturned, WaitAbandon,
                  ErrAckReturn, RegisterRelease, ReleaseReturn, Return
    <2> QED BY <1>1, <2>1
  <1>5. ASSUME NEW c \in Calls, Release(c) \/ CloseRelease(c) PROVE PayloadInv'
    BY <1>1, <1>5 DEF Release, CloseRelease
  <1>a. ASSUME NEW c \in Calls, Expire(c) \/ AckStep(c) PROVE PayloadInv'
    BY <1>0, <1>a DEF Expire, AckStep, AckEnqueue, AckAbandon
  <1>6. CASE CloseReleased
    <2>1. clcur \in Calls BY <1>t, <1>6 DEF CloseReleased
    <2>2. /\ UNCHANGED <<s2c, bor, rpc, rcur, g>>
          /\ \E to \in {"done"} : cpc' = [cpc EXCEPT ![clcur] = to]
      BY <1>6 DEF CloseReleased
    <2> QED BY <1>1, <2>1, <2>2
  <1>7. CASE CloseStart \/ CloseChannel \/ CloseConn \/ CloseReturn
    BY <1>0, <1>7 DEF CloseStart, CloseChannel, CloseConn, CloseReturn
  <1>8. CASE SendLoop
    BY <1>0, <1>8 DEF SendLoop, SendControl, SendPayload, SendFail, SendLoopExit
  <1>9. CASE RecvControl
    <2>1. /\ s2c # <<>> /\ s2c' = Tail(s2c) /\ UNCHANGED <<cpc, g>> /\ rpc = "ctl"
          /\ rpc' = "pay" => Head(s2c).k = "meta" /\ rcur' = Head(s2c).c
          /\ bor' = bor \/ \E c \in pending : bor' = [bor EXCEPT ![c] = NoCall]
      BY <1>9 DEF RecvControl, RecvDie, Deliver
    <2>2. /\ \A c \in Calls : bor'[c] \in {c, NoCall}
          /\ \A c \in Calls : cpc[c] \in {"reg", "held", "rel"} => bor'[c] = bor[c]
      BY <1>t, <1>b, <1>p, <2>1
    <2> QED BY <1>t, <2>1, <2>2, PayloadRecv
  <1>10. CASE RecvPayload
    <2>0. s2c # <<>> BY <1>10 DEF RecvPayload
    <2>a. Head(s2c) = s2c[1] BY <1>t, <2>0, HeadTail
    <2>1. /\ s2c' = Tail(s2c) /\ UNCHANGED <<cpc, g>> /\ rpc = "pay" /\ rpc' # "pay"
          /\ \/ bor' = bor
             \/ /\ rcur \in pending
                /\ bor' = [bor EXCEPT ![rcur] = IF Head(s2c).k = "data" THEN Head(s2c).c ELSE NoCall]
      BY <1>10 DEF RecvPayload, Deliver
    <2>2. Head(s2c).k = "data" => rcur = Head(s2c).c BY <2>0, <2>a, <2>1 DEF PayloadInv
    <2>b. bor' = bor \/ \E c \in pending : /\ \/ bor' = [bor EXCEPT ![c] = NoCall]
                                              \/ bor' = [bor EXCEPT ![c] = c]
      BY <2>1, <2>2
    <2>3. /\ \A c \in Calls : bor'[c] \in {c, NoCall}
          /\ \A c \in Calls : cpc[c] \in {"reg", "held", "rel"} => bor'[c] = bor[c]
      BY <1>t, <1>b, <1>p, <2>b
    <2> QED BY <1>t, <2>0, <2>1, <2>3, PayloadRecv
  <1>11. CASE RecvAckReturn \/ RecvError
    BY <1>11, PayloadFrame DEF RecvAckReturn, RecvError, RecvDie
  <1>12. CASE ServeControl
    <2>1. /\ UNCHANGED <<s2c, bor, rpc, rcur, cpc>>
          /\ g' = g \/ \E c : g' = [g EXCEPT ![c] = "look"]
      BY <1>12 DEF ServeControl, ServeHello, ServeAck, ServeEnsure, ServePut, ServeGet
    <2> QED BY <1>t, <2>1, PayloadFrame
  <1>13. CASE ServePayload \/ ServeRecvError \/ ServeClose
    BY <1>0, <1>13 DEF ServePayload, ServeRecvError, ServeClose
  <1>14. CASE ServeReply
    <2>1. CASE s2c' = s2c BY <1>0, <1>14, <2>1 DEF ServeReply
    <2>2. CASE s2c' = Append(s2c, scur) /\ CanSend
      <3>1. scur \in S2CFrame /\ scur.k # "data"
        BY DEF TypeOK, ServerType, S2CFrame, RespFrameKinds, RespKinds
      <3> QED BY <1>t, <1>14, <2>2, <3>1, PayloadSend DEF ServeReply, CanSend, sendMuFree
    <2> QED BY <1>14, <2>1, <2>2 DEF ServeReply
  <1>15. ASSUME NEW c \in Calls, GetReject(c) \/ GetSendMeta(c) PROVE PayloadInv'
    <2>1. /\ UNCHANGED <<bor, cpc, rpc, rcur>>
          /\ \/ s2c' = s2c /\ g' = [g EXCEPT ![c] = "done"]
             \/ /\ CanSend
                /\ \/ s2c' = Append(s2c, Frame("err", c)) /\ g' = [g EXCEPT ![c] = "done"]
                   \/ s2c' = Append(s2c, Frame("meta", c)) /\ g' = [g EXCEPT ![c] = "pay"]
      BY <1>15 DEF GetReject, GetSendMeta, GetStep
    <2>2. CASE s2c' = s2c /\ g' = [g EXCEPT ![c] = "done"]
      BY <1>t, <2>1, <2>2, PayloadFrame
    <2>3. ASSUME NEW k \in {"err", "meta"}, s2c' = Append(s2c, Frame(k, c)), CanSend,
                 g' = [g EXCEPT ![c] = IF k = "err" THEN "done" ELSE "pay"]
          PROVE  PayloadInv'
      <3>1. /\ Frame(k, c) \in S2CFrame /\ Frame(k, c).k = k /\ Frame(k, c).c = c
        BY DEF Frame, S2CFrame, RespFrameKinds, RespKinds
      <3>2. \A d \in Calls : g'[d] = "pay" => k = "meta" /\ c = d
        BY <1>t, <2>3 DEF CanSend, sendMuFree
      <3> QED BY <1>t, <2>1, <2>3, <3>1, <3>2, PayloadSend DEF CanSend
    <2> QED BY <2>1, <2>2, <2>3
  <1>16. ASSUME NEW c \in Calls, GetSendPayload(c) PROVE PayloadInv'
    <2> DEFINE e == Frame("data", c)
    <2>1. /\ g[c] = "pay" /\ g' = [g EXCEPT ![c] = "done"] /\ UNCHANGED <<bor, cpc, rpc, rcur>>
          /\ s2c' = s2c \/ s2c' = Append(s2c, e)
      BY <1>16 DEF GetSendPayload, GetStep
    <2>2. e \in S2CFrame /\ e.k = "data" /\ e.c = c BY DEF Frame, S2CFrame, RespFrameKinds
    <2> HIDE DEF e
    <2>3. CASE s2c' = s2c BY <1>t, <2>1, <2>3, PayloadFrame
    <2>4. CASE s2c' = Append(s2c, e)
      <3>1. Behind(s2c, "meta") /\ (s2c # <<>> => Newest(s2c).k = "meta" /\ Newest(s2c).c = e.c)
        BY <2>1, <2>2 DEF PayloadInv
      <3>2. /\ Behind(s2c', "meta") /\ s2c' # <<>> /\ Newest(s2c') = e
            /\ s2c'[1] = IF s2c = <<>> THEN e ELSE s2c[1]
        BY <1>t, <2>2, <2>4, <3>1, BehindAppend
      <3>3. \A d \in Calls : g'[d] # "pay" BY <1>t, <2>1 DEF PayloadInv
      <3>4. s2c = <<>> /\ rpc = "pay" => rcur = c BY <2>1 DEF PayloadInv
      <3> QED BY <2>1, <2>2, <3>2, <3>3, <3>4 DEF PayloadInv
    <2> QED BY <2>1, <2>3, <2>4
  <1>17. ASSUME NEW c \in Calls, GetLookup(c) \/ GetWaitCredit(c) PROVE PayloadInv'
    <2>1. /\ UNCHANGED <<s2c, bor, rpc, rcur, cpc>>
          /\ \E to \in {"err", "credit", "meta", "done"} : g' = [g EXCEPT ![c] = to]
      BY <1>17 DEF GetLookup, GetWaitCredit, GetStep
    <2> QED BY <1>t, <2>1, PayloadFrame
  <1>18. CASE UNCHANGED vars BY <1>0, <1>18 DEF vars
  <1> QED
    BY <1>2, <1>3, <1>4, <1>5, <1>a, <1>6, <1>7, <1>8, <1>9, <1>10, <1>11, <1>12, <1>13,
       <1>14, <1>15, <1>16, <1>17, <1>18
    DEF Next, RecvLoop, CloseStep, ServeConn, GetGoroutine

\* GetZeroCopy never hands out the payload of another GET, whatever payload sends
\* fail, whatever object is empty and however many GETs share the connection.
THEOREM PayloadIsOwn == Spec => []GetOwnPayload
  <1>1. TypeOK /\ LiveInv /\ TypeOK' /\ LiveInv' /\ PayloadInv /\ [Next]_vars => PayloadInv'
    BY NextPayload
  <1>2. PayloadInv => GetOwnPayload BY DEF PayloadInv, GetOwnPayload
  <1> QED BY <1>1, <1>2, InitPayload, LiveInvariant, PTL DEF Spec

-----------------------------------------------------------------------------
(***************************************************************************)
(* What a frame says about its call.  A request on its way is of the kind  *)
(* the call asked for, resp_ok is only sent for what CreateBucket ran for, *)
(* hello_resp only for hello, and a call that has not sent its request has *)
(* left no trace.                                                          *)
(***************************************************************************)
Ops == {"hello", "ensure", "put", "get"}
Replying(k, c) == spc = "reply" /\ scur.k = k /\ scur.c = c
Awaiting(c) == spc = "payload" /\ scur.c = c
Answered(k, c) == Has(s2c, k, c) \/ ch[c] = k \/ Replying(k, c)

Untouched(c) ==
    /\ \A k \in Ops : ~Has(sendQ, k, c) /\ ~Has(c2s, k, c)
    /\ ~Has(c2s, "data", c)
    /\ c \notin applied
    /\ g[c] = "none"
    /\ ~Awaiting(c)
    /\ ~Answered("ok", c) /\ ~Answered("helloresp", c)
    /\ outcome[c] = "none"

Kind(c) ==
    /\ cpc[c] = "idle" => req[c].op = "hello"
    /\ cpc[c] \in {"idle", "enq"} => Untouched(c)
    /\ \A k \in Ops : Has(sendQ, k, c) \/ Has(c2s, k, c) => req[c].op = k
    /\ Has(c2s, "data", c) => req[c].op = "put" /\ req[c].size > 0
    /\ g[c] # "none" => req[c].op = "get"
    /\ Awaiting(c) => scur.k = "ok" /\ req[c].op = "put" /\ req[c].size > 0
    /\ Answered("helloresp", c) => req[c].op = "hello"
    /\ Answered("ok", c) \/ (outcome[c] = "ok" /\ req[c].op \in {"put", "ensure"})
          => c \in applied

KindInv == \A c \in Calls : Kind(c)

\* Before hello is sent every call is untouched.
LEMMA InitKind == Init => KindInv
  <1> SUFFICES ASSUME Init, NEW c \in Calls PROVE Kind(c) BY DEF KindInv
  <1>1. /\ \A k : ~Has(sendQ, k, c) /\ ~Has(c2s, k, c) /\ ~Has(s2c, k, c)
        /\ c \notin applied /\ g[c] = "none" /\ spc = "recv" /\ ch[c] = "none"
        /\ outcome[c] = "none" /\ req[c].op = "hello"
    BY HasEmpty DEF Init, HelloRequest
  <1>2. Untouched(c) BY <1>1 DEF Untouched, Awaiting, Answered, Replying
  <1> QED BY <1>1, <1>2 DEF Kind, Awaiting, Answered, Replying

\* What a step may do to one call without being the start of it.
KindStep(c) ==
    /\ req'[c] = req[c]
    /\ cpc'[c] = cpc[c] \/ (cpc[c] # "idle" /\ cpc'[c] \notin {"idle", "enq"})
    /\ \A k \in Ops :
          /\ Has(sendQ', k, c) => \/ Has(sendQ, k, c)
                                  \/ req[c].op = k /\ cpc'[c] \notin {"idle", "enq"}
          /\ Has(c2s', k, c) => Has(c2s, k, c) \/ Has(sendQ, k, c)
    /\ Has(c2s', "data", c) => \/ Has(c2s, "data", c)
                               \/ Has(sendQ, "put", c) /\ req[c].size > 0
    /\ g'[c] # "none" => g[c] # "none" \/ Has(c2s, "get", c)
    /\ spc' = "payload" /\ scur'.c = c =>
          \/ Awaiting(c) /\ scur' = scur
          \/ Has(c2s, "put", c) /\ req[c].size > 0 /\ scur'.k = "ok"
    /\ Answered("helloresp", c)' => Answered("helloresp", c) \/ Has(c2s, "hello", c)
    /\ Answered("ok", c)' =>
          \/ Answered("ok", c)
          \/ c \in applied' /\ cpc[c] \notin {"idle", "enq"}
    /\ c \in applied' => c \in applied \/ cpc[c] \notin {"idle", "enq"}
    /\ c \in applied => c \in applied'
    /\ \/ outcome'[c] = outcome[c]
       \/ /\ cpc'[c] \notin {"idle", "enq"}
          /\ outcome'[c] = "ok" => Answered("ok", c) \/ req[c].op \notin {"put", "ensure"}

\* Such a step keeps what the frames say about the call.
LEMMA KindFrame == ASSUME NEW c \in Calls, Kind(c), KindStep(c) PROVE Kind(c)'
  <1>1. cpc'[c] = "idle" => req'[c].op = "hello" BY DEF Kind, KindStep
  <1>2. ASSUME cpc'[c] \in {"idle", "enq"} PROVE Untouched(c)'
    <2>1. cpc'[c] = cpc[c] /\ Untouched(c) BY <1>2 DEF Kind, KindStep
    <2>2. \A k \in Ops : ~Has(sendQ, k, c)' /\ ~Has(c2s, k, c)'
      BY <1>2, <2>1 DEF KindStep, Untouched
    <2>3. ~Has(c2s, "data", c)' BY <1>2, <2>1 DEF KindStep, Untouched, Ops
    <2>4. c \notin applied' /\ outcome'[c] = "none" BY <1>2, <2>1 DEF KindStep, Untouched
    <2>5. g'[c] = "none" /\ ~Awaiting(c)' BY <2>1 DEF KindStep, Untouched, Awaiting, Ops
    <2>6. ~Answered("ok", c)' /\ ~Answered("helloresp", c)'
      BY <1>2, <2>1 DEF KindStep, Untouched, Ops
    <2> QED BY <2>2, <2>3, <2>4, <2>5, <2>6 DEF Untouched
  <1>3. \A k \in Ops : Has(sendQ, k, c)' \/ Has(c2s, k, c)' => req'[c].op = k
    BY DEF Kind, KindStep
  <1>4. Has(c2s, "data", c)' => req'[c].op = "put" /\ req'[c].size > 0
    BY DEF Kind, KindStep, Ops
  <1>5. g'[c] # "none" => req'[c].op = "get" BY DEF Kind, KindStep, Ops
  <1>6. Awaiting(c)' => scur'.k = "ok" /\ req'[c].op = "put" /\ req'[c].size > 0
    BY DEF Kind, KindStep, Ops, Awaiting
  <1>7. Answered("helloresp", c)' => req'[c].op = "hello" BY DEF Kind, KindStep, Ops
  <1>8. Answered("ok", c)' \/ (outcome'[c] = "ok" /\ req'[c].op \in {"put", "ensure"})
           => c \in applied'
    BY DEF Kind, KindStep
  <1> QED BY <1>1, <1>2, <1>3, <1>4, <1>5, <1>6, <1>7, <1>8 DEF Kind

(***************************************************************************)
(* The two messages of a PUT.  sendLoop sends put_req and its payload one  *)
(* after the other, so a payload in c2s follows its put_req, and one that  *)
(* serveConn takes for the payload of a PUT is the payload of that PUT.    *)
(* PutOf: each of the two is sent once, and once a PUT with a payload has  *)
(* been applied neither of them is left anywhere.                          *)
(***************************************************************************)
Sending(c) == putStep /\ Head(sendQ).c = c

PutOf(c) ==
    /\ Has(c2s, "data", c) => ~Has(sendQ, "put", c)
    /\ Has(sendQ, "put", c) /\ Has(c2s, "put", c) => Sending(c)
    /\ Awaiting(c) => ~Has(c2s, "put", c) /\ (Has(sendQ, "put", c) => Sending(c))
    /\ c \in applied /\ req[c].op = "put" /\ req[c].size > 0 =>
          ~Has(sendQ, "put", c) /\ ~Has(c2s, "put", c) /\ ~Has(c2s, "data", c)

PutInv ==
    /\ Once(sendQ, "put") /\ Once(c2s, "put") /\ Once(c2s, "data")
    /\ Behind(c2s, "put")
    /\ putStep => sendQ # <<>> /\ Head(sendQ).k = "put"
    /\ putStep /\ c2s # <<>> => Newest(c2s).k = "put" /\ Newest(c2s).c = Head(sendQ).c
    /\ putStep /\ c2s = <<>> /\ spc = "payload" => scur.c = Head(sendQ).c
    /\ spc = "payload" /\ c2s # <<>> /\ c2s[1].k = "data" => scur.c = c2s[1].c
    /\ \A c \in Calls : PutOf(c)

\* Every step keeps what the frames say about each call.
LEMMA NextKind ==
  TypeOK /\ TokenInv /\ LiveInv /\ KindInv /\ PutInv /\ [Next]_vars => KindInv'
  <1> SUFFICES ASSUME TypeOK, TokenInv, LiveInv, KindInv, PutInv, [Next]_vars
               PROVE  KindInv'
    OBVIOUS
  <1> DEFINE QFrame == [k: ReqFrameKinds \ {"data"}, c: Calls]
  <1>t. /\ DOMAIN req = Calls /\ DOMAIN cpc = Calls /\ DOMAIN g = Calls /\ DOMAIN ch = Calls
        /\ DOMAIN outcome = Calls /\ pending \subseteq Calls /\ clcur \in Calls \cup {NoCall}
        /\ sendQ \in Seq(QFrame) /\ c2s \in Seq(C2SFrame) /\ s2c \in Seq(S2CFrame)
        /\ scur \in [k: RespKinds, c: Calls]
        /\ \A c \in Calls : req[c] \in Request
    BY DEF TypeOK, CallType, InboxType, LoopType, CloseType, WireType, ServerType
  <1> HIDE DEF QFrame
  <1>k. \A c \in Calls : Kind(c) BY DEF KindInv
  <1>s. ASSUME \A d \in Calls : KindStep(d) PROVE KindInv'
    BY <1>k, <1>s, KindFrame DEF KindInv
  <1>1. ASSUME NEW c \in Calls, NEW r \in Requests, Start(c, r) PROVE KindInv'
    <2>1. /\ cpc[c] = "idle" /\ cpc' = [cpc EXCEPT ![c] = "enq"] /\ req' = [req EXCEPT ![c] = r]
          /\ UNCHANGED <<sendQ, c2s, s2c, applied, g, spc, scur, ch, outcome>>
      BY <1>1 DEF Start
    <2>2. ASSUME NEW d \in Calls PROVE Kind(d)'
      <3>1. CASE d # c
        <4>1. KindStep(d) BY <1>t, <2>1, <3>1 DEF KindStep, Answered, Replying, Awaiting
        <4> QED BY <1>k, <4>1, KindFrame
      <3>2. CASE d = c
        <4>1. Untouched(c) BY <1>k, <2>1 DEF Kind
        <4>2. Untouched(c)' BY <2>1, <4>1 DEF Untouched, Answered, Replying, Awaiting
        <4>3. cpc'[c] = "enq" BY <1>t, <2>1
        <4> QED BY <3>2, <4>2, <4>3 DEF Kind, Untouched
      <3> QED BY <3>1, <3>2
    <2> QED BY <2>2 DEF KindInv
  \* Steps that touch no queue and no channel.
  <1>2. ASSUME UNCHANGED <<req, sendQ, c2s, s2c, spc, scur, applied>>,
               \A d \in Calls :
                  /\ cpc'[d] = cpc[d] \/ (cpc[d] # "idle" /\ cpc'[d] \notin {"idle", "enq"})
                  /\ g'[d] # "none" => g[d] # "none"
                  /\ ch'[d] \in {"ok", "helloresp"} => ch'[d] = ch[d]
                  /\ \/ outcome'[d] = outcome[d]
                     \/ /\ cpc'[d] \notin {"idle", "enq"}
                        /\ outcome'[d] = "ok" =>
                              Answered("ok", d) \/ req[d].op \notin {"put", "ensure"}
        PROVE  KindInv'
    <2> SUFFICES ASSUME NEW d \in Calls PROVE KindStep(d) BY <1>s
    <2>1. \A k \in {"ok", "helloresp"} : Answered(k, d)' => Answered(k, d)
      BY <1>2 DEF Answered, Replying
    <2> QED BY <1>2, <2>1 DEF KindStep, Awaiting
  <1>3. CASE UNCHANGED <<req, sendQ, c2s, s2c, spc, scur, applied, cpc, g, ch, outcome>>
    BY <1>2, <1>3
  <1>4. ASSUME NEW c \in Calls, Enqueue(c) PROVE KindInv'
    <2> DEFINE e == Frame(req[c].op, c)
    <2>1. /\ cpc[c] = "enq" /\ cpc' = [cpc EXCEPT ![c] = "out"] /\ sendQ' = Append(sendQ, e)
          /\ UNCHANGED <<req, c2s, s2c, spc, scur, applied, g, ch, outcome>>
      BY <1>4 DEF Enqueue
    <2>2. e.k = req[c].op /\ e.c = c /\ e \in QFrame
      BY <1>t DEF Frame, ReqFrameKinds, QFrame, Request
    <2> HIDE DEF e
    <2>3. \A k, x : Has(sendQ', k, x) <=> Has(sendQ, k, x) \/ (e.k = k /\ e.c = x)
      BY <1>t, <2>1, <2>2, HasAppend
    <2>4. ASSUME NEW d \in Calls PROVE KindStep(d)
      BY <1>t, <2>1, <2>2, <2>3 DEF KindStep, Answered, Replying, Awaiting
    <2> QED BY <1>s, <2>4
  <1>5. ASSUME NEW c \in Calls, AckEnqueue(c) PROVE KindInv'
    <2> DEFINE e == Frame("ack", c)
    <2>1. /\ sendQ' = Append(sendQ, e)
          /\ UNCHANGED <<req, cpc, c2s, s2c, spc, scur, applied, g, ch, outcome>>
      BY <1>5 DEF AckEnqueue
    <2>2. e.k = "ack" /\ e \in QFrame BY DEF Frame, ReqFrameKinds, QFrame
    <2> HIDE DEF e
    <2>3. \A k, x : Has(sendQ', k, x) <=> Has(sendQ, k, x) \/ (e.k = k /\ e.c = x)
      BY <1>t, <2>1, <2>2, HasAppend
    <2>4. ASSUME NEW d \in Calls PROVE KindStep(d)
      BY <2>1, <2>2, <2>3 DEF KindStep, Answered, Replying, Awaiting, Ops
    <2> QED BY <1>s, <2>4
  <1>6. CASE SendControl
    <2> DEFINE f == Head(sendQ)
    <2>1. /\ sendQ # <<>> /\ c2s' = Append(c2s, f)
          /\ sendQ' = sendQ \/ sendQ' = Tail(sendQ)
          /\ UNCHANGED <<req, cpc, s2c, spc, scur, applied, g, ch, outcome>>
      BY <1>6 DEF SendControl, Report
    <2>a. f \in QFrame BY <1>t, <2>1, HeadTail
    <2>2. f \in C2SFrame /\ f.k # "data" BY <2>a DEF QFrame, C2SFrame
    <2>4. \A k, x : /\ f.k = k /\ f.c = x => Has(sendQ, k, x)
                    /\ Has(Tail(sendQ), k, x) => Has(sendQ, k, x)
      BY <1>t, <2>1, HasTail
    <2> HIDE DEF f
    <2>3. \A k, x : Has(c2s', k, x) <=> Has(c2s, k, x) \/ (f.k = k /\ f.c = x)
      BY <1>t, <2>1, <2>2, HasAppend
    <2>5. \A k, x : Has(sendQ', k, x) => Has(sendQ, k, x) BY <2>1, <2>4
    <2>6. ASSUME NEW d \in Calls PROVE KindStep(d)
      BY <2>1, <2>2, <2>3, <2>4, <2>5 DEF KindStep, Answered, Replying, Awaiting
    <2> QED BY <1>s, <2>6
  <1>7. CASE SendPayload
    <2> DEFINE f == Head(sendQ)
               e == Frame("data", Head(sendQ).c)
    <2>1. /\ sendQ # <<>> /\ sendQ' = Tail(sendQ) /\ f.k = "put"
          /\ c2s' = c2s \/ (c2s' = Append(c2s, e) /\ req[f.c].size > 0)
          /\ UNCHANGED <<req, cpc, s2c, spc, scur, applied, g, ch, outcome>>
      BY <1>7 DEF SendPayload, Report, PutInv
    <2>a. f \in QFrame BY <1>t, <2>1, HeadTail
    <2>2. e \in C2SFrame /\ e.k = "data" /\ e.c = f.c
      BY <2>a DEF Frame, C2SFrame, ReqFrameKinds, QFrame
    <2>3. \A k, x : /\ f.k = k /\ f.c = x => Has(sendQ, k, x)
                    /\ Has(Tail(sendQ), k, x) => Has(sendQ, k, x)
      BY <1>t, <2>1, HasTail
    <2> HIDE DEF e, f
    <2>4. \A k, x : Has(Append(c2s, e), k, x) <=> Has(c2s, k, x) \/ (e.k = k /\ e.c = x)
      BY <1>t, <2>2, HasAppend
    <2>5. \A k, x : Has(sendQ', k, x) => Has(sendQ, k, x) BY <2>1, <2>3
    <2>6. \A k, x : Has(c2s', k, x) => \/ Has(c2s, k, x)
                                       \/ k = "data" /\ Has(sendQ, "put", x) /\ req[x].size > 0
      BY <2>1, <2>2, <2>3, <2>4
    <2>7. ASSUME NEW d \in Calls PROVE KindStep(d)
      BY <2>1, <2>5, <2>6 DEF KindStep, Answered, Replying, Awaiting, Ops
    <2> QED BY <1>s, <2>7
  <1>8. CASE SendFail \/ SendLoopExit
    <2>1. /\ \A k, x : Has(sendQ', k, x) => Has(sendQ, k, x)
      <3>1. CASE SendFail
        <4>1. sendQ # <<>> /\ sendQ' = Tail(sendQ) BY <3>1 DEF SendFail, Report
        <4> QED BY <1>t, <4>1, HasTail
      <3>2. CASE SendLoopExit BY <3>2, HasEmpty DEF SendLoopExit
      <3> QED BY <1>8, <3>1, <3>2
    <2>2. UNCHANGED <<req, cpc, c2s, s2c, spc, scur, applied, g, ch, outcome>>
      BY <1>8 DEF SendFail, SendLoopExit
    <2>3. ASSUME NEW d \in Calls PROVE KindStep(d)
      BY <2>1, <2>2 DEF KindStep, Answered, Replying, Awaiting
    <2> QED BY <1>s, <2>3
  <1>9. ASSUME NEW c \in Calls, CallStep(c), ~Enqueue(c) PROVE KindInv'
    <2>1. /\ UNCHANGED <<req, sendQ, c2s, s2c, spc, scur, applied, g>>
          /\ cpc[c] # "idle"
          /\ \E to \in {"wait", "reg", "held", "errack", "done"} :
                cpc' = [cpc EXCEPT ![c] = to]
      BY <1>9 DEF CallStep, SendAbandon, SendReturned, TakeResult, WaitAbandon,
                  ErrAckReturn, RegisterRelease, ReleaseReturn, Return
    <2>2. ch' = ch \/ ch' = [ch EXCEPT ![c] = "none"]
      BY <1>9 DEF CallStep, SendAbandon, SendReturned, TakeResult, WaitAbandon,
                  ErrAckReturn, RegisterRelease, ReleaseReturn, Return
    <2>3. \/ outcome' = outcome
          \/ \E how \in {"remote", "fail", "timeout", "closed"} : outcome' = [outcome EXCEPT ![c] = how]
          \/ /\ outcome' = [outcome EXCEPT ![c] = "ok"]
             /\ ch[c] \in {"helloresp", "ok"} \/ cpc[c] = "reg"
      BY <1>9 DEF CallStep, SendAbandon, SendReturned, TakeResult, WaitAbandon,
                  ErrAckReturn, RegisterRelease, ReleaseReturn, Return
    <2>4. ch[c] = "helloresp" => req[c].op = "hello" BY <1>k DEF Kind, Answered
    <2>5. cpc[c] = "reg" => req[c].op = "get"
      <3>1. Token(c) /\ Kind(c) BY <1>k DEF TokenInv
      <3> QED BY <3>1 DEF Token, Holding, Kind
    <2>6. ch[c] = "ok" => Answered("ok", c) BY DEF Answered
    <2>7. \A d \in Calls :
             /\ cpc'[d] = cpc[d] \/ (cpc[d] # "idle" /\ cpc'[d] \notin {"idle", "enq"})
             /\ ch'[d] \in {"ok", "helloresp"} => ch'[d] = ch[d]
      BY <1>t, <2>1, <2>2
    <2>8. cpc'[c] \notin {"idle", "enq"} BY <1>t, <2>1
    <2>9. \A d \in Calls :
             \/ outcome'[d] = outcome[d]
             \/ /\ cpc'[d] \notin {"idle", "enq"}
                /\ outcome'[d] = "ok" => Answered("ok", d) \/ req[d].op \notin {"put", "ensure"}
      BY <1>t, <2>3, <2>4, <2>5, <2>6, <2>8
    <2> QED BY <1>2, <2>1, <2>7, <2>9
  <1>10. ASSUME NEW c \in Calls, Release(c) \/ CloseRelease(c) PROVE KindInv'
    BY <1>t, <1>2, <1>10 DEF Release, CloseRelease
  <1>11. CASE CloseReleased
    <2>1. clcur \in Calls /\ cpc' = [cpc EXCEPT ![clcur] = "done"]
          /\ UNCHANGED <<req, sendQ, c2s, s2c, spc, scur, applied, g, ch, outcome>>
      BY <1>t, <1>11 DEF CloseReleased
    <2>2. cpc[clcur] = "rel" BY <2>1 DEF LiveInv
    <2> QED BY <1>t, <1>2, <2>1, <2>2
  <1>12. CASE RecvControl
    <2> DEFINE f == Head(s2c)
    <2>1. /\ s2c # <<>> /\ s2c' = Tail(s2c)
          /\ UNCHANGED <<req, cpc, sendQ, c2s, spc, scur, applied, g, outcome>>
          /\ \/ ch' = ch
             \/ f.c \in pending /\ ch' = [ch EXCEPT ![f.c] = f.k]
             \/ ch' = [c \in Calls |-> IF c \in pending THEN "fail" ELSE ch[c]]
      BY <1>12 DEF RecvControl, Deliver, RecvDie
    <2>2. \A k, x : /\ Has(s2c', k, x) => Has(s2c, k, x)
                    /\ f.k = k /\ f.c = x => Has(s2c, k, x)
      BY <1>t, <2>1, HasTail
    <2> HIDE DEF f
    <2>3. \A d \in Calls, k \in {"ok", "helloresp"} : ch'[d] = k => ch[d] = k \/ Has(s2c, k, d)
      BY <1>t, <2>1, <2>2
    <2>4. ASSUME NEW d \in Calls PROVE KindStep(d)
      BY <2>1, <2>2, <2>3 DEF KindStep, Answered, Replying, Awaiting
    <2> QED BY <1>s, <2>4
  <1>13. CASE RecvPayload
    <2>1. /\ s2c # <<>> /\ s2c' = Tail(s2c)
          /\ UNCHANGED <<req, cpc, sendQ, c2s, spc, scur, applied, g, outcome>>
          /\ ch' = ch \/ ch' = [ch EXCEPT ![rcur] = "meta"]
      BY <1>13 DEF RecvPayload, Deliver
    <2>2. \A k, x : Has(s2c', k, x) => Has(s2c, k, x) BY <1>t, <2>1, HasTail
    <2>3. \A d \in Calls : ch'[d] \in {"ok", "helloresp"} => ch'[d] = ch[d] BY <1>t, <2>1
    <2>4. ASSUME NEW d \in Calls PROVE KindStep(d)
      BY <2>1, <2>2, <2>3 DEF KindStep, Answered, Replying, Awaiting
    <2> QED BY <1>s, <2>4
  <1>14. CASE RecvError
    BY <1>t, <1>2, <1>14 DEF RecvError, RecvDie
  <1>15. CASE ServeControl
    <2> DEFINE f == Head(c2s)
    <2>1. /\ c2s # <<>> /\ c2s' = Tail(c2s) /\ spc = "recv"
          /\ UNCHANGED <<req, cpc, sendQ, s2c, ch, outcome>>
      BY <1>15 DEF ServeControl
    <2>a. f \in C2SFrame BY <1>t, <2>1, HeadTail
    <2>2. f.c \in Calls BY <2>a DEF C2SFrame
    <2>3. \A k, x : /\ Has(c2s', k, x) => Has(c2s, k, x)
                    /\ f.k = k /\ f.c = x => Has(c2s, k, x)
      BY <1>t, <2>1, HasTail
    <2>4. \/ f.k = "hello" /\ ServeHello(f.c)
          \/ f.k = "ack" /\ ServeAck(f.c)
          \/ f.k = "ensure" /\ ServeEnsure(f.c)
          \/ f.k = "put" /\ ServePut(f.c)
          \/ f.k = "get" /\ ServeGet(f.c)
          \/ Drain /\ UNCHANGED <<g, applied>>
      BY <1>15 DEF ServeControl
    <2> HIDE DEF f
    <2>5. \A k \in Ops : f.k = k => cpc[f.c] \notin {"idle", "enq"}
      BY <1>k, <2>2, <2>3 DEF Kind, Untouched
    <2>6. ASSUME NEW d \in Calls,
                 g'[d] # "none" => g[d] # "none" \/ Has(c2s, "get", d),
                 \/ spc' \notin {"payload", "reply"}
                 \/ d # scur'.c
                 \/ spc' = "payload" /\ Has(c2s, "put", d) /\ req[d].size > 0 /\ scur'.k = "ok"
                 \/ spc' = "reply" /\ scur'.k = "helloresp" /\ Has(c2s, "hello", d)
                 \/ spc' = "reply" /\ scur'.k = "err"
                 \/ spc' = "reply" /\ scur'.k = "ok" /\ d \in applied'
                       /\ cpc[d] \notin {"idle", "enq"},
                 d \in applied' => d \in applied \/ cpc[d] \notin {"idle", "enq"},
                 d \in applied => d \in applied'
          PROVE  KindStep(d)
      BY <2>1, <2>3, <2>6 DEF KindStep, Answered, Replying, Awaiting
    <2>7. CASE f.k = "hello" /\ ServeHello(f.c)
      <3>1. /\ spc' = "reply" /\ scur'.k = "helloresp" /\ scur'.c = f.c /\ UNCHANGED <<g, applied>>
        BY <2>7 DEF ServeHello, Reply, Frame
      <3> QED BY <1>s, <2>3, <2>6, <2>7, <3>1
    <2>8. CASE f.k = "ack" /\ ServeAck(f.c)
      <3>1. spc' = "recv" /\ UNCHANGED <<g, applied>> BY <2>1, <2>8 DEF ServeAck
      <3> QED BY <1>s, <2>6, <3>1
    <2>9. CASE f.k = "ensure" /\ ServeEnsure(f.c)
      <3>1. /\ spc' = "reply" /\ scur'.k = "ok" /\ scur'.c = f.c /\ UNCHANGED g
            /\ applied' = applied \cup {f.c} /\ cpc[f.c] \notin {"idle", "enq"}
        BY <2>5, <2>9 DEF ServeEnsure, Reply, Frame, Ops
      <3> QED BY <1>s, <2>6, <3>1
    <2>10. CASE f.k = "put" /\ ServePut(f.c)
      <3>1. /\ scur'.c = f.c /\ UNCHANGED g /\ cpc[f.c] \notin {"idle", "enq"}
            /\ Has(c2s, "put", f.c)
            /\ \/ spc' = "reply" /\ scur'.k = "err" /\ applied' = applied
               \/ spc' = "reply" /\ scur'.k = "ok" /\ applied' = applied \cup {f.c}
               \/ spc' = "payload" /\ scur'.k = "ok" /\ applied' = applied /\ req[f.c].size > 0
        BY <2>3, <2>5, <2>10 DEF ServePut, Reply, Frame, Ops
      <3> QED BY <1>s, <2>6, <3>1
    <2>11. CASE f.k = "get" /\ ServeGet(f.c)
      <3>1. /\ spc' = "recv" /\ g' = [g EXCEPT ![f.c] = "look"] /\ applied' = applied
            /\ Has(c2s, "get", f.c)
        BY <2>1, <2>3, <2>11 DEF ServeGet
      <3> QED BY <1>s, <1>t, <2>6, <3>1
    <2>12. CASE Drain /\ UNCHANGED <<g, applied>>
      BY <1>s, <2>6, <2>12 DEF Drain
    <2> QED BY <2>4, <2>7, <2>8, <2>9, <2>10, <2>11, <2>12
  <1>16. CASE ServePayload
    <2>1. /\ c2s # <<>> /\ c2s' = Tail(c2s) /\ spc = "payload"
          /\ UNCHANGED <<req, cpc, sendQ, s2c, ch, outcome, g>>
          /\ \/ applied' = applied \cup {scur.c} /\ spc' = "reply" /\ scur' = Frame("ok", scur.c)
             \/ applied' = applied /\ spc' = "drain"
      BY <1>16 DEF ServePayload, Reply, Drain
    <2>2. \A k, x : Has(c2s', k, x) => Has(c2s, k, x) BY <1>t, <2>1, HasTail
    <2>3. scur.c \in Calls /\ Awaiting(scur.c) BY <1>t, <2>1 DEF Awaiting
    <2>4. cpc[scur.c] \notin {"idle", "enq"} BY <1>k, <2>3 DEF Kind, Untouched
    <2>5. spc' = "reply" => scur'.k = "ok" /\ scur'.c = scur.c /\ scur.c \in applied'
      BY <2>1 DEF Frame
    <2>6. ASSUME NEW d \in Calls PROVE KindStep(d)
      BY <2>1, <2>2, <2>4, <2>5 DEF KindStep, Answered, Replying, Awaiting
    <2> QED BY <1>s, <2>6
  <1>17. CASE ServeReply
    <2>1. /\ UNCHANGED <<req, cpc, sendQ, c2s, ch, outcome, g, applied, scur>>
          /\ spc = "reply" /\ spc' \notin {"reply", "payload"}
          /\ s2c' = s2c \/ s2c' = Append(s2c, scur)
      BY <1>17 DEF ServeReply
    <2>2. scur \in S2CFrame BY <1>t DEF S2CFrame, RespFrameKinds
    <2>3. \A k, x : Has(Append(s2c, scur), k, x) <=> Has(s2c, k, x) \/ (scur.k = k /\ scur.c = x)
      BY <1>t, <2>2, HasAppend
    <2>4. ASSUME NEW d \in Calls PROVE KindStep(d)
      BY <2>1, <2>3 DEF KindStep, Answered, Replying, Awaiting
    <2> QED BY <1>s, <2>4
  <1>18. CASE ServeRecvError \/ ServeClose
    <2>1. /\ UNCHANGED <<req, cpc, sendQ, c2s, s2c, ch, outcome, g, applied>>
          /\ spc' \in {"drain", "closed"}
      BY <1>18 DEF ServeRecvError, ServeClose, Drain
    <2>2. ASSUME NEW d \in Calls PROVE KindStep(d)
      BY <2>1 DEF KindStep, Answered, Replying, Awaiting
    <2> QED BY <1>s, <2>2
  <1>19. ASSUME NEW c \in Calls, GetGoroutine(c) PROVE KindInv'
    <2>1. /\ UNCHANGED <<req, cpc, sendQ, c2s, ch, outcome, spc, scur, applied>>
          /\ g[c] # "none" /\ \E to : g' = [g EXCEPT ![c] = to]
          /\ s2c' = s2c \/ \E k \in {"err", "meta", "data"} : s2c' = Append(s2c, Frame(k, c))
      BY <1>19 DEF GetGoroutine, GetLookup, GetReject, GetWaitCredit, GetSendMeta,
                   GetSendPayload, GetStep
    <2>2. ASSUME NEW k \in {"err", "meta", "data"}, NEW j \in {"ok", "helloresp"}, NEW d
          PROVE  Has(Append(s2c, Frame(k, c)), j, d) => Has(s2c, j, d)
      <3>1. Frame(k, c) \in S2CFrame /\ Frame(k, c).k = k
        BY DEF Frame, S2CFrame, RespFrameKinds, RespKinds
      <3> QED BY <1>t, <3>1, HasAppend
    <2>3. ASSUME NEW j \in {"ok", "helloresp"}, NEW d PROVE Has(s2c', j, d) => Has(s2c, j, d)
      BY <2>1, <2>2
    <2>4. ASSUME NEW d \in Calls PROVE KindStep(d)
      BY <1>t, <2>1, <2>3 DEF KindStep, Answered, Replying, Awaiting
    <2> QED BY <1>s, <2>4
  <1>20. ASSUME NEW c \in Calls, Expire(c) \/ AckAbandon(c) PROVE KindInv'
    BY <1>3, <1>20 DEF Expire, AckAbandon
  <1>21. CASE RecvAckReturn \/ CloseStart \/ CloseChannel \/ CloseConn \/ CloseReturn
    BY <1>3, <1>21 DEF RecvAckReturn, CloseStart, CloseChannel, CloseConn, CloseReturn
  <1>22. CASE UNCHANGED vars BY <1>3, <1>22 DEF vars
  <1> QED
    BY <1>1, <1>4, <1>5, <1>6, <1>7, <1>8, <1>9, <1>10, <1>11, <1>12, <1>13, <1>14,
       <1>15, <1>16, <1>17, <1>18, <1>19, <1>20, <1>21, <1>22
    DEF Next, CallStep, AckStep, SendLoop, RecvLoop, CloseStep, ServeConn

\* No put_req has been sent.
LEMMA InitPut == Init => PutInv
  <1> SUFFICES ASSUME Init PROVE PutInv OBVIOUS
  <1>1. /\ \A k, c : ~Has(sendQ, k, c) /\ ~Has(c2s, k, c)
        /\ \A k : Once(sendQ, k) /\ Once(c2s, k) /\ Behind(c2s, k)
        /\ ~putStep /\ spc = "recv" /\ applied = {}
    BY HasEmpty, BehindEmpty DEF Init
  <1>2. \A c \in Calls : PutOf(c) BY <1>1 DEF PutOf, Awaiting, Sending
  <1> QED BY <1>1, <1>2 DEF PutInv

\* Steps that leave the queue, the channel and serveConn alone.
LEMMA PutFrame ==
  ASSUME PutInv, UNCHANGED <<req, sendQ, c2s, putStep, applied>>,
         spc' = "payload" => spc = "payload" /\ scur' = scur
  PROVE  PutInv'
  <1>1. \A c \in Calls : PutOf(c)' BY DEF PutInv, PutOf, Awaiting, Sending
  <1> QED BY <1>1 DEF PutInv

\* A put_req and its payload move in order from sendReqCh to serveConn.
LEMMA NextPut ==
  TypeOK /\ KindInv /\ PutInv /\ [Next]_vars => PutInv'
  <1> SUFFICES ASSUME TypeOK, KindInv, PutInv, [Next]_vars PROVE PutInv' OBVIOUS
  <1> DEFINE QFrame == [k: ReqFrameKinds \ {"data"}, c: Calls]
  <1>t. /\ DOMAIN req = Calls /\ sendQ \in Seq(QFrame) /\ c2s \in Seq(C2SFrame)
        /\ scur \in [k: RespKinds, c: Calls] /\ applied \subseteq Calls
        /\ \A c \in Calls : req[c] \in Request
    BY DEF TypeOK, CallType, LoopType, WireType, ServerType
  <1> HIDE DEF QFrame
  <1>k. \A c \in Calls : Kind(c) BY DEF KindInv
  <1>p. \A c \in Calls : PutOf(c) BY DEF PutInv
  <1>o. Once(sendQ, "put") /\ Once(c2s, "put") /\ Once(c2s, "data") /\ Behind(c2s, "put")
    BY DEF PutInv
  <1>1. ASSUME NEW c \in Calls, NEW r \in Requests, Start(c, r) PROVE PutInv'
    <2>1. /\ cpc[c] = "idle" /\ req' = [req EXCEPT ![c] = r]
          /\ UNCHANGED <<sendQ, c2s, putStep, applied, spc, scur>>
      BY <1>1 DEF Start
    <2>2. c \notin applied BY <1>k, <2>1 DEF Kind, Untouched
    <2>3. \A d \in Calls : PutOf(d)' BY <1>p, <1>t, <2>1, <2>2 DEF PutOf, Awaiting, Sending
    <2> QED BY <2>1, <2>3 DEF PutInv
  \* A frame joins sendReqCh: a put_req of a call that has left no trace, or none.
  <1>2. ASSUME NEW e \in QFrame, sendQ' = Append(sendQ, e), e.c \in Calls,
               UNCHANGED <<req, c2s, putStep, applied, spc, scur>>,
               e.k = "put" => Untouched(e.c)
        PROVE  PutInv'
    <2>1. \A x : Has(sendQ', "put", x) <=> Has(sendQ, "put", x) \/ (e.k = "put" /\ e.c = x)
      BY <1>t, <1>2, HasAppend
    <2>2. e.k = "put" => ~Has(sendQ, "put", e.c) BY <1>2 DEF Untouched, Ops
    <2>3. Once(sendQ', "put") BY <1>t, <1>o, <1>2, <2>2, OnceAppend
    <2>4. sendQ # <<>> => Head(sendQ') = Head(sendQ) /\ sendQ' # <<>> BY <1>t, <1>2
    <2>5. putStep => sendQ # <<>> BY DEF PutInv
    <2>6. ASSUME NEW d \in Calls PROVE PutOf(d)'
      <3>1. Sending(d) => Sending(d)' BY <1>2, <2>4, <2>5 DEF Sending
      <3>2. CASE e.k = "put" /\ d = e.c
        <4>1. /\ ~Has(c2s, "data", d) /\ ~Has(c2s, "put", d) /\ ~Awaiting(d) /\ d \notin applied
          BY <1>2, <3>2 DEF Untouched, Ops
        <4> QED BY <1>2, <4>1 DEF PutOf, Awaiting
      <3>3. CASE ~(e.k = "put" /\ d = e.c)
        <4>1. PutOf(d) /\ (Has(sendQ', "put", d) <=> Has(sendQ, "put", d))
          BY <1>p, <2>1, <3>3
        <4> QED BY <1>2, <3>1, <4>1 DEF PutOf, Awaiting
      <3> QED BY <3>2, <3>3
    <2> QED BY <1>2, <1>o, <2>3, <2>4, <2>6 DEF PutInv
  <1>3. ASSUME NEW c \in Calls, Enqueue(c) PROVE PutInv'
    <2>1. Frame(req[c].op, c) \in QFrame /\ Frame(req[c].op, c).c = c
      BY <1>t DEF Frame, ReqFrameKinds, QFrame, Request
    <2>2. Untouched(c) BY <1>3, <1>k DEF Kind, Enqueue
    <2> QED BY <1>2, <1>3, <2>1, <2>2 DEF Enqueue
  <1>4. ASSUME NEW c \in Calls, AckEnqueue(c) PROVE PutInv'
    <2>1. Frame("ack", c) \in QFrame /\ Frame("ack", c).c = c /\ Frame("ack", c).k = "ack"
      BY DEF Frame, ReqFrameKinds, QFrame
    <2> QED BY <1>2, <1>4, <2>1 DEF AckEnqueue
  <1>5. CASE SendControl
    <2> DEFINE f == Head(sendQ)
    <2>1. /\ sendQ # <<>> /\ c2s' = Append(c2s, f) /\ ~putStep
          /\ \/ f.k = "put" /\ putStep' /\ sendQ' = sendQ
             \/ f.k # "put" /\ ~putStep' /\ sendQ' = Tail(sendQ)
          /\ UNCHANGED <<req, spc, scur, applied>>
      BY <1>5 DEF SendControl, Report
    <2>a. f \in QFrame BY <1>t, <2>1, HeadTail
    <2>2. f \in C2SFrame /\ f.k # "data" /\ f.c \in Calls BY <2>a DEF QFrame, C2SFrame
    <2>3. \A k, x : /\ f.k = k /\ f.c = x => Has(sendQ, k, x)
                    /\ Has(Tail(sendQ), k, x) => Has(sendQ, k, x)
      BY <1>t, <2>1, HasTail
    <2>4. Once(Tail(sendQ), "put") BY <1>t, <1>o, <2>1, OnceTail
    <2>5. sendQ' = sendQ => Head(sendQ') = f OBVIOUS
    <2> HIDE DEF f
    <2>6. \A k, x : Has(c2s', k, x) <=> Has(c2s, k, x) \/ (f.k = k /\ f.c = x)
      BY <1>t, <2>1, <2>2, HasAppend
    <2>7. \A x : ~Sending(x) BY <2>1 DEF Sending
    <2>8. f.k = "put" => ~Has(c2s, "put", f.c) BY <1>p, <2>2, <2>3, <2>7 DEF PutOf
    <2>9. Once(c2s', "put") /\ Once(c2s', "data")
      BY <1>t, <1>o, <2>1, <2>2, <2>8, OnceAppend
    <2>10. /\ Behind(c2s', "put") /\ c2s' # <<>> /\ Newest(c2s') = f
           /\ c2s'[1] = IF c2s = <<>> THEN f ELSE c2s[1]
      BY <1>t, <1>o, <2>1, <2>2, BehindAppend
    <2>11. ASSUME NEW d \in Calls PROVE PutOf(d)'
      <3>1. PutOf(d) /\ ~Sending(d) BY <1>p, <2>7
      <3>2. Has(sendQ', "put", d) => Has(sendQ, "put", d) BY <2>1, <2>3
      <3>3. Has(c2s', "data", d) <=> Has(c2s, "data", d) BY <2>2, <2>6
      <3>4. CASE f.k = "put" /\ d = f.c
        <4>1. Has(sendQ, "put", d) BY <2>3, <3>4
        <4>2. Sending(d)' BY <2>1, <2>5, <3>4 DEF Sending
        <4>3. ~Awaiting(d) /\ ~(d \in applied /\ req[d].op = "put" /\ req[d].size > 0)
          BY <3>1, <4>1 DEF PutOf
        <4>4. ~Has(c2s', "data", d) BY <3>1, <3>3, <4>1 DEF PutOf
        <4> QED BY <2>1, <4>2, <4>3, <4>4 DEF PutOf, Awaiting
      <3>5. CASE ~(f.k = "put" /\ d = f.c)
        <4>1. Has(c2s', "put", d) <=> Has(c2s, "put", d) BY <2>6, <3>5
        <4> QED BY <2>1, <3>1, <3>2, <3>3, <4>1 DEF PutOf, Awaiting
      <3> QED BY <3>4, <3>5
    <2>12. Once(sendQ', "put") BY <1>o, <2>1, <2>4
    <2>13. putStep' => sendQ' # <<>> /\ Head(sendQ') = f /\ f.k = "put" BY <2>1, <2>5
    <2>14. spc' = "payload" /\ c2s'[1].k = "data" => scur'.c = c2s'[1].c
      BY <2>1, <2>2, <2>10 DEF PutInv
    <2> QED BY <2>9, <2>10, <2>11, <2>12, <2>13, <2>14 DEF PutInv
  \* The head of sendReqCh is done with: its payload sent, nothing sent, or failed.
  <1>6. ASSUME sendQ # <<>>, sendQ' = Tail(sendQ), ~putStep',
               UNCHANGED <<req, spc, scur, applied>>,
               \/ c2s' = c2s
               \/ /\ putStep /\ req[Head(sendQ).c].size > 0
                  /\ c2s' = Append(c2s, Frame("data", Head(sendQ).c))
        PROVE  PutInv'
    <2> DEFINE f == Head(sendQ)
               e == Frame("data", Head(sendQ).c)
    <2>a. f \in QFrame BY <1>t, <1>6, HeadTail
    <2>1. e \in C2SFrame /\ e.k = "data" /\ e.c = f.c /\ f.c \in Calls
      BY <2>a DEF Frame, C2SFrame, ReqFrameKinds, QFrame
    <2>2. \A k, x : /\ f.k = k /\ f.c = x => Has(sendQ, k, x)
                    /\ Has(sendQ', k, x) => Has(sendQ, k, x)
      BY <1>t, <1>6, HasTail
    <2>b. Once(Tail(sendQ), "put") /\ (f.k = "put" => ~Has(Tail(sendQ), "put", f.c))
      BY <1>t, <1>o, <1>6, OnceTail
    <2>3. Once(sendQ', "put") /\ (f.k = "put" => ~Has(sendQ', "put", f.c)) BY <1>6, <2>b
    <2>4. putStep => /\ f.k = "put"
                     /\ c2s # <<>> => Newest(c2s).k = "put" /\ Newest(c2s).c = f.c
                     /\ c2s = <<>> /\ spc = "payload" => scur.c = f.c
      BY DEF PutInv
    <2>5. \A x : Sending(x) => x = f.c /\ f.k = "put" BY <2>4 DEF Sending
    <2>6. c2s' = c2s \/ (putStep /\ req[f.c].size > 0 /\ c2s' = Append(c2s, e)) BY <1>6
    <2> HIDE DEF e, f
    <2>7. \A k, x : Has(Append(c2s, e), k, x) <=> Has(c2s, k, x) \/ (e.k = k /\ e.c = x)
      BY <1>t, <2>1, HasAppend
    <2>8. ASSUME NEW x PROVE Has(c2s', "put", x) <=> Has(c2s, "put", x)
      <3>1. Has(Append(c2s, e), "put", x) <=> Has(c2s, "put", x) BY <2>1, <2>7
      <3> QED BY <2>6, <3>1
    <2>9. \A x : Has(c2s', "data", x) =>
                    Has(c2s, "data", x) \/ (x = f.c /\ f.k = "put" /\ req[x].size > 0)
      BY <2>1, <2>4, <2>6, <2>7
    <2>10. Once(c2s', "put") /\ Once(c2s', "data")
      <3>1. CASE c2s' = c2s BY <1>o, <3>1
      <3>2. CASE putStep /\ c2s' = Append(c2s, e)
        <4>1. Has(sendQ, "put", f.c) BY <2>2, <2>4, <3>2
        <4>2. ~Has(c2s, "data", e.c) BY <1>p, <2>1, <4>1 DEF PutOf
        <4> QED BY <1>t, <1>o, <2>1, <3>2, <4>2, OnceAppend
      <3> QED BY <2>6, <3>1, <3>2
    <2>11. /\ Behind(c2s', "put")
           /\ spc' = "payload" /\ c2s' # <<>> /\ c2s'[1].k = "data" => scur'.c = c2s'[1].c
      <3>0. /\ spc = "payload" /\ c2s # <<>> /\ c2s[1].k = "data" => scur.c = c2s[1].c
            /\ spc' = spc /\ scur' = scur
        BY <1>6 DEF PutInv
      <3>1. CASE c2s' = c2s BY <1>o, <3>0, <3>1
      <3>2. CASE putStep /\ c2s' = Append(c2s, e)
        <4>1. /\ Behind(c2s', "put") /\ c2s' # <<>>
              /\ c2s'[1] = IF c2s = <<>> THEN e ELSE c2s[1]
          BY <1>t, <1>o, <2>1, <2>4, <3>2, BehindAppend
        <4> QED BY <2>1, <2>4, <3>0, <3>2, <4>1
      <3> QED BY <2>6, <3>1, <3>2
    <2>12. ASSUME NEW d \in Calls PROVE PutOf(d)'
      <3>1. PutOf(d) /\ Kind(d) BY <1>p, <1>k
      <3>2. CASE f.k = "put" /\ d = f.c
        <4>1. Has(sendQ, "put", d) /\ ~Has(sendQ', "put", d) BY <2>2, <2>3, <3>2
        <4>2. ~(d \in applied /\ req[d].op = "put" /\ req[d].size > 0)
          BY <3>1, <4>1 DEF PutOf
        <4> QED BY <1>6, <2>8, <3>1, <4>1, <4>2 DEF PutOf, Awaiting
      <3>3. CASE ~(f.k = "put" /\ d = f.c)
        <4>1. ~Sending(d) /\ (Has(c2s', "data", d) => Has(c2s, "data", d))
          BY <2>5, <2>9, <3>3
        <4> QED BY <1>6, <2>2, <2>8, <3>1, <4>1 DEF PutOf, Awaiting
      <3> QED BY <3>2, <3>3
    <2> QED BY <1>6, <2>3, <2>10, <2>11, <2>12 DEF PutInv
  <1>7. CASE SendPayload BY <1>6, <1>7 DEF SendPayload, Report
  <1>8. CASE SendFail BY <1>6, <1>8 DEF SendFail, Report
  <1>9. CASE SendLoopExit
    <2>1. /\ sendQ' = <<>> /\ ~putStep /\ UNCHANGED <<req, c2s, putStep, applied, spc, scur>>
      BY <1>9 DEF SendLoopExit
    <2>2. \A x : ~Has(sendQ', "put", x) /\ ~Sending(x) BY <2>1, HasEmpty DEF Sending
    <2>3. \A d \in Calls : PutOf(d)' BY <1>p, <2>1, <2>2 DEF PutOf, Awaiting
    <2>4. Once(sendQ', "put") BY <2>1, HasEmpty
    <2> QED BY <2>1, <2>3, <2>4 DEF PutInv
  \* serveConn takes the head of the channel and does not wait for a payload.
  <1>10. ASSUME c2s # <<>>, c2s' = Tail(c2s), UNCHANGED <<req, sendQ, putStep>>,
                spc' # "payload",
                \A d \in Calls : d \in applied' /\ req[d].op = "put" /\ req[d].size > 0 =>
                   \/ d \in applied
                   \/ /\ ~Has(sendQ, "put", d) /\ ~Has(c2s', "put", d) /\ ~Has(c2s', "data", d)
         PROVE  PutInv'
    <2>1. \A k, x : Has(c2s', k, x) => Has(c2s, k, x) BY <1>t, <1>10, HasTail
    <2>a. Once(Tail(c2s), "put") /\ Once(Tail(c2s), "data") BY <1>t, <1>o, <1>10, OnceTail
    <2>b. /\ Behind(Tail(c2s), "put")
          /\ Tail(c2s) # <<>> => Newest(Tail(c2s)) = Newest(c2s)
      BY <1>t, <1>o, <1>10, BehindTail
    <2>2. ASSUME NEW d \in Calls PROVE PutOf(d)'
      BY <1>p, <1>10, <2>1 DEF PutOf, Awaiting, Sending
    <2> QED BY <1>10, <2>a, <2>b, <2>2 DEF PutInv
  <1>11. CASE ServeControl
    <2> DEFINE f == Head(c2s)
    <2>1. c2s # <<>> /\ c2s' = Tail(c2s) /\ UNCHANGED <<req, sendQ, putStep>> /\ spc = "recv"
      BY <1>11 DEF ServeControl
    <2>a. f \in C2SFrame BY <1>t, <2>1, HeadTail
    <2>2. f.c \in Calls BY <2>a DEF C2SFrame
    <2>3. \A k : f.k = k => Has(c2s, k, f.c) BY <1>t, <2>1, HasTail
    <2>b. /\ Behind(Tail(c2s), "put")
          /\ Tail(c2s) # <<>> => Newest(Tail(c2s)) = Newest(c2s)
          /\ Tail(c2s) = <<>> => Newest(c2s) = f
          /\ Tail(c2s) # <<>> /\ Tail(c2s)[1].k = "data" => f.c = Tail(c2s)[1].c
      BY <1>t, <1>o, <2>1, BehindTail
    <2>c. /\ Once(Tail(c2s), "put") /\ Once(Tail(c2s), "data")
          /\ f.k = "put" => ~Has(Tail(c2s), "put", f.c)
      BY <1>t, <1>o, <2>1, OnceTail
    <2>d. \A k, x : Has(Tail(c2s), k, x) => Has(c2s, k, x) BY <1>t, <2>1, HasTail
    <2>4. \/ spc' # "payload" /\ applied' = applied
          \/ spc' # "payload" /\ applied' = applied \cup {f.c} /\ f.k = "ensure"
          \/ spc' # "payload" /\ applied' = applied \cup {f.c} /\ req[f.c].size = 0
          \/ spc' = "payload" /\ scur'.c = f.c /\ applied' = applied /\ f.k = "put"
      BY <1>11, <2>1 DEF ServeControl, ServeHello, ServeAck, ServeEnsure, ServePut, ServeGet,
                         Reply, Drain, Frame
    <2> HIDE DEF f
    <2>5. CASE spc' # "payload"
      <3>1. f.k = "ensure" => req[f.c].op = "ensure" BY <1>k, <2>2, <2>3 DEF Kind, Ops
      <3>2. \A d \in Calls : d \in applied' /\ req[d].op = "put" /\ req[d].size > 0 => d \in applied
        BY <2>4, <2>5, <3>1
      <3> QED BY <1>10, <2>1, <2>5, <3>2
    <2>6. CASE spc' = "payload" /\ scur'.c = f.c /\ applied' = applied /\ f.k = "put"
      <3>1. Has(c2s, "put", f.c) BY <2>3, <2>6
      <3>2. ASSUME NEW d \in Calls PROVE PutOf(d)'
        <4>1. PutOf(d) BY <1>p
        <4>2. \A k : Has(c2s', k, d) => Has(c2s, k, d) BY <2>1, <2>d
        <4>3. Sending(d)' <=> Sending(d) BY <2>1 DEF Sending
        <4>4. CASE d # f.c BY <2>1, <2>6, <4>1, <4>2, <4>3, <4>4 DEF PutOf, Awaiting
        <4>5. CASE d = f.c
          <5>1. Has(c2s, "put", d) /\ ~Has(c2s', "put", d) BY <2>1, <2>6, <2>c, <3>1, <4>5
          <5> QED BY <2>1, <2>6, <4>1, <4>2, <4>3, <5>1 DEF PutOf, Awaiting
        <4> QED BY <4>4, <4>5
      <3>3. putStep /\ c2s' = <<>> => f.c = Head(sendQ).c BY <2>1, <2>b DEF PutInv
      <3>4. putStep /\ c2s' # <<>> => Newest(c2s').k = "put" /\ Newest(c2s').c = Head(sendQ).c
        BY <2>1, <2>b DEF PutInv
      <3>5. putStep => sendQ # <<>> /\ Head(sendQ).k = "put" BY DEF PutInv
      <3> QED BY <1>o, <2>1, <2>6, <2>b, <2>c, <3>2, <3>3, <3>4, <3>5 DEF PutInv
    <2> QED BY <2>4, <2>5, <2>6
  <1>12. CASE ServePayload
    <2> DEFINE f == Head(c2s)
    <2>1. /\ c2s # <<>> /\ c2s' = Tail(c2s) /\ UNCHANGED <<req, sendQ, putStep>>
          /\ spc = "payload" /\ spc' # "payload"
          /\ applied' = applied \/ (applied' = applied \cup {scur.c} /\ f.k = "data")
      BY <1>12 DEF ServePayload, Reply, Drain
    <2>2. Head(c2s) = c2s[1] BY <1>t, <2>1, HeadTail
    <2>3. f.k = "data" => scur.c = f.c BY <2>1, <2>2 DEF PutInv
    <2>4. scur.c \in Calls /\ Awaiting(scur.c) BY <1>t, <2>1 DEF Awaiting
    <2>5. f.k = "data" => Has(c2s, "data", f.c) BY <1>t, <2>1, HasTail
    <2>6. f.k = "data" => ~Has(Tail(c2s), "data", f.c) BY <1>t, <1>o, <2>1, OnceTail
    <2>7. \A k, x : Has(Tail(c2s), k, x) => Has(c2s, k, x) BY <1>t, <2>1, HasTail
    <2> HIDE DEF f
    <2>8. f.k = "data" => /\ ~Has(sendQ, "put", scur.c) /\ ~Has(c2s', "put", scur.c)
                          /\ ~Has(c2s', "data", scur.c)
      BY <1>p, <2>1, <2>3, <2>4, <2>5, <2>6, <2>7 DEF PutOf
    <2> QED BY <1>10, <2>1, <2>8
  <1>13. CASE ServeRecvError \/ ServeReply \/ ServeClose
    BY <1>13, PutFrame DEF ServeRecvError, ServeReply, ServeClose, Drain
  <1>14. ASSUME NEW c \in Calls, CallStep(c), ~Enqueue(c) PROVE PutInv'
    BY <1>14, PutFrame DEF CallStep, SendAbandon, SendReturned, TakeResult, WaitAbandon,
                           ErrAckReturn, RegisterRelease, ReleaseReturn
  <1>15. ASSUME NEW c \in Calls,
                Expire(c) \/ AckAbandon(c) \/ Release(c) \/ CloseRelease(c) \/ GetGoroutine(c)
         PROVE  PutInv'
    BY <1>15, PutFrame DEF Expire, AckAbandon, Release, CloseRelease, GetGoroutine, GetLookup,
                           GetReject, GetWaitCredit, GetSendMeta, GetSendPayload
  <1>16. CASE RecvLoop \/ CloseStart \/ CloseReleased \/ CloseChannel \/ CloseConn \/ CloseReturn
    BY <1>16, PutFrame DEF RecvLoop, RecvControl, RecvPayload, RecvAckReturn, RecvError,
                           CloseStart, CloseReleased, CloseChannel, CloseConn, CloseReturn
  <1>17. CASE UNCHANGED vars BY <1>17, PutFrame DEF vars
  <1> QED
    BY <1>1, <1>3, <1>4, <1>5, <1>7, <1>8, <1>9, <1>11, <1>12, <1>13, <1>14, <1>15,
       <1>16, <1>17
    DEF Next, CallStep, AckStep, SendLoop, CloseStep, ServeConn

\* What is known of a connection's requests and PUTs.
PutsInv == CreditInv /\ LiveInv /\ KindInv /\ PutInv

\* The two messages of a PUT stay in order in every connection.
THEOREM PutsInvariant == Spec => []PutsInv
  <1>1. Init => KindInv /\ PutInv BY InitKind, InitPut
  <1>2. CreditInv /\ LiveInv /\ KindInv /\ PutInv /\ [Next]_vars => KindInv' /\ PutInv'
    BY NextKind, NextPut DEF CreditInv
  <1>3. Spec => [](KindInv /\ PutInv)
    BY <1>1, <1>2, CreditInvariant, LiveInvariant, PTL DEF Spec
  <1> QED BY <1>3, CreditInvariant, LiveInvariant, PTL DEF PutsInv

\* When PutZeroCopy or EnsureBucket returns nil the server has applied the
\* request, and has consumed the payload of that PUT.
THEOREM OkIsApplied == Spec => []OkMeansApplied
  <1>1. PutsInv => OkMeansApplied
    <2> SUFFICES ASSUME PutsInv, NEW c \in Calls, outcome[c] = "ok",
                        req[c].op \in {"put", "ensure"}
                 PROVE  c \in applied /\ ~\E i \in 1..Len(c2s) : c2s[i] = Frame("data", c)
      BY DEF OkMeansApplied
    <2>1. Kind(c) /\ PutOf(c) BY DEF PutsInv, KindInv, PutInv
    <2>2. c \in applied BY <2>1 DEF Kind
    <2>3. ~Has(c2s, "data", c) BY <2>1, <2>2 DEF Kind, PutOf
    <2> QED BY <2>2, <2>3 DEF Has, Frame
  <1> QED BY <1>1, PutsInvariant, PTL

-----------------------------------------------------------------------------
(***************************************************************************)
(* Both streams in step.  PayloadInv says that a payload follows its       *)
(* get_meta; as long as no payload is left out the converse holds too:     *)
(* what follows a get_meta is a payload, and recvLoop expects one exactly  *)
(* when one is next.  A payload is left out when the object is empty, when *)
(* it does not fit the client's region (possible for max = 0 only), or     *)
(* when its send fails.                                                    *)
(***************************************************************************)
\* No deadline of the server passes, and a GET that switches the size check off
\* asks for an object that fits.
Steady ==
    /\ Faults \cap {"send", "data", "idle"} = {}
    /\ \A r \in Requests : r.op = "get" /\ r.max = 0 => r.off + r.size <= SharedLen

Clean == \A c \in Calls : req[c].op # "put" /\ (req[c].op = "get" => req[c].size # 0)

Paired(s) == \A i, j \in 1..Len(s) : j = i + 1 /\ s[i].k = "meta" => s[j].k = "data"

Synced ==
    /\ spc \notin {"drain", "closed"}
    /\ rpc # "dead"
    /\ Paired(s2c)
    /\ s2c # <<>> => (s2c[1].k = "data" <=> rpc = "pay")
    /\ s2c # <<>> /\ Newest(s2c).k = "meta" => g[Newest(s2c).c] = "pay"
    /\ s2c = <<>> /\ rpc = "pay" => g[rcur] = "pay"
    /\ \A c \in Calls : g[c] = "pay" /\ s2c = <<>> => rpc = "pay"

Sized(c) ==
    /\ req[c].op = "get" => ValidRef(req[c]) /\ req[c] \in Requests
    /\ g[c] \in {"credit", "meta", "pay"} =>
          req[c].size >= 0 /\ (req[c].max > 0 => req[c].size <= req[c].max)

SyncInv ==
    /\ \A c \in Calls : Sized(c)
    /\ ~sUp => spc = "closed"
    /\ Clean /\ cUp => Synced

\* Sending keeps every get_meta followed by its payload when nothing but a payload
\* is sent after a get_meta.
LEMMA PairedAppend ==
  ASSUME NEW S, NEW s \in Seq(S), NEW e \in S, Paired(s),
         s # <<>> /\ Newest(s).k = "meta" => e.k = "data"
  PROVE  Paired(Append(s, e))
  <1>1. Len(Append(s, e)) = Len(s) + 1 /\ Len(s) \in Nat OBVIOUS
  <1>2. Append(s, e)[Len(s) + 1] = e OBVIOUS
  <1>3. \A i \in 1..Len(s) : Append(s, e)[i] = s[i] OBVIOUS
  <1>4. ASSUME NEW i \in 1..Len(Append(s, e)), NEW j \in 1..Len(Append(s, e)),
               j = i + 1, Append(s, e)[i].k = "meta"
        PROVE  Append(s, e)[j].k = "data"
    <2>1. i \in 1..Len(s) BY <1>1, <1>4
    <2>2. CASE j \in 1..Len(s) BY <1>3, <1>4, <2>1, <2>2 DEF Paired
    <2>3. CASE j \notin 1..Len(s)
      <3>1. j = Len(s) + 1 /\ i = Len(s) /\ Len(s) # 0 BY <1>1, <1>4, <2>1, <2>3
      <3>2. s # <<>> BY <3>1
      <3>3. Append(s, e)[j] = e /\ Append(s, e)[i] = Newest(s)
        BY <1>2, <1>3, <2>1, <3>1 DEF Newest
      <3> QED BY <1>4, <3>2, <3>3
    <2> QED BY <2>2, <2>3
  <1> QED BY <1>4 DEF Paired

\* Receiving the head keeps it so, and behind a get_meta a payload is next.
LEMMA PairedTail ==
  ASSUME NEW S, NEW s \in Seq(S), s # <<>>, Paired(s)
  PROVE  /\ Paired(Tail(s))
         /\ Tail(s) # <<>> /\ Head(s).k = "meta" => Tail(s)[1].k = "data"
  <1> USE HeadTail
  <1>0. /\ Len(s) \in Nat \ {0} /\ Len(Tail(s)) = Len(s) - 1 /\ Tail(s) \in Seq(S)
        /\ Head(s) = s[1]
    OBVIOUS
  <1>1. \A i \in 1..Len(Tail(s)) : Tail(s)[i] = s[i + 1] OBVIOUS
  <1>2. ASSUME NEW i \in 1..Len(Tail(s)), NEW j \in 1..Len(Tail(s)),
               j = i + 1, Tail(s)[i].k = "meta"
        PROVE  Tail(s)[j].k = "data"
    <2>1. i + 1 \in 1..Len(s) /\ j + 1 \in 1..Len(s) /\ j + 1 = (i + 1) + 1 BY <1>0, <1>2
    <2>2. Tail(s)[i] = s[i + 1] /\ Tail(s)[j] = s[j + 1] BY <1>1
    <2> QED BY <1>2, <2>1, <2>2 DEF Paired
  <1>3. Tail(s) # <<>> /\ Head(s).k = "meta" => Tail(s)[1].k = "data"
    <2>1. Tail(s) # <<>> => 1 \in 1..Len(s) /\ 2 \in 1..Len(s) /\ 2 = 1 + 1 BY <1>0
    <2>2. Tail(s) # <<>> => Tail(s)[1] = s[2] BY <1>0, <1>1
    <2> QED BY <1>0, <2>1, <2>2 DEF Paired
  <1> QED BY <1>2, <1>3 DEF Paired

\* Nothing is in flight and both loops wait for a control message.
LEMMA InitSync == Init => SyncInv
  <1> SUFFICES ASSUME Init PROVE SyncInv OBVIOUS
  <1>1. Paired(s2c) BY DEF Init, Paired
  <1>2. \A c \in Calls : Sized(c) BY DEF Init, Sized, HelloRequest
  <1> QED BY <1>1, <1>2 DEF Init, SyncInv, Synced

\* The application's requests are validated before they are sent, and the server
\* looks at the sizes before it takes a credit.
LEMMA NextSized ==
  ASSUME TypeOK, KindInv, \A c \in Calls : Sized(c), [Next]_vars, NEW d \in Calls
  PROVE  Sized(d)'
  <1>t. DOMAIN req = Calls /\ DOMAIN g = Calls BY DEF TypeOK, CallType, ServerType
  <1>1. ASSUME NEW c \in Calls, NEW r \in Requests, Start(c, r) PROVE Sized(d)'
    <2>1. /\ cpc[c] = "idle" /\ ValidRef(r) /\ req' = [req EXCEPT ![c] = r] /\ UNCHANGED g
      BY <1>1 DEF Start
    <2>2. g[c] = "none" BY <2>1 DEF KindInv, Kind, Untouched
    <2> QED BY <1>t, <2>1, <2>2 DEF Sized, ValidRef
  <1>2. CASE req' = req /\ (g'[d] \in {"credit", "meta", "pay"} =>
                               g[d] \in {"credit", "meta", "pay"})
    BY <1>2 DEF Sized, ValidRef
  <1>3. ASSUME NEW c \in Calls, GetLookup(c) PROVE Sized(d)'
    <2> DEFINE reject == req[c].size < 0 \/ (req[c].max > 0 /\ req[c].size > req[c].max)
    <2>1. req' = req /\ g' = [g EXCEPT ![c] = IF reject THEN "err" ELSE "credit"]
      BY <1>3 DEF GetLookup, GetStep
    <2>2. CASE d = c /\ ~reject
      <3>1. req[c].size \in Int /\ req[c].max \in Nat BY DEF TypeOK, CallType, Request
      <3>2. req[c].size >= 0 /\ (req[c].max > 0 => req[c].size <= req[c].max) BY <2>2, <3>1
      <3> QED BY <2>1, <2>2, <3>2 DEF Sized, ValidRef
    <2>3. CASE d # c \/ reject BY <1>t, <1>2, <2>1, <2>3
    <2> QED BY <2>2, <2>3
  <1>4. ASSUME NEW c \in Calls, GetGoroutine(c), ~GetLookup(c) PROVE Sized(d)'
    <2>1. /\ req' = req /\ g[c] \in {"err", "credit", "meta", "pay"}
          /\ \/ g' = [g EXCEPT ![c] = "done"]
             \/ g[c] # "err" /\ \E to \in {"meta", "pay"} : g' = [g EXCEPT ![c] = to]
      BY <1>4 DEF GetGoroutine, GetReject, GetWaitCredit, GetSendMeta, GetSendPayload, GetStep
    <2> QED BY <1>t, <1>2, <2>1
  <1>5. CASE ServeControl
    <2>1. req' = req /\ (g' = g \/ \E c : g' = [g EXCEPT ![c] = "look"])
      BY <1>5 DEF ServeControl, ServeHello, ServeAck, ServeEnsure, ServePut, ServeGet
    <2> QED BY <1>t, <1>2, <2>1
  <1>6. ASSUME NEW c \in Calls, CallStep(c) \/ AckStep(c) \/ Expire(c) \/ Release(c)
        PROVE  Sized(d)'
    BY <1>2, <1>6 DEF CallStep, AckStep, Expire, Release, Enqueue, SendAbandon, SendReturned,
                      TakeResult, WaitAbandon, ErrAckReturn, RegisterRelease, ReleaseReturn,
                      AckEnqueue, AckAbandon
  <1>7. CASE SendLoop \/ RecvLoop
    BY <1>2, <1>7 DEF SendLoop, RecvLoop, SendControl, SendPayload, SendFail, SendLoopExit,
                      RecvControl, RecvPayload, RecvAckReturn, RecvError
  <1>8. CASE CloseStart \/ CloseStep
    BY <1>2, <1>8 DEF CloseStart, CloseStep, CloseRelease, CloseReleased, CloseChannel,
                      CloseConn, CloseReturn
  <1>9. CASE ServePayload \/ ServeRecvError \/ ServeReply \/ ServeClose
    BY <1>2, <1>9 DEF ServePayload, ServeRecvError, ServeReply, ServeClose
  <1>10. CASE UNCHANGED vars BY <1>2, <1>10 DEF vars
  <1> QED
    BY <1>1, <1>3, <1>4, <1>5, <1>6, <1>7, <1>8, <1>9, <1>10 DEF Next, ServeConn

\* Neither stream falls out of step while both endpoints are open.
LEMMA NextSynced ==
  ASSUME Steady, TypeOK, ReqInv, TokenInv, PayloadInv, KindInv, SyncInv, Clean, cUp, cUp',
         [Next]_vars
  PROVE  Synced'
  <1>t. /\ DOMAIN g = Calls /\ s2c \in Seq(S2CFrame) /\ c2s \in Seq(C2SFrame)
        /\ scur \in [k: RespKinds, c: Calls]
    BY DEF TypeOK, WireType, ServerType
  <1>s. Synced /\ sUp /\ (\A c \in Calls : Sized(c)) BY DEF SyncInv, Synced, TypeOK, ServerType
  <1>k. \A c \in Calls : Kind(c) /\ req[c].op # "put" BY DEF KindInv, Clean
  <1>q. Faults \cap {"send", "data", "idle"} = {} BY DEF Steady
  <1>n. (s2c # <<>> => Newest(s2c).c \in Calls) /\ (rpc = "pay" => rcur \in Calls)
    <2>1. ASSUME s2c # <<>> PROVE Newest(s2c) \in S2CFrame
      <3>1. Len(s2c) \in 1..Len(s2c) BY <1>t, <2>1
      <3> QED BY <1>t, <3>1 DEF Newest
    <2> QED BY <2>1 DEF TokenInv, S2CFrame
  <1>1. CASE UNCHANGED <<spc, rpc, rcur, s2c, g>> BY <1>s, <1>1 DEF Synced
  <1>2. ASSUME NEW c \in Calls, NEW r \in Requests, Start(c, r) PROVE Synced'
    BY <1>1, <1>2 DEF Start
  <1>3. ASSUME NEW c \in Calls, CallStep(c) \/ AckStep(c) \/ Expire(c) \/ Release(c)
        PROVE  Synced'
    BY <1>1, <1>3 DEF CallStep, AckStep, Expire, Release, Enqueue, SendAbandon, SendReturned,
                      TakeResult, WaitAbandon, ErrAckReturn, RegisterRelease, ReleaseReturn,
                      AckEnqueue, AckAbandon
  <1>4. CASE SendLoop
    BY <1>1, <1>4 DEF SendLoop, SendControl, SendPayload, SendFail, SendLoopExit
  <1>5. CASE CloseStart \/ CloseStep
    BY <1>1, <1>5 DEF CloseStart, CloseStep, CloseRelease, CloseReleased, CloseChannel,
                      CloseConn, CloseReturn
  \* A frame is received.
  <1>6. ASSUME s2c # <<>>, s2c' = Tail(s2c), UNCHANGED <<spc, g>>, rpc' # "dead",
               \/ Head(s2c).k = "meta" /\ rpc' = "pay" /\ rcur' = Head(s2c).c
               \/ Head(s2c).k # "meta" /\ rpc' # "pay"
        PROVE  Synced'
    <2>1. /\ s2c' # <<>> => Newest(s2c') = Newest(s2c)
          /\ s2c' = <<>> => Newest(s2c) = Head(s2c)
          /\ s2c' # <<>> /\ s2c'[1].k = "data" => Head(s2c).k = "meta"
      BY <1>t, <1>6, BehindTail DEF PayloadInv
    <2>2. Paired(s2c') /\ (s2c' # <<>> /\ Head(s2c).k = "meta" => s2c'[1].k = "data")
      BY <1>s, <1>t, <1>6, PairedTail DEF Synced
    <2>3. s2c' # <<>> => (s2c'[1].k = "data" <=> rpc' = "pay") BY <1>6, <2>1, <2>2
    <2>4. s2c' # <<>> /\ Newest(s2c').k = "meta" => g'[Newest(s2c').c] = "pay"
      BY <1>s, <1>6, <2>1 DEF Synced
    <2>5. s2c' = <<>> /\ rpc' = "pay" => g'[rcur'] = "pay" BY <1>s, <1>6, <2>1 DEF Synced
    <2>6. ASSUME NEW c \in Calls, g'[c] = "pay", s2c' = <<>> PROVE rpc' = "pay"
      <3>1. Newest(s2c).k = "meta" BY <1>6, <2>6 DEF PayloadInv
      <3> QED BY <1>6, <2>1, <2>6, <3>1
    <2> QED BY <1>s, <1>6, <2>2, <2>3, <2>4, <2>5, <2>6 DEF Synced
  <1>7. CASE RecvControl
    <2>1. /\ s2c # <<>> /\ s2c' = Tail(s2c) /\ UNCHANGED <<spc, g>> /\ rpc = "ctl"
          /\ \/ Head(s2c).k \in RespKinds /\ rpc' = rpc
             \/ Head(s2c).k = "meta" /\ rpc' = "pay" /\ rcur' = Head(s2c).c
             \/ Head(s2c).k = "data"
      BY <1>7 DEF RecvControl
    <2>2. Head(s2c) = s2c[1] BY <1>t, <2>1, HeadTail
    <2>3. Head(s2c).k # "data" BY <1>s, <2>1, <2>2 DEF Synced
    <2> QED BY <1>6, <2>1, <2>3 DEF RespKinds
  <1>8. CASE RecvPayload
    <2>1. /\ s2c # <<>> /\ s2c' = Tail(s2c) /\ UNCHANGED <<spc, g>> /\ rpc = "pay"
          /\ rpc' \in {"ctl", "ack"}
      BY <1>8 DEF RecvPayload
    <2>2. Head(s2c) = s2c[1] BY <1>t, <2>1, HeadTail
    <2>3. Head(s2c).k = "data" BY <1>s, <2>1, <2>2 DEF Synced
    <2> QED BY <1>6, <2>1, <2>3
  <1>9. CASE RecvAckReturn
    BY <1>s, <1>9 DEF RecvAckReturn, Synced
  <1>10. CASE RecvError BY <1>s, <1>10 DEF RecvError
  <1>11. CASE ServeControl
    <2> DEFINE f == Head(c2s)
    <2>1. c2s # <<>> /\ UNCHANGED <<s2c, rpc, rcur>> /\ spc = "recv" BY <1>11 DEF ServeControl
    <2>a. f \in C2SFrame BY <1>t, <2>1, HeadTail
    <2>2. f.c \in Calls BY <2>a DEF C2SFrame
    <2>3. \A k : f.k = k => Has(c2s, k, f.c) BY <1>t, <2>1, HasTail
    <2>4. f.k # "data" /\ f.k # "put" BY <1>k, <2>2, <2>3 DEF Kind, Ops
    <2>5. f.k = "get" => g[f.c] = "none" BY <2>2, <2>3 DEF ReqInv
    <2>6. /\ spc' \in {"recv", "reply"}
          /\ g' = g \/ (f.k = "get" /\ g' = [g EXCEPT ![f.c] = "look"])
      BY <1>11, <2>1, <2>4
      DEF ServeControl, ServeHello, ServeAck, ServeEnsure, ServeGet, Reply
    <2> HIDE DEF f
    <2>7. \A c \in Calls : g[c] = "pay" => g'[c] = "pay" BY <1>t, <2>2, <2>5, <2>6
    <2>8. \A c \in Calls : g'[c] = "pay" => g[c] = "pay" BY <1>t, <2>6
    <2> QED BY <1>s, <1>n, <2>1, <2>6, <2>7, <2>8 DEF Synced
  <1>12. CASE ServePayload
    <2>1. Awaiting(scur.c) /\ scur.c \in Calls BY <1>t, <1>12 DEF ServePayload, Awaiting
    <2> QED BY <1>k, <2>1 DEF Kind
  <1>13. CASE ServeRecvError BY <1>q, <1>13 DEF ServeRecvError
  <1>14. CASE ServeClose BY <1>s, <1>14 DEF ServeClose, Synced
  \* A frame other than a payload is sent, with sendMu free.
  <1>15. ASSUME NEW e \in S2CFrame, s2c' = Append(s2c, e), sendMuFree, e.k # "data",
                UNCHANGED <<rpc, rcur>>, spc' \notin {"drain", "closed"},
                e.k = "meta" => g'[e.c] = "pay"
         PROVE  Synced'
    <2>1. s2c # <<>> => Newest(s2c).k # "meta"
      BY <1>s, <1>n, <1>15 DEF Synced, sendMuFree
    <2>2. Paired(s2c') BY <1>s, <1>t, <1>15, <2>1, PairedAppend DEF Synced
    <2>3. /\ s2c' # <<>> /\ Newest(s2c') = e
          /\ s2c'[1] = IF s2c = <<>> THEN e ELSE s2c[1]
      BY <1>t, <1>15, BehindAppend DEF PayloadInv
    <2>4. s2c = <<>> => rpc # "pay" BY <1>s, <1>n, <1>15 DEF Synced, sendMuFree
    <2> QED BY <1>s, <1>15, <2>2, <2>3, <2>4 DEF Synced
  <1>16. CASE ServeReply
    <2>1. CanSend /\ s2c' = Append(s2c, scur) /\ spc' = "recv" /\ UNCHANGED <<rpc, rcur>>
      BY <1>q, <1>16 DEF ServeReply, SendRefused
    <2>2. scur \in S2CFrame /\ scur.k # "data" /\ scur.k # "meta"
      BY <1>t DEF S2CFrame, RespFrameKinds, RespKinds
    <2> QED BY <1>15, <2>1, <2>2 DEF CanSend
  <1>17. ASSUME NEW c \in Calls, GetReject(c) \/ GetSendMeta(c) PROVE Synced'
    <2>1. /\ CanSend /\ UNCHANGED <<rpc, rcur, spc>>
          /\ \/ s2c' = Append(s2c, Frame("err", c))
             \/ s2c' = Append(s2c, Frame("meta", c)) /\ g' = [g EXCEPT ![c] = "pay"]
      BY <1>q, <1>17 DEF GetReject, GetSendMeta, GetStep, SendRefused
    <2>2. \A k \in {"err", "meta"} : Frame(k, c) \in S2CFrame /\ Frame(k, c).k = k /\ Frame(k, c).c = c
      BY DEF Frame, S2CFrame, RespFrameKinds, RespKinds
    <2>3. spc' \notin {"drain", "closed"} BY <1>s, <2>1 DEF Synced
    <2>4. CASE s2c' = Append(s2c, Frame("err", c)) BY <1>15, <2>1, <2>2, <2>3, <2>4 DEF CanSend
    <2>5. CASE s2c' = Append(s2c, Frame("meta", c)) /\ g' = [g EXCEPT ![c] = "pay"]
      BY <1>t, <1>15, <2>1, <2>2, <2>3, <2>5 DEF CanSend
    <2> QED BY <2>1, <2>4, <2>5
  <1>18. ASSUME NEW c \in Calls, GetSendPayload(c) PROVE Synced'
    <2> DEFINE e == Frame("data", c)
    <2>1. g[c] = "pay" /\ g' = [g EXCEPT ![c] = "done"] /\ UNCHANGED <<rpc, rcur, spc>>
      BY <1>18 DEF GetSendPayload, GetStep
    <2>2. Kind(c) /\ Sized(c) BY <1>k, <1>s
    <2>3. /\ req[c].op = "get" /\ req[c].size >= 0 /\ req[c].size # 0
          /\ req[c].max > 0 => req[c].size <= req[c].max
          /\ ValidRef(req[c]) /\ req[c] \in Requests
      BY <2>1, <2>2 DEF Kind, Sized, Clean
    <2>4. req[c].size \in Int /\ req[c].max \in Nat /\ req[c].off \in Nat /\ SharedLen \in Nat
      BY BoundsAssumption DEF TypeOK, CallType, Request
    <2>5. req[c].off + req[c].max <= SharedLen BY <2>3 DEF ValidRef
    <2>6. req[c].max = 0 => req[c].off + req[c].size <= SharedLen BY <2>3 DEF Steady
    <2>7. req[c].size > 0 /\ req[c].off + req[c].size <= SharedLen
      BY <2>3, <2>4, <2>5, <2>6
    <2>8. s2c' = Append(s2c, e)
      <3>1. ~(req[c].off + req[c].size > SharedLen) BY <2>4, <2>7
      <3> QED BY <1>q, <1>18, <2>3, <3>1 DEF GetSendPayload
    <2>9. e \in S2CFrame /\ e.k = "data" /\ e.c = c BY DEF Frame, S2CFrame, RespFrameKinds
    <2> HIDE DEF e
    <2>10. Behind(s2c, "meta") /\ (s2c # <<>> => Newest(s2c).k = "meta" /\ Newest(s2c).c = e.c)
      BY <2>1, <2>9 DEF PayloadInv
    <2>11. /\ s2c' # <<>> /\ Newest(s2c') = e
           /\ s2c'[1] = IF s2c = <<>> THEN e ELSE s2c[1]
      BY <1>t, <2>8, <2>9, <2>10, BehindAppend
    <2>12. Paired(s2c') BY <1>s, <1>t, <2>8, <2>9, PairedAppend DEF Synced
    <2>13. s2c = <<>> => rpc = "pay" BY <1>s, <2>1 DEF Synced
    <2> QED BY <1>s, <2>1, <2>9, <2>11, <2>12, <2>13 DEF Synced
  <1>19. ASSUME NEW c \in Calls, GetLookup(c) \/ GetWaitCredit(c) PROVE Synced'
    <2>1. /\ UNCHANGED <<s2c, rpc, rcur, spc>> /\ g[c] # "pay"
          /\ \E to \in {"err", "credit", "meta", "done"} : g' = [g EXCEPT ![c] = to]
      BY <1>19 DEF GetLookup, GetWaitCredit, GetStep
    <2>2. \A d \in Calls : g[d] = "pay" <=> g'[d] = "pay" BY <1>t, <2>1
    <2> QED BY <1>s, <1>n, <2>1, <2>2 DEF Synced
  <1>20. CASE UNCHANGED vars BY <1>1, <1>20 DEF vars
  <1> QED
    BY <1>2, <1>3, <1>4, <1>5, <1>7, <1>8, <1>9, <1>10, <1>11, <1>12, <1>13, <1>14,
       <1>16, <1>17, <1>18, <1>19, <1>20
    DEF Next, RecvLoop, ServeConn, GetGoroutine

\* Each step keeps the streams in step, or closes an endpoint, or is a request of
\* the kind that may take them apart.
LEMMA NextSync ==
  ASSUME Steady, TypeOK, ReqInv, TokenInv, PayloadInv, KindInv, SyncInv, [Next]_vars
  PROVE  SyncInv'
  <1>1. \A c \in Calls : Sized(c)' BY NextSized DEF SyncInv
  <1>2. \/ UNCHANGED <<req, cUp, sUp, spc>>
        \/ ServeConn /\ UNCHANGED <<req, cUp>>
        \/ ~cUp' /\ UNCHANGED <<req, sUp, spc>>
        \/ \E c \in Calls, r \in Requests : Start(c, r) /\ UNCHANGED <<cUp, sUp, spc>>
    <2>1. ASSUME NEW c \in Calls, NEW r \in Requests, Start(c, r) PROVE UNCHANGED <<cUp, sUp, spc>>
      BY <2>1 DEF Start
    <2>2. ASSUME NEW c \in Calls, CallStep(c) \/ AckStep(c) \/ Expire(c) \/ Release(c)
          PROVE  UNCHANGED <<req, cUp, sUp, spc>>
      BY <2>2 DEF CallStep, AckStep, Expire, Release, Enqueue, SendAbandon, SendReturned,
                  TakeResult, WaitAbandon, ErrAckReturn, RegisterRelease, ReleaseReturn,
                  AckEnqueue, AckAbandon
    <2>3. ASSUME SendLoop \/ RecvLoop PROVE UNCHANGED <<req, cUp, sUp, spc>>
      BY <2>3 DEF SendLoop, RecvLoop, SendControl, SendPayload, SendFail, SendLoopExit,
                  RecvControl, RecvPayload, RecvAckReturn, RecvError
    <2>4. ASSUME CloseStart \/ CloseStep
          PROVE  UNCHANGED <<req, sUp, spc>> /\ (cUp' = cUp \/ ~cUp')
      BY <2>4 DEF CloseStart, CloseStep, CloseRelease, CloseReleased, CloseChannel,
                  CloseConn, CloseReturn
    <2>5. ASSUME NEW c \in Calls, GetGoroutine(c) PROVE UNCHANGED <<req, cUp, sUp, spc>>
      BY <2>5 DEF GetGoroutine, GetLookup, GetReject, GetWaitCredit, GetSendMeta,
                  GetSendPayload
    <2>6. ASSUME ServeConn PROVE UNCHANGED <<req, cUp>>
      BY <2>6 DEF ServeConn, ServeControl, ServePayload, ServeRecvError, ServeReply, ServeClose
    <2>7. CASE UNCHANGED vars BY <2>7 DEF vars
    <2> QED BY <2>1, <2>2, <2>3, <2>4, <2>5, <2>6, <2>7 DEF Next
  <1>3. ~sUp' => spc' = "closed"
    <2>1. ASSUME ServeConn, ~sUp' PROVE spc' = "closed"
      BY <2>1 DEF ServeConn, ServeControl, ServePayload, ServeRecvError, ServeReply,
                  ServeClose, SyncInv
    <2> QED BY <1>2, <2>1 DEF SyncInv
  <1>4. (cUp' => cUp) /\ (Clean' => Clean)
    <2>1. CASE req' = req BY <1>2, <2>1 DEF Clean, Start
    <2>2. ASSUME NEW c \in Calls, NEW r \in Requests, Start(c, r) PROVE (Clean' => Clean) /\ cUp' = cUp
      <3>1. req[c].op = "hello" /\ req' = [req EXCEPT ![c] = r] /\ cUp' = cUp
        BY <2>2 DEF Start, KindInv, Kind
      <3> QED BY <3>1 DEF Clean, TypeOK, CallType
    <2> QED BY <1>2, <2>1, <2>2
  <1>5. Clean' /\ cUp' => Synced' BY <1>4, NextSynced
  <1> QED BY <1>1, <1>3, <1>5 DEF SyncInv

\* As long as nobody asks for a PUT or for an empty object, and the server's sends
\* do not fail, neither receive loop loses its place in the stream, however many
\* calls are given up and whenever.
THEOREM StreamsInSync == ASSUME Steady PROVE Spec => []StreamInSync
  <1>1. PutsInv /\ PayloadInv /\ SyncInv /\ [Next]_vars => PayloadInv' /\ SyncInv'
    BY NextPayload, NextSync DEF PutsInv, CreditInv
  <1>2. Init => PayloadInv /\ SyncInv BY InitPayload, InitSync
  <1>3. SyncInv => StreamInSync
    <2> SUFFICES ASSUME SyncInv, Clean, cUp PROVE (rpc = "dead" => ~sUp) /\ ~zcClosed
      BY DEF StreamInSync, Clean
    <2> QED BY DEF SyncInv, Synced, zcClosed
  <1> QED BY <1>1, <1>2, <1>3, PutsInvariant, PTL DEF Spec

=============================================================================
