-------------------------- MODULE VerbsRecvProofs --------------------------
(***************************************************************************)
(* Theorems about VerbsRecv, for any number of slots and messages and any  *)
(* faults, up to the refinement of MessageChannel.  The accounting of the  *)
(* slots and the types need nothing; that a borrowed frame stays what it   *)
(* was, and the refinement, need ~Ahead; that no view outlives the         *)
(* connection needs a Close that waits for the loop; that messages arrive  *)
(* in the order they were sent needs ranges that are free when used.       *)
(***************************************************************************)
EXTENDS VerbsRecv, TLAPS

\* The ring of notify slots.  A receive waits only after it has given back the
\* slot of the message before, so recording the next one forgets no slot.
RingInv ==
    /\ rq \in Seq(Slots) /\ cq \in Seq(Slots) /\ last \in Slots \cup {NoSlot}
    /\ rpc = "wait" => last = NoSlot
    /\ SlotOnce

\* SlotOnce of queues r and c, last slot l and a receiver at p.
OnceIn(r, c, l, p) ==
    /\ Distinct(r) /\ Distinct(c)
    /\ In(r) \cap In(c) = {}
    /\ l \notin In(r) \cup In(c)
    /\ p # "dead" => Slots \subseteq In(r) \cup In(c) \cup {l}

\* What a step may do to the ring: leave it alone, give the last slot back, let
\* the adapter fill a slot, take a completion, lose one and end.
Mortal == rpc = "dead" => rpc' = "dead"
Keep == UNCHANGED <<rq, cq, last>> /\ (rpc' = "wait" => rpc = "wait") /\ Mortal
Repost == ReleaseLast /\ UNCHANGED cq /\ Mortal
Lose == /\ cq # <<>> /\ cq' = Tail(cq) /\ rpc' = "dead" /\ UNCHANGED <<rq, last>>
Fill == /\ rq # <<>> /\ cq' = Append(cq, Head(rq)) /\ rq' = Tail(rq)
        /\ UNCHANGED <<last, rpc>>
Take == /\ cq # <<>> /\ cq' = Tail(cq) /\ last' = Head(cq)
        /\ rpc = "wait" /\ rpc' = "parse" /\ UNCHANGED rq

-----------------------------------------------------------------------------
(***************************************************************************)
(* Queues of slots.                                                        *)
(***************************************************************************)
LEMMA NoSlotIsNone == NoSlot \notin Slots
BY RecvAssumption DEF NoSlot, Slots

\* Appending adds one element.
LEMMA AppendSlot ==
    ASSUME NEW S, NEW q \in Seq(S), NEW x \in S
    PROVE  /\ Append(q, x) \in Seq(S)
           /\ In(Append(q, x)) = In(q) \cup {x}
           /\ Distinct(q) /\ x \notin In(q) => Distinct(Append(q, x))
<1> DEFINE r == Append(q, x)
<1>1. /\ r \in Seq(S) /\ Len(r) = Len(q) + 1 /\ Len(q) \in Nat
      /\ \A i \in 1..Len(q) : r[i] = q[i]
      /\ r[Len(q) + 1] = x
    OBVIOUS
<1> HIDE DEF r
<1>2. In(r) = In(q) \cup {x}
  <2>1. ASSUME NEW y \in In(r) PROVE y \in In(q) \cup {x}
    <3>1. PICK i \in 1..Len(r) : y = r[i]
        BY <2>1 DEF In
    <3>2. CASE i = Len(q) + 1
        BY <1>1, <3>1, <3>2
    <3>3. CASE i \in 1..Len(q)
        BY <1>1, <3>1, <3>3 DEF In
    <3>. QED BY <1>1, <3>2, <3>3
  <2>2. ASSUME NEW y \in In(q) PROVE y \in In(r)
    <3>1. PICK i \in 1..Len(q) : y = q[i]
        BY <2>2 DEF In
    <3>2. i \in 1..Len(r) /\ y = r[i]
        BY <1>1, <3>1
    <3>. QED BY <3>2 DEF In
  <2>3. x \in In(r)
    <3>1. Len(q) + 1 \in 1..Len(r)
        BY <1>1
    <3>. QED BY <1>1, <3>1 DEF In
  <2>. QED BY <2>1, <2>2, <2>3
<1>3. ASSUME Distinct(q), x \notin In(q) PROVE Distinct(r)
  <2> SUFFICES ASSUME NEW i \in 1..Len(r), NEW j \in 1..Len(r), r[i] = r[j] PROVE i = j
      BY DEF Distinct
  <2>1. \A k \in 1..Len(q) : r[k] # x
      BY <1>1, <1>3 DEF In
  <2>2. CASE i = Len(q) + 1
      BY <1>1, <2>1, <2>2
  <2>3. CASE j = Len(q) + 1
      BY <1>1, <2>1, <2>3
  <2>4. CASE i \in 1..Len(q) /\ j \in 1..Len(q)
      BY <1>1, <1>3, <2>4 DEF Distinct
  <2>. QED BY <1>1, <2>2, <2>3, <2>4
<1>. QED BY <1>1, <1>2, <1>3 DEF r

\* Taking the head removes it, and nothing else.
LEMMA TailSlot ==
    ASSUME NEW S, NEW q \in Seq(S), q # <<>>
    PROVE  /\ Tail(q) \in Seq(S) /\ Head(q) \in S
           /\ In(q) = In(Tail(q)) \cup {Head(q)}
           /\ Distinct(q) => Distinct(Tail(q)) /\ Head(q) \notin In(Tail(q))
<1> DEFINE t == Tail(q)
<1>1. /\ t \in Seq(S) /\ Len(q) \in Nat \ {0} /\ Len(t) = Len(q) - 1
      /\ \A i \in 1..Len(t) : t[i] = q[i + 1]
      /\ Head(q) = q[1] /\ Head(q) \in S
    OBVIOUS
<1> HIDE DEF t
<1>2. In(q) = In(t) \cup {Head(q)}
  <2>1. ASSUME NEW y \in In(q) PROVE y \in In(t) \cup {Head(q)}
    <3>1. PICK i \in 1..Len(q) : y = q[i]
        BY <2>1 DEF In
    <3>2. CASE i = 1
        BY <1>1, <3>1, <3>2
    <3>3. CASE i # 1
      <4>1. i - 1 \in 1..Len(t) /\ t[i - 1] = q[i]
          BY <1>1, <3>3
      <4>. QED BY <3>1, <4>1 DEF In
    <3>. QED BY <3>2, <3>3
  <2>2. ASSUME NEW y \in In(t) PROVE y \in In(q)
    <3>1. PICK i \in 1..Len(t) : y = t[i]
        BY <2>2 DEF In
    <3>2. i + 1 \in 1..Len(q) /\ y = q[i + 1]
        BY <1>1, <3>1
    <3>. QED BY <3>2 DEF In
  <2>3. Head(q) \in In(q)
    <3>1. 1 \in 1..Len(q)
        BY <1>1
    <3>. QED BY <1>1, <3>1 DEF In
  <2>. QED BY <2>1, <2>2, <2>3
<1>3. ASSUME Distinct(q) PROVE Distinct(t) /\ Head(q) \notin In(t)
  <2>1. ASSUME NEW i \in 1..Len(t), NEW j \in 1..Len(t), t[i] = t[j] PROVE i = j
    <3>1. i + 1 \in 1..Len(q) /\ j + 1 \in 1..Len(q) /\ q[i + 1] = q[j + 1]
        BY <1>1, <2>1
    <3>. QED BY <1>1, <1>3, <3>1 DEF Distinct
  <2>2. ASSUME NEW i \in 1..Len(t) PROVE t[i] # Head(q)
    <3>1. i + 1 \in 1..Len(q) /\ 1 \in 1..Len(q) /\ t[i] = q[i + 1] /\ i + 1 # 1
        BY <1>1
    <3>. QED BY <1>1, <1>3, <3>1 DEF Distinct
  <2>3. Distinct(t)
      BY <2>1 DEF Distinct
  <2>. QED BY <2>2, <2>3 DEF In
<1>. QED BY <1>1, <1>2, <1>3 DEF t

-----------------------------------------------------------------------------
(***************************************************************************)
(* The ring.                                                               *)
(***************************************************************************)
LEMMA InitRing == Init => RingInv
<1> SUFFICES ASSUME Init PROVE RingInv
    OBVIOUS
<1>1. /\ Depth \in Nat /\ rq = [i \in 1..Depth |-> i] /\ cq = <<>> /\ last = NoSlot
      /\ rpc = "idle"
    BY RecvAssumption DEF Init
<1>2. rq \in Seq(Slots) /\ Len(rq) = Depth /\ \A i \in 1..Depth : rq[i] = i
    BY <1>1 DEF Slots
<1>3. cq \in Seq(Slots) /\ Len(cq) = 0
    BY <1>1
<1>4. In(rq) = Slots /\ Distinct(rq)
    BY <1>2 DEF In, Distinct, Slots
<1>5. In(cq) = {} /\ Distinct(cq)
    BY <1>3 DEF In, Distinct
<1>. QED BY <1>1, <1>2, <1>3, <1>4, <1>5, NoSlotIsNone DEF RingInv, SlotOnce

\* Every step is of one of these kinds; only RecvFrame, which gives the last slot
\* back, begins to wait.
LEMMA StepKinds == [Next]_vars => Keep \/ Repost \/ Fill \/ Take \/ Lose
<1> SUFFICES ASSUME [Next]_vars PROVE Keep \/ Repost \/ Fill \/ Take \/ Lose
    OBVIOUS
<1> USE DEF Mortal
<1>1. CASE SendFrame \/ SendRW \/ SendNotify \/ \E c \in Offsets : SendAt(c)
    BY <1>1 DEF SendFrame, SendRW, SendNotify, SendAt, SendWrite, slotVars, Keep
<1>2. CASE Land
    BY <1>2 DEF Land, Keep, Fill
<1>3. CASE \E c \in {"message", "borrow"} : Call(c)
    BY <1>3 DEF Call, slotVars, Keep
<1>4. CASE RecvFrame
    BY <1>4 DEF RecvFrame, Die, Keep, Repost
<1>5. CASE RecvCompletion
    BY <1>5 DEF RecvCompletion, Take
<1>6. CASE Parse
    BY <1>6 DEF Parse, Lend, Idle, Keep
<1>7. CASE RwGet \/ RwCopy \/ Copy
    BY <1>7 DEF RwGet, RwCopy, Copy, Die, Idle, slotVars, Keep
<1>8. CASE RwRepost
    BY <1>8 DEF RwRepost, RepostFrame, RepostFails, Die, Idle, Keep, Repost
<1>9. CASE CopyRelease
    BY <1>9 DEF CopyRelease, RepostFrame, RepostFails, Die, Idle, Keep, Repost
<1>10. CASE RecvTimeout \/ RecvExpired \/ Stop
    BY <1>10 DEF RecvTimeout, RecvExpired, Stop, Die, Idle, slotVars, Keep
<1>11. CASE \E h \in held : Release(h)
    BY <1>11 DEF Release, RepostFrame, RepostFails, Keep, Repost
<1>12. CASE Close
    BY <1>12 DEF Close, CloseBegin, CloseLocked, CloseFree, closeRest, slotVars, Keep
<1>13. CASE UNCHANGED vars
    BY <1>13 DEF vars, slotVars, Keep
<1>14. CASE RecvBroken
    BY <1>14 DEF RecvBroken, Die, Keep, Lose
<1>. QED BY <1>1, <1>2, <1>3, <1>4, <1>5, <1>6, <1>7, <1>8, <1>9, <1>10, <1>11, <1>12, <1>13,
            <1>14
         DEF Next, Receiver

LEMMA OnceNow == /\ SlotOnce <=> OnceIn(rq, cq, last, rpc)
                 /\ SlotOnce' <=> OnceIn(rq', cq', last', rpc')
BY DEF SlotOnce, OnceIn, In, Distinct

LEMMA NextRing == RingInv /\ [Next]_vars => RingInv'
<1> SUFFICES ASSUME RingInv, [Next]_vars PROVE RingInv'
    OBVIOUS
<1> USE DEF RingInv
<1>0. OnceIn(rq, cq, last, rpc)
    BY OnceNow
<1>1. CASE Keep
    BY <1>0, <1>1, OnceNow DEF Keep, OnceIn, Mortal
<1>2. CASE Repost
  <2>1. CASE last = NoSlot
      BY <1>0, <1>2, <2>1, OnceNow DEF Repost, ReleaseLast, OnceIn, Mortal
  <2>2. CASE last # NoSlot
    <3>1. /\ rq' = Append(rq, last) /\ cq' = cq /\ last' = NoSlot
          /\ last \in Slots /\ last \notin In(rq)
        BY <1>2, <2>2 DEF Repost, ReleaseLast, SlotOnce
    <3>2. rq' \in Seq(Slots) /\ In(rq') = In(rq) \cup {last} /\ Distinct(rq')
        BY <3>1, AppendSlot DEF SlotOnce
    <3>3. NoSlot \notin In(rq') /\ NoSlot \notin In(cq')
      <4>1. \A q \in Seq(Slots) : In(q) \subseteq Slots
          BY DEF In
      <4>. QED BY <3>1, <3>2, <4>1, NoSlotIsNone
    <3>4. SlotOnce'
        BY <1>0, <1>2, <3>1, <3>2, <3>3, OnceNow DEF OnceIn, Repost, Mortal
    <3>. QED BY <3>1, <3>2, <3>4
  <2>. QED BY <2>1, <2>2
<1>3. CASE Fill
  <2>1. /\ rq # <<>> /\ cq' = Append(cq, Head(rq)) /\ rq' = Tail(rq) /\ last' = last
        /\ rpc' = rpc
      BY <1>3 DEF Fill
  <2>2. /\ rq' \in Seq(Slots) /\ Head(rq) \in Slots /\ In(rq) = In(rq') \cup {Head(rq)}
        /\ Distinct(rq') /\ Head(rq) \notin In(rq')
      BY <2>1, TailSlot DEF SlotOnce
  <2>3. Head(rq) \notin In(cq) /\ Head(rq) # last
      BY <2>2 DEF SlotOnce
  <2>4. cq' \in Seq(Slots) /\ In(cq') = In(cq) \cup {Head(rq)} /\ Distinct(cq')
      BY <2>1, <2>2, <2>3, AppendSlot DEF SlotOnce
  <2>5. SlotOnce'
      BY <1>0, <2>1, <2>2, <2>3, <2>4, OnceNow DEF OnceIn
  <2>. QED BY <2>1, <2>2, <2>4, <2>5
<1>4. CASE Take
  <2>1. /\ cq # <<>> /\ cq' = Tail(cq) /\ last' = Head(cq) /\ last = NoSlot /\ rq' = rq
        /\ rpc = "wait" /\ rpc' = "parse"
      BY <1>4 DEF Take
  <2>2. /\ cq' \in Seq(Slots) /\ Head(cq) \in Slots /\ In(cq) = In(cq') \cup {Head(cq)}
        /\ Distinct(cq') /\ Head(cq) \notin In(cq')
      BY <2>1, TailSlot DEF SlotOnce
  <2>3. SlotOnce'
      BY <1>0, <2>1, <2>2, NoSlotIsNone, OnceNow DEF OnceIn
  <2>. QED BY <2>1, <2>2, <2>3
<1>5. CASE Lose
  <2>1. cq # <<>> /\ cq' = Tail(cq) /\ rq' = rq /\ last' = last /\ rpc' = "dead"
      BY <1>5 DEF Lose
  <2>2. cq' \in Seq(Slots) /\ In(cq') \subseteq In(cq) /\ Distinct(cq')
      BY <2>1, TailSlot DEF SlotOnce
  <2>3. SlotOnce'
      BY <1>0, <2>1, <2>2, OnceNow DEF OnceIn
  <2>. QED BY <2>1, <2>2, <2>3
<1>. QED BY <1>1, <1>2, <1>3, <1>4, <1>5, StepKinds

\* SlotOnce: no notify slot is ever posted twice, whatever is received how, in
\* whichever order messages are released, and wherever posting fails; and none is
\* lost while the receiving loop runs (go_rdma_recv_frame, repost_recv).
THEOREM SlotsAccounted == Spec => []SlotOnce
<1>1. Init => RingInv
    BY InitRing
<1>2. RingInv /\ [Next]_vars => RingInv'
    BY NextRing
<1>3. RingInv => SlotOnce
    BY DEF RingInv
<1>. QED BY <1>1, <1>2, <1>3, PTL DEF Spec

-----------------------------------------------------------------------------
(***************************************************************************)
(* Types.                                                                  *)
(***************************************************************************)
\* What the receiving goroutine has looked up when it uses it.
CurInv ==
    /\ rpc \in {"parse", "copy"} => cur.slot \in Slots
    /\ rpc \in {"rwget", "repost", "rwcopy"} => cur.f.cell \in Cells

TypeInv == TypeOK /\ CurInv

LEMMA RecvConstants ==
    /\ Depth \in Nat /\ Depth >= 1 /\ RwSlots \in Nat /\ RwSlots >= 1 /\ MaxMsgs \in Nat
    /\ Empty \in Frame /\ NoCell \notin Cells /\ NoSlot \notin Slots
    /\ Offsets \subseteq Cells /\ 0..(RwSlots - 1) \subseteq Cells
    /\ \A n \in Nat : n % RwSlots \in 0..(RwSlots - 1)
    /\ NoCur \in [call: {"message", "borrow"}, slot: Slots \cup {NoSlot}, f: Frame]
<1>1. /\ Depth \in Nat /\ Depth >= 1 /\ RwSlots \in Nat /\ RwSlots >= 1 /\ MaxMsgs \in Nat
      /\ Offsets \subseteq Nat
    BY RecvAssumption
<1>2. 0 \in 0..MaxMsgs
    BY <1>1
<1>3. Empty \in Frame
    BY <1>2 DEF Empty, Frame
<1>4. NoCell \notin Cells
    BY <1>1 DEF Cells, NoCell
<1>5. \A n \in Nat : n % RwSlots \in 0..(RwSlots - 1)
    BY <1>1
<1>. QED BY <1>1, <1>3, <1>4, <1>5, NoSlotIsNone DEF NoCur, Cells

\* One more message has been sent to cell c.
LEMMA PlaceGrows ==
    ASSUME NEW S, NEW p \in Seq(S), NEW c \in S
    PROVE  /\ Append(p, c) \in Seq(S) /\ Len(Append(p, c)) = Len(p) + 1
           /\ \A i \in 1..Len(p) : Append(p, c)[i] = p[i]
           /\ Append(p, c)[Len(p) + 1] = c
OBVIOUS

LEMMA PlaceTypes ==
    ASSUME place \in Seq(Cells \cup {NoCell}), Len(place) = sent, sent \in Nat,
           NEW c \in Cells \cup {NoCell}, place' = Append(place, c), sent' = sent + 1
    PROVE  /\ place' \in Seq(Cells \cup {NoCell}) /\ Len(place') = sent'
           /\ \A i \in 1..sent : place'[i] = place[i]
           /\ place'[sent'] = c
BY PlaceGrows

LEMMA InitTypes == Init => TypeInv
<1> SUFFICES ASSUME Init PROVE TypeInv
    OBVIOUS
<1>1. rq \in Seq(Slots) /\ cq \in Seq(Slots)
    BY InitRing DEF RingInv
<1>. QED BY <1>1, RecvConstants DEF Init, TypeInv, TypeOK, CurInv

\* A step of the peer or of the adapter.
LEMMA PeerTypes ==
    ASSUME TypeInv, SendFrame \/ SendRW \/ SendNotify \/ Land \/ \E c \in Offsets : SendAt(c)
    PROVE  TypeInv'
<1> USE RecvConstants DEF TypeInv, TypeOK, CurInv, peerVars, slotVars, closeVars
<1>1. CASE SendFrame
  <2>1. sent + 1 \in 0..MaxMsgs
      BY <1>1 DEF SendFrame, CanSend
  <2>2. [k |-> "frame", m |-> sent + 1, cell |-> NoCell] \in Frame
      BY <2>1 DEF Frame
  <2>3. place' \in Seq(Cells \cup {NoCell}) /\ Len(place') = sent'
    <3>1. /\ place \in Seq(Cells \cup {NoCell}) /\ Len(place) = sent
          /\ place' = Append(place, NoCell) /\ sent' = sent + 1 /\ NoCell \in Cells \cup {NoCell}
          /\ sent \in Nat
        BY <1>1 DEF SendFrame
    <3>. QED BY <3>1, PlaceTypes
  <2>. QED BY <1>1, <2>1, <2>2, <2>3 DEF SendFrame
<1>2. ASSUME NEW k \in {"rw", "at"}, NEW c \in Cells, CanSend, SendWrite(k, c), rwSeq' \in Nat
      PROVE  TypeInv'
  <2>1. sent + 1 \in 0..MaxMsgs
      BY <1>2 DEF CanSend
  <2>2. /\ [k |-> "write", m |-> sent + 1, cell |-> c] \in Frame
        /\ [k |-> k, m |-> sent + 1, cell |-> c] \in Frame
      BY <2>1 DEF Frame
  <2>3. place' \in Seq(Cells \cup {NoCell}) /\ Len(place') = sent'
    <3>1. /\ place \in Seq(Cells \cup {NoCell}) /\ Len(place) = sent
          /\ place' = Append(place, c) /\ sent' = sent + 1 /\ c \in Cells \cup {NoCell}
          /\ sent \in Nat
        BY <1>2 DEF SendWrite
    <3>. QED BY <3>1, PlaceTypes
  <2>. QED BY <1>2, <2>1, <2>2, <2>3 DEF SendWrite
<1>3. CASE SendRW
  <2>1. RwCell \in Cells
      BY DEF RwCell
  <2>2. CanSend /\ SendWrite("rw", RwCell) /\ rwSeq' \in Nat
      BY <1>3 DEF SendRW
  <2>. QED BY <1>2, <2>1, <2>2
<1>4. CASE \E c \in Offsets : SendAt(c)
    BY <1>2, <1>4 DEF SendAt
<1>5. CASE SendNotify
    BY <1>5 DEF SendNotify
<1>6. CASE Land
  <2>1. wire # <<>> /\ Head(wire) \in Frame /\ wire' = Tail(wire) /\ wire' \in Seq(Frame)
      BY <1>6 DEF Land
  <2>2. Head(wire).m \in 0..MaxMsgs
      BY <2>1 DEF Frame
  <2>3. CASE /\ cell' = [cell EXCEPT ![Head(wire).cell] = Head(wire).m]
             /\ UNCHANGED <<rq, cq, buf>>
      BY <1>6, <2>1, <2>2, <2>3 DEF Land
  <2>4. CASE /\ rq # <<>> /\ buf' = [buf EXCEPT ![Head(rq)] = Head(wire)]
             /\ cq' = Append(cq, Head(rq)) /\ rq' = Tail(rq) /\ UNCHANGED cell
      BY <1>6, <2>1, <2>4 DEF Land
  <2>. QED BY <1>6, <2>3, <2>4 DEF Land
<1>. QED BY <1>1, <1>3, <1>4, <1>5, <1>6

\* A step of the receiving goroutine or of a borrower.
LEMMA ReceiverTypes ==
    ASSUME TypeInv,
           \/ Receiver \/ RecvBroken \/ RecvTimeout \/ RecvExpired \/ Stop
           \/ \E h \in held : Release(h)
    PROVE  TypeInv'
<1> USE RecvConstants DEF TypeInv, TypeOK, CurInv, recvRest, peerVars, slotVars, closeVars
<1>0. ReleaseLast => rq' \in Seq(Slots) /\ last' \in Slots \cup {NoSlot}
    BY DEF ReleaseLast
<1>1. CASE \E c \in {"message", "borrow"} : Call(c)
  <2>1. PICK c \in {"message", "borrow"} : Call(c)
      BY <1>1, Zenon
  <2>2. cur' \in [call: {"message", "borrow"}, slot: Slots \cup {NoSlot}, f: Frame]
      BY <2>1 DEF Call
  <2>3. rpc' = "enter" /\ UNCHANGED <<sent, place, rwSeq, notify, wire, rq, cq, buf, cell,
                                     last, held, got, cc, clpc>>
      BY <2>1 DEF Call
  <2>. QED BY <2>2, <2>3
<1>2. CASE RecvFrame
    BY <1>0, <1>2 DEF RecvFrame, Die
<1>3. CASE RecvCompletion
  <2>1. Head(cq) \in Slots /\ cq' \in Seq(Slots)
      BY <1>3 DEF RecvCompletion
  <2>. QED BY <1>3, <2>1 DEF RecvCompletion
<1>4. CASE RecvTimeout \/ RecvExpired \/ Stop
    BY <1>4 DEF RecvTimeout, RecvExpired, Stop, Die, Idle
<1>13. CASE RecvBroken
  <2>1. cq' \in Seq(Slots)
    <3>1. cq \in Seq(Slots) /\ (cq' = cq \/ (cq # <<>> /\ cq' = Tail(cq)))
        BY <1>13 DEF RecvBroken
    <3>2. cq # <<>> => Tail(cq) \in Seq(Slots)
        BY <3>1, TailSlot, Zenon
    <3>. QED BY <3>1, <3>2
  <2>. QED BY <1>13, <2>1 DEF RecvBroken, Die
<1>14. ASSUME NEW m \in 0..MaxMsgs, Deliver(m) PROVE got' \in Seq(0..MaxMsgs)
  <2>1. got \in Seq(0..MaxMsgs)
      OBVIOUS
  <2>2. Append(got, m) \in Seq(0..MaxMsgs)
      BY <1>14, <2>1, PlaceGrows, Zenon
  <2>. QED BY <1>14, <2>1, <2>2 DEF Deliver
<1>5. ASSUME rpc \in {"parse", "copy"}, NEW f \in View(cur.slot)
      PROVE  f \in Frame /\ buf[cur.slot] \in Frame
    BY <1>5 DEF View
<1>6. CASE Parse
  <2>1. PICK f \in View(cur.slot) :
          \/ /\ f.cell # NoCell
             /\ rpc' = "rwget" /\ cur' = [cur EXCEPT !.f = f]
             /\ UNCHANGED <<rq, last, held, got>>
          \/ /\ f.cell = NoCell /\ cur.call = "borrow"
             /\ Lend /\ Idle /\ Deliver(f.m)
          \/ /\ f.cell = NoCell /\ cur.call = "message"
             /\ rpc' = "copy" /\ UNCHANGED <<rq, last, cur, held, got>>
      BY <1>6 DEF Parse
  <2>2. rpc = "parse" /\ f \in Frame /\ buf[cur.slot] \in Frame
      BY <1>5, <1>6 DEF Parse
  <2>3. f.m \in 0..MaxMsgs /\ f.cell \in Cells \cup {NoCell} /\ buf[cur.slot].m \in 0..MaxMsgs
      BY <2>2 DEF Frame
  <2>4. UNCHANGED <<recvRest, cq, buf>>
      BY <1>6 DEF Parse
  <2>5. CASE f.cell # NoCell /\ rpc' = "rwget" /\ cur' = [cur EXCEPT !.f = f]
             /\ UNCHANGED <<rq, last, held, got>>
      BY <2>2, <2>3, <2>4, <2>5
  <2>6. CASE Lend /\ Idle /\ Deliver(f.m)
    <3>2. got' \in Seq(0..MaxMsgs)
        BY <1>14, <2>3, <2>6
    <3>1. [m |-> buf[cur.slot].m, slot |-> cur.slot, cell |-> NoCell] \in Borrowed
        BY <2>2, <2>3 DEF Borrowed
    <3>. QED BY <2>2, <2>3, <2>4, <2>6, <3>1, <3>2 DEF Lend, Idle
  <2>7. CASE rpc' = "copy" /\ UNCHANGED <<rq, last, cur, held, got>>
      BY <2>2, <2>4, <2>7
  <2>. QED BY <2>1, <2>5, <2>6, <2>7
<1>7. CASE RwGet
    BY <1>7 DEF RwGet, Die
<1>8. CASE RwRepost
  <2>1. cur.f \in Frame /\ cur.f.m \in 0..MaxMsgs /\ cell[cur.f.cell] \in 0..MaxMsgs
      BY <1>8 DEF RwRepost, Frame
  <2>2. [m |-> cur.f.m, slot |-> NoSlot, cell |-> cur.f.cell] \in Borrowed
      BY <1>8, <2>1 DEF Borrowed, RwRepost
  <2>3. rq' \in Seq(Slots) /\ last' \in Slots \cup {NoSlot}
      BY <1>0, <1>8 DEF RwRepost, RepostFrame, RepostFails
  <2>4. held' \subseteq Borrowed /\ got' \in Seq(0..MaxMsgs)
    <3>1. CASE UNCHANGED <<held, got>>
        BY <3>1
    <3>2. CASE /\ held' = held \cup {[m |-> cur.f.m, slot |-> NoSlot, cell |-> cur.f.cell]}
               /\ Deliver(cell[cur.f.cell])
        BY <1>14, <2>1, <2>2, <3>2
    <3>. QED BY <1>8, <3>1, <3>2 DEF RwRepost
  <2>5. \/ rpc' \in {"idle", "dead"} /\ cur' = NoCur
        \/ rpc = "repost" /\ rpc' = "rwcopy" /\ UNCHANGED cur
      BY <1>8 DEF RwRepost, Idle, Die
  <2>6. UNCHANGED <<recvRest, cq, buf>>
      BY <1>8 DEF RwRepost
  <2>. QED BY <2>3, <2>4, <2>5, <2>6
<1>9. CASE RwCopy
  <2>1. cell[cur.f.cell] \in 0..MaxMsgs
      BY <1>9 DEF RwCopy
  <2>2. got' \in Seq(0..MaxMsgs)
      BY <1>9, <1>14, <2>1 DEF RwCopy
  <2>. QED BY <1>9, <2>2 DEF RwCopy, Idle
<1>10. CASE Copy
  <2>1. PICK f \in View(cur.slot) : cur' = [cur EXCEPT !.f = f]
      BY <1>10 DEF Copy
  <2>2. f \in Frame
      BY <1>5, <1>10 DEF Copy
  <2>. QED BY <1>10, <2>1, <2>2 DEF Copy
<1>11. CASE CopyRelease
  <2>1. cur.f.m \in 0..MaxMsgs
      BY DEF Frame
  <2>2. rq' \in Seq(Slots) /\ last' \in Slots \cup {NoSlot}
      BY <1>0, <1>11 DEF CopyRelease, RepostFrame, RepostFails
  <2>3. /\ rpc' \in {"idle", "dead"} /\ cur' = NoCur
        /\ Deliver(cur.f.m) \/ got' = got
        /\ UNCHANGED <<recvRest, cq, buf, held>>
      BY <1>11 DEF CopyRelease, Idle, Die
  <2>4. got' \in Seq(0..MaxMsgs)
      BY <1>14, <2>1, <2>3
  <2>. QED BY <2>2, <2>3, <2>4
<1>12. CASE \E h \in held : Release(h)
    BY <1>0, <1>12 DEF Release, RepostFrame, RepostFails
<1>. QED BY <1>1, <1>2, <1>3, <1>4, <1>6, <1>7, <1>8, <1>9, <1>10, <1>11, <1>12, <1>13
         DEF Receiver

LEMMA NextTypes == TypeInv /\ [Next]_vars => TypeInv'
<1> SUFFICES ASSUME TypeInv, [Next]_vars PROVE TypeInv'
    OBVIOUS
<1>1. CASE Close
    BY <1>1 DEF Close, CloseBegin, CloseLocked, CloseFree, closeRest, peerVars, slotVars,
                TypeInv, TypeOK, CurInv
<1>2. CASE UNCHANGED vars
    BY <1>2 DEF vars, peerVars, slotVars, closeVars, TypeInv, TypeOK, CurInv
<1>. QED BY <1>1, <1>2, PeerTypes, ReceiverTypes DEF Next

\* Every variable keeps its type: no frame is parsed, lent or copied without a slot,
\* and no payload is looked up without a cell of the RW region.
THEOREM RecvTypes == Spec => []TypeOK
<1>1. TypeInv => TypeOK
    BY DEF TypeInv
<1>. QED BY <1>1, InitTypes, NextTypes, PTL DEF Spec

-----------------------------------------------------------------------------
(***************************************************************************)
(* Views.  Nobody receives while a SEND frame is borrowed, and Close waits *)
(* for the receiving loop, as in serveConn.                                *)
(***************************************************************************)
Views == {"parse", "copy", "release"}

\* The slot being looked at is the last one received: the receiver's while it
\* handles a frame, then the borrower's, and there is one borrower.
HoldInv ==
    /\ rpc \in Views => cur.slot = last /\ last # NoSlot
    /\ rpc \notin {"idle", "dead"} => \A h \in held : h.slot = NoSlot
    /\ \A h \in held : h.slot # NoSlot => /\ last = h.slot /\ buf[h.slot].m = h.m
                                          /\ h.cell = NoCell

\* Close begins after the loop and its last borrowed message.
CloseInv ==
    /\ clpc # "no" => rpc = "dead" /\ held = {}
    /\ cc # "open" => clpc # "no"

LEMMA InitViews == Init => HoldInv /\ CloseInv
BY DEF Init, HoldInv, CloseInv, Views

\* A frame that lands lands in a posted slot, which nobody looks at.
LEMMA LandElsewhere ==
    ASSUME TypeInv, RingInv, Land, NEW s \in Slots, s \notin In(rq)
    PROVE  buf'[s] = buf[s]
<1>1. rq # <<>> => Head(rq) \in In(rq)
  <2>1. rq # <<>> => 1 \in 1..Len(rq) /\ Head(rq) = rq[1]
      BY DEF RingInv
  <2>. QED BY <2>1 DEF In
<1>. QED BY <1>1 DEF Land, TypeInv, TypeOK

LEMMA NextHold ==
    ASSUME ~Ahead, TypeInv, RingInv, HoldInv, [Next]_vars
    PROVE  HoldInv'
<1> USE NoSlotIsNone DEF HoldInv, Views
<1>0. last \in Slots => last \notin In(rq)
    BY DEF RingInv, SlotOnce
<1>1. CASE SendFrame \/ SendRW \/ SendNotify \/ \E c \in Offsets : SendAt(c)
    BY <1>1 DEF SendFrame, SendRW, SendNotify, SendAt, SendWrite, slotVars
<1>2. CASE Land
  <2>1. UNCHANGED <<last, rpc, cur, held>>
      BY <1>2 DEF Land
  <2>2. last \in Slots => buf'[last] = buf[last]
      BY <1>0, <1>2, LandElsewhere
  <2>3. last \in Slots \cup {NoSlot}
      BY DEF RingInv
  <2>. QED BY <2>1, <2>2, <2>3
<1>3. CASE \E c \in {"message", "borrow"} : Call(c)
    BY <1>3 DEF Call, slotVars
<1>4. CASE RecvFrame
    BY <1>4 DEF RecvFrame, Die, ReleaseLast
<1>5. CASE RecvCompletion
  <2>1. rpc = "wait" /\ rpc' = "parse" /\ UNCHANGED held /\ last' = Head(cq)
        /\ cur' = [cur EXCEPT !.slot = Head(cq)]
      BY <1>5 DEF RecvCompletion
  <2>2. Head(cq) \in Slots
      BY <1>5 DEF RecvCompletion, RingInv
  <2>3. cur'.slot = Head(cq)
      BY <2>1 DEF TypeInv, TypeOK
  <2>. QED BY <2>1, <2>2, <2>3
<1>6. CASE Parse
  <2>1. rpc = "parse" /\ cur.slot = last /\ last # NoSlot /\ \A h \in held : h.slot = NoSlot
      BY <1>6 DEF Parse
  <2>2. UNCHANGED <<rq, last, buf>>
      BY <1>6 DEF Parse, Lend
  <2>3. \/ rpc' \in {"rwget", "copy"} /\ cur'.slot = cur.slot /\ UNCHANGED held
        \/ rpc' = "idle" /\ Lend
      BY <1>6 DEF Parse, Idle, TypeInv, TypeOK
  <2>. QED BY <2>1, <2>2, <2>3 DEF Lend
<1>7. CASE RwGet \/ RwCopy \/ Copy
    BY <1>7 DEF RwGet, RwCopy, Copy, Die, Idle, slotVars, TypeInv, TypeOK
<1>8. CASE RwRepost
  <2>1. /\ \A h \in held : h.slot = NoSlot
        /\ held' \subseteq held \cup {[m |-> cur.f.m, slot |-> NoSlot, cell |-> cur.f.cell]}
        /\ rpc' \in {"idle", "rwcopy", "dead"}
      BY <1>8 DEF RwRepost, Idle, Die
  <2>2. \A h \in held' : h.slot = NoSlot
      BY <2>1
  <2>. QED BY <2>1, <2>2
<1>9. CASE CopyRelease
    BY <1>9 DEF CopyRelease, Die, Idle
<1>10. CASE RecvBroken \/ RecvTimeout \/ RecvExpired \/ Stop
    BY <1>10 DEF RecvBroken, RecvTimeout, RecvExpired, Stop, Die, Idle, slotVars
<1>11. CASE \E h \in held : Release(h)
  <2>1. PICK h \in held : Release(h)
      BY <1>11
  <2>2. held' = held \ {h} /\ UNCHANGED <<buf, rpc, cur>>
      BY <2>1 DEF Release
  <2>3. CASE h.slot = NoSlot
      BY <2>1, <2>2, <2>3 DEF Release
  <2>4. CASE h.slot # NoSlot
    <3>1. rpc \in {"idle", "dead"}
        BY <2>4
    <3>2. ASSUME NEW g \in held, g.slot # NoSlot PROVE g = h
      <4>1. g.slot = h.slot /\ g.m = h.m /\ g.cell = h.cell
          BY <2>4, <3>2
      <4>2. g \in Borrowed /\ h \in Borrowed
          BY DEF TypeInv, TypeOK
      <4>. QED BY <4>1, <4>2 DEF Borrowed
    <3>3. \A g \in held' : g.slot = NoSlot
        BY <2>2, <3>2
    <3>. QED BY <2>2, <3>1, <3>3
  <2>. QED BY <2>3, <2>4
<1>12. CASE Close
    BY <1>12 DEF Close, CloseBegin, CloseLocked, CloseFree, closeRest, slotVars
<1>13. CASE UNCHANGED vars
    BY <1>13 DEF vars, slotVars
<1>. QED BY <1>1, <1>2, <1>3, <1>4, <1>5, <1>6, <1>7, <1>8, <1>9, <1>10, <1>11, <1>12, <1>13
         DEF Next, Receiver

LEMMA NextClose ==
    ASSUME ClosedBy = "receiver", CloseInv, [Next]_vars
    PROVE  CloseInv'
<1> USE DEF CloseInv, recvRest, closeVars
<1>1. CASE SendFrame \/ SendRW \/ SendNotify \/ \E c \in Offsets : SendAt(c)
    BY <1>1 DEF SendFrame, SendRW, SendNotify, SendAt, SendWrite
<1>2. CASE Land
    BY <1>2 DEF Land
<1>3. CASE Receiver
    BY <1>3 DEF Receiver, Call, RecvFrame, RecvCompletion, Parse, RwGet, RwRepost, RwCopy,
                Copy, CopyRelease
<1>4. CASE RecvBroken \/ RecvTimeout \/ RecvExpired \/ Stop
    BY <1>4 DEF RecvBroken, RecvTimeout, RecvExpired, Stop, Die
<1>5. CASE \E h \in held : Release(h)
    BY <1>5 DEF Release
<1>6. CASE Close
    BY <1>6 DEF Close, CloseBegin, CloseLocked, CloseFree, closeRest
<1>7. CASE UNCHANGED vars
    BY <1>7 DEF vars
<1>. QED BY <1>1, <1>2, <1>3, <1>4, <1>5, <1>6, <1>7 DEF Next

\* BorrowedIntact: a SEND frame lent by RecvBorrowedMessage is not overwritten before
\* its Release, and Release reposts its own slot, when nobody receives meanwhile.
THEOREM FramesIntact == ASSUME ~Ahead PROVE Spec => []BorrowedIntact
<1> DEFINE I == TypeInv /\ RingInv /\ HoldInv
<1>1. Init => I
    BY InitTypes, InitRing, InitViews
<1>2. I /\ [Next]_vars => I'
    BY NextTypes, NextRing, NextHold
<1>3. I => BorrowedIntact
    BY DEF HoldInv, BorrowedIntact
<1>. QED BY <1>1, <1>2, <1>3, PTL DEF Spec

\* ViewsLive: when Close waits for the receiving loop, as serveConn's does, no view of
\* a notify slot outlives go_rdma_free_conn, with receiving ahead or not.
THEOREM ViewsStayLive == ASSUME ClosedBy = "receiver" PROVE Spec => []ViewsLive
<1>1. Init => CloseInv
    BY InitViews
<1>2. CloseInv /\ [Next]_vars => CloseInv'
    BY NextClose
<1>3. CloseInv => ViewsLive
    BY DEF CloseInv, ViewsLive
<1>. QED BY <1>1, <1>2, <1>3, PTL DEF Spec

-----------------------------------------------------------------------------
(***************************************************************************)
(* The channel: what is sent and not yet delivered is one pipe, from the   *)
(* frame in the receiver's hands over the completed slots to the wire.     *)
(***************************************************************************)
InHand == rpc \in {"parse", "rwget", "repost", "rwcopy", "copy", "release"}
Hand   == IF rpc \in {"parse", "copy"} THEN buf[cur.slot] ELSE cur.f
Hands  == IF InHand THEN 1 ELSE 0

PipeLen == Hands + Len(cq) + Len(wire)
PipeAt(i) == IF i <= Hands THEN Hand
             ELSE IF i <= Hands + Len(cq) THEN buf[cq[i - Hands]]
             ELSE wire[i - Hands - Len(cq)]

\* The WRITE of a message has landed and its notify frame is not yet posted.
Landed == notify # <<>> /\ wire = <<>>

\* Frames as the peer makes them.
GoodFrame(f) == f \in Frame /\ (f.k = "frame" <=> f.cell = NoCell)

\* Where the payload of f should be there is its own, or that of a later message which
\* was sent to the same place.
Shows(f) == cell[f.cell] \in f.m..sent /\ place[cell[f.cell]] = f.cell

\* One element of the pipe: its number and its place; a WRITE is the last element and
\* its notify frame waits; a notify frame finds a payload.
Item(i, f) ==
    /\ GoodFrame(f)
    /\ f.m = Len(got) + i /\ f.cell = place[f.m]
    /\ f.k = "write" => i = PipeLen /\ notify # <<>> /\ wire # <<>>
    /\ f.k \in {"rw", "at"} => Shows(f)

NotifyInv ==
    notify # <<>> =>
        /\ Len(notify) = 1
        /\ GoodFrame(notify[1]) /\ notify[1].k \in {"rw", "at"}
        /\ notify[1].m = sent /\ notify[1].cell = place[sent]
        /\ wire = <<>> => cell[notify[1].cell] = sent
        /\ wire # <<>> => wire[Len(wire)].k = "write"

\* What the frame in hand is known to be, after the parsing.
HandInv ==
    /\ rpc \in {"rwget", "repost", "rwcopy"} => Hand.cell # NoCell
    /\ rpc \in {"copy", "release"} => Hand.cell = NoCell

PipeInv ==
    ~Over =>
        /\ sent = Len(got) + PipeLen + IF Landed THEN 1 ELSE 0
        /\ NotifyInv
        /\ \A i \in 1..PipeLen : Item(i, PipeAt(i))
        /\ HandInv

ChannelInv == TypeInv /\ RingInv /\ HoldInv /\ PipeInv

\* The sizes of the pipe's parts.
LEMMA PipeTypes ==
    ASSUME ChannelInv
    PROVE  /\ Hands \in {0, 1} /\ Len(cq) \in Nat /\ Len(wire) \in Nat /\ PipeLen \in Nat
           /\ Len(got) \in Nat /\ sent \in Nat
           /\ PipeLen = Hands + Len(cq) + Len(wire)
           /\ place \in Seq(Cells \cup {NoCell}) /\ Len(place) = sent
BY DEF ChannelInv, TypeInv, TypeOK, Hands, PipeLen

\* A live receiver's invariant, for use in its parts.
LEMMA PipeParts ==
    ASSUME ChannelInv, ~Over
    PROVE  /\ sent = Len(got) + PipeLen + IF Landed THEN 1 ELSE 0
           /\ NotifyInv /\ HandInv
           /\ \A i \in 1..PipeLen : Item(i, PipeAt(i))
BY DEF ChannelInv, PipeInv

-----------------------------------------------------------------------------
(***************************************************************************)
(* What a step does to the pipe: nothing, a frame moves along inside it,   *)
(* its first element is delivered, an element is added, the WRITE at its   *)
(* end lands.                                                              *)
(***************************************************************************)
SamePipe ==
    /\ PipeLen' = PipeLen
    /\ \A i \in 1..PipeLen : PipeAt(i)' = PipeAt(i)
    /\ UNCHANGED <<sent, place, notify, got, cell>>
    /\ notify # <<>> => /\ wire = <<>> <=> wire' = <<>>
                        /\ wire # <<>> => wire'[Len(wire')].k = "write"

LEMMA SameKeeps ==
    ASSUME ChannelInv, ~Over, SamePipe, HandInv'
    PROVE  PipeInv'
<1>1. /\ sent = Len(got) + PipeLen + IF Landed THEN 1 ELSE 0
      /\ NotifyInv
      /\ \A i \in 1..PipeLen : Item(i, PipeAt(i))
    BY PipeParts
<1>2. Landed' = Landed
    BY DEF SamePipe, Landed
<1>3. NotifyInv'
    BY <1>1 DEF SamePipe, NotifyInv
<1>4. ASSUME NEW i \in 1..PipeLen PROVE Item(i, PipeAt(i))'
  <2>1. Item(i, PipeAt(i)) /\ PipeAt(i)' = PipeAt(i)
      BY <1>1 DEF SamePipe
  <2>2. PipeLen' = PipeLen /\ UNCHANGED <<sent, place, notify, got, cell>>
        /\ (notify # <<>> => (wire = <<>> <=> wire' = <<>>))
      BY DEF SamePipe
  <2>. QED BY <2>1, <2>2 DEF Item, Shows
<1>5. PipeLen' = PipeLen /\ (sent = Len(got) + PipeLen + IF Landed THEN 1 ELSE 0)'
    BY <1>1, <1>2 DEF SamePipe
<1>. QED BY <1>3, <1>4, <1>5 DEF PipeInv

\* What the receiver of message n finds is the payload of message v.
Finds(n, v) == /\ v \in n..sent
               /\ v = n \/ (place[n] # NoCell /\ place[v] = place[n])

\* The first element is delivered.
Pop ==
    /\ PipeLen' = PipeLen - 1
    /\ \A i \in 1..(PipeLen - 1) : PipeAt(i)' = PipeAt(i + 1)
    /\ \E v : Finds(Len(got) + 1, v) /\ got' = Append(got, v)
    /\ UNCHANGED <<sent, place, notify, wire, cell>>

LEMMA PopKeeps ==
    ASSUME ChannelInv, ~Over, InHand, Pop, HandInv'
    PROVE  PipeInv' /\ Len(got') = Len(got) + 1 /\ sent >= Len(got) + 1
<1>1. /\ sent = Len(got) + PipeLen + IF Landed THEN 1 ELSE 0
      /\ NotifyInv
      /\ \A i \in 1..PipeLen : Item(i, PipeAt(i))
    BY PipeParts
<1>2. Len(got) \in Nat /\ PipeLen \in Nat /\ PipeLen >= 1 /\ sent \in Nat
    BY PipeTypes DEF Hands
<1>4. Len(got') = Len(got) + 1
  <2>1. PICK v : got' = Append(got, v)
      BY DEF Pop
  <2>. QED BY <2>1 DEF ChannelInv, TypeInv, TypeOK
<1>5. NotifyInv' /\ Landed' = Landed
    BY <1>1 DEF Pop, NotifyInv, Landed
<1>6. ASSUME NEW i \in 1..(PipeLen - 1) PROVE Item(i, PipeAt(i))'
  <2>1. i + 1 \in 1..PipeLen /\ i \in Nat
      BY <1>2
  <2>2. Item(i + 1, PipeAt(i + 1)) /\ PipeAt(i)' = PipeAt(i + 1)
      BY <1>1, <2>1 DEF Pop
  <2>3. PipeLen' = PipeLen - 1 /\ UNCHANGED <<sent, place, notify, wire, cell>>
      BY DEF Pop
  <2>4. Len(got) + (i + 1) = Len(got') + i /\ (i + 1 = PipeLen => i = PipeLen')
      BY <1>2, <1>4, <2>1, <2>3
  <2>. QED BY <2>2, <2>3, <2>4 DEF Item, Shows
<1>7. PipeLen' = PipeLen - 1 /\ (sent = Len(got) + PipeLen + IF Landed THEN 1 ELSE 0)'
    BY <1>1, <1>2, <1>4, <1>5 DEF Pop
<1>8. PipeInv'
    BY <1>5, <1>6, <1>7 DEF PipeInv
<1>. QED BY <1>1, <1>2, <1>4, <1>8

\* The peer posts an element.
LEMMA AddIsAppend ==
    ASSUME ChannelInv, NEW f, wire' = Append(wire, f), UNCHANGED <<cq, buf, rpc, cur>>
    PROVE  /\ PipeLen' = PipeLen + 1
           /\ \A i \in 1..PipeLen : PipeAt(i)' = PipeAt(i)
           /\ \A n : n = PipeLen + 1 => PipeAt(n)' = f
           /\ Len(wire') = Len(wire) + 1 /\ wire'[Len(wire')] = f /\ wire' # <<>>
<1>1. /\ Hands \in {0, 1} /\ Len(cq) \in Nat /\ Len(wire) \in Nat /\ PipeLen \in Nat
      /\ PipeLen = Hands + Len(cq) + Len(wire)
    BY PipeTypes
<1>2. wire \in Seq(Frame)
    BY DEF ChannelInv, TypeInv, TypeOK
<1>3. /\ Len(wire') = Len(wire) + 1 /\ wire'[Len(wire) + 1] = f
      /\ \A i \in 1..Len(wire) : wire'[i] = wire[i]
    BY <1>2
<1>4. Hands' = Hands /\ Hand' = Hand /\ InHand' = InHand
    BY DEF Hands, Hand, InHand
<1>5. PipeLen' = PipeLen + 1
    BY <1>1, <1>3, <1>4 DEF PipeLen
<1>6. ASSUME NEW i \in 1..PipeLen PROVE PipeAt(i)' = PipeAt(i)
  <2>1. CASE i <= Hands + Len(cq)
      BY <1>4, <2>1 DEF PipeAt
  <2>2. CASE ~(i <= Hands + Len(cq))
    <3>1. i - Hands - Len(cq) \in 1..Len(wire) /\ ~(i <= Hands)
        BY <1>1, <2>2
    <3>. QED BY <1>3, <1>4, <2>2, <3>1 DEF PipeAt
  <2>. QED BY <2>1, <2>2
<1>7. ASSUME NEW n, n = PipeLen + 1 PROVE PipeAt(n)' = f
  <2>1. /\ n - Hands - Len(cq) = Len(wire) + 1
        /\ ~(n <= Hands) /\ ~(n <= Hands + Len(cq))
      BY <1>1, <1>7
  <2>. QED BY <1>3, <1>4, <2>1 DEF PipeAt
<1>8. wire' # <<>>
    BY <1>1, <1>2, <1>3
<1>. QED BY <1>3, <1>5, <1>6, <1>7, <1>8

\* Once message number sent' has its place, the older elements stay as they were.
LEMMA OldItems ==
    ASSUME ChannelInv, ~Over, notify = <<>>, NEW c \in Cells \cup {NoCell},
           place' = Append(place, c), sent' = sent + 1, cell' = cell, got' = got,
           NEW i \in 1..PipeLen, PipeAt(i)' = PipeAt(i)
    PROVE  Item(i, PipeAt(i))'
<1>1. Item(i, PipeAt(i)) /\ sent = Len(got) + PipeLen
    BY PipeParts, PipeTypes DEF Landed
<1>2. PICK g : g = PipeAt(i)
    OBVIOUS
<1>3. /\ GoodFrame(g) /\ g.m = Len(got) + i /\ g.cell = place[g.m] /\ g.k # "write"
      /\ g.k \in {"rw", "at"} => cell[g.cell] \in g.m..sent /\ place[cell[g.cell]] = g.cell
    BY <1>1, <1>2 DEF Item, Shows
<1>4. /\ Len(got) \in Nat /\ PipeLen \in Nat /\ sent \in Nat /\ i \in Nat
      /\ place \in Seq(Cells \cup {NoCell}) /\ Len(place) = sent
    BY PipeTypes
<1>5. \A n \in 1..sent : place'[n] = place[n]
    BY <1>4, PlaceTypes
<1>6. g.m \in 1..sent
    BY <1>1, <1>3, <1>4
<1>7. place'[g.m] = g.cell
    BY <1>3, <1>5, <1>6
<1>8. ASSUME g.k \in {"rw", "at"}
      PROVE  cell[g.cell] \in g.m..sent' /\ place'[cell[g.cell]] = g.cell
  <2>1. cell[g.cell] \in 1..sent
      BY <1>3, <1>4, <1>6, <1>8
  <2>. QED BY <1>3, <1>4, <1>5, <1>6, <1>8, <2>1
<1>9. PipeAt(i)' = g
    BY <1>2
<1>. QED BY <1>3, <1>7, <1>8, <1>9 DEF Item, Shows

LEMMA SendFrameKeeps ==
    ASSUME ChannelInv, ~Over, SendFrame
    PROVE  PipeInv'
<1>0. PICK f : f = [k |-> "frame", m |-> sent + 1, cell |-> NoCell]
    OBVIOUS
<1>1. /\ sent = Len(got) + PipeLen + IF Landed THEN 1 ELSE 0
      /\ NotifyInv /\ HandInv
    BY PipeParts
<1>2. /\ sent' = sent + 1 /\ wire' = Append(wire, f) /\ notify = <<>> /\ sent < MaxMsgs
      /\ place' = Append(place, NoCell)
      /\ UNCHANGED <<notify, cq, buf, cell, rpc, cur, got>>
    BY <1>0 DEF SendFrame, CanSend, slotVars
<1>3. Len(got) \in Nat /\ PipeLen \in Nat /\ sent \in Nat /\ sent = Len(got) + PipeLen
    BY <1>1, <1>2, PipeTypes DEF Landed
<1>4. /\ GoodFrame(f) /\ f.k = "frame" /\ f.m = sent + 1 /\ f.cell = NoCell
      /\ place'[sent'] = NoCell
  <2>0. place \in Seq(Cells \cup {NoCell}) /\ Len(place) = sent
      BY PipeTypes
  <2>1. place'[sent'] = NoCell
      BY <1>2, <1>3, <2>0, PlaceTypes
  <2>2. sent < MaxMsgs
      BY <1>2
  <2>3. f \in Frame
    <3>1. sent + 1 \in 0..MaxMsgs
        BY <1>3, <2>2, RecvConstants
    <3>. QED BY <1>0, <3>1 DEF Frame
  <2>4. f.k = "frame" /\ f.m = sent + 1 /\ f.cell = NoCell
      BY <1>0
  <2>. QED BY <2>1, <2>3, <2>4 DEF GoodFrame
<1>5. /\ PipeLen' = PipeLen + 1
      /\ \A i \in 1..PipeLen : PipeAt(i)' = PipeAt(i)
      /\ \A n : n = PipeLen + 1 => PipeAt(n)' = f
    BY <1>2, AddIsAppend
<1>6. NotifyInv' /\ HandInv' /\ ~Landed'
    BY <1>1, <1>2 DEF NotifyInv, HandInv, Hand, Landed
<1>7. ASSUME NEW i \in 1..PipeLen' PROVE Item(i, PipeAt(i))'
  <2>1. CASE i = PipeLen + 1
    <3>1. PipeAt(i)' = f
        BY <1>5, <2>1
    <3>2. sent' = sent + 1 /\ got' = got
        BY <1>2
    <3>3. f.m = sent' /\ f.m = Len(got') + i
        BY <1>3, <1>4, <2>1, <3>2
    <3>4. f.cell = place'[f.m] /\ f.k \notin {"write", "rw", "at"}
        BY <1>4, <3>3
    <3>. QED BY <1>4, <3>1, <3>3, <3>4 DEF Item
  <2>2. CASE i # PipeLen + 1
    <3>1. i \in 1..PipeLen
        BY <1>3, <1>5, <2>2
    <3>2. PipeAt(i)' = PipeAt(i)
        BY <1>5, <3>1
    <3>3. /\ place' = Append(place, NoCell) /\ NoCell \in Cells \cup {NoCell}
          /\ sent' = sent + 1 /\ cell' = cell /\ got' = got /\ notify = <<>>
        BY <1>2
    <3>. QED BY <3>1, <3>2, <3>3, OldItems
  <2>. QED BY <2>1, <2>2
<1>8. (sent = Len(got) + PipeLen + IF Landed THEN 1 ELSE 0)'
    BY <1>2, <1>3, <1>5, <1>6
<1>. QED BY <1>6, <1>7, <1>8 DEF PipeInv

LEMMA SendWriteKeeps ==
    ASSUME ChannelInv, ~Over, NEW k \in {"rw", "at"}, NEW c \in Cells,
           CanSend, SendWrite(k, c)
    PROVE  PipeInv'
<1>0. PICK f, n : /\ f = [k |-> "write", m |-> sent + 1, cell |-> c]
                  /\ n = [k |-> k, m |-> sent + 1, cell |-> c]
    OBVIOUS
<1>1. /\ sent = Len(got) + PipeLen + IF Landed THEN 1 ELSE 0
      /\ NotifyInv /\ HandInv
    BY PipeParts
<1>2. /\ sent' = sent + 1 /\ wire' = Append(wire, f) /\ notify' = <<n>> /\ notify = <<>>
      /\ place' = Append(place, c)
      /\ sent < MaxMsgs /\ UNCHANGED <<cq, buf, cell, rpc, cur, got>>
    BY <1>0 DEF SendWrite, CanSend, slotVars
<1>3. Len(got) \in Nat /\ PipeLen \in Nat /\ sent \in Nat /\ sent = Len(got) + PipeLen
    BY <1>1, <1>2, PipeTypes DEF Landed
<1>4. /\ GoodFrame(f) /\ f.k = "write" /\ f.m = sent + 1 /\ f.cell = c
      /\ GoodFrame(n) /\ n.k = k /\ n.m = sent + 1 /\ n.cell = c
      /\ place'[sent'] = c
  <2>1. sent + 1 \in 0..MaxMsgs /\ c # NoCell
      BY <1>2, <1>3, RecvConstants
  <2>0. place \in Seq(Cells \cup {NoCell}) /\ Len(place) = sent
      BY PipeTypes
  <2>2. place'[sent'] = c
      BY <1>2, <1>3, <2>0, PlaceTypes
  <2>3. f \in Frame /\ n \in Frame
      BY <1>0, <2>1 DEF Frame
  <2>4. /\ f.k = "write" /\ f.m = sent + 1 /\ f.cell = c
        /\ n.k = k /\ n.m = sent + 1 /\ n.cell = c
      BY <1>0
  <2>. QED BY <2>1, <2>2, <2>3, <2>4 DEF GoodFrame
<1>5. /\ PipeLen' = PipeLen + 1
      /\ \A i \in 1..PipeLen : PipeAt(i)' = PipeAt(i)
      /\ \A j : j = PipeLen + 1 => PipeAt(j)' = f
      /\ wire'[Len(wire')] = f /\ wire' # <<>>
    BY <1>2, AddIsAppend
<1>6. notify' # <<>> /\ Len(notify') = 1 /\ notify'[1] = n
    BY <1>2
<1>7. NotifyInv' /\ HandInv' /\ ~Landed'
    BY <1>1, <1>2, <1>4, <1>5, <1>6 DEF NotifyInv, HandInv, Hand, Landed
<1>8. ASSUME NEW i \in 1..PipeLen' PROVE Item(i, PipeAt(i))'
  <2>1. CASE i = PipeLen + 1
    <3>1. PipeAt(i)' = f
        BY <1>5, <2>1
    <3>2. sent' = sent + 1 /\ got' = got
        BY <1>2
    <3>3. f.m = sent' /\ f.m = Len(got') + i /\ i = PipeLen'
        BY <1>3, <1>4, <1>5, <2>1, <3>2
    <3>4. f.cell = place'[f.m]
        BY <1>4, <3>3
    <3>. QED BY <1>4, <1>5, <1>6, <3>1, <3>3, <3>4 DEF Item
  <2>2. CASE i # PipeLen + 1
    <3>1. i \in 1..PipeLen
        BY <1>3, <1>5, <2>2
    <3>2. PipeAt(i)' = PipeAt(i)
        BY <1>5, <3>1
    <3>3. /\ place' = Append(place, c) /\ c \in Cells \cup {NoCell}
          /\ sent' = sent + 1 /\ cell' = cell /\ got' = got /\ notify = <<>>
        BY <1>2
    <3>. QED BY <3>1, <3>2, <3>3, OldItems
  <2>. QED BY <2>1, <2>2
<1>9. (sent = Len(got) + PipeLen + IF Landed THEN 1 ELSE 0)'
    BY <1>2, <1>3, <1>5, <1>7
<1>. QED BY <1>7, <1>8, <1>9 DEF PipeInv

\* The WRITE has landed; its notify frame takes its place in the pipe.
LEMMA SendNotifyKeeps ==
    ASSUME ChannelInv, ~Over, SendNotify
    PROVE  PipeInv'
<1>1. /\ sent = Len(got) + PipeLen + IF Landed THEN 1 ELSE 0
      /\ NotifyInv /\ HandInv
      /\ \A i \in 1..PipeLen : Item(i, PipeAt(i))
    BY PipeParts
<1>2. /\ notify # <<>> /\ wire = <<>> /\ wire' = notify /\ notify' = <<>>
      /\ UNCHANGED <<sent, place, cq, buf, cell, rpc, cur, got>>
    BY DEF SendNotify, slotVars
<1>3. /\ Len(got) \in Nat /\ PipeLen \in Nat /\ sent \in Nat /\ sent = Len(got) + PipeLen + 1
    BY <1>1, <1>2, PipeTypes DEF Landed
<1>4. PICK n : n = notify[1]
    OBVIOUS
<1>5. /\ GoodFrame(n) /\ n.k \in {"rw", "at"} /\ n.m = sent /\ n.cell = place[sent]
      /\ cell[n.cell] = sent
    BY <1>1, <1>2, <1>4 DEF NotifyInv
<1>6. wire' = Append(wire, n)
  <2>1. notify \in Seq(Frame) /\ Len(notify) = 1
      BY <1>1, <1>2 DEF NotifyInv, ChannelInv, TypeInv, TypeOK
  <2>2. notify = <<n>>
      BY <1>4, <2>1
  <2>. QED BY <1>2, <2>2
<1>7. /\ PipeLen' = PipeLen + 1
      /\ \A i \in 1..PipeLen : PipeAt(i)' = PipeAt(i)
      /\ \A j : j = PipeLen + 1 => PipeAt(j)' = n
    BY <1>2, <1>6, AddIsAppend
<1>8. NotifyInv' /\ HandInv' /\ ~Landed'
    BY <1>1, <1>2 DEF NotifyInv, HandInv, Hand, Landed
<1>9. ASSUME NEW i \in 1..PipeLen' PROVE Item(i, PipeAt(i))'
  <2>1. CASE i = PipeLen + 1
    <3>1. PipeAt(i)' = n
        BY <1>7, <2>1
    <3>2. sent \in n.m..sent' /\ n.m = Len(got') + i
        BY <1>2, <1>3, <1>5, <2>1
    <3>. QED BY <1>2, <1>5, <3>1, <3>2 DEF Item, Shows
  <2>2. CASE i # PipeLen + 1
    <3>1. i \in 1..PipeLen /\ i \in Nat
        BY <1>3, <1>7, <2>2
    <3>2. PipeAt(i)' = PipeAt(i) /\ Item(i, PipeAt(i))
        BY <1>1, <1>7, <3>1
    <3>3. PipeAt(i).k # "write"
        BY <1>2, <3>2 DEF Item
    <3>. QED BY <1>2, <3>2, <3>3 DEF Item, Shows
  <2>. QED BY <2>1, <2>2
<1>10. (sent = Len(got) + PipeLen + IF Landed THEN 1 ELSE 0)'
    BY <1>2, <1>3, <1>7, <1>8
<1>. QED BY <1>8, <1>9, <1>10 DEF PipeInv

\* A WRITE lands: whoever is still to read that place finds its payload.
LEMMA LandWriteKeeps ==
    ASSUME ChannelInv, ~Over, Land, Head(wire).k = "write"
    PROVE  PipeInv'
<1>1. /\ sent = Len(got) + PipeLen + IF Landed THEN 1 ELSE 0
      /\ NotifyInv /\ HandInv
      /\ \A i \in 1..PipeLen : Item(i, PipeAt(i))
    BY PipeParts
<1>2. /\ wire # <<>> /\ wire' = Tail(wire)
      /\ cell' = [cell EXCEPT ![Head(wire).cell] = Head(wire).m]
      /\ UNCHANGED <<sent, place, notify, cq, buf, rpc, cur, got>>
    BY DEF Land, peerVars
<1>3. /\ Hands \in {0, 1} /\ Len(cq) \in Nat /\ Len(wire) \in Nat /\ PipeLen \in Nat
      /\ Len(got) \in Nat /\ sent \in Nat
      /\ PipeLen = Hands + Len(cq) + Len(wire)
    BY PipeTypes
<1>4. wire \in Seq(Frame) /\ Len(wire) >= 1 /\ Head(wire) = wire[1]
    BY <1>2 DEF ChannelInv, TypeInv, TypeOK
<1>5. PICK f, p : f = wire[1] /\ p = Hands + Len(cq) + 1
    OBVIOUS
<1>6. p \in 1..PipeLen /\ PipeAt(p) = f /\ Item(p, f)
  <2>1. p \in 1..PipeLen /\ ~(p <= Hands) /\ ~(p <= Hands + Len(cq)) /\ p - Hands - Len(cq) = 1
      BY <1>3, <1>4, <1>5
  <2>2. PipeAt(p) = f
      BY <1>5, <2>1 DEF PipeAt
  <2>. QED BY <1>1, <2>1, <2>2
<1>7. PICK n : n = notify[1]
    OBVIOUS
<1>8. p = PipeLen /\ notify # <<>> /\ f.m = Len(got) + PipeLen /\ f.cell = place[f.m]
    BY <1>4, <1>5, <1>6 DEF Item
<1>9. Len(wire) = 1 /\ sent = Len(got) + PipeLen /\ f.m = sent
  <2>1. ~Landed
      BY <1>2 DEF Landed
  <2>2. sent = Len(got) + PipeLen + 0
      BY <1>1, <2>1
  <2>3. Len(wire) = 1
    <3>1. Hands + Len(cq) + 1 = Hands + Len(cq) + Len(wire)
        BY <1>3, <1>5, <1>8
    <3>2. Hands \in Int /\ Len(cq) \in Int /\ Len(wire) \in Int
        BY <1>3
    <3>3. \A h, c, w \in Int : h + c + 1 = h + c + w => w = 1
        OBVIOUS
    <3>. QED BY <3>1, <3>2, <3>3
  <2>. QED BY <1>3, <1>8, <2>2, <2>3
<1>10. wire' = <<>> /\ Len(wire') = 0
    BY <1>2, <1>4, <1>9
<1>11. Hands' = Hands /\ Hand' = Hand
    BY <1>2 DEF Hands, Hand, InHand
<1>12. PipeLen' = PipeLen - 1
  <2>1. PipeLen' = Hands' + Len(cq') + Len(wire')
      BY DEF PipeLen
  <2>2. PipeLen' = Hands + Len(cq) + 0
      BY <1>2, <1>10, <1>11, <2>1
  <2>. QED BY <1>3, <1>9, <2>2
<1>13. ASSUME NEW i \in 1..(PipeLen - 1) PROVE PipeAt(i)' = PipeAt(i)
  <2>1. i <= Hands + Len(cq)
      BY <1>3, <1>9
  <2>. QED BY <1>2, <1>11, <2>1 DEF PipeAt
<1>14. /\ GoodFrame(n) /\ n.k \in {"rw", "at"} /\ n.m = sent /\ Len(notify) = 1
       /\ n.cell = place[sent]
    BY <1>1, <1>7, <1>8 DEF NotifyInv
<1>15. n.cell \in Cells /\ cell' = [cell EXCEPT ![n.cell] = sent] /\ cell \in [Cells -> 0..MaxMsgs]
  <2>1. f.cell = n.cell
      BY <1>8, <1>9, <1>14
  <2>2. n.cell \in Cells
      BY <1>14 DEF GoodFrame, Frame
  <2>3. cell' = [cell EXCEPT ![n.cell] = sent]
      BY <1>2, <1>4, <1>5, <1>9, <2>1
  <2>. QED BY <2>2, <2>3 DEF ChannelInv, TypeInv, TypeOK
<1>16. NotifyInv' /\ HandInv' /\ Landed'
  <2>1. cell'[n.cell] = sent
      BY <1>15
  <2>2. NotifyInv'
      BY <1>2, <1>7, <1>8, <1>10, <1>14, <2>1 DEF NotifyInv
  <2>. QED BY <1>1, <1>2, <1>8, <1>10, <1>11, <2>2 DEF HandInv, Landed
<1>17. ASSUME NEW i \in 1..(PipeLen - 1) PROVE Item(i, PipeAt(i))'
  <2>1. i \in 1..PipeLen /\ i # PipeLen /\ i \in Nat
      BY <1>3
  <2>2. PICK g : g = PipeAt(i)
      OBVIOUS
  <2>3. Item(i, g) /\ PipeAt(i)' = g
      BY <1>1, <1>13, <2>1, <2>2
  <2>4. /\ GoodFrame(g) /\ g.m = Len(got) + i /\ g.cell = place[g.m] /\ g.k # "write"
        /\ g.k \in {"rw", "at"} => Shows(g)
      BY <2>1, <2>3 DEF Item
  <2>5. g.m \in 0..sent /\ sent \in g.m..sent
      BY <1>3, <1>9, <2>1, <2>4
  <2>6. ASSUME g.k \in {"rw", "at"} PROVE Shows(g)'
    <3>1. g.cell \in Cells
        BY <2>4, <2>6 DEF GoodFrame, Frame
    <3>2. CASE g.cell = n.cell
      <4>1. cell'[g.cell] = sent
          BY <1>15, <3>2
      <4>. QED BY <1>2, <1>14, <2>5, <3>2, <4>1 DEF Shows
    <3>3. CASE g.cell # n.cell
      <4>1. cell'[g.cell] = cell[g.cell]
          BY <1>15, <3>1, <3>3
      <4>. QED BY <1>2, <2>4, <2>6, <4>1 DEF Shows
    <3>. QED BY <3>2, <3>3
  <2>. QED BY <1>2, <2>3, <2>4, <2>6 DEF Item
<1>18. (sent = Len(got) + PipeLen + IF Landed THEN 1 ELSE 0)'
    BY <1>2, <1>3, <1>9, <1>12, <1>16
<1>. QED BY <1>12, <1>16, <1>17, <1>18 DEF PipeInv

\* A SEND moves from the wire to the completed slots.
LEMMA LandFrameKeeps ==
    ASSUME ChannelInv, ~Over, Land, Head(wire).k # "write"
    PROVE  SamePipe /\ HandInv'
<1>1. NotifyInv /\ HandInv
    BY PipeParts
<1>2. /\ wire # <<>> /\ wire' = Tail(wire) /\ rq # <<>>
      /\ buf' = [buf EXCEPT ![Head(rq)] = Head(wire)]
      /\ cq' = Append(cq, Head(rq))
      /\ UNCHANGED <<sent, place, notify, cell, rpc, cur, got>>
    BY DEF Land, peerVars
<1>3. /\ Hands \in {0, 1} /\ Len(cq) \in Nat /\ Len(wire) \in Nat /\ PipeLen \in Nat
      /\ PipeLen = Hands + Len(cq) + Len(wire)
    BY PipeTypes
<1>4. /\ wire \in Seq(Frame) /\ Len(wire) >= 1 /\ Head(wire) = wire[1]
      /\ Len(wire') = Len(wire) - 1 /\ \A i \in 1..Len(wire') : wire'[i] = wire[i + 1]
    BY <1>2 DEF ChannelInv, TypeInv, TypeOK
<1>5. /\ rq \in Seq(Slots) /\ cq \in Seq(Slots) /\ Head(rq) \in Slots /\ Head(rq) \in In(rq)
      /\ buf \in [Slots -> Frame]
  <2>1. rq \in Seq(Slots) /\ cq \in Seq(Slots) /\ buf \in [Slots -> Frame]
      BY DEF ChannelInv, TypeInv, TypeOK
  <2>2. Head(rq) = rq[1] /\ 1 \in 1..Len(rq)
      BY <1>2, <2>1
  <2>. QED BY <2>1, <2>2 DEF In
<1>6. /\ Len(cq') = Len(cq) + 1 /\ cq'[Len(cq) + 1] = Head(rq)
      /\ \A j \in 1..Len(cq) : cq'[j] = cq[j] /\ cq[j] \in Slots /\ cq[j] \in In(cq)
    BY <1>2, <1>3, <1>5 DEF In
<1>7. \A s \in Slots : s \notin In(rq) => buf'[s] = buf[s]
    BY <1>2, <1>5
<1>8. In(rq) \cap In(cq) = {} /\ last \notin In(rq)
    BY DEF ChannelInv, RingInv, SlotOnce
<1>9. Hands' = Hands /\ InHand' = InHand
    BY <1>2 DEF Hands, InHand
<1>10. InHand => Hand' = Hand
  <2>1. rpc \in {"parse", "copy"} => cur.slot \in Slots /\ cur.slot = last
      BY DEF ChannelInv, TypeInv, CurInv, HoldInv, Views
  <2>2. rpc \in {"parse", "copy"} => buf'[cur.slot] = buf[cur.slot]
      BY <1>7, <1>8, <2>1
  <2>. QED BY <1>2, <2>2 DEF Hand
<1>11. HandInv'
    BY <1>1, <1>2, <1>10 DEF HandInv, InHand
<1>12. PipeLen' = PipeLen
    BY <1>3, <1>4, <1>6, <1>9 DEF PipeLen
<1>13. ASSUME NEW i \in 1..PipeLen PROVE PipeAt(i)' = PipeAt(i)
  <2>1. CASE i <= Hands
      BY <1>3, <1>9, <1>10, <2>1 DEF PipeAt, Hands
  <2>2. CASE ~(i <= Hands) /\ i <= Hands + Len(cq)
    <3>1. i - Hands \in 1..Len(cq) /\ i <= Hands + Len(cq')
        BY <1>3, <1>6, <2>2
    <3>2. PipeAt(i)' = buf'[cq'[i - Hands]] /\ PipeAt(i) = buf[cq[i - Hands]]
        BY <1>9, <2>2, <3>1 DEF PipeAt
    <3>3. cq'[i - Hands] = cq[i - Hands] /\ cq[i - Hands] \in Slots /\ cq[i - Hands] \notin In(rq)
        BY <1>6, <1>8, <3>1
    <3>. QED BY <1>7, <3>2, <3>3
  <2>3. CASE i = Hands + Len(cq) + 1
    <3>1. /\ ~(i <= Hands) /\ ~(i <= Hands + Len(cq)) /\ i <= Hands + Len(cq')
          /\ i - Hands = Len(cq) + 1 /\ i - Hands - Len(cq) = 1
        BY <1>3, <1>6, <2>3
    <3>2. PipeAt(i)' = buf'[cq'[i - Hands]] /\ PipeAt(i) = wire[1]
        BY <1>9, <3>1 DEF PipeAt
    <3>3. buf'[Head(rq)] = wire[1]
        BY <1>2, <1>4, <1>5
    <3>. QED BY <1>6, <3>1, <3>2, <3>3
  <2>4. CASE ~(i <= Hands + Len(cq) + 1)
    <3>1. /\ ~(i <= Hands) /\ ~(i <= Hands + Len(cq)) /\ ~(i <= Hands + Len(cq'))
          /\ i - Hands - Len(cq') \in 1..Len(wire')
          /\ i - Hands - Len(cq') + 1 = i - Hands - Len(cq)
        BY <1>3, <1>4, <1>6, <2>4
    <3>2. PipeAt(i)' = wire'[i - Hands - Len(cq')] /\ PipeAt(i) = wire[i - Hands - Len(cq)]
        BY <1>9, <3>1 DEF PipeAt
    <3>. QED BY <1>4, <3>1, <3>2
  <2>. QED BY <1>3, <2>1, <2>2, <2>3, <2>4
<1>14. notify # <<>> => wire' # <<>> /\ wire'[Len(wire')].k = "write"
  <2> SUFFICES ASSUME notify # <<>> PROVE wire' # <<>> /\ wire'[Len(wire')].k = "write"
      OBVIOUS
  <2>1. wire[Len(wire)].k = "write"
      BY <1>1, <1>2 DEF NotifyInv
  <2>2. Len(wire) # 1
      BY <1>4, <2>1
  <2>3. Len(wire') \in 1..Len(wire') /\ Len(wire') + 1 = Len(wire)
      BY <1>3, <1>4, <2>2
  <2>4. wire'[Len(wire')] = wire[Len(wire)]
      BY <1>4, <2>3
  <2>. QED BY <2>1, <2>3, <2>4
<1>. QED BY <1>2, <1>11, <1>12, <1>13, <1>14 DEF SamePipe

\* The receiving goroutine delivers nothing in this step.
LEMMA ReceiveKeeps ==
    ASSUME ChannelInv, ~Over, ~Over', got' = got,
           Receiver \/ RecvTimeout \/ RecvExpired \/ Stop
    PROVE  SamePipe /\ HandInv'
<1>1. HandInv /\ NotifyInv /\ cc = "open"
    BY PipeParts DEF Over
<1>2. /\ Hands \in {0, 1} /\ Len(cq) \in Nat /\ Len(wire) \in Nat /\ PipeLen \in Nat
      /\ PipeLen = Hands + Len(cq) + Len(wire) /\ Len(got) \in Nat
    BY PipeTypes
<1>3. TypeInv /\ got \in Seq(0..MaxMsgs) /\ \A x : Append(got, x) # got
  <2>1. TypeInv /\ got \in Seq(0..MaxMsgs)
      BY DEF ChannelInv, TypeInv, TypeOK
  <2>2. \A x : Len(Append(got, x)) = Len(got) + 1
      BY <2>1
  <2>. QED BY <1>2, <2>1, <2>2
<1>4. UNCHANGED <<sent, place, notify, wire, cell>>
    BY DEF Receiver, Call, RecvFrame, RecvCompletion, Parse, RwGet, RwRepost, RwCopy, Copy,
           CopyRelease, RecvTimeout, RecvExpired, Stop, recvRest, peerVars
<1>5. notify # <<>> /\ wire # <<>> => wire[Len(wire)].k = "write"
    BY <1>1 DEF NotifyInv
<1>6. ASSUME UNCHANGED <<cq, buf>>, InHand' <=> InHand, InHand => Hand' = Hand
      PROVE  SamePipe
  <2>1. Hands' = Hands
      BY <1>6 DEF Hands
  <2>2. PipeLen' = PipeLen
      BY <1>4, <1>6, <2>1 DEF PipeLen
  <2>3. ASSUME NEW i \in 1..PipeLen PROVE PipeAt(i)' = PipeAt(i)
    <3>1. CASE i <= Hands
      <4>1. InHand
          BY <3>1 DEF Hands
      <4>. QED BY <1>6, <2>1, <3>1, <4>1 DEF PipeAt
    <3>2. CASE ~(i <= Hands)
        BY <1>4, <1>6, <2>1, <3>2 DEF PipeAt
    <3>. QED BY <3>1, <3>2
  <2>. QED BY <1>4, <1>5, <2>2, <2>3 DEF SamePipe
<1>7. CASE \/ \E c \in {"message", "borrow"} : Call(c)
           \/ RecvFrame \/ RecvTimeout \/ RecvExpired \/ Stop
  <2>1. ~InHand /\ ~InHand' /\ UNCHANGED <<cq, buf>>
      BY <1>7 DEF Call, RecvFrame, RecvTimeout, RecvExpired, Stop, Die, Idle, InHand, slotVars
  <2>2. HandInv'
      BY <2>1 DEF HandInv, InHand
  <2>3. SamePipe
      BY <1>6, <2>1
  <2>. QED BY <2>2, <2>3
<1>8. CASE RecvCompletion
  <2>1. /\ rpc = "wait" /\ rpc' = "parse" /\ cq # <<>> /\ cq' = Tail(cq)
        /\ cur' = [cur EXCEPT !.slot = Head(cq)] /\ UNCHANGED buf
      BY <1>8 DEF RecvCompletion
  <2>2. /\ Len(cq) >= 1 /\ Len(cq') = Len(cq) - 1 /\ Head(cq) = cq[1]
        /\ \A j \in 1..Len(cq') : cq'[j] = cq[j + 1]
      BY <1>3, <2>1 DEF TypeInv, TypeOK
  <2>3. Hands = 0 /\ Hands' = 1 /\ Hand' = buf[cq[1]]
    <3>1. cur'.slot = Head(cq)
        BY <1>3, <2>1 DEF TypeInv, TypeOK
    <3>. QED BY <2>1, <2>2, <3>1 DEF Hands, InHand, Hand
  <2>4. PipeLen' = PipeLen
    <3>1. PipeLen' = 1 + Len(cq') + Len(wire)
        BY <1>4, <2>3 DEF PipeLen
    <3>. QED BY <1>2, <2>2, <2>3, <3>1
  <2>5. ASSUME NEW i \in 1..PipeLen PROVE PipeAt(i)' = PipeAt(i)
    <3>1. CASE i = 1
      <4>1. ~(i <= 0) /\ i <= 0 + Len(cq) /\ i <= 1 /\ i - 0 = 1
          BY <2>2, <3>1
      <4>2. PipeAt(i)' = Hand'
          BY <2>3, <4>1 DEF PipeAt
      <4>3. PipeAt(i) = buf[cq[1]]
          BY <2>3, <4>1 DEF PipeAt
      <4>. QED BY <2>3, <4>2, <4>3
    <3>2. CASE i # 1 /\ i <= Len(cq)
      <4>1. /\ ~(i <= 0) /\ ~(i <= 1) /\ i <= 0 + Len(cq) /\ i <= 1 + Len(cq')
            /\ i - 1 \in 1..Len(cq') /\ i - 0 = i /\ (i - 1) + 1 = i
          BY <1>2, <2>2, <3>2
      <4>2. PipeAt(i)' = buf'[cq'[i - 1]]
          BY <2>3, <4>1 DEF PipeAt
      <4>3. PipeAt(i) = buf[cq[i]]
          BY <2>3, <4>1 DEF PipeAt
      <4>. QED BY <2>1, <2>2, <4>1, <4>2, <4>3
    <3>3. CASE ~(i <= Len(cq))
      <4>1. /\ ~(i <= 0) /\ ~(i <= 1) /\ ~(i <= 0 + Len(cq)) /\ ~(i <= 1 + Len(cq'))
            /\ i - 1 - Len(cq') = i - 0 - Len(cq)
          BY <1>2, <2>2, <3>3
      <4>2. PipeAt(i)' = wire'[i - 1 - Len(cq')]
          BY <2>3, <4>1 DEF PipeAt
      <4>3. PipeAt(i) = wire[i - 0 - Len(cq)]
          BY <2>3, <4>1 DEF PipeAt
      <4>. QED BY <1>4, <4>1, <4>2, <4>3
    <3>. QED BY <3>1, <3>2, <3>3
  <2>6. HandInv'
      BY <2>1 DEF HandInv
  <2>7. got' = got
      OBVIOUS
  <2>. QED BY <1>4, <1>5, <2>4, <2>5, <2>6, <2>7 DEF SamePipe
<1>9. CASE Parse
  <2>1. PICK f \in View(cur.slot) :
          \/ f.cell # NoCell /\ rpc' = "rwget" /\ cur' = [cur EXCEPT !.f = f]
          \/ f.cell = NoCell /\ rpc' = "copy" /\ UNCHANGED cur
      BY <1>1, <1>3, <1>9 DEF Parse, Deliver
  <2>2. rpc = "parse" /\ UNCHANGED <<cq, buf>> /\ f = buf[cur.slot]
      BY <1>1, <1>9 DEF Parse, View
  <2>3. /\ InHand /\ InHand' /\ Hand' = Hand /\ HandInv'
    <3>1. CASE f.cell # NoCell /\ rpc' = "rwget" /\ cur' = [cur EXCEPT !.f = f]
      <4>1. cur'.f = f
          BY <1>3, <3>1 DEF TypeInv, TypeOK
      <4>. QED BY <2>2, <3>1, <4>1 DEF InHand, Hand, HandInv
    <3>2. CASE f.cell = NoCell /\ rpc' = "copy" /\ UNCHANGED cur
        BY <2>2, <3>2 DEF InHand, Hand, HandInv
    <3>. QED BY <2>1, <3>1, <3>2
  <2>. QED BY <1>6, <2>2, <2>3
<1>10. CASE RwGet \/ RwRepost
  <2>1. /\ rpc \in {"rwget", "repost"} /\ rpc' \in {"repost", "rwcopy"} /\ UNCHANGED cur
        /\ UNCHANGED <<cq, buf>>
      BY <1>1, <1>3, <1>10 DEF RwGet, RwRepost, Die, Deliver, Over, slotVars
  <2>2. InHand /\ InHand' /\ Hand' = Hand /\ HandInv'
      BY <1>1, <2>1 DEF InHand, Hand, HandInv
  <2>. QED BY <1>6, <2>1, <2>2
<1>11. CASE Copy
  <2>1. PICK f \in View(cur.slot) : cur' = [cur EXCEPT !.f = f]
      BY <1>11 DEF Copy
  <2>2. rpc = "copy" /\ rpc' = "release" /\ UNCHANGED <<cq, buf>> /\ f = buf[cur.slot]
      BY <1>1, <1>11 DEF Copy, View, slotVars
  <2>3. cur'.f = f
      BY <1>3, <2>1 DEF TypeInv, TypeOK
  <2>4. InHand /\ InHand' /\ Hand' = Hand /\ HandInv'
      BY <1>1, <2>2, <2>3 DEF InHand, Hand, HandInv
  <2>. QED BY <1>6, <2>2, <2>4
<1>12. ~RwCopy /\ ~CopyRelease
    BY <1>1, <1>3 DEF RwCopy, CopyRelease, Die, Deliver, Over
<1>. QED BY <1>7, <1>8, <1>9, <1>10, <1>11, <1>12 DEF Receiver

\* The receiver of an RW message in hand finds a payload in its place.
LEMMA HandPayload ==
    ASSUME ChannelInv, ~Over, rpc \in {"repost", "rwcopy"}
    PROVE  cur.f.m = Len(got) + 1 /\ Finds(Len(got) + 1, cell[cur.f.cell])
<1>1. Hand = cur.f /\ Hands = 1
    BY DEF Hand, Hands, InHand
<1>2. HandInv /\ \A i \in 1..PipeLen : Item(i, PipeAt(i))
    BY PipeParts
<1>3. /\ Len(cq) \in Nat /\ Len(wire) \in Nat /\ PipeLen \in Nat
      /\ PipeLen = 1 + Len(cq) + Len(wire)
    BY <1>1, PipeTypes
<1>4. Item(1, cur.f)
  <2>1. 1 \in 1..PipeLen /\ PipeAt(1) = cur.f
      BY <1>1, <1>3 DEF PipeAt
  <2>. QED BY <1>2, <2>1
<1>5. cur.f.k # "write"
  <2> SUFFICES ASSUME cur.f.k = "write" PROVE FALSE
      OBVIOUS
  <2>1. PipeLen = 1 /\ wire # <<>>
      BY <1>4 DEF Item
  <2>2. Len(wire) >= 1
      BY <2>1 DEF ChannelInv, TypeInv, TypeOK
  <2>. QED BY <1>3, <2>1, <2>2
<1>6. cur.f.cell # NoCell
    BY <1>1, <1>2 DEF HandInv
<1>7. cur.f.k \in {"rw", "at"}
    BY <1>4, <1>5, <1>6 DEF Item, GoodFrame, Frame
<1>8. cur.f.m = Len(got) + 1 /\ cur.f.cell = place[Len(got) + 1] /\ Shows(cur.f)
    BY <1>4, <1>7 DEF Item
<1>. QED BY <1>6, <1>8 DEF Shows, Finds

\* The message of a SEND frame in hand is the next one.
LEMMA HandMessage ==
    ASSUME ChannelInv, ~Over, InHand
    PROVE  Finds(Len(got) + 1, Hand.m)
<1>1. Hands = 1
    BY DEF Hands
<1>2. /\ sent = Len(got) + PipeLen + IF Landed THEN 1 ELSE 0
      /\ \A i \in 1..PipeLen : Item(i, PipeAt(i))
    BY PipeParts
<1>3. /\ Len(cq) \in Nat /\ Len(wire) \in Nat /\ PipeLen \in Nat
      /\ PipeLen = 1 + Len(cq) + Len(wire) /\ Len(got) \in Nat /\ sent \in Nat
    BY <1>1, PipeTypes
<1>4. 1 \in 1..PipeLen /\ PipeAt(1) = Hand
    BY <1>1, <1>3 DEF PipeAt
<1>5. Hand.m = Len(got) + 1
    BY <1>2, <1>4 DEF Item
<1>6. Len(got) + 1 \in (Len(got) + 1)..sent
    BY <1>2, <1>3
<1>. QED BY <1>5, <1>6 DEF Finds

\* Whatever is delivered is the first element of the pipe.
LEMMA DeliversFirst ==
    ASSUME ChannelInv, ~Over, got' # got, Receiver
    PROVE  InHand /\ Pop /\ HandInv' /\ rpc' = "idle" /\ cc' = cc
<1>0. cc = "open"
    BY DEF Over
<1>1. /\ rpc' = "idle" /\ UNCHANGED <<cq, buf, sent, place, notify, wire, cell, cc>> /\ InHand
      /\ \E v : Finds(Len(got) + 1, v) /\ got' = Append(got, v)
  <2>1. CASE Parse
    <3>1. PICK f \in View(cur.slot) : Idle /\ got' = Append(got, f.m)
        BY <1>0, <2>1 DEF Parse, Deliver
    <3>2. rpc = "parse" /\ f = buf[cur.slot]
        BY <1>0, <2>1 DEF Parse, View
    <3>3. InHand /\ Hand = f
        BY <3>2 DEF InHand, Hand
    <3>4. Finds(Len(got) + 1, f.m)
        BY <3>3, HandMessage
    <3>5. UNCHANGED <<cq, buf, sent, place, notify, wire, cell, cc>> /\ rpc' = "idle"
        BY <2>1, <3>1 DEF Parse, Idle, recvRest, peerVars, closeVars
    <3>. QED BY <3>1, <3>3, <3>4, <3>5
  <2>2. CASE RwRepost
    <3>1. rpc = "repost" /\ Idle /\ got' = Append(got, cell[cur.f.cell])
        BY <1>0, <2>2 DEF RwRepost, Deliver
    <3>2. Finds(Len(got) + 1, cell[cur.f.cell])
        BY <3>1, HandPayload
    <3>3. UNCHANGED <<cq, buf, sent, place, notify, wire, cell, cc>> /\ rpc' = "idle" /\ InHand
        BY <2>2, <3>1 DEF RwRepost, Idle, recvRest, peerVars, closeVars, InHand
    <3>. QED BY <3>1, <3>2, <3>3
  <2>3. CASE RwCopy
    <3>1. rpc = "rwcopy" /\ Idle /\ got' = Append(got, cell[cur.f.cell])
        BY <1>0, <2>3 DEF RwCopy, Deliver
    <3>2. Finds(Len(got) + 1, cell[cur.f.cell])
        BY <3>1, HandPayload
    <3>3. UNCHANGED <<cq, buf, sent, place, notify, wire, cell, cc>> /\ rpc' = "idle" /\ InHand
        BY <2>3, <3>1 DEF RwCopy, Idle, recvRest, peerVars, slotVars, closeVars, InHand
    <3>. QED BY <3>1, <3>2, <3>3
  <2>4. CASE CopyRelease
    <3>1. rpc = "release" /\ Idle /\ got' = Append(got, cur.f.m)
        BY <1>0, <2>4 DEF CopyRelease, Deliver
    <3>2. InHand /\ Hand = cur.f
        BY <3>1 DEF InHand, Hand
    <3>3. Finds(Len(got) + 1, cur.f.m)
        BY <3>2, HandMessage
    <3>4. UNCHANGED <<cq, buf, sent, place, notify, wire, cell, cc>> /\ rpc' = "idle"
        BY <2>4, <3>1 DEF CopyRelease, Idle, recvRest, peerVars, closeVars
    <3>. QED BY <3>1, <3>2, <3>3, <3>4
  <2>5. got' # got
      OBVIOUS
  <2>. QED BY <2>1, <2>2, <2>3, <2>4, <2>5
           DEF Receiver, Call, RecvFrame, RecvCompletion, RwGet, Copy
<1>2. /\ Hands = 1 /\ Len(cq) \in Nat /\ Len(wire) \in Nat /\ PipeLen \in Nat
      /\ PipeLen = Hands + Len(cq) + Len(wire) /\ Hands' = 0 /\ HandInv'
    BY <1>1, PipeTypes DEF Hands, InHand, HandInv
<1>4. PipeLen' = PipeLen - 1
  <2>1. PipeLen' = 0 + Len(cq) + Len(wire)
      BY <1>1, <1>2 DEF PipeLen
  <2>. QED BY <1>2, <2>1
<1>5. ASSUME NEW i \in 1..(PipeLen - 1) PROVE PipeAt(i)' = PipeAt(i + 1)
  <2>1. CASE i <= Len(cq)
    <3>1. /\ ~(i <= 0) /\ i <= 0 + Len(cq) /\ i - 0 = i
          /\ ~(i + 1 <= 1) /\ i + 1 <= 1 + Len(cq) /\ i + 1 - 1 = i
        BY <1>2, <2>1
    <3>2. PipeAt(i)' = buf[cq[i]]
        BY <1>1, <1>2, <3>1 DEF PipeAt
    <3>3. PipeAt(i + 1) = buf[cq[i]]
        BY <1>2, <3>1 DEF PipeAt
    <3>. QED BY <3>2, <3>3
  <2>2. CASE ~(i <= Len(cq))
    <3>1. /\ ~(i <= 0) /\ ~(i <= 0 + Len(cq)) /\ i - 0 - Len(cq) = i - Len(cq)
          /\ ~(i + 1 <= 1) /\ ~(i + 1 <= 1 + Len(cq)) /\ i + 1 - 1 - Len(cq) = i - Len(cq)
        BY <1>2, <2>2
    <3>2. PipeAt(i)' = wire[i - Len(cq)]
        BY <1>1, <1>2, <3>1 DEF PipeAt
    <3>3. PipeAt(i + 1) = wire[i - Len(cq)]
        BY <1>2, <3>1 DEF PipeAt
    <3>. QED BY <3>2, <3>3
  <2>. QED BY <2>1, <2>2
<1>. QED BY <1>1, <1>2, <1>4, <1>5 DEF Pop

\* After an error or Close the channel is over for good and nothing more is delivered;
\* the step that ends it delivers nothing either.
LEMMA OverStays ==
    ASSUME [Next]_vars, ChannelInv
    PROVE  /\ Over => Over' /\ got' = got
           /\ Over' => got' = got
<1>1. CASE \/ SendFrame \/ SendRW \/ SendNotify \/ Land \/ (\E c \in Offsets : SendAt(c))
           \/ (\E h \in held : Release(h)) \/ UNCHANGED vars
  <2>1. UNCHANGED <<rpc, cc, got>>
      BY <1>1 DEF SendFrame, SendRW, SendNotify, Land, SendAt, SendWrite, Release, vars,
                  recvRest, closeVars
  <2>. QED BY <2>1 DEF Over
<1>2. CASE RecvBroken \/ RecvTimeout \/ RecvExpired \/ Stop
  <2>1. got' = got /\ cc' = cc /\ rpc # "dead"
      BY <1>2 DEF RecvBroken, RecvTimeout, RecvExpired, Stop, recvRest, closeVars
  <2>. QED BY <2>1 DEF Over
<1>3. CASE Close
  <2>1. got' = got /\ rpc' = rpc /\ (cc # "open" => cc' # "open")
      BY <1>3 DEF Close, CloseBegin, CloseLocked, CloseFree, closeRest
  <2>. QED BY <2>1 DEF Over
<1>4. CASE Receiver
  <2>1. cc' = cc /\ rpc # "dead"
      BY <1>4 DEF Receiver, Call, RecvFrame, RecvCompletion, Parse, RwGet, RwRepost, RwCopy,
                  Copy, CopyRelease, recvRest, closeVars
  <2>2. CASE Over
    <3>1. cc # "open"
        BY <2>1, <2>2 DEF Over
    <3>2. got' = got
        BY <1>4, <3>1 DEF Receiver, Call, RecvFrame, RecvCompletion, Parse, RwGet, RwRepost,
                          RwCopy, Copy, CopyRelease, Deliver
    <3>. QED BY <2>1, <3>1, <3>2 DEF Over
  <2>3. CASE ~Over
      BY <1>4, <2>1, <2>3, DeliversFirst DEF Over
  <2>. QED BY <2>2, <2>3
<1>. QED BY <1>1, <1>2, <1>3, <1>4 DEF Next

\* A step of a channel that is not over and does not end.
LEMMA NextPipe ==
    ASSUME ChannelInv, ~Over, [Next]_vars, ~Over'
    PROVE  PipeInv'
<1>1. CASE SendFrame
    BY <1>1, SendFrameKeeps
<1>2. CASE SendRW
  <2>1. RwCell \in Cells /\ CanSend /\ SendWrite("rw", RwCell)
    <3>1. rwSeq \in Nat
        BY DEF ChannelInv, TypeInv, TypeOK
    <3>. QED BY <1>2, <3>1, RecvConstants DEF SendRW, RwCell
  <2>. QED BY <2>1, SendWriteKeeps
<1>3. CASE \E c \in Offsets : SendAt(c)
  <2>1. PICK c \in Offsets : SendAt(c)
      BY <1>3
  <2>2. c \in Cells /\ CanSend /\ SendWrite("at", c)
      BY <2>1, RecvConstants DEF SendAt
  <2>. QED BY <2>2, SendWriteKeeps
<1>4. CASE SendNotify
    BY <1>4, SendNotifyKeeps
<1>5. CASE Land
    BY <1>5, LandWriteKeeps, LandFrameKeeps, SameKeeps
<1>6. CASE Receiver \/ RecvTimeout \/ RecvExpired \/ Stop
  <2>1. CASE got' = got
      BY <1>6, <2>1, ReceiveKeeps, SameKeeps
  <2>2. CASE got' # got
    <3>1. Receiver
        BY <1>6, <2>2 DEF RecvTimeout, RecvExpired, Stop
    <3>. QED BY <2>2, <3>1, DeliversFirst, PopKeeps
  <2>. QED BY <2>1, <2>2
<1>7. CASE (\E h \in held : Release(h)) \/ CloseBegin \/ UNCHANGED vars
  <2>1. UNCHANGED <<cq, buf, rpc, cur, got, sent, place, notify, wire, cell>>
      BY <1>7 DEF Release, CloseBegin, closeRest, vars, recvRest, peerVars, slotVars
  <2>2. PipeLen' = PipeLen /\ \A i \in 1..PipeLen : PipeAt(i)' = PipeAt(i)
      BY <2>1 DEF PipeLen, PipeAt, Hands, Hand, InHand
  <2>3. HandInv' /\ NotifyInv
      BY <2>1, PipeParts DEF HandInv, Hand
  <2>4. SamePipe
      BY <2>1, <2>2, <2>3 DEF SamePipe, NotifyInv
  <2>. QED BY <2>3, <2>4, SameKeeps
<1>8. ~CloseLocked /\ ~CloseFree /\ ~RecvBroken
    BY DEF CloseLocked, CloseFree, RecvBroken, Die, Over
<1>. QED BY <1>1, <1>2, <1>3, <1>4, <1>5, <1>6, <1>7, <1>8 DEF Next, Close

LEMMA NextChannel == ASSUME ~Ahead PROVE ChannelInv /\ [Next]_vars => ChannelInv'
<1> SUFFICES ASSUME ChannelInv, [Next]_vars PROVE ChannelInv'
    OBVIOUS
<1>1. TypeInv' /\ RingInv' /\ HoldInv'
    BY NextTypes, NextRing, NextHold DEF ChannelInv
<1>2. PipeInv'
  <2>1. CASE Over'
      BY <2>1 DEF PipeInv
  <2>2. CASE ~Over'
      BY <2>2, OverStays, NextPipe
  <2>. QED BY <2>1, <2>2
<1>. QED BY <1>1, <1>2 DEF ChannelInv

LEMMA InitChannel == Init => ChannelInv
<1> SUFFICES ASSUME Init PROVE ChannelInv
    OBVIOUS
<1>1. TypeInv /\ RingInv /\ HoldInv
    BY InitTypes, InitRing, InitViews
<1>2. sent = 0 /\ notify = <<>> /\ wire = <<>> /\ cq = <<>> /\ rpc = "idle" /\ got = <<>>
    BY DEF Init
<1>3. PipeLen = 0
    BY <1>2 DEF PipeLen, Hands, InHand
<1>4. PipeInv
    BY <1>2, <1>3 DEF PipeInv, NotifyInv, HandInv, Landed
<1>. QED BY <1>1, <1>4 DEF ChannelInv

-----------------------------------------------------------------------------
(***************************************************************************)
(* The refinement.                                                         *)
(***************************************************************************)
\* Message j, with the places p, and the messages g + 1 .. n.
Msg(p, j) == [id |-> j, place |-> p[j]]
Numbers(g, n, p) == [i \in 1..(n - g) |-> Msg(p, g + i)]
Lists(a, g, n, p) == /\ a \in Seq(Message) /\ Len(a) = n - g
                     /\ \A i \in 1..(n - g) : a[i] = Msg(p, g + i)
Made(n, p) == \A j \in 1..n : Msg(p, j) \in Message

LEMMA SameSequence ==
    ASSUME NEW S, NEW a \in Seq(S), NEW b \in Seq(S), Len(a) = Len(b),
           \A i \in 1..Len(a) : a[i] = b[i]
    PROVE  a = b
OBVIOUS

LEMMA NumbersAre ==
    ASSUME NEW g \in Nat, NEW n \in Nat, g <= n, NEW p, Made(n, p)
    PROVE  Lists(Numbers(g, n, p), g, n, p)
<1>1. n - g \in Nat /\ \A i \in 1..(n - g) : g + i \in 1..n
    OBVIOUS
<1>2. \A i \in 1..(n - g) : Msg(p, g + i) \in Message
    BY <1>1 DEF Made
<1>. QED BY <1>1, <1>2 DEF Numbers, Lists

\* One more message is sent.
LEMMA NumbersGrow ==
    ASSUME NEW g \in Nat, NEW n \in Nat, g <= n, NEW p, NEW q,
           Made(n + 1, q), \A j \in 1..n : Msg(q, j) = Msg(p, j)
    PROVE  Append(Numbers(g, n, p), Msg(q, n + 1)) = Numbers(g, n + 1, q)
<1> DEFINE a == Numbers(g, n, p)
           r == Append(a, Msg(q, n + 1))
           t == Numbers(g, n + 1, q)
<1>1. Made(n, p) /\ Msg(q, n + 1) \in Message
    BY DEF Made
<1>2. /\ a \in Seq(Message) /\ Len(a) = n - g /\ n - g \in Nat
      /\ \A i \in 1..(n - g) : a[i] = Msg(p, g + i)
  <2>1. Lists(Numbers(g, n, p), g, n, p)
      BY <1>1, NumbersAre
  <2>. QED BY <2>1 DEF Lists
<1>3. t \in Seq(Message) /\ Len(t) = n - g + 1 /\ \A i \in 1..(n - g + 1) : t[i] = Msg(q, g + i)
  <2>1. PICK k \in Nat : k = n + 1
      OBVIOUS
  <2>2. g <= k /\ k - g = n - g + 1 /\ Made(k, q)
      BY <2>1
  <2>3. Lists(Numbers(g, k, q), g, k, q)
      BY <2>2, NumbersAre
  <2>. QED BY <2>1, <2>2, <2>3 DEF Lists
<1> HIDE DEF a, t
<1>5. /\ r \in Seq(Message) /\ Len(r) = n - g + 1 /\ r[n - g + 1] = Msg(q, n + 1)
      /\ \A i \in 1..(n - g) : r[i] = a[i]
    BY <1>1, <1>2
<1> HIDE DEF r
<1>6. ASSUME NEW i \in 1..(n - g + 1) PROVE r[i] = t[i]
  <2>1. CASE i = n - g + 1
    <3>1. g + i = n + 1
        BY <2>1
    <3>. QED BY <1>3, <1>5, <2>1, <3>1
  <2>2. CASE i # n - g + 1
    <3>1. i \in 1..(n - g) /\ g + i \in 1..n
        BY <1>2, <2>2
    <3>. QED BY <1>2, <1>3, <1>5, <3>1
  <2>. QED BY <2>1, <2>2
<1>7. r = t
    BY <1>3, <1>5, <1>6, SameSequence
<1>. QED BY <1>7 DEF a, r, t

\* The first message is delivered.
LEMMA NumbersShrink ==
    ASSUME NEW g \in Nat, NEW n \in Nat, g < n, NEW p, Made(n, p)
    PROVE  Numbers(g, n, p) # <<>> /\ Tail(Numbers(g, n, p)) = Numbers(g + 1, n, p)
<1> DEFINE a == Numbers(g, n, p)
           r == Tail(a)
           t == Numbers(g + 1, n, p)
<1>1. /\ a \in Seq(Message) /\ Len(a) = n - g /\ n - g \in Nat
      /\ \A i \in 1..(n - g) : a[i] = Msg(p, g + i)
  <2>1. Lists(Numbers(g, n, p), g, n, p)
      BY NumbersAre
  <2>. QED BY <2>1 DEF Lists
<1>2. t \in Seq(Message) /\ Len(t) = n - g - 1 /\ \A i \in 1..(n - g - 1) : t[i] = Msg(p, g + 1 + i)
  <2>1. PICK k \in Nat : k = g + 1
      OBVIOUS
  <2>2. k <= n /\ n - k = n - g - 1
      BY <2>1
  <2>3. Lists(Numbers(k, n, p), k, n, p)
      BY <2>2, NumbersAre
  <2>. QED BY <2>1, <2>2, <2>3 DEF Lists
<1> HIDE DEF a, t
<1>3. a # <<>> /\ r \in Seq(Message) /\ Len(r) = n - g - 1 /\ \A i \in 1..(n - g - 1) : r[i] = a[i + 1]
    BY <1>1
<1> HIDE DEF r
<1>4. ASSUME NEW i \in 1..(n - g - 1) PROVE r[i] = t[i]
  <2>1. i + 1 \in 1..(n - g) /\ g + (i + 1) = g + 1 + i
      BY <1>1
  <2>. QED BY <1>1, <1>2, <1>3, <2>1
<1>5. r = t
    BY <1>2, <1>3, <1>4, SameSequence
<1>. QED BY <1>3, <1>5 DEF a, r, t

LEMMA MadeOf ==
    ASSUME NEW p \in Seq(Cells \cup {NoCell}), NEW n \in 0..MaxMsgs, Len(p) = n
    PROVE  Made(n, p)
<1> SUFFICES ASSUME NEW j \in 1..n PROVE Msg(p, j) \in Message
    BY DEF Made
<1>1. j \in Msgs /\ p[j] \in Cells \cup {NoCell}
    BY RecvConstants DEF Msgs
<1>. QED BY <1>1 DEF Msg, Message

\* What is on its way, and that it consists of messages.
LEMMA UndeliveredIs ==
    ASSUME ChannelInv, ~Over
    PROVE  /\ Undelivered = Numbers(Len(got), sent, place)
           /\ Len(got) \in Nat /\ sent \in Nat /\ Len(got) <= sent
           /\ Made(sent, place)
<1>1. sent = Len(got) + PipeLen + IF Landed THEN 1 ELSE 0
    BY PipeParts
<1>2. /\ Len(got) \in Nat /\ sent \in Nat /\ Len(got) <= sent
      /\ place \in Seq(Cells \cup {NoCell}) /\ Len(place) = sent
    BY <1>1, PipeTypes
<1>3. Made(sent, place)
  <2>1. sent \in 0..MaxMsgs
      BY DEF ChannelInv, TypeInv, TypeOK
  <2>. QED BY <1>2, <2>1, MadeOf
<1>4. Undelivered = Numbers(Len(got), sent, place)
    BY DEF Undelivered, Numbers, Msg
<1>. QED BY <1>2, <1>3, <1>4

\* A message sent.
LEMMA SendRefines ==
    ASSUME ChannelInv, ChannelInv', ~Over, ~Over', NEW c \in Cells \cup {NoCell},
           place' = Append(place, c), sent' = sent + 1, got' = got
    PROVE  \E m \in Message : Channel!Send(m)
<1>1. /\ Undelivered = Numbers(Len(got), sent, place)
      /\ Len(got) \in Nat /\ sent \in Nat /\ Len(got) <= sent
    BY UndeliveredIs
<1>2. Undelivered' = Numbers(Len(got), sent + 1, place')
    BY DEF Undelivered, Numbers, Msg
<1>3. Made(sent + 1, place')
  <2>1. /\ place' \in Seq(Cells \cup {NoCell}) /\ Len(place') = sent'
        /\ sent' \in 0..MaxMsgs
      BY DEF ChannelInv, TypeInv, TypeOK
  <2>2. Made(sent', place')
      BY <2>1, MadeOf
  <2>. QED BY <2>2
<1>4. place \in Seq(Cells \cup {NoCell}) /\ Len(place) = sent
    BY PipeTypes
<1>5. \A j \in 1..sent : place'[j] = place[j]
    BY <1>1, <1>4, PlaceTypes
<1>6. \A j \in 1..sent : Msg(place', j) = Msg(place, j)
    BY <1>5 DEF Msg
<1>7. PICK m : m = Msg(place', sent + 1)
    OBVIOUS
<1>8. Undelivered' = Append(Undelivered, m)
  <2>1. PICK g \in Nat, n \in Nat : g = Len(got) /\ n = sent
      BY <1>1
  <2>0. PICK p, q : p = place /\ q = place'
      OBVIOUS
  <2>2. /\ g <= n
        /\ Made(n + 1, q) /\ \A j \in 1..n : Msg(q, j) = Msg(p, j)
      BY <1>1, <1>3, <1>6, <2>0, <2>1
  <2>3. Append(Numbers(g, n, p), Msg(q, n + 1)) = Numbers(g, n + 1, q)
      BY <2>2, NumbersGrow
  <2>. QED BY <1>1, <1>2, <1>7, <2>0, <2>1, <2>3
<1>9. m \in Message
  <2>1. sent + 1 \in 1..(sent + 1)
      BY <1>1
  <2>. QED BY <1>3, <1>7, <2>1 DEF Made
<1>10. Channel!Send(m)
  <2>1. Over' = Over
      BY DEF Over
  <2>. QED BY <1>8, <2>1 DEF Channel!Send
<1>. QED BY <1>9, <1>10

\* A message delivered.
LEMMA PopRefines ==
    ASSUME ChannelInv, ~Over, ~Over', InHand, Pop, HandInv'
    PROVE  Channel!Recv
<1>1. /\ Undelivered = Numbers(Len(got), sent, place)
      /\ Len(got) \in Nat /\ sent \in Nat /\ Made(sent, place)
    BY UndeliveredIs
<1>2. Len(got') = Len(got) + 1 /\ Len(got) < sent /\ sent' = sent /\ place' = place
    BY <1>1, PopKeeps DEF Pop
<1>3. Undelivered' = Numbers(Len(got) + 1, sent, place)
    BY <1>2 DEF Undelivered, Numbers, Msg
<1>0. PICK g \in Nat, n \in Nat : g = Len(got) /\ n = sent
    BY <1>1
<1>14. PICK p : p = place
    OBVIOUS
<1>4. Undelivered # <<>> /\ Undelivered' = Tail(Undelivered)
  <2>1. g < n /\ Made(n, p)
      BY <1>0, <1>1, <1>2, <1>14
  <2>2. Numbers(g, n, p) # <<>> /\ Tail(Numbers(g, n, p)) = Numbers(g + 1, n, p)
      BY <2>1, NumbersShrink
  <2>. QED BY <1>0, <1>1, <1>3, <1>14, <2>2
<1>5. /\ Len(Undelivered) = sent - Len(got)
      /\ \A i \in 1..(sent - Len(got)) : Undelivered[i] = Msg(place, Len(got) + i)
  <2>1. g <= n /\ Made(n, p)
      BY <1>0, <1>1, <1>2, <1>14
  <2>2. Lists(Numbers(g, n, p), g, n, p)
      BY <2>1, NumbersAre
  <2>. QED BY <1>0, <1>1, <1>14, <2>2 DEF Lists
<1>6. PICK v : Finds(Len(got) + 1, v) /\ got' = Append(got, v)
    BY DEF Pop
<1>7. PICK i : i = v - Len(got)
    OBVIOUS
<1>8. i \in 1..Len(Undelivered) /\ 1 \in 1..Len(Undelivered) /\ Len(got) + i = v
    BY <1>1, <1>2, <1>5, <1>6, <1>7 DEF Finds
<1>9. /\ Undelivered[i].id = v /\ Undelivered[i].place = place[v]
      /\ Undelivered[1].place = place[Len(got) + 1]
    BY <1>5, <1>8 DEF Msg
<1>10. i = 1 \/ (Undelivered[1].place # NoCell /\ Undelivered[i].place = Undelivered[1].place)
    BY <1>1, <1>6, <1>7, <1>9 DEF Finds
<1>11. Channel!Found(i)
    BY <1>10 DEF Channel!Found
<1>12. got' = Append(got, Undelivered[i].id)
    BY <1>6, <1>9
<1>13. Over' = Over
    BY DEF Over
<1>. QED BY <1>4, <1>8, <1>11, <1>12, <1>13 DEF Channel!Recv

\* The peer sends: one message more, and the place it goes to.
Sends(c) == place' = Append(place, c) /\ sent' = sent + 1 /\ got' = got

LEMMA SendIs ==
    ASSUME TypeInv
    PROVE  /\ SendFrame => Sends(NoCell)
           /\ SendRW => \E c \in Cells : Sends(c)
           /\ \A c \in Offsets : SendAt(c) => Sends(c) /\ c \in Cells
<1>1. SendFrame => Sends(NoCell)
    BY DEF SendFrame, Sends
<1>2. RwCell \in Cells
  <2>1. rwSeq \in Nat
      BY DEF TypeInv, TypeOK
  <2>. QED BY <2>1, RecvConstants DEF RwCell
<1>3. SendRW => Sends(RwCell)
    BY DEF SendRW, SendWrite, Sends
<1>4. \A c \in Offsets : SendAt(c) => Sends(c) /\ c \in Cells
    BY RecvConstants DEF SendAt, SendWrite, Sends
<1>. QED BY <1>1, <1>2, <1>3, <1>4

\* Every step but these leaves the messages alone.
LEMMA QuietSteps ==
    ASSUME [Next]_vars, ~SendFrame, ~SendRW, \A c \in Offsets : ~SendAt(c)
    PROVE  UNCHANGED <<sent, place>> /\ (got' = got \/ Receiver)
<1>1. CASE SendNotify \/ Land \/ (\E h \in held : Release(h)) \/ Close \/ UNCHANGED vars
           \/ RecvBroken \/ RecvTimeout \/ RecvExpired \/ Stop
    BY <1>1 DEF SendNotify, Land, Release, Close, CloseBegin, CloseLocked, CloseFree,
                closeRest, recvRest, peerVars, vars, RecvBroken, RecvTimeout, RecvExpired, Stop
<1>2. CASE Receiver
    BY <1>2 DEF Receiver, Call, RecvFrame, RecvCompletion, Parse, RwGet, RwRepost, RwCopy,
                Copy, CopyRelease, recvRest, peerVars
<1>. QED BY <1>1, <1>2 DEF Next

\* Every step is a Send, a Recv, a Fail or nothing to the channel.
LEMMA NextRefines ==
    ASSUME ChannelInv, ChannelInv', [Next]_vars
    PROVE  [Channel!Next]_(Channel!vars)
<1>0. (Over => Over' /\ got' = got) /\ (Over' => got' = got)
    BY OverStays
<1>1. CASE Over
  <2>1. Over' /\ got' = got
      BY <1>0, <1>1
  <2>2. Undelivered = <<>> /\ Undelivered' = <<>>
      BY <1>1, <2>1 DEF Undelivered
  <2>. QED BY <1>1, <2>1, <2>2 DEF Channel!vars
<1>2. CASE ~Over /\ Over'
  <2>1. Undelivered' = <<>>
      BY <1>2 DEF Undelivered
  <2>2. Channel!Fail
      BY <1>0, <1>2, <2>1 DEF Channel!Fail
  <2>. QED BY <2>2 DEF Channel!Next
<1>3. CASE ~Over /\ ~Over'
  <2>1. CASE SendFrame \/ SendRW \/ \E c \in Offsets : SendAt(c)
    <3>1. PICK c \in Cells \cup {NoCell} : Sends(c)
        BY <2>1, SendIs DEF ChannelInv
    <3>2. \E m \in Message : Channel!Send(m)
        BY <1>3, <3>1, SendRefines DEF Sends
    <3>. QED BY <3>2 DEF Channel!Next
  <2>2. CASE ~SendFrame /\ ~SendRW /\ (\A c \in Offsets : ~SendAt(c)) /\ got' = got
    <3>1. UNCHANGED <<sent, place>>
        BY <2>2, QuietSteps
    <3>2. Undelivered' = Undelivered
        BY <1>3, <2>2, <3>1 DEF Undelivered
    <3>3. Over' = Over
        BY <1>3 DEF Over
    <3>. QED BY <2>2, <3>2, <3>3 DEF Channel!vars
  <2>3. CASE ~SendFrame /\ ~SendRW /\ (\A c \in Offsets : ~SendAt(c)) /\ got' # got
    <3>1. Receiver
        BY <2>3, QuietSteps
    <3>2. Channel!Recv
        BY <1>3, <2>3, <3>1, DeliversFirst, PopRefines
    <3>. QED BY <3>2 DEF Channel!Next
  <2>. QED BY <2>1, <2>2, <2>3
<1>. QED BY <1>1, <1>2, <1>3

\* InOrder: the receive side implements MessageChannel, an in-order channel whose
\* payloads in shared memory may be overwritten by later ones: through any mix of
\* SENDs, RW slots and offsets, for any number of notify slots and RW slots, whether
\* or not a range is used again too early (RangeFree), copying and borrowing, poll
\* timeouts, expired contexts, failing posts and completions, and a Close at any time.
THEOREM ChannelRefined == ASSUME ~Ahead PROVE Spec => InOrder
<1>1. Init => ChannelInv
    BY InitChannel
<1>2. ChannelInv /\ [Next]_vars => ChannelInv'
    BY NextChannel
<1>3. Init => Channel!Init
  <2> SUFFICES ASSUME Init PROVE Channel!Init
      OBVIOUS
  <2>1. sent = 0 /\ got = <<>> /\ rpc = "idle" /\ cc = "open"
      BY DEF Init
  <2>2. ~Over /\ Undelivered = <<>>
      BY <2>1 DEF Over, Undelivered
  <2>. QED BY <2>1, <2>2 DEF Channel!Init
<1>4. ChannelInv /\ ChannelInv' /\ [Next]_vars => [Channel!Next]_(Channel!vars)
    BY NextRefines
<1>. QED BY <1>1, <1>2, <1>3, <1>4, PTL DEF Spec, InOrder, Channel!Spec

-----------------------------------------------------------------------------
(***************************************************************************)
(* The order conn.go promises, where every range is free when it is used.  *)
(***************************************************************************)
\* No two messages on their way have one place.
FreshInv ==
    ~Over => \A i, j \in (Len(got) + 1)..sent :
                 place[i] = place[j] /\ place[i] # NoCell => i = j

OrderInv == ChannelInv /\ FreshInv /\ AsSent

LEMMA RangeFreeInPipe ==
    ASSUME ChannelInv, ~Over, NEW c \in Offsets, RangeFree(c), NEW i \in 1..PipeLen
    PROVE  PipeAt(i).cell # c
<1>1. /\ Hands \in {0, 1} /\ Len(cq) \in Nat /\ Len(wire) \in Nat /\ PipeLen \in Nat
      /\ PipeLen = Hands + Len(cq) + Len(wire)
    BY PipeTypes
<1>2. CASE i <= Hands
  <2>1. PipeAt(i) = Hand /\ InHand
      BY <1>1, <1>2 DEF PipeAt, Hands
  <2>2. c # NoCell
      BY RecvConstants
  <2>3. HandInv
      BY PipeParts
  <2>. QED BY <2>1, <2>2, <2>3 DEF RangeFree, Hand, HandInv, InHand
<1>3. CASE ~(i <= Hands) /\ i <= Hands + Len(cq)
  <2>1. i - Hands \in 1..Len(cq) /\ PipeAt(i) = buf[cq[i - Hands]]
      BY <1>1, <1>3 DEF PipeAt
  <2>. QED BY <2>1 DEF RangeFree
<1>4. CASE ~(i <= Hands + Len(cq))
  <2>1. i - Hands - Len(cq) \in 1..Len(wire) /\ PipeAt(i) = wire[i - Hands - Len(cq)]
      BY <1>1, <1>4 DEF PipeAt
  <2>. QED BY <2>1 DEF RangeFree
<1>. QED BY <1>2, <1>3, <1>4

\* A message to a place where no other is on its way.
LEMMA SendFresh ==
    ASSUME OrderInv, ~Over, notify = <<>>, NEW c \in Cells \cup {NoCell}, Sends(c),
           c # NoCell => \A i \in 1..PipeLen : PipeAt(i).cell # c
    PROVE  FreshInv'
<1>1. /\ place' = Append(place, c) /\ sent' = sent + 1 /\ got' = got
      /\ sent \in Nat /\ Len(got) \in Nat /\ PipeLen \in Nat
      /\ place \in Seq(Cells \cup {NoCell}) /\ Len(place) = sent
    BY PipeTypes DEF Sends, OrderInv
<1>2. sent = Len(got) + PipeLen /\ \A i \in 1..PipeLen : Item(i, PipeAt(i))
    BY <1>1, PipeParts DEF OrderInv, Landed
<1>3. (\A i \in 1..sent : place'[i] = place[i]) /\ place'[sent + 1] = c
  <2>1. (\A i \in 1..sent : place'[i] = place[i]) /\ place'[sent'] = c
      BY <1>1, PlaceTypes
  <2>. QED BY <1>1, <2>1
<1>4. ASSUME NEW j \in (Len(got) + 1)..sent, c # NoCell PROVE place[j] # c
  <2>1. PICK i : i = j - Len(got)
      OBVIOUS
  <2>2. i \in 1..PipeLen /\ Len(got) + i = j
      BY <1>1, <1>2, <2>1
  <2>3. PipeAt(i).cell = place[j]
      BY <1>2, <2>2 DEF Item
  <2>. QED BY <1>4, <2>2, <2>3
<1>5. ASSUME NEW i \in (Len(got) + 1)..(sent + 1), NEW j \in (Len(got) + 1)..(sent + 1),
             place'[i] = place'[j], place'[i] # NoCell
      PROVE  i = j
  <2>1. \A k \in (Len(got) + 1)..(sent + 1) :
            k = sent + 1 \/ (k \in (Len(got) + 1)..sent /\ k \in 1..sent)
      BY <1>1
  <2>2. ASSUME i # sent + 1, j # sent + 1 PROVE i = j
    <3>1. /\ i \in (Len(got) + 1)..sent /\ j \in (Len(got) + 1)..sent
          /\ place'[i] = place[i] /\ place'[j] = place[j]
        BY <1>3, <2>1, <2>2
    <3>. QED BY <1>5, <3>1 DEF OrderInv, FreshInv
  <2>3. ASSUME NEW k \in (Len(got) + 1)..(sent + 1), k # sent + 1, c # NoCell
        PROVE  place'[k] # c
    <3>1. k \in (Len(got) + 1)..sent /\ place'[k] = place[k]
        BY <1>3, <2>1, <2>3
    <3>. QED BY <1>4, <2>3, <3>1
  <2>4. i = sent + 1 \/ j = sent + 1 => c # NoCell
      BY <1>3, <1>5
  <2>. QED BY <1>3, <1>5, <2>2, <2>3, <2>4
<1>6. Len(got') = Len(got)
    BY <1>1
<1>. QED BY <1>1, <1>5, <1>6 DEF FreshInv

LEMMA NextOrder ==
    ASSUME ~Ahead, ~Reuse, "rw" \notin Kinds
    PROVE  OrderInv /\ [Next]_vars => OrderInv'
<1> SUFFICES ASSUME OrderInv, [Next]_vars PROVE OrderInv'
    OBVIOUS
<1>1. ChannelInv /\ ChannelInv'
    BY NextChannel DEF OrderInv
<1>2. (Over => Over' /\ got' = got) /\ (Over' => got' = got)
    BY <1>1, OverStays
<1>3. CASE Over'
    BY <1>1, <1>2, <1>3 DEF OrderInv, FreshInv, AsSent
<1>4. CASE ~Over /\ ~Over'
  <2>1. CASE SendFrame
    <3>1. Sends(NoCell) /\ notify = <<>>
        BY <1>1, <2>1, SendIs DEF ChannelInv, SendFrame, CanSend
    <3>2. FreshInv'
        BY <1>4, <3>1, SendFresh
    <3>. QED BY <1>1, <3>1, <3>2 DEF OrderInv, AsSent, Sends
  <2>2. CASE \E c \in Offsets : SendAt(c)
    <3>1. PICK c \in Offsets : SendAt(c)
        BY <2>2
    <3>2. Sends(c) /\ c \in Cells /\ notify = <<>> /\ RangeFree(c)
        BY <1>1, <3>1, SendIs DEF ChannelInv, SendAt, CanSend
    <3>3. \A i \in 1..PipeLen : PipeAt(i).cell # c
        BY <1>1, <1>4, <3>2, RangeFreeInPipe
    <3>4. FreshInv'
        BY <1>4, <3>2, <3>3, SendFresh
    <3>. QED BY <1>1, <3>2, <3>4 DEF OrderInv, AsSent, Sends
  <2>3. CASE ~SendFrame /\ (\A c \in Offsets : ~SendAt(c)) /\ got' = got
    <3>1. UNCHANGED <<sent, place>>
        BY <2>3, QuietSteps DEF SendRW
    <3>. QED BY <1>1, <1>4, <2>3, <3>1 DEF OrderInv, FreshInv, AsSent
  <2>4. CASE ~SendFrame /\ (\A c \in Offsets : ~SendAt(c)) /\ got' # got
    <3>1. UNCHANGED <<sent, place>> /\ Receiver
        BY <2>4, QuietSteps DEF SendRW
    <3>2. InHand /\ Pop /\ HandInv'
        BY <1>1, <1>4, <2>4, <3>1, DeliversFirst
    <3>3. Len(got') = Len(got) + 1 /\ Len(got) \in Nat /\ sent \in Nat /\ Len(got) + 1 <= sent
        BY <1>1, <1>4, <3>2, PopKeeps, PipeTypes
    <3>4. PICK v : Finds(Len(got) + 1, v) /\ got' = Append(got, v)
        BY <3>2 DEF Pop
    <3>5. v = Len(got) + 1
      <4>1. Len(got) + 1 \in (Len(got) + 1)..sent /\ v \in (Len(got) + 1)..sent
          BY <3>3, <3>4 DEF Finds
      <4>. QED BY <1>4, <3>4, <4>1 DEF Finds, OrderInv, FreshInv
    <3>6. AsSent'
      <4>1. got \in Seq(0..MaxMsgs)
          BY <1>1 DEF ChannelInv, TypeInv, TypeOK
      <4>2. (\A i \in 1..Len(got) : got'[i] = got[i]) /\ got'[Len(got) + 1] = v
          BY <3>4, <4>1
      <4>3. \A i \in 1..Len(got) : got[i] = i
          BY DEF OrderInv, AsSent
      <4>4. \A i \in 1..Len(got') : i \in 1..Len(got) \/ i = Len(got) + 1
          BY <3>3
      <4>. QED BY <3>5, <4>2, <4>3, <4>4 DEF AsSent
    <3>7. FreshInv'
      <4>1. (Len(got') + 1)..sent \subseteq (Len(got) + 1)..sent
          BY <3>3
      <4>. QED BY <1>4, <3>1, <4>1 DEF OrderInv, FreshInv
    <3>. QED BY <1>1, <3>6, <3>7 DEF OrderInv
  <2>. QED BY <2>1, <2>2, <2>3, <2>4
<1>. QED BY <1>2, <1>3, <1>4

\* AsSent: the i-th message delivered is the i-th sent, the order conn.go promises, for
\* SENDs and messages to offsets that are free again when they are used (the traffic of
\* PutZeroCopy and GetZeroCopy without timeouts).  With RW slots a sender laps the
\* receiver, with Reuse a late payload is overwritten: TLC shows both to break it.
THEOREM OrderKept ==
    ASSUME ~Ahead, ~Reuse, "rw" \notin Kinds PROVE Spec => []AsSent
<1>1. Init => OrderInv
  <2> SUFFICES ASSUME Init PROVE OrderInv
      OBVIOUS
  <2>1. sent = 0 /\ got = <<>>
      BY DEF Init
  <2>. QED BY <2>1, InitChannel DEF OrderInv, FreshInv, AsSent
<1>2. OrderInv /\ [Next]_vars => OrderInv'
    BY NextOrder
<1>3. OrderInv => AsSent
    BY DEF OrderInv
<1>. QED BY <1>1, <1>2, <1>3, PTL DEF Spec
=============================================================================
