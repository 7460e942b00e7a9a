-------------------------- MODULE VerbsSendProofs --------------------------
(***************************************************************************)
(* Theorems about VerbsSend, for any depth, counter width, signal interval *)
(* and message length.                                                     *)
(***************************************************************************)
EXTENDS VerbsSend, TLAPS

\* How far back a work request lies: 1 is the one posted last.
Dist(id) == Diff(tx, id)

\* Posted and not yet known to be complete.
Outstanding == Diff(tx, done)

\* The ring.  The send queue holds the requests posted last, without a gap; the
\* completion queue holds older ones, in order, none of them accounted for.
RingInv ==
    /\ Outstanding <= Depth
    /\ Len(sq) + Len(cq) <= Outstanding
    /\ \A i \in 1..Len(sq) : Dist(sq[i].id) = Len(sq) + 1 - i
    /\ \A i \in 1..Len(cq) : /\ Dist(cq[i].id) <= Outstanding
                             /\ Dist(cq[i].id) >= Len(sq) + Len(cq) + 1 - i
    /\ \A i, j \in 1..Len(cq) : i < j => Dist(cq[j].id) < Dist(cq[i].id)

\* A staged request reads the slot of its own number.
SlotInv == \A i \in 1..Len(sq) : sq[i].src >= 0 => sq[i].src = sq[i].id % Depth

\* The locals of the sending function that is running.
OpInv ==
    /\ op.pc = "idle" => ~op.rw
    /\ op.pc \in {"write", "drain", "cleanup"} => op.rw
    /\ op.pc \in {"frame", "write"} => op.left >= 1
    /\ op.pc \in {"drain", "cleanup"} => op.left = 0
    /\ op.rw /\ op.pc = "frame" => op.left = 1
    /\ op.pc = "drain" => op.target = tx

\* Completions are errors only on a broken queue pair.
ErrInv == \A i \in 1..Len(cq) : ~cq[i].ok => qp = "err"

\* The request posted last will be, or has been, completed.
LastSignaled ==
    \/ sq # <<>> /\ sq[Len(sq)].sig
    \/ cq # <<>> /\ Dist(cq[Len(cq)].id) = 1

\* Whoever may have to wait can wait for the request posted last.
Awaited == \/ Outstanding >= Depth
           \/ op.pc = "drain"
           \/ op.rw /\ tx # op.start
SignalInv == qp = "ok" /\ Outstanding > 0 /\ Awaited => LastSignaled

\* What the cleanup relies on: the payload is registered or staged, and a message
\* has fewer frames than the signed difference of two counters can tell apart.
Registered == "shared" \notin MRs /\ MaxFrames + 1 < Mod \div 2

\* Requests that read the caller's payload belong to the function that runs.
PayloadInv ==
    /\ op.rw => op.mr # "shared"
    /\ op.rw => Diff(tx, op.start) + op.left <= MaxFrames + IF op.pc \in {"write", "drain"} THEN 0 ELSE 1
    /\ \A i \in 1..Len(sq) :
          sq[i].src = Payload /\ qp = "ok" =>
             /\ op.rw /\ op.mr = "reg" /\ op.pc # "frame"
             /\ Dist(sq[i].id) <= Diff(tx, op.start)

SendInv ==
    /\ TypeOK /\ RingInv /\ SlotInv /\ OpInv /\ ErrInv /\ SignalInv
    /\ Registered => PayloadInv

-----------------------------------------------------------------------------
(***************************************************************************)
(* Counters: subtraction modulo Mod without the modulus.                   *)
(***************************************************************************)
LEMMA ModFacts ==
    /\ Mod \in Nat /\ Mod >= 4
    /\ Depth \in Nat /\ 1 <= Depth /\ 2 * Depth < Mod /\ Depth < Mod \div 2
    /\ 0 \in Counter
BY RingAssumption DEF Counter

\* A counter that is up to Depth ahead compares as ahead.
LEMMA AfterNear ==
    ASSUME NEW a, NEW b, Diff(a, b) \in Int, Diff(a, b) <= Depth
    PROVE  After(a, b) <=> Diff(a, b) >= 1
<1>1. Mod \div 2 \in Int
    BY ModFacts
<1>2. Diff(a, b) < Mod \div 2
    BY <1>1, ModFacts
<1>. QED BY <1>2 DEF After

LEMMA ModSmall ==
    ASSUME NEW m \in Nat \ {0}, NEW x \in Int
    PROVE  /\ 0 <= x /\ x < m => x % m = x
           /\ -m <= x /\ x < 0 => x % m = x + m
           /\ x = m => x % m = 0
OBVIOUS

LEMMA DiffIs ==
    ASSUME NEW a \in Counter, NEW b \in Counter
    PROVE  /\ Diff(a, b) = IF a >= b THEN a - b ELSE a - b + Mod
           /\ Diff(a, b) \in 0..(Mod - 1)
<1>1. a - b \in Int /\ a - b < Mod /\ -Mod <= a - b
    BY ModFacts DEF Counter
<1>2. (a - b) % Mod = IF a >= b THEN a - b ELSE a - b + Mod
    BY <1>1, ModSmall, ModFacts DEF Counter
<1>. QED BY <1>1, <1>2, ModFacts DEF Diff, Counter

LEMMA Plus1Is ==
    ASSUME NEW a \in Counter
    PROVE  /\ Plus1(a) = IF a = Mod - 1 THEN 0 ELSE a + 1
           /\ Plus1(a) \in Counter
<1>1. a + 1 \in Int /\ 0 <= a + 1 /\ a + 1 <= Mod
    BY ModFacts DEF Counter
<1>2. (a + 1) % Mod = IF a = Mod - 1 THEN 0 ELSE a + 1
    BY <1>1, ModSmall, ModFacts DEF Counter
<1>. QED BY <1>1, <1>2, ModFacts DEF Plus1, Counter

\* Equal counters, and the next one.
LEMMA DiffZero ==
    ASSUME NEW a \in Counter, NEW b \in Counter
    PROVE  (Diff(a, b) = 0 <=> a = b) /\ Diff(Plus1(a), a) = 1
<1>1. Diff(a, b) = IF a >= b THEN a - b ELSE a - b + Mod
    BY DiffIs
<1>2. Plus1(a) \in Counter /\ Plus1(a) = IF a = Mod - 1 THEN 0 ELSE a + 1
    BY Plus1Is
<1>3. Diff(Plus1(a), a) = IF Plus1(a) >= a THEN Plus1(a) - a ELSE Plus1(a) - a + Mod
    BY <1>2, DiffIs
<1>. QED BY <1>1, <1>2, <1>3, ModFacts DEF Counter

\* The first counter moves on.
LEMMA DiffPost ==
    ASSUME NEW a \in Counter, NEW b \in Counter, Diff(a, b) <= Mod - 2
    PROVE  Diff(Plus1(a), b) = Diff(a, b) + 1
<1>1. Diff(a, b) = IF a >= b THEN a - b ELSE a - b + Mod
    BY DiffIs
<1>2. Plus1(a) \in Counter /\ Plus1(a) = IF a = Mod - 1 THEN 0 ELSE a + 1
    BY Plus1Is
<1>3. Diff(Plus1(a), b) = IF Plus1(a) >= b THEN Plus1(a) - b ELSE Plus1(a) - b + Mod
    BY <1>2, DiffIs
<1>. QED BY <1>1, <1>2, <1>3, ModFacts DEF Counter

\* The second counter moves on.
LEMMA DiffNext ==
    ASSUME NEW a \in Counter, NEW b \in Counter, Diff(a, b) >= 1
    PROVE  Diff(a, Plus1(b)) = Diff(a, b) - 1
<1>1. Diff(a, b) = IF a >= b THEN a - b ELSE a - b + Mod
    BY DiffIs
<1>2. Plus1(b) \in Counter /\ Plus1(b) = IF b = Mod - 1 THEN 0 ELSE b + 1
    BY Plus1Is
<1>3. Diff(a, Plus1(b)) = IF a >= Plus1(b) THEN a - Plus1(b) ELSE a - Plus1(b) + Mod
    BY <1>2, DiffIs
<1>. QED BY <1>1, <1>2, <1>3, ModFacts DEF Counter

\* Two counters behind a third.
LEMMA DiffSub ==
    ASSUME NEW a \in Counter, NEW b \in Counter, NEW c \in Counter,
           Diff(a, c) <= Diff(a, b)
    PROVE  Diff(c, b) = Diff(a, b) - Diff(a, c)
<1>1. Diff(a, b) = IF a >= b THEN a - b ELSE a - b + Mod
    BY DiffIs
<1>2. Diff(a, c) = IF a >= c THEN a - c ELSE a - c + Mod
    BY DiffIs
<1>3. Diff(c, b) = IF c >= b THEN c - b ELSE c - b + Mod
    BY DiffIs
<1>. QED BY <1>1, <1>2, <1>3, ModFacts DEF Counter

\* When Depth divides Mod, numbers less than Depth apart have different slots.
LEMMA SlotsDiffer ==
    ASSUME NEW a \in Counter, NEW b \in Counter, Mod % Depth = 0,
           0 < Diff(a, b), Diff(a, b) < Depth
    PROVE  a % Depth # b % Depth
<1> SUFFICES ASSUME a % Depth = b % Depth PROVE FALSE
    OBVIOUS
<1> DEFINE qa == a \div Depth
           qb == b \div Depth
           k  == Mod \div Depth
<1>1. /\ qa \in Int /\ qb \in Int /\ k \in Int
      /\ a = Depth * qa + (a % Depth) /\ b = Depth * qb + (b % Depth) /\ Mod = Depth * k
    BY ModFacts DEF Counter
<1> HIDE DEF qa, qb, k
<1>2. \E m \in Int : Diff(a, b) = Depth * m
  <2>1. CASE a >= b
    <3>0. Diff(a, b) = a - b
        BY <2>1, DiffIs
    <3>1. Diff(a, b) = Depth * (qa - qb)
        BY <1>1, <3>0, ModFacts DEF Counter
    <3>. QED BY <1>1, <3>1
  <2>2. CASE a < b
    <3>1. Diff(a, b) = Depth * (qa - qb + k)
        BY <1>1, <2>2, DiffIs, ModFacts DEF Counter
    <3>. QED BY <1>1, <3>1
  <2>. QED BY <2>1, <2>2 DEF Counter
<1>3. PICK m \in Int : Diff(a, b) = Depth * m
    BY <1>2
<1>4. m <= 0 => Depth * m <= 0
    BY ModFacts
<1>5. m >= 1 => Depth * m >= Depth
    BY ModFacts
<1>. QED BY <1>3, <1>4, <1>5, ModFacts

-----------------------------------------------------------------------------
(***************************************************************************)
(* What a step does to the ring: post a request, execute one, take a       *)
(* completion, or nothing.                                                 *)
(***************************************************************************)
WR == [id: Counter, sig: BOOLEAN, src: Source]
WC == [id: Counter, ok: BOOLEAN]

Posted(sig, src) == ~Full /\ Post(sig, src) /\ UNCHANGED <<done, cq, qp>>

\* The types of what the queues hold.
LEMMA QueueTypes ==
    ASSUME TypeOK
    PROVE  /\ tx \in Counter /\ done \in Counter /\ sq \in Seq(WR) /\ cq \in Seq(WC)
           /\ Len(sq) \in Nat /\ Len(cq) \in Nat /\ Outstanding \in 0..(Mod - 1)
           /\ \A i \in 1..Len(sq) : sq[i] \in WR /\ sq[i].id \in Counter
           /\ \A i \in 1..Len(cq) : cq[i] \in WC /\ cq[i].id \in Counter
           /\ \A i \in 1..Len(sq) : Dist(sq[i].id) \in Nat
           /\ \A i \in 1..Len(cq) : Dist(cq[i].id) \in Nat
<1>1. /\ tx \in Counter /\ done \in Counter /\ sq \in Seq(WR) /\ cq \in Seq(WC)
      /\ Len(sq) \in Nat /\ Len(cq) \in Nat
    BY DEF TypeOK, WR, WC
<1>2. \A id \in Counter : Diff(tx, id) \in 0..(Mod - 1)
    BY <1>1, DiffIs
<1>3. \A i \in 1..Len(sq) : sq[i] \in WR
    BY <1>1
<1>4. \A i \in 1..Len(cq) : cq[i] \in WC
    BY <1>1
<1>5. \A w \in WR : w.id \in Counter
    BY DEF WR
<1>6. \A w \in WC : w.id \in Counter
    BY DEF WC
<1>7. \A id \in Counter : Diff(tx, id) \in Nat
    BY <1>2, ModFacts
<1>. QED BY <1>1, <1>2, <1>3, <1>4, <1>5, <1>6, <1>7 DEF Dist, Outstanding

LEMMA PostKeeps ==
    ASSUME TypeOK, RingInv, SlotInv,
           NEW sig \in BOOLEAN, NEW src \in Source, Posted(sig, src),
           src >= 0 => src = Slot
    PROVE  /\ RingInv' /\ SlotInv'
           /\ tx' \in Counter /\ sq' \in Seq(WR) /\ sq' # <<>>
           /\ Len(sq') = Len(sq) + 1
           /\ sq'[Len(sq')] = [id |-> tx, sig |-> sig, src |-> src]
           /\ \A i \in 1..Len(sq) : sq'[i] = sq[i]
           /\ Outstanding' = Outstanding + 1
           /\ \A i \in 1..Len(sq) : Diff(tx', sq[i].id) = Dist(sq[i].id) + 1
<1> DEFINE new == [id |-> tx, sig |-> sig, src |-> src]
<1>1. /\ tx \in Counter /\ done \in Counter /\ sq \in Seq(WR) /\ cq \in Seq(WC)
      /\ Len(sq) \in Nat /\ Len(cq) \in Nat
    BY DEF TypeOK, WR, WC
<1>2. tx' = Plus1(tx) /\ tx' \in Counter /\ sq' = Append(sq, new) /\ UNCHANGED <<done, cq>>
    BY <1>1, Plus1Is DEF Posted, Post
<1>3. Outstanding \in Nat /\ Outstanding < Depth
    BY <1>1, DiffIs, ModFacts DEF Posted, Full, Outstanding
<1>4. Outstanding' = Outstanding + 1
    BY <1>1, <1>2, <1>3, DiffPost, ModFacts DEF Outstanding
<1>5. new \in WR
    BY <1>1 DEF WR
<1>6. /\ sq' \in Seq(WR) /\ Len(sq') = Len(sq) + 1 /\ sq'[Len(sq) + 1] = new
      /\ \A i \in 1..Len(sq) : sq'[i] = sq[i]
    BY <1>1, <1>2, <1>5
<1>7. \A id \in Counter : Diff(tx, id) <= Outstanding => Diff(tx', id) = Diff(tx, id) + 1
  <2> TAKE id \in Counter
  <2>1. Outstanding <= Mod - 2
      BY <1>3, ModFacts
  <2>2. Diff(tx, id) \in Int
      BY <1>1, DiffIs, ModFacts
  <2> HAVE Diff(tx, id) <= Outstanding
  <2>3. Diff(tx, id) <= Mod - 2
      BY <1>3, <2>1, <2>2, ModFacts
  <2>. QED BY <1>1, <1>2, <2>3, DiffPost
<1>8. \A i \in 1..Len(sq) : sq[i].id \in Counter /\ Diff(tx, sq[i].id) = Len(sq) + 1 - i
    BY QueueTypes DEF RingInv, Dist
<1>9. Len(sq) + Len(cq) <= Outstanding
    BY DEF RingInv
<1>10. \A i \in 1..Len(sq) : Diff(tx', sq[i].id) = Diff(tx, sq[i].id) + 1
    BY <1>1, <1>3, <1>7, <1>8, <1>9
<1>11. Diff(tx', tx) = 1
    BY <1>1, <1>2, DiffZero
<1>12. \A i \in 1..Len(sq') : Diff(tx', sq'[i].id) = Len(sq') + 1 - i
  <2> TAKE i \in 1..Len(sq')
  <2>1. CASE i = Len(sq) + 1
      BY <1>1, <1>6, <1>11, <2>1
  <2>2. CASE i \in 1..Len(sq)
      BY <1>1, <1>6, <1>8, <1>10, <2>2
  <2>. QED BY <1>1, <1>6, <2>1, <2>2
<1>13. \A i \in 1..Len(cq) : /\ cq[i].id \in Counter
                             /\ Diff(tx, cq[i].id) <= Outstanding
                             /\ Diff(tx, cq[i].id) \in Nat
                             /\ Diff(tx, cq[i].id) >= Len(sq) + Len(cq) + 1 - i
    BY QueueTypes DEF RingInv, Dist
<1>14. \A i \in 1..Len(cq) : Diff(tx', cq[i].id) = Diff(tx, cq[i].id) + 1
    BY <1>7, <1>13
<1>15. RingInv'
  <2>1. (Outstanding <= Depth /\ Len(sq) + Len(cq) <= Outstanding)'
      BY <1>1, <1>2, <1>3, <1>4, <1>6, <1>9, ModFacts
  <2>2. (\A i \in 1..Len(sq) : Dist(sq[i].id) = Len(sq) + 1 - i)'
      BY <1>12 DEF Dist
  <2>3. (\A i \in 1..Len(cq) : /\ Dist(cq[i].id) <= Outstanding
                               /\ Dist(cq[i].id) >= Len(sq) + Len(cq) + 1 - i)'
      BY <1>1, <1>2, <1>3, <1>4, <1>6, <1>13, <1>14 DEF Dist
  <2>4. (\A i, j \in 1..Len(cq) : i < j => Dist(cq[j].id) < Dist(cq[i].id))'
      BY <1>2, <1>13, <1>14 DEF Dist, RingInv
  <2>. QED BY <2>1, <2>2, <2>3, <2>4 DEF RingInv
<1>16. SlotInv'
  <2> SUFFICES ASSUME NEW i \in 1..Len(sq'), sq'[i].src >= 0
               PROVE  sq'[i].src = sq'[i].id % Depth
      BY DEF SlotInv
  <2>1. CASE i = Len(sq) + 1
      BY <1>6, <2>1 DEF Slot
  <2>2. CASE i \in 1..Len(sq)
      BY <1>6, <2>2 DEF SlotInv
  <2>. QED BY <1>1, <1>6, <2>1, <2>2
<1>17. sq' # <<>>
    BY <1>1, <1>6
<1>. QED BY <1>2, <1>4, <1>6, <1>10, <1>15, <1>16, <1>17 DEF Dist

\* The oldest request leaves the send queue, perhaps for the completion queue.
LEMMA ExecuteKeeps ==
    ASSUME TypeOK, RingInv, SlotInv, Execute
    PROVE  /\ RingInv' /\ SlotInv'
           /\ sq' \in Seq(WR) /\ cq' \in Seq(WC)
           /\ sq # <<>> /\ Len(sq') = Len(sq) - 1
           /\ \A i \in 1..Len(sq') : sq'[i] = sq[i + 1]
           /\ \/ cq' = cq
              \/ /\ Len(cq') = Len(cq) + 1 /\ cq'[Len(cq) + 1] = [id |-> sq[1].id, ok |-> qp = "ok"]
                 /\ \A i \in 1..Len(cq) : cq'[i] = cq[i]
           /\ qp = "ok" /\ sq[1].sig => cq' # cq
<1>1. /\ tx \in Counter /\ done \in Counter /\ sq \in Seq(WR) /\ cq \in Seq(WC)
      /\ Len(sq) \in Nat /\ Len(cq) \in Nat
    BY DEF TypeOK, WR, WC
<1>2. /\ sq # <<>> /\ sq' = Tail(sq) /\ UNCHANGED <<tx, done>>
      /\ \/ cq' = cq
         \/ cq' = Append(cq, [id |-> Head(sq).id, ok |-> qp = "ok"])
    BY DEF Execute
<1>3. /\ sq' \in Seq(WR) /\ Len(sq) \in Nat \ {0} /\ Len(sq') = Len(sq) - 1
      /\ \A i \in 1..Len(sq') : sq'[i] = sq[i + 1]
      /\ Head(sq) = sq[1] /\ sq[1] \in WR
    BY <1>1, <1>2
<1>4. Outstanding' = Outstanding /\ Outstanding \in Nat
    BY <1>1, <1>2, DiffIs, ModFacts DEF Outstanding
<1>5. \A i \in 1..Len(sq') : Diff(tx, sq'[i].id) = Len(sq') + 1 - i
  <2> TAKE i \in 1..Len(sq')
  <2>1. i + 1 \in 1..Len(sq) /\ sq'[i] = sq[i + 1]
      BY <1>3
  <2>2. Diff(tx, sq[i + 1].id) = Len(sq) + 1 - (i + 1)
      BY <2>1 DEF RingInv, Dist
  <2>3. Len(sq) + 1 - (i + 1) = Len(sq') + 1 - i
      BY <1>3
  <2>. QED BY <2>1, <2>2, <2>3
<1>6. SlotInv'
  <2> SUFFICES ASSUME NEW i \in 1..Len(sq'), sq'[i].src >= 0
               PROVE  sq'[i].src = sq'[i].id % Depth
      BY DEF SlotInv
  <2>1. i + 1 \in 1..Len(sq) /\ sq'[i] = sq[i + 1]
      BY <1>3
  <2>. QED BY <2>1 DEF SlotInv
<1>7. CASE cq' = cq
  <2>0. \A i \in 1..Len(cq) : /\ Diff(tx, cq[i].id) <= Outstanding
                              /\ Diff(tx, cq[i].id) \in Nat
                              /\ Diff(tx, cq[i].id) >= Len(sq) + Len(cq) + 1 - i
      BY QueueTypes DEF RingInv, Dist
  <2>1. RingInv'
    <3>1. (Outstanding <= Depth /\ Len(sq) + Len(cq) <= Outstanding)'
        BY <1>1, <1>3, <1>4, <1>7 DEF RingInv
    <3>2. \A i \in 1..Len(cq) : Diff(tx, cq[i].id) >= Len(sq') + Len(cq) + 1 - i
        BY <1>1, <1>3, <2>0
    <3>3. \A i, j \in 1..Len(cq) : i < j => Diff(tx, cq[j].id) < Diff(tx, cq[i].id)
        BY DEF RingInv, Dist
    <3>. QED BY <1>2, <1>4, <1>5, <1>7, <2>0, <3>1, <3>2, <3>3 DEF RingInv, Dist
  <2>2. ~(qp = "ok" /\ sq[1].sig)
    <3> SUFFICES ASSUME qp = "ok" /\ sq[1].sig PROVE FALSE
        OBVIOUS
    <3>1. cq' = Append(cq, [id |-> Head(sq).id, ok |-> qp = "ok"])
        BY <1>3 DEF Execute
    <3>2. Len(cq') = Len(cq) + 1
        BY <1>1, <3>1
    <3>. QED BY <1>1, <1>7, <3>2
  <2>. QED BY <1>1, <1>2, <1>3, <1>6, <1>7, <2>1, <2>2
<1>8. CASE cq' = Append(cq, [id |-> Head(sq).id, ok |-> qp = "ok"])
  <2> DEFINE new == [id |-> sq[1].id, ok |-> qp = "ok"]
  <2>1. new \in WC /\ Diff(tx, new.id) = Len(sq)
      BY <1>3 DEF WR, WC, RingInv, Dist
  <2>2. cq' = Append(cq, new)
      BY <1>3, <1>8
  <2> HIDE DEF new
  <2>3. /\ cq' \in Seq(WC) /\ Len(cq') = Len(cq) + 1 /\ cq'[Len(cq) + 1] = new
        /\ \A i \in 1..Len(cq) : cq'[i] = cq[i]
      BY <1>1, <2>1, <2>2
  <2>4. Len(sq) + Len(cq) <= Outstanding /\ Outstanding <= Depth
      BY DEF RingInv
  <2>5. \A i \in 1..Len(cq) : /\ Diff(tx, cq[i].id) <= Outstanding
                              /\ Diff(tx, cq[i].id) \in Nat
                              /\ Diff(tx, cq[i].id) >= Len(sq) + Len(cq) + 1 - i
      BY QueueTypes DEF RingInv, Dist
  <2>6. \A i \in 1..Len(cq') : /\ Diff(tx, cq'[i].id) <= Outstanding
                               /\ Diff(tx, cq'[i].id) >= Len(sq') + Len(cq') + 1 - i
    <3> TAKE i \in 1..Len(cq')
    <3>1. CASE i = Len(cq) + 1
        BY <1>1, <1>3, <1>4, <2>1, <2>3, <2>4, <3>1
    <3>2. CASE i \in 1..Len(cq)
        BY <1>1, <1>3, <1>4, <2>3, <2>5, <3>2
    <3>. QED BY <1>1, <2>3, <3>1, <3>2
  <2>7. \A i, j \in 1..Len(cq') : i < j => Diff(tx, cq'[j].id) < Diff(tx, cq'[i].id)
    <3> TAKE i, j \in 1..Len(cq')
    <3> HAVE i < j
    <3>1. i \in 1..Len(cq) /\ cq'[i] = cq[i] /\ Diff(tx, cq[i].id) >= Len(sq) + Len(cq) + 1 - i
        BY <1>1, <2>3, <2>5
    <3>2. CASE j = Len(cq) + 1
        BY <1>1, <1>3, <2>1, <2>3, <2>5, <3>1, <3>2
    <3>3. CASE j \in 1..Len(cq)
        BY <2>3, <3>1, <3>3 DEF RingInv, Dist
    <3>. QED BY <1>1, <2>3, <3>2, <3>3, SMTT(30)
  <2>8. RingInv'
    <3>1. (Outstanding <= Depth /\ Len(sq) + Len(cq) <= Outstanding)'
        BY <1>1, <1>3, <1>4, <2>3, <2>4
    <3>. QED BY <1>2, <1>4, <1>5, <2>6, <2>7, <3>1 DEF RingInv, Dist
  <2>9. cq' # cq
      BY <1>1, <2>3
  <2>. QED BY <1>2, <1>3, <1>6, <2>3, <2>8, <2>9 DEF new
<1>. QED BY <1>2, <1>7, <1>8

\* A completion is taken from the queue: everything up to it is accounted for, and
\* the signed comparison of the counters says so.
LEMMA ReapKeeps ==
    ASSUME TypeOK, RingInv, SlotInv, ErrInv, Reap
    PROVE  /\ RingInv' /\ SlotInv'
           /\ done' \in Counter /\ cq' \in Seq(WC) /\ cq # <<>> /\ Len(cq') = Len(cq) - 1
           /\ \A i \in 1..Len(cq') : cq'[i] = cq[i + 1]
           /\ UNCHANGED <<tx, sq, qp>>
           /\ \/ UNCHANGED op /\ Outstanding' = Dist(cq[1].id) - 1
              \/ Leave /\ done' = done /\ qp = "err"
<1> DEFINE d == Plus1(cq[1].id)
<1>0. Outstanding \in Nat
  <2>1. Outstanding \in 0..(Mod - 1)
      BY QueueTypes
  <2>. QED BY <2>1, ModFacts
<1>1. /\ tx \in Counter /\ done \in Counter /\ sq \in Seq(WR) /\ cq \in Seq(WC)
      /\ Len(sq) \in Nat /\ Len(cq) \in Nat /\ Outstanding \in Nat
      /\ \A i \in 1..Len(sq) : Dist(sq[i].id) \in Nat
      /\ \A i \in 1..Len(cq) : Dist(cq[i].id) \in Nat
    BY <1>0, QueueTypes
<1>2. cq # <<>> /\ cq' = Tail(cq) /\ UNCHANGED <<tx, sq, qp>>
    BY DEF Reap
<1>3. /\ cq' \in Seq(WC) /\ Len(cq) \in Nat \ {0} /\ Len(cq') = Len(cq) - 1
      /\ \A i \in 1..Len(cq') : cq'[i] = cq[i + 1]
      /\ Head(cq) = cq[1] /\ cq[1] \in WC
    BY <1>1, <1>2
<1>4. /\ cq[1].id \in Counter /\ d \in Counter /\ 1 \in 1..Len(cq)
    BY <1>3, Plus1Is DEF WC
<1>5. /\ Dist(cq[1].id) \in Nat /\ Dist(cq[1].id) <= Outstanding
      /\ Dist(cq[1].id) >= Len(sq) + Len(cq) /\ Dist(cq[1].id) >= 1
  <2>1. Dist(cq[1].id) >= Len(sq) + Len(cq) + 1 - 1
      BY <1>4 DEF RingInv
  <2>. QED BY <1>1, <1>3, <1>4, <2>1 DEF RingInv
<1>6. Diff(tx, d) = Dist(cq[1].id) - 1
    BY <1>1, <1>4, <1>5, DiffNext DEF Dist
<1>7. Diff(d, done) = Outstanding - Diff(tx, d)
  <2>1. Diff(tx, d) <= Diff(tx, done)
      BY <1>1, <1>5, <1>6 DEF Outstanding
  <2>. QED BY <1>1, <1>4, <2>1, DiffSub DEF Outstanding
<1>8. After(d, done)
  <2>1. Outstanding <= Depth
      BY DEF RingInv
  <2>2. Diff(d, done) \in Int /\ Diff(d, done) >= 1 /\ Diff(d, done) <= Depth
      BY <1>1, <1>5, <1>6, <1>7, <2>1, ModFacts
  <2>. QED BY <2>2, AfterNear
<1>9. \/ done' = d /\ UNCHANGED op
      \/ Leave /\ done' = done /\ ~cq[1].ok
    BY <1>3, <1>8 DEF Reap
<1>10. SlotInv'
    BY <1>2 DEF SlotInv
<1>11. ASSUME NEW i \in 1..Len(cq')
       PROVE  /\ cq'[i] = cq[i + 1] /\ Dist(cq[i + 1].id) \in Nat
              /\ Dist(cq[i + 1].id) <= Dist(cq[1].id) - 1
              /\ Dist(cq[i + 1].id) >= Len(sq) + Len(cq') + 1 - i
  <2>1. i + 1 \in 1..Len(cq) /\ 1 < i + 1 /\ cq'[i] = cq[i + 1] /\ i \in Nat
      BY <1>1, <1>3
  <2>2. Dist(cq[i + 1].id) < Dist(cq[1].id) /\ Dist(cq[i + 1].id) \in Nat
      BY <1>1, <1>4, <2>1 DEF RingInv
  <2>3. Dist(cq[i + 1].id) >= Len(sq) + Len(cq) + 1 - (i + 1)
      BY <2>1 DEF RingInv
  <2>. QED BY <1>1, <1>3, <1>5, <2>1, <2>2, <2>3
<1>12. \A i, j \in 1..Len(cq') : i < j => Dist(cq'[j].id) < Dist(cq'[i].id)
  <2> TAKE i, j \in 1..Len(cq')
  <2> HAVE i < j
  <2>1. i + 1 \in 1..Len(cq) /\ j + 1 \in 1..Len(cq) /\ i + 1 < j + 1
      BY <1>1, <1>3
  <2>2. Dist(cq[j + 1].id) < Dist(cq[i + 1].id)
      BY <2>1 DEF RingInv
  <2>. QED BY <1>3, <2>2
<1>13. Outstanding' \in {Outstanding, Dist(cq[1].id) - 1}
    BY <1>2, <1>6, <1>9 DEF Outstanding
<1>14. RingInv'
  <2>0. /\ Outstanding <= Depth /\ Len(sq) + Len(cq) <= Outstanding
        /\ \A i \in 1..Len(sq) : Dist(sq[i].id) = Len(sq) + 1 - i
      BY DEF RingInv
  <2>1. (Outstanding <= Depth /\ Len(sq) + Len(cq) <= Outstanding)'
      BY <1>1, <1>2, <1>3, <1>5, <1>13, <2>0, ModFacts
  <2>2. (\A i \in 1..Len(sq) : Dist(sq[i].id) = Len(sq) + 1 - i)'
      BY <1>2, <2>0 DEF Dist
  <2>3. \A i \in 1..Len(cq') : /\ Dist(cq'[i].id) <= Outstanding'
                               /\ Dist(cq'[i].id) >= Len(sq) + Len(cq') + 1 - i
    <3> TAKE i \in 1..Len(cq')
    <3> DEFINE e == Dist(cq[i + 1].id)
    <3>1. /\ cq'[i] = cq[i + 1] /\ e \in Nat
          /\ e <= Dist(cq[1].id) - 1 /\ e >= Len(sq) + Len(cq') + 1 - i
        BY <1>11
    <3> HIDE DEF e
    <3>2. e <= Outstanding'
        BY <1>1, <1>5, <1>13, <3>1
    <3>. QED BY <3>1, <3>2 DEF e
  <2>. QED BY <1>2, <1>12, <2>1, <2>2, <2>3 DEF RingInv, Dist
<1>15. ~cq[1].ok => qp = "err"
    BY <1>4 DEF ErrInv
<1>16. done' = d => Outstanding' = Dist(cq[1].id) - 1
    BY <1>2, <1>6 DEF Outstanding
<1>. QED BY <1>1, <1>2, <1>3, <1>4, <1>9, <1>10, <1>14, <1>15, <1>16

-----------------------------------------------------------------------------
(***************************************************************************)
(* What a step does to the sending function.                               *)
(***************************************************************************)
\* Returning, or going on to the cleanup.
LEMMA LeaveKeeps ==
    ASSUME TypeOK, OpInv, Leave
    PROVE  /\ op' \in Op /\ OpInv' /\ op'.pc # "drain" /\ op'.pc # "write"
           /\ op'.rw => /\ op.rw /\ op.pc # "cleanup" /\ op'.pc = "cleanup"
                        /\ op'.start = op.start /\ op'.mr = op.mr /\ op'.left = 0
           /\ ~op'.rw => ~op.rw \/ op.pc = "cleanup"
<1>1. op \in Op /\ 0 \in Counter /\ 0 \in 0..MaxFrames
    BY ModFacts, RingAssumption DEF TypeOK
<1>2. CASE op.rw /\ op.pc # "cleanup"
  <2>1. op' = [op EXCEPT !.pc = "cleanup", !.left = 0]
      BY <1>2 DEF Leave
  <2>. QED BY <1>1, <1>2, <2>1 DEF Op, OpInv
<1>3. CASE ~(op.rw /\ op.pc # "cleanup")
  <2>1. op' = NoOp
      BY <1>3 DEF Leave
  <2>. QED BY <1>1, <1>3, <2>1 DEF Op, OpInv, NoOp
<1>. QED BY <1>2, <1>3

\* A step that only moves the sending function.
Quiet == UNCHANGED <<ringVars, qp>>

LEMMA QuietKeeps ==
    ASSUME SendInv, Quiet, op' \in Op, Awaited' => Awaited
    PROVE  /\ TypeOK' /\ RingInv' /\ SlotInv' /\ ErrInv' /\ SignalInv'
           /\ Outstanding' = Outstanding
<1>1. UNCHANGED <<tx, done, sq, cq, qp>>
    BY DEF Quiet, ringVars
<1>2. Outstanding' = Outstanding
    BY <1>1 DEF Outstanding
<1>3. TypeOK'
    BY <1>1 DEF SendInv, TypeOK
<1>4. RingInv'
    BY <1>1, <1>2 DEF SendInv, RingInv, Dist
<1>5. SlotInv' /\ ErrInv'
    BY <1>1 DEF SendInv, SlotInv, ErrInv
<1>6. LastSignaled' = LastSignaled
    BY <1>1 DEF LastSignaled, Dist
<1>7. SignalInv'
    BY <1>1, <1>2, <1>6 DEF SendInv, SignalInv
<1>. QED BY <1>2, <1>3, <1>4, <1>5, <1>7

\* The requests that are posted and read the caller's payload.
Reads(i) == i \in 1..Len(sq) /\ sq[i].src = Payload

\* A quiet return keeps what the cleanup relies on, unless it deregisters the payload.
LEMMA QuietLeave ==
    ASSUME SendInv, Quiet, Leave,
           Registered /\ op.pc = "cleanup" /\ qp = "ok" => \A i \in 1..Len(sq) : ~Reads(i)
    PROVE  SendInv'
<1>1. TypeOK /\ OpInv
    BY DEF SendInv
<1>2. /\ op' \in Op /\ OpInv' /\ op'.pc # "drain" /\ op'.pc # "write"
      /\ op'.rw => /\ op.rw /\ op.pc # "cleanup" /\ op'.pc = "cleanup"
                   /\ op'.start = op.start /\ op'.mr = op.mr /\ op'.left = 0
      /\ ~op'.rw => ~op.rw \/ op.pc = "cleanup"
    BY <1>1, LeaveKeeps
<1>3. UNCHANGED <<tx, done, sq, cq, qp>>
    BY DEF Quiet, ringVars
<1>4. Awaited' => Awaited
    BY <1>2, <1>3 DEF Awaited, Outstanding
<1>5. TypeOK' /\ RingInv' /\ SlotInv' /\ ErrInv' /\ SignalInv'
    BY <1>2, <1>4, QuietKeeps
<1>6. ASSUME Registered PROVE PayloadInv'
  <2>0. PayloadInv
      BY <1>6 DEF SendInv
  <2>1. op'.rw => op'.mr # "shared"
      BY <1>2, <2>0 DEF PayloadInv
  <2>2. op'.rw => Diff(tx, op.start) \in Int /\ op.left \in Nat
    <3>1. tx \in Counter /\ op.start \in Counter /\ op.left \in Nat
        BY <1>1 DEF TypeOK, Op
    <3>. QED BY <3>1, DiffIs
  <2>3. op'.rw => Diff(tx', op'.start) + op'.left <= MaxFrames + 1
      BY <1>2, <1>3, <2>0, <2>2, RingAssumption DEF PayloadInv
  <2>4. ASSUME NEW i \in 1..Len(sq), sq[i].src = Payload, qp = "ok"
        PROVE  /\ op'.rw /\ op'.mr = "reg" /\ op'.pc # "frame"
               /\ Dist(sq[i].id) <= Diff(tx, op'.start)
    <3>1. /\ op.rw /\ op.mr = "reg" /\ op.pc # "frame"
          /\ Dist(sq[i].id) <= Diff(tx, op.start)
        BY <2>0, <2>4 DEF PayloadInv
    <3>2. op.pc # "cleanup"
        BY <1>6, <2>4 DEF Reads
    <3>. QED BY <1>2, <3>1, <3>2
  <2>. QED BY <1>2, <1>3, <2>1, <2>3, <2>4 DEF PayloadInv, Dist
<1>. QED BY <1>2, <1>5, <1>6 DEF SendInv, Registered

\* Nothing is read once the cleanup need not wait.
LEMMA CleanupReadsNothing ==
    ASSUME SendInv, Registered, qp = "ok", ~MustWait,
           NEW i \in 1..Len(sq), Reads(i)
    PROVE  FALSE
<1>1. /\ op.rw /\ op.mr = "reg" /\ Dist(sq[i].id) <= Diff(tx, op.start)
      /\ Diff(tx, op.start) + op.left <= MaxFrames + 1
  <2>1. PayloadInv
      BY DEF SendInv
  <2>2. op.rw /\ op.mr = "reg" /\ Dist(sq[i].id) <= Diff(tx, op.start)
      BY <2>1 DEF PayloadInv, Reads
  <2>3. Diff(tx, op.start) + op.left <= MaxFrames + IF op.pc \in {"write", "drain"} THEN 0 ELSE 1
      BY <2>1, <2>2 DEF PayloadInv
  <2>4. Diff(tx, op.start) \in Int /\ op.left \in Nat
    <3>1. tx \in Counter /\ op.start \in Counter /\ op.left \in Nat
        BY DEF SendInv, TypeOK, Op
    <3>. QED BY <3>1, DiffIs
  <2>. QED BY <2>2, <2>3, <2>4, RingAssumption
<1>2. /\ tx \in Counter /\ done \in Counter /\ op.start \in Counter /\ op.left \in Nat
      /\ Len(sq) \in Nat /\ Len(cq) \in Nat
    BY DEF SendInv, TypeOK, Op
<1>3. /\ Outstanding \in Nat /\ Outstanding <= Depth /\ Outstanding >= 1
      /\ Dist(sq[i].id) >= 1
  <2>1. /\ Outstanding <= Depth /\ Len(sq) + Len(cq) <= Outstanding
        /\ Dist(sq[i].id) = Len(sq) + 1 - i
      BY DEF SendInv, RingInv
  <2>2. Outstanding \in Nat
      BY <1>2, DiffIs, ModFacts DEF Outstanding
  <2>. QED BY <1>2, <2>1, <2>2
<1>4. After(tx, done)
    BY <1>3, AfterNear DEF Outstanding
<1>5. After(tx, op.start)
  <2>1. Diff(tx, op.start) \in Nat /\ Dist(sq[i].id) \in Nat
    <3>1. TypeOK
        BY DEF SendInv
    <3>2. Dist(sq[i].id) \in Nat
        BY <3>1, QueueTypes
    <3>3. Diff(tx, op.start) \in 0..(Mod - 1)
        BY <1>2, DiffIs
    <3>. QED BY <3>2, <3>3, ModFacts
  <2>2. Diff(tx, op.start) >= 1
      BY <1>1, <1>3, <2>1
  <2>3. Mod \div 2 \in Int
      BY ModFacts
  <2>4. Diff(tx, op.start) < Mod \div 2
      BY <1>1, <1>2, <2>1, <2>3, RingAssumption DEF Registered
  <2>. QED BY <2>1, <2>2, <2>4 DEF After
<1>. QED BY <1>1, <1>4, <1>5 DEF MustWait

\* A request is posted by a function that goes on or leaves.
LEMMA PostFrameKeeps ==
    ASSUME SendInv, PostFrame
    PROVE  SendInv'
<1>1. TypeOK /\ RingInv /\ SlotInv /\ OpInv /\ ErrInv /\ SignalInv
    BY DEF SendInv
<1>2. op \in Op /\ op.pc = "frame" /\ op.left \in 1..MaxFrames /\ tx \in Counter
    BY <1>1 DEF TypeOK, Op, OpInv, PostFrame
<1>3. PICK inl \in Inline : Post(NeedSignal(op.left = 1), IF inl THEN Inlined ELSE Slot)
    BY DEF PostFrame
<1> DEFINE sig == NeedSignal(op.left = 1)
           src == IF inl THEN Inlined ELSE Slot
<1>4. /\ sig \in BOOLEAN /\ src \in Source /\ (src >= 0 => src = Slot) /\ src # Payload
  <2>1. Slot \in 0..(Depth - 1)
      BY <1>2, ModFacts DEF Slot, Counter
  <2>2. inl \in BOOLEAN
      BY <1>3, SendEnvironment
  <2>. QED BY <2>1, <2>2, ModFacts DEF NeedSignal, Source, Inlined, Payload
<1>5. Posted(sig, src)
    BY <1>3 DEF Posted, PostFrame
<1> HIDE DEF sig, src
<1>6. /\ RingInv' /\ SlotInv'
      /\ tx' \in Counter /\ sq' \in Seq(WR) /\ sq' # <<>>
      /\ Len(sq') = Len(sq) + 1
      /\ sq'[Len(sq')] = [id |-> tx, sig |-> sig, src |-> src]
      /\ \A i \in 1..Len(sq) : sq'[i] = sq[i]
      /\ Outstanding' = Outstanding + 1
    BY <1>1, <1>4, <1>5, PostKeeps
<1>7. /\ UNCHANGED <<done, cq, qp>>
      /\ \/ op.left = 1 /\ Leave
         \/ op.left > 1 /\ op' = [op EXCEPT !.left = @ - 1]
    BY DEF PostFrame
<1>8. /\ op' \in Op /\ OpInv' /\ op'.pc # "drain" /\ op'.pc # "write"
      /\ op'.rw => /\ op.rw /\ op.left = 1 /\ op'.mr = op.mr /\ op'.start = op.start
                   /\ op'.left = 0
  <2>1. CASE op.left = 1 /\ Leave
      BY <1>1, <2>1, LeaveKeeps
  <2>2. CASE op.left > 1 /\ op' = [op EXCEPT !.left = @ - 1]
    <3>1. ~op.rw
        BY <1>1, <1>2, <2>2 DEF OpInv
    <3>2. op.left - 1 \in 0..MaxFrames /\ op.left - 1 >= 1
        BY <1>2, <2>2, RingAssumption
    <3>3. op' \in Op /\ op'.pc = "frame" /\ op'.rw = op.rw /\ op'.left = op.left - 1
        BY <1>2, <2>2, <3>2 DEF Op
    <3>. QED BY <3>1, <3>2, <3>3 DEF OpInv
  <2>. QED BY <1>7, <2>1, <2>2
<1>9. TypeOK'
    BY <1>1, <1>6, <1>7, <1>8 DEF TypeOK, WR
<1>10. ErrInv'
    BY <1>1, <1>7 DEF ErrInv
<1>11. SignalInv'
  <2> SUFFICES ASSUME Awaited' PROVE sig
      BY <1>6 DEF SignalInv, LastSignaled
  <2>1. CASE (Outstanding >= Depth)'
      BY <1>6, <2>1 DEF sig, NeedSignal, Outstanding
  <2>2. CASE op'.rw
      BY <1>8, <2>2 DEF sig, NeedSignal
  <2>. QED BY <1>8, <2>1, <2>2 DEF Awaited
<1>12. ASSUME Registered PROVE PayloadInv'
  <2>0. PayloadInv
      BY <1>12 DEF SendInv
  <2>1. op'.rw => op'.mr # "shared"
      BY <1>8, <2>0 DEF PayloadInv
  <2>2. op'.rw => Diff(tx', op'.start) + op'.left <= MaxFrames + 1
    <3> SUFFICES ASSUME op'.rw PROVE Diff(tx', op.start) <= MaxFrames + 1
        <4>1. op'.rw => op'.start = op.start /\ op'.left = 0
            BY <1>8
        <4>2. Diff(tx', op.start) \in Int
            BY <1>2, <1>6, DiffIs DEF Op
        <4>. QED BY <4>1, <4>2
    <3>1. Diff(tx, op.start) + 1 <= MaxFrames + 1
        BY <1>2, <1>8, <2>0 DEF PayloadInv
    <3>2. op.start \in Counter /\ Diff(tx, op.start) \in Nat
        <4>1. op.start \in Counter
            BY <1>2 DEF Op
        <4>. QED BY <4>1, <1>2, DiffIs, ModFacts
    <3>3. Mod \div 2 \in Int /\ Mod \div 2 <= Mod
        BY ModFacts
    <3>4. Diff(tx, op.start) <= Mod - 2
        BY <3>1, <3>2, <3>3, <1>12, RingAssumption, ModFacts DEF Registered
    <3>5. tx' = Plus1(tx)
        BY <1>3 DEF Post
    <3>6. Diff(tx', op.start) = Diff(tx, op.start) + 1
        BY <1>2, <3>2, <3>4, <3>5, DiffPost
    <3>. QED BY <3>1, <3>6
  <2>3. ASSUME NEW i \in 1..Len(sq'), sq'[i].src = Payload, qp = "ok"
        PROVE  FALSE
    <3>1. i # Len(sq')
        BY <1>4, <1>6, <2>3
    <3>2. i \in 1..Len(sq) /\ sq'[i] = sq[i]
        BY <1>1, <1>6, <3>1 DEF TypeOK
    <3>. QED BY <1>2, <2>0, <2>3, <3>2 DEF PayloadInv
  <2>. QED BY <1>7, <1>8, <2>1, <2>2, <2>3 DEF PayloadInv
<1>. QED BY <1>6, <1>8, <1>9, <1>10, <1>11, <1>12 DEF SendInv, Registered

LEMMA PostWriteKeeps ==
    ASSUME SendInv, PostWrite
    PROVE  SendInv'
<1>1. TypeOK /\ RingInv /\ SlotInv /\ OpInv /\ ErrInv /\ SignalInv
    BY DEF SendInv
<1>2. /\ op \in Op /\ op.pc = "write" /\ op.rw /\ op.left \in 1..MaxFrames
      /\ tx \in Counter /\ op.start \in Counter
    BY <1>1 DEF TypeOK, Op, OpInv, PostWrite
<1> DEFINE src == IF op.mr = "staged" THEN Slot ELSE Payload
<1>3. src \in Source /\ (src >= 0 => src = Slot) /\ (src = Payload => op.mr # "staged")
  <2>1. Slot \in 0..(Depth - 1)
      BY <1>2, ModFacts DEF Slot, Counter
  <2>. QED BY <2>1, ModFacts DEF Source, Inlined, Payload
<1>4. Posted(TRUE, src)
    BY DEF Posted, PostWrite
<1> HIDE DEF src
<1>5. /\ RingInv' /\ SlotInv'
      /\ tx' \in Counter /\ sq' \in Seq(WR) /\ sq' # <<>>
      /\ Len(sq') = Len(sq) + 1
      /\ sq'[Len(sq')] = [id |-> tx, sig |-> TRUE, src |-> src]
      /\ \A i \in 1..Len(sq) : sq'[i] = sq[i]
      /\ Outstanding' = Outstanding + 1
      /\ \A i \in 1..Len(sq) : Diff(tx', sq[i].id) = Dist(sq[i].id) + 1
    BY <1>1, <1>3, <1>4, PostKeeps
<1>6. /\ UNCHANGED <<done, cq, qp>>
      /\ op' = IF op.left = 1
               THEN [op EXCEPT !.left = 0, !.pc = "drain", !.target = tx']
               ELSE [op EXCEPT !.left = @ - 1]
    BY DEF PostWrite
<1>7. /\ op' \in Op /\ op'.rw /\ op'.mr = op.mr /\ op'.start = op.start
      /\ op'.left = op.left - 1
      /\ op'.pc \in {"write", "drain"} /\ (op'.pc = "write" <=> op.left # 1)
      /\ op'.pc = "drain" => op'.target = tx'
  <2>1. op.left - 1 \in 0..MaxFrames /\ 0 \in 0..MaxFrames
      BY <1>2, RingAssumption
  <2>2. CASE op.left = 1
    <3>1. op' = [op EXCEPT !.left = 0, !.pc = "drain", !.target = tx']
        BY <1>6, <2>2
    <3>2. /\ op' \in Op /\ op'.rw = op.rw /\ op'.mr = op.mr /\ op'.start = op.start
          /\ op'.left = 0 /\ op'.pc = "drain" /\ op'.target = tx'
        BY <1>2, <1>5, <2>1, <3>1 DEF Op
    <3>. QED BY <1>2, <2>2, <3>2
  <2>3. CASE op.left # 1
    <3>1. op' = [op EXCEPT !.left = op.left - 1]
        BY <1>6, <2>3
    <3>. QED BY <1>2, <2>1, <2>3, <3>1 DEF Op
  <2>. QED BY <2>2, <2>3
<1>8. OpInv'
    BY <1>2, <1>7 DEF OpInv
<1>9. TypeOK'
    BY <1>1, <1>5, <1>6, <1>7 DEF TypeOK, WR
<1>10. ErrInv'
    BY <1>1, <1>6 DEF ErrInv
<1>11. SignalInv'
    BY <1>5 DEF SignalInv, LastSignaled
<1>12. ASSUME Registered PROVE PayloadInv'
  <2>0. PayloadInv
      BY <1>12 DEF SendInv
  <2>1. op.mr # "shared" /\ Diff(tx, op.start) + op.left <= MaxFrames
    <3>1. Diff(tx, op.start) + op.left <= MaxFrames + 0
        BY <1>2, <2>0 DEF PayloadInv
    <3>. QED BY <1>2, <2>0, <3>1, RingAssumption DEF PayloadInv
  <2>2. Diff(tx, op.start) \in Nat
      BY <1>2, DiffIs, ModFacts
  <2>3. Diff(tx', op.start) = Diff(tx, op.start) + 1
    <3>1. Mod \div 2 \in Int /\ Mod \div 2 <= Mod
        BY ModFacts
    <3>2. Diff(tx, op.start) <= Mod - 2
        BY <1>2, <2>1, <2>2, <3>1, <1>12, RingAssumption, ModFacts DEF Registered
    <3>3. tx' = Plus1(tx)
        BY DEF PostWrite, Post
    <3>. QED BY <1>2, <3>2, <3>3, DiffPost
  <2>4. Diff(tx', op'.start) + op'.left <= MaxFrames + 0
    <3>1. Diff(tx', op'.start) = Diff(tx, op.start) + 1
        BY <1>7, <2>3
    <3>2. Diff(tx', op'.start) + op'.left = Diff(tx, op.start) + op.left
        BY <1>2, <1>7, <2>2, <3>1
    <3>. QED BY <1>2, <2>1, <2>2, <3>2, RingAssumption
  <2>5. ASSUME NEW i \in 1..Len(sq'), sq'[i].src = Payload, qp = "ok"
        PROVE  op.mr = "reg" /\ Diff(tx', sq'[i].id) <= Diff(tx', op.start)
    <3>1. CASE i = Len(sq')
      <4>1. op.mr = "reg"
        <5>1. op.mr \in {"reg", "shared", "staged"}
            BY <1>2 DEF Op
        <5>2. op.mr # "staged"
            BY <1>3, <1>5, <2>5, <3>1
        <5>. QED BY <2>1, <5>1, <5>2
      <4>2. Diff(tx', sq'[i].id) = 1
        <5>1. sq'[i].id = tx /\ tx' = Plus1(tx)
            BY <1>5, <3>1 DEF PostWrite, Post
        <5>. QED BY <1>2, <5>1, DiffZero
      <4>. QED BY <2>2, <2>3, <4>1, <4>2
    <3>2. CASE i # Len(sq')
      <4>1. i \in 1..Len(sq) /\ sq'[i] = sq[i]
          BY <1>1, <1>5, <3>2 DEF TypeOK
      <4>2. op.mr = "reg" /\ Dist(sq[i].id) <= Diff(tx, op.start)
          BY <2>0, <2>5, <4>1 DEF PayloadInv
      <4>3. Diff(tx', sq'[i].id) = Dist(sq[i].id) + 1 /\ Dist(sq[i].id) \in Nat
          BY <1>1, <1>5, <4>1, QueueTypes
      <4>. QED BY <2>2, <2>3, <4>2, <4>3
    <3>. QED BY <3>1, <3>2
  <2>. QED BY <1>6, <1>7, <2>1, <2>4, <2>5 DEF PayloadInv, Dist
<1>. QED BY <1>5, <1>8, <1>9, <1>10, <1>11, <1>12 DEF SendInv, Registered

LEMMA DrainedKeeps ==
    ASSUME SendInv, Drained
    PROVE  SendInv'
<1>1. TypeOK /\ RingInv /\ OpInv
    BY DEF SendInv
<1>2. op \in Op /\ op.pc = "drain" /\ op.rw /\ op.left = 0 /\ op.target = tx /\ ~After(tx, done)
    BY <1>1 DEF TypeOK, OpInv, Drained
<1>3. Quiet /\ op' = [op EXCEPT !.pc = "frame", !.left = 1]
    BY DEF Drained, Quiet
<1>4. /\ op' \in Op /\ op'.pc = "frame" /\ op'.left = 1
      /\ op'.rw = op.rw /\ op'.mr = op.mr /\ op'.start = op.start
  <2>1. 1 \in 0..MaxFrames
      BY RingAssumption
  <2>. QED BY <1>2, <1>3, <2>1 DEF Op
<1>5. OpInv'
    BY <1>4 DEF OpInv
<1>6. TypeOK' /\ RingInv' /\ SlotInv' /\ ErrInv' /\ SignalInv'
    BY <1>2, <1>3, <1>4, QuietKeeps DEF Awaited
<1>7. Len(sq) = 0
  <2>1. /\ Outstanding <= Depth /\ Len(sq) + Len(cq) <= Outstanding /\ Outstanding \in Nat
        /\ Len(sq) \in Nat /\ Len(cq) \in Nat
      BY <1>1, QueueTypes, ModFacts DEF RingInv
  <2>2. ~(Outstanding >= 1)
      BY <1>2, <2>1, AfterNear DEF Outstanding
  <2>. QED BY <2>1, <2>2
<1>8. ASSUME Registered PROVE PayloadInv'
  <2>0. PayloadInv
      BY <1>8 DEF SendInv
  <2>1. UNCHANGED <<tx, sq, qp>>
      BY <1>3 DEF Quiet, ringVars
  <2>2. op.mr # "shared" /\ Diff(tx, op.start) + 0 <= MaxFrames + 0
      BY <1>2, <2>0 DEF PayloadInv
  <2>3. Diff(tx, op.start) \in Int
    <3>1. op.start \in Counter /\ tx \in Counter
        BY <1>1, <1>2 DEF TypeOK, Op
    <3>. QED BY <3>1, DiffIs
  <2>4. Diff(tx', op'.start) + op'.left <= MaxFrames + 1
      BY <1>4, <2>1, <2>2, <2>3, RingAssumption
  <2>. QED BY <1>4, <1>7, <2>1, <2>2, <2>4 DEF PayloadInv
<1>. QED BY <1>5, <1>6, <1>8 DEF SendInv, Registered

\* A call starts.
LEMMA StartKeeps ==
    ASSUME SendInv, NEW n \in 1..MaxFrames, NEW m \in MRs \cup {"staged"},
           SendMessage(n) \/ SendMessageRW(n, m)
    PROVE  SendInv'
<1>1. TypeOK /\ RingInv /\ OpInv /\ tx \in Counter /\ op.pc = "idle" /\ ~op.rw /\ Quiet
    BY DEF SendInv, TypeOK, OpInv, SendMessage, SendMessageRW, Quiet
<1>2. /\ op' \in Op /\ OpInv' /\ op'.pc \in {"frame", "write"} /\ op'.left = n
      /\ op'.rw => op'.start = tx /\ op'.mr = m /\ op'.pc = "write"
  <2>1. n \in 0..MaxFrames /\ n >= 1 /\ 0 \in Counter
      BY ModFacts, RingAssumption
  <2>2. CASE SendMessage(n)
    <3>1. op' = [pc |-> "frame", left |-> n, rw |-> FALSE, mr |-> "staged",
                 start |-> 0, target |-> 0]
        BY <2>2 DEF SendMessage, NoOp
    <3>. QED BY <2>1, <3>1 DEF Op, OpInv
  <2>3. CASE SendMessageRW(n, m)
    <3>1. op' = [pc |-> "write", left |-> n, rw |-> TRUE, mr |-> m, start |-> tx, target |-> 0]
        BY <2>3 DEF SendMessageRW
    <3>2. m \in {"reg", "shared", "staged"}
        BY SendEnvironment
    <3>. QED BY <1>1, <2>1, <3>1, <3>2 DEF Op, OpInv
  <2>. QED BY <2>2, <2>3
<1>3. UNCHANGED <<tx, done, sq, cq, qp>>
    BY <1>1 DEF Quiet, ringVars
<1>4. Awaited' => Awaited
    BY <1>2, <1>3 DEF Awaited, Outstanding
<1>5. TypeOK' /\ RingInv' /\ SlotInv' /\ ErrInv' /\ SignalInv'
    BY <1>1, <1>2, <1>4, QuietKeeps
<1>6. ASSUME Registered PROVE PayloadInv'
  <2>0. PayloadInv
      BY <1>6 DEF SendInv
  <2>1. op'.rw => op'.mr # "shared"
      BY <1>2, <1>6 DEF Registered
  <2>2. Diff(tx, tx) = 0
      BY <1>1, DiffZero
  <2>3. op'.rw => Diff(tx', op'.start) + op'.left <= MaxFrames + 0 /\ op'.pc = "write"
      BY <1>2, <1>3, <2>2, RingAssumption
  <2>. QED BY <1>1, <1>3, <2>0, <2>1, <2>3 DEF PayloadInv
<1>. QED BY <1>2, <1>5, <1>6 DEF SendInv, Registered

LEMMA ReapStep ==
    ASSUME SendInv, Reap
    PROVE  SendInv'
<1>1. TypeOK /\ RingInv /\ SlotInv /\ OpInv /\ ErrInv /\ SignalInv
    BY DEF SendInv
<1>2. /\ RingInv' /\ SlotInv'
      /\ done' \in Counter /\ cq' \in Seq(WC) /\ cq # <<>> /\ Len(cq') = Len(cq) - 1
      /\ \A i \in 1..Len(cq') : cq'[i] = cq[i + 1]
      /\ UNCHANGED <<tx, sq, qp>>
      /\ \/ UNCHANGED op /\ Outstanding' = Dist(cq[1].id) - 1
         \/ Leave /\ done' = done /\ qp = "err"
    BY <1>1, ReapKeeps
<1>3. Len(cq) \in Nat \ {0} /\ Len(cq') \in Nat
    BY <1>1, <1>2 DEF TypeOK
<1>4. ErrInv'
  <2> SUFFICES ASSUME NEW i \in 1..Len(cq'), ~cq'[i].ok PROVE qp = "err"
      BY <1>2 DEF ErrInv
  <2>1. i + 1 \in 1..Len(cq) /\ cq'[i] = cq[i + 1]
      BY <1>2, <1>3
  <2>. QED BY <1>1, <2>1 DEF ErrInv
<1>5. CASE UNCHANGED op /\ Outstanding' = Dist(cq[1].id) - 1
  <2>1. TypeOK'
      BY <1>1, <1>2, <1>5 DEF TypeOK, WC
  <2>2. OpInv'
      BY <1>1, <1>2, <1>5 DEF OpInv
  <2>3. SignalInv'
    <3> SUFFICES ASSUME qp = "ok", Outstanding' > 0, Awaited' PROVE LastSignaled'
        BY <1>2 DEF SignalInv
    <3>1. /\ 1 \in 1..Len(cq) /\ Dist(cq[1].id) \in Nat
          /\ Dist(cq[1].id) <= Outstanding /\ Outstanding \in Nat
        BY <1>1, <1>3, QueueTypes, ModFacts DEF RingInv
    <3>2. Outstanding > 0 /\ Awaited
        BY <1>2, <1>5, <3>1, ModFacts DEF Awaited
    <3>3. LastSignaled
        BY <1>1, <3>2 DEF SignalInv
    <3>4. CASE sq # <<>> /\ sq[Len(sq)].sig
        BY <1>2, <3>4 DEF LastSignaled
    <3>5. CASE cq # <<>> /\ Dist(cq[Len(cq)].id) = 1
      <4>1. Len(cq) # 1
          BY <1>5, <3>5
      <4>2. Len(cq') \in 1..Len(cq') /\ Len(cq') + 1 = Len(cq)
          BY <1>2, <1>3, <4>1
      <4>3. cq'[Len(cq')] = cq[Len(cq)] /\ cq' # <<>>
          BY <1>2, <4>2
      <4>. QED BY <1>2, <3>5, <4>3 DEF LastSignaled, Dist
    <3>. QED BY <3>3, <3>4, <3>5 DEF LastSignaled
  <2>4. Registered => PayloadInv'
      BY <1>2, <1>5 DEF SendInv, PayloadInv, Dist
  <2>. QED BY <1>2, <1>4, <2>1, <2>2, <2>3, <2>4 DEF SendInv, Registered
<1>6. CASE Leave /\ done' = done /\ qp = "err"
  <2>1. /\ op' \in Op /\ OpInv' /\ op'.pc # "drain" /\ op'.pc # "write"
        /\ op'.rw => /\ op.rw /\ op.pc # "cleanup" /\ op'.pc = "cleanup"
                     /\ op'.start = op.start /\ op'.mr = op.mr /\ op'.left = 0
      BY <1>1, <1>6, LeaveKeeps
  <2>2. TypeOK'
      BY <1>1, <1>2, <2>1 DEF TypeOK, WC
  <2>3. SignalInv'
      BY <1>2, <1>6 DEF SignalInv
  <2>4. ASSUME Registered PROVE PayloadInv'
    <3>0. PayloadInv
        BY <2>4 DEF SendInv
    <3>1. op'.rw => op'.mr # "shared"
        BY <2>1, <3>0 DEF PayloadInv
    <3>2. Diff(tx, op.start) \in Int /\ op.left \in Nat
      <4>1. op.start \in Counter /\ tx \in Counter /\ op.left \in Nat
          BY <1>1 DEF TypeOK, Op
      <4>. QED BY <4>1, DiffIs
    <3>3. op'.rw => Diff(tx', op'.start) + op'.left <= MaxFrames + 1
        BY <1>2, <2>1, <3>0, <3>2, RingAssumption DEF PayloadInv
    <3>. QED BY <1>2, <1>6, <2>1, <3>1, <3>3 DEF PayloadInv
  <2>. QED BY <1>2, <1>4, <2>1, <2>2, <2>3, <2>4 DEF SendInv, Registered
<1>. QED BY <1>2, <1>5, <1>6

LEMMA ExecuteStep ==
    ASSUME SendInv, Execute
    PROVE  SendInv'
<1>1. TypeOK /\ RingInv /\ SlotInv /\ OpInv /\ ErrInv /\ SignalInv
    BY DEF SendInv
<1>2. /\ RingInv' /\ SlotInv'
      /\ sq' \in Seq(WR) /\ cq' \in Seq(WC)
      /\ sq # <<>> /\ Len(sq') = Len(sq) - 1
      /\ \A i \in 1..Len(sq') : sq'[i] = sq[i + 1]
      /\ \/ cq' = cq
         \/ /\ Len(cq') = Len(cq) + 1 /\ cq'[Len(cq) + 1] = [id |-> sq[1].id, ok |-> qp = "ok"]
            /\ \A i \in 1..Len(cq) : cq'[i] = cq[i]
      /\ qp = "ok" /\ sq[1].sig => cq' # cq
    BY <1>1, ExecuteKeeps
<1>3. UNCHANGED <<tx, done, qp, op>>
    BY DEF Execute
<1>4. Len(sq) \in Nat \ {0} /\ Len(sq') \in Nat /\ Len(cq) \in Nat /\ qp \in {"ok", "err"}
    BY <1>1, <1>2 DEF TypeOK
<1>5. TypeOK'
    BY <1>1, <1>2, <1>3 DEF TypeOK, WR, WC
<1>6. OpInv'
    BY <1>1, <1>3 DEF OpInv
<1>7. ErrInv'
  <2> SUFFICES ASSUME NEW i \in 1..Len(cq'), ~cq'[i].ok PROVE qp = "err"
      BY <1>3 DEF ErrInv
  <2>1. CASE cq' = cq
      BY <1>1, <2>1 DEF ErrInv
  <2>2. CASE /\ Len(cq') = Len(cq) + 1 /\ cq'[Len(cq) + 1] = [id |-> sq[1].id, ok |-> qp = "ok"]
             /\ \A j \in 1..Len(cq) : cq'[j] = cq[j]
    <3>1. CASE i = Len(cq) + 1
      <4>1. cq'[i].ok = (qp = "ok")
          BY <2>2, <3>1
      <4>. QED BY <1>4, <4>1
    <3>2. CASE i # Len(cq) + 1
      <4>1. i \in 1..Len(cq)
          BY <1>4, <2>2, <3>2
      <4>. QED BY <1>1, <2>2, <4>1 DEF ErrInv
    <3>. QED BY <3>1, <3>2
  <2>. QED BY <1>2, <2>1, <2>2
<1>8. SignalInv'
  <2> SUFFICES ASSUME qp = "ok", LastSignaled PROVE LastSignaled'
      BY <1>1, <1>3 DEF SignalInv, Awaited, Outstanding
  <2>1. \A i \in 1..Len(sq) : Dist(sq[i].id) = Len(sq) + 1 - i
      BY <1>1 DEF RingInv
  <2>2. CASE sq[Len(sq)].sig /\ Len(sq) = 1
    <3>1. /\ Len(cq') = Len(cq) + 1 /\ cq'[Len(cq) + 1] = [id |-> sq[1].id, ok |-> qp = "ok"]
        BY <1>2, <2>2
    <3>2. Dist(sq[1].id) = 1
      <4>1. Dist(sq[1].id) = Len(sq) + 1 - 1
          BY <1>4, <2>1
      <4>. QED BY <2>2, <4>1
    <3>3. cq'[Len(cq')].id = sq[1].id /\ cq' # <<>>
        BY <1>4, <3>1
    <3>. QED BY <1>3, <3>2, <3>3 DEF LastSignaled, Dist
  <2>3. CASE sq[Len(sq)].sig /\ Len(sq) # 1
    <3>1. Len(sq') \in 1..Len(sq') /\ Len(sq') + 1 = Len(sq)
        BY <1>2, <1>4, <2>3
    <3>2. sq'[Len(sq')] = sq[Len(sq)] /\ sq' # <<>>
        BY <1>2, <3>1
    <3>. QED BY <2>3, <3>2 DEF LastSignaled
  <2>4. CASE cq # <<>> /\ Dist(cq[Len(cq)].id) = 1
    <3>1. Len(cq) \in 1..Len(cq)
        BY <1>1, <1>4, <2>4 DEF TypeOK
    <3>2. Dist(cq[Len(cq)].id) >= Len(sq) + Len(cq) + 1 - Len(cq)
        BY <1>1, <3>1 DEF RingInv
    <3>. QED BY <1>4, <2>4, <3>2
  <2>. QED BY <2>2, <2>3, <2>4 DEF LastSignaled
<1>9. ASSUME Registered PROVE PayloadInv'
  <2>0. PayloadInv
      BY <1>9 DEF SendInv
  <2>1. ASSUME NEW i \in 1..Len(sq'), sq'[i].src = Payload, qp = "ok"
        PROVE  /\ op.rw /\ op.mr = "reg" /\ op.pc # "frame"
               /\ Dist(sq'[i].id) <= Diff(tx, op.start)
    <3>1. i + 1 \in 1..Len(sq) /\ sq'[i] = sq[i + 1]
        BY <1>2, <1>4
    <3>. QED BY <2>0, <2>1, <3>1 DEF PayloadInv
  <2>. QED BY <1>3, <2>0, <2>1 DEF PayloadInv, Dist
<1>. QED BY <1>2, <1>5, <1>6, <1>7, <1>8, <1>9 DEF SendInv, Registered

LEMMA BreakStep ==
    ASSUME SendInv, Break
    PROVE  SendInv'
<1>1. qp' = "err" /\ UNCHANGED <<tx, done, sq, cq, op>>
    BY DEF Break, ringVars
<1>2. Outstanding' = Outstanding
    BY <1>1 DEF Outstanding
<1>3. TypeOK' /\ OpInv'
    BY <1>1 DEF SendInv, TypeOK, OpInv
<1>4. RingInv'
    BY <1>1, <1>2 DEF SendInv, RingInv, Dist
<1>5. SlotInv' /\ ErrInv' /\ SignalInv'
    BY <1>1 DEF SendInv, SlotInv, ErrInv, SignalInv
<1>6. Registered => PayloadInv'
    BY <1>1 DEF SendInv, PayloadInv
<1>. QED BY <1>3, <1>4, <1>5, <1>6 DEF SendInv, Registered

LEMMA InitHolds == Init => SendInv
<1> SUFFICES ASSUME Init PROVE SendInv
    OBVIOUS
<1>1. tx = 0 /\ done = 0 /\ sq = <<>> /\ cq = <<>> /\ qp = "ok" /\ op = NoOp
    BY DEF Init
<1>2. Outstanding = 0
    BY <1>1, ModFacts, DiffZero DEF Outstanding
<1>3. op \in Op /\ OpInv
    BY <1>1, ModFacts, RingAssumption DEF Op, OpInv, NoOp
<1>4. TypeOK
    BY <1>1, <1>3, ModFacts DEF TypeOK
<1>5. RingInv
    BY <1>1, <1>2, ModFacts DEF RingInv
<1>6. SlotInv /\ ErrInv /\ SignalInv
    BY <1>1, <1>2 DEF SlotInv, ErrInv, SignalInv
<1>7. PayloadInv
    BY <1>1 DEF PayloadInv, NoOp
<1>. QED BY <1>3, <1>4, <1>5, <1>6, <1>7 DEF SendInv

\* The invariant is inductive: one case per action.
LEMMA SendStep == SendInv /\ [Next]_vars => SendInv'
<1> SUFFICES ASSUME SendInv, [Next]_vars PROVE SendInv'
    OBVIOUS
<1>1. CASE \E n \in 1..MaxFrames : SendMessage(n)
    BY <1>1, StartKeeps
<1>2. CASE \E n \in 1..MaxFrames, m \in MRs : SendMessageRW(n, m)
    BY <1>2, StartKeeps
<1>3. CASE PostFrame
    BY <1>3, PostFrameKeeps
<1>4. CASE PostWrite
    BY <1>4, PostWriteKeeps
<1>5. CASE Drained
    BY <1>5, DrainedKeeps
<1>6. CASE Cleanup
  <2>1. Quiet /\ Leave /\ ~MustWait
      BY <1>6 DEF Cleanup, Quiet
  <2>. QED BY <2>1, QuietLeave, CleanupReadsNothing
<1>7. CASE Reap
    BY <1>7, ReapStep
<1>8. CASE Timeout
    BY <1>8, QuietLeave DEF Timeout, Quiet
<1>9. CASE PostFail
    BY <1>9, QuietLeave DEF PostFail, Quiet
<1>10. CASE Execute
    BY <1>10, ExecuteStep
<1>11. CASE Break
    BY <1>11, BreakStep
<1>12. CASE UNCHANGED vars
  <2>1. Quiet /\ UNCHANGED op /\ UNCHANGED <<tx, done, sq, cq, qp>>
      BY <1>12 DEF vars, ringVars, Quiet
  <2>2. TypeOK' /\ RingInv' /\ SlotInv' /\ ErrInv' /\ SignalInv'
    <3>1. op' \in Op /\ (Awaited' => Awaited)
        BY <2>1 DEF SendInv, TypeOK, Awaited, Outstanding
    <3>. QED BY <2>1, <3>1, QuietKeeps
  <2>3. OpInv' /\ (Registered => PayloadInv')
      BY <2>1 DEF SendInv, OpInv, PayloadInv, Dist
  <2>. QED BY <2>2, <2>3 DEF SendInv, Registered
<1>. QED
    BY <1>1, <1>2, <1>3, <1>4, <1>5, <1>6, <1>7, <1>8, <1>9, <1>10, <1>11, <1>12
    DEF Next, Sender

\* The inductive invariant holds of every state the sending side can reach.
THEOREM SendInvariant == Spec => []SendInv
<1>. QED BY InitHolds, SendStep, PTL DEF Spec

-----------------------------------------------------------------------------
\* Every variable keeps its type, tx_prod and send_completed within the counter
\* width, whatever the interleaving of the sender and the adapter.
THEOREM SendTypes == Spec => []TypeOK
<1>1. SendInv => TypeOK
    BY DEF SendInv
<1>. QED BY <1>1, SendInvariant, PTL

\* RingBound: wait_local_send_slot keeps the send queue and the completion queue
\* within send_depth, for any depth and counter width, across wrap-around,
\* timed-out sends and broken queue pairs.
THEOREM RingBounded == Spec => []RingBound
<1>1. SendInv => RingBound
  <2> SUFFICES ASSUME SendInv PROVE RingBound
      OBVIOUS
  <2>1. TypeOK /\ RingInv
      BY DEF SendInv
  <2>2. /\ Len(sq) \in Nat /\ Len(cq) \in Nat /\ Outstanding \in Nat
        /\ Outstanding <= Depth /\ Len(sq) + Len(cq) <= Outstanding
      BY <2>1, QueueTypes, ModFacts DEF RingInv
  <2>. QED BY <2>2, ModFacts DEF RingBound
<1>. QED BY <1>1, SendInvariant, PTL

\* SlotExclusive: tx_prod % send_depth gives posted work requests distinct staging
\* buffers whenever the depth divides the counter range (every power of two does;
\* another depth reuses a buffer when the counter wraps).
THEOREM SlotsExclusive == Spec => [](Mod % Depth = 0 => SlotExclusive)
<1>1. SendInv /\ Mod % Depth = 0 => SlotExclusive
  <2> SUFFICES ASSUME SendInv, Mod % Depth = 0,
                      NEW i \in 1..Len(sq), NEW j \in 1..Len(sq), i # j, sq[i].src >= 0
               PROVE  sq[i].src # sq[j].src
      BY DEF SlotExclusive
  <2>1. TypeOK /\ RingInv /\ SlotInv
      BY DEF SendInv
  <2>2. /\ tx \in Counter /\ Len(sq) \in Nat /\ Len(cq) \in Nat /\ Outstanding \in Nat
        /\ sq[i].id \in Counter /\ sq[j].id \in Counter
      BY <2>1, QueueTypes, ModFacts
  <2>3. /\ Diff(tx, sq[i].id) = Len(sq) + 1 - i /\ Diff(tx, sq[j].id) = Len(sq) + 1 - j
        /\ Len(sq) + Len(cq) <= Outstanding /\ Outstanding <= Depth
      BY <2>1 DEF RingInv, Dist
  <2>4. sq[i].id % Depth # sq[j].id % Depth
    <3>1. CASE i < j
      <4>1. Diff(tx, sq[j].id) <= Diff(tx, sq[i].id)
          BY <2>2, <2>3, <3>1
      <4>2. Diff(sq[j].id, sq[i].id) = Diff(tx, sq[i].id) - Diff(tx, sq[j].id)
          BY <2>2, <4>1, DiffSub
      <4>3. 0 < Diff(sq[j].id, sq[i].id) /\ Diff(sq[j].id, sq[i].id) < Depth
          BY <2>2, <2>3, <3>1, <4>2, ModFacts
      <4>. QED BY <2>2, <4>3, SlotsDiffer
    <3>2. CASE j < i
      <4>1. Diff(tx, sq[i].id) <= Diff(tx, sq[j].id)
          BY <2>2, <2>3, <3>2
      <4>2. Diff(sq[i].id, sq[j].id) = Diff(tx, sq[j].id) - Diff(tx, sq[i].id)
          BY <2>2, <4>1, DiffSub
      <4>3. 0 < Diff(sq[i].id, sq[j].id) /\ Diff(sq[i].id, sq[j].id) < Depth
          BY <2>2, <2>3, <3>2, <4>2, ModFacts
      <4>. QED BY <2>2, <4>3, SlotsDiffer
    <3>. QED BY <3>1, <3>2
  <2>5. sq[i].src = sq[i].id % Depth
      BY <2>1 DEF SlotInv
  <2>6. sq[j].src >= 0 => sq[j].src = sq[j].id % Depth
      BY <2>1 DEF SlotInv
  <2>. QED BY <2>4, <2>5, <2>6
<1>. QED BY <1>1, SendInvariant, PTL

\* WaitHasSignal: go_rdma_send_frame's choice of signaled requests leaves nobody
\* waiting for a completion that no request will generate: not for a slot of the
\* ring, not in the drain of an RDMA WRITE, not in the cleanup without a deadline.
THEOREM WaitsHaveSignals == Spec => []WaitHasSignal
<1>1. SendInv => WaitHasSignal
  <2> SUFFICES ASSUME SendInv, Waiting, qp = "ok"
               PROVE  cq # <<>> \/ \E i \in 1..Len(sq) : sq[i].sig
      BY DEF WaitHasSignal
  <2>1. TypeOK /\ RingInv /\ OpInv /\ SignalInv
      BY DEF SendInv
  <2>2. /\ Outstanding \in Nat /\ Outstanding <= Depth /\ sq \in Seq(WR) /\ Len(sq) \in Nat
        /\ tx \in Counter /\ op.start \in Counter
    <3>1. op.start \in Counter
        BY <2>1 DEF TypeOK, Op
    <3>. QED BY <2>1, <3>1, QueueTypes, ModFacts DEF RingInv
  <2>3. Outstanding > 0 /\ Awaited
    <3>1. CASE Full
        BY <2>2, <3>1, ModFacts DEF Full, Outstanding, Awaited
    <3>2. CASE op.pc = "drain" /\ After(op.target, done)
      <4>1. After(tx, done)
          BY <2>1, <3>2 DEF OpInv
      <4>. QED BY <2>2, <3>2, <4>1, AfterNear DEF Outstanding, Awaited
    <3>3. CASE op.pc = "cleanup" /\ MustWait
      <4>1. op.rw /\ After(tx, op.start) /\ After(tx, done)
          BY <2>1, <3>3 DEF OpInv, MustWait
      <4>2. Outstanding > 0
          BY <2>2, <4>1, AfterNear DEF Outstanding
      <4>3. Diff(tx, op.start) # 0
          BY <4>1 DEF After
      <4>4. tx # op.start
          BY <2>2, <4>3, DiffZero
      <4>. QED BY <4>1, <4>2, <4>4 DEF Awaited
    <3>. QED BY <3>1, <3>2, <3>3 DEF Waiting
  <2>4. LastSignaled
      BY <2>1, <2>3 DEF SignalInv
  <2>5. sq # <<>> => Len(sq) \in 1..Len(sq)
      BY <2>2
  <2>. QED BY <2>4, <2>5 DEF LastSignaled
<1>. QED BY <1>1, SendInvariant, PTL

\* PayloadNotRetained: the cleanup of go_rdma_send_message_rw deregisters a payload
\* only when no posted request reads it, however the call ended, for messages of
\* any length that two 32-bit counters can tell apart.
THEOREM PayloadReleased == Spec => [](Registered => PayloadNotRetained)
<1>1. SendInv /\ Registered => PayloadNotRetained
  <2> SUFFICES ASSUME SendInv, Registered, op.pc = "idle", qp = "ok"
               PROVE  \A i \in 1..Len(sq) : sq[i].src # Payload
      BY DEF PayloadNotRetained
  <2>1. ~op.rw /\ PayloadInv
      BY DEF SendInv, OpInv
  <2>. QED BY <2>1 DEF PayloadInv
<1>. QED BY <1>1, SendInvariant, PTL
=============================================================================
