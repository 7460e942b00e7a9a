-------------------------- MODULE VerbsOpenProofs --------------------------
(***************************************************************************)
(* Theorems about VerbsOpen, for any number of attempts and any limit.     *)
(***************************************************************************)
EXTENDS VerbsOpen, TLAPS

\* What the first k steps of go_rdma_open have acquired.
HeldAt(h, k) ==
    /\ h \subseteq Resources
    /\ "channel" \in h <=> k >= 1
    /\ "id" \in h <=> k >= 2
    /\ "pd" \in h <=> k >= 5
    /\ "qp" \in h <=> k >= 6
    /\ "mem" \in h <=> k >= 7

HoldsByStage(a) == stage[a] < 9 /\ HeldAt(own[a], stage[a])

\* The connection of a finished attempt is whole until it has been taken.
Untaken(a) == taker[a] \in {"open", "drain"}

OwnInv ==
    \A a \in Attempts :
        /\ res[a] = "none" => HoldsByStage(a)
        /\ a > n => taker[a] = "none"
        /\ taker[a] = "none" => res[a] = "none"
        /\ res[a] = "ok" /\ Untaken(a) => own[a] = Resources

\* The attempt that Open waits for, and the one whose connection it returned.
SelectInv ==
    /\ opc = "select" => n \in Attempts /\ taker[n] = "open"
    /\ opc = "ok" => n \in Attempts /\ res[n] = "ok"

OpenInv == TypeOK /\ OwnInv /\ SelectInv /\ WinnerWhole /\ FailedHoldsNothing

-----------------------------------------------------------------------------
(***************************************************************************)
(* The plan of go_rdma_open.                                               *)
(***************************************************************************)
\* Plan has nine steps; each resource is acquired by one of them.
LEMMA PlanSteps ==
    /\ Len(Plan) = 9
    /\ \A k \in 1..9 : /\ Plan[k] = "channel" <=> k = 1
                       /\ Plan[k] = "id" <=> k = 2
                       /\ Plan[k] = "pd" <=> k = 5
                       /\ Plan[k] = "qp" <=> k = 6
                       /\ Plan[k] = "mem" <=> k = 7
BY DEF Plan

\* One more step of go_rdma_open keeps what is held in line with the stage, and
\* the ninth leaves a whole connection.
LEMMA StepHolds ==
    ASSUME NEW k \in 0..8, NEW h, HeldAt(h, k),
           NEW h2, h2 = h \cup ({Plan[k + 1]} \cap Resources)
    PROVE  HeldAt(h2, k + 1) /\ (k + 1 = 9 => h2 = Resources)
<1>0. k + 1 \in 1..9
    OBVIOUS
<1>1. /\ Plan[k + 1] = "channel" <=> k = 0
      /\ Plan[k + 1] = "id" <=> k = 1
      /\ Plan[k + 1] = "pd" <=> k = 4
      /\ Plan[k + 1] = "qp" <=> k = 5
      /\ Plan[k + 1] = "mem" <=> k = 6
    BY <1>0, PlanSteps
<1>2. h2 \subseteq Resources
    BY DEF HeldAt
<1>3. \A r \in Resources : r \in h2 <=> r \in h \/ Plan[k + 1] = r
    OBVIOUS
<1>4. /\ "channel" \in Resources /\ "id" \in Resources /\ "pd" \in Resources
      /\ "qp" \in Resources /\ "mem" \in Resources
    BY DEF Resources
<1>5. /\ "channel" \in h2 <=> k + 1 >= 1
      /\ "id" \in h2 <=> k + 1 >= 2
      /\ "pd" \in h2 <=> k + 1 >= 5
      /\ "qp" \in h2 <=> k + 1 >= 6
      /\ "mem" \in h2 <=> k + 1 >= 7
    BY <1>1, <1>3, <1>4 DEF HeldAt
<1>6. k + 1 = 9 => h2 = Resources
  <2> SUFFICES ASSUME k + 1 = 9 PROVE \A r \in Resources : r \in h2
      BY <1>2
  <2>1. "channel" \in h2 /\ "id" \in h2 /\ "pd" \in h2 /\ "qp" \in h2 /\ "mem" \in h2
      BY <1>5
  <2>. QED BY <2>1 DEF Resources
<1>. QED BY <1>2, <1>5, <1>6 DEF HeldAt

\* go_rdma_free_conn frees everything that a half-built connection holds.
LEMMA FreedAll ==
    ASSUME NEW a \in Attempts, TypeOK, HoldsByStage(a)
    PROVE  own[a] \ Freed(a) = {}
BY DEF HoldsByStage, HeldAt, Freed, Manual, Resources, TypeOK

-----------------------------------------------------------------------------
(***************************************************************************)
(* The inductive invariant.                                                *)
(***************************************************************************)
LEMMA InitInv == Init => OpenInv
<1> SUFFICES ASSUME Init PROVE OpenInv
    OBVIOUS
<1>1. TypeOK
  <2>1. hasDeadline \in BOOLEAN /\ ctx \in BOOLEAN
      BY OpenAssumption DEF Init
  <2>2. 0 \in 0..MaxAttempts /\ 0 \in 0..Len(Plan)
      BY OpenAssumption, PlanSteps
  <2>3. /\ stage \in [Attempts -> 0..Len(Plan)]
        /\ own \in [Attempts -> SUBSET Resources]
      BY <2>2 DEF Init
  <2>4. /\ res \in [Attempts -> {"none", "ok", "eagain", "err"}]
        /\ taker \in [Attempts -> {"none", "open", "drain", "done"}]
      BY DEF Init
  <2>. QED BY <2>1, <2>2, <2>3, <2>4 DEF Init, TypeOK
<1>2. OwnInv
    BY DEF Init, OwnInv, HoldsByStage, HeldAt, Untaken
<1>3. SelectInv /\ WinnerWhole /\ FailedHoldsNothing
    BY DEF Init, SelectInv, WinnerWhole, FailedHoldsNothing
<1>. QED BY <1>1, <1>2, <1>3 DEF OpenInv

LEMMA NextInv == OpenInv /\ [Next]_vars => OpenInv'
<1> SUFFICES ASSUME OpenInv, [Next]_vars PROVE OpenInv'
    OBVIOUS
<1> USE DEF OpenInv
<1>0. Len(Plan) = 9 /\ MaxAttempts \in Nat
    BY PlanSteps, OpenAssumption
<1>1. CASE BeginAttempt
  <2>1. n' \in Attempts
      BY <1>0, <1>1 DEF BeginAttempt, Attempts, TypeOK
  <2>2. TypeOK'
    <3>1. taker' \in [Attempts -> {"none", "open", "drain", "done"}]
        BY <1>1, <2>1 DEF BeginAttempt, TypeOK
    <3>2. n' \in 0..MaxAttempts
        BY <1>0, <2>1 DEF Attempts
    <3>. QED BY <1>1, <3>1, <3>2 DEF BeginAttempt, cVars, TypeOK
  <2>3. OwnInv'
    <3>1. UNCHANGED <<stage, own, res>> /\ res[n'] \in {"none", "ok", "eagain", "err"}
        BY <1>1, <2>1 DEF BeginAttempt, cVars, TypeOK
    <3>2. \A a \in Attempts : taker'[a] = IF a = n' THEN "open" ELSE taker[a]
        BY <1>1, <2>1 DEF BeginAttempt, TypeOK
    <3>3. n' = n + 1 /\ n \in Int /\ n' > n /\ Attempts \subseteq Int
        BY <1>0, <1>1 DEF BeginAttempt, TypeOK, Attempts
    <3>. QED BY <2>1, <3>1, <3>2, <3>3 DEF OwnInv, HoldsByStage, Untaken
  <2>4. SelectInv' /\ WinnerWhole' /\ FailedHoldsNothing'
      BY <1>1, <2>1 DEF BeginAttempt, cVars, SelectInv, WinnerWhole, FailedHoldsNothing, TypeOK
  <2>. QED BY <2>2, <2>3, <2>4
<1>2. CASE GiveUp \/ Backoff \/ AttemptTimeout \/ CtxDone
  <2>1. TypeOK'
    <3>1. CASE GiveUp
        BY <3>1 DEF GiveUp, cVars, TypeOK
    <3>2. CASE Backoff
        BY <3>2 DEF Backoff, cVars, TypeOK
    <3>3. CASE AttemptTimeout
        BY <3>3 DEF AttemptTimeout, cVars, TypeOK, SelectInv
    <3>4. CASE CtxDone
      <4>1. late' \subseteq Attempts
          BY <1>0, <3>4 DEF CtxDone, TypeOK, Attempts
      <4>. QED BY <3>4, <4>1 DEF CtxDone, cVars, TypeOK
    <3>. QED BY <1>2, <3>1, <3>2, <3>3, <3>4
  <2>2. /\ UNCHANGED <<stage, own, res, taker, n>>
        /\ opc' \in {"select", "ok"} => UNCHANGED opc
      BY <1>2 DEF GiveUp, Backoff, AttemptTimeout, CtxDone, cVars
  <2>3. OwnInv' /\ SelectInv' /\ WinnerWhole' /\ FailedHoldsNothing'
      BY <2>2 DEF OwnInv, HoldsByStage, Untaken, SelectInv, WinnerWhole, FailedHoldsNothing
  <2>. QED BY <2>1, <2>3
<1>3. CASE SelectResult
  <2>1. /\ n \in Attempts /\ taker[n] = "open" /\ res[n] # "none"
        /\ taker' = [taker EXCEPT ![n] = "done"]
        /\ UNCHANGED <<stage, own, res, n, late, ctx, hasDeadline>>
      BY <1>3 DEF SelectResult, SelectInv, cVars
  <2>2. opc' \in {"ok", "err", "backoff"} /\ (opc' = "ok" => res[n] = "ok")
      BY <1>3, <2>1 DEF SelectResult, TypeOK
  <2>3. TypeOK'
      BY <2>1, <2>2 DEF TypeOK
  <2>4. OwnInv'
      BY <2>1 DEF OwnInv, HoldsByStage, Untaken, TypeOK
  <2>5. SelectInv' /\ WinnerWhole' /\ FailedHoldsNothing'
      BY <2>1, <2>2 DEF SelectInv, WinnerWhole, FailedHoldsNothing, OwnInv, Untaken, TypeOK
  <2>. QED BY <2>3, <2>4, <2>5
<1>4. CASE SelectDone
  <2>1. /\ n \in Attempts /\ taker[n] = "open" /\ opc' = "backoff"
        /\ taker' = [taker EXCEPT ![n] = "drain"]
        /\ UNCHANGED <<stage, own, res, n, late, ctx, hasDeadline>>
      BY <1>4 DEF SelectDone, Abandon, SelectInv, cVars
  <2>2. TypeOK'
      BY <2>1 DEF TypeOK
  <2>3. OwnInv'
      BY <2>1 DEF OwnInv, HoldsByStage, Untaken, TypeOK
  <2>4. SelectInv' /\ WinnerWhole' /\ FailedHoldsNothing'
      BY <2>1 DEF SelectInv, WinnerWhole, FailedHoldsNothing, TypeOK
  <2>. QED BY <2>2, <2>3, <2>4
<1>5. ASSUME NEW a \in Attempts, COpen(a) PROVE OpenInv'
  <2>1. /\ taker[a] # "none" /\ res[a] = "none" /\ HoldsByStage(a)
        /\ stage' = [stage EXCEPT ![a] = stage[a] + 1]
        /\ own' = [own EXCEPT ![a] = own[a] \cup ({Plan[stage[a] + 1]} \cap Resources)]
        /\ res' = IF stage'[a] = 9 THEN [res EXCEPT ![a] = "ok"] ELSE res
        /\ UNCHANGED <<opc, n, late, ctx, hasDeadline, taker>>
      BY <1>0, <1>5 DEF COpen, Running, Step, OwnInv
  <2>2. stage[a] \in 0..8 /\ own[a] \in SUBSET Resources
      BY <1>0, <2>1 DEF HoldsByStage, TypeOK
  <2> DEFINE h2 == own[a] \cup ({Plan[stage[a] + 1]} \cap Resources)
  <2>3. HeldAt(h2, stage[a] + 1) /\ (stage[a] + 1 = 9 => h2 = Resources)
      BY <2>1, <2>2, StepHolds DEF HoldsByStage
  <2>4. /\ stage'[a] = stage[a] + 1 /\ own'[a] = h2
        /\ \A b \in Attempts \ {a} : stage'[b] = stage[b] /\ own'[b] = own[b]
      BY <2>1 DEF TypeOK
  <2>5. /\ res'[a] = IF stage[a] + 1 = 9 THEN "ok" ELSE "none"
        /\ \A b \in Attempts \ {a} : res'[b] = res[b]
      BY <2>1, <2>4 DEF TypeOK
  <2> HIDE DEF h2
  <2>6. stage' \in [Attempts -> 0..9]
      BY <1>0, <2>1, <2>2 DEF TypeOK
  <2>7. own' \in [Attempts -> SUBSET Resources]
      BY <2>1, <2>3 DEF TypeOK, h2, HeldAt
  <2>8. res' \in [Attempts -> {"none", "ok", "eagain", "err"}]
      BY <2>1 DEF TypeOK
  <2>9. TypeOK'
      BY <1>0, <2>1, <2>6, <2>7, <2>8 DEF TypeOK
  <2>10. ASSUME res'[a] = "none" PROVE HoldsByStage(a)'
      BY <2>2, <2>3, <2>4, <2>5, <2>10 DEF HoldsByStage
  <2>11. ASSUME res'[a] = "ok" PROVE own'[a] = Resources
      BY <2>3, <2>4, <2>5, <2>11
  <2>12. ASSUME NEW b \in Attempts \ {a}
         PROVE  /\ res'[b] = "none" => HoldsByStage(b)'
                /\ b > n' => taker'[b] = "none"
                /\ taker'[b] = "none" => res'[b] = "none"
                /\ res'[b] = "ok" /\ Untaken(b)' => own'[b] = Resources
      BY <2>1, <2>4, <2>5 DEF OwnInv, HoldsByStage, Untaken
  <2>13. OwnInv'
      BY <2>1, <2>10, <2>11, <2>12 DEF OwnInv
  <2>14. SelectInv' /\ FailedHoldsNothing'
      BY <2>1, <2>4, <2>5 DEF SelectInv, FailedHoldsNothing
  <2>15. WinnerWhole'
      BY <2>1, <2>4 DEF WinnerWhole, SelectInv
  <2>. QED BY <2>9, <2>13, <2>14, <2>15
<1>6. ASSUME NEW a \in Attempts, CFail(a) PROVE OpenInv'
  <2>1. PICK rc \in {"err", "eagain"} :
          /\ taker[a] # "none" /\ res[a] = "none" /\ HoldsByStage(a)
          /\ own' = [own EXCEPT ![a] = own[a] \ Freed(a)]
          /\ res' = [res EXCEPT ![a] = rc]
          /\ UNCHANGED <<opc, n, late, ctx, hasDeadline, taker, stage>>
      BY <1>6 DEF CFail, CCleanup, Running, OwnInv
  <2>2. /\ own'[a] = {} /\ res'[a] = rc
        /\ \A b \in Attempts \ {a} : own'[b] = own[b] /\ res'[b] = res[b]
      BY <2>1, FreedAll DEF TypeOK
  <2>3. TypeOK'
      BY <2>1 DEF TypeOK
  <2>4. OwnInv'
      BY <2>1, <2>2 DEF OwnInv, HoldsByStage, Untaken
  <2>5. SelectInv' /\ FailedHoldsNothing'
      BY <2>1, <2>2 DEF SelectInv, FailedHoldsNothing
  <2>6. WinnerWhole'
      BY <2>1, <2>2 DEF WinnerWhole, SelectInv
  <2>. QED BY <2>3, <2>4, <2>5, <2>6
<1>7. ASSUME NEW a \in Attempts, Drain(a) PROVE OpenInv'
  <2>1. /\ taker[a] = "drain" /\ res[a] # "none"
        /\ own' = [own EXCEPT ![a] = IF res[a] = "ok" THEN own[a] \ Freed(a) ELSE own[a]]
        /\ taker' = [taker EXCEPT ![a] = "done"]
        /\ UNCHANGED <<opc, n, late, ctx, hasDeadline, stage, res>>
      BY <1>7 DEF Drain, Discard
  <2>2. /\ own'[a] \subseteq own[a] /\ taker'[a] = "done"
        /\ \A b \in Attempts \ {a} : own'[b] = own[b] /\ taker'[b] = taker[b]
      BY <2>1 DEF TypeOK
  <2>3. TypeOK'
      BY <2>1 DEF TypeOK
  <2>4. OwnInv'
      BY <2>1, <2>2 DEF OwnInv, HoldsByStage, Untaken
  <2>5. SelectInv' /\ FailedHoldsNothing'
      BY <2>1, <2>2 DEF SelectInv, FailedHoldsNothing
  <2>6. WinnerWhole'
      BY <2>1 DEF WinnerWhole, TypeOK
  <2>. QED BY <2>3, <2>4, <2>5, <2>6
<1>8. CASE UNCHANGED vars
  <2>1. TypeOK'
      BY <1>8 DEF vars, cVars, TypeOK
  <2>2. OwnInv' /\ SelectInv' /\ WinnerWhole' /\ FailedHoldsNothing'
      BY <1>8 DEF vars, cVars, OwnInv, HoldsByStage, Untaken, SelectInv, WinnerWhole,
                  FailedHoldsNothing
  <2>. QED BY <2>1, <2>2
<1>. QED BY <1>1, <1>2, <1>3, <1>4, <1>5, <1>6, <1>7, <1>8 DEF Next, Open

-----------------------------------------------------------------------------
LEMMA OpenInvariant == Spec => []OpenInv
<1>1. Init => OpenInv BY InitInv
<1>2. OpenInv /\ [Next]_vars => OpenInv' BY NextInv
<1>. QED BY <1>1, <1>2, PTL DEF Spec

\* The type invariant of Open and its attempts.
THEOREM OpenTypeCorrect == Spec => []TypeOK
<1>1. OpenInv => TypeOK BY DEF OpenInv
<1>. QED BY <1>1, OpenInvariant, PTL

\* Whatever earlier attempts are still running or being drained, the connection
\* that Open returns is complete and nobody closes it.
THEOREM OpenWinnerWhole == Spec => []WinnerWhole
<1>1. OpenInv => WinnerWhole BY DEF OpenInv
<1>. QED BY <1>1, OpenInvariant, PTL

\* go_rdma_free_conn undoes a go_rdma_open that failed at any of its steps.
THEOREM OpenFailureUndone == Spec => []FailedHoldsNothing
<1>1. OpenInv => FailedHoldsNothing BY DEF OpenInv
<1>. QED BY <1>1, OpenInvariant, PTL
=============================================================================
