----------------------------- MODULE VerbsOpen -----------------------------
(***************************************************************************)
(* Opening a verbs connection (pkg/rdma/verbs_linux_cgo.go): Open makes    *)
(* attempts, each a goroutine inside go_rdma_open, which cannot be         *)
(* cancelled and whose waits may add up to more than the attempt was given.*)
(* An attempt whose context ends is left to a goroutine that discards what *)
(* comes of it, while Open backs off and tries again.                      *)
(***************************************************************************)
EXTENDS Integers, Sequences

CONSTANTS
    MaxAttempts,  \* bound: attempts made before a deadline passes
    Limit,        \* verbsOpenAttemptLimit, for contexts without deadline
    Deadlines     \* whether the caller's context has a deadline

ASSUME OpenAssumption == /\ Limit \in Nat \ {0}
                         /\ MaxAttempts \in Nat /\ Limit <= MaxAttempts
                         /\ Deadlines \subseteq BOOLEAN

Attempts == 1..MaxAttempts

(***************************************************************************)
(* go_rdma_open, in order: what it acquires and what it waits for.  "qp"   *)
(* stands for completion channels, queues and the pair, "mem" for the send *)
(* buffer and the registration of the shared memory.  Inside such a group, *)
(* and for the notify slots, free_conn frees each member that is there.    *)
(***************************************************************************)
Plan == <<"channel", "id", "addr", "route", "pd", "qp", "mem", "established", "desc">>
Resources == {"channel", "id", "pd", "qp", "mem"}

VARIABLES
    hasDeadline,  \* the caller's context has a deadline
    ctx,          \* it is done
    opc,          \* where Open is
    n,            \* attempts made so far; the last one is the current one
    late,         \* attempts whose own context is done
    stage,        \* the steps of Plan each attempt has behind it
    own,          \* what each attempt's go_rdma_conn holds
    res,          \* the result in resultCh
    taker         \* who receives from resultCh: "open", "drain", or nobody any more

cVars == <<stage, own, res>>
vars == <<hasDeadline, ctx, opc, n, late, cVars, taker>>

TypeOK ==
    /\ hasDeadline \in BOOLEAN /\ ctx \in BOOLEAN
    /\ opc \in {"loop", "select", "backoff", "ok", "err"}
    /\ n \in 0..MaxAttempts
    /\ late \subseteq Attempts
    /\ stage \in [Attempts -> 0..Len(Plan)]
    /\ own \in [Attempts -> SUBSET Resources]
    /\ res \in [Attempts -> {"none", "ok", "eagain", "err"}]
    /\ taker \in [Attempts -> {"none", "open", "drain", "done"}]

Init ==
    /\ hasDeadline \in Deadlines /\ ctx = FALSE
    /\ opc = "loop" /\ n = 0 /\ late = {}
    /\ stage = [a \in Attempts |-> 0]
    /\ own = [a \in Attempts |-> {}]
    /\ res = [a \in Attempts |-> "none"]
    /\ taker = [a \in Attempts |-> "none"]

-----------------------------------------------------------------------------
(***************************************************************************)
(* Open.                                                                   *)
(***************************************************************************)
\* Mutant of OutOfAttempts: the limit is forgotten.
OutOfAttemptsNever == FALSE

\* Without a deadline the number of attempts is limited.
OutOfAttempts == ~hasDeadline /\ n >= Limit

\* The top of the loop: openVerbsConnOnce starts its goroutine.
BeginAttempt ==
    /\ opc = "loop" /\ ~ctx /\ ~OutOfAttempts
    /\ n < MaxAttempts
    /\ n' = n + 1
    /\ taker' = [taker EXCEPT ![n'] = "open"]
    /\ opc' = "select"
    /\ UNCHANGED <<hasDeadline, ctx, late, cVars>>

GiveUp ==
    /\ opc = "loop" /\ (ctx \/ OutOfAttempts)
    /\ opc' = "err"
    /\ UNCHANGED <<hasDeadline, ctx, n, late, cVars, taker>>

\* Mutant of SelectResult: the attempts share one result channel.
SelectResultShared ==
    /\ opc = "select"
    /\ \E a \in Attempts :
        /\ taker[a] # "done" /\ res[a] # "none"
        /\ taker' = [taker EXCEPT ![a] = "done"]
        /\ opc' = IF res[a] = "eagain" THEN "backoff" ELSE res[a]
    /\ UNCHANGED <<hasDeadline, ctx, n, late, cVars>>

\* Mutant of SelectResult: EAGAIN is passed on unclassified.
SelectResultRaw ==
    /\ opc = "select" /\ res[n] # "none"
    /\ taker' = [taker EXCEPT ![n] = "done"]
    /\ opc' = res[n]
    /\ UNCHANGED <<hasDeadline, ctx, n, late, cVars>>

\* The select of openVerbsConnOnce takes the result: a connection, an error that
\* is not retried, or EAGAIN (isRetriableOpenErr).
SelectResult ==
    /\ opc = "select" /\ res[n] # "none"
    /\ taker' = [taker EXCEPT ![n] = "done"]
    /\ opc' = IF res[n] = "eagain" THEN "backoff" ELSE res[n]
    /\ UNCHANGED <<hasDeadline, ctx, n, late, cVars>>

\* The result is left to the goroutine that drains resultCh.
Abandon == taker' = [taker EXCEPT ![n] = "drain"]

\* The select takes ctx.Done instead, even when a result is there as well.
SelectDone ==
    /\ opc = "select" /\ n \in late
    /\ Abandon
    /\ opc' = "backoff"
    /\ UNCHANGED <<hasDeadline, ctx, n, late, cVars>>

\* The back-off ends; with a deadline, also because the context is done.
Backoff ==
    /\ opc = "backoff"
    /\ opc' \in {"loop"} \cup IF hasDeadline /\ ctx THEN {"err"} ELSE {}
    /\ UNCHANGED <<hasDeadline, ctx, n, late, cVars, taker>>

\* The attempt's own timeout passes.
AttemptTimeout ==
    /\ opc = "select" /\ n \notin late
    /\ late' = late \cup {n}
    /\ UNCHANGED <<hasDeadline, ctx, opc, n, cVars, taker>>

\* The caller's context ends, by its deadline or by cancellation.
CtxDone ==
    /\ opc \notin {"ok", "err"} /\ ~ctx
    /\ ctx' = TRUE
    /\ late' = IF n = 0 THEN late ELSE late \cup {n}
    /\ UNCHANGED <<hasDeadline, opc, n, cVars, taker>>

-----------------------------------------------------------------------------
(***************************************************************************)
(* go_rdma_open in the goroutine of attempt a.                             *)
(***************************************************************************)
Running(a) == taker[a] # "none" /\ res[a] = "none"
Step(a) == Plan[stage[a] + 1]

\* A step succeeds: a resource is acquired, or the awaited CM event or
\* descriptor arrives; after the last step the connection is the result.
COpen(a) ==
    /\ Running(a)
    /\ stage' = [stage EXCEPT ![a] = @ + 1]
    /\ own' = [own EXCEPT ![a] = @ \cup ({Step(a)} \cap Resources)]
    /\ res' = IF stage'[a] = Len(Plan) THEN [res EXCEPT ![a] = "ok"] ELSE res
    /\ UNCHANGED <<hasDeadline, ctx, opc, n, late, taker>>

\* Mutant of Manual: the flag is set after the queue pair was created.
ManualLate(a) == stage[a] >= 6

\* manual_resources is set once the route is resolved.
Manual(a) == stage[a] >= 4

\* go_rdma_free_conn frees each member that is there; the verbs objects only
\* through an id and under manual_resources.
Freed(a) ==
    {"channel", "mem"}
      \cup (IF "id" \in own[a] THEN {"id"} ELSE {})
      \cup (IF "id" \in own[a] /\ Manual(a) THEN {"pd", "qp"} ELSE {})

\* cleanup: everything acquired so far is freed.
CCleanup(a, rc) ==
    /\ own' = [own EXCEPT ![a] = @ \ Freed(a)]
    /\ res' = [res EXCEPT ![a] = rc]
    /\ UNCHANGED <<hasDeadline, ctx, opc, n, late, stage, taker>>

\* A step fails, a wait times out or an unexpected CM event arrives (rejected,
\* unreachable).  EAGAIN is what a wait returns, and any step may have it as errno.
CFail(a) ==
    /\ Running(a)
    /\ \E rc \in {"err", "eagain"} : CCleanup(a, rc)

\* Mutant of Discard: a late success is dropped without being closed.
DiscardOnly(a) == UNCHANGED own

\* discardOpenResult: a connection is closed, go_rdma_close.
Discard(a) == own' = [own EXCEPT ![a] = IF res[a] = "ok" THEN @ \ Freed(a) ELSE @]

\* The draining goroutine.
Drain(a) ==
    /\ taker[a] = "drain" /\ res[a] # "none"
    /\ Discard(a)
    /\ taker' = [taker EXCEPT ![a] = "done"]
    /\ UNCHANGED <<hasDeadline, ctx, opc, n, late, stage, res>>

-----------------------------------------------------------------------------
Open == BeginAttempt \/ GiveUp \/ SelectResult \/ SelectDone \/ Backoff

Next ==
    \/ Open
    \/ AttemptTimeout
    \/ CtxDone
    \/ \E a \in Attempts : COpen(a) \/ CFail(a) \/ Drain(a)

Spec == Init /\ [][Next]_vars

\* Open and the goroutines run, timers fire, every wait of go_rdma_open ends.
\* Cancellation without a deadline is never forced.
FairSpec ==
    /\ Spec
    /\ WF_vars(Open)
    /\ WF_vars(AttemptTimeout)
    /\ WF_vars(hasDeadline /\ CtxDone)
    /\ \A a \in Attempts : /\ WF_vars(COpen(a) \/ CFail(a))
                           /\ WF_vars(Drain(a))

-----------------------------------------------------------------------------
(***************************************************************************)
(* Properties.                                                             *)
(***************************************************************************)
Returned == opc \in {"ok", "err"}

\* The connection Open returned is whole, and no draining goroutine, of this or
\* of an earlier attempt, closes it.
WinnerWhole ==
    opc = "ok" => own[n] = Resources /\ taker[n] = "done"

\* An attempt that failed, wherever it failed, holds nothing any more
\* (go_rdma_free_conn frees half-built connections).
FailedHoldsNothing ==
    \A a \in Attempts : res[a] \in {"eagain", "err"} => own[a] = {}

\* "close any late-success connection so canceled dials do not leak resources or
\* occupy server-side CM slots": whatever an attempt acquires is freed in the
\* end, unless it is the connection that Open returned.
LateSuccessClosed ==
    \A a \in Attempts : own[a] # {} ~> own[a] = {} \/ (opc = "ok" /\ a = n)

\* Open returns: it makes a limited number of attempts or has a deadline, and
\* waits for no attempt longer than that attempt's context.
OpenReturns == <>Returned
=============================================================================
