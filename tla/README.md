# A TLA+ model of rdma-demo

`rdma-demo` is an S3-like object service whose payloads travel over RDMA. A
client and a server share a control protocol of JSON messages (`hello_req`,
`put_req`, `get_req`, `get_meta`, `ack`, ...); the payload of a PUT or a GET is
a message of its own on the same ordered connection, written by RDMA WRITE
straight into the peer's shared memory. This directory holds a model of that
system, the TLC configurations that check it on small instances, and theorems
that TLAPS proves for every size.

## 1. The system

### 1.1 Components, their state and their operations

**Zero-copy client** (`pkg/rdma/client/client.go`). State: the `pending` map
from request id to a result channel of capacity one, `sendReqCh`, `releaseFns`,
`closedCh`, the receive error. Goroutines: the callers (`EnsureBucket`,
`PutZeroCopy`, `GetZeroCopy`, `Release`), `sendLoop`, `recvLoop`, and `Close`.
Every call has a context deadline; every wait is a `select` that may take any
of its ready cases. Correct when: a result goes to the call that asked for it,
once; a borrowed payload returns its credit exactly once; `Close` returns.

**zcopy service** (`internal/s3rdmaserver/zcopy/service.go`, and its sibling in
`internal/inmems3/zcopy/`). State per connection: a credit counter with a
condition variable, `sendMu`, a wait group of GET goroutines. The `serveConn`
loop answers hello, ensure and PUT itself and starts a goroutine for a GET,
which takes a credit, then sends `get_meta` and the payload under `sendMu`.
Correct when: credits are conserved, a PUT is confirmed only after its payload
was consumed, and shutdown waits for nobody who cannot finish. The two services
differ in what `waitCredit` does with a credit that is left after close.

**Verbs transport** (`pkg/rdma/verbs_linux_cgo.go`, Go and C).
*Send ring*: staging buffers and work requests behind two 32-bit counters, few
of the completions requested, RDMA WRITE with registration, drain and cleanup.
*Receive ring*: notify slots that are posted, filled, handed out as views of C
memory and posted again; a region that the peer's WRITEs fill; one
`last_notify_slot`. Correct when it is the ordered, reliable channel `conn.go`
promises as long as no place in shared memory is written again too early, and
nobody looks at a slot that is posted or freed. *Listener*: accept
workers on one CM event channel, a Go channel of established connections,
`Close`. *Open*: attempts with deadlines, each inside a C call that cannot be
cancelled; correct when the connection returned is whole, everything else is
freed in the end, and the call returns.

**In-memory store** (`internal/inmems3/store/store.go`). Buckets, objects,
`usedBytes`, an eviction list. Changed by the gRPC control service through the
loader (`AddFolder`, `ClearAll`, each a sequence of store calls) and by the S3
and zcopy handlers (whose PUT creates only the bucket).

**Server processes** (`internal/inmems3/app/app.go`,
`internal/s3rdmaserver/app/app.go`). `Run` opens the listeners one after the
other, starts a goroutine around each `Serve`, waits for a signal or an error in
`errCh`, and stops the servers in turn. Correct when every way out closes what
was opened and leaves no goroutine blocked, and success is reported only when
nothing was cut off.

**The rest.** The append-only store of `s3-rdma-server` and its HTTP API, flag
parsing, smoke, demo and benchmark clients, generated gRPC code.

### 1.2 How they interact

Callers hand requests to `sendLoop` over a bounded channel; `recvLoop` hands
results back over channels of capacity one and may itself have to send an ack
through `sendLoop`. Client and server exchange messages over two bounded ordered
channels. The server's loop and its GET goroutines share `sendMu` and the
credits. Under both sits the verbs connection: one sender at a time posts to the
ring, the adapter executes, completions come back when somebody polls. The
listener's workers feed `Serve`, which starts one `serveConn` per connection. On
the receiving side one goroutine receives, the application releases what it
borrowed from wherever it likes, and `Close` comes from a third place.

### 1.3 What is hard

The framing is implicit: both receive loops take *the next message* for the
payload, so a payload that is not sent, or not consumed, shifts everything
after it. Deadlines race deliveries. `Close` runs release functions that need
the very loops it is about to stop. Credits are counted on one side and returned
by four different paths of the other. Counters wrap. A completion error is
consumed by whoever polls first. Poll and read of the CM channel are two steps.
Frames are read through views of C memory after the locks were released. An
attempt to open that timed out goes on beside its successors. A signal may come
before `Serve` has begun.
`PROJECT.json` lists each of these hazards at its line, with the properties that
would catch it.

## 2. Modules

| module | models | used by |
|---|---|---|
| `ZCopyConn` | one connection: client, both channels, server | `MCZCopyConn`, `ZCopyConnProofs` |
| `ZCopyConnProofs` | theorems about `ZCopyConn` | |
| `VerbsSend` | the send side of a verbs connection | `MCVerbsSend`, `VerbsSendProofs` |
| `VerbsSendProofs` | theorems about `VerbsSend` | |
| `VerbsListener` | accept workers, hand-over, `Close` | `VerbsListenerProofs` and its runs |
| `VerbsListenerProofs` | theorems about `VerbsListener` | |
| `VerbsRecv` | the receive side of a verbs connection | `VerbsRecvProofs` and its runs |
| `VerbsRecvProofs` | theorems about `VerbsRecv`, the refinement among them | |
| `MessageChannel` | abstract: one direction of a `MessageConn` | `VerbsRecv` (refinement) |
| `VerbsOpen` | `Open`, its attempts, `go_rdma_open` | `VerbsOpenProofs` and its run |
| `VerbsOpenProofs` | theorems about `VerbsOpen` | |
| `ServerApp` | `Run` of both programs | `ServerAppProofs` and its run |
| `ServerAppProofs` | theorems about `ServerApp` | |
| `InMemStore` | store, loader, control service | `MCInMemStore`, `InMemStoreProofs` |
| `InMemStoreProofs` | theorems about `InMemStore` | |
| `Filter` | removing elements from a list | `VerbsListener`, `InMemStore` |
| `FilterProofs` | lemmas about `Filter` | `VerbsListenerProofs`, `InMemStoreProofs` |

### 2.1 `ZCopyConn`

A call is named by its request id; `req[c]` is what it asked for and never
changes, so a frame is just a kind and a call. `cpc[c]` is where the call is:

| `cpc` | code |
|---|---|
| `enq`, `out` | the two selects of `sendSerialized` |
| `wait` | `waitResult` |
| `reg` | between `waitResult` and `registerRelease` |
| `held`, `rel` | the `BufferRef` is with the application; its release function runs |
| `errack` | an error path of `GetZeroCopy` that sends the ack itself |

`sendQ` is `sendReqCh` plus the request `sendLoop` holds (so it has room for one
more than the channel's capacity while the loop runs); `putStep` is the point
between `put_req` and its payload; `rpc`, `rcur` are `recvLoop`; `ackst[c]` is
the progress of `sendAck(1)` for the credit of GET `c`; `clpc`, `clcur` are
`Close`, which holds `releaseMu` while `clpc = "rel"`, so that `Release` and
`registerRelease` wait. On the server `spc`, `scur` are the `serveConn` loop
(`drain` is its deferred function), `g[c]` the goroutine of GET `c`; `sendMu` is
held by a goroutine exactly in `g[c] = "pay"`. `lent` and `granted` are history
variables. `KeepGranted` selects the service.

Deadlines are actions enabled by `Faults`: `call` (a call's context), `ack` (the
control timeout of `sendAck`), `data` and `idle` (the server's receive and
payload timeouts), `send` (a server send that finds the channel full); `close`
allows `Close` at any moment. A payload read as a control message does not
decode: the loop that meets it ends, as in the code. An empty payload sends
nothing; one outside the peer's region is refused.

### 2.2 `VerbsSend`

`tx` and `done` are `tx_prod` and `send_completed`, modulo `Mod` (2^32 in the
code); `sq` holds what is posted and not executed, `cq` completions nobody has
polled. `op` is the one sending function that runs (`sendLoop` and `sendMu` see
to that) with its locals. A work request remembers what it reads: a staging
slot, the caller's payload, or nothing when it was inlined. `Execute` and
`Break` are the adapter: external, modelled by what the code relies on (in-order
execution, a completion for every signaled request, a flush with errors after
the first error).

### 2.3 `VerbsListener`

`events` is the queue of the listener's CM channel. A worker goes through `top`
(the check of `l.cl`), `poll`, `get` (the blocking `rdma_get_cm_event`),
`setup` (up to `rdma_migrate_id`), `shake`, `hand` (the select on `done` and
`acceptOut`). `conn[c]` says on which channel the id of a connection is and
whether it was destroyed. `PeerConnect` and `PeerEnd` are external.

### 2.4 `InMemStore`

Each store method runs under the store's mutex and is one step; `AddFolder` and
`ClearAll` are sequences of such steps. Bodies are sizes. The eviction policy is
chosen once, in the initial state. A folder on disk is a constant listing; any
of its files may turn out to be unreadable. One `ClearAll` runs at a time (a
bound).

### 2.5 `VerbsRecv` and `MessageChannel`

Messages are numbered in the order they are sent. The peer sends one as a frame,
or as an RDMA WRITE followed, once the WRITE has completed, by a notify frame: at
the next RW slot (`SendMessage` of something larger than a frame) or at an offset
of the shared memory (`SendMessageAt`). `rq`, `cq` and `last` say where each
notify slot is: posted, completed, or the one received last; `buf` and `cell` are
the contents of the notify slots and of the RW region. `rpc` is the receiving
goroutine, with the poll (`wait`), the parsing of the frame through its view
(`parse`), the look-up of an RW payload, the repost, the copy and the release as
separate steps: between them the locks are free and `Close` may step in.
`recvFrameMu` and the read lock of `mu` are held exactly while `rpc = "wait"`. A
view of a freed slot shows anything. `ClosedBy` says whether `Close` waits for
the loop (`serveConn`) or not (`Client.Close`). Payloads in the RW region may be
borrowed while receiving goes on, as the client's GETs are; `Ahead` says whether
that goes for SEND frames too. The server's loop never does that, the client's
only when a control message was taken for a payload.
`RecvBroken` is every error return of `go_rdma_recv_frame` behind the poll: a
completion that was taken and refused leaves its slot nowhere, and the loop ends.
The sender goes round the RW slots as `rw_send_seq % peer_rw_slots` does, without
knowing what was read, and RW slots and offsets are one address space. `RangeFree`
is what `PutZeroCopy` and `GetZeroCopy` wait for before they return a range to the
application, unless they time out; `Reuse` drops it. `Land` (the adapter) is
external.

`MessageChannel` is one direction of a `MessageConn` as it is: messages come in
order and once until the receiver meets an error or closes. A message that brings
its payload along comes unchanged. A payload in shared memory stays at its place
until it is read, so its receiver finds it or a later one written to the same
place; with no two messages at one place this is the channel `conn.go` promises.
`VerbsRecv` implements it (`InOrder == Channel!Spec`) with `chan` mapped to
`Undelivered`, the messages between what was delivered and what was sent, each
with its place, and `broken` to `Over` (the loop has ended, or `Close` has cleared
`c.cc`). A delivery appends what the memory *contains* to `got`, so a frame read
too late, a payload looked up in the wrong slot, or a message left out is a step
that `MessageChannel` does not allow. `AsSent`, that the `i`-th message delivered
is the `i`-th sent, is the promise of `conn.go` itself; section 4 has where it
holds, section 6 where it does not.

### 2.6 `VerbsOpen`

`opc` is `Open`, `n` the number of the current attempt. Each attempt is a
goroutine going through the steps of `go_rdma_open` in the order of `Plan`,
four of which are waits; `own[a]` is what its `go_rdma_conn` holds, `res[a]` the
result in its channel, `taker[a]` who will take that result: the select of
`openVerbsConnOnce`, or the goroutine it left behind. The select may take
`ctx.Done` although there is a result. The cleanup frees what `go_rdma_free_conn`
frees for the members that are there, the verbs objects only under
`manual_resources`. Some steps stand for several acquisitions, which the cleanup
frees one by one. Any step may fail with `EAGAIN`, which is retried, or otherwise.

### 2.7 `ServerApp`

`pc` is `Run`; `ln[l]`, `srv[l]` are the listening socket and the goroutine
around `Serve` of each of the three listeners (`tcp` is HTTP, `rdma` zcopy, `grpc`
the control service of `inmem-s3-server`). `app` and `on` are chosen in the
initial state: both programs, every configuration `Validate` accepts. They differ in
where an error goes and in what a failed start-up closes. `zcopySrv.Close` is
two steps, told and done; that it gets done is what `VerbsListener` is about.

## 3. Runs

Deadlock checking is off in all of them: every one of these systems may stop (all
calls made, the client closed, the listener closed, no more loads).

| run | instance | properties | states |
|---|---|---|---|
| `core` | 2 calls and hello, 1 credit, queue 1, 2 frames per direction; faults call, ack, close | `TypeOK` `CreditConservation` `FlowControl` `PendingIsLive` `StreamInSync` | 2.5 M |
| `odd` | 3 calls and hello, 2 credits, 8 kinds of request, 1 frame per direction, a server window smaller than the memory; faults data, idle, send | `OkMeansApplied` `GetOwnPayload` | 2.7 M |
| `live` | 2 calls and hello, 1 credit, 1 frame per direction, fair; faults ack, close | `AllServed` `CloseTerminates` | 121 k |
| `ring` | depth 4, counters modulo 16, messages up to 5 frames, every fifth request signaled, fair | `TypeOK` `RingBound` `SlotExclusive` `PayloadNotRetained` `WaitHasSignal` `SendReturnsWhileUp` | 323 k |
| `accept` | 1 worker, 3 connections, room for 1, fair | `TypeOK` `ConnAlive` `NoUseAfterFree` `RequestsDrained` `CloseReturns` | 72 k |
| `store` | 2 buckets, 2 keys, 3 bytes, 2 overlapping loads, both policies | `TypeOK` `UsedExact` `OrderExact` `CapacityRespected` `LoadedResident` `OldestEvicted` | 14 k |
| `recv` | 2 notify slots, 2 RW slots and an offset among them that is reused at once, 4 messages of all kinds, `Close` by another goroutine; faults post, ctx, stop, wc; fair | `TypeOK` `SlotOnce` `BorrowedIntact` `InOrder` `AllDelivered` `CloseFinishes` | 403 k |
| `open` | 2 attempts, with and without a deadline, fair | `TypeOK` `WinnerWhole` `FailedHoldsNothing` `LateSuccessClosed` `OpenReturns` | 43 k |
| `app` | both programs, all configurations, 2 HTTP requests, 2 RPCs, fair | `TypeOK` `NilMeansDrained` `ShutsDown` | 17 k |
| `leak`, `hang`, `torn` | see section 6 | one each, violated | |

What they show:

- `core`. Whatever is abandoned, and whenever, the server's counter plus what is
  lent equals what hello announced, the client never holds more payloads than it
  has credits, and no second result meets a result channel. Without PUTs and empty
  objects neither loop loses the framing. With a PUT it may: the context of a PUT
  can end between `put_req` and its payload, and the server then takes the next
  message for the payload and drops the connection. That is why `StreamInSync`
  has its condition, and why `OkMeansApplied` matters.
- `odd`. Although framing can be lost, nothing is *confirmed* wrongly: a PUT that
  returned nil had its own payload consumed, and a GET never returns another
  GET's bytes, because a shifted stream puts a control message where the payload
  should be. Among the requests is a PUT that is refused and leaves its payload on
  the wire.
- `live`. With every buffer at its smallest, and as long as no call is given up,
  nobody waits in a circle; `Close` gets through, and so does the server's cleanup.
  When calls are given up `recvLoop` sends their acks itself, and then there is a
  circle (section 6).
- `ring`. The ring never overflows and no buffer is overwritten, across
  wrap-around (16 is a multiple of 4, as 2^32 is of a power of two) and after
  sends that gave up half-way; and no send needs its deadline.
- `accept`. The default of one worker. With several workers `ConnAlive` does not
  hold (one worker may drain the `end` event of an id another is about to
  migrate) and neither does `CloseReturns` (section 6); `NoUseAfterFree` does,
  and is proved for any number.
- `store`. Accounting and order stay exact through replacement, eviction and
  deletion; a put that cannot fit evicts nothing.
- `recv`. Messages come in order and once, whatever the mix of frames and WRITEs,
  copying and borrowing, poll timeouts, expired contexts, failing posts and
  completions, and whenever `Close` comes; a payload that the sender overwrote in
  shared memory is replaced by a later one and disturbs nothing else. `Close` gets
  its lock although the receiver polls again and again. `BorrowedIntact` needs
  `Ahead = FALSE`: with one `last_notify_slot` per connection, whoever receives
  while a frame is borrowed gives the slot back under its borrower.
- `open`. However attempts overlap, the connection returned is whole and is not
  the one a draining goroutine closes; whatever else was acquired is freed in the
  end; and `Open` returns although `go_rdma_open` cannot be cancelled. Freed in the
  end means later than the return: after an error the shared memory may stay
  registered by an abandoned attempt for a while.
- `app`. A signal at any moment after `signal.Notify` leads to a `Run` that has
  returned, listeners closed, goroutines ended, whether or not `Serve` had begun,
  and with clients that never finish their HTTP requests. One thing may keep it for
  good, and `ShutsDown` names it (`WaitsForClient`): a control RPC that its client
  never completes, since `GracefulStop` has no deadline. `NilMeansDrained` is about
  HTTP requests; nobody waits for those on verbs connections.

### Why the bounds suffice

The conflicts in `ZCopyConn` are between two calls (for a credit, `sendMu`, a
queue slot) or between a call and a loop; one credit and one queue slot make each
of them scarce, and three calls allow one whose frame comes after a shifted one.
Sizes 0 to 3 against a memory of 2 or 3 and a server window of 1 or 2 cover empty,
fitting, too large for `max`, too large for the server, and out of its window.
In `VerbsSend` a message of five frames overruns a
ring of four, and 16 counter values wrap several times over. In `InMemStore`
three bytes with objects of 0, 1, 2 and 4 produce fits, one and two evictions
and objects that never fit. In `VerbsRecv` four messages go round two notify
slots and two RW slots twice, so that a WRITE may land on a payload that is posted,
completed, in the receiver's hand or borrowed, and every kind of message meets
every other one. Two attempts allow an abandoned one beside the current one, and
attempts meet nowhere else. Two requests and two RPCs allow one that ends and one
that does not.
What the proofs cover does not depend on any bound.

### Fairness

Weak fairness, with one exception in `VerbsRecv`. `ZCopyConn`: every goroutine
that can step does (the Go
scheduler), and the application releases what it was given. Deadlines are *not*
fair: what is shown does not depend on one passing. Starting a call, `Close`, and
all faults are never forced. A transport send returns once there is room or an
endpoint is closed; `VerbsSend` is where that is examined, and the `hang` run
shows where it fails. `VerbsSend`: the sender runs and the adapter executes; no
timeout is forced. `VerbsListener`: workers, `Serve` and `Close` run, polls time
out (after `GO_RDMA_ACCEPT_POLL_TIMEOUT_MS`); a worker inside
`rdma_get_cm_event` is not enabled without an event. `VerbsRecv`: the loop
receives and releases, a poll ends with its interval, the adapter works, the peer's
pending notify frame is sent, and `Close` goes on once it was called;
strong fairness of `RecvFrame` says that of calls repeated forever some reach the
poll, since a context that is not over when the call begins does not end at every
single one before that. `VerbsOpen`: `Open` and its goroutines run, timers fire,
and each wait of `go_rdma_open` ends (it has a timeout); cancellation by the
caller is not forced. `ServerApp`: goroutines run, the five seconds pass. Neither
HTTP requests nor RPCs need end: both wait for their clients.

## 4. Proofs

Every safety invariant, action property and refinement that a run checks is also
a theorem. Assumptions, all named and evaluated by TLC in every run:
`CallsAssumption` (finitely many request ids, hello among them),
`RequestsAssumption`, `BoundsAssumption` (positive credits, queue, window and
memory), `EnvironmentAssumption`; `RingAssumption` (positive depth, interval and
message length; the depth is less than half of the counter range, so that
`After`, the signed difference of the code, can compare), `SendEnvironment`;
`ListenerAssumption`; `RecvAssumption`, `RecvEnvironment` (positive depth, number of
RW slots and window); `OpenAssumption`, `AppAssumption`;
`StoreAssumption`. No bound on any of them. Some theorems have a further
hypothesis, because the property is false without it; each is met by the instance
of a passing run, but for those of `ViewsStayLive` and `OrderKept` (TLC checks
`ViewsLive` and `AsSent` under them as well, in instances not kept), and is listed here:

| theorem | hypothesis | without it |
|---|---|---|
| `StreamsInSync` | `Steady`: no deadline of the server passes, and a GET with `max = 0` asks for an object that fits | a `get_meta` without its payload; the loop after it is off by one message |
| `SlotsExclusive` | `Mod % Depth = 0` | section 6: the slot jumps at wrap-around |
| `PayloadReleased` | `Registered`: no payload falls back to the shared region; messages shorter than half of the counter range | section 6: the cleanup waits for `payload_mr` only |
| `FramesIntact` | `~Ahead`: nobody receives while a SEND frame is borrowed | the next receive posts the borrowed slot |
| `ViewsStayLive` | `ClosedBy = "receiver"` | section 6, run `torn` |
| `ChannelRefined` | `~Ahead` | as for `FramesIntact` |
| `OrderKept` | `~Ahead`, `~Reuse` and `"rw" \notin Kinds` | section 6: a payload is overwritten before it is read |
| `ConnectionsAlive` | `OneWorker`, the default | one worker drains the event of an id that another migrates |

### `ZCopyConnProofs`

`TypeCorrect`, `CreditsConserved`, `FlowControlled`, `PendingLive`,
`PayloadIsOwn`, `OkIsApplied`, `StreamsInSync`. None of the properties is
inductive.

`CreditConservation`: `ServeAck` adds one to the counter and
removes `c` from `lent`, which balances only if `c` is in `lent` and this is its
only ack. The inductive invariant is `CreditInv == TypeOK /\ ReqInv /\ TokenInv
/\ CreditConservation`:

- `ReqInv`: a `hello_req` or `get_req` is queued once, sent once and served
  once, so one GET starts one goroutine and credits are set once, before any is
  taken.
- `TokenInv`: the credit that a GET took is in one place at a time: with the
  goroutine, in a `get_meta` on the wire, with `recvLoop`, in the result channel,
  with the application, or in `sendAck`; and while its ack can still be sent, or
  is on the wire, `c` is in `lent`. A credit that was given up stays in `lent`.

`TokenInv` makes each ack the only one of its GET, which is what conservation
needs. It also makes `Unreleased(c)` imply `c \in lent`, so that flow control
follows from conservation: the unreleased payloads are a subset of `lent`, whose
cardinality is at most `granted`. Sequence lemmas (`HasAppend`, `OnceTail`, ...)
say how a frame's presence and uniqueness change when a frame is appended or
consumed; `NextReq` and `NextToken` have one step per action.

`PendingIsLive` (`LiveInv`): a call that has not begun is neither in the map nor
has it a result, and the call whose release function `Close` runs is past its
result.

`GetOwnPayload` (`PayloadInv`): `sendMu` lets one goroutine be between `get_meta`
and payload, and nothing else is sent meanwhile, so a payload on the wire directly
follows its own `get_meta`; one that `recvLoop` meets when it expects a payload
belongs to the `get_meta` received last, and anything else it takes for a payload
is rejected. So what a call borrowed is its own or nothing, even when the stream
is shifted.

`OkMeansApplied` (`PutsInv == CreditInv /\ LiveInv /\ KindInv /\ PutInv`):
`KindInv` ties every frame, goroutine and answer to what its call asked for, and
an `ok` to a server that applied it. `PutInv` orders the two messages of a PUT: a
payload stands directly behind its `put_req`, and the server that awaits a payload
and finds one finds the right one. A PUT whose payload was given up leaves a
`put_req` that consumes whatever comes next; that is no payload, so there is no
`ok`.

`StreamInSync` (`SyncInv`): every `get_meta` on the wire has its payload behind it
or a goroutine about to send it, `recvLoop` expects a payload exactly when one is
next, and a goroutine past the size check has a payload that fits the client's
region. This holds while the requests are free of PUTs and empty objects, the
condition in the property itself.

### `VerbsSendProofs`

`SendTypes`, `RingBounded`, `SlotsExclusive`, `WaitsHaveSignals`,
`PayloadReleased`, from one inductive invariant `SendInv`:

- `RingInv`: the send queue holds the requests posted last, without a gap, and the
  completion queue older ones, in order, that `done` does not account for; so both
  are bounded by the distance of the counters, which `wait_local_send_slot` keeps
  within `Depth`.
- `SlotInv`: a request's staging slot is its counter value modulo `Depth`. Values
  less than `Depth` apart have different slots, across the wrap-around if `Depth`
  divides `Mod`.
- `SignalInv`: when somebody may have to wait (the ring is full, a WRITE drains, or
  a cleanup is due), the request posted last is signaled or its completion is there
  to be polled. `OpInv` (the locals of the sending function) and `ErrInv`
  (completions are errors only on a broken queue pair) carry it through the steps.
- `PayloadInv`, for `Registered`: requests that read the caller's payload belong
  to the function that runs, and lie between its `start` and `tx`.

The arithmetic of counters modulo `Mod` is in lemmas of its own (`ModSmall`,
`AfterNear`, ...), which turn `Diff` into a difference without a modulus.

### `VerbsRecvProofs`

`SlotsAccounted`, `RecvTypes`, `FramesIntact`, `ViewsStayLive`, `ChannelRefined`,
`OrderKept`.
`SlotOnce` alone is
not inductive: `RecvCompletion` overwrites `last`, and would lose a slot if one
were there. `RingInv` adds that a receive that waits has none (`RecvFrame` gave it
back) and that nobody else takes one meanwhile. Every action is one of five kinds
as far as the ring goes (it keeps it, reposts `last`, fills the next posted slot,
takes the next completion, or takes one and ends the loop), and two lemmas say what
appending to and taking from a sequence of distinct slots does.

The refinement `ChannelRefined`, `Spec => InOrder`, rests on `ChannelInv ==
TypeInv /\ RingInv /\ HoldInv /\ PipeInv`. `HoldInv` says that the slot being looked
at, by the receiver and then by the borrower, is `last`, hence not posted, hence not
written. `PipeInv` is the argument, for as long as the channel is not `Over`: the
frame in the receiver's hand, the completions, the wire and the notify frame to come
make up one pipe whose `i`-th message has number `Len(got) + i` and the place that
`place` recorded, and every cell that such a message points to contains that
message or a later undelivered one of the same place (`Shows`). A WRITE that lands
may overwrite a cell; what it brings is the message sent last, so `Shows` is kept.
With that, a delivery is `MessageChannel`'s `Recv`, and every other action is a
send, a failure or a stutter. Nothing is assumed about RW slots or ranges.

`OrderKept`, `Spec => []AsSent`, adds `FreshInv`: no two undelivered messages have
one place, which `RangeFree` establishes when a message is sent; so the payload
found is the message's own. `ViewsStayLive` needs only `CloseInv`: `Close` begins
after the loop and the last borrowed message.

### `VerbsListenerProofs`

`ListenerNotFreedInUse`, `Spec => []NoUseAfterFree`, for
any number of workers. The inductive invariant `CloseOrder` adds the order of
`Close` (freeing happens in its last two states, which it enters only when all
workers are at `exit`); it is preserved because no step of a worker starts at
`exit`. `ListenerTypes`, also for any number of workers. `ConnectionsAlive`, for one
worker, from `AliveInv`: only an id that was asked for and not migrated has events
on the listener's channel (`EventsInv`; migration takes the queued ones away), the
connection in the worker's hands is on its own channel from the migration on
(`SetupInv`), and a connection in `acceptOut` is there once (`OutInv`).

### `InMemStoreProofs` and `FilterProofs`

`UsedIsExact`, `OrderIsExact`, `CapacityIsRespected`, `StoreTypes`, `LoadedStays`
and the action property `OldestGoFirst`. The inductive invariant `StoreInv` has the
accounting (`AccountInv`: the list has every resident object once, `used` is the sum
of their sizes and within the limit), that objects are in buckets that exist
(`BucketInv`), and where an `AddFolder` call is in its listing (`LoadInv`). Each
store method has its lemma, and what a step of the loader does to the store is one
of them. Sums over sets of objects come with lemmas on adding and removing
elements and on disjoint sets. `LoadedStays` adds that what an `AddFolder`
call has counted is resident under the reject policy; it holds of buckets that one
entry of one folder fills, since names that differ by spaces give one bucket
(`TrimSpace`) and the second entry then replaces the objects of the first.

`Filter` defines `Drop`, what is left of a list when some elements are removed;
`FilterProofs` shows that this is the other elements, in their order and as often.
It is recursive over the length of the list, and the induction is by least
counterexample.

### `VerbsOpenProofs`

`OpenTypeCorrect`, `OpenWinnerWhole`, `OpenFailureUndone`, for
any number of attempts. The inductive invariant `OpenInv` says that what a running
attempt holds is determined by its stage (`HoldsByStage`), which is what makes
`go_rdma_free_conn` complete at every step: `pd` and `qp` are acquired only after
`id` and after `manual_resources` is set. It also says that a success nobody has
taken is whole, that an attempt not yet made has no taker and no result, and
that `Open` in its select is the taker of the current attempt and of no other.

### `ServerAppProofs`

`NilDrained`, `Spec => []NilMeansDrained`, by `DrainInv`: past
`Shutdown` no request can begin, because the HTTP server is told to stop even if
its `Serve` has not begun; `ErrChNeverBlocks`, that `errCh` has room whenever a
goroutine is about to send: `ErrsInv` bounds the errors in it by the `Serve`
goroutines that have ended, and `rdma` never sends; and `AppTypes`.

### Only model-checked

Liveness: `AllServed`, `CloseTerminates`, `SendReturnsWhileUp`,
`RequestsDrained`, `CloseReturns`, `AllDelivered`, `CloseFinishes`, `LateSuccessClosed`,
`OpenReturns`, `ShutsDown`. Liveness under fairness, and `ENABLED`, are not within
the prover's reach.

## 5. What is not modelled

- What the application makes of its shared memory. A GET that timed out may still
  have its payload written into its target range, and the protocol cannot withdraw
  a request: `ZCopyConn` shows that the credit comes back, `VerbsRecv` with `Reuse`
  that of two messages to one range the receiver may find the later one twice.
- A payload that happens to be a JSON control message: one that is read where a
  control message is expected does not decode.
- JSON, XML, ETags, HTTP status codes, flags, logging.
- Messages of several frames: only a message larger than a frame *and* than the
  peer's RW slot is sent so, and none of the repository is.
- What a process does with live zcopy connections at shutdown: nothing waits for
  them, they end with the process.
- The number of credits (`computeSafeCredits`) and the timeouts
  (`resolveTimeouts`): parameters.
- The store of `s3-rdma-server`: it is filled at start-up and afterwards only
  gains buckets.
- Generated code and the command-line clients.

## 6. Where code and documents disagree

| run | what happens |
|---|---|
| `leak` | The deadline of a GET passes after `deliver` put the result in the channel; `waitResult` may return the timeout, and nobody releases the borrowed payload or its credit. Credits still add up (`lent` keeps it), but the server is one short for good. |
| `hang` | When the completion of a WRITE is an error, the drain consumes it and the cleanup waits for it again, without a deadline. |
| `torn` | `Client.Close` closes the connection while `recvLoop` receives. `Close` frees the notify slots outside the lock, and `RecvBorrowedMessage` parses, `RecvMessage` copies, a frame through a view without one: they may read freed memory. The zcopy service waits for its loop first, and `ViewsStayLive` proves that this is enough. |

Also seen, each reproduced by a change of constants:

- With a send depth that is not a power of two, `tx_prod % send_depth` jumps when
  `tx_prod` wraps, and a staging buffer still to be sent is overwritten: run `ring`
  with `Depth = 3` and `Mod = 8` refutes `SlotExclusive`. The default depth is a
  power of two; the option takes any.
- When the payload could not be registered and lies in the shared region, a send
  that times out returns while the adapter still reads it, because the cleanup
  waits for `payload_mr` only: run `ring` with `"shared"` among `MRs` refutes
  `PayloadNotRetained`.
- With two accept workers one event wakes both; the second blocks in
  `rdma_get_cm_event`, and `Close` waits for it: run `accept` with two workers
  refutes `CloseReturns`.
- `conn.go:16` has "an ordered, reliable message channel". Payloads in RW slots are
  not safe: the sender has 8 of them (1 when the peer registered external memory,
  `verbs_linux_cgo.go:1053`) against a default receive depth of 64, laps the
  receiver, and a message is delivered with the payload of a later one: run `recv`
  with `AsSent` for an invariant refutes it, with `Reuse = FALSE` and without
  offsets too. No message of this repository that is larger than a frame is sent
  without an offset, so its traffic does not get there. With offsets it takes
  `Reuse`: a range used again after a call that timed out. With
  `Kinds = {"frame", "at"}` and `Reuse = FALSE` the same run passes, and
  `OrderKept` proves it.
- `recvLoop` returns the credit of a GET that was given up by an ack of its own
  (`client.go:509`), and does not receive meanwhile. With four concurrent calls,
  two credits and one frame per direction, both directions may be full, `serveConn`
  replying and `recvLoop` sending, each waiting for the other; what ends it is the
  control timeout of `sendAck`. With two calls everything that was not given up is
  still served.
- An object of size 0 is answered by `get_meta` without a payload message
  (`service.go:236`), where `agent/specs/s3-rdma-server.md:122` has the payload
  follow; the client pairs the `get_meta` with whatever comes next.
- `inmem-s3-server` returns nil after a listener failed and after a shutdown that
  cut requests off, and leaves the listeners of a failed start-up open: in
  `ServerApp` the properties that say otherwise are about `s3-rdma-server`. Its
  `GracefulStop` has no deadline: it uses up the five seconds that `Shutdown` is
  given afterwards, and waits for good for an RPC whose client never completes it
  (run `app` without `WaitsForClient` refutes `ShutsDown`).

The architecture document says `max` is enforced before a payload is
sent; `max = 0` switches the check off. The client rejects such a payload and
returns its credit (`errack`).

## 7. Plan

Done, in this order: the connection protocol (it carries the system's purpose
and most of its concurrency), the send ring, the listener, the store; the receive
ring with the abstract channel it implements, opening, the server processes; the
theorems of section 4, which now state every safety property of the runs. Next:

1. An abstract specification of the connection, a set of calls each answered at
   most once by what the server did for it, and `ZCopyConn` shown to implement it
   by a refinement mapping.
2. The pure computations (`computeSafeCredits`, the receive capacity,
   `resolveTimeouts`) checked against reference definitions.
3. The store and the HTTP API of `s3-rdma-server`.
