----------------------------- MODULE InMemStore -----------------------------
(***************************************************************************)
(* The payload store of the in-memory S3 server                            *)
(* (internal/inmems3/store/store.go) and everybody who changes it: the     *)
(* AddFolder and ClearAll of the gRPC control service, which are sequences *)
(* of store calls (internal/inmems3/payload/loader.go), and the S3 and     *)
(* zcopy handlers, whose PUT only creates the bucket.  Each store method   *)
(* runs under the store's mutex and is one step.                           *)
(***************************************************************************)
EXTENDS Integers, Sequences, SequencesExt, FiniteSetsExt, Filter

CONSTANTS
    Buckets, Keys,
    MaxBytes,   \* --store-max-bytes, 0 = unlimited
    Policies,   \* values of --store-evict-policy to start the server with
    Loads,      \* AddFolder calls
    Folder      \* what each of them finds on disk

Ids == Buckets \X Keys   \* makeObjectID

\* The listing of a folder: buckets in order, each with its sorted objects.
Listing == Seq([b: Buckets, objs: Seq([k: Keys, n: Nat])])

ASSUME StoreAssumption == /\ MaxBytes \in Nat
                          /\ Policies \subseteq {"reject", "fifo"}
                          /\ \A l \in Loads : Folder[l] \in Listing

Absent == -1

VARIABLES
    buckets,   \* names in the map
    size,      \* size of each object's body, or Absent
    used,      \* usedBytes
    fifo,      \* fifoOrder (orderIndex is its inverse)
    load,      \* AddFolder calls: where they are, bucket i, object j
    clearing,  \* ClearAll: the listed names it has yet to delete
    policy,    \* evictPolicy, fixed when the store is created
    deleted    \* history: ClearAll or a client has deleted something

storeVars == <<buckets, size, used, fifo>>
env == <<policy, deleted>>
vars == <<storeVars, load, clearing, env>>

Resident == {x \in Ids : size[x] # Absent}

TypeOK ==
    /\ buckets \subseteq Buckets
    /\ size \in [Ids -> Nat \cup {Absent}]
    /\ \A x \in Resident : x[1] \in buckets
    /\ used \in Nat
    /\ fifo \in Seq(Ids)
    /\ load \in [Loads -> [pc: {"idle", "bucket", "create", "put", "ok", "err"},
                           i: Nat, j: Nat]]
    /\ clearing \subseteq Buckets
    /\ policy \in Policies /\ deleted \in BOOLEAN

Init ==
    /\ buckets = {} /\ used = 0 /\ fifo = <<>>
    /\ size = [x \in Ids |-> Absent]
    /\ load = [l \in Loads |-> [pc |-> "idle", i |-> 1, j |-> 1]]
    /\ clearing = {}
    /\ policy \in Policies /\ deleted = FALSE

-----------------------------------------------------------------------------
(***************************************************************************)
(* The store's methods.                                                    *)
(***************************************************************************)
Total(S) == MapThenSumSet(LAMBDA x : size[x], S)

CreateBucket(b) == buckets' = buckets \cup {b} /\ UNCHANGED <<size, used, fifo>>

\* Mutant of RemoveObjects: the list element stays behind.
RemoveObjectsKeepOrder(S) ==
    /\ size' = [x \in Ids |-> IF x \in S THEN Absent ELSE size[x]]
    /\ used' = used - Total(S)
    /\ UNCHANGED fifo

\* Mutant of RemoveObjects: usedBytes is not given back.
RemoveObjectsKeepUsed(S) ==
    /\ size' = [x \in Ids |-> IF x \in S THEN Absent ELSE size[x]]
    /\ fifo' = Drop(fifo, S)
    /\ UNCHANGED used

\* removeObjectLocked, of several resident objects.
RemoveObjects(S) ==
    /\ size' = [x \in Ids |-> IF x \in S THEN Absent ELSE size[x]]
    /\ used' = used - Total(S)
    /\ fifo' = Drop(fifo, S)

\* Mutant of DeleteBucket: the bucket goes, its objects stay accounted for.
DeleteBucketOnly(b) ==
    /\ buckets' = buckets \ {b}
    /\ UNCHANGED <<size, used, fifo>>

DeleteBucket(b) ==
    /\ RemoveObjects({x \in Resident : x[1] = b})
    /\ buckets' = buckets \ {b}

DeleteObject(x) ==
    /\ RemoveObjects({x} \cap Resident)
    /\ UNCHANGED buckets

\* The bytes that must go before n bytes fit in the place of x.
NeedFree(x, n) == (used - Total({x} \cap Resident) + n) - MaxBytes

\* The eviction candidates, oldest first: x itself is skipped.
Others(x) == Drop(fifo, {x})
Oldest(x, i) == ToSet(SubSeq(Others(x), 1, i))

\* Mutant of Fits: the size of the replaced object counts as free.
FitsTwice(x, n) == NeedFree(x, n) <= Total({x} \cap Resident)

Fits(x, n) == MaxBytes = 0 \/ NeedFree(x, n) <= 0

\* Mutant of Evicts: the newest objects go.
EvictsNewest(x, n, S) ==
    /\ policy = "fifo"
    /\ \E i \in 1..Len(Others(x)) :
          /\ S = ToSet(Others(x)) \ Oldest(x, i - 1)
          /\ Total(S) >= NeedFree(x, n)

\* ensureCapacityLocked: S is the shortest prefix that frees enough.
Evicts(x, n, S) ==
    /\ policy = "fifo"
    /\ \E i \in 1..Len(Others(x)) :
          /\ S = Oldest(x, i)
          /\ Total(S) >= NeedFree(x, n)
          /\ Total(Oldest(x, i - 1)) < NeedFree(x, n)

\* PutObject once S has been chosen: evict S, remove the old body, insert.
Insert(x, n, S) ==
    LET gone == S \cup ({x} \cap Resident) IN
    /\ size' = [y \in Ids |-> IF y = x THEN n ELSE IF y \in gone THEN Absent ELSE size[y]]
    /\ used' = used - Total(gone) + n
    /\ fifo' = Append(Drop(fifo, gone), x)

\* PutObject; the bucket is created before the capacity is checked.
PutOk(x, n) ==
    /\ \/ Fits(x, n) /\ Insert(x, n, {})
       \/ ~Fits(x, n) /\ \E S \in SUBSET Resident : Evicts(x, n, S) /\ Insert(x, n, S)
    /\ buckets' = buckets \cup {x[1]}

PutFails(x, n) ==
    /\ ~Fits(x, n)
    /\ ~\E S \in SUBSET Resident : Evicts(x, n, S)
    /\ CreateBucket(x[1])

-----------------------------------------------------------------------------
(***************************************************************************)
(* Loader.AddFolder.                                                       *)
(***************************************************************************)
Goto(l, pc, i, j) == load' = [load EXCEPT ![l] = [pc |-> pc, i |-> i, j |-> j]]
Bucket(l) == Folder[l][load[l].i].b
Objs(l)   == Folder[l][load[l].i].objs

AddFolder(l) ==
    /\ load[l].pc = "idle"
    /\ Goto(l, "bucket", 1, 1)
    /\ UNCHANGED <<storeVars, clearing, env>>

\* The loop over the entries: the context or a file may fail, the context also at an
\* entry that is no bucket, before or after the last one; when the files of a bucket
\* have been read the old bucket is deleted.
LoadBucket(l) ==
    /\ load[l].pc = "bucket"
    /\ LET i == load[l].i IN
       \/ /\ i > Len(Folder[l])
          /\ Goto(l, "ok", i, 1)
          /\ UNCHANGED storeVars
       \/ /\ Goto(l, "err", i, 1)
          /\ UNCHANGED storeVars
       \/ /\ i <= Len(Folder[l])
          /\ DeleteBucket(Bucket(l))
          /\ Goto(l, "create", i, 1)
    /\ UNCHANGED <<clearing, env>>

LoadCreate(l) ==
    /\ load[l].pc = "create"
    /\ CreateBucket(Bucket(l))
    /\ Goto(l, "put", load[l].i, 1)
    /\ UNCHANGED <<clearing, env>>

\* Mutant of LoadPut: an object that does not fit is skipped.
LoadPutSkips(l) ==
    /\ load[l].pc = "put"
    /\ LET i == load[l].i
           j == load[l].j
           o == Objs(l)[j]
           x == <<Bucket(l), o.k>>
       IN \/ /\ j > Len(Objs(l))
             /\ Goto(l, "bucket", i + 1, 1)
             /\ UNCHANGED storeVars
          \/ /\ j <= Len(Objs(l))
             /\ PutOk(x, o.n) \/ PutFails(x, o.n)
             /\ Goto(l, "put", i, j + 1)
    /\ UNCHANGED <<clearing, env>>

\* One PutObject, or the end of the bucket; a failure ends AddFolder and leaves
\* what was loaded.
LoadPut(l) ==
    /\ load[l].pc = "put"
    /\ LET i == load[l].i
           j == load[l].j
           o == Objs(l)[j]
           x == <<Bucket(l), o.k>>
       IN \/ /\ j > Len(Objs(l))
             /\ Goto(l, "bucket", i + 1, 1)
             /\ UNCHANGED storeVars
          \/ /\ j <= Len(Objs(l))
             /\ PutOk(x, o.n)
             /\ Goto(l, "put", i, j + 1)
          \/ /\ j <= Len(Objs(l))
             /\ PutFails(x, o.n)
             /\ Goto(l, "err", i, j)
    /\ UNCHANGED <<clearing, env>>

(***************************************************************************)
(* Loader.ClearAll: list, then delete one bucket after the other.          *)
(***************************************************************************)
ClearAll ==
    /\ clearing = {}
    /\ clearing' = buckets
    /\ UNCHANGED <<storeVars, load, env>>

ClearNext ==
    /\ \E b \in clearing : DeleteBucket(b) /\ clearing' = clearing \ {b}
    /\ deleted' = TRUE
    /\ UNCHANGED <<load, policy>>

(***************************************************************************)
(* The S3 handler, the zcopy handlers and the control service's            *)
(* DeleteBucket.                                                           *)
(***************************************************************************)
ApiCreate(b) == CreateBucket(b) /\ UNCHANGED <<load, clearing, env>>

ApiDeleteBucket(b) ==
    /\ DeleteBucket(b)
    /\ deleted' = TRUE
    /\ UNCHANGED <<load, clearing, policy>>

ApiDeleteObject(x) ==
    /\ DeleteObject(x)
    /\ deleted' = TRUE
    /\ UNCHANGED <<load, clearing, policy>>

Next ==
    \/ \E l \in Loads : AddFolder(l)
    \/ \E l \in Loads : LoadBucket(l)
    \/ \E l \in Loads : LoadCreate(l)
    \/ \E l \in Loads : LoadPut(l)
    \/ ClearAll
    \/ ClearNext
    \/ \E b \in Buckets : ApiCreate(b)
    \/ \E b \in Buckets : ApiDeleteBucket(b)
    \/ \E x \in Ids : ApiDeleteObject(x)

Spec == Init /\ [][Next]_vars

-----------------------------------------------------------------------------
\* usedBytes is the number of bytes the resident objects hold, whatever sequence
\* of replacements, evictions and bucket deletions led here.
UsedExact == used = Total(Resident)

\* The eviction list holds every resident object once and nothing else.
OrderExact == /\ ToSet(fifo) = Resident
              /\ Len(fifo) = Cardinality(Resident)

\* The cap of --store-max-bytes is never exceeded (ensureCapacityLocked runs
\* before the replaced object is removed).
CapacityRespected == MaxBytes > 0 => Total(Resident) <= MaxBytes

\* Position of an object in the eviction list.
Age(x) == CHOOSE i \in 1..Len(fifo) : fifo[i] = x

\* A PutObject of the loader (ensureCapacityLocked): it evicts only objects older
\* than every one it leaves, and a failed one touches no object.
OldestEvicted ==
    [][\A l \in Loads :
          load[l].pc = "put" /\ load'[l] # load[l] =>
             LET cur == IF load[l].j <= Len(Objs(l))
                        THEN {<<Bucket(l), Objs(l)[load[l].j].k>>} ELSE {}
                 old  == ToSet(fifo) \ cur
                 kept == ToSet(fifo') \ cur
             IN /\ kept \subseteq old
                /\ \A x \in old \ kept, y \in kept : Age(x) < Age(y)
                /\ load'[l].pc = "err" => size' = size]_vars

\* The objects of the listing that AddFolder counted as loaded.
Counted(l) ==
    {x \in Ids : \E i \in 1..Len(Folder[l]) : \E j \in 1..Len(Folder[l][i].objs) :
        /\ x = <<Folder[l][i].b, Folder[l][i].objs[j].k>>
        /\ i < load[l].i \/ (i = load[l].i /\ j < load[l].j)}

\* Buckets that one entry of one folder fills: two names that differ by spaces
\* give one bucket, and the second replaces what the first has loaded.
Private(l) ==
    {b \in Buckets : \A m \in Loads : \A i \in 1..Len(Folder[l]) : \A j \in 1..Len(Folder[m]) :
        Folder[l][i].b = b /\ Folder[m][j].b = b => l = m /\ i = j}

\* With the reject policy, what AddFolder has put and counted is readable however
\* AddFolder calls of other buckets and the S3 API's PUTs interleave, until
\* somebody deletes: a put that does not fit is never counted (AddFolder's error
\* return) and never costs another object its place.
LoadedResident ==
    policy = "reject" /\ ~deleted =>
        \A l \in Loads :
            load[l].pc \in {"put", "ok"} =>
                {x \in Counted(l) : x[1] \in Private(l)} \subseteq Resident
=============================================================================
