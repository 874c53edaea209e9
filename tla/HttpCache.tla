------------------------------ MODULE HttpCache ------------------------------
(***************************************************************************)
(* The HTTP cache of oxyos-net (cache.rs): a directory that the processes  *)
(* of one application share, each with an index of its own under a mutex.  *)
(*                                                                         *)
(* An entry is two files: its metadata, named by its key, which names its  *)
(* body, a file of a generation of its own.  The file system is what the   *)
(* processes share, and each system call is a step; a write fails or takes *)
(* place whole (it is renamed into place).  What a step decides under the  *)
(* index's mutex is one step, but eviction, which keeps the mutex while it *)
(* deletes files.                                                          *)
(***************************************************************************)
EXTENDS Naturals, FiniteSets, Sequences, Functions, FiniteSetsExt

CONSTANTS Keys,       \* what responses are stored by
          Processes,  \* the application's processes
          Slots,      \* the threads of a process that use the cache at once
          Limit,      \* the bytes the cache may hold
          Share,      \* an entry larger than Limit \div Share is not stored (4)
          Sizes,      \* the sizes of responses
          MaxBodies,  \* bound: bodies ever written
          MaxReads,   \* bound: reads, removals and clears of the cache
          MaxCrashes, \* bound: processes that end and open the cache again
          None

CacheBounds == /\ {Limit, Share, MaxBodies, MaxReads, MaxCrashes} \subseteq Nat
               /\ MaxCrashes > 0 => Cardinality(Processes) = 1
               /\ Share > 0 /\ Sizes \subseteq Nat \ {0}

Threads == Processes \X Slots

Bodies == [key : Keys, id : 1..MaxBodies, size : Sizes]

VARIABLES meta,    \* the metadata file of each key: the body it names, or None
          files,   \* the bodies in the directory
          index,   \* each process's index: per key the files it knows, or None
          total,   \* each process's count of the bytes of its entries
          order,   \* each process's keys, the least recently used first
          mutex,   \* the thread in each process's index, or None
          op,      \* what each thread is doing
          written, \* bodies written, which numbers their generations
          spent,   \* reads and crashes so far
          left     \* ghost: bodies a crash left that no late open has met

vars == <<meta, files, index, total, order, mutex, op, written, spent, left>>

Idle == [at |-> "idle"]

Held(size, bodies) == [size |-> size, bodies |-> bodies]

Init ==
  /\ meta = [k \in Keys |-> None] /\ files = {}
  /\ index = [p \in Processes |-> [k \in Keys |-> None]]
  /\ total = [p \in Processes |-> 0] /\ order = [p \in Processes |-> <<>>]
  /\ mutex = [p \in Processes |-> None]
  /\ op = [t \in Threads |-> Idle]
  /\ written = 0 /\ spent = [reads |-> 0, crashes |-> 0] /\ left = {}

-----------------------------------------------------------------------------
At(t, where) == op[t].at = where
Goes(t, next) == op' = [op EXCEPT ![t] = next]
Free(p) == mutex[p] = None
Knows(p, k) == index[p][k] # None

(* A key that is gone from the order, and one used now: the last to be evicted. *)
Without(keys, k) == SelectSeq(keys, LAMBDA other : other # k)
Used(keys, k) == Append(Without(keys, k), k)

-----------------------------------------------------------------------------
(* Cache::put.  One too large is not stored.  The body is written first.   *)
Put(t, k, size) ==
  /\ At(t, "idle") /\ written < MaxBodies
  /\ size <= Limit \div Share
  /\ LET body == [key |-> k, id |-> written + 1, size |-> size]
     IN  /\ written' = written + 1
         /\ \/ files' = files \cup {body} /\ Goes(t, [at |-> "replaces", body |-> body])
            \/ UNCHANGED <<files, op>>            \* the write failed
  /\ UNCHANGED <<meta, index, total, order, mutex, spent, left>>

(* The metadata in its place is read, for the body it names. *)
PutReads(t) ==
  /\ At(t, "replaces")
  /\ Goes(t, [at |-> "commits", body |-> op[t].body, replaced |-> meta[op[t].body.key]])
  /\ UNCHANGED <<meta, files, index, total, order, mutex, written, spent, left>>

(* The metadata takes the place of any before: the commit point. *)
PutCommits(t) ==
  /\ At(t, "commits")
  /\ LET body == op[t].body
     IN  \/ /\ meta' = [meta EXCEPT ![body.key] = body]
            /\ Goes(t, [op[t] EXCEPT !.at = "lists"])
            /\ UNCHANGED files
         \/ /\ files' = files \ {body} /\ Goes(t, Idle)       \* it failed
            /\ UNCHANGED meta
  /\ UNCHANGED <<index, total, order, mutex, written, spent, left>>

Old(t, before) ==
  (({op[t].replaced} \ {None}) \cup (IF before = None THEN {} ELSE before.bodies))
    \ {op[t].body}

(* The index takes the entry, the bodies it replaced are removed, and the  *)
(* least recently used entries are evicted while the mutex is kept.        *)
PutLists(t) ==
  /\ At(t, "lists") /\ Free(t[1])
  /\ LET p == t[1]
         body == op[t].body
         before == index[p][body.key]
     IN  /\ index' = [index EXCEPT ![p][body.key] = Held(body.size, {body})]
         /\ total' = [total EXCEPT ![p] =
                        (@ - (IF before = None THEN 0 ELSE before.size)) + body.size]
         /\ order' = [order EXCEPT ![p] = Used(@, body.key)]
         /\ files' = files \ Old(t, before)
         /\ mutex' = [mutex EXCEPT ![p] = t]
         /\ Goes(t, [at |-> "evicts"])
  /\ UNCHANGED <<meta, written, spent, left>>

(* Cache::evict: the oldest is forgotten and deleted, until the rest fit. *)
Evict(t) ==
  /\ At(t, "evicts")
  /\ LET p == t[1]
     IN  IF total[p] > Limit /\ order[p] # <<>>
         THEN LET oldest == Head(order[p])
                  held == index[p][oldest]
              IN  /\ index' = [index EXCEPT ![p][oldest] = None]
                  /\ total' = [total EXCEPT ![p] = @ - held.size]
                  /\ order' = [order EXCEPT ![p] = Tail(@)]
                  /\ Goes(t, [at |-> "deletes", key |-> oldest, bodies |-> held.bodies,
                              rest |-> {}, then |-> "evicts"])
                  /\ UNCHANGED mutex
         ELSE /\ mutex' = [mutex EXCEPT ![p] = None] /\ Goes(t, Idle)
              /\ UNCHANGED <<index, total, order>>
  /\ UNCHANGED <<meta, files, written, spent, left>>

-----------------------------------------------------------------------------
(* Cache::get and body_path: an entry the index does not hold is a miss.   *)
Spend(what, most) == /\ spent[what] < most
                     /\ spent' = [spent EXCEPT ![what] = @ + 1]

Get(t, k) ==
  /\ At(t, "idle") /\ Free(t[1]) /\ Knows(t[1], k) /\ Spend("reads", MaxReads)
  /\ Goes(t, [at |-> "metadata", key |-> k])
  /\ UNCHANGED <<meta, files, index, total, order, mutex, written, left>>

Discarding(k) == [at |-> "forgets", key |-> k]

(* stored: metadata that is gone is forgotten. *)
GetMetadata(t) ==
  /\ At(t, "metadata")
  /\ LET stored == meta[op[t].key]
     IN  Goes(t, IF stored = None THEN Discarding(op[t].key)
                 ELSE [at |-> "notes", key |-> op[t].key, stored |-> stored])
  /\ UNCHANGED <<meta, files, index, total, order, mutex, written, spent, left>>

(* The index learns the file of the body, which another may have stored. *)
GetNotes(t) ==
  /\ At(t, "notes") /\ Free(t[1])
  /\ LET k == op[t].key
     IN  index' = IF Knows(t[1], k)
                  THEN [index EXCEPT ![t[1]][k].bodies = @ \cup {op[t].stored}]
                  ELSE index
  /\ Goes(t, [op[t] EXCEPT !.at = "body"])
  /\ UNCHANGED <<meta, files, total, order, mutex, written, spent, left>>

(* body: one that is missing is a miss, and looked into. *)
GetBody(t) ==
  /\ At(t, "body")
  /\ Goes(t, [op[t] EXCEPT !.at = IF op[t].stored \in files THEN "uses" ELSE "missing"])
  /\ UNCHANGED <<meta, files, index, total, order, mutex, written, spent, left>>

(* get gives the entry, which is used now. *)
GetUses(t) ==
  /\ At(t, "uses") /\ Free(t[1])
  /\ order' = IF Knows(t[1], op[t].key)
              THEN [order EXCEPT ![t[1]] = Used(@, op[t].key)] ELSE order
  /\ Goes(t, Idle)
  /\ UNCHANGED <<meta, files, index, total, mutex, written, spent, left>>

(* The entry is removed if its metadata still names the missing body, and  *)
(* left as another made it if it does not.                                 *)
GetMissing(t) ==
  /\ At(t, "missing")
  /\ LET current == meta[op[t].key]
     IN  Goes(t, IF current \in {None, op[t].stored} THEN Discarding(op[t].key) ELSE Idle)
  /\ UNCHANGED <<meta, files, index, total, order, mutex, written, spent, left>>

-----------------------------------------------------------------------------
(* Cache::remove, and discard: forget, then delete. *)
RemoveKey(t, k) ==
  /\ At(t, "idle") /\ Spend("reads", MaxReads)
  /\ Goes(t, Discarding(k))
  /\ UNCHANGED <<meta, files, index, total, order, mutex, written, left>>

Forget(t) ==
  /\ At(t, "forgets") /\ Free(t[1])
  /\ LET p == t[1]
         k == op[t].key
         held == index[p][k]
     IN  /\ index' = [index EXCEPT ![p][k] = None]
         /\ total' = [total EXCEPT ![p] = @ - (IF held = None THEN 0 ELSE held.size)]
         /\ order' = [order EXCEPT ![p] = Without(@, k)]
         /\ Goes(t, [at |-> "deletes", key |-> k,
                     bodies |-> IF held = None THEN {} ELSE held.bodies,
                     rest |-> {}, then |-> "idle"])
  /\ UNCHANGED <<meta, files, mutex, written, spent, left>>

(* A mistake: the bodies are removed before the metadata that names one. *)
DeleteReadsFirst(t) ==
  /\ At(t, "deletes")
  /\ files' = files \ (op[t].bodies \cup {meta[op[t].key]})
  /\ Goes(t, [op[t] EXCEPT !.at = "deletes metadata"])
  /\ UNCHANGED <<meta, index, total, order, mutex, written, spent, left>>

(* delete: what the metadata names is read, the metadata removed, and then *)
(* the bodies.                                                             *)
DeleteReads(t) ==
  /\ At(t, "deletes")
  /\ Goes(t, [op[t] EXCEPT !.at = "deletes metadata",
                           !.bodies = @ \cup ({meta[op[t].key]} \ {None})])
  /\ UNCHANGED <<meta, files, index, total, order, mutex, written, spent, left>>

DeleteMetadata(t) ==
  /\ At(t, "deletes metadata")
  /\ meta' = [meta EXCEPT ![op[t].key] = None]
  /\ Goes(t, [op[t] EXCEPT !.at = "deletes bodies"])
  /\ UNCHANGED <<files, index, total, order, mutex, written, spent, left>>

DeleteBodies(t) ==
  /\ At(t, "deletes bodies")
  /\ files' = files \ op[t].bodies
  /\ IF op[t].rest # {}
     THEN \E next \in op[t].rest :
            Goes(t, [op[t] EXCEPT !.at = "deletes", !.key = next.key,
                                  !.bodies = next.bodies, !.rest = @ \ {next}])
     ELSE Goes(t, [at |-> op[t].then])
  /\ UNCHANGED <<meta, index, total, order, mutex, written, spent, left>>

(* Cache::clear: every entry the index holds, forgotten at once. *)
Clear(t) ==
  /\ At(t, "idle") /\ Free(t[1]) /\ Spend("reads", MaxReads)
  /\ LET p == t[1]
         held == {[key |-> k, bodies |-> index[p][k].bodies] : k \in {j \in Keys : Knows(p, j)}}
     IN  /\ index' = [index EXCEPT ![p] = [k \in Keys |-> None]]
         /\ total' = [total EXCEPT ![p] = 0]
         /\ order' = [order EXCEPT ![p] = <<>>]
         /\ held # {}
         /\ \E first \in held :
              Goes(t, [at |-> "deletes", key |-> first.key, bodies |-> first.bodies,
                       rest |-> held \ {first}, then |-> "idle"])
  /\ UNCHANGED <<meta, files, mutex, written, left>>

-----------------------------------------------------------------------------
Of(k) == {b \in files : b.key = k}

(* What the files of an entry's bodies take. *)
Takes(k) == MapThenSumSet(LAMBDA b : b.size, Of(k))

(* The process ends in the middle of anything, and opens the cache again: *)
(* Cache::open reads the directory.  An entry holds every body of its key, *)
(* metadata without one is removed, and so are bodies no metadata names    *)
(* once they are old (ABANDONED: the open is late).  The times of the      *)
(* files give the order.  Reading a directory is many calls, which another *)
(* process's come between: this is for a process alone.                    *)
Reopen(p, late) ==
  /\ Spend("crashes", MaxCrashes)
  /\ LET thread == <<p, CHOOSE s \in Slots : TRUE>>
         held == {k \in Keys : meta[k] # None /\ Of(k) # {}}
         unnamed == {b \in files : meta[b.key] = None}
     IN  /\ op' = [[t \in Threads |-> Idle] EXCEPT ![thread] = [at |-> "evicts"]]
         /\ mutex' = [mutex EXCEPT ![p] = thread]
         /\ meta' = [k \in Keys |-> IF Of(k) = {} THEN None ELSE meta[k]]
         /\ files' = IF late THEN files \ unnamed ELSE files
         /\ index' = [index EXCEPT ![p] = [k \in Keys |->
                        IF k \in held THEN Held(Takes(k), Of(k)) ELSE None]]
         /\ total' = [total EXCEPT ![p] = MapThenSumSet(Takes, held)]
         /\ \E keys \in Injection(1..Cardinality(held), held) : order' = [order EXCEPT ![p] = keys]
         /\ left' = IF late THEN {} ELSE unnamed
  /\ UNCHANGED written

-----------------------------------------------------------------------------
Next ==
  \/ \E t \in Threads :
       \/ \E k \in Keys, size \in Sizes : Put(t, k, size)
       \/ PutReads(t) \/ PutCommits(t) \/ PutLists(t) \/ Evict(t)
       \/ \E k \in Keys : Get(t, k) \/ RemoveKey(t, k)
       \/ GetMetadata(t) \/ GetNotes(t) \/ GetBody(t) \/ GetUses(t) \/ GetMissing(t)
       \/ Forget(t) \/ DeleteReads(t) \/ DeleteMetadata(t) \/ DeleteBodies(t) \/ Clear(t)
  \/ \E p \in Processes, late \in BOOLEAN : Reopen(p, late)

Spec == Init /\ [][Next]_vars

-----------------------------------------------------------------------------
AtRest == \A t \in Threads : At(t, "idle")

TypeOK ==
  /\ meta \in [Keys -> Bodies \cup {None}]
  /\ files \subseteq Bodies
  /\ total \in [Processes -> Nat]
  /\ \A p \in Processes : mutex[p] \in Threads \cup {None}
  /\ \A p \in Processes : Range(order[p]) = {k \in Keys : Knows(p, k)}

(* An entry's body stays while its metadata names it: whatever puts, reads, *)
(* removals, evictions and ends of processes come between, no one removes   *)
(* the body of an entry that another has just put in its place.             *)
BodyStays == \A k \in Keys : meta[k] # None => meta[k] \in files

Known == {b \in files : \/ meta[b.key] = b
                        \/ \E p \in Processes : Knows(p, b.key) /\ b \in index[p][b.key].bodies}

(* Nothing is lost in the directory: at rest every body in it is one that   *)
(* some index will remove, or its key's metadata names, or a crash left,    *)
(* and an open long enough after removes those.                             *)
NothingLost == AtRest => files \subseteq Known \cup left

(* The directory of one process holds no more than its limit at rest, but   *)
(* for what a crash left.                                                   *)
Bounded ==
  AtRest => MapThenSumSet(LAMBDA b : b.size, files \ left) <= Limit

=============================================================================
