----------------------------- MODULE BuildCache -----------------------------
(***************************************************************************)
(* The process-wide cache of linked binaries (pkg/build/buildcache.go).    *)
(* Builders run buildBinary concurrently; a critical section under c.mu is *)
(* one action, and so is each use of the file system between two of them.  *)
(*                                                                         *)
(* A key stands for its canonical file, `files` are the canonical files    *)
(* that exist.  Of the use ticks only their order matters, the relation    *)
(* `older` (a tick is used once, so the order is total).  A build that     *)
(* bypasses the cache (the cache off, no key, no directory) links straight *)
(* into its output and touches nothing here.                               *)
(***************************************************************************)
EXTENDS Integers, FiniteSets

CONSTANTS
  Builder,   \* concurrent calls of buildBinary
  Key,       \* cache keys
  Size,      \* the size of each key's binary
  Limits,    \* the values capBytes may return; 0 removes the cap
  Reaper,    \* TRUE when something outside the process removes cached files
  none       \* no builder, no key

ASSUME KeyAssumption == IsFiniteSet(Key) /\ none \notin Key \cup Builder
ASSUME SizeAssumption == Size \in [Key -> Nat \ {0}] /\ Limits \subseteq Nat
ASSUME ReaperAssumption == Reaper \in BOOLEAN

VARIABLES
  limit,   \* capBytes()
  dir,     \* c.made and c.dirErr: unmade, ok, failed
  entries, \* the keys of c.entries
  older,   \* the pairs of them whose first was used before the second, by e.used
  bytes,   \* c.bytes
  files,   \* canonical files on disk
  owner,   \* the holder of each key's lock in c.keyLock
  pc,      \* where each builder is in buildBinary
  key,     \* the key it builds
  stuck    \* history: the files present that the last eviction could not remove

vars == <<limit, dir, entries, older, bytes, files, owner, pc, key, stuck>>

\* locking: waits for its key's lock; lookup, link, store, copy: about to run
\* that step, the lock held.
PC == {"idle", "locking", "lookup", "link", "store", "copy"}

Init ==
  /\ limit \in Limits
  /\ dir = "unmade"
  /\ entries = {}
  /\ older = {}
  /\ bytes = 0
  /\ files = {}
  /\ owner = [k \in Key |-> none]
  /\ pc = [b \in Builder |-> "idle"]
  /\ key = [b \in Builder |-> none]
  /\ stuck = {}

\* The use order of the records of K, and the same with k the last one used.
byUse(K) == older \cap (K \X K)
lastUsed(K, k) == byUse(K \ {k}) \cup ((K \ {k}) \X {k})

\* The bytes of the binaries of K, each a binary and a place in it.
bytesOf(K) == UNION {{k} \X (1..Size[k]) : k \in K}
sizeOf(K) == Cardinality(bytesOf(K))

goto(b, where) == pc' = [pc EXCEPT ![b] = where]

\* A mutant: an early return that leaves the key's lock held.
returnLocked(b) ==
  /\ goto(b, "idle")
  /\ key' = [key EXCEPT ![b] = none]
  /\ UNCHANGED owner

\* buildBinary returns: the deferred unlock of the key's lock.
return(b) ==
  /\ goto(b, "idle")
  /\ owner' = [owner EXCEPT ![key[b]] = none]
  /\ key' = [key EXCEPT ![b] = none]
-----------------------------------------------------------------------------
\* buildBinary computes the key and asks for its lock ...
begin(b, k) ==
  /\ pc[b] = "idle"
  /\ goto(b, "locking")
  /\ key' = [key EXCEPT ![b] = k]
  /\ UNCHANGED <<limit, dir, entries, older, bytes, files, owner, stuck>>

\* A mutant: every build makes its own lock.
lockForPrivate(b) ==
  /\ pc[b] = "locking"
  /\ owner' = [owner EXCEPT ![key[b]] = b]
  /\ goto(b, "lookup")
  /\ UNCHANGED <<limit, dir, entries, older, bytes, files, key, stuck>>

\* ... and gets it.
lockFor(b) ==
  /\ pc[b] = "locking"
  /\ owner[key[b]] = none
  /\ owner' = [owner EXCEPT ![key[b]] = b]
  /\ goto(b, "lookup")
  /\ UNCHANGED <<limit, dir, entries, older, bytes, files, key, stuck>>

\* A mutant: the record of a vanished file goes and its bytes stay.
hitUncounted(b) ==
  /\ pc[b] = "lookup"
  /\ IF key[b] \in entries \cap files
       THEN /\ older' = lastUsed(entries, key[b])
            /\ goto(b, "copy")
            /\ UNCHANGED entries
       ELSE /\ entries' = entries \ {key[b]}
            /\ older' = byUse(entries \ {key[b]})
            /\ goto(b, "link")
  /\ UNCHANGED <<limit, dir, bytes, files, owner, key, stuck>>

\* hit: a present file moves to the young end; a record without its file is
\* dropped and misses.
hit(b) ==
  /\ pc[b] = "lookup"
  /\ IF key[b] \in entries \cap files
       THEN /\ older' = lastUsed(entries, key[b])
            /\ goto(b, "copy")
            /\ UNCHANGED <<entries, bytes>>
       ELSE /\ bytes' = (IF key[b] \in entries THEN bytes - Size[key[b]] ELSE bytes)
            /\ entries' = entries \ {key[b]}
            /\ older' = byUse(entries \ {key[b]})
            /\ goto(b, "link")
  /\ UNCHANGED <<limit, dir, files, owner, key, stuck>>

\* ensureDir, made once and remembered even if it failed, and the linker: the
\* binary appears, or the build ends here (the link failed, or there is no
\* directory and it went straight into the output).
link(b) ==
  /\ pc[b] = "link"
  /\ \/ /\ dir \in {"unmade", "ok"}
        /\ dir' = "ok"
        /\ files' = files \cup {key[b]}
        /\ goto(b, "store")
        /\ UNCHANGED <<owner, key>>
     \/ /\ dir' \in (IF dir = "unmade" THEN {"ok", "failed"} ELSE {dir})
        /\ return(b)
        /\ UNCHANGED files
  /\ UNCHANGED <<limit, entries, older, bytes, stuck>>

\* A mutant: the loop ends at the first file it cannot remove.
evictLockedGivingUp(total, keep, refuse) ==
  LET present == (entries \cap files) \ {keep}
  IN {k \in present :
        /\ limit > 0 /\ total - sizeOf({j \in present : <<j, k>> \in older}) > limit
        /\ \A j \in present \cap refuse : <<j, k>> \notin older}

\* evictLocked, by the files it tries to remove, where os.Remove fails on those of
\* `refuse`: oldest first, sparing keep, each one that finds the total still over
\* the cap with the older ones gone that could be removed.  Where os.Remove fails
\* the record, the file and the bytes stay and the loop goes on; on a file that is
\* already gone it always fails.
evictLocked(total, keep, refuse) ==
  LET present == (entries \cap files) \ {keep}
  IN {k \in present :
        limit > 0 /\ total - sizeOf({j \in present \ refuse : <<j, k>> \in older}) > limit}

\* A mutant: the evicted records go, their files stay.
storeKeepingFiles(b) ==
  /\ pc[b] = "store"
  /\ goto(b, "copy")
  /\ LET total == bytes + Size[key[b]]
         gone == evictLocked(total, key[b], {})
     IN /\ entries' = (entries \ gone) \cup {key[b]}
        /\ older' = lastUsed(entries \ gone, key[b])
        /\ bytes' = total - sizeOf(gone)
  /\ UNCHANGED <<limit, dir, files, owner, key, stuck>>

\* store: the record of the fresh binary and the eviction it triggers, which may
\* fail on any of the files; nothing if the file is gone.
store(b) ==
  /\ pc[b] = "store"
  /\ goto(b, "copy")
  /\ IF key[b] \notin files
       THEN UNCHANGED <<entries, older, bytes, files, stuck>>
       ELSE \E refuse \in SUBSET entries :
              LET total == bytes + Size[key[b]]
                  tried == evictLocked(total, key[b], refuse)
                  gone == tried \ refuse
              IN /\ entries' = (entries \ gone) \cup {key[b]}
                 /\ older' = lastUsed(entries \ gone, key[b])
                 /\ bytes' = total - sizeOf(gone)
                 /\ files' = files \ gone
                 /\ stuck' = tried \cap refuse
  /\ UNCHANGED <<limit, dir, owner, key>>

\* copyExecutable: reads the file it opens, or fails if it is gone.
copyExecutable(b) ==
  /\ pc[b] = "copy"
  /\ return(b)
  /\ UNCHANGED <<limit, dir, entries, older, bytes, files, stuck>>

\* Something outside the process removes a cached file.
reap(k) ==
  /\ Reaper
  /\ k \in files
  /\ files' = files \ {k} /\ stuck' = stuck \ {k}
  /\ UNCHANGED <<limit, dir, entries, older, bytes, owner, pc, key>>

\* CleanupCache, deferred by the commands to after their builds.
CleanupCache ==
  /\ \A b \in Builder : pc[b] = "idle"
  /\ dir # "unmade"
  /\ dir' = "unmade"
  /\ entries' = {} /\ older' = {} /\ bytes' = 0 /\ files' = {} /\ stuck' = {}
  /\ owner' = [k \in Key |-> none]
  /\ UNCHANGED <<limit, pc, key>>

Next ==
  \/ \E b \in Builder :
       \/ \E k \in Key : begin(b, k)
       \/ lockFor(b) \/ hit(b) \/ link(b) \/ store(b) \/ copyExecutable(b)
  \/ \E k \in Key : reap(k)
  \/ CleanupCache

\* A goroutine past its lock runs on, and Go's mutexes do not starve a waiter.
Fairness ==
  \A b \in Builder :
    /\ WF_vars(hit(b) \/ link(b) \/ store(b) \/ copyExecutable(b))
    /\ SF_vars(lockFor(b))

Spec == Init /\ [][Next]_vars /\ Fairness
-----------------------------------------------------------------------------
\* The fields of the cache and of the builds in progress have their types.
TypeOK ==
  /\ limit \in Limits /\ dir \in {"unmade", "ok", "failed"}
  /\ entries \subseteq Key /\ older \subseteq Key \X Key /\ bytes \in Nat
  /\ files \subseteq Key
  /\ owner \in [Key -> Builder \cup {none}]
  /\ pc \in [Builder -> PC]
  /\ key \in [Builder -> Key \cup {none}]
  /\ stuck \subseteq Key

\* The running total is the size of the recorded binaries, through every mix of
\* stores, evictions, vanished files and rebuilds (a drift would let the cache
\* grow past its cap or evict for ever), and eviction knows the age of each.
BytesExact ==
  /\ bytes = sizeOf(entries)
  /\ older \subseteq entries \X entries
  /\ \A j, k \in entries : <<j, k>> \in older <=> j # k /\ <<k, j>> \notin older
  /\ \A i, j, k \in entries : <<i, j>> \in older /\ <<j, k>> \in older => <<i, k>> \in older

\* The cap holds as far as files can be removed: the recorded total exceeds it only
\* while a single binary is left on disk, the one evictLocked spares even when it
\* alone is too large, besides those on which os.Remove failed in the last eviction
\* (buildcache.go:185); one failure keeps no other file over the cap.
CapHolds ==
  limit > 0 /\ bytes > limit => Cardinality((entries \cap files) \ stuck) <= 1

\* Builds of one program are serialized by its key lock: one builder at a time
\* is past the lock, so a binary is not linked twice at once or overwritten
\* while another build copies it, and nobody links a binary that is recorded.
OneBuilderPerKey ==
  /\ \A b, c \in Builder :
       pc[b] \notin {"idle", "locking"} /\ pc[c] \notin {"idle", "locking"} /\ key[b] = key[c]
         => b = c
  /\ \A b \in Builder : pc[b] \in {"link", "store"} => key[b] \notin entries

\* Files stay accounted for: a canonical file on disk is recorded, or a build
\* that linked it is about to record it (so eviction can reach it).
NoOrphanFile ==
  \A k \in files : k \in entries \/ \E b \in Builder : pc[b] = "store" /\ key[b] = k

\* Every build returns; the key locks never leave a builder waiting for ever.
BuildReturns == \A b \in Builder : (pc[b] = "locking") ~> (pc[b] = "idle")

\* evictLocked's contract (buildcache.go:164-165): "keep is the entry just stored,
\* never evicted ..., so the current build always has its file".
CurrentBuildHasFile == \A b \in Builder : pc[b] = "copy" => key[b] \in files
=============================================================================
