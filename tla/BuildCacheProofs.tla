-------------------------- MODULE BuildCacheProofs ---------------------------
(***************************************************************************)
(* Serialization by the key locks, accounting of the cached files, the     *)
(* running total and the cap, for any number of builders, programs, sizes  *)
(* and caps.                                                               *)
(***************************************************************************)
EXTENDS BuildCache, FiniteSetTheorems, TLAPS

\* The bytes of a set of binaries are finitely many.
LEMMA BytesFinite ==
  ASSUME NEW K \in SUBSET Key
  PROVE  IsFiniteSet(bytesOf(K)) /\ sizeOf(K) \in Nat
<1> DEFINE piece(k) == {k} \X (1..Size[k])
           pieces == {piece(k) : k \in K}
           f == [k \in K |-> piece(k)]
<1>1. IsFiniteSet(K)
  BY KeyAssumption, FS_Subset
<1>2. f \in Surjection(K, pieces)
  BY DEF Surjection
<1>3. IsFiniteSet(pieces)
  <2> HIDE DEF f, pieces
  <2> QED BY <1>1, <1>2, FS_Surjection
<1>4. ASSUME NEW k \in K PROVE IsFiniteSet(piece(k))
  <2>0. Size[k] \in Int
    BY SizeAssumption
  <2>1. IsFiniteSet({k})
    BY FS_Singleton
  <2>2. IsFiniteSet(1..Size[k])
    BY <2>0, FS_Interval
  <2> QED BY <2>1, <2>2, FS_Product
<1>5. \A T \in pieces : IsFiniteSet(T)
  BY <1>4
<1>6. IsFiniteSet(UNION pieces)
  <2> HIDE DEF pieces
  <2> QED BY <1>3, <1>5, FS_UNION
<1> QED BY <1>6, FS_CardinalityType DEF bytesOf, sizeOf

\* Nothing has no bytes, and one binary has as many as its size says.
LEMMA SizeOne ==
  ASSUME NEW k \in Key
  PROVE  sizeOf({}) = 0 /\ sizeOf({k}) = Size[k]
<1>1. bytesOf({}) = {} /\ bytesOf({k}) = {k} \X (1..Size[k])
  BY DEF bytesOf
<1>2. IsFiniteSet({k}) /\ Cardinality({k}) = 1
  BY FS_Singleton
<1>3. Size[k] \in Nat \ {0}
  BY SizeAssumption
<1>4. IsFiniteSet(1..Size[k]) /\ Cardinality(1..Size[k]) = Size[k]
  BY <1>3, FS_Interval
<1>5. Cardinality({k} \X (1..Size[k])) = 1 * Size[k]
  <2>1. PICK A, B : A = {k} /\ B = 1..Size[k]
    OBVIOUS
  <2>2. IsFiniteSet(A) /\ Cardinality(A) = 1 /\ IsFiniteSet(B) /\ Cardinality(B) = Size[k]
    BY <1>2, <1>4, <2>1
  <2>3. Cardinality(A \X B) = Cardinality(A) * Cardinality(B)
    BY ONLY <2>2, FS_Product
  <2> QED BY ONLY <2>1, <2>2, <2>3
<1>6. Cardinality(bytesOf({})) = 0
  BY <1>1, FS_EmptySet
<1>7. sizeOf({}) = 0
  BY <1>6 DEF sizeOf
<1>8. sizeOf({k}) = 1 * Size[k]
  BY <1>1, <1>5 DEF sizeOf
<1> QED BY <1>3, <1>7, <1>8

\* Sizes of disjoint sets of binaries add up.
LEMMA SizeUnion ==
  ASSUME NEW K \in SUBSET Key, NEW L \in SUBSET Key, K \cap L = {}
  PROVE  sizeOf(K \cup L) = sizeOf(K) + sizeOf(L)
<1>1. bytesOf(K \cup L) = bytesOf(K) \cup bytesOf(L)
  BY DEF bytesOf
<1>2. bytesOf(K) \cap bytesOf(L) = {}
  BY DEF bytesOf
<1>3. Cardinality(bytesOf(K) \cap bytesOf(L)) = 0
  BY <1>2, FS_EmptySet
<1>4. Cardinality(bytesOf(K) \cup bytesOf(L)) = Cardinality(bytesOf(K)) + Cardinality(bytesOf(L)) - 0
  BY <1>3, BytesFinite, FS_Union
<1>5. sizeOf(K) \in Nat /\ sizeOf(L) \in Nat
  BY BytesFinite
<1>6. sizeOf(K \cup L) = sizeOf(K) + sizeOf(L) - 0
  BY <1>1, <1>4 DEF sizeOf
<1> QED BY <1>5, <1>6

\* Taking binaries away, and having fewer of them.
LEMMA SizeLess ==
  ASSUME NEW K \in SUBSET Key, NEW G \in SUBSET K
  PROVE  sizeOf(K \ G) = sizeOf(K) - sizeOf(G) /\ sizeOf(G) <= sizeOf(K)
<1>1. sizeOf((K \ G) \cup G) = sizeOf(K \ G) + sizeOf(G)
  BY SizeUnion
<1>2. (K \ G) \cup G = K
  OBVIOUS
<1>3. sizeOf(K \ G) \in Nat /\ sizeOf(G) \in Nat /\ sizeOf(K) \in Nat
  <2>1. K \ G \in SUBSET Key /\ G \in SUBSET Key
    OBVIOUS
  <2> QED BY <2>1, BytesFinite
<1>4. sizeOf(K) = sizeOf(K \ G) + sizeOf(G)
  BY <1>1, <1>2
<1> QED BY <1>3, <1>4

\* The builders between taking their key's lock and returning.
building(b) == pc[b] \in {"lookup", "link", "store", "copy"}

\* The strengthening: a builder past the lock is the stored owner of its key.
KeyLocks ==
  /\ entries \subseteq Key /\ files \subseteq Key
  /\ owner \in [Key -> Builder \cup {none}]
  /\ pc \in [Builder -> PC]
  /\ key \in [Builder -> Key \cup {none}]
  /\ \A b \in Builder : pc[b] # "idle" => key[b] \in Key
  /\ \A b \in Builder : building(b) => owner[key[b]] = b

\* The inductive invariant.
Inv == KeyLocks /\ OneBuilderPerKey /\ NoOrphanFile

\* Two builders past the same lock are one.
LEMMA Exclusive ==
  ASSUME KeyLocks, NEW b \in Builder, NEW c \in Builder,
         building(b), building(c), key[b] = key[c]
  PROVE  b = c
BY DEF KeyLocks

\* What a store does to the records and the files, whatever it evicts: both lose the
\* same keys, and its own key is recorded if its file is there.
LEMMA StoreShape ==
  ASSUME NEW b \in Builder, store(b)
  PROVE  \/ key[b] \notin files /\ UNCHANGED <<entries, files>>
         \/ \E gone : entries' = (entries \ gone) \cup {key[b]} /\ files' = files \ gone
BY DEF store

\* Every step keeps the locks and their holders together.
LEMMA LockStep ==
  ASSUME KeyLocks, [Next]_vars
  PROVE  KeyLocks'
<1>0. \A b \in Builder : b # none
  BY KeyAssumption
<1>1. CASE UNCHANGED vars
  BY <1>1 DEF vars, KeyLocks, building
<1>2. ASSUME NEW b \in Builder, NEW k \in Key, begin(b, k) PROVE KeyLocks'
  BY <1>2 DEF begin, goto, KeyLocks, building, PC
<1>3. ASSUME NEW b \in Builder, lockFor(b) PROVE KeyLocks'
  BY <1>0, <1>3 DEF lockFor, goto, KeyLocks, building, PC
<1>4. ASSUME NEW b \in Builder, hit(b) PROVE KeyLocks'
  BY <1>4 DEF hit, goto, KeyLocks, building, PC
<1>5. ASSUME NEW b \in Builder, building(b), return(b),
             entries' \subseteq Key, files' \subseteq Key
      PROVE  KeyLocks'
  <2>1. key[b] \in Key /\ \A c \in Builder \ {b} : building(c) => key[c] # key[b]
    BY <1>5, Exclusive DEF KeyLocks, building
  <2> QED BY <1>5, <2>1 DEF return, goto, KeyLocks, building, PC
<1>6. ASSUME NEW b \in Builder, link(b) PROVE KeyLocks'
  <2>1. CASE return(b)
    BY <1>5, <1>6, <2>1 DEF link, building, KeyLocks
  <2>2. CASE files' = files \cup {key[b]} /\ goto(b, "store") /\ UNCHANGED <<owner, key>>
    BY <1>6, <2>2 DEF link, goto, KeyLocks, building, PC
  <2> QED BY <1>6, <2>1, <2>2 DEF link
<1>7. ASSUME NEW b \in Builder, store(b) PROVE KeyLocks'
  <2>1. entries' \subseteq Key /\ files' \subseteq Key
    <3>1. key[b] \in Key
      BY <1>7 DEF store, KeyLocks
    <3> QED BY <1>7, <3>1, StoreShape DEF KeyLocks
  <2> QED BY <1>7, <2>1 DEF store, goto, KeyLocks, building, PC
<1>8. ASSUME NEW b \in Builder, copyExecutable(b) PROVE KeyLocks'
  BY <1>5, <1>8 DEF copyExecutable, building, KeyLocks
<1>9. ASSUME NEW k \in Key, reap(k) PROVE KeyLocks'
  BY <1>9 DEF reap, KeyLocks, building
<1>10. CASE CleanupCache
  BY <1>10 DEF CleanupCache, KeyLocks, building
<1> QED BY <1>1, <1>2, <1>3, <1>4, <1>6, <1>7, <1>8, <1>9, <1>10 DEF Next

\* Nobody links a binary that is recorded: only the builder of a key records it.
LEMMA BuilderStep ==
  ASSUME Inv, [Next]_vars, KeyLocks'
  PROVE  OneBuilderPerKey'
<1>1. \A b, c \in Builder : building(b)' /\ building(c)' /\ (key[b] = key[c])' => b = c
  BY DEF KeyLocks
<1> DEFINE Unrecorded == \A b \in Builder : pc[b] \in {"link", "store"} => key[b] \notin entries
<1>2. Unrecorded
  BY DEF Inv, OneBuilderPerKey
<1>3. Unrecorded'
  <2>1. CASE UNCHANGED vars
    BY <1>2, <2>1 DEF vars
  <2>2. ASSUME NEW b \in Builder, NEW k \in Key, begin(b, k) PROVE Unrecorded'
    BY <1>2, <2>2 DEF begin, goto, Inv, KeyLocks
  <2>3. ASSUME NEW b \in Builder, lockFor(b) PROVE Unrecorded'
    BY <1>2, <2>3 DEF lockFor, goto, Inv, KeyLocks
  <2>4. ASSUME NEW b \in Builder, hit(b) PROVE Unrecorded'
    BY <1>2, <2>4 DEF hit, goto, Inv, KeyLocks
  <2>5. ASSUME NEW b \in Builder, link(b) PROVE Unrecorded'
    BY <1>2, <2>5 DEF link, return, goto, Inv, KeyLocks
  <2>6. ASSUME NEW b \in Builder, store(b) PROVE Unrecorded'
    <3>1. \A c \in Builder \ {b} : pc[c] \in {"link", "store"} => key[c] # key[b]
      BY <2>6, Exclusive DEF store, Inv, building
    <3>2. entries' \subseteq entries \cup {key[b]}
      BY <2>6, StoreShape
    <3> QED BY <1>2, <2>6, <3>1, <3>2 DEF store, goto, Inv, KeyLocks
  <2>7. ASSUME NEW b \in Builder, copyExecutable(b) PROVE Unrecorded'
    BY <1>2, <2>7 DEF copyExecutable, return, goto, Inv, KeyLocks
  <2>8. ASSUME NEW k \in Key, reap(k) PROVE Unrecorded'
    BY <1>2, <2>8 DEF reap
  <2>9. CASE CleanupCache
    BY <2>9 DEF CleanupCache
  <2> QED BY <2>1, <2>2, <2>3, <2>4, <2>5, <2>6, <2>7, <2>8, <2>9 DEF Next
<1>4. \A b \in Builder : pc'[b] \notin {"idle", "locking"} => building(b)'
  BY DEF KeyLocks, PC, building
<1> QED BY <1>1, <1>3, <1>4 DEF OneBuilderPerKey

\* A file leaves its record or its builder only by leaving the disk.
LEMMA FileStep ==
  ASSUME Inv, [Next]_vars
  PROVE  NoOrphanFile'
<1>0. \A k \in files : k \in entries \/ \E c \in Builder : pc[c] = "store" /\ key[c] = k
  BY DEF Inv, NoOrphanFile
<1>1. CASE UNCHANGED vars
  BY <1>0, <1>1 DEF vars, NoOrphanFile
<1>2. ASSUME NEW b \in Builder, NEW k \in Key, begin(b, k) PROVE NoOrphanFile'
  BY <1>0, <1>2 DEF begin, goto, Inv, KeyLocks, NoOrphanFile
<1>3. ASSUME NEW b \in Builder, lockFor(b) PROVE NoOrphanFile'
  BY <1>0, <1>3 DEF lockFor, goto, Inv, KeyLocks, NoOrphanFile
<1>4. ASSUME NEW b \in Builder, hit(b) PROVE NoOrphanFile'
  BY <1>0, <1>4 DEF hit, goto, Inv, KeyLocks, NoOrphanFile
<1>5. ASSUME NEW b \in Builder, link(b) PROVE NoOrphanFile'
  BY <1>0, <1>5 DEF link, return, goto, Inv, KeyLocks, NoOrphanFile
<1>6. ASSUME NEW b \in Builder, store(b) PROVE NoOrphanFile'
  <2>1. key' = key /\ pc' = [pc EXCEPT ![b] = "copy"] /\ pc \in [Builder -> PC]
    BY <1>6 DEF store, goto, Inv, KeyLocks
  <2> QED BY <1>0, <1>6, <2>1, StoreShape DEF NoOrphanFile
<1>7. ASSUME NEW b \in Builder, copyExecutable(b) PROVE NoOrphanFile'
  BY <1>0, <1>7 DEF copyExecutable, return, goto, Inv, KeyLocks, NoOrphanFile
<1>8. ASSUME NEW k \in Key, reap(k) PROVE NoOrphanFile'
  BY <1>0, <1>8 DEF reap, NoOrphanFile
<1>9. CASE CleanupCache
  BY <1>9 DEF CleanupCache, NoOrphanFile
<1> QED BY <1>1, <1>2, <1>3, <1>4, <1>5, <1>6, <1>7, <1>8, <1>9 DEF Next

-----------------------------------------------------------------------------
\* R orders the keys of K, strictly and totally.
Orders(R, K) ==
  /\ R \subseteq K \X K
  /\ \A j, k \in K : <<j, k>> \in R <=> j # k /\ <<k, j>> \notin R
  /\ \A i, j, k \in K : <<i, j>> \in R /\ <<j, k>> \in R => <<i, k>> \in R

\* Dropping records and using one leave the rest in order.
LEMMA OrderKept ==
  ASSUME Orders(older, entries), NEW K \in SUBSET entries, NEW k
  PROVE  Orders(byUse(K), K) /\ Orders(lastUsed(K, k), K \cup {k})
<1>1. Orders(byUse(K), K)
  BY DEF Orders, byUse
<1>2. Orders(byUse(K \ {k}), K \ {k})
  BY DEF Orders, byUse
<1>3. Orders(lastUsed(K, k), K \cup {k})
  <2> DEFINE L == K \ {k}
             R == byUse(L)
             Q == R \cup (L \X {k})
  <2>1. Orders(R, L) /\ k \notin L
    BY <1>2
  <2> HIDE DEF L, R
  <2>2. Orders(Q, L \cup {k})
    <3>1. \A x, y : <<x, y>> \in Q <=> <<x, y>> \in R \/ (x \in L /\ y = k)
      OBVIOUS
    <3>2. \A x, y : <<x, y>> \in R => x \in L /\ y \in L
      BY <2>1 DEF Orders
    <3>3. Q \subseteq (L \cup {k}) \X (L \cup {k})
      BY <2>1 DEF Orders
    <3> HIDE DEF Q
    <3>4. ASSUME NEW x \in L \cup {k}, NEW y \in L \cup {k}
          PROVE  <<x, y>> \in Q <=> x # y /\ <<y, x>> \notin Q
      BY <2>1, <3>1, <3>2 DEF Orders
    <3>5. ASSUME NEW x \in L \cup {k}, NEW y \in L \cup {k}, NEW z \in L \cup {k},
                 <<x, y>> \in Q, <<y, z>> \in Q
          PROVE  <<x, z>> \in Q
      BY <2>1, <3>1, <3>2, <3>5 DEF Orders
    <3> QED BY <3>3, <3>4, <3>5 DEF Orders
  <2>3. L \cup {k} = K \cup {k}
    BY DEF L
  <2> QED BY <2>2, <2>3 DEF lastUsed, L, R
<1> QED BY <1>1, <1>3

\* evictLocked tries records that have their file, never the one to keep, and ends
\* above the cap only when it has tried them all: what is left then is what os.Remove
\* failed on.
LEMMA EvictFacts ==
  ASSUME entries \subseteq Key, Orders(older, entries), limit \in Nat,
         NEW total \in Int, NEW keep, NEW refuse
  PROVE  /\ evictLocked(total, keep, refuse) \subseteq (entries \cap files) \ {keep}
         /\ limit > 0 /\ total - sizeOf(evictLocked(total, keep, refuse) \ refuse) > limit
              => evictLocked(total, keep, refuse) = (entries \cap files) \ {keep}
<1> DEFINE present == (entries \cap files) \ {keep}
           tried == evictLocked(total, keep, refuse)
           gone == tried \ refuse
           before(k) == {j \in present \ refuse : <<j, k>> \in older}
           elder(k) == {j \in present : <<j, k>> \in older}
<1>1. \A k : k \in tried <=> k \in present /\ limit > 0 /\ total - sizeOf(before(k)) > limit
  BY DEF evictLocked
<1>2. present \subseteq entries /\ present \in SUBSET Key
  OBVIOUS
<1> HIDE DEF present, tried
<1>3. SUFFICES ASSUME limit > 0, total - sizeOf(gone) > limit, present \ tried # {}
               PROVE  FALSE
  BY <1>1 DEF present, tried
<1> DEFINE spared == {elder(k) : k \in present \ tried}
<1>4. PICK k \in present \ tried : \A j \in present \ tried : <<j, k>> \notin older
  <2>1. spared \subseteq FiniteSubsetsOf(Key) /\ spared # {}
    <3>1. FiniteSubsetsOf(Key) = SUBSET Key
      BY KeyAssumption, FS_FiniteSubsetsOfFinite
    <3>2. spared \subseteq SUBSET Key
      BY <1>2
    <3>3. PICK k : k \in present \ tried
      BY <1>3
    <3>4. elder(k) \in spared
      BY <3>3
    <3> QED BY <3>1, <3>2, <3>4
  <2>2. PICK B \in spared : \A C \in spared : <<C, B>> \notin StrictSubsetOrdering(Key)
    <3>1. IsWellFoundedOn(StrictSubsetOrdering(Key), FiniteSubsetsOf(Key))
      BY FS_StrictSubsetOrderingWellFounded
    <3> HIDE DEF spared
    <3> QED BY <2>1, <3>1, WFMin
  <2>3. PICK k \in present \ tried : B = elder(k)
    OBVIOUS
  <2>4. ASSUME NEW j \in present \ tried, <<j, k>> \in older PROVE FALSE
    <3>1. elder(j) \subseteq elder(k) /\ j \in elder(k) /\ j \notin elder(j)
      BY <1>2, <2>4 DEF Orders
    <3>2. elder(j) \in spared /\ elder(j) \subseteq Key /\ elder(k) \subseteq Key
      BY <1>2
    <3>3. <<elder(j), elder(k)>> \in StrictSubsetOrdering(Key)
      BY <3>1, <3>2 DEF StrictSubsetOrdering
    <3> QED BY <2>2, <2>3, <3>2, <3>3
  <2> QED BY <2>4
<1>5. before(k) \subseteq gone
  BY <1>4
<1>6. total - sizeOf(before(k)) <= limit
  <2>1. ~(total - sizeOf(before(k)) > limit)
    BY <1>1, <1>3, <1>4
  <2>2. sizeOf(before(k)) \in Nat
    BY <1>2, BytesFinite
  <2> QED BY <2>1, <2>2
<1>7. sizeOf(before(k)) <= sizeOf(gone) /\ sizeOf(gone) \in Nat /\ sizeOf(before(k)) \in Nat
  <2>1. gone \in SUBSET Key /\ before(k) \in SUBSET gone /\ before(k) \in SUBSET Key
    BY <1>1, <1>2, <1>5
  <2> HIDE DEF before, gone
  <2> QED BY <2>1, SizeLess, BytesFinite
<1> QED BY <1>3, <1>6, <1>7

\* The total and the use order, given the locks: a store records a key nobody has
\* recorded, and what it evicts was recorded.
LEMMA BytesStep ==
  ASSUME Inv, limit \in Nat, BytesExact, [Next]_vars
  PROVE  BytesExact'
<1> DEFINE Exact == bytes = sizeOf(entries) /\ Orders(older, entries)
<1>0. Exact /\ (Exact' => BytesExact') /\ entries \in SUBSET Key /\ sizeOf(entries) \in Nat
  BY BytesFinite DEF BytesExact, Orders, Inv, KeyLocks
<1>1. ASSUME UNCHANGED <<entries, older, bytes>> PROVE Exact'
  BY <1>0, <1>1 DEF Orders, sizeOf, bytesOf
<1>2. ASSUME NEW b \in Builder, hit(b) PROVE Exact'
  <2>1. CASE key[b] \in entries \cap files
    <3>1. entries \cup {key[b]} = entries
      BY <2>1
    <3>2. Orders(lastUsed(entries, key[b]), entries)
      BY <1>0, <3>1, OrderKept
    <3> QED BY <1>0, <1>2, <2>1, <3>2 DEF hit, sizeOf, bytesOf
  <2>2. CASE key[b] \notin entries
    <3>1. entries \ {key[b]} = entries
      BY <2>2
    <3>2. Orders(byUse(entries), entries)
      BY <1>0, OrderKept
    <3>3. bytes' = bytes /\ entries' = entries /\ older' = byUse(entries)
      BY <1>2, <2>2, <3>1 DEF hit
    <3> QED BY <1>0, <3>2, <3>3 DEF sizeOf, bytesOf
  <2>3. CASE key[b] \in entries \ files
    <3> DEFINE K == entries \ {key[b]}
    <3>1. bytes' = bytes - Size[key[b]] /\ entries' = K /\ older' = byUse(K)
      BY <1>2, <2>3 DEF hit
    <3>2. Orders(byUse(K), K)
      BY <1>0, OrderKept
    <3>3. sizeOf(K) = sizeOf(entries) - sizeOf({key[b]})
      BY <1>0, <2>3, SizeLess
    <3>4. sizeOf({key[b]}) = Size[key[b]]
      BY <1>0, <2>3, SizeOne
    <3>5. sizeOf(entries') = sizeOf(K) /\ sizeOf(entries)' = sizeOf(entries')
      BY <3>1 DEF sizeOf, bytesOf
    <3> HIDE DEF K
    <3> QED BY <1>0, <3>1, <3>2, <3>3, <3>4, <3>5
  <2> QED BY <2>1, <2>2, <2>3
<1>3. ASSUME NEW b \in Builder, store(b) PROVE Exact'
  <2>1. CASE key[b] \notin files
    BY <1>1, <1>3, <2>1 DEF store
  <2>2. CASE key[b] \in files
    <3> DEFINE total == bytes + Size[key[b]]
               left(refuse) == evictLocked(total, key[b], refuse) \ refuse
    <3>0. PICK refuse \in SUBSET entries :
            /\ entries' = (entries \ left(refuse)) \cup {key[b]}
            /\ older' = lastUsed(entries \ left(refuse), key[b])
            /\ bytes' = total - sizeOf(left(refuse))
      BY <1>3, <2>2 DEF store
    <3> DEFINE gone == left(refuse)
               K == entries \ gone
    <3>1. /\ entries' = K \cup {key[b]}
          /\ older' = lastUsed(K, key[b])
          /\ bytes' = total - sizeOf(gone)
      BY <3>0
    <3>2. key[b] \in Key /\ key[b] \notin entries /\ Size[key[b]] \in Nat
      BY <1>3, SizeAssumption DEF store, Inv, KeyLocks, OneBuilderPerKey
    <3>3. total \in Int
      BY <1>0, <3>2
    <3> HIDE DEF total
    <3>4. gone \in SUBSET entries
      BY <1>0, <3>3, EvictFacts
    <3> HIDE DEF gone
    <3>5. Orders(lastUsed(K, key[b]), K \cup {key[b]})
      BY <1>0, OrderKept
    <3>6. sizeOf(K) = sizeOf(entries) - sizeOf(gone)
      BY <1>0, <3>4, SizeLess
    <3>7. sizeOf(K \cup {key[b]}) = sizeOf(K) + sizeOf({key[b]})
      <4>1. K \in SUBSET Key /\ {key[b]} \in SUBSET Key /\ K \cap {key[b]} = {}
        BY <1>0, <3>2
      <4> QED BY <4>1, SizeUnion
    <3>8. sizeOf({key[b]}) = Size[key[b]]
      BY <3>2, SizeOne
    <3>9. sizeOf(entries)' = sizeOf(K \cup {key[b]})
      BY <3>1 DEF sizeOf, bytesOf
    <3>10. sizeOf(gone) \in Nat
      BY <1>0, <3>4, BytesFinite
    <3> HIDE DEF K
    <3>11. bytes' = sizeOf(entries)'
      BY <1>0, <3>1, <3>2, <3>6, <3>7, <3>8, <3>9, <3>10 DEF total
    <3> QED BY <3>1, <3>5, <3>11
  <2> QED BY <2>1, <2>2
<1>4. CASE CleanupCache
  <2>1. entries' = {} /\ older' = {} /\ bytes' = 0
    BY <1>4 DEF CleanupCache
  <2>2. sizeOf(entries)' = sizeOf({})
    BY <2>1 DEF sizeOf, bytesOf
  <2>3. sizeOf({}) = 0
    BY FS_EmptySet DEF sizeOf, bytesOf
  <2>4. Exact'
    BY <2>1, <2>2, <2>3 DEF Orders
  <2> QED BY <1>0, <2>4
<1>5. CASE \/ UNCHANGED vars \/ \E k \in Key : reap(k)
           \/ \E b \in Builder : lockFor(b) \/ link(b) \/ copyExecutable(b)
           \/ \E b \in Builder, k \in Key : begin(b, k)
  <2>1. UNCHANGED <<entries, older, bytes>>
    BY <1>5 DEF vars, reap, lockFor, link, copyExecutable, begin
  <2> QED BY <1>0, <1>1, <2>1
<1> QED BY <1>0, <1>2, <1>3, <1>4, <1>5 DEF Next

\* The cap: only a store raises the total, and it leaves it above the cap only if the
\* fresh binary is the only one left on disk but for those that could not be removed;
\* a link adds a file that is not recorded yet.
LEMMA CapStep ==
  ASSUME Inv, limit \in Nat, BytesExact, CapHolds, [Next]_vars
  PROVE  CapHolds'
<1> DEFINE onDisk == (entries \cap files) \ stuck
<1>0. IsFiniteSet(onDisk) /\ limit' = limit /\ entries \in SUBSET Key /\ bytes \in Nat
  <2>1. limit' = limit
    BY DEF Next, vars, begin, lockFor, hit, link, store, copyExecutable, reap, CleanupCache
  <2>2. entries \in SUBSET Key
    BY DEF Inv, KeyLocks
  <2>3. IsFiniteSet(entries)
    BY <2>2, KeyAssumption, FS_Subset
  <2> QED BY <2>1, <2>2, <2>3, FS_Subset, BytesFinite DEF BytesExact
<1>1. ASSUME onDisk' \subseteq onDisk, bytes' <= bytes, bytes' \in Int PROVE CapHolds'
  <2>1. Cardinality(onDisk') <= Cardinality(onDisk)
    BY <1>0, <1>1, FS_Subset
  <2>2. Cardinality(onDisk) \in Nat /\ Cardinality(onDisk') \in Nat
    BY <1>0, <1>1, FS_Subset, FS_CardinalityType
  <2> HIDE DEF onDisk
  <2>3. limit' > 0 /\ bytes' > limit' => Cardinality(onDisk') <= 1
    BY <1>0, <1>1, <2>1, <2>2 DEF CapHolds, onDisk
  <2> QED BY <2>3 DEF CapHolds, onDisk
<1>2. ASSUME NEW b \in Builder, hit(b) PROVE CapHolds'
  <2>1. key[b] \in Key /\ Size[key[b]] \in Nat
    BY <1>2, SizeAssumption DEF hit, Inv, KeyLocks
  <2> QED BY <1>0, <1>1, <1>2, <2>1 DEF hit
<1>3. ASSUME NEW b \in Builder, link(b) PROVE CapHolds'
  <2>1. key[b] \notin entries
    BY <1>3 DEF link, Inv, OneBuilderPerKey
  <2> QED BY <1>0, <1>1, <1>3, <2>1 DEF link
<1>4. ASSUME NEW b \in Builder, store(b) PROVE CapHolds'
  <2>1. CASE key[b] \notin files
    BY <1>0, <1>1, <1>4, <2>1 DEF store
  <2>2. CASE key[b] \in files
    <3> DEFINE total == bytes + Size[key[b]]
               tries(refuse) == evictLocked(total, key[b], refuse)
    <3>0. PICK refuse \in SUBSET entries :
            /\ entries' = (entries \ (tries(refuse) \ refuse)) \cup {key[b]}
            /\ bytes' = total - sizeOf(tries(refuse) \ refuse)
            /\ files' = files \ (tries(refuse) \ refuse)
            /\ stuck' = tries(refuse) \cap refuse
      BY <1>4, <2>2 DEF store
    <3> DEFINE tried == tries(refuse)
    <3>1. /\ entries' = (entries \ (tried \ refuse)) \cup {key[b]}
          /\ bytes' = total - sizeOf(tried \ refuse)
          /\ files' = files \ (tried \ refuse)
          /\ stuck' = tried \cap refuse
      BY <3>0
    <3>2. key[b] \in Key /\ key[b] \notin entries /\ Size[key[b]] \in Nat
      BY <1>4, SizeAssumption DEF store, Inv, KeyLocks, OneBuilderPerKey
    <3>3. total \in Int
      BY <1>0, <3>2
    <3> HIDE DEF total
    <3>4. limit > 0 /\ total - sizeOf(tried \ refuse) > limit
            => tried = (entries \cap files) \ {key[b]}
      BY <1>0, <3>3, EvictFacts DEF BytesExact, Orders
    <3> HIDE DEF tried
    <3>5. ASSUME limit' > 0, bytes' > limit' PROVE Cardinality(onDisk') <= 1
      <4>1. tried = (entries \cap files) \ {key[b]}
        BY <1>0, <3>1, <3>4, <3>5
      <4>2. onDisk' \subseteq {key[b]}
        BY <3>1, <4>1
      <4>3. IsFiniteSet({key[b]}) /\ Cardinality({key[b]}) = 1
        BY FS_Singleton
      <4> HIDE DEF onDisk
      <4> QED BY <4>2, <4>3, FS_Subset
    <3> QED BY <3>5 DEF CapHolds
  <2> QED BY <2>1, <2>2
<1>5. CASE UNCHANGED vars
  BY <1>0, <1>1, <1>5 DEF vars
<1>6. CASE \E k \in Key : reap(k)
  BY <1>0, <1>1, <1>6 DEF reap
<1>7. CASE \E b \in Builder : lockFor(b) \/ copyExecutable(b) \/ \E k \in Key : begin(b, k)
  BY <1>0, <1>1, <1>7 DEF lockFor, copyExecutable, begin
<1>8. CASE CleanupCache
  BY <1>0, <1>1, <1>8 DEF CleanupCache
<1> QED BY <1>2, <1>3, <1>4, <1>5, <1>6, <1>7, <1>8 DEF Next

\* The inductive invariant holds of every state of the cache.
THEOREM Invariance == Spec => []Inv
<1>1. Init => Inv
  BY DEF Init, Inv, KeyLocks, building, PC, OneBuilderPerKey, NoOrphanFile
<1>2. Inv /\ [Next]_vars => Inv'
  BY LockStep, BuilderStep, FileStep DEF Inv
<1> QED BY <1>1, <1>2, PTL DEF Spec

\* Builds of one program are serialized by its key lock, and a recorded binary is
\* never linked over (buildcache.go:108-125).
THEOREM Serialized == Spec => []OneBuilderPerKey
BY Invariance, PTL DEF Inv

\* Whatever is evicted, vanishes or fails to link, a canonical file on disk is
\* recorded or about to be.
THEOREM Accounted == Spec => []NoOrphanFile
BY Invariance, PTL DEF Inv

\* The second layer, inductive given Inv.
Accounts == limit \in Nat /\ BytesExact /\ CapHolds

\* The total and the use order are right in every state, and the cap holds but for the
\* fresh binary and the files on which os.Remove failed, whichever those are.
THEOREM Accounting == Spec => []Accounts
<1>1. Init => Accounts
  <2>1. ASSUME Init PROVE sizeOf(entries) = 0 /\ Cardinality((entries \cap files) \ stuck) = 0
    BY <2>1, FS_EmptySet DEF Init, sizeOf, bytesOf
  <2> QED BY <2>1, SizeAssumption DEF Init, Accounts, BytesExact, CapHolds
<1>2. Inv /\ Accounts /\ [Next]_vars => Accounts'
  <2>1. ASSUME Inv, Accounts, [Next]_vars PROVE limit' = limit
    BY <2>1 DEF Next, vars, begin, lockFor, hit, link, store, copyExecutable, reap, CleanupCache
  <2> QED BY <2>1, BytesStep, CapStep DEF Accounts
<1> QED BY <1>1, <1>2, Invariance, PTL DEF Spec

\* c.bytes is the size of what is recorded, whatever is stored, evicted, lost or
\* rebuilt, and the use ticks order the records (buildcache.go:130-190).
THEOREM TotalExact == Spec => []BytesExact
BY Accounting, PTL DEF Accounts

\* Whichever removals fail, the recorded total is above the cap only with a single
\* binary on disk besides those the last eviction could not remove
\* (buildcache.go:163-190).
THEOREM CapRespected == Spec => []CapHolds
BY Accounting, PTL DEF Accounts
=============================================================================
