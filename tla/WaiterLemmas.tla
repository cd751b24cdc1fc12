---------------------------- MODULE WaiterLemmas ----------------------------
(***************************************************************************)
(* What the waiter lists of the threading and queue modules do under       *)
(* append, removal in the middle and removal at the front: facts about     *)
(* sequences without repetition, cited by the proofs of the components.    *)
(***************************************************************************)
EXTENDS WaiterLists, FiniteSetTheorems, TLAPS

\* The elements of a sequence lie in its carrier, and an element has an index.
LEMMA RangeFacts ==
  ASSUME NEW S, NEW s \in Seq(S)
  PROVE  /\ Range(s) \subseteq S
         /\ \A x : x \in Range(s) <=> \E i \in 1..Len(s) : s[i] = x
         /\ Range(s) = {} <=> s = <<>>
<1>1. DOMAIN s = 1..Len(s) /\ Len(s) \in Nat /\ \A i \in 1..Len(s) : s[i] \in S
  OBVIOUS
<1>2. \A x : x \in Range(s) <=> \E i \in 1..Len(s) : s[i] = x
  BY <1>1 DEF Range
<1>3. 1..Len(s) = {} <=> s = <<>>
  BY <1>1
<1> QED BY <1>1, <1>2, <1>3

\* The list nobody waits in.
LEMMA EmptyFacts ==
  ASSUME NEW S
  PROVE  <<>> \in Seq(S) /\ IsInjective(<<>>) /\ Range(<<>>) = {}
BY DEF IsInjective, Range

\* The list of one.
LEMMA SingleFacts ==
  ASSUME NEW S, NEW x \in S
  PROVE  <<x>> \in Seq(S) /\ IsInjective(<<x>>) /\ Range(<<x>>) = {x}
<1>1. DOMAIN <<x>> = {1} /\ <<x>>[1] = x
  OBVIOUS
<1>2. <<x>> \in Seq(S)
  OBVIOUS
<1>3. IsInjective(<<x>>)
  BY <1>1 DEF IsInjective
<1>4. Range(<<x>>) = {x}
  BY <1>1 DEF Range
<1> QED BY <1>2, <1>3, <1>4

\* Parking at the tail adds the thread, once.
LEMMA AppendFacts ==
  ASSUME NEW S, NEW s \in Seq(S), NEW x \in S
  PROVE  /\ Append(s, x) \in Seq(S)
         /\ Append(s, x) # <<>>
         /\ Range(Append(s, x)) = Range(s) \cup {x}
         /\ IsInjective(s) /\ x \notin Range(s) => IsInjective(Append(s, x))
<1>1. /\ Append(s, x) \in Seq(S)
      /\ Append(s, x) # <<>>
      /\ Len(Append(s, x)) = Len(s) + 1
      /\ \A i \in 1..Len(s) : Append(s, x)[i] = s[i]
      /\ Append(s, x)[Len(s) + 1] = x
  OBVIOUS
<1>2. Range(Append(s, x)) = Range(s) \cup {x}
  <2>1. DOMAIN s = 1..Len(s) /\ DOMAIN Append(s, x) = 1..(Len(s) + 1)
    BY <1>1
  <2>2. ASSUME NEW y \in Range(Append(s, x)) PROVE y \in Range(s) \cup {x}
    BY <1>1, <2>1 DEF Range
  <2>3. ASSUME NEW y \in Range(s) PROVE y \in Range(Append(s, x))
    BY <1>1, <2>1 DEF Range
  <2>4. x \in Range(Append(s, x))
    BY <1>1, <2>1 DEF Range
  <2> QED BY <2>2, <2>3, <2>4
<1>3. IsInjective(s) /\ x \notin Range(s) => IsInjective(Append(s, x))
  BY <1>1 DEF IsInjective, Range
<1> QED BY <1>1, <1>2, <1>3

\* Removal in the middle, entry by entry.
LEMMA RemoveAtEntries ==
  ASSUME NEW S, NEW s \in Seq(S), NEW i \in 1..Len(s)
  PROVE  /\ removeAt(s, i) \in Seq(S)
         /\ Len(removeAt(s, i)) = Len(s) - 1
         /\ \A j \in 1..(Len(s) - 1) :
              removeAt(s, i)[j] = IF j < i THEN s[j] ELSE s[j + 1]
<1> DEFINE a == SubSeq(s, 1, i - 1)
           b == SubSeq(s, i + 1, Len(s))
<1>1. a \in Seq(S) /\ Len(a) = i - 1 /\ \A j \in 1..(i - 1) : a[j] = s[j]
  OBVIOUS
<1>2. b \in Seq(S) /\ Len(b) = Len(s) - i /\ \A j \in 1..(Len(s) - i) : b[j] = s[j + i]
  OBVIOUS
<1>3. removeAt(s, i) = a \o b
  BY DEF removeAt
<1> HIDE DEF a, b
<1>4. /\ a \o b \in Seq(S)
      /\ Len(a \o b) = Len(a) + Len(b)
      /\ \A j \in 1..(Len(a) + Len(b)) :
           (a \o b)[j] = IF j <= Len(a) THEN a[j] ELSE b[j - Len(a)]
  <2>1. Len(a) \in Nat /\ Len(b) \in Nat /\ a \in Seq(S) /\ b \in Seq(S)
    BY <1>1, <1>2
  <2>2. a \o b \in Seq(S) /\ Len(a \o b) = Len(a) + Len(b)
    BY <2>1
  <2>3. \A j \in 1..(Len(a) + Len(b)) :
          (a \o b)[j] = IF j <= Len(a) THEN a[j] ELSE b[j - Len(a)]
    BY <2>1
  <2> QED BY <2>2, <2>3
<1>5. Len(s) \in Nat /\ i \in Nat /\ Len(a) + Len(b) = Len(s) - 1
  BY <1>1, <1>2
<1>6. ASSUME NEW j \in 1..(Len(s) - 1)
      PROVE  (a \o b)[j] = IF j < i THEN s[j] ELSE s[j + 1]
  <2>1. CASE j < i
    BY <2>1, <1>1, <1>4, <1>5
  <2>2. CASE ~(j < i)
    <3>1. j - (i - 1) \in 1..(Len(s) - i) /\ (j - (i - 1)) + i = j + 1
      BY <2>2, <1>5
    <3>2. (a \o b)[j] = b[j - (i - 1)]
      BY <2>2, <1>1, <1>4, <1>5
    <3>3. b[j - (i - 1)] = s[j + 1]
      BY <3>1, <1>2
    <3> QED BY <2>2, <3>2, <3>3
  <2> QED BY <2>1, <2>2
<1> QED BY <1>3, <1>4, <1>5, <1>6

\* A reclaimed waiter leaves the list and nobody else does.
LEMMA RemoveAtFacts ==
  ASSUME NEW S, NEW s \in Seq(S), NEW i \in 1..Len(s), IsInjective(s)
  PROVE  /\ removeAt(s, i) \in Seq(S)
         /\ Range(removeAt(s, i)) = Range(s) \ {s[i]}
         /\ IsInjective(removeAt(s, i))
         /\ removeAt(s, i) # <<>> => s # <<>>
<1> DEFINE r == removeAt(s, i)
<1>1. /\ r \in Seq(S)
      /\ Len(r) = Len(s) - 1
      /\ \A j \in 1..(Len(s) - 1) : r[j] = IF j < i THEN s[j] ELSE s[j + 1]
  BY RemoveAtEntries
<1>2. DOMAIN s = 1..Len(s) /\ DOMAIN r = 1..(Len(s) - 1)
  BY <1>1
<1> HIDE DEF r
<1>3. \A a, b \in 1..Len(s) : s[a] = s[b] => a = b
  BY <1>2 DEF IsInjective
<1>4. ASSUME NEW y PROVE y \in Range(r) <=> y \in Range(s) \ {s[i]}
  <2>1. ASSUME y \in Range(r) PROVE y \in Range(s) \ {s[i]}
    BY <2>1, <1>1, <1>2, <1>3 DEF Range
  <2>2. ASSUME y \in Range(s) \ {s[i]} PROVE y \in Range(r)
    <3>1. PICK k \in 1..Len(s) : s[k] = y /\ k # i
      BY <2>2, <1>2 DEF Range
    <3>2. CASE k < i
      BY <3>1, <3>2, <1>1, <1>2 DEF Range
    <3>3. CASE k > i
      <4>1. k - 1 \in 1..(Len(s) - 1) /\ r[k - 1] = s[k]
        BY <3>1, <3>3, <1>1
      <4> QED BY <4>1, <3>1, <1>2 DEF Range
    <3> QED BY <3>1, <3>2, <3>3
  <2> QED BY <2>1, <2>2
<1>5. IsInjective(r)
  BY <1>1, <1>2, <1>3 DEF IsInjective
<1> QED BY <1>1, <1>4, <1>5 DEF r

\* Popping the first k waiters: who is popped, who stays, and how many.
LEMMA PopFacts ==
  ASSUME NEW S, NEW s \in Seq(S), NEW k \in 0..Len(s), IsInjective(s)
  PROVE  /\ SubSeq(s, k + 1, Len(s)) \in Seq(S)
         /\ Range(SubSeq(s, k + 1, Len(s))) = Range(s) \ {s[i] : i \in 1..k}
         /\ \A x : x \in Range(SubSeq(s, k + 1, Len(s)))
                   <=> x \in Range(s) /\ \A i \in 1..k : s[i] # x
         /\ IsInjective(SubSeq(s, k + 1, Len(s)))
         /\ {s[i] : i \in 1..k} \subseteq Range(s)
         /\ IsFiniteSet({s[i] : i \in 1..k})
         /\ Cardinality({s[i] : i \in 1..k}) = k
         /\ k < Len(s) <=> SubSeq(s, k + 1, Len(s)) # <<>>
<1> DEFINE r == SubSeq(s, k + 1, Len(s))
           P == {s[i] : i \in 1..k}
<1>1. /\ r \in Seq(S)
      /\ Len(r) = Len(s) - k
      /\ \A j \in 1..(Len(s) - k) : r[j] = s[j + k]
  OBVIOUS
<1>2. DOMAIN s = 1..Len(s) /\ DOMAIN r = 1..(Len(s) - k)
  BY <1>1
<1> HIDE DEF r
<1>3. \A a, b \in 1..Len(s) : s[a] = s[b] => a = b
  BY <1>2 DEF IsInjective
<1>4. Range(r) = Range(s) \ P
  <2>1. ASSUME NEW y \in Range(r) PROVE y \in Range(s) \ P
    BY <1>1, <1>2, <1>3 DEF Range
  <2>2. ASSUME NEW y \in Range(s) \ P PROVE y \in Range(r)
    <3>1. PICK j \in 1..Len(s) : s[j] = y /\ j > k
      BY <1>2 DEF Range
    <3>2. j - k \in 1..(Len(s) - k) /\ r[j - k] = y
      BY <3>1, <1>1
    <3> QED BY <3>2, <1>2 DEF Range
  <2> QED BY <2>1, <2>2
<1>5. IsInjective(r)
  BY <1>1, <1>2, <1>3 DEF IsInjective
<1>6. P \subseteq Range(s)
  BY <1>2 DEF Range
<1>7. IsFiniteSet(P) /\ Cardinality(P) = k
  <2> DEFINE f == [i \in 1..k |-> s[i]]
  <2>1. f \in Bijection(1..k, P)
    BY <1>3 DEF Bijection, Injection, Surjection, IsInjective
  <2>2. IsFiniteSet(1..k) /\ Cardinality(1..k) = k
    BY FS_Interval
  <2>3. ExistsBijection(1..k, P)
    BY <2>1 DEF ExistsBijection
  <2> HIDE DEF P
  <2> QED BY <2>2, <2>3, FS_Bijection
<1>8. k < Len(s) <=> r # <<>>
  BY <1>1
<1>9. \A x : x \in Range(r) <=> x \in Range(s) /\ \A i \in 1..k : s[i] # x
  BY <1>4
<1> QED BY <1>1, <1>4, <1>5, <1>6, <1>7, <1>8, <1>9 DEF r

\* Taking the head off a queue without repetition.
LEMMA TailFacts ==
  ASSUME NEW S, NEW s \in Seq(S), s # <<>>, IsInjective(s)
  PROVE  /\ Head(s) \in S /\ Head(s) \in Range(s)
         /\ Tail(s) \in Seq(S)
         /\ Range(Tail(s)) = Range(s) \ {Head(s)}
         /\ IsInjective(Tail(s))
<1>1. /\ Len(s) \in Nat \ {0} /\ Head(s) = s[1] /\ Head(s) \in S
      /\ Tail(s) \in Seq(S) /\ Len(Tail(s)) = Len(s) - 1
      /\ \A i \in 1..(Len(s) - 1) : Tail(s)[i] = s[i + 1]
  OBVIOUS
<1>2. DOMAIN s = 1..Len(s) /\ DOMAIN Tail(s) = 1..(Len(s) - 1)
  BY <1>1
<1>3. \A a, b \in 1..Len(s) : s[a] = s[b] => a = b
  BY <1>2 DEF IsInjective
<1>4. Head(s) \in Range(s)
  BY <1>1, <1>2 DEF Range
<1>5. Range(Tail(s)) = Range(s) \ {Head(s)}
  <2>1. ASSUME NEW y \in Range(Tail(s)) PROVE y \in Range(s) \ {Head(s)}
    <3>1. PICK j \in 1..(Len(s) - 1) : Tail(s)[j] = y
      BY <1>2 DEF Range
    <3>2. y = s[j + 1] /\ j + 1 \in 1..Len(s) /\ 1 \in 1..Len(s) /\ j + 1 # 1
      BY <1>1, <3>1
    <3> QED BY <1>1, <1>2, <1>3, <3>2 DEF Range
  <2>2. ASSUME NEW y \in Range(s) \ {Head(s)} PROVE y \in Range(Tail(s))
    <3>1. PICK j \in 1..Len(s) : s[j] = y /\ j # 1
      BY <1>1, <1>2 DEF Range
    <3>2. j - 1 \in 1..(Len(s) - 1) /\ Tail(s)[j - 1] = y
      BY <1>1, <3>1
    <3> QED BY <3>2, <1>2 DEF Range
  <2> QED BY <2>1, <2>2
<1>6. IsInjective(Tail(s))
  BY <1>1, <1>2, <1>3 DEF IsInjective
<1> QED BY <1>1, <1>4, <1>5, <1>6

\* The smaller of two counts.
LEMMA MinPair ==
  ASSUME NEW m \in Nat, NEW n \in Nat
  PROVE  Min({m, n}) = IF m <= n THEN m ELSE n
<1> DEFINE x == IF m <= n THEN m ELSE n
<1>1. x \in {m, n} /\ \A y \in {m, n} : x <= y
  OBVIOUS
<1>2. \A z \in {m, n} : (\A y \in {m, n} : z <= y) => z = x
  OBVIOUS
<1> QED BY <1>1, <1>2 DEF Min

\* A set of threads that loses at most one of them, or gains at least one.
LEMMA CountFacts ==
  ASSUME NEW T, IsFiniteSet(T), NEW F \in SUBSET T, NEW G \in SUBSET T
  PROVE  /\ Cardinality(F) \in Nat /\ Cardinality(G) \in Nat
         /\ F \subseteq G => Cardinality(F) <= Cardinality(G)
         /\ \A x : F \ {x} \subseteq G => Cardinality(F) - 1 <= Cardinality(G)
         /\ \A x : F \cup {x} \subseteq G /\ x \notin F => Cardinality(F) + 1 <= Cardinality(G)
<1>1. IsFiniteSet(F) /\ IsFiniteSet(G)
  BY FS_Subset
<1>2. Cardinality(F) \in Nat /\ Cardinality(G) \in Nat
  BY <1>1, FS_CardinalityType
<1>3. F \subseteq G => Cardinality(F) <= Cardinality(G)
  BY <1>1, FS_Subset
<1>4. ASSUME NEW x, F \ {x} \subseteq G PROVE Cardinality(F) - 1 <= Cardinality(G)
  <2>1. Cardinality(F \ {x}) = IF x \in F THEN Cardinality(F) - 1 ELSE Cardinality(F)
    BY <1>1, FS_RemoveElement
  <2>2. Cardinality(F \ {x}) <= Cardinality(G)
    BY <1>1, <1>4, FS_Subset
  <2> QED BY <1>2, <2>1, <2>2
<1>5. ASSUME NEW x, F \cup {x} \subseteq G, x \notin F
      PROVE  Cardinality(F) + 1 <= Cardinality(G)
  <2>1. Cardinality(F \cup {x}) = Cardinality(F) + 1
    BY <1>1, <1>5, FS_AddElement
  <2>2. Cardinality(F \cup {x}) <= Cardinality(G)
    BY <1>1, <1>5, FS_Subset
  <2> QED BY <2>1, <2>2
<1> QED BY <1>2, <1>3, <1>4, <1>5

\* The first of a set of places.
LEMMA MinFacts ==
  ASSUME NEW T \in SUBSET Nat, T # {}
  PROVE  Min(T) \in T /\ \A y \in T : Min(T) <= y
<1> DEFINE V == {0..x : x \in T}
<1>1. V \subseteq FiniteSubsetsOf(Nat)
  <2>1. ASSUME NEW x \in T PROVE IsFiniteSet(0..x) /\ 0..x \in SUBSET Nat
    <3>1. IsFiniteSet(0..x)
      BY FS_Interval
    <3> QED BY <3>1
  <2> QED BY <2>1 DEF FiniteSubsetsOf
<1>2. V # {}
  OBVIOUS
<1>3. PICK B \in V : \A C \in V : <<C, B>> \notin StrictSubsetOrdering(Nat)
  <2>1. IsWellFoundedOn(StrictSubsetOrdering(Nat), FiniteSubsetsOf(Nat))
    BY FS_StrictSubsetOrderingWellFounded
  <2> HIDE DEF V
  <2> QED BY <1>1, <1>2, <2>1, WFMin
<1>4. PICK m \in T : B = 0..m
  OBVIOUS
<1>5. ASSUME NEW y \in T PROVE m <= y
  <2>1. SUFFICES ASSUME y < m PROVE FALSE
    OBVIOUS
  <2>2. 0..y \in V /\ 0..y \subseteq B /\ m \in B /\ m \notin 0..y
    BY <1>4, <2>1
  <2>3. 0..y \in FiniteSubsetsOf(Nat) /\ B \in FiniteSubsetsOf(Nat)
    BY <1>1, <2>2
  <2> HIDE DEF V
  <2> QED BY <1>3, <2>2, <2>3 DEF StrictSubsetOrdering, FiniteSubsetsOf
<1>6. \A z \in T : (\A y \in T : z <= y) => z = m
  BY <1>5
<1> QED BY <1>5, <1>6 DEF Min

\* A waiter that leaves a list by name: it alone goes, from its place.
LEMMA RemoveFirstFacts ==
  ASSUME NEW S, NEW s \in Seq(S), NEW x, IsInjective(s)
  PROVE  /\ removeFirst(s, x) \in Seq(S)
         /\ Range(removeFirst(s, x)) = Range(s) \ {x}
         /\ IsInjective(removeFirst(s, x))
         /\ x \in Range(s) => \E k \in 1..Len(s) : s[k] = x /\ removeFirst(s, x) = removeAt(s, k)
         /\ x \notin Range(s) => removeFirst(s, x) = s
<1> DEFINE P == {i \in 1..Len(s) : s[i] = x}
<1>1. removeFirst(s, x) = IF P # {} THEN removeAt(s, Min(P)) ELSE s
  <2>1. P = {i \in DOMAIN s : s[i] = x}
    OBVIOUS
  <2> QED BY <2>1, Zenon DEF removeFirst
<1>2. x \in Range(s) <=> P # {}
  BY DEF Range
<1>3. CASE P = {}
  BY <1>1, <1>2, <1>3
<1>4. CASE P # {}
  <2>1. Min(P) \in P
    BY <1>4, MinFacts
  <2>2. removeFirst(s, x) = removeAt(s, Min(P)) /\ Min(P) \in 1..Len(s) /\ s[Min(P)] = x
    BY <1>1, <1>4, <2>1
  <2> HIDE DEF P
  <2> QED BY <2>2, <1>2, <1>4, RemoveAtFacts
<1> QED BY <1>3, <1>4

\* One list after another.
LEMMA ConcatFacts ==
  ASSUME NEW S, NEW s \in Seq(S), NEW r \in Seq(S)
  PROVE  /\ s \o r \in Seq(S)
         /\ Range(s \o r) = Range(s) \cup Range(r)
         /\ IsInjective(s) /\ IsInjective(r) /\ Range(s) \cap Range(r) = {} => IsInjective(s \o r)
<1> DEFINE c == s \o r
<1>1. /\ c \in Seq(S)
      /\ Len(c) = Len(s) + Len(r)
      /\ \A i \in 1..(Len(s) + Len(r)) : c[i] = IF i <= Len(s) THEN s[i] ELSE r[i - Len(s)]
  OBVIOUS
<1> HIDE DEF c
<1>2. /\ Len(s) \in Nat /\ Len(r) \in Nat
      /\ DOMAIN s = 1..Len(s) /\ DOMAIN r = 1..Len(r) /\ DOMAIN c = 1..(Len(s) + Len(r))
  BY <1>1
<1>3. \A i \in 1..Len(s) : i \in DOMAIN c /\ c[i] = s[i]
  BY <1>1, <1>2
<1>4. \A i \in 1..Len(r) : i + Len(s) \in DOMAIN c /\ c[i + Len(s)] = r[i]
  BY <1>1, <1>2
<1>5. \A i \in DOMAIN c : (i \in 1..Len(s) /\ c[i] = s[i])
                          \/ (i > Len(s) /\ i - Len(s) \in 1..Len(r) /\ c[i] = r[i - Len(s)])
  BY <1>1, <1>2
<1>6. Range(c) = Range(s) \cup Range(r)
  <2>1. ASSUME NEW y \in Range(c) PROVE y \in Range(s) \cup Range(r)
    BY <1>2, <1>5 DEF Range
  <2>2. ASSUME NEW y \in Range(s) PROVE y \in Range(c)
    BY <1>2, <1>3 DEF Range
  <2>3. ASSUME NEW y \in Range(r) PROVE y \in Range(c)
    BY <1>2, <1>4 DEF Range
  <2> QED BY <2>1, <2>2, <2>3
<1>7. ASSUME IsInjective(s), IsInjective(r), Range(s) \cap Range(r) = {}
      PROVE  IsInjective(c)
  <2>1. ASSUME NEW i \in DOMAIN c, NEW j \in DOMAIN c, c[i] = c[j] PROVE i = j
    <3>1. CASE i \in 1..Len(s) /\ j \in 1..Len(s)
      BY <1>7, <1>2, <1>3, <2>1, <3>1 DEF IsInjective
    <3>2. CASE i > Len(s) /\ j > Len(s)
      <4>1. i - Len(s) \in DOMAIN r /\ j - Len(s) \in DOMAIN r /\ r[i - Len(s)] = r[j - Len(s)]
        BY <1>2, <1>5, <2>1, <3>2
      <4>2. i - Len(s) = j - Len(s)
        BY <1>7, <4>1 DEF IsInjective
      <4> QED BY <4>2, <1>2
    <3>3. CASE i \in 1..Len(s) /\ j > Len(s)
      <4>1. c[i] \in Range(s) /\ c[j] \in Range(r)
        BY <1>2, <1>5, <3>3 DEF Range
      <4> QED BY <4>1, <1>7, <2>1
    <3>4. CASE i > Len(s) /\ j \in 1..Len(s)
      <4>1. c[j] \in Range(s) /\ c[i] \in Range(r)
        BY <1>2, <1>5, <3>4 DEF Range
      <4> QED BY <4>1, <1>7, <2>1
    <3> QED BY <1>5, <3>1, <3>2, <3>3, <3>4
  <2> QED BY <2>1 DEF IsInjective
<1> QED BY <1>1, <1>6, <1>7 DEF c

\* A listing of a finite set names each of its members once.
LEMMA OrdersFacts ==
  ASSUME NEW S, IsFiniteSet(S), NEW f \in orders(S)
  PROVE  f \in Seq(S) /\ IsInjective(f) /\ Range(f) = S
<1>1. Cardinality(S) \in Nat
  BY FS_CardinalityType
<1> DEFINE n == Cardinality(S)
<1>2. f \in [1..n -> S] /\ IsInjective(f) /\ \A x \in S : \E i \in 1..n : f[i] = x
  BY DEF orders, Bijection, Injection, Surjection
<1>3. f \in Seq(S)
  BY <1>1, <1>2
<1>4. Range(f) = S
  BY <1>2 DEF Range
<1> QED BY <1>2, <1>3, <1>4
=============================================================================
