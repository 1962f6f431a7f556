------------------------ MODULE ProtonSessionProofs ------------------------
(***************************************************************************)
(* What holds of Proton's sessions for every set of threads, profilers,    *)
(* paths and addresses, and whatever the bounds: the life cycle of the     *)
(* sessions and what they are registered with agree, and what the manager  *)
(* keeps for the scopes and ops of the program is where the program is.    *)
(***************************************************************************)
EXTENDS ProtonSession, FiniteSetTheorems, SequenceTheorems, WellFoundedInduction, TLAPS

-----------------------------------------------------------------------------
(* Enumerations of sets of numbers                                         *)

Increasing(q, c) == \A m, n \in 1 .. c : m < n => q[m] < q[n]

\* A set of naturals that is not empty has a least element.
LEMMA LeastNatural ==
    ASSUME NEW S \in SUBSET Nat, S # {}
    PROVE  \E x \in S : \A y \in S : x =< y
  <1>1. PICK x \in S : \A y \in S : ~ (<<y, x>> \in OpToRel(<, Nat))
    BY WFMin, NatLessThanWellFounded
  <1>2. \A y \in S : ~ (y < x)
    BY <1>1 DEF OpToRel
  <1> QED
    BY <1>2

\* The numbers below a bound in a set can be enumerated in ascending order:
\* the least bound for which they could not would have a predecessor.
LEMMA AscendingExists ==
    ASSUME NEW b \in Nat, NEW S \in SUBSET (0 .. b)
    PROVE  \E q \in [1 .. Cardinality(S) -> S] : Increasing(q, Cardinality(S))
  <1> DEFINE Good(n) == \A T \in SUBSET (0 .. n) :
                           \E q \in [1 .. Cardinality(T) -> T] : Increasing(q, Cardinality(T))
             Bad == {n \in Nat : ~Good(n)}
  <1>0. Bad \in SUBSET Nat /\ \A n \in Nat : n \in Bad <=> ~Good(n)
    OBVIOUS
  <1> HIDE DEF Bad
  <1>1. ASSUME NEW n \in Bad, \A m \in Bad : n <= m PROVE FALSE
    <2>1. PICK T \in SUBSET (0 .. n) :
             ~ \E q \in [1 .. Cardinality(T) -> T] : Increasing(q, Cardinality(T))
      BY <1>0, <1>1
    <2>2. n \in Nat /\ IsFiniteSet(T) /\ Cardinality(T) \in Nat
      <3>1. n \in Nat
        BY <1>0, <1>1
      <3>2. IsFiniteSet(0 .. n)
        BY <3>1, FS_Interval
      <3>3. IsFiniteSet(T)
        BY <3>2, FS_Subset
      <3> QED
        BY <3>1, <3>3, FS_CardinalityType
    <2> DEFINE U == T \ {n}
               d == Cardinality(U)
    <2>3. /\ d \in Nat
          /\ n \in T => Cardinality(T) = d + 1
          /\ n \notin T => Cardinality(T) = d
      <3>1. /\ IsFiniteSet(U)
            /\ d = IF n \in T THEN Cardinality(T) - 1 ELSE Cardinality(T)
        BY <2>2, FS_RemoveElement
      <3>2. d \in Nat
        BY <3>1, FS_CardinalityType
      <3> HIDE DEF d
      <3> QED
        BY <3>1, <3>2, <2>2
    <2>4. \E q \in [1 .. d -> U] : Increasing(q, d)
      <3>1. CASE n = 0
        <4>0. U = {}
          BY <3>1
        <4>1. U = {} /\ d = 0
          BY <4>0, FS_EmptySet
        <4>2. [k \in 1 .. d |-> k] \in [1 .. d -> U]
          BY <4>1
        <4> QED
          BY <4>1, <4>2 DEF Increasing
      <3>2. CASE n # 0
        <4>1. n - 1 \in Nat /\ ~ (n <= n - 1)
          BY <2>2, <3>2
        <4>2. Good(n - 1)
          BY <4>1, <1>0, <1>1
        <4>3. U \in SUBSET (0 .. (n - 1))
          BY <2>2
        <4> QED
          BY <4>2, <4>3
      <3> QED
        BY <3>1, <3>2
    <2>5. PICK q \in [1 .. d -> U] : Increasing(q, d)
      BY <2>4
    <2> HIDE DEF d
    <2>6. CASE n \notin T
      <3>1. U = T
        BY <2>6
      <3> QED
        BY <3>1, <2>6, <2>5, <2>3, <2>1
    <2>7. CASE n \in T
      <3> DEFINE r == [k \in 1 .. d + 1 |-> IF k <= d THEN q[k] ELSE n]
      <3>1. r \in [1 .. d + 1 -> T]
        <4>1. ASSUME NEW k \in 1 .. d + 1 PROVE (IF k <= d THEN q[k] ELSE n) \in T
          BY <2>3, <2>7, <2>5
        <4> QED
          BY <4>1
      <3>2. ASSUME NEW k \in 1 .. d + 1, NEW l \in 1 .. d + 1, k < l PROVE r[k] < r[l]
        <4>1. k \in 1 .. d /\ r[k] = q[k] /\ q[k] \in U
          BY <3>2, <2>3, <2>5
        <4>2. q[k] < n
          <5>1. q[k] \in 0 .. n /\ q[k] # n
            BY <4>1
          <5> QED
            BY <5>1, <2>2
        <4>3. CASE l <= d
          BY <4>3, <4>1, <3>2, <2>3, <2>5 DEF Increasing
        <4>4. CASE l = d + 1
          BY <4>4, <4>1, <4>2, <2>3
        <4> QED
          BY <4>3, <4>4, <2>3
      <3> HIDE DEF r
      <3>3. Increasing(r, d + 1)
        BY <3>2 DEF Increasing
      <3> QED
        BY <3>1, <3>3, <2>3, <2>7, <2>1
    <2> QED
      BY <2>6, <2>7
  <1>2. Bad = {}
    BY <1>0, <1>1, LeastNatural
  <1>3. Good(b)
    BY <1>0, <1>2
  <1> QED
    BY <1>3

\* The ascending enumeration of such a set: in order, and onto the set.
LEMMA AscendingProperties ==
    ASSUME NEW b \in Nat, NEW S \in SUBSET (0 .. b)
    PROVE  /\ IsFiniteSet(S)
           /\ Cardinality(S) \in Nat
           /\ Ascending(S) \in [1 .. Cardinality(S) -> S]
           /\ Increasing(Ascending(S), Cardinality(S))
           /\ \A m, n \in 1 .. Cardinality(S) : Ascending(S)[m] = Ascending(S)[n] => m = n
           /\ \A s \in S : \E k \in 1 .. Cardinality(S) : Ascending(S)[k] = s
  <1> DEFINE c == Cardinality(S)
             q == Ascending(S)
  <1>1. IsFiniteSet(S) /\ c \in Nat
    <2>1. IsFiniteSet(0 .. b)
      BY FS_Interval
    <2>2. IsFiniteSet(S)
      BY <2>1, FS_Subset
    <2> QED
      BY <2>2, FS_CardinalityType
  <1>2. q \in [1 .. c -> S] /\ Increasing(q, c)
    <2>1. \E r \in [1 .. c -> S] : \A m, n \in 1 .. c : m < n => r[m] < r[n]
      BY AscendingExists DEF Increasing
    <2> QED
      BY <2>1 DEF Ascending, Increasing
  <1> HIDE DEF c, q
  <1>3. ASSUME NEW m \in 1 .. c, NEW n \in 1 .. c, q[m] = q[n] PROVE m = n
    <2>1. q[m] \in 0 .. b /\ q[n] \in 0 .. b
      BY <1>2
    <2>2. ~ (m < n) /\ ~ (n < m)
      BY <2>1, <1>2, <1>3 DEF Increasing
    <2> QED
      BY <2>2, <1>1
  <1>4. q \in Injection(1 .. c, S)
    BY <1>2, <1>3 DEF Injection, IsInjective
  <1>5. Cardinality(1 .. c) = c
    BY <1>1, FS_Interval
  <1>6. q \in Surjection(1 .. c, S)
    BY <1>1, <1>4, <1>5, FS_Injection DEF c
  <1>7. \A s \in S : \E k \in 1 .. c : q[k] = s
    BY <1>6 DEF Surjection
  <1> QED
    BY <1>1, <1>2, <1>3, <1>7 DEF c, q

\* All the places from the first to the last are their own enumeration.
LEMMA AscendingOfInterval ==
    ASSUME NEW n \in Nat
    PROVE  /\ Cardinality(1 .. n) = n
           /\ \A k \in 1 .. n : Ascending(1 .. n)[k] = k
  <1> DEFINE q == Ascending(1 .. n)
             Bad == {k \in 1 .. n : q[k] # k}
  <1>1. Cardinality(1 .. n) = n
    BY FS_Interval
  <1>2. /\ q \in [1 .. n -> 1 .. n]
        /\ Increasing(q, n)
        /\ \A s \in 1 .. n : \E k \in 1 .. n : q[k] = s
    BY <1>1, AscendingProperties, 1 .. n \in SUBSET (0 .. n)
  <1> HIDE DEF q
  <1>3. ASSUME NEW k \in Bad, \A l \in Bad : k <= l PROVE FALSE
    <2>1. \A l \in 1 .. n : l < k => q[l] = l
      BY <1>3
    <2>2. PICK l \in 1 .. n : q[l] = k
      BY <1>2
    <2>3. ~ (l < k) /\ l # k
      BY <2>1, <2>2
    <2>4. k < l /\ q[k] < k
      BY <2>3, <2>2, <1>2 DEF Increasing
    <2>5. q[k] \in 1 .. n /\ q[q[k]] = q[k]
      BY <2>4, <2>1, <1>2
    <2>6. q[q[k]] < q[k]
      BY <2>4, <2>5, <1>2 DEF Increasing
    <2> QED
      BY <2>5, <2>6
  <1>4. Bad = {}
    <2>1. Bad \in SUBSET Nat
      OBVIOUS
    <2> HIDE DEF Bad
    <2> QED
      BY <2>1, <1>3, LeastNatural
  <1> QED
    BY <1>1, <1>4 DEF q

-----------------------------------------------------------------------------
(* Sequences that name nothing twice                                       *)

\* A function on the numbers up to n is a sequence of that length.
LEMMA FunctionIsSeq ==
    ASSUME NEW S, NEW n \in Nat, NEW f \in [1 .. n -> S]
    PROVE  f \in Seq(S) /\ Len(f) = n /\ DOMAIN f = 1 .. n
  OBVIOUS

Distinct(s) == \A m, n \in DOMAIN s : s[m] = s[n] => m = n

\* A sequence without repetition is as long as the set of its elements.
LEMMA DistinctLength ==
    ASSUME NEW A, NEW s \in Seq(A), Distinct(s)
    PROVE  IsFiniteSet(Range(s)) /\ Cardinality(Range(s)) = Len(s)
  <1>1. Len(s) \in Nat /\ DOMAIN s = 1 .. Len(s) /\ s \in [1 .. Len(s) -> A]
    BY LenProperties
  <1>2. Range(s) = {s[k] : k \in 1 .. Len(s)}
    BY RangeEquality
  <1>3. s \in [1 .. Len(s) -> Range(s)]
    BY <1>1, <1>2
  <1>4. s \in Bijection(1 .. Len(s), Range(s))
    BY <1>1, <1>2, <1>3 DEF Bijection, Injection, IsInjective, Surjection, Distinct
  <1>5. IsFiniteSet(1 .. Len(s)) /\ Cardinality(1 .. Len(s)) = Len(s)
    BY <1>1, FS_Interval
  <1> QED
    BY <1>4, <1>5, FS_Bijection DEF ExistsBijection

\* Registering sessions that were not: the list gains exactly those.
LEMMA AppendedAscending ==
    ASSUME NEW A, NEW s \in Seq(A), Distinct(s), NEW b \in Nat, NEW B \in SUBSET (0 .. b),
           Range(s) \cap B = {}
    PROVE  /\ s \o Ascending(B) \in Seq(A \cup B)
           /\ Distinct(s \o Ascending(B))
           /\ Range(s \o Ascending(B)) = Range(s) \cup B
  <1> DEFINE q == Ascending(B)
             C == A \cup B
             c == Cardinality(B)
             w == s \o q
  <1>1. /\ c \in Nat /\ q \in [1 .. c -> B]
        /\ \A m, n \in 1 .. c : q[m] = q[n] => m = n
        /\ \A x \in B : \E k \in 1 .. c : q[k] = x
    BY AscendingProperties
  <1> HIDE DEF q, c
  <1>2. q \in Seq(B) /\ Len(q) = c /\ q \in Seq(C)
    BY <1>1
  <1>3. s \in Seq(C)
    BY SeqMonotonic
  <1>4. Range(q) = B
    <2>1. Range(q) = {q[k] : k \in 1 .. Len(q)}
      BY <1>2, RangeEquality
    <2>2. ASSUME NEW x \in Range(q) PROVE x \in B
      <3>1. PICK k \in 1 .. c : x = q[k]
        BY <2>1, <2>2, <1>2
      <3> QED
        BY <3>1, <1>1
    <2>3. ASSUME NEW x \in B PROVE x \in Range(q)
      BY <2>1, <2>3, <1>1, <1>2
    <2> QED
      BY <2>2, <2>3
  <1>5. Len(s) \in Nat /\ DOMAIN s = 1 .. Len(s)
    BY LenProperties
  <1>6. /\ w \in Seq(C)
        /\ Len(w) = Len(s) + c
        /\ \A k \in 1 .. Len(s) + c : w[k] = IF k <= Len(s) THEN s[k] ELSE q[k - Len(s)]
        /\ DOMAIN w = 1 .. Len(w)
    BY <1>2, <1>3, ConcatProperties, LenProperties
  <1>7. Range(w) = Range(s) \cup B
    BY <1>2, <1>3, <1>4, RangeConcatenation
  <1> HIDE DEF w
  <1>8. ASSUME NEW m \in DOMAIN w, NEW n \in DOMAIN w, w[m] = w[n] PROVE m = n
    <2>0. m \in 1 .. Len(s) + c /\ n \in 1 .. Len(s) + c
      BY <1>6
    <2>1. \A k \in 1 .. Len(s) : s[k] \in Range(s)
      BY RangeEquality
    <2>2. \A k \in 1 .. Len(s) + c : k > Len(s) => k - Len(s) \in 1 .. c /\ q[k - Len(s)] \in B
      BY <1>1, <1>5
    <2>3. CASE m <= Len(s) /\ n <= Len(s)
      <3>1. m \in DOMAIN s /\ n \in DOMAIN s /\ s[m] = s[n]
        BY <2>3, <2>0, <1>5, <1>6, <1>8
      <3> QED
        BY <3>1 DEF Distinct
    <2>4. CASE m > Len(s) /\ n > Len(s)
      <3>1. q[m - Len(s)] = q[n - Len(s)] /\ m - Len(s) \in 1 .. c /\ n - Len(s) \in 1 .. c
        BY <2>4, <2>0, <2>2, <1>5, <1>6, <1>8
      <3>2. m - Len(s) = n - Len(s)
        BY <3>1, <1>1
      <3> QED
        BY <3>2, <2>0, <1>5, <1>1
    <2>5. CASE m <= Len(s) /\ n > Len(s)
      BY <2>5, <2>0, <2>1, <2>2, <1>5, <1>6, <1>8
    <2>6. CASE m > Len(s) /\ n <= Len(s)
      BY <2>6, <2>0, <2>1, <2>2, <1>5, <1>6, <1>8
    <2> QED
      BY <2>0, <2>3, <2>4, <2>5, <2>6, <1>5, <1>1
  <1> QED
    BY <1>6, <1>7, <1>8 DEF Distinct, w, q

\* Unregistering sessions: the list loses exactly those, in any place.
LEMMA WithoutProperties ==
    ASSUME NEW A, NEW s \in Seq(A), Distinct(s), NEW G
    PROVE  /\ Without(s, G) \in Seq(A \ G)
           /\ Distinct(Without(s, G))
           /\ Range(Without(s, G)) = Range(s) \ G
  <1> DEFINE P == {k \in DOMAIN s : s[k] \notin G}
             q == Ascending(P)
             c == Cardinality(P)
             w == [k \in 1 .. c |-> s[q[k]]]
  <1>1. Len(s) \in Nat /\ DOMAIN s = 1 .. Len(s) /\ s \in [1 .. Len(s) -> A]
    BY LenProperties
  <1>2. P \in SUBSET (0 .. Len(s))
    BY <1>1
  <1>3. /\ c \in Nat /\ q \in [1 .. c -> P]
        /\ \A m, n \in 1 .. c : q[m] = q[n] => m = n
        /\ \A x \in P : \E k \in 1 .. c : q[k] = x
    BY <1>1, <1>2, AscendingProperties
  <1>4. Without(s, G) = w
    BY DEF Without, Selection
  <1> HIDE DEF q, c
  <1>5. \A k \in 1 .. c : q[k] \in DOMAIN s /\ s[q[k]] \in A \ G
    BY <1>1, <1>3
  <1>6. w \in [1 .. c -> A \ G]
    BY <1>5
  <1>7. w \in Seq(A \ G) /\ Len(w) = c /\ DOMAIN w = 1 .. c
    BY <1>6, <1>3
  <1>8. Distinct(w)
    BY <1>3, <1>5, <1>7 DEF Distinct
  <1>9. Range(w) = Range(s) \ G
    <2>1. Range(w) = {w[k] : k \in 1 .. c}
      BY <1>7, RangeEquality
    <2>2. Range(s) = {s[k] : k \in 1 .. Len(s)}
      BY RangeEquality
    <2>3. ASSUME NEW x \in Range(w) PROVE x \in Range(s) \ G
      BY <2>1, <2>2, <2>3, <1>5, <1>1
    <2>4. ASSUME NEW x \in Range(s) \ G PROVE x \in Range(w)
      <3>1. PICK j \in 1 .. Len(s) : x = s[j]
        BY <2>2, <2>4
      <3>2. j \in P
        BY <3>1, <2>4, <1>1
      <3>3. PICK k \in 1 .. c : q[k] = j
        BY <3>2, <1>3
      <3> QED
        BY <3>1, <3>3, <2>1
    <2> QED
      BY <2>3, <2>4
  <1> QED
    BY <1>4, <1>7, <1>8, <1>9

-----------------------------------------------------------------------------
(* The blocks a thread is in, and the end of a stack                       *)

Block == [name : Names, sent : BOOLEAN]
NamesOf(blocks) == [k \in 1 .. Len(blocks) |-> blocks[k].name]

\* The sequence ends with the names of the first d blocks.
EndsWith(seq, blocks, d) ==
    /\ d <= Len(seq)
    /\ \A k \in 1 .. d : seq[Len(seq) - d + k] = blocks[k].name

\* What was entered with profiling on throughout is announced block by block.
LEMMA AnnouncedSent ==
    ASSUME NEW blocks \in Seq(Block), \A k \in 1 .. Len(blocks) : blocks[k].sent
    PROVE  Announced(blocks) = NamesOf(blocks)
  <1> DEFINE n == Len(blocks)
  <1>1. n \in Nat /\ DOMAIN blocks = 1 .. n
    BY LenProperties
  <1>2. {k \in DOMAIN blocks : blocks[k].sent} = 1 .. n
    BY <1>1
  <1>3. Cardinality(1 .. n) = n /\ \A k \in 1 .. n : Ascending(1 .. n)[k] = k
    BY <1>1, AscendingOfInterval
  <1> HIDE DEF n
  <1>4. Selection(blocks, 1 .. n) = [k \in 1 .. n |-> blocks[k]]
    BY <1>3 DEF Selection
  <1>5. Announced(blocks) = [k \in 1 .. n |-> blocks[k].name]
    BY <1>2, <1>4 DEF Announced
  <1> QED
    BY <1>5 DEF NamesOf, n

\* What was entered with profiling off throughout is not announced.
LEMMA AnnouncedSilent ==
    ASSUME NEW blocks \in Seq(Block), \A k \in 1 .. Len(blocks) : ~blocks[k].sent
    PROVE  Announced(blocks) = <<>>
  <1>1. DOMAIN blocks = 1 .. Len(blocks)
    BY LenProperties
  <1>2. {k \in DOMAIN blocks : blocks[k].sent} = {}
    BY <1>1
  <1>3. Cardinality({}) = 0
    BY FS_EmptySet
  <1>4. Announced(blocks) = [k \in DOMAIN Selection(blocks, {}) |-> Selection(blocks, {})[k].name]
    BY <1>2 DEF Announced
  <1>5. DOMAIN Selection(blocks, {}) = {}
    BY <1>3 DEF Selection
  <1> QED
    BY <1>4, <1>5

\* A sequence that agrees with the end of another is a suffix of it.
LEMMA SuffixAtEnd ==
    ASSUME NEW S, NEW s \in Seq(S), NEW t \in Seq(S), Len(s) <= Len(t),
           \A k \in 1 .. Len(s) : t[Len(t) - Len(s) + k] = s[k]
    PROVE  IsSuffix(s, t)
  <1> DEFINE rs == Reverse(s)
             rt == Reverse(t)
             l == Len(s)
             u == SubSeq(rs, 1, l)
             v == SubSeq(rt, 1, l)
  <1>1. l \in Nat /\ Len(t) \in Nat
    BY LenProperties
  <1>2. /\ \A k \in 1 .. l : s[k] \in S
        /\ \A k \in 1 .. Len(t) : t[k] \in S
    BY ElementOfSeq
  <1>3. rs \in [1 .. l -> S] /\ rt \in [1 .. Len(t) -> S]
    BY <1>1, <1>2 DEF Reverse
  <1>4. \A k \in 1 .. l : rs[k] = s[l - k + 1] /\ rt[k] = t[Len(t) - k + 1]
    BY <1>1 DEF Reverse
  <1> HIDE DEF rs, rt
  <1>5. Len(rs) = l /\ Len(rt) = Len(t) /\ rs \in Seq(S) /\ rt \in Seq(S)
    BY <1>1, <1>3, FunctionIsSeq
  <1>6. \A k \in 1 .. l : rs[k] = rt[k]
    <2>1. TAKE k \in 1 .. l
    <2>2. l - k + 1 \in 1 .. l /\ Len(t) - l + (l - k + 1) = Len(t) - k + 1
      BY <1>1
    <2>3. t[Len(t) - l + (l - k + 1)] = s[l - k + 1]
      BY <2>2
    <2> QED
      BY <2>2, <2>3, <1>4
  <1> HIDE DEF l
  <1>7. \A k \in 1 .. l : rs[k] \in S /\ rt[k] \in S
    BY <1>3, <1>1 DEF l
  <1>8. /\ u \in Seq(S) /\ v \in Seq(S)
        /\ Len(u) = l /\ Len(v) = l
        /\ \A k \in 1 .. l : u[k] = rs[k] /\ v[k] = rt[k]
    <2>1. 1 \in Int /\ l \in Int /\ (l - 1 + 1 = l) /\ (IF 1 <= l THEN l - 1 + 1 ELSE 0) = l
      BY <1>1
    <2>2. \A k \in 1 .. l : 1 + k - 1 = k
      OBVIOUS
    <2>3. /\ u \in Seq(S) /\ Len(u) = l
          /\ \A k \in 1 .. l : u[k] = rs[1 + k - 1]
      BY <1>7, <2>1, SubSeqProperties
    <2>4. /\ v \in Seq(S) /\ Len(v) = l
          /\ \A k \in 1 .. l : v[k] = rt[1 + k - 1]
      BY <1>7, <2>1, SubSeqProperties
    <2> QED
      BY <2>2, <2>3, <2>4
  <1> HIDE DEF u, v
  <1>9. u = v
    BY <1>6, <1>8, SeqEqual
  <1> QED
    BY <1>5, <1>9 DEF IsSuffix, IsPrefix, rs, rt, l, u, v

-----------------------------------------------------------------------------
(* The sessions and their registrations                                    *)

Feeds(p) == {i \in active : session[i].profiler = p}

ManagerInv ==
    /\ nextSessionId \in 0 .. MaxSessions
    /\ session \in [Ids -> SessionRecord \cup {NoSession}]
    /\ \A i \in Ids : i >= nextSessionId => session[i] = NoSession
    /\ active \subseteq Live
    /\ promised \subseteq active
    /\ scopeOrder \in Seq(active)
    /\ Distinct(scopeOrder)
    /\ opCount \in [Profilers -> Nat]
    /\ started \in [Profilers -> BOOLEAN]
    /\ dataSet \in [Profilers -> SUBSET active]
    /\ \A p \in Profilers : dataSet[p] \subseteq Feeds(p)
    /\ mode \in [Profilers -> Modes \cup {NoMode}]
    /\ StoppedWhenUnused
    /\ ~StartMayFail => ActiveIsRegistered

\* There are at most MaxSessions of anything that is told apart by an id.
LEMMA SetsOfIds ==
    ASSUME NEW T \in SUBSET Ids
    PROVE  IsFiniteSet(T) /\ Cardinality(T) \in 0 .. MaxSessions /\ T \in SUBSET (0 .. MaxSessions)
  <1>1. MaxSessions \in Nat
    BY BoundsAssumption
  <1>2. IsFiniteSet(0 .. MaxSessions - 1) /\ Cardinality(0 .. MaxSessions - 1) = MaxSessions
    BY <1>1, FS_Interval
  <1>3. IsFiniteSet(T) /\ Cardinality(T) <= Cardinality(0 .. MaxSessions - 1)
    BY <1>2, FS_Subset DEF Ids
  <1>4. Cardinality(T) \in Nat
    BY <1>3, FS_CardinalityType
  <1>5. Cardinality(T) \in 0 .. MaxSessions
    BY <1>1, <1>2, <1>3, <1>4
  <1> QED
    BY <1>1, <1>3, <1>5 DEF Ids

LEMMA EmptyList ==
    <<>> \in Seq({}) /\ Distinct(<<>>) /\ Range(<<>>) = {} /\ Len(<<>>) = 0 /\ Cardinality({}) = 0
  <1>1. <<>> \in Seq({}) /\ Len(<<>>) = 0
    BY EmptySeq
  <1>2. Range(<<>>) = {<<>>[k] : k \in 1 .. Len(<<>>)}
    BY <1>1, RangeEquality
  <1>3. Range(<<>>) = {}
    BY <1>1, <1>2
  <1>4. Distinct(<<>>)
    BY <1>1 DEF Distinct
  <1> QED
    BY <1>1, <1>3, <1>4, FS_EmptySet

\* No session, and nothing registered.
LEMMA ManagerInitially ==
    Init => ManagerInv
  <1> SUFFICES ASSUME Init PROVE ManagerInv
    OBVIOUS
  <1>1. MaxSessions \in Nat
    BY BoundsAssumption
  <1>2. Live = {}
    BY DEF Init, Live
  <1>3. session \in [Ids -> SessionRecord \cup {NoSession}]
    BY DEF Init
  <1>4. StoppedWhenUnused
    BY DEF Init, StoppedWhenUnused
  <1>5. ActiveIsRegistered
    BY EmptyList DEF Init, ActiveIsRegistered
  <1>6. nextSessionId \in 0 .. MaxSessions /\ \A i \in Ids : session[i] = NoSession
    BY <1>1 DEF Init
  <1>7. scopeOrder \in Seq(active) /\ Distinct(scopeOrder)
    BY EmptyList DEF Init
  <1>8. /\ opCount \in [Profilers -> Nat]
        /\ started \in [Profilers -> BOOLEAN]
        /\ dataSet \in [Profilers -> SUBSET active]
        /\ \A p \in Profilers : dataSet[p] \subseteq Feeds(p)
        /\ mode \in [Profilers -> Modes \cup {NoMode}]
    BY DEF Init
  <1>9. active \subseteq Live /\ promised \subseteq active
    BY DEF Init
  <1> QED
    BY <1>3, <1>4, <1>5, <1>6, <1>7, <1>8, <1>9 DEF ManagerInv

\* Sessions are activated, those there were being as they were.
LEMMA Activated ==
    ASSUME ManagerInv, NEW S, ActivateInactive(S), S \subseteq Live',
           session' \in [Ids -> SessionRecord \cup {NoSession}],
           \A i \in Live : session'[i] = session[i],
           nextSessionId' \in 0 .. MaxSessions,
           \A i \in Ids : i >= nextSessionId' => session'[i] = NoSession,
           mode' \in [Profilers -> Modes \cup {NoMode}]
    PROVE  ManagerInv'
  <1>1. PICK good, bad :
          /\ Activations(good, bad)
          /\ good \subseteq S \ active
          /\ bad \subseteq S \ active
          /\ promised' = promised \/ (promised' = promised \cup S /\ good = S \ active)
          /\ ~StartMayFail => good = S \ active /\ bad = {}
    <2>1. CASE Activations(S \ active, {}) /\ promised' = promised \cup S
      BY <2>1
    <2>2. ASSUME NEW k \in S \ active, StartFails(k, {i \in S \ active : i < k}),
                 Activations({i \in S \ active : i < k}, {k}), promised' = promised
          PROVE  \E good, bad :
                    /\ Activations(good, bad)
                    /\ good \subseteq S \ active
                    /\ bad \subseteq S \ active
                    /\ promised' = promised \/ (promised' = promised \cup S /\ good = S \ active)
                    /\ ~StartMayFail => good = S \ active /\ bad = {}
      <3>1. StartMayFail
        BY <2>2 DEF StartFails
      <3>2. {i \in S \ active : i < k} \subseteq S \ active /\ {k} \subseteq S \ active
        OBVIOUS
      <3> QED
        BY <3>1, <3>2, <2>2
    <2> QED
      BY <2>1, <2>2 DEF ActivateInactive
  <1> DEFINE Of(T, p) == {i \in T : session'[i].profiler = p}
  <1>2. /\ active' = active \cup good \cup bad
        /\ started' = [p \in Profilers |-> started[p] \/ Of(good \cup bad, p) # {}]
        /\ dataSet' = [p \in Profilers |-> dataSet[p] \cup Of(good, p)]
        /\ scopeOrder' = scopeOrder \o Ascending(good)
        /\ opCount' = [p \in Profilers |-> opCount[p] + Cardinality(Of(good, p))]
    BY <1>1 DEF Activations
  <1>3. Live \subseteq Live' /\ Live' \subseteq Ids /\ good \subseteq Ids /\ bad \subseteq Live'
    BY <1>1 DEF Live
  <1>4. active' \subseteq Live' /\ active \subseteq active' /\ promised' \subseteq active'
    BY <1>1, <1>2, <1>3 DEF ManagerInv
  <1>5. \A i \in active : session'[i] = session[i]
    BY DEF ManagerInv
  <1>6. Range(scopeOrder) \subseteq active
    BY RangeOfSeq DEF ManagerInv
  <1>7. /\ scopeOrder' \in Seq(active')
        /\ Distinct(scopeOrder')
        /\ Range(scopeOrder') = Range(scopeOrder) \cup good
    <2>1. good \in SUBSET (0 .. MaxSessions) /\ MaxSessions \in Nat
      BY <1>3, SetsOfIds, BoundsAssumption
    <2>2. scopeOrder \in Seq(active) /\ Distinct(scopeOrder) /\ Range(scopeOrder) \cap good = {}
      BY <1>1, <1>6 DEF ManagerInv
    <2>3. /\ scopeOrder' \in Seq(active \cup good)
          /\ Distinct(scopeOrder')
          /\ Range(scopeOrder') = Range(scopeOrder) \cup good
      BY <2>1, <2>2, <1>2, AppendedAscending
    <2> QED
      BY <2>3, <1>2, SeqMonotonic, active \cup good \subseteq active'
  <1>8. \A p \in Profilers : Of(good, p) \in SUBSET Ids /\ Cardinality(Of(good, p)) \in Nat
    <2>1. TAKE p \in Profilers
    <2>2. Of(good, p) \in SUBSET Ids
      BY <1>3
    <2> HIDE DEF Of
    <2>3. Cardinality(Of(good, p)) \in 0 .. MaxSessions
      BY <2>2, SetsOfIds
    <2> QED
      BY <2>2, <2>3, BoundsAssumption
  <1>9. opCount' \in [Profilers -> Nat] /\ started' \in [Profilers -> BOOLEAN]
    <2>1. \A p \in Profilers : opCount[p] + Cardinality(Of(good, p)) \in Nat
      BY <1>8 DEF ManagerInv
    <2>2. \A p \in Profilers : (started[p] \/ Of(good \cup bad, p) # {}) \in BOOLEAN
      BY DEF ManagerInv
    <2> HIDE DEF Of
    <2> QED
      BY <2>1, <2>2, <1>2
  <1>10. \A p \in Profilers : dataSet'[p] = dataSet[p] \cup Of(good, p)
    BY <1>2
  <1>11. dataSet' \in [Profilers -> SUBSET (active')]
    <2>1. \A p \in Profilers : dataSet[p] \cup Of(good, p) \in SUBSET (active')
      BY <1>2, <1>4 DEF ManagerInv
    <2> HIDE DEF Of
    <2> QED
      BY <2>1, <1>2
  <1>12. \A p \in Profilers : dataSet'[p] \subseteq Feeds(p)'
    BY <1>2, <1>4, <1>5, <1>10 DEF ManagerInv, Feeds
  <1>13. \A p \in Profilers : started'[p] <=> started[p] \/ Of(good \cup bad, p) # {}
    BY <1>2
  <1>14. StoppedWhenUnused'
    <2>1. ASSUME NEW p \in Profilers, started'[p] PROVE \E i \in Live' : session'[i].profiler = p
      <3>1. CASE started[p]
        <4>1. PICK i \in Live : session[i].profiler = p
          BY <3>1 DEF ManagerInv, StoppedWhenUnused
        <4> QED
          BY <4>1, <1>3
      <3>2. CASE Of(good \cup bad, p) # {}
        <4>1. PICK i \in good \cup bad : session'[i].profiler = p
          BY <3>2
        <4>2. i \in Live'
          BY <4>1, <1>1
        <4> QED
          BY <4>1, <4>2
      <3> QED
        BY <2>1, <3>1, <3>2, <1>13
    <2> QED
      BY <2>1 DEF StoppedWhenUnused
  <1>15. ASSUME ~StartMayFail PROVE ActiveIsRegistered'
    <2>1. ActiveIsRegistered /\ good = S \ active /\ active' = active \cup good
      BY <1>15, <1>1, <1>2 DEF ManagerInv
    <2>2. Range(scopeOrder') = active'
      BY <2>1, <1>7 DEF ActiveIsRegistered
    <2>3. Len(scopeOrder') = Cardinality(active')
      BY <2>2, <1>7, DistinctLength
    <2>4. ASSUME NEW p \in Profilers
          PROVE  /\ dataSet'[p] = Feeds(p)'
                 /\ opCount'[p] = Cardinality(dataSet'[p])
                 /\ dataSet'[p] # {} => started'[p]
      <3>1. dataSet[p] = Feeds(p) /\ opCount[p] = Cardinality(dataSet[p]) /\ (dataSet[p] # {} => started[p])
        BY <2>1 DEF ActiveIsRegistered, Feeds
      <3>2. dataSet'[p] = Feeds(p)'
        BY <3>1, <2>1, <1>5, <1>10 DEF Feeds
      <3>3. dataSet[p] \in SUBSET Ids /\ Of(good, p) \in SUBSET Ids /\ dataSet[p] \cap Of(good, p) = {}
        BY <1>8, <1>1 DEF ManagerInv, Live
      <3>4. opCount'[p] = Cardinality(dataSet[p]) + Cardinality(Of(good, p))
        BY <3>1, <1>2
      <3>5. dataSet'[p] # {} => started'[p]
        BY <3>1, <1>10, <1>13
      <3> HIDE DEF Of
      <3>6. IsFiniteSet(dataSet[p]) /\ IsFiniteSet(Of(good, p))
        BY <3>3, SetsOfIds
      <3>7. Cardinality(dataSet[p] \cup Of(good, p))
               = Cardinality(dataSet[p]) + Cardinality(Of(good, p)) - Cardinality({})
        BY <3>3, <3>6, FS_Union
      <3>8. Cardinality(dataSet[p]) \in Nat /\ Cardinality(Of(good, p)) \in Nat /\ Cardinality({}) = 0
        BY <3>6, FS_CardinalityType, FS_EmptySet
      <3>9. Cardinality(dataSet[p] \cup Of(good, p)) = Cardinality(dataSet[p]) + Cardinality(Of(good, p))
        BY <3>7, <3>8
      <3>10. dataSet'[p] = dataSet[p] \cup Of(good, p)
        BY <1>10
      <3>11. opCount'[p] = Cardinality(dataSet'[p])
        BY <3>4, <3>9, <3>10
      <3> QED
        BY <3>2, <3>5, <3>11
    <2> QED
      BY <2>2, <2>3, <2>4 DEF ActiveIsRegistered, Feeds
  <1> QED
    BY <1>4, <1>7, <1>9, <1>11, <1>12, <1>14, <1>15 DEF ManagerInv

Erased(S) == session' = [i \in Ids |-> IF i \in S THEN NoSession ELSE session[i]]

\* Sessions are deactivated, and then stopped, and removed, or neither.
LEMMA Deactivated ==
    ASSUME ManagerInv, NEW S, Deactivations(S),
           started' = started \/ Stopped(S),
           session' = session \/ (Stopped(S) /\ Erased(S)),
           nextSessionId' = nextSessionId, mode' = mode
    PROVE  ManagerInv'
  <1> DEFINE gone == S \cap active
             Left(p) == Cardinality({i \in gone : session[i].profiler = p})
  <1>1. /\ active' = active \ gone
        /\ promised' = promised \ gone
        /\ dataSet' = [p \in Profilers |-> dataSet[p] \ gone]
        /\ scopeOrder' = Without(scopeOrder, gone)
        /\ opCount' = [p \in Profilers |->
                          IF Left(p) > opCount[p] THEN 0 ELSE opCount[p] - Left(p)]
    BY DEF Deactivations
  <1>2. /\ session' \in [Ids -> SessionRecord \cup {NoSession}]
        /\ \A i \in Ids : i >= nextSessionId => session'[i] = NoSession
    BY DEF ManagerInv, Erased
  <1>3. \A i \in Live \ S : i \in Live' /\ session'[i] = session[i]
    BY DEF Live, Erased
  <1>4. active' \subseteq Live' /\ promised' \subseteq active' /\ active' \subseteq Live \ S
    BY <1>1, <1>3 DEF ManagerInv
  <1>5. Range(scopeOrder) \subseteq active
    BY RangeOfSeq DEF ManagerInv
  <1>6. /\ scopeOrder' \in Seq(active')
        /\ Distinct(scopeOrder')
        /\ Range(scopeOrder') = Range(scopeOrder) \ gone
    <2>1. scopeOrder \in Seq(active) /\ Distinct(scopeOrder)
      BY DEF ManagerInv
    <2> HIDE DEF gone
    <2> QED
      BY <2>1, <1>1, WithoutProperties
  <1>7. \A p \in Profilers : {i \in gone : session[i].profiler = p} \in SUBSET Ids /\ Left(p) \in Nat
    <2>1. TAKE p \in Profilers
    <2> DEFINE L == {i \in gone : session[i].profiler = p}
    <2>2. L \in SUBSET Ids
      BY DEF ManagerInv, Live
    <2> HIDE DEF L
    <2>3. Cardinality(L) \in 0 .. MaxSessions
      BY <2>2, SetsOfIds
    <2>4. Cardinality(L) \in Nat
      BY <2>3, BoundsAssumption
    <2> QED
      BY <2>2, <2>4 DEF L
  <1>8. opCount' \in [Profilers -> Nat]
    <2>1. \A p \in Profilers : Left(p) \in Nat /\ opCount[p] \in Nat
      BY <1>7 DEF ManagerInv
    <2> HIDE DEF Left
    <2>2. \A p \in Profilers : (IF Left(p) > opCount[p] THEN 0 ELSE opCount[p] - Left(p)) \in Nat
      BY <2>1
    <2> QED
      BY <2>2, <1>1
  <1>9. \A p \in Profilers : dataSet'[p] = dataSet[p] \ gone
    BY <1>1
  <1>10. dataSet' \in [Profilers -> SUBSET (active')]
    <2>1. \A p \in Profilers : dataSet[p] \ gone \in SUBSET (active')
      BY <1>1 DEF ManagerInv
    <2> HIDE DEF gone
    <2> QED
      BY <2>1, <1>1
  <1>11. \A p \in Profilers : dataSet'[p] \subseteq Feeds(p)'
    <2>1. \A i \in active' : session'[i] = session[i] /\ i \in active
      BY <1>1, <1>3, <1>4
    <2>2. ASSUME NEW p \in Profilers, NEW i \in dataSet'[p] PROVE i \in Feeds(p)'
      <3>1. i \in active' /\ i \in dataSet[p]
        BY <2>2, <1>9, <1>10
      <3>2. session[i].profiler = p
        BY <3>1 DEF ManagerInv, Feeds
      <3> QED
        BY <3>1, <3>2, <2>1 DEF Feeds
    <2> QED
      BY <2>2
  <1>12. /\ started' \in [Profilers -> BOOLEAN]
         /\ \A p \in Profilers : started'[p] => started[p]
         /\ \A p \in Profilers : started[p] /\ dataSet'[p] # {} => started'[p]
    <2>1. CASE UNCHANGED started
      BY <2>1 DEF ManagerInv
    <2>2. CASE Stopped(S)
      <3>1. \A p \in Profilers :
               (started[p] /\ ~(dataSet'[p] = {} /\ \E i \in S : session[i].profiler = p)) \in BOOLEAN
        BY DEF ManagerInv
      <3> QED
        BY <2>2, <3>1 DEF Stopped
    <2> QED
      BY <2>1, <2>2
  <1>13. ASSUME NEW p \in Profilers, started'[p] PROVE \E i \in Live' : session'[i].profiler = p
    <2>1. PICK i \in Live : session[i].profiler = p
      BY <1>12, <1>13 DEF ManagerInv, StoppedWhenUnused
    <2>2. CASE UNCHANGED session
      BY <2>1, <2>2 DEF Live
    <2>3. CASE i \notin S
      BY <2>1, <2>3, <1>3
    <2>4. CASE i \in S /\ Stopped(S)
      <3>1. dataSet'[p] # {}
        BY <2>1, <2>4, <1>13 DEF Stopped
      <3>2. PICK j \in dataSet'[p] : TRUE
        BY <3>1
      <3>3. j \in Feeds(p)' /\ j \in active'
        BY <1>10, <1>11
      <3> QED
        BY <3>3, <1>4 DEF Feeds
    <2> QED
      BY <2>2, <2>3, <2>4
  <1>14. ASSUME ~StartMayFail PROVE ActiveIsRegistered'
    <2>1. ActiveIsRegistered
      BY <1>14 DEF ManagerInv
    <2>2. Range(scopeOrder') = active'
      BY <2>1, <1>1, <1>6 DEF ActiveIsRegistered
    <2>3. Len(scopeOrder') = Cardinality(active')
      BY <2>2, <1>6, DistinctLength
    <2>4. \A i \in active' : session'[i] = session[i] /\ i \in active
      BY <1>1, <1>3, <1>4
    <2>5. ASSUME NEW p \in Profilers
          PROVE  /\ dataSet'[p] = Feeds(p)'
                 /\ opCount'[p] = Cardinality(dataSet'[p])
                 /\ dataSet'[p] # {} => started'[p]
      <3>1. dataSet[p] = Feeds(p) /\ opCount[p] = Cardinality(dataSet[p]) /\ (dataSet[p] # {} => started[p])
        BY <2>1 DEF ActiveIsRegistered, Feeds
      <3>2. dataSet'[p] = Feeds(p)'
        BY <3>1, <2>4, <1>1, <1>9 DEF Feeds
      <3>3. {i \in gone : session[i].profiler = p} = dataSet[p] \cap gone
        BY <3>1 DEF Feeds
      <3>4. Left(p) = Cardinality(dataSet[p] \cap gone)
        BY <3>3
      <3>5. opCount'[p] = IF Left(p) > opCount[p] THEN 0 ELSE opCount[p] - Left(p)
        BY <1>1
      <3>6. started'[p] \/ dataSet'[p] = {}
        BY <3>1, <1>9, <1>12
      <3>7. IsFiniteSet(dataSet[p])
        <4>1. dataSet[p] \in SUBSET Ids
          BY DEF ManagerInv, Live
        <4> QED
          BY <4>1, SetsOfIds
      <3> HIDE DEF gone, Left
      <3>8. Cardinality(dataSet[p] \ gone) = Cardinality(dataSet[p]) - Cardinality(dataSet[p] \cap gone)
        BY <3>7, FS_Difference
      <3>9. Cardinality(dataSet[p] \cap gone) <= Cardinality(dataSet[p]) /\ IsFiniteSet(dataSet[p] \cap gone)
        BY <3>7, FS_Intersection
      <3>10. Cardinality(dataSet[p]) \in Nat /\ Cardinality(dataSet[p] \cap gone) \in Nat
        BY <3>7, <3>9, FS_CardinalityType
      <3>11. opCount'[p] = Cardinality(dataSet[p]) - Cardinality(dataSet[p] \cap gone)
        BY <3>1, <3>4, <3>5, <3>9, <3>10
      <3> QED
        BY <3>2, <3>6, <3>8, <3>11, <1>9
    <2> QED
      BY <2>2, <2>3, <2>5 DEF ActiveIsRegistered, Feeds
  <1>15. nextSessionId' \in 0 .. MaxSessions /\ mode' \in [Profilers -> Modes \cup {NoMode}]
         /\ \A i \in Ids : i >= nextSessionId' => session'[i] = NoSession
    BY <1>2 DEF ManagerInv
  <1> QED
    BY <1>2, <1>4, <1>6, <1>8, <1>10, <1>11, <1>12, <1>13, <1>14, <1>15 DEF ManagerInv, StoppedWhenUnused

\* Nothing of the manager changes in the calls of scopes and ops.
LEMMA ManagerUnchanged ==
    ASSUME ManagerInv, UNCHANGED <<managerVars, profilerVars>>
    PROVE  ManagerInv'
  BY DEF ManagerInv, managerVars, profilerVars, Live, Feeds, StoppedWhenUnused, ActiveIsRegistered

\* A new session takes the next id, at which there was none.
LEMMA StartedInv ==
    ASSUME ManagerInv, NEW t \in Starters, NEW path \in Paths, NEW p \in Profilers,
           NEW m \in Modes, NEW a \in Addrs, Start(t, path, p, m, a)
    PROVE  ManagerInv'
  <1> DEFINE n == nextSessionId
             r == [path |-> path, profiler |-> p, source |-> a]
  <1>1. MaxSessions \in Nat /\ n \in 0 .. MaxSessions /\ n < MaxSessions
    BY BoundsAssumption DEF ManagerInv, Start
  <1>2. n \in Ids /\ session[n] = NoSession
    BY <1>1 DEF ManagerInv, Ids
  <1>3. r \in SessionRecord /\ r # NoSession
    BY NoSessionAssumption DEF SessionRecord
  <1>4. session' = [session EXCEPT ![n] = r] /\ nextSessionId' = n + 1
        /\ ActivateInactive({n}) /\ mode' = [mode EXCEPT ![p] = m]
    BY DEF Start
  <1> HIDE DEF r
  <1>5. session' \in [Ids -> SessionRecord \cup {NoSession}]
    BY <1>3, <1>4 DEF ManagerInv
  <1>6. \A i \in Live : session'[i] = session[i]
    BY <1>2, <1>4 DEF Live, ManagerInv
  <1>7. {n} \subseteq Live'
    BY <1>2, <1>3, <1>4 DEF Live, ManagerInv
  <1>8. nextSessionId' \in 0 .. MaxSessions
    BY <1>1, <1>4
  <1>9. \A i \in Ids : i >= nextSessionId' => session'[i] = NoSession
    <2>1. ASSUME NEW i \in Ids, i >= n + 1 PROVE session'[i] = NoSession
      <3>1. i \in Nat /\ i >= n /\ i # n
        BY <1>1, <2>1 DEF Ids
      <3> QED
        BY <3>1, <1>4 DEF ManagerInv
    <2> QED
      BY <2>1, <1>4
  <1>10. mode' \in [Profilers -> Modes \cup {NoMode}]
    BY <1>4 DEF ManagerInv
  <1> HIDE DEF n
  <1> QED
    BY <1>4, <1>5, <1>6, <1>7, <1>8, <1>9, <1>10, Activated

\* Every step keeps the sessions and their registrations in agreement.
LEMMA ManagerStep ==
    ASSUME ManagerInv, [Next]_vars
    PROVE  ManagerInv'
  <1>1. ASSUME NEW t \in Starters, NEW path \in Paths, Restart(t, path) PROVE ManagerInv'
    <2>1. /\ session' = session /\ nextSessionId' = nextSessionId /\ mode' = mode
          /\ ActivateInactive(SessionAt(path))
      BY <1>1 DEF Restart
    <2>2. SessionAt(path) \subseteq Live'
      BY <2>1 DEF SessionAt, Live
    <2> QED
      BY <2>1, <2>2, Activated DEF ManagerInv
  <1>2. ASSUME NEW t \in Starters, NEW path \in Paths, NEW p \in Profilers, NEW m \in Modes,
               RefuseStart(t, path, p, m)
        PROVE  ManagerInv'
    <2>1. MaxSessions \in Nat
      BY BoundsAssumption
    <2>2. nextSessionId' \in 0 .. MaxSessions /\ nextSessionId' = nextSessionId + 1
          /\ nextSessionId \in Nat /\ session' = session
      BY <2>1, <1>2 DEF RefuseStart, ManagerInv
    <2>3. \A i \in Ids : i >= nextSessionId' => session'[i] = NoSession
      <3>1. \A i \in Ids : i >= nextSessionId + 1 => i >= nextSessionId
        BY <2>2 DEF Ids
      <3> QED
        BY <3>1, <2>2 DEF ManagerInv
    <2>4. UNCHANGED <<session, active, promised, scopeOrder, opCount, started, dataSet, mode>>
      BY <1>2 DEF RefuseStart, profilerVars
    <2> QED
      BY <2>2, <2>3, <2>4 DEF ManagerInv, Live, Feeds, StoppedWhenUnused, ActiveIsRegistered
  <1>3. ASSUME NEW t \in Starters, NEW path \in Paths, NEW p \in Profilers, NEW m \in Modes,
               NEW a \in Addrs, Start(t, path, p, m, a)
        PROVE  ManagerInv'
    BY <1>3, StartedInv
  <1>4. ASSUME NEW t \in Starters, NEW S \in SUBSET Live, Activate(t, S) PROVE ManagerInv'
    <2>1. /\ session' = session /\ nextSessionId' = nextSessionId /\ mode' = mode
          /\ ActivateInactive(S)
      BY <1>4 DEF Activate
    <2>2. S \subseteq Live'
      BY <2>1 DEF Live
    <2> QED
      BY <2>1, <2>2, Activated DEF ManagerInv
  <1>5. ASSUME NEW t \in Starters, NEW S, Deactivate(t, S) PROVE ManagerInv'
    <2>1. Deactivations(S) /\ started' = started /\ session' = session /\ nextSessionId' = nextSessionId /\ mode' = mode
      BY <1>5 DEF Deactivate
    <2> QED
      BY <2>1, Deactivated
  <1>6. ASSUME NEW t \in Starters, NEW i \in Live, NEW dumped \in BOOLEAN, Finalize(t, i, dumped)
        PROVE  ManagerInv'
    <2>1. /\ Deactivations({i}) /\ Stopped({i})
          /\ nextSessionId' = nextSessionId /\ mode' = mode
          /\ IF dumped THEN Removed(t, {i}) ELSE UNCHANGED <<session, sourceVars, nodes>>
      BY <1>6 DEF Finalize
    <2> DEFINE done == {i}
    <2>2. \/ session' = session
          \/ Stopped(done) /\ Erased(done)
      BY <2>1 DEF Removed, Erased
    <2>3. Deactivations(done) /\ (started' = started \/ Stopped(done)) /\ nextSessionId' = nextSessionId /\ mode' = mode
      BY <2>1
    <2> HIDE DEF done
    <2> QED
      BY <2>2, <2>3, Deactivated
  <1>7. ASSUME NEW t \in Starters, NEW dumped \in BOOLEAN, FinalizeAll(t, dumped) PROVE ManagerInv'
    <2>1. PICK last \in (IF dumped THEN {MaxSessions} ELSE Live) :
             LET done == {i \in Live : i <= last}
             IN  /\ Deactivations(done)
                 /\ Stopped(done)
                 /\ IF dumped THEN Removed(t, done) ELSE UNCHANGED <<session, sourceVars, nodes>>
      BY <1>7 DEF FinalizeAll
    <2> DEFINE done == {i \in Live : i <= last}
    <2>2. Deactivations(done) /\ Stopped(done)
          /\ IF dumped THEN Removed(t, done) ELSE UNCHANGED <<session, sourceVars, nodes>>
      BY <2>1
    <2> HIDE DEF done
    <2>3. \/ session' = session
          \/ Stopped(done) /\ Erased(done)
      BY <2>2 DEF Removed, Erased
    <2>4. nextSessionId' = nextSessionId /\ mode' = mode
      BY <1>7 DEF FinalizeAll
    <2> QED
      BY <2>2, <2>3, <2>4, Deactivated
  <1>8. ASSUME UNCHANGED <<managerVars, profilerVars>> PROVE ManagerInv'
    BY <1>8, ManagerUnchanged
  <1>9. ASSUME NEW t \in Threads, NEW name \in Names, EnterScope(t, name) PROVE ManagerInv'
    BY <1>8, <1>9 DEF EnterScope, Enter
  <1>10. ASSUME NEW t \in Threads, ExitScope(t) \/ EnterOp(t) \/ ExitOp(t) PROVE ManagerInv'
    BY <1>8, <1>10 DEF ExitScope, EnterOp, ExitOp
  <1>11. ASSUME UNCHANGED vars PROVE ManagerInv'
    BY <1>8, <1>11 DEF vars
  <1>12. ASSUME NEW S \in {Live} \cup {{i} : i \in Live} PROVE S \in SUBSET Live
    OBVIOUS
  <1> QED
    BY <1>1, <1>2, <1>3, <1>4, <1>5, <1>6, <1>7, <1>9, <1>10, <1>11, <1>12 DEF Next

-----------------------------------------------------------------------------
(* The scopes and ops of the program                                       *)

Node == [thread : Threads, depth : Nat \ {0}, path : Seq(Names)]
Op == [busy : BOOLEAN, data : SUBSET Ids]

ScopeTypes ==
    /\ stack \in [Threads -> [Addrs -> Seq(Names)]]
    /\ seen \in [Threads -> SUBSET Addrs]
    /\ mainThread \in [Addrs -> Threads]
    /\ nodes \in [Ids -> SUBSET Node]
    /\ op \in [Threads -> [Profilers -> Op]]
    /\ profilingOn \in BOOLEAN
    /\ nest \in [Threads -> Seq(Block)]
    /\ \A t \in Threads : Len(nest[t]) <= MaxDepth
    /\ launching \in SUBSET Threads

AllOrNoneSent ==
    \A t \in Threads : \A k \in 1 .. Len(nest[t]) : nest[t][k].sent = profilingOn

StacksEndWithNest ==
    \A t \in Threads :
        nest[t] # <<>> /\ profilingOn =>
            \A a \in RegisteredSources :
                a \in seen[t] /\ EndsWith(stack[t][a], nest[t], Len(nest[t]))

NodesOfNest ==
    \A i \in Ids : \A n \in nodes[i] :
        /\ profilingOn
        /\ i \in Range(scopeOrder)
        /\ n.depth <= Len(nest[n.thread])
        /\ EndsWith(n.path, nest[n.thread], n.depth)

OpsInProgress ==
    \A t \in Threads, p \in Profilers :
        op[t][p] # NoOp => t \in launching /\ opCount[p] > 0 /\ op[t][p].data \subseteq active

ScopeInv ==
    /\ ScopeTypes
    /\ AllOrNoneSent
    /\ StacksEndWithNest
    /\ NodesOfNest
    /\ OpsInProgress
    /\ unbalanced = FALSE

\* How many scopes of thread t are on its stack of source a.
Pushes(t, a) == IF profilingOn /\ a \in RegisteredSources THEN Len(nest[t]) ELSE 0

LengthInv ==
    /\ \A a \in Addrs : mainThread[a] \in Starters
    /\ \A s \in Starters, a \in Addrs : Len(stack[s][a]) = Pushes(s, a)
    /\ \A t \in Threads, a \in Addrs : Len(stack[t][a]) <= MaxDepth + Pushes(t, a)
    /\ \A i \in Ids : \A n \in nodes[i] : Len(n.path) <= 2 * MaxDepth

\* The front and the last element of a sequence that is not empty.
LEMMA FrontProperties ==
    ASSUME NEW S, NEW s \in Seq(S), s # <<>>
    PROVE  /\ Front(s) \in Seq(S)
           /\ Len(s) \in Nat \ {0}
           /\ Len(Front(s)) = Len(s) - 1
           /\ \A k \in 1 .. Len(s) - 1 : Front(s)[k] = s[k]
           /\ Last(s) = s[Len(s)]
           /\ Last(s) \in S
  <1>1. Len(s) \in Nat \ {0}
    BY EmptySeq
  <1>2. \A k \in 1 .. Len(s) : s[k] \in S
    BY ElementOfSeq
  <1>3. \A k \in 1 .. Len(s) - 1 : s[k] \in S
    BY <1>1, <1>2
  <1>4. 1 \in Int /\ Len(s) - 1 \in Int
    BY <1>1
  <1>5. /\ Front(s) \in Seq(S)
        /\ Len(Front(s)) = IF 1 <= Len(s) - 1 THEN Len(s) - 1 - 1 + 1 ELSE 0
        /\ \A k \in 1 .. (Len(s) - 1) - 1 + 1 : Front(s)[k] = s[1 + k - 1]
    BY <1>3, <1>4, SubSeqProperties DEF Front
  <1>6. Len(Front(s)) = Len(s) - 1
    <2>1. CASE Len(s) = 1
      <3>1. ~ (1 <= Len(s) - 1) /\ Len(s) - 1 = 0
        BY <2>1
      <3> QED
        BY <3>1, <1>5
    <2>2. CASE Len(s) # 1
      <3>1. 1 <= Len(s) - 1 /\ Len(s) - 1 - 1 + 1 = Len(s) - 1
        BY <2>2, <1>1
      <3> QED
        BY <3>1, <1>5
    <2> QED
      BY <2>1, <2>2
  <1>7. \A k \in 1 .. Len(s) - 1 : Front(s)[k] = s[k]
    <2>1. TAKE k \in 1 .. Len(s) - 1
    <2>2. k \in 1 .. (Len(s) - 1) - 1 + 1 /\ 1 + k - 1 = k
      BY <1>1
    <2>3. Front(s)[k] = s[1 + k - 1]
      BY <2>2, <1>5
    <2> QED
      BY <2>2, <2>3
  <1>8. Last(s) = s[Len(s)] /\ s[Len(s)] \in S
    BY <1>1, <1>2 DEF Last
  <1> QED
    BY <1>1, <1>5, <1>6, <1>7, <1>8

\* Entering a block and pushing its scope.
LEMMA EndsWithAppended ==
    ASSUME NEW seq \in Seq(Names), NEW blocks \in Seq(Block), NEW block \in Block,
           EndsWith(seq, blocks, Len(blocks))
    PROVE  EndsWith(Append(seq, block.name), Append(blocks, block), Len(Append(blocks, block)))
  <1> DEFINE n == Len(seq)
             d == Len(blocks)
             q == Append(seq, block.name)
             b == Append(blocks, block)
  <1>1. n \in Nat /\ d \in Nat /\ d <= n
    BY LenProperties DEF EndsWith
  <1>2. block.name \in Names
    BY DEF Block
  <1>3. Len(q) = n + 1 /\ (\A k \in 1 .. n : q[k] = seq[k]) /\ q[n + 1] = block.name
    BY <1>2, AppendProperties
  <1>4. Len(b) = d + 1 /\ (\A k \in 1 .. d : b[k] = blocks[k]) /\ b[d + 1] = block
    BY AppendProperties
  <1>5. \A k \in 1 .. d : seq[n - d + k] = blocks[k].name
    BY DEF EndsWith
  <1> HIDE DEF n, d, q, b
  <1>6. ASSUME NEW k \in 1 .. d + 1 PROVE q[(n + 1) - (d + 1) + k] = b[k].name
    <2>1. CASE k = d + 1
      <3>1. (n + 1) - (d + 1) + k = n + 1
        BY <2>1, <1>1
      <3> QED
        BY <3>1, <2>1, <1>3, <1>4
    <2>2. CASE k \in 1 .. d
      <3>1. (n + 1) - (d + 1) + k = n - d + k /\ n - d + k \in 1 .. n
        BY <2>2, <1>1
      <3> QED
        BY <3>1, <2>2, <1>3, <1>4, <1>5
    <2> QED
      BY <2>1, <2>2, <1>1
  <1>7. d + 1 <= n + 1
    BY <1>1
  <1> QED
    BY <1>3, <1>4, <1>6, <1>7 DEF EndsWith, q, b

\* Leaving a block: its scope is the last, and popping it leaves the others.
LEMMA EndsWithFront ==
    ASSUME NEW seq \in Seq(Names), NEW blocks \in Seq(Block), blocks # <<>>,
           EndsWith(seq, blocks, Len(blocks))
    PROVE  /\ seq # <<>>
           /\ Last(seq) = Last(blocks).name
           /\ EndsWith(Front(seq), Front(blocks), Len(Front(blocks)))
  <1> DEFINE n == Len(seq)
             d == Len(blocks)
             q == Front(seq)
             b == Front(blocks)
  <1>1. d \in Nat \ {0} /\ Len(b) = d - 1 /\ (\A k \in 1 .. d - 1 : b[k] = blocks[k]) /\ Last(blocks) = blocks[d]
    BY FrontProperties
  <1>2. n \in Nat /\ d <= n
    BY LenProperties DEF EndsWith
  <1>3. seq # <<>>
    BY <1>1, <1>2, EmptySeq
  <1>4. Len(q) = n - 1 /\ (\A k \in 1 .. n - 1 : q[k] = seq[k]) /\ Last(seq) = seq[n]
    BY <1>3, FrontProperties
  <1>5. \A k \in 1 .. d : seq[n - d + k] = blocks[k].name
    BY DEF EndsWith
  <1> HIDE DEF n, d, q, b
  <1>6. Last(seq) = Last(blocks).name
    <2>1. d \in 1 .. d /\ n - d + d = n
      BY <1>1, <1>2
    <2>2. seq[n - d + d] = blocks[d].name
      BY <2>1, <1>5
    <2> QED
      BY <2>1, <2>2, <1>1, <1>4
  <1>7. ASSUME NEW k \in 1 .. d - 1 PROVE q[(n - 1) - (d - 1) + k] = b[k].name
    <2>1. (n - 1) - (d - 1) + k = n - d + k /\ n - d + k \in 1 .. n - 1 /\ k \in 1 .. d
      BY <1>1, <1>2
    <2> QED
      BY <2>1, <1>1, <1>4, <1>5
  <1>8. d - 1 <= n - 1
    BY <1>1, <1>2
  <1> QED
    BY <1>1, <1>3, <1>4, <1>6, <1>7, <1>8 DEF EndsWith, q, b

LEMMA RegisteredTypes ==
    ASSUME ManagerInv
    PROVE  /\ Range(scopeOrder) \subseteq active
           /\ \A i \in Range(scopeOrder) : i \in Ids /\ session[i].source \in RegisteredSources
           /\ RegisteredSources \subseteq Addrs
           /\ \A k \in DOMAIN scopeOrder : scopeOrder[k] \in Range(scopeOrder)
           /\ Len(scopeOrder) \in Nat /\ DOMAIN scopeOrder = 1 .. Len(scopeOrder)
           /\ Range(scopeOrder) = {scopeOrder[k] : k \in 1 .. Len(scopeOrder)}
  <1>1. Range(scopeOrder) \subseteq active
    BY RangeOfSeq DEF ManagerInv
  <1>2. \A i \in active : i \in Ids /\ session[i] \in SessionRecord
    BY DEF ManagerInv, Live
  <1>3. \A i \in Range(scopeOrder) : session[i].source \in Addrs /\ i \in Ids
    BY <1>1, <1>2 DEF SessionRecord
  <1>4. /\ Range(scopeOrder) = {scopeOrder[k] : k \in 1 .. Len(scopeOrder)}
        /\ DOMAIN scopeOrder = 1 .. Len(scopeOrder)
        /\ Len(scopeOrder) \in Nat
    BY RangeEquality, LenProperties DEF ManagerInv
  <1> QED
    BY <1>1, <1>3, <1>4 DEF RegisteredSources

LEMMA ContextsTypes ==
    ASSUME ScopeTypes, NEW t \in Threads, NEW a \in Addrs
    PROVE  Contexts(t, a) \in Seq(Names)
  BY DEF ScopeTypes, Contexts

\* The sources and data that a thread's scopes reach end with its blocks.
LEMMA ContextsEndWithNest ==
    ASSUME ScopeInv, profilingOn, NEW t \in Threads, NEW a \in RegisteredSources, a \in Addrs
    PROVE  EndsWith(Contexts(t, a), nest[t], Len(nest[t]))
  <1>1. CASE nest[t] = <<>>
    <2>1. Len(nest[t]) = 0
      BY <1>1, EmptySeq
    <2>2. Len(Contexts(t, a)) \in Nat
      BY ContextsTypes, LenProperties DEF ScopeInv
    <2> QED
      BY <2>1, <2>2 DEF EndsWith
  <1>2. CASE nest[t] # <<>>
    <2>1. a \in seen[t] /\ EndsWith(stack[t][a], nest[t], Len(nest[t]))
      BY <1>2 DEF ScopeInv, StacksEndWithNest
    <2> QED
      BY <2>1 DEF Contexts
  <1> QED
    BY <1>1, <1>2

-----------------------------------------------------------------------------
(* The session operations find no scope and no op open                     *)

\* What a session operation does to the scopes and ops, when none is open.
Toggle ==
    /\ launching = {}
    /\ \A u \in Threads : nest[u] = <<>>
    /\ op' = op
    /\ nest' = nest
    /\ launching' = launching
    /\ unbalanced' = unbalanced
    /\ profilingOn' \in BOOLEAN
    /\ stack' \in [Threads -> [Addrs -> Seq(Names)]]
    /\ \A u \in Threads, a \in Addrs : stack'[u][a] = stack[u][a] \/ stack'[u][a] = <<>>
    /\ seen' \in [Threads -> SUBSET Addrs]
    /\ mainThread' \in [Addrs -> Threads]
    /\ \A a \in Addrs : mainThread'[a] = mainThread[a] \/ mainThread'[a] \in Starters
    /\ nodes' \in [Ids -> SUBSET Node]
    /\ \A i \in Ids : nodes'[i] \subseteq nodes[i]

LEMMA RemovedTypes ==
    ASSUME ScopeTypes, NEW t \in Threads, NEW S, Removed(t, S) \/ UNCHANGED <<sourceVars, nodes>>
    PROVE  /\ stack' \in [Threads -> [Addrs -> Seq(Names)]]
           /\ \A u \in Threads, a \in Addrs : stack'[u][a] = stack[u][a] \/ stack'[u][a] = <<>>
           /\ seen' \in [Threads -> SUBSET Addrs]
           /\ mainThread' = mainThread
           /\ nodes' \in [Ids -> SUBSET Node]
           /\ \A i \in Ids : nodes'[i] \subseteq nodes[i]
  <1>1. CASE UNCHANGED <<sourceVars, nodes>>
    BY <1>1 DEF ScopeTypes, sourceVars
  <1>2. CASE Removed(t, S)
    <2> DEFINE sources == {session[i].source : i \in S}
               own == [a \in Addrs |-> IF a \in sources THEN <<>> ELSE stack[t][a]]
    <2>1. /\ stack' = [stack EXCEPT ![t] = own]
          /\ seen' = [seen EXCEPT ![t] = seen[t] \ sources]
          /\ nodes' = [i \in Ids |-> IF i \in S THEN {} ELSE nodes[i]]
          /\ mainThread' = mainThread
      BY <1>2 DEF Removed
    <2>2. own \in [Addrs -> Seq(Names)] /\ \A a \in Addrs : own[a] = stack[t][a] \/ own[a] = <<>>
      <3>1. <<>> \in Seq(Names) /\ \A a \in Addrs : stack[t][a] \in Seq(Names)
        BY EmptySeq DEF ScopeTypes
      <3> HIDE DEF sources
      <3> QED
        BY <3>1
    <2> HIDE DEF sources, own
    <2> QED
      BY <2>1, <2>2 DEF ScopeTypes
  <1> QED
    BY <1>1, <1>2

LEMMA ToggleSteps ==
    ASSUME ManagerInv, ScopeTypes, ~ToggleInScope, NEW t \in Starters,
           \/ \E path \in Paths : Restart(t, path)
           \/ \E path \in Paths, p \in Profilers, m \in Modes : RefuseStart(t, path, p, m)
           \/ \E path \in Paths, p \in Profilers, m \in Modes, a \in Addrs : Start(t, path, p, m, a)
           \/ \E S \in {Live} \cup {{i} : i \in Live} : Activate(t, S) \/ Deactivate(t, S)
           \/ \E i \in Live, dumped \in BOOLEAN : Finalize(t, i, dumped)
           \/ \E dumped \in BOOLEAN : FinalizeAll(t, dumped)
    PROVE  Toggle
  <1> DEFINE Quiet == launching = {} /\ \A u \in Threads : nest[u] = <<>>
             ClientKept == op' = op /\ nest' = nest /\ launching' = launching /\ unbalanced' = unbalanced
                              /\ profilingOn' \in BOOLEAN
             SourcesKept ==
                /\ stack' \in [Threads -> [Addrs -> Seq(Names)]]
                /\ \A u \in Threads, a \in Addrs : stack'[u][a] = stack[u][a] \/ stack'[u][a] = <<>>
                /\ seen' \in [Threads -> SUBSET Addrs]
                /\ mainThread' \in [Addrs -> Threads]
                /\ \A a \in Addrs : mainThread'[a] = mainThread[a] \/ mainThread'[a] \in Starters
             NodesKept == nodes' \in [Ids -> SUBSET Node] /\ \A i \in Ids : nodes'[i] \subseteq nodes[i]
  <1>0. t \in Threads
    BY StartersAssumption
  <1>1. ASSUME MayToggle(t) PROVE Quiet
    BY <1>1 DEF MayToggle
  <1>2. ASSUME UNCHANGED <<sourceVars, nodes>> PROVE SourcesKept /\ NodesKept
    BY <1>2 DEF ScopeTypes, sourceVars
  <1>3. ASSUME NEW path \in Paths, Restart(t, path) PROVE Toggle
    <2>1. MayToggle(t) /\ ClientKept /\ UNCHANGED <<sourceVars, nodes>>
      BY <1>3 DEF Restart
    <2> QED
      BY <2>1, <1>1, <1>2 DEF Toggle
  <1>4. ASSUME NEW path \in Paths, NEW p \in Profilers, NEW m \in Modes, RefuseStart(t, path, p, m)
        PROVE  Toggle
    <2>1. MayToggle(t) /\ ClientKept /\ UNCHANGED <<sourceVars, nodes>>
      BY <1>4 DEF RefuseStart
    <2> QED
      BY <2>1, <1>1, <1>2 DEF Toggle
  <1>5. ASSUME NEW path \in Paths, NEW p \in Profilers, NEW m \in Modes, NEW a \in Addrs,
               Start(t, path, p, m, a)
        PROVE  Toggle
    <2>1. MayToggle(t) /\ ClientKept
      BY <1>5 DEF Start
    <2>2. stack' = stack /\ nodes' = nodes /\ mainThread' = [mainThread EXCEPT ![a] = t]
          /\ seen' = [seen EXCEPT ![t] = seen[t] \cup {a}]
      BY <1>5 DEF Start
    <2>3. SourcesKept
      BY <2>2, <1>0 DEF ScopeTypes
    <2>4. NodesKept
      BY <2>2 DEF ScopeTypes
    <2> QED
      BY <2>1, <2>3, <2>4, <1>1 DEF Toggle
  <1>6. ASSUME NEW S, Activate(t, S) \/ Deactivate(t, S) PROVE Toggle
    <2>1. MayToggle(t) /\ UNCHANGED <<sourceVars, nodes>> /\ op' = op /\ unbalanced' = unbalanced
          /\ UNCHANGED clientVars
      BY <1>6 DEF Activate, Deactivate
    <2>2. ClientKept
      BY <2>1 DEF clientVars, ScopeTypes
    <2> QED
      BY <2>1, <2>2, <1>1, <1>2 DEF Toggle
  <1>7. ASSUME NEW S, Removed(t, S) \/ UNCHANGED <<sourceVars, nodes>> PROVE SourcesKept /\ NodesKept
    BY <1>0, <1>7, RemovedTypes DEF ScopeTypes
  <1>8. ASSUME NEW i \in Live, NEW dumped \in BOOLEAN, Finalize(t, i, dumped) PROVE Toggle
    <2>1. MayToggle(t) /\ op' = op /\ unbalanced' = unbalanced /\ UNCHANGED clientVars
      BY <1>8 DEF Finalize
    <2>2. ClientKept
      BY <2>1 DEF clientVars, ScopeTypes
    <2>3. Removed(t, {i}) \/ UNCHANGED <<sourceVars, nodes>>
      BY <1>8 DEF Finalize
    <2> QED
      BY <2>1, <2>2, <2>3, <1>1, <1>7 DEF Toggle
  <1>9. ASSUME NEW dumped \in BOOLEAN, FinalizeAll(t, dumped) PROVE Toggle
    <2>1. MayToggle(t) /\ ClientKept
      BY <1>9 DEF FinalizeAll
    <2>2. \E S : Removed(t, S) \/ UNCHANGED <<sourceVars, nodes>>
      BY <1>9 DEF FinalizeAll
    <2> QED
      BY <2>1, <2>2, <1>1, <1>7 DEF Toggle
  <1> HIDE DEF Quiet, ClientKept, SourcesKept, NodesKept
  <1> QED
    BY <1>3, <1>4, <1>5, <1>6, <1>8, <1>9

\* While no scope is open nothing is recorded for one.
LEMMA NoNodesWhenQuiet ==
    ASSUME ScopeInv, \A u \in Threads : nest[u] = <<>>, NEW i \in Ids
    PROVE  nodes[i] = {}
  <1> SUFFICES ASSUME NEW n \in nodes[i] PROVE FALSE
    OBVIOUS
  <1>1. n.thread \in Threads /\ n.depth \in Nat \ {0}
    BY DEF ScopeInv, ScopeTypes, Node
  <1>2. n.depth <= Len(nest[n.thread])
    BY DEF ScopeInv, NodesOfNest
  <1>3. Len(nest[n.thread]) = 0
    BY <1>1, EmptySeq
  <1> QED
    BY <1>1, <1>2, <1>3

LEMMA ToggledScopes ==
    ASSUME ScopeInv, Toggle
    PROVE  ScopeInv'
  <1>1. /\ launching = {} /\ \A u \in Threads : nest[u] = <<>>
        /\ op' = op /\ nest' = nest /\ launching' = launching /\ unbalanced' = unbalanced
    BY DEF Toggle
  <1>2. ScopeTypes'
    BY DEF Toggle, ScopeInv, ScopeTypes
  <1>3. \A u \in Threads : Len(nest'[u]) = 0
    BY <1>1, EmptySeq
  <1>4. AllOrNoneSent'
    BY <1>3 DEF AllOrNoneSent
  <1>5. StacksEndWithNest'
    BY <1>1 DEF StacksEndWithNest
  <1>6. \A i \in Ids : nodes'[i] = {}
    <2>1. TAKE i \in Ids
    <2>2. nodes[i] = {}
      BY <1>1, NoNodesWhenQuiet
    <2> QED
      BY <2>2 DEF Toggle
  <1>7. NodesOfNest'
    BY <1>6 DEF NodesOfNest
  <1>8. \A u \in Threads, p \in Profilers : op'[u][p] = NoOp
    BY <1>1 DEF ScopeInv, OpsInProgress
  <1>9. OpsInProgress'
    BY <1>8 DEF OpsInProgress, NoOp
  <1> QED
    BY <1>1, <1>2, <1>4, <1>5, <1>7, <1>9 DEF ScopeInv

LEMMA ToggledLengths ==
    ASSUME ScopeInv, LengthInv, Toggle
    PROVE  LengthInv'
  <1>1. /\ \A u \in Threads : nest[u] = <<>>
        /\ nest' = nest
    BY DEF Toggle
  <1>2. \A u \in Threads : Len(nest'[u]) = 0 /\ Len(nest[u]) = 0
    BY <1>1, EmptySeq
  <1>3. \A u \in Threads : \A a \in Addrs : Pushes(u, a) = 0 /\ Pushes(u, a)' = 0
    BY <1>2 DEF Pushes
  <1>4. \A u \in Threads : \A a \in Addrs :
           Len(stack'[u][a]) = Len(stack[u][a]) \/ Len(stack'[u][a]) = 0
    <2>1. Len(<<>>) = 0
      BY EmptySeq
    <2> QED
      BY <2>1 DEF Toggle
  <1>5. MaxDepth \in Nat /\ Starters \subseteq Threads
    BY BoundsAssumption, StartersAssumption
  <1>6. \A a \in Addrs : mainThread'[a] \in Starters
    BY DEF Toggle, LengthInv
  <1>7. \A s \in Starters, a \in Addrs : Len(stack'[s][a]) = Pushes(s, a)'
    <2>1. TAKE s \in Starters, a \in Addrs
    <2>2. s \in Threads /\ Len(stack[s][a]) = Pushes(s, a)
      BY <1>5 DEF LengthInv
    <2> QED
      BY <2>2, <1>3, <1>4
  <1>8. \A u \in Threads, a \in Addrs : Len(stack'[u][a]) <= MaxDepth + Pushes(u, a)'
    <2>1. TAKE u \in Threads, a \in Addrs
    <2>2. Len(stack[u][a]) <= MaxDepth + Pushes(u, a)
      BY DEF LengthInv
    <2>3. Pushes(u, a) = 0 /\ Pushes(u, a)' = 0
      BY <1>3
    <2>4. Len(stack'[u][a]) = Len(stack[u][a]) \/ Len(stack'[u][a]) = 0
      BY <1>4
    <2>5. Len(stack'[u][a]) <= MaxDepth + 0
      BY <2>2, <2>3, <2>4, <1>5
    <2> QED
      BY <2>3, <2>5
  <1>9. \A i \in Ids : \A n \in nodes'[i] : Len(n.path) <= 2 * MaxDepth
    BY DEF Toggle, LengthInv
  <1> QED
    BY <1>6, <1>7, <1>8, <1>9 DEF LengthInv

-----------------------------------------------------------------------------
(* The calls of scopes and ops                                             *)

\* The sessions and their registrations are not touched by them.
LEMMA SourcesUnchanged ==
    ASSUME UNCHANGED managerVars
    PROVE  RegisteredSources' = RegisteredSources
  BY DEF managerVars, RegisteredSources

\* What entering a block with profiling on does to the thread's own state.
LEMMA EnteredState ==
    ASSUME ManagerInv, ScopeTypes, NEW t \in Threads, NEW name \in Names, EnterScope(t, name)
    PROVE  LET block == [name |-> name, sent |-> profilingOn]
           IN  /\ block \in Block
               /\ nest' \in [Threads -> Seq(Block)]
               /\ nest'[t] = Append(nest[t], block)
               /\ Len(nest'[t]) = Len(nest[t]) + 1 /\ Len(nest[t]) < MaxDepth
               /\ \A k \in 1 .. Len(nest[t]) : nest'[t][k] = nest[t][k]
               /\ nest'[t][Len(nest[t]) + 1] = block
               /\ \A u \in Threads \ {t} : nest'[u] = nest[u]
               /\ stack' \in [Threads -> [Addrs -> Seq(Names)]]
               /\ \A u \in Threads \ {t} : stack'[u] = stack[u]
               /\ profilingOn =>
                     \A a \in Addrs : stack'[t][a] =
                        IF a \in RegisteredSources THEN Append(Contexts(t, a), name) ELSE stack[t][a]
               /\ ~profilingOn => stack' = stack /\ seen' = seen /\ nodes' = nodes
               /\ seen' \in [Threads -> SUBSET Addrs]
               /\ \A u \in Threads : seen[u] \subseteq seen'[u]
               /\ profilingOn => RegisteredSources \subseteq seen'[t]
  <1> DEFINE block == [name |-> name, sent |-> profilingOn]
             own == [a \in Addrs |->
                        IF a \in RegisteredSources THEN Append(Contexts(t, a), name) ELSE stack[t][a]]
  <1>1. /\ nest' = [nest EXCEPT ![t] = Append(nest[t], block)]
        /\ Len(nest[t]) < MaxDepth
        /\ profilingOn => /\ stack' = [stack EXCEPT ![t] = own]
                          /\ seen' = [seen EXCEPT ![t] = seen[t] \cup RegisteredSources]
        /\ ~profilingOn => stack' = stack /\ seen' = seen /\ nodes' = nodes
    BY DEF EnterScope, Enter, Pushed
  <1>2. block \in Block
    BY DEF Block, ScopeTypes
  <1>3. own \in [Addrs -> Seq(Names)]
    <2>1. \A a \in Addrs : Append(Contexts(t, a), name) \in Seq(Names) /\ stack[t][a] \in Seq(Names)
      BY ContextsTypes, AppendProperties DEF ScopeTypes
    <2> QED
      BY <2>1
  <1>4. \A a \in Addrs : own[a] =
           IF a \in RegisteredSources THEN Append(Contexts(t, a), name) ELSE stack[t][a]
    OBVIOUS
  <1> HIDE DEF own, block
  <1>5. nest[t] \in Seq(Block)
    BY DEF ScopeTypes
  <1>6. /\ Append(nest[t], block) \in Seq(Block)
        /\ Len(Append(nest[t], block)) = Len(nest[t]) + 1
        /\ \A k \in 1 .. Len(nest[t]) : Append(nest[t], block)[k] = nest[t][k]
        /\ Append(nest[t], block)[Len(nest[t]) + 1] = block
    BY <1>2, <1>5, AppendProperties
  <1>7. /\ nest' \in [Threads -> Seq(Block)] /\ nest'[t] = Append(nest[t], block)
        /\ \A u \in Threads \ {t} : nest'[u] = nest[u]
    BY <1>1, <1>6 DEF ScopeTypes
  <1>8. /\ stack' \in [Threads -> [Addrs -> Seq(Names)]]
        /\ \A u \in Threads \ {t} : stack'[u] = stack[u]
        /\ profilingOn => stack'[t] = own
    <2>1. CASE profilingOn
      <3>1. stack' = [stack EXCEPT ![t] = own]
        BY <2>1, <1>1
      <3> QED
        BY <3>1, <1>3 DEF ScopeTypes
    <2>2. CASE ~profilingOn
      <3>1. stack' = stack
        BY <2>2, <1>1
      <3> QED
        BY <3>1, <2>2 DEF ScopeTypes
    <2> QED
      BY <2>1, <2>2
  <1>9. /\ seen' \in [Threads -> SUBSET Addrs]
        /\ \A u \in Threads : seen[u] \subseteq seen'[u]
        /\ profilingOn => RegisteredSources \subseteq seen'[t]
    <2>1. CASE profilingOn
      <3>1. seen' = [seen EXCEPT ![t] = seen[t] \cup RegisteredSources] /\ RegisteredSources \subseteq Addrs
        BY <2>1, <1>1, RegisteredTypes
      <3>2. seen[t] \cup RegisteredSources \in SUBSET Addrs
        BY <3>1 DEF ScopeTypes
      <3>3. seen' \in [Threads -> SUBSET Addrs]
        BY <3>1, <3>2 DEF ScopeTypes
      <3>4. \A u \in Threads : seen[u] \subseteq seen'[u]
        BY <3>1 DEF ScopeTypes
      <3>5. RegisteredSources \subseteq seen'[t]
        BY <3>1 DEF ScopeTypes
      <3> QED
        BY <3>3, <3>4, <3>5
    <2>2. CASE ~profilingOn
      <3>1. seen' = seen
        BY <2>2, <1>1
      <3> QED
        BY <3>1, <2>2 DEF ScopeTypes
    <2> QED
      BY <2>1, <2>2
  <1>10. profilingOn =>
           \A a \in Addrs : stack'[t][a] =
              IF a \in RegisteredSources THEN Append(Contexts(t, a), name) ELSE stack[t][a]
    BY <1>4, <1>8
  <1>11. /\ Len(nest'[t]) = Len(nest[t]) + 1
         /\ \A k \in 1 .. Len(nest[t]) : nest'[t][k] = nest[t][k]
         /\ nest'[t][Len(nest[t]) + 1] = block
    BY <1>6, <1>7
  <1>12. ~profilingOn => stack' = stack /\ seen' = seen /\ nodes' = nodes
    BY <1>1
  <1>13. Len(nest[t]) < MaxDepth
    BY <1>1
  <1> QED
    BY <1>2, <1>7, <1>8, <1>9, <1>10, <1>11, <1>12, <1>13 DEF block

\* What is recorded for the block that is entered, and for those around it.
LEMMA EnteredNodes ==
    ASSUME ManagerInv, ScopeTypes, NEW t \in Threads, NEW name \in Names, EnterScope(t, name),
           profilingOn
    PROVE  /\ nodes' \in [Ids -> SUBSET Node]
           /\ \A i \in Ids : \A n \in nodes'[i] :
                 \/ n \in nodes[i]
                 \/ /\ i \in Range(scopeOrder)
                    /\ n.thread = t
                    /\ n.depth = Len(nest'[t])
                    /\ n.path = stack'[t][session[i].source]
  <1> DEFINE new(i) == [thread |-> t, depth |-> Len(nest'[t]), path |-> stack'[t][session[i].source]]
  <1>1. Len(nest[t]) \in Nat /\ Len(nest'[t]) = Len(nest[t]) + 1
        /\ stack' \in [Threads -> [Addrs -> Seq(Names)]]
    BY EnteredState, LenProperties DEF ScopeTypes
  <1>2. nodes' = [i \in Ids |->
            IF i \in Range(scopeOrder) THEN nodes[i] \cup {new(i)} ELSE nodes[i]]
    BY DEF EnterScope, Enter
  <1>3. \A i \in Range(scopeOrder) : session[i].source \in Addrs
    BY RegisteredTypes
  <1>4. \A i \in Range(scopeOrder) : new(i) \in Node
    BY <1>1, <1>3 DEF Node
  <1>5. \A i \in Ids : (IF i \in Range(scopeOrder) THEN nodes[i] \cup {new(i)} ELSE nodes[i]) \in SUBSET Node
    BY <1>4 DEF ScopeTypes
  <1>6. \A i : new(i).thread = t /\ new(i).depth = Len(nest'[t])
                 /\ new(i).path = stack'[t][session[i].source]
    OBVIOUS
  <1> HIDE DEF new
  <1>7. nodes' \in [Ids -> SUBSET Node]
    BY <1>2, <1>5
  <1>8. \A i \in Ids : \A n \in nodes'[i] : n \in nodes[i] \/ (i \in Range(scopeOrder) /\ n = new(i))
    BY <1>2
  <1> QED
    BY <1>6, <1>7, <1>8

\* Entering a block: its scope is pushed on every stack that is kept of it.
LEMMA EnteredScopes ==
    ASSUME ManagerInv, ScopeInv, NEW t \in Threads, NEW name \in Names, EnterScope(t, name)
    PROVE  ScopeInv'
  <1> DEFINE block == [name |-> name, sent |-> profilingOn]
             d == Len(nest[t])
  <1>0. ScopeTypes /\ d \in Nat
    BY LenProperties DEF ScopeInv, ScopeTypes
  <1>1. /\ block \in Block
        /\ nest' \in [Threads -> Seq(Block)]
        /\ nest'[t] = Append(nest[t], block)
        /\ Len(nest'[t]) = d + 1 /\ d < MaxDepth
        /\ \A k \in 1 .. d : nest'[t][k] = nest[t][k]
        /\ nest'[t][d + 1] = block
        /\ \A u \in Threads \ {t} : nest'[u] = nest[u]
    BY <1>0, EnteredState
  <1>2. /\ stack' \in [Threads -> [Addrs -> Seq(Names)]]
        /\ \A u \in Threads \ {t} : stack'[u] = stack[u]
        /\ profilingOn =>
              \A a \in RegisteredSources : stack'[t][a] = Append(Contexts(t, a), name) /\ a \in Addrs
        /\ ~profilingOn => stack' = stack /\ seen' = seen /\ nodes' = nodes
        /\ seen' \in [Threads -> SUBSET Addrs]
        /\ \A u \in Threads : seen[u] \subseteq seen'[u]
        /\ profilingOn => RegisteredSources \subseteq seen'[t]
    BY <1>0, EnteredState, RegisteredTypes
  <1>3. /\ UNCHANGED managerVars /\ mainThread' = mainThread /\ op' = op
        /\ profilingOn' = profilingOn /\ launching' = launching /\ unbalanced' = unbalanced
    BY DEF EnterScope, Enter
  <1>4. RegisteredSources' = RegisteredSources /\ scopeOrder' = scopeOrder
        /\ opCount' = opCount /\ active' = active
    BY <1>3, SourcesUnchanged DEF managerVars
  <1>5. block.sent = profilingOn /\ block.name = name
    OBVIOUS
  <1> HIDE DEF block, d
  <1>6. nodes' \in [Ids -> SUBSET Node]
    <2>1. CASE profilingOn
      BY <2>1, <1>0, EnteredNodes
    <2>2. CASE ~profilingOn
      BY <2>2, <1>0, <1>2 DEF ScopeTypes
    <2> QED
      BY <2>1, <2>2
  <1>7. ScopeTypes'
    <2>1. ASSUME NEW u \in Threads PROVE Len(nest'[u]) <= MaxDepth
      <3>1. CASE u = t
        <4>1. d + 1 <= MaxDepth
          BY <1>0, <1>1, BoundsAssumption
        <4> QED
          BY <3>1, <4>1, <1>1
      <3>2. CASE u # t
        BY <3>2, <1>0, <1>1 DEF ScopeTypes
      <3> QED
        BY <3>1, <3>2
    <2> QED
      BY <2>1, <1>0, <1>1, <1>2, <1>3, <1>6 DEF ScopeTypes
  <1>8. AllOrNoneSent'
    <2>1. ASSUME NEW u \in Threads, NEW k \in 1 .. Len(nest'[u]) PROVE nest'[u][k].sent = profilingOn
      <3>1. CASE u # t
        BY <3>1, <2>1, <1>1 DEF ScopeInv, AllOrNoneSent
      <3>2. CASE u = t /\ k = d + 1
        BY <3>2, <1>1, <1>5
      <3>3. CASE u = t /\ k # d + 1
        <4>1. k \in 1 .. d
          BY <3>3, <2>1, <1>0, <1>1
        <4>2. nest'[t][k] = nest[t][k] /\ nest[t][k].sent = profilingOn
          BY <4>1, <1>1 DEF ScopeInv, AllOrNoneSent, d
        <4> QED
          BY <4>2, <3>3
      <3> QED
        BY <3>1, <3>2, <3>3
    <2> QED
      BY <2>1, <1>3 DEF AllOrNoneSent
  <1>9. ASSUME profilingOn, NEW a \in RegisteredSources
        PROVE  EndsWith(stack'[t][a], nest'[t], Len(nest'[t]))
    <2>1. a \in Addrs /\ stack'[t][a] = Append(Contexts(t, a), name)
      BY <1>2, <1>9
    <2>2. EndsWith(Contexts(t, a), nest[t], Len(nest[t])) /\ Contexts(t, a) \in Seq(Names)
      BY <2>1, <1>0, <1>9, ContextsEndWithNest, ContextsTypes
    <2>3. nest[t] \in Seq(Block)
      BY <1>0 DEF ScopeTypes
    <2>4. EndsWith(Append(Contexts(t, a), block.name), Append(nest[t], block), Len(Append(nest[t], block)))
      BY <2>2, <2>3, <1>1, EndsWithAppended
    <2> QED
      BY <2>1, <2>4, <1>1, <1>5
  <1>10. StacksEndWithNest'
    <2>1. ASSUME NEW u \in Threads, nest'[u] # <<>>, profilingOn, NEW a \in RegisteredSources
          PROVE  a \in seen'[u] /\ EndsWith(stack'[u][a], nest'[u], Len(nest'[u]))
      <3>1. CASE u = t
        BY <3>1, <2>1, <1>2, <1>9
      <3>2. CASE u # t
        <4>1. nest'[u] = nest[u] /\ stack'[u] = stack[u]
          BY <3>2, <1>1, <1>2
        <4>2. a \in seen[u] /\ EndsWith(stack[u][a], nest[u], Len(nest[u]))
          BY <4>1, <2>1 DEF ScopeInv, StacksEndWithNest
        <4> QED
          BY <4>1, <4>2, <1>2
      <3> QED
        BY <3>1, <3>2
    <2> QED
      BY <2>1, <1>3, <1>4 DEF StacksEndWithNest
  <1>11. ASSUME NEW i \in Ids, NEW n \in nodes[i]
         PROVE  /\ profilingOn
                /\ i \in Range(scopeOrder)
                /\ n.depth <= Len(nest'[n.thread])
                /\ EndsWith(n.path, nest'[n.thread], n.depth)
    <2>1. /\ profilingOn /\ i \in Range(scopeOrder)
          /\ n.depth <= Len(nest[n.thread])
          /\ EndsWith(n.path, nest[n.thread], n.depth)
      BY <1>11 DEF ScopeInv, NodesOfNest
    <2>2. n.thread \in Threads /\ n.depth \in Nat
      BY <1>0, <1>11 DEF ScopeTypes, Node
    <2>3. CASE n.thread = t
      <3>1. n.depth <= d + 1 /\ n.depth <= d
        BY <2>1, <2>2, <2>3, <1>0 DEF d
      <3>2. \A k \in 1 .. n.depth : nest'[t][k] = nest[t][k]
        BY <3>1, <2>2, <1>0, <1>1
      <3> QED
        BY <3>1, <3>2, <2>1, <2>3, <1>1 DEF EndsWith
    <2>4. CASE n.thread # t
      BY <2>1, <2>2, <2>4, <1>1
    <2> QED
      BY <2>1, <2>3, <2>4
  <1>12. NodesOfNest'
    <2>1. ASSUME NEW i \in Ids, NEW n \in nodes'[i]
          PROVE  /\ profilingOn
                 /\ i \in Range(scopeOrder)
                 /\ n.depth <= Len(nest'[n.thread])
                 /\ EndsWith(n.path, nest'[n.thread], n.depth)
      <3>1. CASE n \in nodes[i]
        BY <3>1, <1>11
      <3>2. CASE n \notin nodes[i]
        <4>1. profilingOn
          BY <3>2, <2>1, <1>2
        <4>2. /\ i \in Range(scopeOrder)
              /\ n.thread = t
              /\ n.depth = Len(nest'[t])
              /\ n.path = stack'[t][session[i].source]
          BY <3>2, <4>1, <2>1, <1>0, EnteredNodes
        <4>3. session[i].source \in RegisteredSources
          BY <4>2, RegisteredTypes
        <4>4. EndsWith(n.path, nest'[t], n.depth)
          BY <4>1, <4>2, <4>3, <1>9
        <4>5. n.depth <= Len(nest'[t])
          BY <4>2, <1>0, <1>1
        <4> QED
          BY <4>1, <4>2, <4>4, <4>5
      <3> QED
        BY <3>1, <3>2
    <2> QED
      BY <2>1, <1>3, <1>4 DEF NodesOfNest
  <1>13. OpsInProgress'
    BY <1>3, <1>4 DEF ScopeInv, OpsInProgress
  <1> QED
    BY <1>3, <1>7, <1>8, <1>10, <1>12, <1>13 DEF ScopeInv

\* Leaving a block: no registered source throws, and each pops its scope.
LEMMA ExitedState ==
    ASSUME ManagerInv, ScopeInv, NEW t \in Threads, ExitScope(t)
    PROVE  /\ nest[t] \in Seq(Block) /\ nest[t] # <<>>
           /\ nest' = [nest EXCEPT ![t] = Front(nest[t])]
           /\ unbalanced' = FALSE
           /\ profilingOn => stack' = Popped(t, RegisteredSources)
           /\ profilingOn =>
                 nodes' = [i \in Ids |->
                    IF i \in Range(scopeOrder)
                    THEN {n \in nodes[i] : n.thread # t \/ n.depth # Len(nest[t])}
                    ELSE nodes[i]]
           /\ ~profilingOn => stack' = stack /\ nodes' = nodes
  <1> DEFINE scope == Last(nest[t])
             thrower == {k \in DOMAIN scopeOrder : ExitThrows(t, scope.name, scopeOrder[k])}
             ReachedFrom(k) == {scopeOrder[n] : n \in k .. Len(scopeOrder)}
             stop == IF thrower = {} THEN 0 ELSE CHOOSE k \in thrower : \A n \in thrower : n <= k
             popped == {session[i].source : i \in ReachedFrom(stop + 1)}
  <1>1. /\ nest[t] # <<>>
        /\ nest' = [nest EXCEPT ![t] = Front(nest[t])]
        /\ IF profilingOn /\ scope.sent
           THEN /\ stack' = Popped(t, popped)
                /\ nodes' = [i \in Ids |->
                      IF i \in ReachedFrom(IF stop = 0 THEN 1 ELSE stop)
                      THEN {n \in nodes[i] : n.thread # t \/ n.depth # Len(nest[t])}
                      ELSE nodes[i]]
                /\ unbalanced' = (unbalanced \/ thrower # {})
           ELSE UNCHANGED <<stack, nodes, unbalanced>>
    BY DEF ExitScope
  <1>2. nest[t] \in Seq(Block) /\ ScopeTypes /\ unbalanced = FALSE
    BY DEF ScopeInv, ScopeTypes
  <1>3. Len(nest[t]) \in Nat \ {0} /\ scope = nest[t][Len(nest[t])]
    BY <1>1, <1>2, FrontProperties
  <1>4. scope.sent = profilingOn
    BY <1>3 DEF ScopeInv, AllOrNoneSent
  <1> HIDE DEF scope
  <1>5. CASE ~profilingOn
    BY <1>1, <1>2, <1>4, <1>5
  <1>6. CASE profilingOn
    <2>1. ASSUME NEW k \in DOMAIN scopeOrder PROVE ~ExitThrows(t, scope.name, scopeOrder[k])
      <3> DEFINE a == session[scopeOrder[k]].source
      <3>1. a \in RegisteredSources /\ a \in Addrs
        BY <2>1, RegisteredTypes
      <3>2. EndsWith(stack[t][a], nest[t], Len(nest[t])) /\ stack[t][a] \in Seq(Names)
        BY <3>1, <1>1, <1>2, <1>6 DEF ScopeInv, StacksEndWithNest, ScopeTypes
      <3>3. stack[t][a] # <<>> /\ Last(stack[t][a]) = scope.name
        BY <3>2, <1>1, <1>2, EndsWithFront DEF scope
      <3> QED
        BY <3>3 DEF ExitThrows
    <2>2. thrower = {}
      BY <2>1
    <2>3. stop = 0
      BY <2>2
    <2> HIDE DEF thrower, stop
    <2>4. ReachedFrom(1) = Range(scopeOrder)
      BY RegisteredTypes
    <2>5. ReachedFrom(stop + 1) = Range(scopeOrder) /\ ReachedFrom(IF stop = 0 THEN 1 ELSE stop) = Range(scopeOrder)
      BY <2>3, <2>4
    <2> HIDE DEF ReachedFrom
    <2>6. popped = RegisteredSources
      BY <2>5 DEF RegisteredSources
    <2> HIDE DEF popped
    <2>7. /\ stack' = Popped(t, popped)
          /\ nodes' = [i \in Ids |->
                IF i \in ReachedFrom(IF stop = 0 THEN 1 ELSE stop)
                THEN {n \in nodes[i] : n.thread # t \/ n.depth # Len(nest[t])}
                ELSE nodes[i]]
          /\ unbalanced' = (unbalanced \/ thrower # {})
      BY <1>1, <1>4, <1>6
    <2>8. unbalanced' = FALSE
      BY <2>2, <2>7, <1>2
    <2>9. nodes' = [i \in Ids |->
             IF i \in Range(scopeOrder)
             THEN {n \in nodes[i] : n.thread # t \/ n.depth # Len(nest[t])}
             ELSE nodes[i]]
      BY <2>5, <2>7
    <2> QED
      BY <2>6, <2>7, <2>8, <2>9, <1>1, <1>2, <1>6
  <1> QED
    BY <1>5, <1>6

\* What is left of the thread's own state, in full.
LEMMA ExitedParts ==
    ASSUME ManagerInv, ScopeInv, NEW t \in Threads, ExitScope(t)
    PROVE  /\ nest' \in [Threads -> Seq(Block)]
           /\ nest'[t] = Front(nest[t])
           /\ Len(nest[t]) \in Nat \ {0}
           /\ Len(nest'[t]) = Len(nest[t]) - 1
           /\ \A k \in 1 .. Len(nest[t]) - 1 : nest'[t][k] = nest[t][k]
           /\ \A u \in Threads \ {t} : nest'[u] = nest[u]
           /\ stack' \in [Threads -> [Addrs -> Seq(Names)]]
           /\ \A u \in Threads \ {t} : stack'[u] = stack[u]
           /\ \A a \in Addrs : stack'[t][a] =
                 IF profilingOn /\ a \in RegisteredSources THEN Front(stack[t][a]) ELSE stack[t][a]
           /\ profilingOn => \A a \in RegisteredSources : stack[t][a] # <<>>
           /\ nodes' \in [Ids -> SUBSET Node]
           /\ \A i \in Ids : nodes'[i] \subseteq nodes[i]
           /\ profilingOn =>
                 \A i \in Range(scopeOrder) : \A n \in nodes'[i] :
                    n.thread # t \/ n.depth # Len(nest[t])
  <1>1. /\ nest[t] \in Seq(Block) /\ nest[t] # <<>>
        /\ nest' = [nest EXCEPT ![t] = Front(nest[t])]
        /\ profilingOn => stack' = Popped(t, RegisteredSources)
        /\ profilingOn =>
              nodes' = [i \in Ids |->
                 IF i \in Range(scopeOrder)
                 THEN {n \in nodes[i] : n.thread # t \/ n.depth # Len(nest[t])}
                 ELSE nodes[i]]
        /\ ~profilingOn => stack' = stack /\ nodes' = nodes
    BY ExitedState
  <1>2. ScopeTypes
    BY DEF ScopeInv
  <1>3. /\ Front(nest[t]) \in Seq(Block)
        /\ Len(nest[t]) \in Nat \ {0}
        /\ Len(Front(nest[t])) = Len(nest[t]) - 1
        /\ \A k \in 1 .. Len(nest[t]) - 1 : Front(nest[t])[k] = nest[t][k]
    BY <1>1, FrontProperties
  <1>4. /\ nest' \in [Threads -> Seq(Block)] /\ nest'[t] = Front(nest[t])
        /\ \A u \in Threads \ {t} : nest'[u] = nest[u]
    BY <1>1, <1>2, <1>3 DEF ScopeTypes
  <1>5. ASSUME profilingOn, NEW a \in RegisteredSources
        PROVE  a \in Addrs /\ stack[t][a] \in Seq(Names) /\ stack[t][a] # <<>>
                 /\ Front(stack[t][a]) \in Seq(Names)
    <2>1. a \in Addrs /\ EndsWith(stack[t][a], nest[t], Len(nest[t])) /\ stack[t][a] \in Seq(Names)
      BY <1>1, <1>2, <1>5, RegisteredTypes DEF ScopeInv, StacksEndWithNest, ScopeTypes
    <2>2. stack[t][a] # <<>>
      BY <2>1, <1>1, EndsWithFront
    <2> QED
      BY <2>1, <2>2, FrontProperties
  <1>6. CASE profilingOn
    <2> DEFINE own == [a \in Addrs |->
                          IF a \in RegisteredSources THEN Front(stack[t][a]) ELSE stack[t][a]]
    <2>1. stack' = [stack EXCEPT ![t] = own]
      BY <1>1, <1>6 DEF Popped
    <2>2. own \in [Addrs -> Seq(Names)]
      <3>1. \A a \in Addrs : (IF a \in RegisteredSources THEN Front(stack[t][a]) ELSE stack[t][a]) \in Seq(Names)
        BY <1>2, <1>5, <1>6 DEF ScopeTypes
      <3> QED
        BY <3>1
    <2>3. \A a \in Addrs : own[a] =
             IF a \in RegisteredSources THEN Front(stack[t][a]) ELSE stack[t][a]
      OBVIOUS
    <2> HIDE DEF own
    <2>4. /\ stack' \in [Threads -> [Addrs -> Seq(Names)]]
          /\ \A u \in Threads \ {t} : stack'[u] = stack[u]
          /\ stack'[t] = own
      BY <2>1, <2>2, <1>2 DEF ScopeTypes
    <2>5. nodes' = [i \in Ids |->
             IF i \in Range(scopeOrder)
             THEN {n \in nodes[i] : n.thread # t \/ n.depth # Len(nest[t])}
             ELSE nodes[i]]
      BY <1>1, <1>6
    <2>6. nodes' \in [Ids -> SUBSET Node]
      <3>1. \A i \in Ids : nodes[i] \in SUBSET Node
                 /\ {n \in nodes[i] : n.thread # t \/ n.depth # Len(nest[t])} \in SUBSET Node
        BY <1>2 DEF ScopeTypes
      <3> QED
        BY <3>1, <2>5
    <2>7. \A i \in Range(scopeOrder) : i \in Ids
      BY RegisteredTypes
    <2>8. /\ \A i \in Ids : nodes'[i] \subseteq nodes[i]
          /\ \A i \in Range(scopeOrder) : \A n \in nodes'[i] : n.thread # t \/ n.depth # Len(nest[t])
      BY <2>5, <2>7
    <2> QED
      BY <2>3, <2>4, <2>6, <2>8, <1>3, <1>4, <1>5, <1>6
  <1>7. CASE ~profilingOn
    <2>1. stack' = stack /\ nodes' = nodes
      BY <1>1, <1>7
    <2> QED
      BY <2>1, <1>2, <1>3, <1>4, <1>7 DEF ScopeTypes
  <1> QED
    BY <1>6, <1>7

LEMMA ExitedScopes ==
    ASSUME ManagerInv, ScopeInv, NEW t \in Threads, ExitScope(t)
    PROVE  ScopeInv'
  <1> DEFINE d == Len(nest[t])
  <1>0. ScopeTypes
    BY DEF ScopeInv
  <1>1. /\ nest' \in [Threads -> Seq(Block)]
        /\ nest'[t] = Front(nest[t])
        /\ d \in Nat \ {0}
        /\ Len(nest'[t]) = d - 1
        /\ \A k \in 1 .. d - 1 : nest'[t][k] = nest[t][k]
        /\ \A u \in Threads \ {t} : nest'[u] = nest[u]
    BY ExitedParts
  <1>2. /\ stack' \in [Threads -> [Addrs -> Seq(Names)]]
        /\ \A u \in Threads \ {t} : stack'[u] = stack[u]
        /\ \A a \in Addrs : stack'[t][a] =
              IF profilingOn /\ a \in RegisteredSources THEN Front(stack[t][a]) ELSE stack[t][a]
        /\ nodes' \in [Ids -> SUBSET Node]
        /\ \A i \in Ids : nodes'[i] \subseteq nodes[i]
        /\ profilingOn =>
              \A i \in Range(scopeOrder) : \A n \in nodes'[i] : n.thread # t \/ n.depth # d
    BY ExitedParts
  <1>3. /\ UNCHANGED managerVars /\ mainThread' = mainThread /\ op' = op /\ seen' = seen
        /\ profilingOn' = profilingOn /\ launching' = launching
    BY DEF ExitScope
  <1>4. RegisteredSources' = RegisteredSources /\ scopeOrder' = scopeOrder
        /\ opCount' = opCount /\ active' = active
    BY <1>3, SourcesUnchanged DEF managerVars
  <1>5. unbalanced' = FALSE /\ nest[t] # <<>> /\ nest[t] \in Seq(Block)
    BY ExitedState
  <1> HIDE DEF d
  <1>6. ScopeTypes'
    <2>1. ASSUME NEW u \in Threads PROVE Len(nest'[u]) <= MaxDepth
      <3>1. CASE u = t
        <4>1. d <= MaxDepth
          BY <1>0 DEF ScopeTypes, d
        <4>2. d - 1 <= MaxDepth
          BY <4>1, <1>1, BoundsAssumption
        <4> QED
          BY <3>1, <4>2, <1>1
      <3>2. CASE u # t
        BY <3>2, <1>0, <1>1 DEF ScopeTypes
      <3> QED
        BY <3>1, <3>2
    <2> QED
      BY <2>1, <1>0, <1>1, <1>2, <1>3 DEF ScopeTypes
  <1>7. AllOrNoneSent'
    <2>1. ASSUME NEW u \in Threads, NEW k \in 1 .. Len(nest'[u]) PROVE nest'[u][k].sent = profilingOn
      <3>1. CASE u # t
        BY <3>1, <2>1, <1>1 DEF ScopeInv, AllOrNoneSent
      <3>2. CASE u = t
        <4>1. k \in 1 .. d - 1 /\ k \in 1 .. d
          BY <3>2, <2>1, <1>1
        <4>2. nest'[t][k] = nest[t][k] /\ nest[t][k].sent = profilingOn
          BY <4>1, <1>1 DEF ScopeInv, AllOrNoneSent, d
        <4> QED
          BY <4>2, <3>2
      <3> QED
        BY <3>1, <3>2
    <2> QED
      BY <2>1, <1>3 DEF AllOrNoneSent
  <1>8. StacksEndWithNest'
    <2>1. ASSUME NEW u \in Threads, nest'[u] # <<>>, profilingOn, NEW a \in RegisteredSources
          PROVE  a \in seen'[u] /\ EndsWith(stack'[u][a], nest'[u], Len(nest'[u]))
      <3>1. CASE u = t
        <4>1. a \in Addrs /\ a \in seen[t] /\ EndsWith(stack[t][a], nest[t], Len(nest[t]))
              /\ stack[t][a] \in Seq(Names)
          BY <2>1, <1>0, <1>5, RegisteredTypes DEF ScopeInv, StacksEndWithNest, ScopeTypes
        <4>2. EndsWith(Front(stack[t][a]), Front(nest[t]), Len(Front(nest[t])))
          BY <4>1, <1>5, EndsWithFront
        <4>3. stack'[t][a] = Front(stack[t][a])
          BY <4>1, <2>1, <1>2
        <4> QED
          BY <4>1, <4>2, <4>3, <3>1, <1>1, <1>3
      <3>2. CASE u # t
        <4>1. nest'[u] = nest[u] /\ stack'[u] = stack[u]
          BY <3>2, <1>1, <1>2
        <4>2. a \in seen[u] /\ EndsWith(stack[u][a], nest[u], Len(nest[u]))
          BY <4>1, <2>1 DEF ScopeInv, StacksEndWithNest
        <4> QED
          BY <4>1, <4>2, <1>3
      <3> QED
        BY <3>1, <3>2
    <2> QED
      BY <2>1, <1>3, <1>4 DEF StacksEndWithNest
  <1>9. NodesOfNest'
    <2>1. ASSUME NEW i \in Ids, NEW n \in nodes'[i]
          PROVE  /\ profilingOn
                 /\ i \in Range(scopeOrder)
                 /\ n.depth <= Len(nest'[n.thread])
                 /\ EndsWith(n.path, nest'[n.thread], n.depth)
      <3>0. n \in nodes[i]
        BY <2>1, <1>2
      <3>1. /\ profilingOn /\ i \in Range(scopeOrder)
            /\ n.depth <= Len(nest[n.thread])
            /\ EndsWith(n.path, nest[n.thread], n.depth)
        BY <3>0 DEF ScopeInv, NodesOfNest
      <3>2. n.thread \in Threads /\ n.depth \in Nat
        BY <3>0, <1>0 DEF ScopeTypes, Node
      <3>3. CASE n.thread = t
        <4>1. n.depth # d /\ n.depth <= d
          BY <3>1, <3>3, <2>1, <1>2 DEF d
        <4>2. n.depth <= d - 1
          BY <4>1, <3>2, <1>1
        <4>3. \A k \in 1 .. n.depth : nest'[t][k] = nest[t][k]
          BY <4>2, <3>2, <1>1
        <4> QED
          BY <4>2, <4>3, <3>1, <3>3, <1>1 DEF EndsWith
      <3>4. CASE n.thread # t
        BY <3>1, <3>2, <3>4, <1>1
      <3> QED
        BY <3>1, <3>3, <3>4
    <2> QED
      BY <2>1, <1>3, <1>4 DEF NodesOfNest
  <1>10. OpsInProgress'
    BY <1>3, <1>4 DEF ScopeInv, OpsInProgress
  <1> QED
    BY <1>5, <1>6, <1>7, <1>8, <1>9, <1>10 DEF ScopeInv

\* What the ops of a thread do to its stacks: it copies the stacks it lacks.
LEMMA EnteredOpState ==
    ASSUME ManagerInv, ScopeTypes, NEW t \in Threads, EnterOp(t)
    PROVE  /\ stack' \in [Threads -> [Addrs -> Seq(Names)]]
           /\ \A u \in Threads \ {t} : stack'[u] = stack[u]
           /\ \A a \in Addrs : stack'[t][a] = stack[t][a] \/ stack'[t][a] = Contexts(t, a)
           /\ seen' \in [Threads -> SUBSET Addrs]
           /\ \A u \in Threads : seen[u] \subseteq seen'[u]
           /\ op' \in [Threads -> [Profilers -> Op]]
           /\ \A u \in Threads \ {t} : op'[u] = op[u]
           /\ \A p \in Profilers :
                 \/ op'[t][p] = op[t][p]
                 \/ opCount[p] > 0 /\ op'[t][p] = [busy |-> TRUE, data |-> dataSet[p]]
  <1> DEFINE begins == {p \in Profilers : opCount[p] > 0 /\ ~op[t][p].busy}
             asked == {session[i].source : i \in UNION {dataSet[p] : p \in begins}}
             ops == [p \in Profilers |->
                       IF p \in begins THEN [busy |-> TRUE, data |-> dataSet[p]] ELSE op[t][p]]
             own == [a \in Addrs |-> IF a \in asked THEN Contexts(t, a) ELSE stack[t][a]]
  <1>1. /\ op' = [op EXCEPT ![t] = ops]
        /\ stack' = [stack EXCEPT ![t] = own]
        /\ seen' = [seen EXCEPT ![t] = seen[t] \cup asked]
    BY DEF EnterOp
  <1>2. asked \subseteq Addrs
    <2>1. \A p \in begins : dataSet[p] \subseteq active
      BY DEF ManagerInv
    <2>2. \A i \in active : session[i].source \in Addrs
      BY DEF ManagerInv, Live, SessionRecord
    <2> HIDE DEF begins
    <2> QED
      BY <2>1, <2>2
  <1>3. own \in [Addrs -> Seq(Names)] /\ \A a \in Addrs : own[a] = stack[t][a] \/ own[a] = Contexts(t, a)
    <2>1. \A a \in Addrs : Contexts(t, a) \in Seq(Names) /\ stack[t][a] \in Seq(Names)
      BY ContextsTypes DEF ScopeTypes
    <2> HIDE DEF asked
    <2> QED
      BY <2>1
  <1>4. ops \in [Profilers -> Op]
    <2>1. \A p \in Profilers : op[t][p] \in Op /\ dataSet[p] \in SUBSET Ids
      BY DEF ScopeTypes, ManagerInv, Live
    <2>2. \A p \in Profilers : [busy |-> TRUE, data |-> dataSet[p]] \in Op
      BY <2>1 DEF Op
    <2> HIDE DEF begins
    <2> QED
      BY <2>1, <2>2
  <1>5. \A p \in Profilers :
           \/ ops[p] = op[t][p]
           \/ opCount[p] > 0 /\ ops[p] = [busy |-> TRUE, data |-> dataSet[p]]
    OBVIOUS
  <1> HIDE DEF asked, own, ops
  <1>6. /\ stack' \in [Threads -> [Addrs -> Seq(Names)]]
        /\ \A u \in Threads \ {t} : stack'[u] = stack[u]
        /\ stack'[t] = own
    BY <1>1, <1>3 DEF ScopeTypes
  <1>7. /\ op' \in [Threads -> [Profilers -> Op]]
        /\ \A u \in Threads \ {t} : op'[u] = op[u]
        /\ op'[t] = ops
    BY <1>1, <1>4 DEF ScopeTypes
  <1>8. /\ seen' \in [Threads -> SUBSET Addrs]
        /\ \A u \in Threads : seen[u] \subseteq seen'[u]
    <2>1. seen[t] \cup asked \in SUBSET Addrs
      BY <1>2 DEF ScopeTypes
    <2> QED
      BY <1>1, <2>1 DEF ScopeTypes
  <1> QED
    BY <1>3, <1>5, <1>6, <1>7, <1>8

LEMMA EnteredOpScopes ==
    ASSUME ManagerInv, ScopeInv, NEW t \in Threads, EnterOp(t)
    PROVE  ScopeInv'
  <1>0. ScopeTypes
    BY DEF ScopeInv
  <1>1. /\ stack' \in [Threads -> [Addrs -> Seq(Names)]]
        /\ \A u \in Threads \ {t} : stack'[u] = stack[u]
        /\ \A a \in Addrs : stack'[t][a] = stack[t][a] \/ stack'[t][a] = Contexts(t, a)
        /\ seen' \in [Threads -> SUBSET Addrs]
        /\ \A u \in Threads : seen[u] \subseteq seen'[u]
        /\ op' \in [Threads -> [Profilers -> Op]]
        /\ \A u \in Threads \ {t} : op'[u] = op[u]
        /\ \A p \in Profilers :
              \/ op'[t][p] = op[t][p]
              \/ opCount[p] > 0 /\ op'[t][p] = [busy |-> TRUE, data |-> dataSet[p]]
    BY <1>0, EnteredOpState
  <1>2. /\ UNCHANGED managerVars /\ mainThread' = mainThread /\ nodes' = nodes
        /\ profilingOn' = profilingOn /\ nest' = nest /\ unbalanced' = unbalanced
        /\ launching' = launching \cup {t}
    BY DEF EnterOp
  <1>3. RegisteredSources' = RegisteredSources /\ scopeOrder' = scopeOrder
        /\ opCount' = opCount /\ active' = active
    BY <1>2, SourcesUnchanged DEF managerVars
  <1>4. ScopeTypes'
    BY <1>0, <1>1, <1>2 DEF ScopeTypes
  <1>5. AllOrNoneSent'
    BY <1>2 DEF ScopeInv, AllOrNoneSent
  <1>6. StacksEndWithNest'
    <2>1. ASSUME NEW u \in Threads, nest[u] # <<>>, profilingOn, NEW a \in RegisteredSources
          PROVE  a \in seen'[u] /\ EndsWith(stack'[u][a], nest[u], Len(nest[u]))
      <3>1. a \in Addrs /\ a \in seen[u] /\ EndsWith(stack[u][a], nest[u], Len(nest[u]))
        BY <2>1, RegisteredTypes DEF ScopeInv, StacksEndWithNest
      <3>2. Contexts(u, a) = stack[u][a]
        BY <3>1 DEF Contexts
      <3>3. stack'[u][a] = stack[u][a]
        BY <3>1, <3>2, <1>1
      <3> QED
        BY <3>1, <3>3, <1>1
    <2> QED
      BY <2>1, <1>2, <1>3 DEF StacksEndWithNest
  <1>7. NodesOfNest'
    BY <1>2, <1>3 DEF ScopeInv, NodesOfNest
  <1>8. OpsInProgress'
    <2>1. ASSUME NEW u \in Threads, NEW p \in Profilers, op'[u][p] # NoOp
          PROVE  u \in launching' /\ opCount[p] > 0 /\ op'[u][p].data \subseteq active
      <3>1. CASE op'[u][p] = op[u][p]
        BY <3>1, <2>1, <1>2 DEF ScopeInv, OpsInProgress
      <3>2. CASE op'[u][p] # op[u][p]
        <4>1. u = t /\ opCount[p] > 0 /\ op'[t][p] = [busy |-> TRUE, data |-> dataSet[p]]
          BY <3>2, <1>1
        <4>2. op'[u][p].data = dataSet[p] /\ dataSet[p] \subseteq active
          BY <4>1 DEF ManagerInv
        <4> QED
          BY <4>1, <4>2, <1>2
      <3> QED
        BY <3>1, <3>2
    <2> QED
      BY <2>1, <1>3 DEF OpsInProgress
  <1> QED
    BY <1>2, <1>4, <1>5, <1>6, <1>7, <1>8 DEF ScopeInv

LEMMA ExitedOpScopes ==
    ASSUME ManagerInv, ScopeInv, NEW t \in Threads, ExitOp(t)
    PROVE  ScopeInv'
  <1> DEFINE ops == [p \in Profilers |-> IF opCount[p] > 0 THEN NoOp ELSE op[t][p]]
  <1>0. ScopeTypes
    BY DEF ScopeInv
  <1>1. /\ op' = [op EXCEPT ![t] = ops]
        /\ UNCHANGED managerVars /\ UNCHANGED sourceVars /\ nodes' = nodes
        /\ profilingOn' = profilingOn /\ nest' = nest /\ unbalanced' = unbalanced
        /\ launching' = launching \ {t}
    BY DEF ExitOp
  <1>2. RegisteredSources' = RegisteredSources /\ scopeOrder' = scopeOrder
        /\ opCount' = opCount /\ active' = active
    BY <1>1, SourcesUnchanged DEF managerVars
  <1>3. NoOp \in Op
    BY DEF NoOp, Op
  <1>4. ops \in [Profilers -> Op] /\ \A p \in Profilers : ops[p] = NoOp
    <2>1. \A p \in Profilers : op[t][p] \in Op /\ (op[t][p] # NoOp => opCount[p] > 0)
      BY <1>0 DEF ScopeInv, ScopeTypes, OpsInProgress
    <2> QED
      BY <2>1, <1>3
  <1> HIDE DEF ops
  <1>5. /\ op' \in [Threads -> [Profilers -> Op]]
        /\ \A u \in Threads \ {t} : op'[u] = op[u]
        /\ op'[t] = ops
    BY <1>0, <1>1, <1>4 DEF ScopeTypes
  <1>6. ScopeTypes'
    BY <1>0, <1>1, <1>5 DEF ScopeTypes, sourceVars
  <1>7. AllOrNoneSent' /\ StacksEndWithNest' /\ NodesOfNest'
    BY <1>1, <1>2 DEF ScopeInv, AllOrNoneSent, StacksEndWithNest, NodesOfNest, sourceVars
  <1>8. OpsInProgress'
    <2>1. ASSUME NEW u \in Threads, NEW p \in Profilers, op'[u][p] # NoOp
          PROVE  u \in launching' /\ opCount[p] > 0 /\ op'[u][p].data \subseteq active
      <3>1. u # t
        BY <2>1, <1>4, <1>5
      <3>2. op'[u][p] = op[u][p]
        BY <3>1, <1>5
      <3> QED
        BY <2>1, <3>1, <3>2, <1>1 DEF ScopeInv, OpsInProgress
    <2> QED
      BY <2>1, <1>2 DEF OpsInProgress
  <1> QED
    BY <1>1, <1>6, <1>7, <1>8 DEF ScopeInv

-----------------------------------------------------------------------------
(* How long the stacks are when one thread starts the sessions             *)

OneStarter == \A s, t \in Starters : s = t

\* The thread that starts sessions looks at its own stacks; those another
\* copies are no deeper than the blocks of that thread.
LEMMA ContextsLength ==
    ASSUME ScopeTypes, LengthInv, OneStarter, NEW t \in Threads, NEW a \in Addrs
    PROVE  /\ Len(Contexts(t, a)) \in Nat
           /\ Len(Contexts(t, a)) <= MaxDepth + Pushes(t, a)
           /\ t \in Starters => Contexts(t, a) = stack[t][a]
           /\ Pushes(t, a) \in Nat
  <1>1. Len(Contexts(t, a)) \in Nat
    BY ContextsTypes, LenProperties
  <1>2. mainThread[a] \in Starters /\ mainThread[a] \in Threads
    BY StartersAssumption DEF LengthInv
  <1>3. t \in Starters => Contexts(t, a) = stack[t][a]
    BY <1>2 DEF Contexts, OneStarter
  <1>4. MaxDepth \in Nat
    BY BoundsAssumption
  <1>5. \A u \in Threads : Pushes(u, a) \in Nat /\ Pushes(u, a) <= MaxDepth
    <2>1. TAKE u \in Threads
    <2>2. Len(nest[u]) \in Nat /\ Len(nest[u]) <= MaxDepth
      BY LenProperties DEF ScopeTypes
    <2> QED
      BY <2>2, <1>4 DEF Pushes
  <1>6. CASE a \in seen[t]
    <2>1. Len(stack[t][a]) <= MaxDepth + Pushes(t, a)
      BY DEF LengthInv
    <2> QED
      BY <2>1, <1>1, <1>3, <1>5, <1>6 DEF Contexts
  <1>7. CASE a \notin seen[t]
    <2>1. Contexts(t, a) = stack[mainThread[a]][a]
      BY <1>7 DEF Contexts
    <2>2. Len(Contexts(t, a)) = Pushes(mainThread[a], a)
      BY <2>1, <1>2 DEF LengthInv
    <2>3. Pushes(mainThread[a], a) <= MaxDepth /\ Pushes(mainThread[a], a) \in Nat /\ Pushes(t, a) \in Nat
      BY <1>2, <1>5
    <2>4. Len(Contexts(t, a)) <= MaxDepth + Pushes(t, a)
      BY <2>2, <2>3, <1>4
    <2> QED
      BY <2>4, <1>1, <1>3, <1>5
  <1> QED
    BY <1>6, <1>7

LEMMA EnteredLengths ==
    ASSUME ManagerInv, ScopeInv, LengthInv, OneStarter,
           NEW t \in Threads, NEW name \in Names, EnterScope(t, name)
    PROVE  LengthInv'
  <1> DEFINE d == Len(nest[t])
  <1>0. ScopeTypes /\ d \in Nat /\ MaxDepth \in Nat
    BY LenProperties, BoundsAssumption DEF ScopeInv, ScopeTypes
  <1>1. /\ Len(nest'[t]) = d + 1 /\ d < MaxDepth
        /\ \A u \in Threads \ {t} : nest'[u] = nest[u]
        /\ \A u \in Threads \ {t} : stack'[u] = stack[u]
        /\ profilingOn =>
              \A a \in Addrs : stack'[t][a] =
                 IF a \in RegisteredSources THEN Append(Contexts(t, a), name) ELSE stack[t][a]
        /\ ~profilingOn => stack' = stack /\ nodes' = nodes
    BY <1>0, EnteredState
  <1>2. /\ UNCHANGED managerVars /\ mainThread' = mainThread /\ profilingOn' = profilingOn
    BY DEF EnterScope, Enter
  <1>3. RegisteredSources' = RegisteredSources
    BY <1>2, SourcesUnchanged
  <1> HIDE DEF d
  <1>4. ASSUME NEW u \in Threads, NEW a \in Addrs
        PROVE  Pushes(u, a)' = IF profilingOn /\ a \in RegisteredSources THEN Len(nest'[u]) ELSE 0
    BY <1>2, <1>3 DEF Pushes
  <1>5. ASSUME NEW u \in Threads \ {t}, NEW a \in Addrs
        PROVE  Pushes(u, a)' = Pushes(u, a) /\ stack'[u][a] = stack[u][a]
    BY <1>1, <1>4 DEF Pushes
  <1>6. ASSUME NEW a \in Addrs, ~(profilingOn /\ a \in RegisteredSources)
        PROVE  Pushes(t, a)' = Pushes(t, a) /\ stack'[t][a] = stack[t][a]
    <2>1. stack'[t][a] = stack[t][a]
      BY <1>1, <1>6
    <2> QED
      BY <2>1, <1>4, <1>6 DEF Pushes
  <1>7. ASSUME NEW a \in Addrs, profilingOn, a \in RegisteredSources
        PROVE  /\ Pushes(t, a) = d /\ Pushes(t, a)' = d + 1
               /\ Len(stack'[t][a]) = Len(Contexts(t, a)) + 1
    <2>1. Contexts(t, a) \in Seq(Names)
      BY <1>0, ContextsTypes
    <2>2. Len(Append(Contexts(t, a), name)) = Len(Contexts(t, a)) + 1
      BY <2>1, AppendProperties
    <2>3. stack'[t][a] = Append(Contexts(t, a), name)
      BY <1>1, <1>7
    <2> QED
      BY <2>2, <2>3, <1>1, <1>4, <1>7 DEF Pushes, d
  <1>8. \A a \in Addrs : mainThread'[a] \in Starters
    BY <1>2 DEF LengthInv
  <1>9. ASSUME NEW s \in Starters, NEW a \in Addrs PROVE Len(stack'[s][a]) = Pushes(s, a)'
    <2>1. s \in Threads /\ Len(stack[s][a]) = Pushes(s, a)
      BY StartersAssumption DEF LengthInv
    <2>2. CASE s # t
      BY <2>1, <2>2, <1>5
    <2>3. CASE s = t /\ ~(profilingOn /\ a \in RegisteredSources)
      BY <2>1, <2>3, <1>6
    <2>4. CASE s = t /\ profilingOn /\ a \in RegisteredSources
      <3>1. Contexts(t, a) = stack[t][a]
        BY <2>4, <1>0, ContextsLength
      <3> QED
        BY <3>1, <2>1, <2>4, <1>7
    <2> QED
      BY <2>2, <2>3, <2>4
  <1>10. ASSUME NEW u \in Threads, NEW a \in Addrs PROVE Len(stack'[u][a]) <= MaxDepth + Pushes(u, a)'
    <2>1. Len(stack[u][a]) <= MaxDepth + Pushes(u, a)
      BY DEF LengthInv
    <2>2. CASE u # t
      BY <2>1, <2>2, <1>5
    <2>3. CASE u = t /\ ~(profilingOn /\ a \in RegisteredSources)
      BY <2>1, <2>3, <1>6
    <2>4. CASE u = t /\ profilingOn /\ a \in RegisteredSources
      <3>1. Len(Contexts(t, a)) \in Nat /\ Len(Contexts(t, a)) <= MaxDepth + d
        BY <2>4, <1>0, <1>7, ContextsLength
      <3>2. Len(Contexts(t, a)) + 1 <= MaxDepth + (d + 1)
        BY <3>1, <1>0
      <3> QED
        BY <3>2, <2>4, <1>7
    <2> QED
      BY <2>2, <2>3, <2>4
  <1>11. ASSUME NEW i \in Ids, NEW n \in nodes'[i] PROVE Len(n.path) <= 2 * MaxDepth
    <2>1. CASE n \in nodes[i]
      BY <2>1 DEF LengthInv
    <2>2. CASE n \notin nodes[i]
      <3>1. profilingOn
        BY <2>2, <1>1, <1>11
      <3>2. i \in Range(scopeOrder) /\ n.path = stack'[t][session[i].source]
        BY <2>2, <3>1, <1>0, <1>11, EnteredNodes
      <3>3. session[i].source \in RegisteredSources /\ session[i].source \in Addrs
        BY <3>2, RegisteredTypes
      <3>4. Len(n.path) <= MaxDepth + (d + 1) /\ Len(n.path) = Len(Contexts(t, session[i].source)) + 1
        BY <3>1, <3>2, <3>3, <1>7, <1>10
      <3>5. Len(Contexts(t, session[i].source)) \in Nat
        BY <3>3, <1>0, ContextsLength
      <3>6. d + 1 <= MaxDepth
        BY <1>0, <1>1
      <3> QED
        BY <3>4, <3>5, <3>6, <1>0
    <2> QED
      BY <2>1, <2>2
  <1> QED
    BY <1>8, <1>9, <1>10, <1>11 DEF LengthInv

LEMMA ExitedLengths ==
    ASSUME ManagerInv, ScopeInv, LengthInv, NEW t \in Threads, ExitScope(t)
    PROVE  LengthInv'
  <1> DEFINE d == Len(nest[t])
  <1>1. /\ d \in Nat \ {0}
        /\ Len(nest'[t]) = d - 1
        /\ \A u \in Threads \ {t} : nest'[u] = nest[u]
        /\ \A u \in Threads \ {t} : stack'[u] = stack[u]
        /\ \A a \in Addrs : stack'[t][a] =
              IF profilingOn /\ a \in RegisteredSources THEN Front(stack[t][a]) ELSE stack[t][a]
        /\ profilingOn => \A a \in RegisteredSources : stack[t][a] # <<>>
        /\ \A i \in Ids : nodes'[i] \subseteq nodes[i]
    BY ExitedParts
  <1>2. /\ UNCHANGED managerVars /\ mainThread' = mainThread /\ profilingOn' = profilingOn
    BY DEF ExitScope
  <1>3. RegisteredSources' = RegisteredSources /\ MaxDepth \in Nat
    BY <1>2, SourcesUnchanged, BoundsAssumption
  <1>4. ASSUME NEW u \in Threads, NEW a \in Addrs
        PROVE  \/ Pushes(u, a)' = Pushes(u, a) /\ stack'[u][a] = stack[u][a]
               \/ /\ Pushes(u, a) \in Nat /\ Pushes(u, a)' = Pushes(u, a) - 1
                  /\ Len(stack[u][a]) \in Nat /\ Len(stack'[u][a]) = Len(stack[u][a]) - 1
    <2>1. CASE u # t
      BY <2>1, <1>1, <1>2, <1>3 DEF Pushes
    <2>2. CASE u = t /\ ~(profilingOn /\ a \in RegisteredSources)
      <3>1. stack'[t][a] = stack[t][a]
        BY <2>2, <1>1
      <3> QED
        BY <3>1, <2>2, <1>2, <1>3 DEF Pushes
    <2>3. CASE u = t /\ profilingOn /\ a \in RegisteredSources
      <3>1. stack[t][a] \in Seq(Names) /\ stack[t][a] # <<>> /\ stack'[t][a] = Front(stack[t][a])
        BY <2>3, <1>1 DEF ScopeInv, ScopeTypes
      <3>2. Len(stack[t][a]) \in Nat /\ Len(stack'[t][a]) = Len(stack[t][a]) - 1
        BY <3>1, FrontProperties
      <3>3. Pushes(t, a) = d /\ Pushes(t, a)' = d - 1
        BY <2>3, <1>1, <1>2, <1>3 DEF Pushes
      <3> QED
        BY <3>2, <3>3, <2>3, <1>1
    <2> QED
      BY <2>1, <2>2, <2>3
  <1>5. \A s \in Starters, a \in Addrs : Len(stack'[s][a]) = Pushes(s, a)'
    <2>1. TAKE s \in Starters, a \in Addrs
    <2>2. s \in Threads /\ Len(stack[s][a]) = Pushes(s, a)
      BY StartersAssumption DEF LengthInv
    <2> QED
      BY <2>2, <1>4
  <1>6. \A u \in Threads, a \in Addrs : Len(stack'[u][a]) <= MaxDepth + Pushes(u, a)'
    <2>1. TAKE u \in Threads, a \in Addrs
    <2>2. Len(stack[u][a]) <= MaxDepth + Pushes(u, a)
      BY DEF LengthInv
    <2>3. CASE Pushes(u, a)' = Pushes(u, a) /\ stack'[u][a] = stack[u][a]
      BY <2>2, <2>3
    <2>4. CASE /\ Pushes(u, a) \in Nat /\ Pushes(u, a)' = Pushes(u, a) - 1
               /\ Len(stack[u][a]) \in Nat /\ Len(stack'[u][a]) = Len(stack[u][a]) - 1
      <3>1. Len(stack[u][a]) - 1 <= MaxDepth + (Pushes(u, a) - 1)
        BY <2>2, <2>4, <1>3
      <3> QED
        BY <3>1, <2>4
    <2> QED
      BY <2>3, <2>4, <1>4
  <1>7. \A i \in Ids : \A n \in nodes'[i] : Len(n.path) <= 2 * MaxDepth
    BY <1>1 DEF LengthInv
  <1>8. \A a \in Addrs : mainThread'[a] \in Starters
    BY <1>2 DEF LengthInv
  <1> QED
    BY <1>5, <1>6, <1>7, <1>8 DEF LengthInv

LEMMA OpLengths ==
    ASSUME ManagerInv, ScopeInv, LengthInv, OneStarter,
           NEW t \in Threads, EnterOp(t) \/ ExitOp(t)
    PROVE  LengthInv'
  <1>0. ScopeTypes
    BY DEF ScopeInv
  <1>1. /\ UNCHANGED managerVars /\ mainThread' = mainThread /\ profilingOn' = profilingOn
        /\ nest' = nest /\ nodes' = nodes
    BY DEF EnterOp, ExitOp, sourceVars
  <1>2. RegisteredSources' = RegisteredSources
    BY <1>1, SourcesUnchanged
  <1>3. \A u \in Threads, a \in Addrs :
           stack'[u][a] = stack[u][a] \/ (u = t /\ stack'[u][a] = Contexts(u, a))
    <2>1. CASE EnterOp(t)
      BY <2>1, <1>0, EnteredOpState
    <2>2. CASE ExitOp(t)
      BY <2>2 DEF ExitOp, sourceVars
    <2> QED
      BY <2>1, <2>2
  <1>4. \A u \in Threads, a \in Addrs : Pushes(u, a)' = Pushes(u, a)
    BY <1>1, <1>2 DEF Pushes
  <1>5. \A s \in Starters, a \in Addrs : Len(stack'[s][a]) = Pushes(s, a)'
    <2>1. TAKE s \in Starters, a \in Addrs
    <2>2. s \in Threads /\ Len(stack[s][a]) = Pushes(s, a)
      BY StartersAssumption DEF LengthInv
    <2>3. Contexts(s, a) = stack[s][a]
      BY <2>2, <1>0, ContextsLength
    <2>4. stack'[s][a] = stack[s][a]
      BY <2>2, <2>3, <1>3
    <2> QED
      BY <2>2, <2>4, <1>4
  <1>6. \A u \in Threads, a \in Addrs : Len(stack'[u][a]) <= MaxDepth + Pushes(u, a)'
    <2>1. TAKE u \in Threads, a \in Addrs
    <2>2. Len(stack[u][a]) <= MaxDepth + Pushes(u, a)
      BY DEF LengthInv
    <2>3. Len(Contexts(u, a)) <= MaxDepth + Pushes(u, a)
      BY <1>0, ContextsLength
    <2>4. Len(stack'[u][a]) <= MaxDepth + Pushes(u, a)
      BY <2>2, <2>3, <1>3
    <2> QED
      BY <2>4, <1>4
  <1> QED
    BY <1>1, <1>5, <1>6 DEF LengthInv

-----------------------------------------------------------------------------
(* The invariants of the specification                                     *)

LEMMA ScopesInitially ==
    Init => ScopeInv /\ LengthInv
  <1> SUFFICES ASSUME Init PROVE ScopeInv /\ LengthInv
    OBVIOUS
  <1>1. MaxDepth \in Nat /\ Starters \subseteq Threads /\ (CHOOSE t \in Starters : TRUE) \in Starters
    BY BoundsAssumption, StartersAssumption
  <1>2. /\ <<>> \in Seq(Names) /\ <<>> \in Seq(Block) /\ Len(<<>>) = 0
    BY EmptySeq
  <1>3. NoOp \in Op
    BY DEF NoOp, Op
  <1>4. ScopeTypes
    <2>1. /\ stack \in [Threads -> [Addrs -> Seq(Names)]]
          /\ nest \in [Threads -> Seq(Block)]
          /\ \A t \in Threads : Len(nest[t]) <= MaxDepth
      BY <1>1, <1>2 DEF Init
    <2>2. seen \in [Threads -> SUBSET Addrs] /\ mainThread \in [Addrs -> Threads]
      BY <1>1 DEF Init
    <2>3. nodes \in [Ids -> SUBSET Node] /\ profilingOn \in BOOLEAN /\ launching \in SUBSET Threads
      BY DEF Init
    <2>4. op \in [Threads -> [Profilers -> Op]]
      BY <1>3 DEF Init
    <2> QED
      BY <2>1, <2>2, <2>3, <2>4 DEF ScopeTypes
  <1>5. AllOrNoneSent /\ StacksEndWithNest /\ NodesOfNest
    BY <1>2 DEF Init, AllOrNoneSent, StacksEndWithNest, NodesOfNest
  <1>6. OpsInProgress /\ unbalanced = FALSE
    BY DEF Init, OpsInProgress
  <1>7. LengthInv
    <2>1. \A t \in Threads, a \in Addrs : Len(stack[t][a]) = 0 /\ Pushes(t, a) = 0
      BY <1>2 DEF Init, Pushes
    <2>2. \A a \in Addrs : mainThread[a] \in Starters
      BY <1>1 DEF Init
    <2>3. \A i \in Ids : nodes[i] = {}
      BY DEF Init
    <2>4. MaxDepth + 0 >= 0
      BY <1>1
    <2>5. \A s \in Starters, a \in Addrs : Len(stack[s][a]) = Pushes(s, a)
      BY <2>1, <1>1
    <2>6. \A t \in Threads, a \in Addrs : Len(stack[t][a]) <= MaxDepth + Pushes(t, a)
      BY <2>1, <2>4
    <2> QED
      BY <2>2, <2>3, <2>5, <2>6 DEF LengthInv
  <1> QED
    BY <1>4, <1>5, <1>6, <1>7 DEF ScopeInv

\* Every step is a session operation or one of the four calls.
LEMMA StepKinds ==
    ASSUME ManagerInv, ScopeInv, ~ToggleInScope, [Next]_vars
    PROVE  \/ Toggle
           \/ \E t \in Threads : \/ \E name \in Names : EnterScope(t, name)
                                 \/ ExitScope(t) \/ EnterOp(t) \/ ExitOp(t)
           \/ UNCHANGED vars
  BY ToggleSteps DEF Next, ScopeInv

LEMMA VarsUnchanged ==
    ASSUME UNCHANGED vars
    PROVE  /\ ScopeInv => ScopeInv'
           /\ LengthInv => LengthInv'
  <1>1. /\ UNCHANGED <<stack, seen, mainThread, nodes, op, profilingOn, nest, launching, unbalanced>>
        /\ UNCHANGED <<session, active, scopeOrder, opCount>>
    BY DEF vars, managerVars, sourceVars, clientVars
  <1>2. RegisteredSources' = RegisteredSources
    BY <1>1 DEF RegisteredSources
  <1>3. ScopeInv => ScopeInv'
    BY <1>1, <1>2 DEF ScopeInv, ScopeTypes, AllOrNoneSent, StacksEndWithNest, NodesOfNest, OpsInProgress
  <1>4. LengthInv => LengthInv'
    BY <1>1, <1>2 DEF LengthInv, Pushes
  <1> QED
    BY <1>3, <1>4

LEMMA ScopeStep ==
    ASSUME ManagerInv, ScopeInv, ~ToggleInScope, [Next]_vars
    PROVE  ScopeInv'
  BY StepKinds, ToggledScopes, EnteredScopes, ExitedScopes, EnteredOpScopes, ExitedOpScopes,
     VarsUnchanged

LEMMA LengthStep ==
    ASSUME ManagerInv, ScopeInv, LengthInv, ~ToggleInScope, OneStarter, [Next]_vars
    PROVE  LengthInv'
  BY StepKinds, ToggledLengths, EnteredLengths, ExitedLengths, OpLengths, VarsUnchanged

\* Whatever the program does: sessions and registrations agree.
THEOREM ManagerInvariant == Spec => []ManagerInv
  <1>1. Init => ManagerInv
    BY ManagerInitially
  <1>2. ManagerInv /\ [Next]_vars => ManagerInv'
    BY ManagerStep
  <1> QED
    BY <1>1, <1>2, PTL DEF Spec

\* While sessions are toggled only when no scope and no op is open, what the
\* manager keeps for scopes and ops is where the program is.
THEOREM ScopeInvariant ==
    ASSUME ~ToggleInScope
    PROVE  Spec => [](ManagerInv /\ ScopeInv)
  <1>1. Init => ManagerInv /\ ScopeInv
    BY ManagerInitially, ScopesInitially
  <1>2. ManagerInv /\ ScopeInv /\ [Next]_vars => (ManagerInv /\ ScopeInv)'
    BY ManagerStep, ScopeStep
  <1> QED
    BY <1>1, <1>2, PTL DEF Spec

\* If, in addition, one thread starts the sessions, the depth of its stacks is
\* that of its blocks, and those of others are bounded.
THEOREM LengthInvariant ==
    ASSUME ~ToggleInScope, OneStarter
    PROVE  Spec => [](ManagerInv /\ ScopeInv /\ LengthInv)
  <1>1. Init => ManagerInv /\ ScopeInv /\ LengthInv
    BY ManagerInitially, ScopesInitially
  <1>2. ManagerInv /\ ScopeInv /\ LengthInv /\ [Next]_vars => (ManagerInv /\ ScopeInv /\ LengthInv)'
    BY ManagerStep, ScopeStep, LengthStep
  <1> QED
    BY <1>1, <1>2, PTL DEF Spec

-----------------------------------------------------------------------------
(* What the properties of the runs follow from                             *)

LEMMA SuffixOfAnnounced ==
    ASSUME NEW seq \in Seq(Names), NEW blocks \in Seq(Block),
           \A k \in 1 .. Len(blocks) : blocks[k].sent,
           EndsWith(seq, blocks, Len(blocks))
    PROVE  /\ Announced(blocks) \in Seq(Names)
           /\ Len(Announced(blocks)) = Len(blocks)
           /\ \A k \in 1 .. Len(blocks) : Announced(blocks)[k] = blocks[k].name
           /\ IsSuffix(Announced(blocks), seq)
  <1> DEFINE n == Len(blocks)
             q == NamesOf(blocks)
  <1>1. n \in Nat /\ Announced(blocks) = q
    BY LenProperties, AnnouncedSent
  <1>2. q \in [1 .. n -> Names] /\ \A k \in 1 .. n : q[k] = blocks[k].name
    <2>1. \A k \in 1 .. n : blocks[k] \in Block
      BY ElementOfSeq
    <2>2. \A k \in 1 .. n : blocks[k].name \in Names
      BY <2>1 DEF Block
    <2> QED
      BY <2>2 DEF NamesOf
  <1> HIDE DEF q
  <1>3. q \in Seq(Names) /\ Len(q) = n
    BY <1>1, <1>2, FunctionIsSeq
  <1>4. Len(q) <= Len(seq) /\ \A k \in 1 .. Len(q) : seq[Len(seq) - Len(q) + k] = q[k]
    BY <1>2, <1>3 DEF EndsWith
  <1>5. IsSuffix(q, seq)
    BY <1>3, <1>4, SuffixAtEnd
  <1> QED
    BY <1>1, <1>2, <1>3, <1>5

\* The stack of the thread that starts the sessions is exactly its blocks, and
\* that of another thread ends with the blocks the thread is in.
LEMMA ContextIsNestHolds ==
    ASSUME ManagerInv, ScopeInv, LengthInv, OneStarter, ~StartMayFail
    PROVE  ContextIsNest
  <1> SUFFICES ASSUME NEW i \in active, NEW t \in Threads
               PROVE  LET own == Contexts(t, session[i].source)
                      IN  IF mainThread[session[i].source] = t
                          THEN own = Announced(nest[t])
                          ELSE nest[t] # <<>> => IsSuffix(Announced(nest[t]), own)
    BY DEF ContextIsNest
  <1> DEFINE a == session[i].source
             own == Contexts(t, a)
  <1>1. i \in Range(scopeOrder)
    BY DEF ManagerInv, ActiveIsRegistered
  <1>2. a \in RegisteredSources /\ a \in Addrs
    BY <1>1, RegisteredTypes
  <1>3. ScopeTypes /\ nest[t] \in Seq(Block)
    BY DEF ScopeInv, ScopeTypes
  <1> HIDE DEF a
  <1>4. own \in Seq(Names)
    BY <1>2, <1>3, ContextsTypes
  <1>5. ASSUME mainThread[a] = t
        PROVE  Len(own) = IF profilingOn THEN Len(nest[t]) ELSE 0
    <2>1. t \in Starters
      BY <1>2, <1>5 DEF LengthInv
    <2>2. own = stack[t][a]
      BY <2>1, <1>2, <1>3, ContextsLength
    <2>3. Len(stack[t][a]) = Pushes(t, a)
      BY <2>1, <1>2 DEF LengthInv
    <2> QED
      BY <2>2, <2>3, <1>2 DEF Pushes
  <1> HIDE DEF own
  <1>6. CASE profilingOn
    <2>1. EndsWith(own, nest[t], Len(nest[t]))
      BY <1>2, <1>6, ContextsEndWithNest DEF own
    <2>2. \A k \in 1 .. Len(nest[t]) : nest[t][k].sent
      BY <1>6 DEF ScopeInv, AllOrNoneSent
    <2>3. /\ Announced(nest[t]) \in Seq(Names)
          /\ Len(Announced(nest[t])) = Len(nest[t])
          /\ \A k \in 1 .. Len(nest[t]) : Announced(nest[t])[k] = nest[t][k].name
          /\ IsSuffix(Announced(nest[t]), own)
      BY <2>1, <2>2, <1>3, <1>4, SuffixOfAnnounced
    <2>4. ASSUME mainThread[a] = t PROVE own = Announced(nest[t])
      <3>1. Len(own) = Len(nest[t]) /\ Len(own) \in Nat
        BY <2>4, <1>4, <1>5, <1>6, LenProperties
      <3>2. \A k \in 1 .. Len(own) : own[k] = Announced(nest[t])[k]
        <4>1. TAKE k \in 1 .. Len(own)
        <4>2. Len(own) - Len(nest[t]) + k = k
          BY <3>1
        <4> QED
          BY <4>2, <3>1, <2>1, <2>3 DEF EndsWith
      <3> QED
        BY <3>1, <3>2, <2>3, <1>4, SeqEqual
    <2> QED
      BY <2>3, <2>4 DEF own, a
  <1>7. CASE ~profilingOn
    <2>1. Announced(nest[t]) = <<>>
      <3>1. \A k \in 1 .. Len(nest[t]) : ~nest[t][k].sent
        BY <1>7 DEF ScopeInv, AllOrNoneSent
      <3> QED
        BY <3>1, <1>3, AnnouncedSilent
    <2>2. <<>> \in Seq(Names) /\ Len(<<>>) = 0 /\ Len(own) \in Nat
      BY <1>4, EmptySeq, LenProperties
    <2>3. ASSUME mainThread[a] = t PROVE own = <<>>
      BY <2>3, <1>4, <1>5, <1>7, EmptySeq
    <2>4. IsSuffix(<<>>, own)
      <3>1. Len(<<>>) <= Len(own)
            /\ \A k \in 1 .. Len(<<>>) : own[Len(own) - Len(<<>>) + k] = <<>>[k]
        BY <2>2
      <3> QED
        BY <3>1, <2>2, <1>4, SuffixAtEnd
    <2> QED
      BY <2>1, <2>3, <2>4 DEF own, a
  <1> QED
    BY <1>6, <1>7

LEMMA NodesAreOpenScopesHolds ==
    ASSUME ManagerInv, ScopeInv
    PROVE  NodesAreOpenScopes
  <1> SUFFICES ASSUME NEW i \in active, NEW n \in nodes[i]
               PROVE  /\ n.depth <= Len(nest[n.thread])
                      /\ IsSuffix(Announced(SubSeq(nest[n.thread], 1, n.depth)), n.path)
    BY DEF NodesAreOpenScopes
  <1> DEFINE d == n.depth
             all == nest[n.thread]
             blocks == SubSeq(all, 1, d)
  <1>1. i \in Ids
    BY DEF ManagerInv, Live
  <1>2. n.thread \in Threads /\ d \in Nat \ {0} /\ n.path \in Seq(Names)
    BY <1>1 DEF ScopeInv, ScopeTypes, Node
  <1>3. all \in Seq(Block) /\ Len(all) \in Nat
    BY <1>2, LenProperties DEF ScopeInv, ScopeTypes
  <1>4. profilingOn /\ d <= Len(all) /\ EndsWith(n.path, all, d)
    BY <1>1 DEF ScopeInv, NodesOfNest
  <1>5. \A k \in 1 .. Len(all) : all[k].sent /\ all[k] \in Block
    <2>1. \A k \in 1 .. Len(all) : all[k].sent
      BY <1>2, <1>4 DEF ScopeInv, AllOrNoneSent
    <2>2. \A k \in 1 .. Len(all) : all[k] \in Block
      BY <1>3, ElementOfSeq
    <2> QED
      BY <2>1, <2>2
  <1> HIDE DEF d, all, blocks
  <1>6. blocks \in Seq(Block) /\ Len(blocks) = d /\ \A k \in 1 .. d : blocks[k] = all[k]
    <2>1. 1 \in Int /\ d \in Int /\ d - 1 + 1 = d /\ 1 <= d
      BY <1>2
    <2>2. \A k \in 1 .. d : all[k] \in Block
      BY <1>2, <1>3, <1>4, <1>5
    <2>3. /\ blocks \in Seq(Block)
          /\ Len(blocks) = IF 1 <= d THEN d - 1 + 1 ELSE 0
          /\ \A k \in 1 .. d - 1 + 1 : blocks[k] = all[1 + k - 1]
      BY <2>1, <2>2, SubSeqProperties DEF blocks
    <2>4. \A k \in 1 .. d : 1 + k - 1 = k
      OBVIOUS
    <2> QED
      BY <2>1, <2>3, <2>4
  <1>7. \A k \in 1 .. Len(blocks) : blocks[k].sent
    <2>1. \A k \in 1 .. d : k \in 1 .. Len(all)
      BY <1>2, <1>3, <1>4
    <2> QED
      BY <2>1, <1>5, <1>6
  <1>8. EndsWith(n.path, blocks, Len(blocks))
    BY <1>4, <1>6 DEF EndsWith
  <1>9. IsSuffix(Announced(blocks), n.path)
    BY <1>2, <1>6, <1>7, <1>8, SuffixOfAnnounced
  <1> QED
    BY <1>4, <1>9 DEF d, all, blocks

LEMMA OpsOfActiveHolds ==
    ASSUME ScopeInv
    PROVE  OpsOfActive
  <1> SUFFICES ASSUME NEW t \in Threads, NEW p \in Profilers
               PROVE  op[t][p].data \subseteq active /\ (op[t][p].busy => t \in launching)
    BY DEF OpsOfActive
  <1>1. CASE op[t][p] = NoOp
    BY <1>1 DEF NoOp
  <1>2. CASE op[t][p] # NoOp
    BY <1>2 DEF ScopeInv, OpsInProgress
  <1> QED
    BY <1>1, <1>2

LEMMA TypeOKHolds ==
    ASSUME ManagerInv, ScopeInv, LengthInv, ~StartMayFail
    PROVE  TypeOK
  <1>1. MaxDepth \in Nat /\ ScopeTypes
    BY BoundsAssumption DEF ScopeInv
  <1>2. opCount \in [Profilers -> 0 .. MaxSessions]
    <2>1. ASSUME NEW p \in Profilers PROVE opCount[p] \in 0 .. MaxSessions
      <3>1. dataSet[p] \in SUBSET Ids
        BY DEF ManagerInv, Live
      <3>2. opCount[p] = Cardinality(dataSet[p])
        BY DEF ManagerInv, ActiveIsRegistered
      <3> QED
        BY <3>1, <3>2, SetsOfIds
    <2> QED
      BY <2>1 DEF ManagerInv
  <1>3. ASSUME NEW i \in Ids, NEW n \in nodes[i]
        PROVE  n \in [thread : Threads, depth : 1 .. MaxDepth,
                      path : UNION {[1 .. l -> Names] : l \in 0 .. 2 * MaxDepth}]
    <2>1. n \in Node
      BY <1>1 DEF ScopeTypes
    <2>2. n.thread \in Threads /\ n.depth \in Nat \ {0} /\ n.path \in Seq(Names)
      BY <2>1 DEF Node
    <2>3. n.depth <= Len(nest[n.thread]) /\ Len(nest[n.thread]) <= MaxDepth /\ Len(nest[n.thread]) \in Nat
      <3>1. nest[n.thread] \in Seq(Block)
        BY <2>2, <1>1 DEF ScopeTypes
      <3> QED
        BY <3>1, <2>2, <1>1, LenProperties DEF ScopeInv, ScopeTypes, NodesOfNest
    <2>4. n.depth \in 1 .. MaxDepth
      BY <2>2, <2>3, <1>1
    <2>5. Len(n.path) \in Nat /\ n.path \in [1 .. Len(n.path) -> Names] /\ Len(n.path) <= 2 * MaxDepth
      BY <2>2, LenProperties DEF LengthInv
    <2>6. Len(n.path) \in 0 .. 2 * MaxDepth
      BY <2>5, <1>1
    <2>7. n.path \in UNION {[1 .. l -> Names] : l \in 0 .. 2 * MaxDepth}
      BY <2>5, <2>6
    <2>8. n = [thread |-> n.thread, depth |-> n.depth, path |-> n.path]
      BY <2>1 DEF Node
    <2> QED
      BY <2>2, <2>4, <2>7, <2>8
  <1>4. /\ op \in [Threads -> [Profilers -> [busy : BOOLEAN, data : SUBSET Ids]]]
        /\ nest \in [Threads -> Seq([name : Names, sent : BOOLEAN])]
    BY <1>1 DEF ScopeTypes, Op, Block
  <1>5. \A i \in Ids : session[i] \in SessionRecord \cup {NoSession}
    BY DEF ManagerInv
  <1>6. unbalanced \in BOOLEAN
    BY DEF ScopeInv
  <1> QED
    BY <1>1, <1>2, <1>3, <1>4, <1>5, <1>6 DEF TypeOK, ManagerInv, ScopeTypes

-----------------------------------------------------------------------------
(* The theorems                                                            *)

\* A profiler runs only while some session still has it, even where starting
\* one may throw and sessions are toggled at any time.
THEOREM ProfilersStopped == Spec => []StoppedWhenUnused
  <1>1. ManagerInv => StoppedWhenUnused
    BY DEF ManagerInv
  <1> QED
    BY <1>1, ManagerInvariant, PTL

\* Where starting a profiler does not throw, the sessions that are marked
\* active are those the manager calls, once each, and the counts are exact.
THEOREM ActiveAreRegistered ==
    ASSUME ~StartMayFail
    PROVE  Spec => []ActiveIsRegistered
  <1>1. ManagerInv => ActiveIsRegistered
    BY DEF ManagerInv
  <1> QED
    BY <1>1, ManagerInvariant, PTL

\* Where sessions are not toggled inside scopes, exitScope never throws.
THEOREM ExitsAreBalanced ==
    ASSUME ~ToggleInScope
    PROVE  Spec => []Balanced
  <1>1. ManagerInv /\ ScopeInv => Balanced
    BY DEF ScopeInv, Balanced
  <1> QED
    BY <1>1, ScopeInvariant, PTL

\* Where sessions are not toggled inside ops, an op in progress belongs to no
\* data of a session that has been deactivated or freed.
THEOREM OpsAreOfActive ==
    ASSUME ~ToggleInScope
    PROVE  Spec => []OpsOfActive
  <1>1. ManagerInv /\ ScopeInv => OpsOfActive
    BY OpsOfActiveHolds
  <1> QED
    BY <1>1, ScopeInvariant, PTL

\* Where sessions are not toggled inside scopes, what a session has recorded
\* for a scope is the scope in its place, and the scope is open.
THEOREM NodesAreInPlace ==
    ASSUME ~ToggleInScope
    PROVE  Spec => []NodesAreOpenScopes
  <1>1. ManagerInv /\ ScopeInv => NodesAreOpenScopes
    BY NodesAreOpenScopesHolds
  <1> QED
    BY <1>1, ScopeInvariant, PTL

\* Where, moreover, one thread starts the sessions and starting a profiler
\* does not throw, a thread's stack is the blocks that the thread is in.
THEOREM ContextsAreNests ==
    ASSUME ~ToggleInScope, ~StartMayFail, OneStarter
    PROVE  Spec => []ContextIsNest
  <1>1. ManagerInv /\ ScopeInv /\ LengthInv => ContextIsNest
    BY ContextIsNestHolds
  <1> QED
    BY <1>1, LengthInvariant, PTL

\* Under the same conditions the types, the registrations and the profilers
\* agree after every call.
THEOREM LifeCycleInvariant ==
    ASSUME ~ToggleInScope, ~StartMayFail, OneStarter
    PROVE  Spec => []LifeCycle
  <1>1. ManagerInv /\ ScopeInv /\ LengthInv => LifeCycle
    BY TypeOKHolds DEF LifeCycle, ManagerInv
  <1> QED
    BY <1>1, LengthInvariant, PTL

=============================================================================
