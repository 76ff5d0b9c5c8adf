--------------------------- MODULE MultisignProofs ---------------------------
(***************************************************************************)
(* Proofs about Multisign, for every set of accounts, key stores and       *)
(* chains, every limit on the signatures and every number of edits and     *)
(* damaged signatures.                                                     *)
(*                                                                         *)
(* Removal by index is a recursion over the array.  What it leaves is      *)
(* proved from the least number of a set of numbers (LeastNumber), where   *)
(* an induction would need a theorem about predicates.                     *)
(***************************************************************************)
EXTENDS Multisign, FiniteSetTheorems, SequenceTheorems, WellFoundedInduction, TLAPS

-----------------------------------------------------------------------------
(* Numbers *)

Less == {p \in Nat \X Nat : p[1] < p[2]}

\* A nonempty set of numbers has a least one.
LEMMA LeastNumber ==
  ASSUME NEW T \in SUBSET Nat, T # {}
  PROVE  \E n \in T : \A m \in T : n <= m
<1>1. IsWellFoundedOn(Less, Nat)
  BY NatLessThanWellFounded DEF Less, OpToRel
<1>2. PICK n \in T : \A y \in T : <<y, n>> \notin Less
  BY <1>1, WFMin
<1>3. ASSUME NEW m \in T PROVE n <= m
  <2>1. <<m, n>> \in Nat \X Nat /\ <<m, n>>[1] = m /\ <<m, n>>[2] = n
    OBVIOUS
  <2>2. ~(m < n)
    BY <1>2, <2>1 DEF Less
  <2> QED BY <2>2
<1> QED BY <1>3

\* A set of numbers that holds 0, and with every number below n the next one,
\* holds all numbers up to n.
LEMMA AllUpTo ==
  ASSUME NEW n \in Nat, NEW T, 0 \in T, \A k \in 0..(n - 1) : k \in T => k + 1 \in T
  PROVE  0..n \subseteq T
<1> DEFINE Missing == {k \in 0..n : k \notin T}
<1> SUFFICES ASSUME Missing # {} PROVE FALSE
  OBVIOUS
<1>0. Missing \in SUBSET Nat
  OBVIOUS
<1> HIDE DEF Missing
<1>1. PICK least \in Missing : \A m \in Missing : least <= m
  BY <1>0, LeastNumber
<1> USE DEF Missing
<1>2. least # 0 /\ least - 1 \in 0..(n - 1)
  BY <1>1
<1>3. least - 1 \in T
  BY <1>1, <1>2
<1> QED BY <1>1, <1>2, <1>3

-----------------------------------------------------------------------------
(* Removal by index *)

\* One step of the removal: what is left above m from what is left above m + 1.
Without(a, m, at) == IF m + 1 \in at THEN RemoveAt(a, m + 1) ELSE a

\* The step that the definition of RemoveAll takes, on the numbers from n - k on.
Removes(left, array, at, k) ==
  left = [m \in (Len(array) - k)..Len(array) |->
            IF m = Len(array) THEN array
            ELSE IF m + 1 \in at THEN RemoveAt(left[m + 1], m + 1) ELSE left[m + 1]]

\* The recursion of RemoveAll has a solution, built from the last index down.
LEMMA RemovalExists ==
  ASSUME NEW S, NEW array \in Seq(S), NEW at
  PROVE  \E left : Removes(left, array, at, Len(array))
<1>0. PICK n \in Nat : n = Len(array)
  OBVIOUS
<1> DEFINE T == {k \in 0..n : \E left : Removes(left, array, at, k)}
<1>1. 0 \in T
  <2> DEFINE left == [m \in n..n |-> array]
  <2>1. Removes(left, array, at, 0)
    BY <1>0 DEF Removes
  <2> QED BY <1>0, <2>1
<1>2. ASSUME NEW k \in 0..(n - 1), k \in T PROVE k + 1 \in T
  <2>1. PICK g : Removes(g, array, at, k)
    BY <1>2
  <2>2. PICK low \in Nat : low = n - (k + 1)
    BY <1>0, <1>2
  <2>3. low + 1 = n - k /\ low < n
    BY <1>0, <1>2, <2>2
  <2> DEFINE left == [m \in low..n |->
                        IF m = low THEN Without(g[m + 1], m, at) ELSE g[m]]
  <2>4. \A m \in low..n : left[m] = IF m = low THEN Without(g[m + 1], m, at) ELSE g[m]
    OBVIOUS
  <2> HIDE DEF left
  <2>5. \A m \in (low + 1)..n :
          /\ left[m] = g[m]
          /\ g[m] = IF m = n THEN array
                    ELSE IF m + 1 \in at THEN RemoveAt(g[m + 1], m + 1) ELSE g[m + 1]
    <3>1. \A m \in (low + 1)..n : m \in low..n /\ m # low
      BY <1>0, <2>2
    <3> QED BY <1>0, <2>1, <2>3, <2>4, <3>1 DEF Removes
  <2>6. ASSUME NEW m \in low..n
        PROVE  left[m] = IF m = n THEN array
                         ELSE IF m + 1 \in at THEN RemoveAt(left[m + 1], m + 1) ELSE left[m + 1]
    <3>1. m # n => m + 1 \in (low + 1)..n
      BY <1>0, <2>2
    <3>2. m # low => m \in (low + 1)..n
      BY <1>0, <2>2
    <3> QED BY <2>3, <2>4, <2>5, <3>1, <3>2 DEF Without
  <2>7. Removes(left, array, at, k + 1)
    <3>1. left = [m \in low..n |->
                   IF m = n THEN array
                   ELSE IF m + 1 \in at THEN RemoveAt(left[m + 1], m + 1) ELSE left[m + 1]]
      <4>1. left = [m \in low..n |-> left[m]]
        BY DEF left
      <4> QED BY <2>6, <4>1
    <3> QED BY <1>0, <2>2, <3>1 DEF Removes
  <2>8. k + 1 \in 0..n
    BY <1>0, <1>2
  <2> QED BY <2>7, <2>8
<1>3. 0..n \subseteq T
  <2> HIDE DEF T
  <2> QED BY <1>0, <1>1, <1>2, AllUpTo
<1> QED BY <1>0, <1>3

\* RemoveAll is the end of a chain of steps that starts with the array.
LEMMA RemoveAllIsChain ==
  ASSUME NEW S, NEW array \in Seq(S), NEW at
  PROVE  \E left : /\ left[Len(array)] = array
                   /\ \A m \in 0..(Len(array) - 1) : left[m] = Without(left[m + 1], m, at)
                   /\ RemoveAll(array, at) = left[0]
<1> DEFINE left == CHOOSE left : left = [m \in 0..Len(array) |->
                     IF m = Len(array) THEN array
                     ELSE IF m + 1 \in at THEN RemoveAt(left[m + 1], m + 1) ELSE left[m + 1]]
<1>1. left = [m \in 0..Len(array) |->
                IF m = Len(array) THEN array
                ELSE IF m + 1 \in at THEN RemoveAt(left[m + 1], m + 1) ELSE left[m + 1]]
  <2>1. PICK g : Removes(g, array, at, Len(array))
    BY RemovalExists
  <2>2. Len(array) - Len(array) = 0
    OBVIOUS
  <2>3. g = [m \in 0..Len(array) |->
                IF m = Len(array) THEN array
                ELSE IF m + 1 \in at THEN RemoveAt(g[m + 1], m + 1) ELSE g[m + 1]]
    BY <2>1, <2>2, Zenon DEF Removes
  <2> QED BY <2>3, Zenon
<1>2. RemoveAll(array, at) = left[0]
  BY Zenon DEF RemoveAll
<1> HIDE DEF left
<1>3. left[Len(array)] = array
  BY <1>1
<1>4. ASSUME NEW m \in 0..(Len(array) - 1) PROVE left[m] = Without(left[m + 1], m, at)
  <2>1. m \in 0..Len(array) /\ m # Len(array)
    OBVIOUS
  <2> QED BY <1>1, <2>1 DEF Without
<1> QED BY <1>2, <1>3, <1>4

\* What RemoveAt returns.
LEMMA RemoveAtIs ==
  ASSUME NEW S, NEW a \in Seq(S), NEW i \in 1..Len(a)
  PROVE  /\ RemoveAt(a, i) \in Seq(S)
         /\ Len(RemoveAt(a, i)) = Len(a) - 1
         /\ \A k \in 1..(Len(a) - 1) : RemoveAt(a, i)[k] = IF k < i THEN a[k] ELSE a[k + 1]
<1>1. /\ SubSeq(a, 1, i - 1) \in Seq(S) /\ Len(SubSeq(a, 1, i - 1)) = i - 1
      /\ \A k \in 1..(i - 1) : SubSeq(a, 1, i - 1)[k] = a[k]
  OBVIOUS
<1>2. /\ SubSeq(a, i + 1, Len(a)) \in Seq(S) /\ Len(SubSeq(a, i + 1, Len(a))) = Len(a) - i
      /\ \A k \in 1..(Len(a) - i) : SubSeq(a, i + 1, Len(a))[k] = a[k + i]
  OBVIOUS
<1> DEFINE front == SubSeq(a, 1, i - 1)
           back == SubSeq(a, i + 1, Len(a))
<1>3. front \in Seq(S) /\ back \in Seq(S) /\ Len(front) = i - 1 /\ Len(back) = Len(a) - i
  BY <1>1, <1>2
<1>4. /\ \A k \in 1..(i - 1) : front[k] = a[k]
      /\ \A k \in 1..(Len(a) - i) : back[k] = a[k + i]
  BY <1>1, <1>2
<1>5. RemoveAt(a, i) = front \o back
  BY DEF RemoveAt
<1> HIDE DEF front, back
<1>6. /\ front \o back \in Seq(S) /\ Len(front \o back) = Len(a) - 1
      /\ \A k \in 1..(Len(a) - 1) :
           (front \o back)[k] = IF k <= i - 1 THEN front[k] ELSE back[k - (i - 1)]
  <2>1. Len(front) + Len(back) = Len(a) - 1
    BY <1>3
  <2>2. /\ front \o back \in Seq(S)
        /\ Len(front \o back) = Len(front) + Len(back)
        /\ \A k \in 1..(Len(front) + Len(back)) :
             (front \o back)[k] = IF k <= Len(front) THEN front[k] ELSE back[k - Len(front)]
    BY <1>3, ConcatProperties
  <2> QED BY <1>3, <2>1, <2>2
<1>7. ASSUME NEW k \in 1..(Len(a) - 1)
      PROVE  (front \o back)[k] = IF k < i THEN a[k] ELSE a[k + 1]
  <2>1. CASE k < i
    <3>1. k \in 1..(i - 1) /\ k <= i - 1
      BY <2>1
    <3> QED BY <1>4, <1>6, <2>1, <3>1
  <2>2. CASE ~(k < i)
    <3>1. k - (i - 1) \in 1..(Len(a) - i) /\ (k - (i - 1)) + i = k + 1 /\ ~(k <= i - 1)
      BY <2>2
    <3> QED BY <1>4, <1>6, <2>2, <3>1
  <2> QED BY <2>1, <2>2
<1> QED BY <1>5, <1>6, <1>7

\* a is array without some of its indexes in at, those above m: e[k] is the index
\* that a[k] had.
Enumerates(e, a, array, at, m) ==
  /\ m <= Len(a)
  /\ e \in [1..Len(a) -> {j \in DOMAIN array : j <= m \/ j \notin at}]
  /\ \A k \in 1..Len(a) : a[k] = array[e[k]]
  /\ \A k \in 1..m : e[k] = k
  /\ \A k, l \in 1..Len(a) : k < l => e[k] < e[l]
  /\ \A j \in DOMAIN array : j <= m \/ j \notin at => \E k \in 1..Len(a) : e[k] = j

\* One more step of the removal keeps the enumeration.
LEMMA WithoutEnumerates ==
  ASSUME NEW S, NEW array \in Seq(S), NEW at, NEW a \in Seq(S), NEW e, NEW m \in Nat,
         m < Len(array), Enumerates(e, a, array, at, m + 1)
  PROVE  /\ Without(a, m, at) \in Seq(S)
         /\ \E f : Enumerates(f, Without(a, m, at), array, at, m)
<1>1. CASE m + 1 \notin at
  <2>1. {j \in DOMAIN array : j <= m + 1 \/ j \notin at} = {j \in DOMAIN array : j <= m \/ j \notin at}
    BY <1>1
  <2>2. Without(a, m, at) = a
    BY <1>1 DEF Without
  <2>3. Enumerates(e, a, array, at, m)
    BY <2>1 DEF Enumerates
  <2> QED BY <2>2, <2>3
<1>2. CASE m + 1 \in at
  <2>0. m + 1 \in 1..Len(a)
    BY DEF Enumerates
  <2>1. PICK b \in Seq(S) : b = RemoveAt(a, m + 1)
    BY <2>0, RemoveAtIs
  <2>2. /\ Len(b) = Len(a) - 1
        /\ \A k \in 1..(Len(a) - 1) : b[k] = IF k < m + 1 THEN a[k] ELSE a[k + 1]
    BY <2>0, <2>1, RemoveAtIs
  <2> DEFINE f == [k \in 1..Len(b) |-> IF k < m + 1 THEN e[k] ELSE e[k + 1]]
  <2>3. \A k \in 1..Len(b) : f[k] = IF k < m + 1 THEN e[k] ELSE e[k + 1]
    OBVIOUS
  <2>4. DOMAIN f = 1..Len(b) /\ f = [k \in 1..Len(b) |-> f[k]]
    OBVIOUS
  <2> HIDE DEF f
  <2>5. e[m + 1] = m + 1 /\ m + 1 \in 1..Len(a)
    BY DEF Enumerates
  <2>6. m <= Len(b)
    BY <2>2, <2>5
  <2>7. \A k \in 1..m : f[k] = k
    <3>1. \A k \in 1..m : k \in 1..Len(b) /\ k < m + 1 /\ k \in 1..(m + 1)
      BY <2>6
    <3> QED BY <2>3, <3>1 DEF Enumerates
  <2>8. \A k \in 1..Len(b) : b[k] = array[f[k]]
    BY <2>2, <2>3 DEF Enumerates
  <2>9. \A k, l \in 1..Len(b) : k < l => f[k] < f[l]
    BY <2>2, <2>3 DEF Enumerates
  <2>10. ASSUME NEW k \in 1..Len(b) PROVE f[k] \in {j \in DOMAIN array : j <= m \/ j \notin at}
    <3>1. CASE k < m + 1
      BY <2>3, <2>2, <2>7, <3>1 DEF Enumerates
    <3>2. CASE k >= m + 1
      <4>1. k + 1 \in 1..Len(a) /\ f[k] = e[k + 1] /\ e[k + 1] > m + 1
        BY <2>2, <2>3, <2>5, <3>2 DEF Enumerates
      <4> QED BY <4>1 DEF Enumerates
    <3> QED BY <3>1, <3>2
  <2>11. ASSUME NEW j \in DOMAIN array, j <= m \/ j \notin at PROVE \E k \in 1..Len(b) : f[k] = j
    <3>1. PICK k \in 1..Len(a) : e[k] = j
      BY <2>11 DEF Enumerates
    <3>2. k # m + 1
      BY <1>2, <2>5, <2>11, <3>1
    <3>3. CASE k < m + 1
      BY <2>2, <2>3, <2>5, <3>1, <3>3
    <3>4. CASE k > m + 1
      <4>1. k - 1 \in 1..Len(b) /\ ~(k - 1 < m + 1) /\ (k - 1) + 1 = k
        BY <2>2, <3>4
      <4> QED BY <2>3, <3>1, <4>1
    <3> QED BY <3>2, <3>3, <3>4
  <2>12. f \in [1..Len(b) -> {j \in DOMAIN array : j <= m \/ j \notin at}]
    BY <2>4, <2>10
  <2>13. Enumerates(f, b, array, at, m)
    BY <2>6, <2>7, <2>8, <2>9, <2>11, <2>12 DEF Enumerates
  <2> QED BY <1>2, <2>1, <2>13 DEF Without
<1> QED BY <1>1, <1>2

\* What RemoveAll leaves is the array without the indexes removed, in order.
LEMMA RemoveAllKeepsTheRest ==
  ASSUME NEW S, NEW array \in Seq(S), NEW at
  PROVE  /\ RemoveAll(array, at) \in Seq(S)
         /\ \E e : Enumerates(e, RemoveAll(array, at), array, at, 0)
<1>1. PICK n \in Nat : n = Len(array)
  OBVIOUS
<1>2. PICK left : /\ left[n] = array
                  /\ \A m \in 0..(n - 1) : left[m] = Without(left[m + 1], m, at)
                  /\ RemoveAll(array, at) = left[0]
  BY <1>1, RemoveAllIsChain
<1> DEFINE Fine(m) == left[m] \in Seq(S) /\ \E e : Enumerates(e, left[m], array, at, m)
           T == {k \in 0..n : Fine(n - k)}
<1>3. Fine(n)
  <2> DEFINE e == [k \in 1..n |-> k]
  <2>1. Enumerates(e, array, array, at, n)
    BY <1>1 DEF Enumerates
  <2> QED BY <1>2, <2>1
<1>4. ASSUME NEW k \in 0..(n - 1), Fine(n - k) PROVE Fine(n - (k + 1))
  <2>1. PICK m \in 0..(n - 1) : m = n - (k + 1)
    OBVIOUS
  <2>2. m + 1 = n - k /\ m \in Nat /\ m < n
    BY <2>1
  <2>3. left[m + 1] \in Seq(S) /\ \E e : Enumerates(e, left[m + 1], array, at, m + 1)
    BY <1>4, <2>2
  <2>4. Without(left[m + 1], m, at) \in Seq(S) /\ \E f : Enumerates(f, Without(left[m + 1], m, at), array, at, m)
    BY <1>1, <2>2, <2>3, WithoutEnumerates
  <2>5. Fine(m)
    BY <1>2, <2>1, <2>4
  <2> QED BY <2>1, <2>5
<1> HIDE DEF Fine
<1>5. 0 \in T
  <2>1. n - 0 = n /\ 0 \in 0..n
    OBVIOUS
  <2> QED BY <1>3, <2>1
<1>6. \A k \in 0..(n - 1) : k \in T => k + 1 \in T
  BY <1>4
<1>7. n \in T
  <2> HIDE DEF T
  <2>1. 0..n \subseteq T
    BY <1>5, <1>6, AllUpTo
  <2> QED BY <2>1
<1>8. Fine(0)
  <2>1. n - n = 0
    OBVIOUS
  <2> QED BY <1>7, <2>1
<1> QED BY <1>2, <1>8 DEF Fine

\* As many signatures are left as indexes were not removed.
LEMMA RemoveAllLength ==
  ASSUME NEW S, NEW array \in Seq(S), NEW at \in SUBSET DOMAIN array
  PROVE  /\ Len(RemoveAll(array, at)) = Len(array) - Cardinality(at)
         /\ Cardinality(at) \in Nat
<1> DEFINE a == RemoveAll(array, at)
           kept == DOMAIN array \ at
<1>1. a \in Seq(S) /\ \E e : Enumerates(e, a, array, at, 0)
  BY RemoveAllKeepsTheRest
<1> HIDE DEF a
<1>2. PICK e : Enumerates(e, a, array, at, 0)
  BY <1>1
<1>3. {j \in DOMAIN array : j <= 0 \/ j \notin at} = kept
  <2>1. \A j \in DOMAIN array : ~(j <= 0)
    OBVIOUS
  <2> QED BY <2>1
<1>4. e \in Bijection(1..Len(a), kept)
  <2>1. e \in [1..Len(a) -> kept]
    BY <1>2, <1>3 DEF Enumerates
  <2>2. \A k, l \in 1..Len(a) : e[k] = e[l] => k = l
    <3>1. \A k \in 1..Len(a) : e[k] \in Nat
      BY <2>1
    <3>2. \A k, l \in 1..Len(a) : k < l \/ l < k \/ k = l
      OBVIOUS
    <3> QED BY <1>2, <3>1, <3>2 DEF Enumerates
  <2>3. \A j \in kept : \E k \in 1..Len(a) : e[k] = j
    BY <1>2 DEF Enumerates
  <2> QED BY <2>1, <2>2, <2>3 DEF Bijection, Injection, Surjection, IsInjective
<1>5. Len(a) \in Nat /\ Cardinality(kept) = Len(a)
  <2>1. Len(a) \in Nat
    BY <1>1
  <2>2. ExistsBijection(1..Len(a), kept)
    BY <1>4 DEF ExistsBijection
  <2> QED BY <2>1, <2>2, FS_CountingElements
<1>6. /\ IsFiniteSet(DOMAIN array) /\ Cardinality(DOMAIN array) = Len(array)
      /\ IsFiniteSet(at) /\ Cardinality(at) \in Nat
  <2>1. DOMAIN array = 1..Len(array) /\ Len(array) \in Nat
    OBVIOUS
  <2>2. IsFiniteSet(1..Len(array)) /\ Cardinality(1..Len(array)) = Len(array)
    <3>1. PICK n \in Nat : n = Len(array)
      BY <2>1
    <3>2. /\ IsFiniteSet(1..n)
          /\ Cardinality(1..n) = IF 1 > n THEN 0 ELSE n - 1 + 1
      BY FS_Interval
    <3> QED BY <3>1, <3>2
  <2>3. IsFiniteSet(at)
    BY <2>1, <2>2, FS_Subset
  <2> QED BY <2>1, <2>2, <2>3, FS_CardinalityType
<1>7. Cardinality(kept) = Cardinality(DOMAIN array) - Cardinality(DOMAIN array \cap at)
  BY <1>6, FS_Difference
<1>8. DOMAIN array \cap at = at
  OBVIOUS
<1> QED BY <1>5, <1>6, <1>7, <1>8 DEF a

-----------------------------------------------------------------------------
(* Signers *)

Hash == Nat \X Chain
Signature == [by : Owner, hash : Hash, form : {"0", "27", "bad"}]

\* Two signatures recover to one signer only if one account made both over one hash.
LEMMA SameSigner ==
  ASSUME NEW h, NEW r \in Signature, NEW s \in Signature,
         hashECRecover(h, r) = hashECRecover(h, s), hashECRecover(h, r) # Nothing
  PROVE  r.by = s.by /\ r.hash = s.hash /\ r.form # "bad" /\ s.form # "bad"
<1>1. \A x, y : <<x>> = <<y>> => x = y
  OBVIOUS
<1>2. \A x, a, b, c, d : <<x>> # <<a, b, c, d>>
  <2> SUFFICES ASSUME NEW x, NEW a, NEW b, NEW c, NEW d PROVE <<x>> # <<a, b, c, d>>
    OBVIOUS
  <2>1. DOMAIN <<x>> = 1..1 /\ DOMAIN <<a, b, c, d>> = 1..4 /\ 4 \notin 1..1 /\ 4 \in 1..4
    OBVIOUS
  <2> QED BY <2>1
<1>3. \A s1, a1, s2, a2 : <<s1, a1.by, a1.hash, h>> = <<s2, a2.by, a2.hash, h>>
        => a1.by = a2.by /\ a1.hash = a2.hash
  OBVIOUS
<1>4. r.form # "bad" /\ s.form # "bad"
  BY DEF hashECRecover
<1> QED BY <1>1, <1>2, <1>3, <1>4 DEF hashECRecover, Stranger

\* Nobody recovers from a damaged signature only.
LEMMA RecoverNothing ==
  ASSUME NEW h, NEW s \in Signature
  PROVE  hashECRecover(h, s) = Nothing <=> s.form = "bad"
<1>1. <<s.by>> # <<"nothing">>
  BY MultisignAssumption DEF Signature
<1>2. Stranger(s, h) # <<"nothing">>
  <2>1. DOMAIN Stranger(s, h) = 1..4 /\ DOMAIN <<"nothing">> = 1..1 /\ 4 \notin 1..1 /\ 4 \in 1..4
    BY DEF Stranger
  <2> QED BY <2>1
<1> QED BY <1>1, <1>2 DEF hashECRecover, Nothing

\* No signer is there twice.
Distinct(array, h) ==
  \A i, j \in DOMAIN array : hashECRecover(h, array[i]) = hashECRecover(h, array[j]) => i = j

\* Dropping the duplicates leaves each signer once, nobody's signature is new, and
\* as many go as there were duplicates.
LEMMA DuplicatesGone ==
  ASSUME NEW array \in Seq(Signature), NEW h,
         NEW a, a = RemoveAll(array, duplicateIndexes(array, h))
  PROVE  /\ a \in Seq(Signature)
         /\ Distinct(a, h)
         /\ \A k \in DOMAIN a : \E i \in DOMAIN array : a[k] = array[i]
         /\ \A i \in DOMAIN array : \E k \in DOMAIN a :
              hashECRecover(h, a[k]) = hashECRecover(h, array[i])
         /\ Len(a) = Len(array) - Cardinality(duplicateIndexes(array, h))
         /\ Cardinality(duplicateIndexes(array, h)) \in Nat
<1> DEFINE at == duplicateIndexes(array, h)
           who(i) == hashECRecover(h, array[i])
<1>1. \A i \in DOMAIN array : i \in at <=> \E j \in 1..(i - 1) : who(j) = who(i)
  <2>1. \A i \in DOMAIN array : i \in Nat /\ \A j \in 1..(i - 1) : j \in DOMAIN array
    OBVIOUS
  <2>2. \A i \in DOMAIN array : Signers(array, h)[i] = who(i)
    BY DEF Signers
  <2> QED BY <2>1, <2>2 DEF duplicateIndexes
<1>2. at \in SUBSET DOMAIN array
  BY DEF duplicateIndexes
<1>3. a \in Seq(Signature) /\ \E e : Enumerates(e, a, array, at, 0)
  BY RemoveAllKeepsTheRest
<1>4. Len(a) = Len(array) - Cardinality(at) /\ Cardinality(at) \in Nat
  BY <1>2, RemoveAllLength
<1> HIDE DEF at
<1>5. PICK e : Enumerates(e, a, array, at, 0)
  BY <1>3
<1>6. \A k \in DOMAIN a : e[k] \in DOMAIN array /\ e[k] \notin at /\ a[k] = array[e[k]]
  <2>1. DOMAIN a = 1..Len(a) /\ \A j \in DOMAIN array : ~(j <= 0)
    BY <1>3
  <2> QED BY <1>5, <2>1 DEF Enumerates
<1>7. Distinct(a, h)
  <2> SUFFICES ASSUME NEW k \in DOMAIN a, NEW l \in DOMAIN a, k < l, who(e[k]) = who(e[l])
               PROVE  FALSE
    <3>1. \A k, l \in DOMAIN a : k < l \/ l < k \/ k = l
      BY <1>3
    <3> QED BY <1>6, <3>1 DEF Distinct
  <2>1. e[k] < e[l]
    <3>1. k \in 1..Len(a) /\ l \in 1..Len(a)
      BY <1>3
    <3> QED BY <1>5, <3>1 DEF Enumerates
  <2>2. e[k] \in 1..(e[l] - 1)
    BY <1>6, <2>1
  <2> QED BY <1>1, <1>6, <2>2
<1>8. ASSUME NEW i \in DOMAIN array
      PROVE  \E k \in DOMAIN a : hashECRecover(h, a[k]) = who(i)
  <2> DEFINE Same == {j \in DOMAIN array : who(j) = who(i)}
  <2>1. Same \in SUBSET Nat /\ i \in Same
    OBVIOUS
  <2>2. PICK first \in Same : \A j \in Same : first <= j
    <3> HIDE DEF Same
    <3> QED BY <2>1, LeastNumber
  <2>3. first \notin at
    <3> SUFFICES ASSUME NEW j \in 1..(first - 1), who(j) = who(first) PROVE FALSE
      BY <1>1, <2>2
    <3>1. j \in Same /\ j < first
      BY <2>2
    <3> QED BY <2>2, <3>1
  <2>4. PICK k \in 1..Len(a) : e[k] = first
    BY <1>5, <2>2, <2>3 DEF Enumerates
  <2>5. k \in DOMAIN a
    BY <1>3, <2>4
  <2> QED BY <1>6, <2>2, <2>4, <2>5
<1> QED BY <1>3, <1>4, <1>6, <1>7, <1>8 DEF at

-----------------------------------------------------------------------------
(* The invariant *)

Waiting == [device : Device, owner : Owner, chain : Chain, password : BOOLEAN, duplicates : SUBSET Nat]
Result ==
  [ok : BOOLEAN, owner : Owner, chain : Chain] \cup [ok : {FALSE}, owner : Owner, chain : {"none"}] \cup {NoResult}

MultisignTypeOK ==
  /\ keys \in [Device -> SUBSET Owner]
  /\ raw \in Nat
  /\ signatureArray \in Seq(Signature)
  /\ call \in Waiting \cup {NoCall}
  /\ last \in Result
  /\ damage \in Nat

\* What the waiting call found in the array is there still.
StillSeen ==
  call # NoCall =>
    LET h == newHash(call.chain)
        signers == Signers(signatureArray, h)
    IN /\ call.duplicates = duplicateIndexes(signatureArray, h)
       /\ Nothing \notin Range(signers)
       /\ <<call.owner>> \notin Range(signers)
       /\ Room(call.duplicates)

\* SuccessIsComplete without the counting.
Complete(array, owner, h) ==
  /\ \E i \in DOMAIN array : hashECRecover(h, array[i]) = <<owner>>
  /\ Distinct(array, h)
  /\ \A i \in DOMAIN array : hashECRecover(h, array[i]) # Nothing
  /\ Len(array) <= MaxSignatures

SuccessComplete == last.ok => Complete(signatureArray, last.owner, newHash(last.chain))

MInv == MultisignTypeOK /\ StillSeen /\ SuccessComplete

\* The signers of an array, as a set.
LEMMA InSigners ==
  ASSUME NEW array \in Seq(Signature), NEW h, NEW x
  PROVE  x \in Range(Signers(array, h)) <=> \E i \in DOMAIN array : hashECRecover(h, array[i]) = x
BY DEF Range, Signers

\* A waiting call is one of an account.
LEMMA WaitingOrNot ==
  ASSUME MultisignTypeOK
  PROVE  call # NoCall <=> call \in Waiting
BY MultisignAssumption DEF MultisignTypeOK, Waiting, NoCall

\* A completed array has one signature of its caller, and a signer for each.
LEMMA CompleteCounts ==
  ASSUME NEW array \in Seq(Signature), NEW owner, NEW h, Complete(array, owner, h)
  PROVE  LET signers == Signers(array, h)
         IN /\ Cardinality({i \in DOMAIN signers : signers[i] = <<owner>>}) = 1
            /\ Cardinality(Range(signers)) = Len(signers)
            /\ Nothing \notin Range(signers)
            /\ Len(array) <= MaxSignatures
<1> DEFINE signers == Signers(array, h)
<1>1. PICK n \in Nat : n = Len(array) /\ DOMAIN array = 1..n
  OBVIOUS
<1>2. /\ signers = [i \in 1..n |-> hashECRecover(h, array[i])]
      /\ \A i \in 1..n : signers[i] = hashECRecover(h, array[i])
      /\ DOMAIN signers = 1..n
  BY <1>1 DEF Signers
<1>3. Nothing \notin Range(signers)
  BY InSigners DEF Complete
<1> HIDE DEF signers
<1>4. Len(signers) = n
  BY <1>1, <1>2
<1>5. \A i, j \in 1..n : signers[i] = signers[j] => i = j
  BY <1>1, <1>2 DEF Complete, Distinct
<1>6. Cardinality({i \in DOMAIN signers : signers[i] = <<owner>>}) = 1
  <2>1. PICK i \in 1..n : signers[i] = <<owner>>
    BY <1>1, <1>2 DEF Complete
  <2>2. {j \in DOMAIN signers : signers[j] = <<owner>>} = {i}
    BY <1>2, <1>5, <2>1
  <2> QED BY <2>2, FS_Singleton
<1>7. Cardinality(Range(signers)) = n
  <2>1. signers \in Bijection(1..n, Range(signers))
    BY <1>2, <1>5 DEF Bijection, Injection, Surjection, IsInjective, Range
  <2>2. ExistsBijection(1..n, Range(signers))
    BY <2>1 DEF ExistsBijection
  <2> QED BY <2>2, FS_CountingElements
<1> QED BY <1>3, <1>4, <1>6, <1>7 DEF Complete, signers

\* The invariant holds initially.
LEMMA InitMInv == Init => MInv
BY DEF Init, MInv, MultisignTypeOK, StillSeen, SuccessComplete, Result, NoResult, NoCall

\* Success without signing: the caller's signature was there and stays.
LEMMA AlreadySignedKeeps ==
  ASSUME MInv, NEW owner \in Owner, NEW chain \in Chain, call = NoCall,
         Len(signatureArray) <= MaxSignatures,
         Nothing \notin Range(Signers(signatureArray, newHash(chain))),
         <<owner>> \in Range(Signers(signatureArray, newHash(chain))),
         AlreadySigned(owner, chain, duplicateIndexes(signatureArray, newHash(chain)))
  PROVE  MInv'
<1> DEFINE h == newHash(chain)
           a == RemoveAll(signatureArray, duplicateIndexes(signatureArray, h))
<1>1. signatureArray \in Seq(Signature)
  BY DEF MInv, MultisignTypeOK
<1>2. /\ a \in Seq(Signature) /\ Distinct(a, h)
      /\ \A k \in DOMAIN a : \E i \in DOMAIN signatureArray : a[k] = signatureArray[i]
      /\ \A i \in DOMAIN signatureArray : \E k \in DOMAIN a :
           hashECRecover(h, a[k]) = hashECRecover(h, signatureArray[i])
      /\ Len(a) = Len(signatureArray) - Cardinality(duplicateIndexes(signatureArray, h))
      /\ Cardinality(duplicateIndexes(signatureArray, h)) \in Nat
  BY <1>1, DuplicatesGone
<1>3. /\ \A i \in DOMAIN signatureArray : hashECRecover(h, signatureArray[i]) # Nothing
      /\ \E i \in DOMAIN signatureArray : hashECRecover(h, signatureArray[i]) = <<owner>>
  BY <1>1, InSigners
<1>4. Len(a) <= MaxSignatures
  <2>1. Len(signatureArray) \in Nat /\ MaxSignatures \in Nat
    BY <1>1, MultisignAssumption
  <2> QED BY <1>2, <2>1
<1>5. /\ signatureArray' = a /\ last' = Success(owner, chain)
      /\ UNCHANGED <<keys, raw, call, damage>>
  BY DEF AlreadySigned
<1> HIDE DEF a
<1>6. Complete(a, owner, h)
  BY <1>2, <1>3, <1>4 DEF Complete
<1>7. last'.ok /\ last'.owner = owner /\ last'.chain = chain /\ last' \in Result
  BY <1>5 DEF Success, Result
<1>8. newHash(chain)' = h
  BY <1>5 DEF newHash
<1>9. SuccessComplete'
  BY <1>5, <1>6, <1>7, <1>8 DEF SuccessComplete, newHash
<1>10. StillSeen'
  BY <1>5 DEF StillSeen, NoCall
<1> QED BY <1>2, <1>5, <1>7, <1>9, <1>10 DEF MInv, MultisignTypeOK

\* The part of a call up to the wait for its key keeps the invariant.
LEMMA BeginSignKeeps ==
  ASSUME MInv, NEW device \in Device, NEW owner \in Owner, NEW chain \in Chain,
         NEW password \in BOOLEAN, BeginSign(device, owner, chain, password)
  PROVE  MInv'
<1> DEFINE h == newHash(chain)
           signers == Signers(signatureArray, h)
           duplicates == duplicateIndexes(signatureArray, h)
<1>0. call = NoCall
  BY DEF BeginSign
<1>1. CASE Refused(owner)
  <2>1. ~last'.ok /\ last' \in Result
    BY <1>1 DEF Refused, Failure, Result
  <2> QED BY <1>0, <1>1, <2>1 DEF Refused, MInv, MultisignTypeOK, StillSeen, SuccessComplete
<1>2. CASE /\ ~(Len(signatureArray) > MaxSignatures) /\ Nothing \notin Range(signers)
           /\ <<owner>> \in Range(signers) /\ AlreadySigned(owner, chain, duplicates)
  <2>1. Len(signatureArray) \in Nat /\ MaxSignatures \in Nat
    BY MultisignAssumption DEF MInv, MultisignTypeOK
  <2> QED BY <1>0, <1>2, <2>1, AlreadySignedKeeps
<1>3. CASE /\ Nothing \notin Range(signers) /\ <<owner>> \notin Range(signers)
           /\ Room(duplicates) /\ ToSign(device, owner, chain, password, duplicates)
  <2>1. duplicates \in SUBSET Nat
    BY DEF duplicateIndexes, MInv, MultisignTypeOK
  <2>2. /\ call'.owner = owner /\ call'.chain = chain /\ call'.duplicates = duplicates
        /\ call' \in Waiting
    BY <1>3, <2>1 DEF ToSign, Waiting
  <2>3. ~last'.ok /\ last' \in Result /\ UNCHANGED <<keys, raw, signatureArray, damage>>
    BY <1>3 DEF ToSign, NoResult, Result
  <2>4. StillSeen'
    BY <1>3, <2>2, <2>3 DEF StillSeen, newHash, Room
  <2>5. SuccessComplete'
    BY <2>3 DEF SuccessComplete
  <2> QED BY <2>2, <2>3, <2>4, <2>5 DEF MInv, MultisignTypeOK
<1> QED BY <1>1, <1>2, <1>3 DEF BeginSign

\* The array a call completes: the duplicates are gone and its signature is last.
Signing(a, owner, h) == Append(a, [by |-> owner, hash |-> h, form |-> "0"])

\* Signing an array that the account has not signed completes it.
LEMMA SigningCompletes ==
  ASSUME NEW array \in Seq(Signature), NEW owner \in Owner, NEW h \in Hash,
         \A i \in DOMAIN array : /\ hashECRecover(h, array[i]) # Nothing
                                 /\ hashECRecover(h, array[i]) # <<owner>>,
         Len(array) - Cardinality(duplicateIndexes(array, h)) < MaxSignatures
  PROVE  LET a == RemoveAll(array, duplicateIndexes(array, h))
         IN /\ Signing(a, owner, h) \in Seq(Signature)
            /\ Complete(Signing(a, owner, h), owner, h)
<1> DEFINE a == RemoveAll(array, duplicateIndexes(array, h))
           new == [by |-> owner, hash |-> h, form |-> "0"]
<1>1. /\ a \in Seq(Signature) /\ Distinct(a, h)
      /\ \A k \in DOMAIN a : \E i \in DOMAIN array : a[k] = array[i]
      /\ Len(a) = Len(array) - Cardinality(duplicateIndexes(array, h))
      /\ Cardinality(duplicateIndexes(array, h)) \in Nat
  BY DuplicatesGone
<1>2. \A k \in DOMAIN a : /\ hashECRecover(h, a[k]) # Nothing
                          /\ hashECRecover(h, a[k]) # <<owner>>
  BY <1>1
<1>3. new \in Signature /\ hashECRecover(h, new) = <<owner>> /\ hashECRecover(h, new) # Nothing
  <2>1. new \in Signature /\ hashECRecover(h, new) = <<owner>>
    BY DEF Signature, hashECRecover
  <2> QED BY <2>1, RecoverNothing
<1>4. Len(a) + 1 <= MaxSignatures
  BY <1>1, MultisignAssumption
<1> DEFINE b == Append(a, new)
<1> HIDE DEF a, new
<1>5. /\ b \in Seq(Signature) /\ Len(b) = Len(a) + 1 /\ DOMAIN b = 1..(Len(a) + 1)
      /\ b[Len(a) + 1] = new /\ \A k \in 1..Len(a) : b[k] = a[k]
  BY <1>1, <1>3
<1> HIDE DEF b
<1>6. \A k \in DOMAIN b : k # Len(a) + 1 => k \in DOMAIN a /\ b[k] = a[k]
  BY <1>1, <1>5
<1>7. Distinct(b, h)
  BY <1>1, <1>2, <1>3, <1>5, <1>6 DEF Distinct
<1>8. \A k \in DOMAIN b : hashECRecover(h, b[k]) # Nothing
  BY <1>2, <1>3, <1>5, <1>6
<1>9. Len(a) + 1 \in DOMAIN b
  BY <1>1, <1>5
<1>10. Complete(b, owner, h)
  BY <1>3, <1>4, <1>5, <1>7, <1>8, <1>9 DEF Complete
<1> QED BY <1>5, <1>10 DEF a, b, new, Signing

\* So does the rest of it: the array is still the one it looked at.
LEMMA EndSignKeeps ==
  ASSUME MInv, NEW signed \in BOOLEAN, EndSign(signed)
  PROVE  MInv'
<1> DEFINE h == newHash(call.chain)
           ok == call.owner \in keys[call.device] /\ call.password /\ signed
<1>1. call # NoCall /\ call' = NoCall /\ UNCHANGED <<keys, raw, damage>>
  BY DEF EndSign
<1>2. call \in Waiting /\ call.owner \in Owner /\ call.chain \in Chain
  BY <1>1, WaitingOrNot DEF MInv, Waiting
<1>3. h \in Hash
  BY <1>2 DEF newHash, Hash, MInv, MultisignTypeOK
<1>4. CASE ok
  <2> DEFINE new == Signing(RemoveAll(signatureArray, duplicateIndexes(signatureArray, h)), call.owner, h)
  <2>1. /\ call.duplicates = duplicateIndexes(signatureArray, h)
        /\ Len(signatureArray) - Cardinality(call.duplicates) < MaxSignatures
        /\ signatureArray \in Seq(Signature)
        /\ \A i \in DOMAIN signatureArray : /\ hashECRecover(h, signatureArray[i]) # Nothing
                                            /\ hashECRecover(h, signatureArray[i]) # <<call.owner>>
    BY <1>1, InSigners DEF MInv, StillSeen, MultisignTypeOK, Room
  <2>2. new \in Seq(Signature) /\ Complete(new, call.owner, h)
    BY <1>2, <1>3, <2>1, SigningCompletes
  <2>3. signatureArray' = new /\ last' = Success(call.owner, call.chain)
    BY <1>4, <2>1 DEF EndSign, Signing
  <2> HIDE DEF new
  <2>4. last'.ok /\ last'.owner = call.owner /\ last'.chain = call.chain /\ last' \in Result
    BY <1>2, <2>3 DEF Success, Result
  <2>5. SuccessComplete'
    BY <1>1, <2>2, <2>3, <2>4 DEF SuccessComplete, newHash
  <2> QED BY <1>1, <2>2, <2>3, <2>4, <2>5 DEF MInv, MultisignTypeOK, StillSeen
<1>5. CASE ~ok
  <2>1. signatureArray' = signatureArray /\ last' = Failure(call.owner)
    BY <1>5 DEF EndSign
  <2>2. ~last'.ok /\ last' \in Result
    BY <1>2, <2>1 DEF Failure, Result
  <2> QED BY <1>1, <2>1, <2>2 DEF MInv, MultisignTypeOK, StillSeen, SuccessComplete
<1> QED BY <1>4, <1>5

\* So does the deletion of a key, also of the one that is waited for.
LEMMA DeleteKeyKeeps ==
  ASSUME MInv, NEW device \in Device, NEW owner \in Owner, DeleteKey(device, owner)
  PROVE  MInv'
<1>1. keys' \in [Device -> SUBSET Owner]
  BY DEF DeleteKey, MInv, MultisignTypeOK
<1>2. UNCHANGED <<raw, signatureArray, call, last, damage>>
  BY DEF DeleteKey
<1> QED BY <1>1, <1>2 DEF MInv, MultisignTypeOK, StillSeen, SuccessComplete, Room, newHash

\* While the transaction is elsewhere no call waits and none has just ended.
LEMMA ElsewhereKeeps ==
  ASSUME MInv, Elsewhere, UNCHANGED <<keys, call>>, raw' \in Nat, damage' \in Nat,
         signatureArray' \in Seq(Signature)
  PROVE  MInv'
<1>1. ~last'.ok /\ last' \in Result /\ call' = NoCall
  BY DEF Elsewhere, NoResult, Result
<1> QED BY <1>1 DEF MInv, MultisignTypeOK, StillSeen, SuccessComplete

\* So does what others do to the transaction.
LEMMA OthersKeep ==
  ASSUME MInv,
         \/ \E i \in DOMAIN signatureArray : (\E form \in {"0", "27"} : Copied(i, form)) \/ Damaged(i)
         \/ EditRaw
  PROVE  MInv'
<1>0. MultisignTypeOK /\ damage + 1 \in Nat /\ raw + 1 \in Nat
  BY DEF MInv, MultisignTypeOK
<1>1. CASE EditRaw
  BY <1>0, <1>1, ElsewhereKeeps DEF EditRaw, MultisignTypeOK
<1>2. ASSUME NEW i \in DOMAIN signatureArray, NEW form \in {"0", "27"}, Copied(i, form) PROVE MInv'
  <2>1. [signatureArray[i] EXCEPT !.form = form] \in Signature
    <3>1. PICK s \in Signature : s = signatureArray[i]
      BY <1>0 DEF MultisignTypeOK
    <3> QED BY <3>1 DEF Signature
  <2>2. signatureArray' \in Seq(Signature)
    BY <1>0, <1>2, <2>1 DEF Copied, MultisignTypeOK
  <2> QED BY <1>0, <1>2, <2>2, ElsewhereKeeps DEF Copied, MultisignTypeOK
<1>3. ASSUME NEW i \in DOMAIN signatureArray, Damaged(i) PROVE MInv'
  <2>1. [signatureArray[i] EXCEPT !.form = "bad"] \in Signature
    <3>1. PICK s \in Signature : s = signatureArray[i]
      BY <1>0 DEF MultisignTypeOK
    <3> QED BY <3>1 DEF Signature
  <2>2. signatureArray' = [signatureArray EXCEPT ![i] = [signatureArray[i] EXCEPT !.form = "bad"]]
    BY <1>3 DEF Damaged
  <2>3. signatureArray' \in Seq(Signature)
    BY <1>0, <2>1, <2>2 DEF MultisignTypeOK
  <2> QED BY <1>0, <1>3, <2>3, ElsewhereKeeps DEF Damaged, MultisignTypeOK
<1> QED BY <1>1, <1>2, <1>3

\* Every step keeps the invariant.
LEMMA StepKeepsMInv == MInv /\ [Next]_vars => MInv'
<1> SUFFICES ASSUME MInv, [Next]_vars PROVE MInv'
  OBVIOUS
<1>1. CASE UNCHANGED vars
  BY <1>1 DEF vars, MInv, MultisignTypeOK, StillSeen, SuccessComplete, Room, newHash
<1> QED BY <1>1, BeginSignKeeps, EndSignKeeps, DeleteKeyKeeps, OthersKeep DEF Next

\* The invariant holds in every reachable state.
THEOREM MultisignInvariant == Spec => []MInv
BY InitMInv, StepKeepsMInv, PTL DEF Spec

\* After a success the account has signed once under the call's hash, no signer is
\* there twice, none is unknown and the array is within the limit (signTranscation,
\* lines 75-137).
THEOREM SuccessMeansComplete == Spec => []SuccessIsComplete
<1>1. MInv => SuccessIsComplete
  BY CompleteCounts DEF MInv, MultisignTypeOK, SuccessComplete, SuccessIsComplete
<1> QED BY <1>1, MultisignInvariant, PTL

\* A call that fails changes no signature, also when it fails after it waited for
\* its key (lines 77-142).
THEOREM FailureIsHarmless == Spec => FailureChangesNothing
<1>1. MInv /\ [Next]_vars =>
        [last' # last /\ last'.owner # "none" /\ ~last'.ok => signatureArray' = signatureArray]_vars
  <2> SUFFICES ASSUME Next, last' # last, last'.owner # "none", ~last'.ok
               PROVE  signatureArray' = signatureArray
    BY DEF vars
  <2>1. last' # NoResult
    BY DEF NoResult
  <2>2. ASSUME NEW device \in Device, NEW owner \in Owner, NEW chain \in Chain,
               NEW password \in BOOLEAN, BeginSign(device, owner, chain, password)
        PROVE  signatureArray' = signatureArray
    BY <2>1, <2>2 DEF BeginSign, Refused, AlreadySigned, ToSign, Success
  <2>3. ASSUME NEW signed \in BOOLEAN, EndSign(signed) PROVE signatureArray' = signatureArray
    BY <2>3 DEF EndSign, Success
  <2>4. CASE \E device \in Device, owner \in Owner : DeleteKey(device, owner)
    BY <2>4 DEF DeleteKey
  <2> QED BY <2>1, <2>2, <2>3, <2>4 DEF Next, Copied, Damaged, EditRaw, Elsewhere
<1> QED BY <1>1, MultisignInvariant, PTL DEF Spec, FailureChangesNothing

\* What an array says: which account signed what.
LEMMA InSigned ==
  ASSUME NEW array \in Seq(Signature), NEW x
  PROVE  x \in Signed(array) <=>
           \E i \in DOMAIN array : array[i].form # "bad" /\ x = <<array[i].by, array[i].hash>>
BY DEF Signed

\* Dropping duplicates costs nobody a signature, for whatever hash it was made.
LEMMA DroppingKeepsSigned ==
  ASSUME NEW array \in Seq(Signature), NEW h,
         \A i \in DOMAIN array : hashECRecover(h, array[i]) # Nothing
  PROVE  Signed(RemoveAll(array, duplicateIndexes(array, h))) = Signed(array)
<1>0. PICK a : a = RemoveAll(array, duplicateIndexes(array, h))
  OBVIOUS
<1>1. /\ a \in Seq(Signature)
      /\ \A k \in DOMAIN a : \E i \in DOMAIN array : a[k] = array[i]
      /\ \A i \in DOMAIN array : \E k \in DOMAIN a :
           hashECRecover(h, a[k]) = hashECRecover(h, array[i])
  BY <1>0, DuplicatesGone
<1>2. ASSUME NEW x \in Signed(array) PROVE x \in Signed(a)
  <2>1. PICK i \in DOMAIN array : x = <<array[i].by, array[i].hash>>
    BY InSigned
  <2>2. PICK k \in DOMAIN a : hashECRecover(h, a[k]) = hashECRecover(h, array[i])
    BY <1>1
  <2>3. array[i] \in Signature /\ a[k] \in Signature
    BY <1>1
  <2>4. a[k].by = array[i].by /\ a[k].hash = array[i].hash /\ a[k].form # "bad"
    BY <2>2, <2>3, SameSigner
  <2> QED BY <1>1, <2>1, <2>4, InSigned
<1>3. ASSUME NEW x \in Signed(a) PROVE x \in Signed(array)
  <2>1. PICK k \in DOMAIN a : a[k].form # "bad" /\ x = <<a[k].by, a[k].hash>>
    BY <1>1, InSigned
  <2>2. PICK i \in DOMAIN array : a[k] = array[i]
    BY <1>1
  <2> QED BY <2>1, <2>2, InSigned
<1> QED BY <1>0, <1>2, <1>3

\* A signature appended is one more entry.
LEMMA AppendSigned ==
  ASSUME NEW a \in Seq(Signature), NEW s \in Signature, s.form # "bad"
  PROVE  Signed(Append(a, s)) = Signed(a) \cup {<<s.by, s.hash>>}
<1> DEFINE b == Append(a, s)
<1>1. /\ b \in Seq(Signature) /\ DOMAIN b = 1..(Len(a) + 1) /\ DOMAIN a = 1..Len(a)
      /\ b[Len(a) + 1] = s /\ (\A k \in 1..Len(a) : b[k] = a[k]) /\ Len(a) \in Nat
  OBVIOUS
<1> HIDE DEF b
<1>2. \A k \in DOMAIN b : k \in DOMAIN a \/ k = Len(a) + 1
  BY <1>1
<1>3. DOMAIN a \subseteq DOMAIN b /\ Len(a) + 1 \in DOMAIN b
  BY <1>1
<1>4. ASSUME NEW x PROVE x \in Signed(b) <=> x \in Signed(a) \/ x = <<s.by, s.hash>>
  BY <1>1, <1>2, <1>3, InSigned
<1> QED BY <1>4 DEF b

\* No call costs another owner's signature, made for this chain, for another one or
\* for an older edition, and none adds more than its caller's (lines 100-137).
THEOREM SignersAreKept == Spec => SignersKept
<1> DEFINE Kept == /\ Signed(signatureArray) \subseteq Signed(signatureArray')
                   /\ \A s \in Signed(signatureArray') \ Signed(signatureArray) :
                        last'.ok /\ s = <<last'.owner, newHash(last'.chain)>>
<1>1. ASSUME MInv, [Next]_vars, damage' = damage PROVE Kept
  <2>0. signatureArray \in Seq(Signature) /\ damage \in Nat
    BY <1>1 DEF MInv, MultisignTypeOK
  <2>1. CASE signatureArray' = signatureArray
    BY <2>1
  <2>2. ASSUME NEW owner \in Owner, NEW chain \in Chain,
               Nothing \notin Range(Signers(signatureArray, newHash(chain))),
               AlreadySigned(owner, chain, duplicateIndexes(signatureArray, newHash(chain)))
        PROVE  Kept
    <3>1. \A i \in DOMAIN signatureArray : hashECRecover(newHash(chain), signatureArray[i]) # Nothing
      BY <2>0, <2>2, InSigners
    <3>2. Signed(signatureArray') = Signed(signatureArray)
      BY <2>0, <2>2, <3>1, DroppingKeepsSigned DEF AlreadySigned
    <3> QED BY <3>2
  <2>3. ASSUME NEW device \in Device, NEW owner \in Owner, NEW chain \in Chain,
               NEW password \in BOOLEAN, BeginSign(device, owner, chain, password)
        PROVE  Kept
    <3>1. CASE UNCHANGED signatureArray
      BY <2>1, <3>1
    <3> QED BY <2>2, <2>3, <3>1 DEF BeginSign, Refused, ToSign
  <2>4. ASSUME NEW signed \in BOOLEAN, EndSign(signed),
               call.owner \in keys[call.device] /\ call.password /\ signed
        PROVE  Kept
    <3> DEFINE h == newHash(call.chain)
               a == RemoveAll(signatureArray, duplicateIndexes(signatureArray, h))
               new == [by |-> call.owner, hash |-> h, form |-> "0"]
    <3>1. call # NoCall
      BY <2>4 DEF EndSign
    <3>2. call.owner \in Owner /\ call.chain \in Chain
      BY <1>1, <3>1, WaitingOrNot DEF MInv, Waiting
    <3>3. /\ call.duplicates = duplicateIndexes(signatureArray, h)
          /\ \A i \in DOMAIN signatureArray : hashECRecover(h, signatureArray[i]) # Nothing
      BY <1>1, <2>0, <3>1, InSigners DEF MInv, StillSeen
    <3>4. h \in Hash
      BY <1>1, <3>2 DEF newHash, Hash, MInv, MultisignTypeOK
    <3>5. new \in Signature /\ new.form # "bad" /\ new.by = call.owner /\ new.hash = h
      BY <3>2, <3>4 DEF Signature
    <3>6. signatureArray' = Append(a, new) /\ last' = Success(call.owner, call.chain) /\ raw' = raw
      BY <2>4, <3>3 DEF EndSign
    <3>7. a \in Seq(Signature)
      BY <2>0, DuplicatesGone
    <3>8. Signed(a) = Signed(signatureArray)
      BY <2>0, <3>3, DroppingKeepsSigned
    <3> HIDE DEF a, new
    <3>9. Signed(signatureArray') = Signed(signatureArray) \cup {<<call.owner, h>>}
      BY <3>5, <3>6, <3>7, <3>8, AppendSigned
    <3>10. last'.ok /\ <<last'.owner, newHash(last'.chain)>> = <<call.owner, h>>
      BY <3>6 DEF Success
    <3> QED BY <3>9, <3>10
  <2>5. ASSUME NEW signed \in BOOLEAN, EndSign(signed),
               ~(call.owner \in keys[call.device] /\ call.password /\ signed)
        PROVE  Kept
    BY <2>1, <2>5 DEF EndSign
  <2>6. CASE \E device \in Device, owner \in Owner : DeleteKey(device, owner)
    BY <2>1, <2>6 DEF DeleteKey
  <2>7. CASE EditRaw
    BY <2>1, <2>7 DEF EditRaw
  <2>8. \A i \in DOMAIN signatureArray : (\A form \in {"0", "27"} : ~Copied(i, form)) /\ ~Damaged(i)
    BY <1>1, <2>0 DEF Copied, Damaged
  <2> QED BY <1>1, <2>1, <2>3, <2>4, <2>5, <2>6, <2>7, <2>8 DEF Next, vars
<1>2. MInv /\ [Next]_vars => [damage' = damage => Kept]_vars
  BY <1>1
<1> QED BY <1>2, MultisignInvariant, PTL DEF Spec, SignersKept
==============================================================================
