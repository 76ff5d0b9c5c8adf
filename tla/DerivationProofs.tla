-------------------------- MODULE DerivationProofs --------------------------
(***************************************************************************)
(* Proofs about Derivation, for every order, seed, path and set of child   *)
(* indices, and every HMAC whose halves are numbers.                       *)
(***************************************************************************)
EXTENDS Derivation, SequenceTheorems, WellFoundedInduction, TLAPS

\* An HMAC has two halves, which are numbers.
Halved == [l : Nat, r : Nat]
HalvesAreNumbers ==
  /\ \A key, data : Hmac(key, data) \in Halved
  /\ \A name, data : SeedHmac(name, data) \in Halved

-----------------------------------------------------------------------------
(* Numbers *)

Less == {p \in Nat \X Nat : p[1] < p[2]}

\* A nonempty set of numbers has a least one.
LEMMA LeastNumber ==
  ASSUME NEW T \in SUBSET Nat, T # {}
  PROVE  \E n \in T : \A m \in T : n <= m
<1>1. IsWellFoundedOn(Less, Nat)
  BY NatLessThanWellFounded DEF Less, OpToRel
<1>2. PICK n \in T : \A y \in T : <<y, n>> \notin Less
  BY <1>1, WFMin
<1>3. ASSUME NEW m \in T PROVE n <= m
  <2>1. <<m, n>> \in Nat \X Nat /\ <<m, n>>[1] = m /\ <<m, n>>[2] = n
    OBVIOUS
  <2>2. ~(m < n)
    BY <1>2, <2>1 DEF Less
  <2> QED BY <2>2
<1> QED BY <1>3

\* A set of numbers that holds 0, and with every number below n the next one,
\* holds all numbers up to n.
LEMMA AllUpTo ==
  ASSUME NEW n \in Nat, NEW T, 0 \in T, \A k \in 0..(n - 1) : k \in T => k + 1 \in T
  PROVE  0..n \subseteq T
<1> DEFINE Missing == {k \in 0..n : k \notin T}
<1> SUFFICES ASSUME Missing # {} PROVE FALSE
  OBVIOUS
<1>0. Missing \in SUBSET Nat
  OBVIOUS
<1> HIDE DEF Missing
<1>1. PICK least \in Missing : \A m \in Missing : least <= m
  BY <1>0, LeastNumber
<1> USE DEF Missing
<1>2. least # 0 /\ least - 1 \in 0..(n - 1)
  BY <1>1
<1>3. least - 1 \in T
  BY <1>1, <1>2
<1> QED BY <1>1, <1>2, <1>3

-----------------------------------------------------------------------------
(* Both derivations ask for the same HMACs *)

\* What the loops of private and public derivation come to: the HMAC that suits
\* a parent with the key a.
Tried(a, chain_code, data, i) ==
  LET try[k \in 0..MaxTries] ==
        IF k = 0 THEN Hmac(chain_code, data)
        ELSE LET I == try[k - 1]
             IN IF I.l < Order /\ (I.l + a) % Order # 0 THEN I ELSE Hmac(chain_code, Again(I, i))
  IN try[MaxTries]

LEMMA PrivateTries ==
  ASSUME NEW node, NEW i, params(node)
  PROVE  PrivateChild(node, i)
           = ChildOf(node, i, Tried(node.private_key, node.chain_code, ParentData(node, i), i))
BY DEF PrivateChild, FirstThat, PrivateSuits, Tried

LEMMA PublicTries ==
  ASSUME NEW parent, NEW chain_code, NEW i, ~(i >= Hardened), NEW I,
         I = Tried(parent, chain_code, <<Compressed(parent)[1], Compressed(parent)[2], i>>, i)
  PROVE  hdnode_public_ckd_cp(parent, chain_code, i)
           = [ok |-> TRUE, point |-> (I.l + parent) % Order, chain_code |-> I.r]
BY DEF hdnode_public_ckd_cp, FirstThat, PublicSuits, Tried

-----------------------------------------------------------------------------
(* A loop that takes n steps over a set *)

Loop(f, S, start, F, m) ==
  /\ f \in [0..m -> S]
  /\ f = [k \in 0..m |-> IF k = 0 THEN start ELSE F[k][f[k - 1]]]

LEMMA Iterates ==
  ASSUME NEW S, NEW n \in Nat, NEW start \in S, NEW F \in [1..n -> [S -> S]]
  PROVE  \E f : Loop(f, S, start, F, n)
<1> DEFINE T == {m \in 0..n : \E f : Loop(f, S, start, F, m)}
<1>1. 0 \in T
  <2>1. PICK f : f = [k \in 0..0 |-> start]
    OBVIOUS
  <2>2. f \in [0..0 -> S] /\ f = [k \in 0..0 |-> IF k = 0 THEN start ELSE F[k][f[k - 1]]]
    BY <2>1
  <2> QED BY <2>2 DEF Loop
<1>2. ASSUME NEW m \in 0..(n - 1), m \in T PROVE m + 1 \in T
  <2>1. PICK g : Loop(g, S, start, F, m)
    BY <1>2
  <2>2. PICK v \in S : v = F[m + 1][g[m]]
    <3>1. m + 1 \in 1..n /\ g[m] \in S
      BY <2>1 DEF Loop
    <3> QED BY <3>1
  <2>3. PICK f : f = [k \in 0..(m + 1) |-> IF k = m + 1 THEN v ELSE g[k]]
    OBVIOUS
  <2>4. \A k \in 0..m : f[k] = g[k] /\ g[k] \in S /\ g[k] = IF k = 0 THEN start ELSE F[k][g[k - 1]]
    BY <2>1, <2>3 DEF Loop
  <2>5. f[m + 1] = v /\ \A k \in 0..(m + 1) : k = m + 1 \/ k \in 0..m
    BY <2>3
  <2>6. f \in [0..(m + 1) -> S]
    BY <2>2, <2>3, <2>4, <2>5
  <2>7. ASSUME NEW k \in 0..(m + 1) PROVE f[k] = IF k = 0 THEN start ELSE F[k][f[k - 1]]
    <3>1. CASE k = m + 1
      <4>1. k # 0 /\ k - 1 = m /\ f[k] = v /\ m \in 0..m
        BY <2>5, <3>1
      <4> QED BY <2>2, <2>4, <3>1, <4>1
    <3>2. CASE k # m + 1
      <4>1. k \in 0..m /\ (k # 0 => k - 1 \in 0..m)
        BY <3>2
      <4> QED BY <2>4, <4>1
    <3> QED BY <3>1, <3>2
  <2>8. f = [k \in 0..(m + 1) |-> IF k = 0 THEN start ELSE F[k][f[k - 1]]]
    <3>1. f = [k \in 0..(m + 1) |-> f[k]]
      BY <2>3
    <3> QED BY <2>7, <3>1
  <2>9. Loop(f, S, start, F, m + 1) /\ m + 1 \in 0..n
    BY <2>6, <2>8 DEF Loop
  <2> QED BY <2>9
<1>3. 0..n \subseteq T
  <2> HIDE DEF T
  <2> QED BY <1>1, <1>2, AllUpTo
<1> QED BY <1>3

\* Every HMAC that is tried has two halves.
LEMMA TriedIsHalved ==
  ASSUME HalvesAreNumbers, NEW a, NEW chain_code, NEW data, NEW i
  PROVE  Tried(a, chain_code, data, i) \in Halved
<1> DEFINE Better(I) == IF I.l < Order /\ (I.l + a) % Order # 0 THEN I ELSE Hmac(chain_code, Again(I, i))
           start == Hmac(chain_code, data)
           Tries(try) == try = [k \in 0..MaxTries |-> IF k = 0 THEN start ELSE Better(try[k - 1])]
<1>1. /\ MaxTries \in Nat /\ start \in Halved
      /\ \A I \in Halved : Better(I) \in Halved
  BY TreeAssumption DEF HalvesAreNumbers
<1>2. \E try : Tries(try)
  <2> HIDE DEF Better, start
  <2>1. PICK F : F = [k \in 1..MaxTries |-> [I \in Halved |-> Better(I)]]
    OBVIOUS
  <2>2. F \in [1..MaxTries -> [Halved -> Halved]]
    BY <1>1, <2>1
  <2>3. PICK f : Loop(f, Halved, start, F, MaxTries)
    BY <1>1, <2>2, Iterates
  <2>4. ASSUME NEW k \in 0..MaxTries, k # 0 PROVE F[k][f[k - 1]] = Better(f[k - 1])
    <3>1. k \in 1..MaxTries /\ k - 1 \in 0..MaxTries
      BY <1>1, <2>4
    <3>2. f[k - 1] \in Halved
      BY <2>3, <3>1 DEF Loop
    <3> QED BY <2>1, <3>1, <3>2
  <2>5. f = [k \in 0..MaxTries |-> IF k = 0 THEN start ELSE F[k][f[k - 1]]]
    BY <2>3 DEF Loop
  <2>6. f = [k \in 0..MaxTries |-> IF k = 0 THEN start ELSE Better(f[k - 1])]
    BY <2>4, <2>5
  <2> QED BY <2>6
<1>3. PICK try : Tries(try) /\ Tried(a, chain_code, data, i) = try[MaxTries]
  <2>1. Tried(a, chain_code, data, i) = (CHOOSE try : Tries(try))[MaxTries]
    BY DEF Tried
  <2> QED BY <1>2, <2>1
<1> DEFINE T == {k \in 0..MaxTries : try[k] \in Halved}
<1>4. 0 \in T
  BY <1>1, <1>3
<1>5. ASSUME NEW k \in 0..(MaxTries - 1), k \in T PROVE k + 1 \in T
  <2> HIDE DEF Better, start
  <2>1. k + 1 \in 0..MaxTries /\ (k + 1) - 1 = k /\ k + 1 # 0
    BY <1>1
  <2>2. try[k + 1] = Better(try[k])
    BY <1>3, <2>1
  <2> QED BY <1>1, <1>5, <2>1, <2>2
<1>6. 0..MaxTries \subseteq T
  <2> HIDE DEF T
  <2> QED BY <1>1, <1>4, <1>5, AllUpTo
<1> QED BY <1>1, <1>3, <1>6

-----------------------------------------------------------------------------
(* A path is walked one generation after another *)

Walks(at, root, path, n) ==
  at = [k \in 0..n |-> IF k = 0 THEN root ELSE ckd(at[k - 1], path[k]).node]

LEMMA WalkExists ==
  ASSUME NEW root, NEW path, NEW n \in Nat
  PROVE  \E at : Walks(at, root, path, n)
<1> DEFINE T == {m \in 0..n : \E at : Walks(at, root, path, m)}
<1>1. 0 \in T
  <2>1. PICK at : at = [k \in 0..0 |-> root]
    OBVIOUS
  <2>2. Walks(at, root, path, 0)
    BY <2>1 DEF Walks
  <2> QED BY <2>2
<1>2. ASSUME NEW m \in 0..(n - 1), m \in T PROVE m + 1 \in T
  <2>1. PICK g : Walks(g, root, path, m)
    BY <1>2
  <2>2. PICK v : v = ckd(g[m], path[m + 1]).node
    OBVIOUS
  <2>3. PICK f : f = [k \in 0..(m + 1) |-> IF k = m + 1 THEN v ELSE g[k]]
    OBVIOUS
  <2>4. \A k \in 0..m : f[k] = g[k] /\ g[k] = IF k = 0 THEN root ELSE ckd(g[k - 1], path[k]).node
    BY <2>1, <2>3 DEF Walks
  <2>5. f[m + 1] = v /\ \A k \in 0..(m + 1) : k = m + 1 \/ k \in 0..m
    BY <2>3
  <2>6. ASSUME NEW k \in 0..(m + 1) PROVE f[k] = IF k = 0 THEN root ELSE ckd(f[k - 1], path[k]).node
    <3>1. CASE k = m + 1
      <4>1. k # 0 /\ k - 1 = m /\ m \in 0..m
        BY <3>1
      <4> QED BY <2>2, <2>4, <2>5, <3>1, <4>1
    <3>2. CASE k # m + 1
      <4>1. k \in 0..m /\ (k # 0 => k - 1 \in 0..m)
        BY <3>2
      <4> QED BY <2>4, <4>1
    <3> QED BY <3>1, <3>2
  <2>7. Walks(f, root, path, m + 1)
    <3>1. f = [k \in 0..(m + 1) |-> f[k]]
      BY <2>3
    <3> QED BY <2>6, <3>1 DEF Walks
  <2> QED BY <2>7
<1>3. 0..n \subseteq T
  <2> HIDE DEF T
  <2> QED BY <1>1, <1>2, AllUpTo
<1> QED BY <1>3

LEMMA WalkedIsWalk ==
  ASSUME NEW root, NEW S, NEW path \in Seq(S)
  PROVE  \E at : Walks(at, root, path, Len(path)) /\ Walked(root, path) = at[Len(path)]
<1>0. Len(path) \in Nat
  OBVIOUS
<1>1. PICK at : Walks(at, root, path, Len(path))
  BY <1>0, WalkExists
<1>2. Walked(root, path) = (CHOOSE f : Walks(f, root, path, Len(path)))[Len(path)]
  BY DEF Walked, Walks
<1>3. Walks(CHOOSE f : Walks(f, root, path, Len(path)), root, path, Len(path))
  BY <1>1
<1> QED BY <1>2, <1>3

\* The end of a path is the root, or the child of the end of the path before.
LEMMA WalkedStep ==
  ASSUME NEW root, NEW S, NEW path \in Seq(S), NEW i \in S
  PROVE  /\ Walked(root, <<>>) = root
         /\ Walked(root, Append(path, i)) = ckd(Walked(root, path), i).node
<1>1. Walked(root, <<>>) = root
  <2>1. <<>> \in Seq(S) /\ Len(<<>>) = 0
    OBVIOUS
  <2>2. PICK at : Walks(at, root, <<>>, 0) /\ Walked(root, <<>>) = at[0]
    BY <2>1, WalkedIsWalk
  <2> QED BY <2>2 DEF Walks
<1>2. PICK n \in Nat : n = Len(path)
  OBVIOUS
<1>3. PICK longer : longer = Append(path, i)
  OBVIOUS
<1>4. /\ longer \in Seq(S) /\ Len(longer) = n + 1 /\ longer[n + 1] = i
      /\ \A k \in 1..n : longer[k] = path[k]
  BY <1>2, <1>3
<1>5. PICK f : Walks(f, root, path, n) /\ Walked(root, path) = f[n]
  BY <1>2, WalkedIsWalk
<1>6. PICK g : Walks(g, root, longer, n + 1) /\ Walked(root, longer) = g[n + 1]
  BY <1>4, WalkedIsWalk
<1> DEFINE T == {k \in 0..n : f[k] = g[k]}
<1>7. 0 \in T
  BY <1>5, <1>6 DEF Walks
<1>8. ASSUME NEW k \in 0..(n - 1), k \in T PROVE k + 1 \in T
  <2>1. k + 1 \in 0..n /\ k + 1 \in 0..(n + 1) /\ k + 1 # 0 /\ (k + 1) - 1 = k /\ k + 1 \in 1..n
    OBVIOUS
  <2>2. f[k + 1] = ckd(f[k], path[k + 1]).node
    BY <1>5, <2>1 DEF Walks
  <2>3. g[k + 1] = ckd(g[k], longer[k + 1]).node
    BY <1>6, <2>1 DEF Walks
  <2> QED BY <1>4, <1>8, <2>1, <2>2, <2>3
<1>9. 0..n \subseteq T
  <2> HIDE DEF T
  <2> QED BY <1>7, <1>8, AllUpTo
<1>10. g[n + 1] = ckd(g[n], i).node
  <2>1. n + 1 \in 0..(n + 1) /\ n + 1 # 0 /\ (n + 1) - 1 = n
    OBVIOUS
  <2> QED BY <1>4, <1>6, <2>1 DEF Walks
<1> QED BY <1>1, <1>3, <1>5, <1>6, <1>9, <1>10

-----------------------------------------------------------------------------
(* Nodes that were asked for their public key, and nodes that were not *)

Fields(c, d, n, h, p, e, k) ==
  [curve |-> c, depth |-> d, child_num |-> n, chain_code |-> h, private_key |-> p,
   private_key_extension |-> e, public_key |-> k]

WithKey(n, k) ==
  Fields(n.curve, n.depth, n.child_num, n.chain_code, n.private_key, n.private_key_extension, k)

\* A node without a public key.
IsBare(n) ==
  /\ n = WithKey(n, NoPublic)
  /\ KnownCurve(n.curve) /\ n.depth \in Nat
  /\ params(n) => n.private_key \in Nat /\ n.private_key_extension = 0
  /\ n.curve # "cardano" => n.private_key_extension = 0

Stripped(n) == [n EXCEPT !.public_key = NoPublic]

KeyOf(n) == IF params(n) THEN Compressed(n.private_key) ELSE <<1, Of25519(n)>>

\* Asking for the public key adds it and nothing else, and once is enough.
LEMMA FilledOnce ==
  ASSUME NEW n, IsBare(n)
  PROVE  /\ hdnode_fill_public_key(n) = WithKey(n, KeyOf(n)) /\ KeyOf(n)[1] # 0
         /\ hdnode_fill_public_key(hdnode_fill_public_key(n)) = hdnode_fill_public_key(n)
         /\ Stripped(hdnode_fill_public_key(n)) = n /\ Stripped(n) = n
<1>1. hdnode_fill_public_key(n) = [n EXCEPT !.public_key = KeyOf(n)]
  BY DEF IsBare, WithKey, Fields, hdnode_fill_public_key, NoPublic, KeyOf
<1>2. KeyOf(n)[1] # 0
  BY DEF KeyOf, Compressed
<1>3. PICK k : k = KeyOf(n)
  OBVIOUS
<1>4. PICK m : m = WithKey(n, k)
  OBVIOUS
<1>6. m = [n EXCEPT !.public_key = k] /\ m.public_key = k /\ Stripped(n) = n
  BY <1>4 DEF IsBare, Stripped, WithKey, Fields
<1>7. Stripped(m) = n
  BY <1>4 DEF IsBare, Stripped, WithKey, Fields
<1>5. hdnode_fill_public_key(m) = m
  BY <1>2, <1>3, <1>6 DEF hdnode_fill_public_key
<1> QED BY <1>1, <1>2, <1>3, <1>4, <1>5, <1>6, <1>7

LEMMA FirstKeyIsHalved ==
  ASSUME HalvesAreNumbers, NEW curve, NEW seed
  PROVE  FirstKey(curve, seed) \in Halved
<1> DEFINE Better(I) == IF InOrder(I.l) THEN I ELSE SeedHmac(curve, <<I.l, I.r>>)
           start == SeedHmac(curve, <<seed>>)
           Tries(try) == try = [k \in 0..MaxTries |-> IF k = 0 THEN start ELSE Better(try[k - 1])]
<1>1. /\ MaxTries \in Nat /\ start \in Halved
      /\ \A I \in Halved : Better(I) \in Halved
  BY TreeAssumption DEF HalvesAreNumbers
<1>2. \E try : Tries(try)
  <2> HIDE DEF Better, start
  <2>1. PICK F : F = [k \in 1..MaxTries |-> [I \in Halved |-> Better(I)]]
    OBVIOUS
  <2>2. F \in [1..MaxTries -> [Halved -> Halved]]
    BY <1>1, <2>1
  <2>3. PICK f : Loop(f, Halved, start, F, MaxTries)
    BY <1>1, <2>2, Iterates
  <2>4. ASSUME NEW k \in 0..MaxTries, k # 0 PROVE F[k][f[k - 1]] = Better(f[k - 1])
    <3>1. k \in 1..MaxTries /\ k - 1 \in 0..MaxTries
      BY <1>1, <2>4
    <3>2. f[k - 1] \in Halved
      BY <2>3, <3>1 DEF Loop
    <3> QED BY <2>1, <3>1, <3>2
  <2>5. f = [k \in 0..MaxTries |-> IF k = 0 THEN start ELSE F[k][f[k - 1]]]
    BY <2>3 DEF Loop
  <2>6. f = [k \in 0..MaxTries |-> IF k = 0 THEN start ELSE Better(f[k - 1])]
    BY <2>4, <2>5
  <2> QED BY <2>6
<1>3. PICK try : Tries(try) /\ FirstKey(curve, seed) = try[MaxTries]
  <2>1. FirstKey(curve, seed) = (CHOOSE try : Tries(try))[MaxTries]
    BY DEF FirstKey
  <2> QED BY <1>2, <2>1
<1> DEFINE T == {k \in 0..MaxTries : try[k] \in Halved}
<1>4. 0 \in T
  BY <1>1, <1>3
<1>5. ASSUME NEW k \in 0..(MaxTries - 1), k \in T PROVE k + 1 \in T
  <2> HIDE DEF Better, start
  <2>1. k + 1 \in 0..MaxTries /\ (k + 1) - 1 = k /\ k + 1 # 0
    BY <1>1
  <2>2. try[k + 1] = Better(try[k])
    BY <1>3, <2>1
  <2> QED BY <1>1, <1>5, <2>1, <2>2
<1>6. 0..MaxTries \subseteq T
  <2> HIDE DEF T
  <2> QED BY <1>1, <1>4, <1>5, AllUpTo
<1> QED BY <1>1, <1>3, <1>6

\* What a wallet starts from: a node, bare or (Cardano's) with its key.
LEMMA OpenedIsNode ==
  ASSUME HalvesAreNumbers, NEW name, KnownCurve(name), NEW s \in Seeds \cup {PeerSeed}
  PROVE  /\ IsBare(Stripped(Opened(name, s)))
         /\ Stripped(Opened(name, s)).curve = name /\ Stripped(Opened(name, s)).depth = 0
         /\ IF name = "cardano" THEN Opened(name, s) = hdnode_fill_public_key(Stripped(Opened(name, s)))
            ELSE Opened(name, s) = Stripped(Opened(name, s))
<1>1. ASSUME NEW n, IsBare(n), n.curve = name, n.depth = 0,
             Opened(name, s) = IF name = "cardano" THEN hdnode_fill_public_key(n) ELSE n
      PROVE  Stripped(Opened(name, s)) = n
  BY <1>1, FilledOnce
<1>2. SUFFICES \E n : /\ IsBare(n) /\ n.curve = name /\ n.depth = 0
                      /\ Opened(name, s) = IF name = "cardano" THEN hdnode_fill_public_key(n) ELSE n
  BY <1>1
<1>3. CASE name = "cardano"
  <2>1. PICK l, k, c : Opened(name, s)
          = hdnode_fill_public_key([NoNode EXCEPT !.curve = "cardano", !.private_key = l,
                                      !.private_key_extension = k, !.chain_code = c])
    BY <1>3 DEF Opened, hdnode_from_seed_cardano, Made
  <2>2. PICK n : n = [NoNode EXCEPT !.curve = "cardano", !.private_key = l,
                                    !.private_key_extension = k, !.chain_code = c]
    OBVIOUS
  <2>3. IsBare(n) /\ n.curve = name /\ n.depth = 0
    BY <1>3, <2>2 DEF IsBare, WithKey, Fields, NoNode, KnownCurve, params, get_curve_by_name, CurveInfo
  <2> QED BY <1>3, <2>1, <2>2, <2>3
<1>4. CASE name # "cardano"
  <2>1. PICK I \in Halved : Opened(name, s)
          = [NoNode EXCEPT !.curve = name, !.private_key = I.l, !.chain_code = I.r]
    <3>1. FirstKey(name, s) \in Halved /\ SeedHmac(name, <<s>>) \in Halved
      BY FirstKeyIsHalved DEF HalvesAreNumbers
    <3> HIDE DEF Halved
    <3> QED BY <1>4, <3>1 DEF Opened, hdnode_from_seed, Made
  <2>2. I.l \in Nat
    BY DEF Halved
  <2>3. PICK n : n = [NoNode EXCEPT !.curve = name, !.private_key = I.l, !.chain_code = I.r]
    OBVIOUS
  <2>4. n = [curve |-> name, depth |-> 0, child_num |-> 0, chain_code |-> I.r, private_key |-> I.l,
             private_key_extension |-> 0, public_key |-> NoPublic]
    BY <2>3 DEF NoNode
  <2>5. IsBare(n) /\ n.curve = name /\ n.depth = 0
    BY <2>2, <2>4 DEF IsBare, WithKey, Fields
  <2> QED BY <1>4, <2>1, <2>3, <2>5
<1> QED BY <1>3, <1>4

-----------------------------------------------------------------------------
(* Children *)

LEMMA FieldsKept ==
  ASSUME NEW n, NEW k
  PROVE  /\ WithKey(n, k).curve = n.curve /\ WithKey(n, k).depth = n.depth
         /\ WithKey(n, k).child_num = n.child_num /\ WithKey(n, k).chain_code = n.chain_code
         /\ WithKey(n, k).private_key = n.private_key
         /\ WithKey(n, k).private_key_extension = n.private_key_extension
         /\ WithKey(n, k).public_key = k /\ params(WithKey(n, k)) = params(n)
BY DEF WithKey, Fields, params

\* What private, Cardano's and public derivation set.
PrivateSet(m, p, h, d, n, k) ==
  [m EXCEPT !.private_key = p, !.chain_code = h, !.depth = d, !.child_num = n, !.public_key = k]
CardanoSet(m, p, e, h, d, n, k) ==
  [m EXCEPT !.private_key = p, !.private_key_extension = e, !.chain_code = h, !.depth = d,
            !.child_num = n, !.public_key = k]
PublicSet(m, p, d, n, h, k) ==
  [m EXCEPT !.private_key = p, !.depth = d, !.child_num = n, !.chain_code = h, !.public_key = k]
\* What reading a text sets.
ReadSet(m, c, d, n, h, p, k) ==
  [m EXCEPT !.curve = c, !.depth = d, !.child_num = n, !.chain_code = h, !.private_key = p, !.public_key = k]

\* The fields of a node after one of these.
LEMMA AfterPrivate ==
  ASSUME NEW c, NEW d, NEW n, NEW h, NEW p, NEW e, NEW k, NEW m, m = Fields(c, d, n, h, p, e, k),
         NEW d1, NEW n1, NEW h1, NEW p1, NEW k1
  PROVE  PrivateSet(m, p1, h1, d1, n1, k1) = Fields(c, d1, n1, h1, p1, e, k1)
<1>1. PICK m1 : m1 = Fields(c, d, n, h, p1, e, k)
  OBVIOUS
<1>2. m1 = [m EXCEPT !.private_key = p1]
  BY <1>1 DEF Fields
<1>3. PICK m2 : m2 = Fields(c, d, n, h1, p1, e, k)
  OBVIOUS
<1>4. m2 = [m1 EXCEPT !.chain_code = h1]
  BY <1>1, <1>3 DEF Fields
<1>5. PICK m3 : m3 = Fields(c, d1, n, h1, p1, e, k)
  OBVIOUS
<1>6. m3 = [m2 EXCEPT !.depth = d1]
  BY <1>3, <1>5 DEF Fields
<1>7. PICK m4 : m4 = Fields(c, d1, n1, h1, p1, e, k)
  OBVIOUS
<1>8. m4 = [m3 EXCEPT !.child_num = n1]
  BY <1>5, <1>7 DEF Fields
<1>9. PICK m5 : m5 = Fields(c, d1, n1, h1, p1, e, k1)
  OBVIOUS
<1>10. m5 = [m4 EXCEPT !.public_key = k1]
  BY <1>7, <1>9 DEF Fields
<1> QED BY <1>2, <1>4, <1>6, <1>8, <1>10, <1>9 DEF PrivateSet

LEMMA AfterCardano ==
  ASSUME NEW c, NEW d, NEW n, NEW h, NEW p, NEW e, NEW k, NEW m, m = Fields(c, d, n, h, p, e, k),
         NEW d1, NEW n1, NEW h1, NEW p1, NEW e1, NEW k1
  PROVE  CardanoSet(m, p1, e1, h1, d1, n1, k1) = Fields(c, d1, n1, h1, p1, e1, k1)
<1>1. PICK m1 : m1 = Fields(c, d, n, h, p1, e, k)
  OBVIOUS
<1>2. m1 = [m EXCEPT !.private_key = p1]
  BY <1>1 DEF Fields
<1>3. PICK m2 : m2 = Fields(c, d, n, h, p1, e1, k)
  OBVIOUS
<1>4. m2 = [m1 EXCEPT !.private_key_extension = e1]
  BY <1>1, <1>3 DEF Fields
<1>5. PICK m3 : m3 = Fields(c, d, n, h1, p1, e1, k)
  OBVIOUS
<1>6. m3 = [m2 EXCEPT !.chain_code = h1]
  BY <1>3, <1>5 DEF Fields
<1>7. PICK m4 : m4 = Fields(c, d1, n, h1, p1, e1, k)
  OBVIOUS
<1>8. m4 = [m3 EXCEPT !.depth = d1]
  BY <1>5, <1>7 DEF Fields
<1>9. PICK m5 : m5 = Fields(c, d1, n1, h1, p1, e1, k)
  OBVIOUS
<1>10. m5 = [m4 EXCEPT !.child_num = n1]
  BY <1>7, <1>9 DEF Fields
<1>11. PICK m6 : m6 = Fields(c, d1, n1, h1, p1, e1, k1)
  OBVIOUS
<1>12. m6 = [m5 EXCEPT !.public_key = k1]
  BY <1>9, <1>11 DEF Fields
<1> QED BY <1>2, <1>4, <1>6, <1>8, <1>10, <1>12, <1>11 DEF CardanoSet

LEMMA AfterPublic ==
  ASSUME NEW c, NEW d, NEW n, NEW h, NEW p, NEW e, NEW k, NEW m, m = Fields(c, d, n, h, p, e, k),
         NEW d1, NEW n1, NEW h1, NEW p1, NEW k1
  PROVE  PublicSet(m, p1, d1, n1, h1, k1) = Fields(c, d1, n1, h1, p1, e, k1)
<1>1. PICK m1 : m1 = Fields(c, d, n, h, p1, e, k)
  OBVIOUS
<1>2. m1 = [m EXCEPT !.private_key = p1]
  BY <1>1 DEF Fields
<1>3. PICK m2 : m2 = Fields(c, d1, n, h, p1, e, k)
  OBVIOUS
<1>4. m2 = [m1 EXCEPT !.depth = d1]
  BY <1>1, <1>3 DEF Fields
<1>5. PICK m3 : m3 = Fields(c, d1, n1, h, p1, e, k)
  OBVIOUS
<1>6. m3 = [m2 EXCEPT !.child_num = n1]
  BY <1>3, <1>5 DEF Fields
<1>7. PICK m4 : m4 = Fields(c, d1, n1, h1, p1, e, k)
  OBVIOUS
<1>8. m4 = [m3 EXCEPT !.chain_code = h1]
  BY <1>5, <1>7 DEF Fields
<1>9. PICK m5 : m5 = Fields(c, d1, n1, h1, p1, e, k1)
  OBVIOUS
<1>10. m5 = [m4 EXCEPT !.public_key = k1]
  BY <1>7, <1>9 DEF Fields
<1> QED BY <1>2, <1>4, <1>6, <1>8, <1>10, <1>9 DEF PublicSet

LEMMA AfterReading ==
  ASSUME NEW c, NEW d, NEW n, NEW h, NEW p, NEW e, NEW k,
         NEW c1, NEW d1, NEW n1, NEW h1, NEW p1, NEW k1, NEW m, m = Fields(c, d, n, h, p, e, k)
  PROVE  ReadSet(m, c1, d1, n1, h1, p1, k1) = Fields(c1, d1, n1, h1, p1, e, k1)
<1>1. PICK m1 : m1 = Fields(c1, d, n, h, p, e, k)
  OBVIOUS
<1>2. m1 = [m EXCEPT !.curve = c1]
  BY <1>1 DEF Fields
<1>3. PICK m2 : m2 = Fields(c1, d1, n, h, p, e, k)
  OBVIOUS
<1>4. m2 = [m1 EXCEPT !.depth = d1]
  BY <1>1, <1>3 DEF Fields
<1>5. PICK m3 : m3 = Fields(c1, d1, n1, h, p, e, k)
  OBVIOUS
<1>6. m3 = [m2 EXCEPT !.child_num = n1]
  BY <1>3, <1>5 DEF Fields
<1>7. PICK m4 : m4 = Fields(c1, d1, n1, h1, p, e, k)
  OBVIOUS
<1>8. m4 = [m3 EXCEPT !.chain_code = h1]
  BY <1>5, <1>7 DEF Fields
<1>9. PICK m5 : m5 = Fields(c1, d1, n1, h1, p1, e, k)
  OBVIOUS
<1>10. m5 = [m4 EXCEPT !.private_key = p1]
  BY <1>7, <1>9 DEF Fields
<1>11. PICK m6 : m6 = Fields(c1, d1, n1, h1, p1, e, k1)
  OBVIOUS
<1>12. m6 = [m5 EXCEPT !.public_key = k1]
  BY <1>9, <1>11 DEF Fields
<1> QED BY <1>2, <1>4, <1>6, <1>8, <1>10, <1>12, <1>11 DEF ReadSet

\* What a node's child is does not depend on whether the node has a public key.
LEMMA ChildOfWithKey ==
  ASSUME NEW n, NEW k, NEW i, NEW I
  PROVE  ChildOf(WithKey(n, k), i, I)
           = [curve |-> n.curve, depth |-> n.depth + 1, child_num |-> i, chain_code |-> I.r,
              private_key |-> IF params(n) THEN (I.l + n.private_key) % Order ELSE I.l,
              private_key_extension |-> n.private_key_extension, public_key |-> NoPublic]
<1>1. PICK m : m = WithKey(n, k)
  OBVIOUS
<1>2. m.private_key = n.private_key /\ m.depth = n.depth /\ params(m) = params(n)
  BY <1>1, FieldsKept
<1>3. PICK l : l = IF params(n) THEN (I.l + n.private_key) % Order ELSE I.l
  OBVIOUS
<1>4. l = IF params(m) THEN (I.l + m.private_key) % Order ELSE I.l
  BY <1>2, <1>3
<1>5. ChildOf(m, i, I) = [m EXCEPT !.private_key = IF params(m) THEN (I.l + m.private_key) % Order ELSE I.l,
                                   !.chain_code = I.r, !.depth = m.depth + 1, !.child_num = i,
                                   !.public_key = NoPublic]
  BY DEF ChildOf
<1>6. ChildOf(m, i, I) = [m EXCEPT !.private_key = l, !.chain_code = I.r, !.depth = m.depth + 1,
                                   !.child_num = i, !.public_key = NoPublic]
  BY <1>4, <1>5, Zenon
<1>7. PICK d, r : d = m.depth + 1 /\ r = I.r
  OBVIOUS
<1>8. ChildOf(m, i, I) = [m EXCEPT !.private_key = l, !.chain_code = r, !.depth = d,
                                   !.child_num = i, !.public_key = NoPublic]
  BY <1>6, <1>7, Zenon
<1>9. PrivateSet(m, l, r, d, i, NoPublic)
        = Fields(n.curve, d, i, r, l, n.private_key_extension, NoPublic)
  BY <1>1, AfterPrivate DEF WithKey
<1> QED BY <1>1, <1>2, <1>3, <1>7, <1>8, <1>9 DEF Fields, PrivateSet

\* A child is bare, and the same whether or not its parent was asked for the
\* public key.
LEMMA ChildOfIsBare ==
  ASSUME NEW n, IsBare(n), NEW i, NEW I \in Halved
  PROVE  /\ ChildOf(hdnode_fill_public_key(n), i, I) = ChildOf(n, i, I)
         /\ IsBare(ChildOf(n, i, I))
         /\ ChildOf(n, i, I).curve = n.curve /\ ChildOf(n, i, I).depth = n.depth + 1
         /\ ChildOf(n, i, I).child_num = i /\ ChildOf(n, i, I).chain_code = I.r
         /\ ChildOf(n, i, I).private_key = IF params(n) THEN (I.l + n.private_key) % Order ELSE I.l
         /\ ChildOf(n, i, I).private_key_extension = n.private_key_extension
<1>1. PICK l : l = IF params(n) THEN (I.l + n.private_key) % Order ELSE I.l
  OBVIOUS
<1>2. I.l \in Nat /\ Order \in Nat /\ Order # 0
  BY OrderAssumption DEF Halved
<1>3. params(n) => l \in Nat
  BY <1>1, <1>2 DEF IsBare
<1>4. PICK c : c = [curve |-> n.curve, depth |-> n.depth + 1, child_num |-> i, chain_code |-> I.r,
                    private_key |-> l, private_key_extension |-> n.private_key_extension,
                    public_key |-> NoPublic]
  OBVIOUS
<1>5. \A k : ChildOf(WithKey(n, k), i, I) = c
  BY <1>1, <1>4, ChildOfWithKey
<1>6. ChildOf(n, i, I) = c /\ ChildOf(hdnode_fill_public_key(n), i, I) = c
  BY <1>5, FilledOnce DEF IsBare
<1>7. IsBare(c) /\ c.curve = n.curve /\ c.depth = n.depth + 1
  BY <1>3, <1>4 DEF IsBare, WithKey, Fields, params
<1> QED BY <1>1, <1>4, <1>6, <1>7

\* Cardano's children likewise.
LEMMA CardanoChildIsBare ==
  ASSUME NEW n, IsBare(n), n.curve = "cardano", NEW i, NEW z, NEW next
  PROVE  /\ CardanoChild(hdnode_fill_public_key(n), i, z, next) = CardanoChild(n, i, z, next)
         /\ IsBare(CardanoChild(n, i, z, next))
         /\ CardanoChild(n, i, z, next).curve = n.curve
         /\ CardanoChild(n, i, z, next).depth = n.depth + 1
         /\ CardanoChild(n, i, z, next).private_key = CardanoLeft(z.l, n.private_key)
<1>1. PICK l, e, r, d : l = CardanoLeft(z.l, n.private_key) /\ r = next.r /\ d = n.depth + 1
                        /\ e = scalar_add_256bits(z.r, n.private_key_extension)
  OBVIOUS
<1>2. PICK c : c = [curve |-> n.curve, depth |-> d, child_num |-> i, chain_code |-> r,
                    private_key |-> l, private_key_extension |-> e, public_key |-> NoPublic]
  OBVIOUS
<1>3. ASSUME NEW k PROVE CardanoChild(WithKey(n, k), i, z, next) = c
  <2>1. PICK m : m = WithKey(n, k)
    OBVIOUS
  <2>2. m.private_key = n.private_key /\ m.depth = n.depth
        /\ m.private_key_extension = n.private_key_extension
    BY <2>1, FieldsKept
  <2>3. CardanoChild(m, i, z, next)
          = [m EXCEPT !.private_key = CardanoLeft(z.l, m.private_key),
                      !.private_key_extension = scalar_add_256bits(z.r, m.private_key_extension),
                      !.chain_code = next.r, !.depth = m.depth + 1, !.child_num = i, !.public_key = NoPublic]
    BY DEF CardanoChild
  <2>4. CardanoChild(m, i, z, next)
          = [m EXCEPT !.private_key = l, !.private_key_extension = e,
                      !.chain_code = r, !.depth = d, !.child_num = i, !.public_key = NoPublic]
    BY <1>1, <2>2, <2>3, Zenon
  <2>5. CardanoSet(m, l, e, r, d, i, NoPublic) = c
    <3>1. c = Fields(n.curve, d, i, r, l, e, NoPublic)
      BY <1>2 DEF Fields
    <3> QED BY <2>1, <3>1, AfterCardano DEF WithKey
  <2> QED BY <2>1, <2>4, <2>5 DEF CardanoSet
<1>4. CardanoChild(n, i, z, next) = c /\ CardanoChild(hdnode_fill_public_key(n), i, z, next) = c
  BY <1>3, FilledOnce DEF IsBare
<1>5. c.curve = n.curve /\ c.depth = n.depth + 1 /\ c.private_key = l
  BY <1>1, <1>2
<1>6. IsBare(c)
  <2>1. ~params(c)
    BY <1>5 DEF params, get_curve_by_name, CurveInfo
  <2> QED BY <1>1, <1>2, <2>1 DEF IsBare, WithKey, Fields
<1> QED BY <1>1, <1>4, <1>5, <1>6

\* Children of the curves but Cardano's.
LEMMA PrivateCkdIsNode ==
  ASSUME HalvesAreNumbers, NEW n, IsBare(n), NEW i \in Nat
  PROVE  /\ hdnode_private_ckd(hdnode_fill_public_key(n), i) = hdnode_private_ckd(n, i)
         /\ IF i < Hardened /\ ~params(n) THEN hdnode_private_ckd(n, i) = Failed
            ELSE \E I \in Halved :
                   /\ hdnode_private_ckd(n, i) = Made(ChildOf(n, i, I))
                   /\ params(n) =>
                        I = Tried(n.private_key, n.chain_code,
                                  ParentData(IF i < Hardened THEN hdnode_fill_public_key(n) ELSE n, i), i)
<1>1. PICK m : m = hdnode_fill_public_key(n)
  OBVIOUS
<1>2. /\ params(m) = params(n) /\ hdnode_fill_public_key(m) = m /\ m.private_key = n.private_key
      /\ m.chain_code = n.chain_code
  BY <1>1, FilledOnce, FieldsKept
<1>3. CASE i < Hardened /\ ~params(n)
  BY <1>1, <1>2, <1>3 DEF hdnode_private_ckd
<1>4. CASE ~(i < Hardened /\ ~params(n))
  <2>1. PICK p : p = IF i < Hardened THEN m ELSE n
    OBVIOUS
  <2>2. p.private_key = n.private_key /\ p.chain_code = n.chain_code /\ params(p) = params(n)
    BY <1>2, <2>1
  <2>3. PICK data : data = ParentData(p, i)
    OBVIOUS
  <2>4. ParentData(IF i < Hardened THEN m ELSE m, i) = data
    BY <1>2, <2>1, <2>3, TreeAssumption DEF ParentData
  <2>5. PICK I : I = IF params(n) THEN Tried(n.private_key, n.chain_code, data, i) ELSE Hmac(n.chain_code, data)
    OBVIOUS
  <2>6. I \in Halved
    <3> HIDE DEF Halved
    <3> QED BY <2>5, TriedIsHalved DEF HalvesAreNumbers
  <2>7. ASSUME NEW q, q.private_key = n.private_key, q.chain_code = n.chain_code, params(q) = params(n),
               ParentData(q, i) = data
        PROVE  PrivateChild(q, i) = ChildOf(q, i, I)
    <3>1. CASE params(n)
      BY <2>5, <2>7, <3>1, PrivateTries
    <3>2. CASE ~params(n)
      BY <2>5, <2>7, <3>2 DEF PrivateChild
    <3> QED BY <3>1, <3>2
  <2>8. PrivateChild(p, i) = ChildOf(p, i, I)
    BY <2>2, <2>3, <2>7
  <2>9. PrivateChild(m, i) = ChildOf(m, i, I)
    BY <1>1, <1>2, <2>4, <2>7
  <2>10. ChildOf(m, i, I) = ChildOf(n, i, I)
    BY <1>1, <2>6, ChildOfIsBare
  <2>11. ChildOf(p, i, I) = ChildOf(n, i, I)
    BY <2>1, <2>10
  <2>12. hdnode_private_ckd(n, i) = Made(ChildOf(n, i, I))
    BY <1>1, <1>4, <2>1, <2>8, <2>11 DEF hdnode_private_ckd
  <2>13. hdnode_private_ckd(m, i) = Made(ChildOf(n, i, I))
    BY <1>1, <1>2, <1>4, <2>9, <2>10 DEF hdnode_private_ckd
  <2>14. params(n) => I = Tried(n.private_key, n.chain_code,
                                ParentData(IF i < Hardened THEN m ELSE n, i), i)
    BY <2>1, <2>3, <2>5
  <2> QED BY <1>1, <1>4, <2>6, <2>12, <2>13, <2>14
<1> QED BY <1>3, <1>4

\* A child of any curve is bare and one generation down, and the same whether
\* or not its parent was asked for the public key; on the ECDSA curves no
\* child is refused.
LEMMA CkdIsNode ==
  ASSUME HalvesAreNumbers, NEW n, IsBare(n), NEW i \in Nat
  PROVE  /\ ckd(hdnode_fill_public_key(n), i) = ckd(n, i)
         /\ \/ ckd(n, i) = Failed /\ i < Hardened /\ ~params(n)
            \/ \E c : /\ ckd(n, i) = Made(c) /\ IsBare(c) /\ c.curve = n.curve /\ c.depth = n.depth + 1
                      /\ n.curve = "cardano" \/ ~(i < Hardened /\ ~params(n))
<1>1. PICK m : m = hdnode_fill_public_key(n)
  OBVIOUS
<1>2. /\ m.curve = n.curve /\ hdnode_fill_public_key(m) = m /\ m.private_key = n.private_key
      /\ m.chain_code = n.chain_code /\ m.private_key_extension = n.private_key_extension
  BY <1>1, FilledOnce, FieldsKept
<1>3. CASE n.curve = "cardano"
  <2>1. PICK z, next :
          /\ z = Hmac(n.chain_code, CardanoData(IF i >= Hardened THEN n ELSE m, i, 0))
          /\ next = Hmac(n.chain_code, CardanoData(IF i >= Hardened THEN n ELSE m, i, 1))
    OBVIOUS
  <2>2. \A what : CardanoData(IF i >= Hardened THEN n ELSE m, i, what) = CardanoData(m, i, what)
    BY <1>2 DEF CardanoData
  <2>3. hdnode_private_ckd_cardano(n, i) = Made(CardanoChild(n, i, z, next))
    BY <1>1, <2>1 DEF hdnode_private_ckd_cardano
  <2>4. hdnode_private_ckd_cardano(m, i) = Made(CardanoChild(m, i, z, next))
    <3>1. m.chain_code = n.chain_code /\ (IF i >= Hardened THEN m ELSE hdnode_fill_public_key(m)) = m
      BY <1>1, <1>2
    <3> QED BY <2>1, <2>2, <3>1 DEF hdnode_private_ckd_cardano
  <2>5. CardanoChild(m, i, z, next) = CardanoChild(n, i, z, next)
    BY <1>1, <1>3, CardanoChildIsBare
  <2>6. ckd(n, i) = Made(CardanoChild(n, i, z, next)) /\ ckd(m, i) = ckd(n, i)
    BY <1>2, <1>3, <2>3, <2>4, <2>5 DEF ckd
  <2>7. PICK c : c = CardanoChild(n, i, z, next)
    OBVIOUS
  <2>8. IsBare(c) /\ c.curve = n.curve /\ c.depth = n.depth + 1
    BY <1>3, <2>7, CardanoChildIsBare
  <2> QED BY <1>1, <1>3, <2>6, <2>7, <2>8
<1>4. CASE n.curve # "cardano"
  <2>1. ckd(n, i) = hdnode_private_ckd(n, i) /\ ckd(m, i) = hdnode_private_ckd(m, i)
    BY <1>2, <1>4 DEF ckd
  <2>2. ckd(m, i) = ckd(n, i)
    BY <1>1, <2>1, PrivateCkdIsNode
  <2>3. CASE i < Hardened /\ ~params(n)
    BY <1>1, <2>1, <2>2, <2>3, PrivateCkdIsNode
  <2>4. CASE ~(i < Hardened /\ ~params(n))
    <3>1. PICK I \in Halved : hdnode_private_ckd(n, i) = Made(ChildOf(n, i, I))
      BY <2>4, PrivateCkdIsNode
    <3>2. PICK c : c = ChildOf(n, i, I)
      OBVIOUS
    <3>3. IsBare(c) /\ c.curve = n.curve /\ c.depth = n.depth + 1
      BY <3>2, ChildOfIsBare
    <3> QED BY <1>1, <2>1, <2>2, <2>4, <3>1, <3>2, <3>3
  <2> QED BY <2>3, <2>4
<1> QED BY <1>3, <1>4

-----------------------------------------------------------------------------
(* Following with points *)

\* A compressed point that can be read at all is read as what it was.
LEMMA ReadsBack ==
  ASSUME NEW a \in Nat, ecdsa_read_pubkey(Compressed(a)) # 0
  PROVE  ecdsa_read_pubkey(Compressed(a)) = a
<1>1. Order \in Nat /\ Order % 2 = 1
  BY OrderAssumption
<1>2. PICK half \in Nat : half = Order \div 2 /\ Order = 2 * half + 1
  BY <1>1
<1>3. CASE a <= half
  <2>1. Compressed(a) = <<2, a>>
    BY <1>2, <1>3 DEF Compressed
  <2> QED BY <1>2, <2>1 DEF ecdsa_read_pubkey
<1>4. CASE ~(a <= half)
  <2>1. Compressed(a) = <<3, Order - a>>
    BY <1>2, <1>4 DEF Compressed
  <2> QED BY <1>1, <1>2, <1>4, <2>1 DEF ecdsa_read_pubkey
<1> QED BY <1>3, <1>4

\* The public part of a bare node.
LEMMA PublicPartFields ==
  ASSUME NEW n, IsBare(n)
  PROVE  PublicPart(n) = Fields(n.curve, n.depth, n.child_num, n.chain_code, 0, n.private_key_extension, KeyOf(n))
<1>1. PICK m : m = WithKey(n, KeyOf(n))
  OBVIOUS
<1>2. PublicPart(n) = [m EXCEPT !.private_key = 0]
  BY <1>1, FilledOnce DEF PublicPart
<1>3. PICK k : k = KeyOf(n)
  OBVIOUS
<1>4. m = Fields(n.curve, n.depth, n.child_num, n.chain_code, n.private_key, n.private_key_extension, k)
  BY <1>1, <1>3 DEF WithKey
<1>5. [m EXCEPT !.private_key = 0]
        = Fields(n.curve, n.depth, n.child_num, n.chain_code, 0, n.private_key_extension, k)
  BY <1>4 DEF Fields
<1> QED BY <1>2, <1>3, <1>5

\* The child that is derived with points is the public part of the one that
\* is derived with private keys: both ask for the same HMACs.
LEMMA PublicChildFollows ==
  ASSUME HalvesAreNumbers, NEW n, IsBare(n), params(n), NEW i \in Nat,
         hdnode_public_ckd(PublicPart(n), i).ok
  PROVE  hdnode_public_ckd(PublicPart(n), i).node = PublicPart(ckd(n, i).node)
<1>1. PICK w : w = PublicPart(n)
  OBVIOUS
<1>2. PICK a \in Nat : a = n.private_key
  BY DEF IsBare
<1>3. KeyOf(n) = Compressed(a)
  BY <1>2 DEF KeyOf
<1>4. PICK k : k = Compressed(a)
  OBVIOUS
<1>5. w = Fields(n.curve, n.depth, n.child_num, n.chain_code, 0, n.private_key_extension, k)
  BY <1>1, <1>3, <1>4, PublicPartFields
<1>6. w.public_key = k /\ w.depth = n.depth /\ w.chain_code = n.chain_code
  BY <1>5 DEF Fields
<1>7. ecdsa_read_pubkey(k) = a
  <2>1. ecdsa_read_pubkey(k) # 0
    BY <1>1, <1>6 DEF hdnode_public_ckd, Failed
  <2> QED BY <1>4, <2>1, ReadsBack
<1>8. hdnode_public_ckd(w, i) = PublicChild(w, i, hdnode_public_ckd_cp(a, n.chain_code, i))
  <2>1. ecdsa_read_pubkey(w.public_key) = a /\ a # 0
    BY <1>1, <1>6, <1>7 DEF hdnode_public_ckd, Failed
  <2> QED BY <1>6, <2>1 DEF hdnode_public_ckd
<1>9. ~(i >= Hardened)
  <2>1. i >= Hardened => ~hdnode_public_ckd_cp(a, n.chain_code, i).ok
    BY DEF hdnode_public_ckd_cp
  <2> QED BY <1>1, <1>8, <2>1 DEF PublicChild, Failed
<1>10. PICK I \in Halved :
         /\ hdnode_private_ckd(n, i) = Made(ChildOf(n, i, I))
         /\ I = Tried(a, n.chain_code, ParentData(hdnode_fill_public_key(n), i), i)
  <2>1. i < Hardened
    BY <1>9, TreeAssumption
  <2> QED BY <1>2, <2>1, PrivateCkdIsNode
<1>11. ParentData(hdnode_fill_public_key(n), i) = <<Compressed(a)[1], Compressed(a)[2], i>>
  <2>1. hdnode_fill_public_key(n).public_key = Compressed(a)
    BY <1>3, FilledOnce, FieldsKept
  <2> QED BY <1>9, <2>1 DEF ParentData
<1>12. hdnode_public_ckd_cp(a, n.chain_code, i)
         = [ok |-> TRUE, point |-> (I.l + a) % Order, chain_code |-> I.r]
  BY <1>9, <1>10, <1>11, PublicTries
<1>13. PICK b : b = (I.l + a) % Order
  OBVIOUS
<1>14. PICK kb : kb = Compressed(b)
  OBVIOUS
<1>15. hdnode_public_ckd(w, i).node = PublicSet(w, 0, n.depth + 1, i, I.r, kb)
  BY <1>6, <1>8, <1>12, <1>13, <1>14 DEF PublicChild, Made, PublicSet
<1>16. hdnode_public_ckd(w, i).node
         = Fields(n.curve, n.depth + 1, i, I.r, 0, n.private_key_extension, kb)
  BY <1>5, <1>15, AfterPublic
<1>17. PICK c : c = ChildOf(n, i, I)
  OBVIOUS
<1>18. /\ IsBare(c) /\ c.curve = n.curve /\ c.depth = n.depth + 1 /\ c.child_num = i /\ c.chain_code = I.r
       /\ c.private_key = b /\ c.private_key_extension = n.private_key_extension
  BY <1>2, <1>13, <1>17, ChildOfIsBare
<1>19. KeyOf(c) = kb
  BY <1>14, <1>18 DEF KeyOf, params
<1>20. PublicPart(c) = Fields(n.curve, n.depth + 1, i, I.r, 0, n.private_key_extension, kb)
  BY <1>18, <1>19, PublicPartFields
<1>21. ckd(n, i).node = c
  <2>1. n.curve # "cardano"
    BY DEF params, get_curve_by_name, CurveInfo
  <2> QED BY <1>10, <1>17, <2>1 DEF ckd, Made
<1> QED BY <1>1, <1>16, <1>20, <1>21

\* A public text is read as the public part of the node it was written from.
LEMMA PublishedIsPublicPart ==
  ASSUME NEW n, IsBare(n), params(n), n.depth < DepthMod, NEW fingerprint,
         NEW node, node = n \/ node = hdnode_fill_public_key(n), NEW r,
         r = hdnode_deserialize(hdnode_serialize_public(node, fingerprint, "public"), "public", "private", n.curve),
         r.ret = 0
  PROVE  r.node = PublicPart(n)
<1>1. PICK t : t = hdnode_serialize_public(node, fingerprint, "public")
  OBVIOUS
<1>2. /\ t.version = "public" /\ t.depth = node.depth % DepthMod /\ t.child_num = node.child_num
      /\ t.chain_code = node.chain_code /\ t.key = node.public_key
  BY <1>1 DEF hdnode_serialize_public, hdnode_serialize
<1>3. ~KeyRefused(t, n.curve, FALSE) /\ r.node = ReadNode(t, n.curve, FALSE)
  <2>1. (t.version # "public") = FALSE
    BY <1>2
  <2>2. r = hdnode_deserialize(t, "public", "private", n.curve)
    BY <1>1
  <2>3. \A x : [ret |-> -4].ret # 0 /\ [ret |-> -1].ret # 0 /\ [ret |-> -3].ret # 0 /\ [ret |-> -2].ret # 0
    OBVIOUS
  <2>4. r = [ret |-> 0, node |-> ReadNode(t, n.curve, t.version # "public"), fingerprint |-> t.fingerprint]
        /\ ~KeyRefused(t, n.curve, t.version # "public")
    BY <2>2, <2>3 DEF hdnode_deserialize
  <2>5. r.node = ReadNode(t, n.curve, t.version # "public")
    BY <2>4
  <2> QED BY <2>1, <2>4, <2>5
<1>4. ecdsa_read_pubkey(node.public_key) # 0
  BY <1>2, <1>3 DEF KeyRefused, params
<1>5. node = hdnode_fill_public_key(n)
  <2>1. n.public_key = <<0, 0>>
    BY DEF IsBare, WithKey, Fields, NoPublic
  <2>2. ecdsa_read_pubkey(<<0, 0>>) = 0
    BY DEF ecdsa_read_pubkey
  <2> QED BY <1>4, <2>1, <2>2
<1>6. PICK k : k = KeyOf(n)
  OBVIOUS
<1>7. /\ node.depth = n.depth /\ node.child_num = n.child_num /\ node.chain_code = n.chain_code
      /\ node.public_key = k
  BY <1>5, <1>6, FilledOnce, FieldsKept
<1>8. n.depth % DepthMod = n.depth
  BY TreeAssumption DEF IsBare
<1>9. r.node = ReadSet(NoNode, n.curve, n.depth, n.child_num, n.chain_code, 0, k)
  <2>1. ReadNode(t, n.curve, FALSE) = ReadSet(NoNode, n.curve, t.depth, t.child_num, t.chain_code, 0, t.key)
    BY Zenon DEF ReadNode, ReadSet
  <2>2. t.depth = n.depth /\ t.child_num = n.child_num /\ t.chain_code = n.chain_code /\ t.key = k
    BY <1>2, <1>7, <1>8
  <2> QED BY <1>3, <2>1, <2>2
<1>10. NoNode = Fields("none", 0, 0, 0, 0, 0, NoPublic)
  BY DEF NoNode, Fields
<1>11. r.node = Fields(n.curve, n.depth, n.child_num, n.chain_code, 0, 0, k)
  BY <1>9, <1>10, AfterReading
<1>12. n.private_key_extension = 0
  BY DEF IsBare
<1> QED BY <1>6, <1>11, <1>12, PublicPartFields

-----------------------------------------------------------------------------
(* A path in one go *)

Goes(after, s, path, n) ==
  after = [k \in 0..n |-> IF k = 0 THEN s ELSE Step(after[k - 1], path[k])]

LEMMA GoesExists ==
  ASSUME NEW s, NEW path, NEW n \in Nat
  PROVE  \E after : Goes(after, s, path, n)
<1> DEFINE T == {m \in 0..n : \E after : Goes(after, s, path, m)}
<1>1. 0 \in T
  <2>1. PICK after : after = [k \in 0..0 |-> s]
    OBVIOUS
  <2>2. Goes(after, s, path, 0)
    BY <2>1 DEF Goes
  <2> QED BY <2>2
<1>2. ASSUME NEW m \in 0..(n - 1), m \in T PROVE m + 1 \in T
  <2>1. PICK g : Goes(g, s, path, m)
    BY <1>2
  <2>2. PICK v : v = Step(g[m], path[m + 1])
    OBVIOUS
  <2>3. PICK f : f = [k \in 0..(m + 1) |-> IF k = m + 1 THEN v ELSE g[k]]
    OBVIOUS
  <2>4. \A k \in 0..m : f[k] = g[k] /\ g[k] = IF k = 0 THEN s ELSE Step(g[k - 1], path[k])
    BY <2>1, <2>3 DEF Goes
  <2>5. f[m + 1] = v /\ \A k \in 0..(m + 1) : k = m + 1 \/ k \in 0..m
    BY <2>3
  <2>6. ASSUME NEW k \in 0..(m + 1) PROVE f[k] = IF k = 0 THEN s ELSE Step(f[k - 1], path[k])
    <3>1. CASE k = m + 1
      <4>1. k # 0 /\ k - 1 = m /\ m \in 0..m
        BY <3>1
      <4> QED BY <2>2, <2>4, <2>5, <3>1, <4>1
    <3>2. CASE k # m + 1
      <4>1. k \in 0..m /\ (k # 0 => k - 1 \in 0..m)
        BY <3>2
      <4> QED BY <2>4, <4>1
    <3> QED BY <3>1, <3>2
  <2>7. Goes(f, s, path, m + 1)
    <3>1. f = [k \in 0..(m + 1) |-> f[k]]
      BY <2>3
    <3> QED BY <2>6, <3>1 DEF Goes
  <2> QED BY <2>7
<1>3. 0..n \subseteq T
  <2> HIDE DEF T
  <2> QED BY <1>1, <1>2, AllUpTo
<1> QED BY <1>3

LEMMA DescendantGoes ==
  ASSUME NEW node, NEW S, NEW path \in Seq(S)
  PROVE  \E after : Goes(after, Made(node), path, Len(path)) /\ Descendant(node, path) = after[Len(path)]
<1>0. Len(path) \in Nat
  OBVIOUS
<1>1. PICK after : Goes(after, Made(node), path, Len(path))
  BY <1>0, GoesExists
<1>2. Descendant(node, path) = (CHOOSE f : Goes(f, Made(node), path, Len(path)))[Len(path)]
  BY DEF Descendant, Goes
<1>3. Goes(CHOOSE f : Goes(f, Made(node), path, Len(path)), Made(node), path, Len(path))
  BY <1>1
<1> QED BY <1>2, <1>3

\* A descendant is the node, or one step from the descendant before.
LEMMA DescendantStep ==
  ASSUME NEW node, NEW S, NEW path \in Seq(S), NEW i \in S
  PROVE  /\ Descendant(node, <<>>) = Made(node)
         /\ Descendant(node, Append(path, i)) = Step(Descendant(node, path), i)
<1>1. Descendant(node, <<>>) = Made(node)
  <2>1. <<>> \in Seq(S) /\ Len(<<>>) = 0
    OBVIOUS
  <2>2. PICK after : Goes(after, Made(node), <<>>, 0) /\ Descendant(node, <<>>) = after[0]
    BY <2>1, DescendantGoes
  <2> QED BY <2>2 DEF Goes
<1>2. PICK n \in Nat : n = Len(path)
  OBVIOUS
<1>3. PICK longer : longer = Append(path, i)
  OBVIOUS
<1>4. /\ longer \in Seq(S) /\ Len(longer) = n + 1 /\ longer[n + 1] = i
      /\ \A k \in 1..n : longer[k] = path[k]
  BY <1>2, <1>3
<1>5. PICK f : Goes(f, Made(node), path, n) /\ Descendant(node, path) = f[n]
  BY <1>2, DescendantGoes
<1>6. PICK g : Goes(g, Made(node), longer, n + 1) /\ Descendant(node, longer) = g[n + 1]
  BY <1>4, DescendantGoes
<1> DEFINE T == {k \in 0..n : f[k] = g[k]}
<1>7. 0 \in T
  BY <1>5, <1>6 DEF Goes
<1>8. ASSUME NEW k \in 0..(n - 1), k \in T PROVE k + 1 \in T
  <2>1. k + 1 \in 0..n /\ k + 1 \in 0..(n + 1) /\ k + 1 # 0 /\ (k + 1) - 1 = k /\ k + 1 \in 1..n
    OBVIOUS
  <2>2. f[k + 1] = Step(f[k], path[k + 1])
    BY <1>5, <2>1 DEF Goes
  <2>3. g[k + 1] = Step(g[k], longer[k + 1])
    BY <1>6, <2>1 DEF Goes
  <2> QED BY <1>4, <1>8, <2>1, <2>2, <2>3
<1>9. 0..n \subseteq T
  <2> HIDE DEF T
  <2> QED BY <1>7, <1>8, AllUpTo
<1>10. g[n + 1] = Step(g[n], i)
  <2>1. n + 1 \in 0..(n + 1) /\ n + 1 # 0 /\ (n + 1) - 1 = n
    OBVIOUS
  <2> QED BY <1>4, <1>6, <2>1 DEF Goes
<1> QED BY <1>1, <1>3, <1>5, <1>6, <1>9, <1>10

LEMMA Prefix ==
  ASSUME NEW S, NEW path \in Seq(S), NEW k \in 0..(Len(path) - 1)
  PROVE  /\ SubSeq(path, 1, k) \in Seq(S) /\ Len(SubSeq(path, 1, k)) = k
         /\ SubSeq(path, 1, k + 1) = Append(SubSeq(path, 1, k), path[k + 1]) /\ path[k + 1] \in S
         /\ SubSeq(path, 1, 0) = <<>> /\ SubSeq(path, 1, Len(path)) = path
         /\ \A r \in Seq(S) : /\ r \o SubSeq(path, 1, k) \in Seq(S)
                              /\ r \o SubSeq(path, 1, k + 1) = Append(r \o SubSeq(path, 1, k), path[k + 1])
                              /\ r \o SubSeq(path, 1, 0) = r
OBVIOUS

\* The node at the end of r, asked for its public key or not.
At(node, root, r) == node \in {Walked(root, r), hdnode_fill_public_key(Walked(root, r))}

\* Where a step of a path is refused.
Refuses(n, i) == ~params(n) /\ i < Hardened

\* s is what m steps of the path lead to below the end n of r, and the first
\* j of them were made.
Reaches(s, root, r, n, path, j, m) ==
  /\ s.ok \in BOOLEAN /\ (s.ok <=> j = m)
  /\ At(s.node, root, r \o SubSeq(path, 1, j))
  /\ IsBare(Walked(root, r \o SubSeq(path, 1, j)))
  /\ Walked(root, r \o SubSeq(path, 1, j)).curve = n.curve
  /\ Walked(root, r \o SubSeq(path, 1, j)).depth = n.depth + j
  /\ \A k \in 1..j : ~Refuses(n, path[k])
  /\ j < m => Refuses(n, path[j + 1])

\* Nothing but an outcome and a node.
Plain(s) == s = [ok |-> s.ok, node |-> s.node]

\* One step more is made, or refused, or was not reached.
LEMMA StepReaches ==
  ASSUME HalvesAreNumbers, ChildIndices \subseteq Nat, NEW root, NEW r \in Seq(ChildIndices), NEW n,
         n.depth \in Nat, n.curve # "cardano", NEW path \in Seq(ChildIndices),
         NEW m \in 0..(Len(path) - 1), NEW j \in 0..m, NEW s, Reaches(s, root, r, n, path, j, m)
  PROVE  \E k \in 0..(m + 1) : Reaches(Step(s, path[m + 1]), root, r, n, path, k, m + 1)
<1>0. /\ Len(path) \in Nat /\ m \in Nat /\ j \in Nat /\ j <= m /\ m + 1 \in 1..Len(path)
  OBVIOUS
<1>1. PICK i \in ChildIndices : i = path[m + 1]
  <2>1. path[m + 1] \in ChildIndices
    BY <1>0
  <2> QED BY <2>1
<1>2. i \in Nat
  OBVIOUS
<1>3. PICK child : child = hdnode_private_ckd(s.node, i)
  OBVIOUS
<1>4. CASE ~s.ok
  <2>1. Step(s, i) = s
    BY <1>4 DEF Step
  <2>2. j < m
    BY <1>0, <1>4 DEF Reaches
  <2>3. Reaches(s, root, r, n, path, j, m + 1) /\ j \in 0..(m + 1)
    BY <1>0, <1>4, <2>2 DEF Reaches
  <2> QED BY <1>1, <2>1, <2>3
<1>5. CASE s.ok
  <2>1. j = m
    BY <1>5 DEF Reaches
  <2>2. PICK w : w = Walked(root, r \o SubSeq(path, 1, m))
    OBVIOUS
  <2>3. IsBare(w) /\ w.curve = n.curve /\ w.depth = n.depth + m /\ s.node \in {w, hdnode_fill_public_key(w)}
        /\ \A k \in 1..m : ~Refuses(n, path[k])
    BY <2>1, <2>2 DEF Reaches, At
  <2>4. child = hdnode_private_ckd(w, i)
    BY <1>2, <1>3, <2>3, PrivateCkdIsNode
  <2>5. Step(s, i) = [ok |-> child.ok, node |-> IF child.ok THEN child.node ELSE s.node]
    BY <1>3, <1>5 DEF Step
  <2>6. params(w) = params(n)
    BY <2>3 DEF params
  <2>7. CASE Refuses(n, i)
    <3>1. child = Failed
      BY <1>2, <2>3, <2>4, <2>6, <2>7, PrivateCkdIsNode DEF Refuses
    <3>2. Step(s, i) = [ok |-> FALSE, node |-> s.node]
      BY <2>5, <3>1 DEF Failed
    <3>3. Reaches(Step(s, i), root, r, n, path, m, m + 1) /\ m \in 0..(m + 1)
      BY <1>0, <1>1, <2>1, <2>7, <3>2 DEF Reaches
    <3> QED BY <1>1, <3>3
  <2>8. CASE ~Refuses(n, i)
    <3>1. w.curve # "cardano" /\ ckd(w, i) = child
      BY <2>3, <2>4 DEF ckd
    <3>2. PICK c : child = Made(c) /\ IsBare(c) /\ c.curve = w.curve /\ c.depth = w.depth + 1
      BY <1>2, <2>3, <2>6, <2>8, <3>1, CkdIsNode DEF Refuses
    <3>3. Step(s, i) = [ok |-> TRUE, node |-> c]
      BY <2>5, <3>2 DEF Made
    <3>4. Walked(root, r \o SubSeq(path, 1, m + 1)) = c
      <4>1. PICK q \in Seq(ChildIndices) : q = r \o SubSeq(path, 1, m)
                                           /\ r \o SubSeq(path, 1, m + 1) = Append(q, i)
        <5>1. r \o SubSeq(path, 1, m) \in Seq(ChildIndices)
              /\ r \o SubSeq(path, 1, m + 1) = Append(r \o SubSeq(path, 1, m), path[m + 1])
          BY Prefix
        <5> QED BY <1>1, <5>1
      <4>2. Walked(root, Append(q, i)) = ckd(Walked(root, q), i).node
        <5>1. q \in Seq(ChildIndices) /\ i \in ChildIndices
          OBVIOUS
        <5> QED BY ONLY <5>1, WalkedStep
      <4>3. Walked(root, q) = w
        BY <2>2, <4>1
      <4>4. ckd(w, i).node = c
        BY <3>1, <3>2 DEF Made
      <4> QED BY <4>1, <4>2, <4>3, <4>4
    <3>5. \A k \in 1..(m + 1) : ~Refuses(n, path[k])
      <4>1. \A k \in 1..(m + 1) : k = m + 1 \/ k \in 1..m
        OBVIOUS
      <4> QED BY <1>1, <2>3, <2>8, <4>1
    <3>6. c.depth = n.depth + (m + 1)
      BY <1>0, <2>3, <3>2
    <3>7. Reaches(Step(s, i), root, r, n, path, m + 1, m + 1)
      BY <2>3, <3>2, <3>3, <3>4, <3>5, <3>6 DEF Reaches, At
    <3> QED BY <1>1, <3>7
  <2> QED BY <2>7, <2>8
<1> QED BY <1>4, <1>5

\* All the steps of a path, or those before the first that is refused.
LEMMA DescendantIsWalked ==
  ASSUME HalvesAreNumbers, ChildIndices \subseteq Nat, NEW root, NEW r \in Seq(ChildIndices), NEW n,
         n = Walked(root, r), IsBare(n), n.curve # "cardano", NEW path \in Seq(ChildIndices), NEW node,
         node \in {n, hdnode_fill_public_key(n)}, NEW m \in 0..Len(path)
  PROVE  /\ Plain(Descendant(node, SubSeq(path, 1, m)))
         /\ \E j \in 0..m : Reaches(Descendant(node, SubSeq(path, 1, m)), root, r, n, path, j, m)
<1>0. PICK L \in Nat : L = Len(path)
  OBVIOUS
<1> DEFINE T == {k \in 0..L : /\ Plain(Descendant(node, SubSeq(path, 1, k)))
                            /\ \E j \in 0..k : Reaches(Descendant(node, SubSeq(path, 1, k)), root, r, n, path, j, k)}
<1>1. 0 \in T
  <2>1. SubSeq(path, 1, 0) = <<>> /\ r \o SubSeq(path, 1, 0) = r
    OBVIOUS
  <2>2. Descendant(node, <<>>) = Made(node)
    <3>1. \A i \in {0} : Descendant(node, <<>>) = Made(node)
      <4>1. <<>> \in Seq({0})
        OBVIOUS
      <4> QED BY <4>1, DescendantStep
    <3> QED BY <3>1
  <2>3. n.depth = n.depth + 0
    BY DEF IsBare
  <2>4. Reaches(Made(node), root, r, n, path, 0, 0)
    <3>1. Made(node).ok /\ Made(node).node = node
      BY DEF Made
    <3>2. At(node, root, r)
      BY DEF At
    <3>3. \A k \in 1..0 : ~Refuses(n, path[k])
      OBVIOUS
    <3>4. IsBare(n) /\ n = Walked(root, r) /\ ~(0 < 0)
      OBVIOUS
    <3> HIDE DEF At, IsBare
    <3> QED BY ONLY <2>1, <2>3, <3>1, <3>2, <3>3, <3>4 DEF Reaches
  <2>5. 0 \in 0..0 /\ 0 \in 0..L
    OBVIOUS
  <2>6. Reaches(Descendant(node, SubSeq(path, 1, 0)), root, r, n, path, 0, 0)
    BY <2>1, <2>2, <2>4
  <2>7. Plain(Descendant(node, SubSeq(path, 1, 0)))
    BY <2>1, <2>2 DEF Plain, Made
  <2> QED BY <2>5, <2>6, <2>7
<1>2. ASSUME NEW k \in 0..(L - 1), k \in T PROVE k + 1 \in T
  <2>1. PICK j \in 0..k : Reaches(Descendant(node, SubSeq(path, 1, k)), root, r, n, path, j, k)
    BY <1>2
  <2>2. PICK q \in Seq(ChildIndices), i \in ChildIndices :
          q = SubSeq(path, 1, k) /\ i = path[k + 1] /\ SubSeq(path, 1, k + 1) = Append(q, i)
    <3>1. /\ SubSeq(path, 1, k) \in Seq(ChildIndices) /\ path[k + 1] \in ChildIndices
          /\ SubSeq(path, 1, k + 1) = Append(SubSeq(path, 1, k), path[k + 1])
      BY <1>0, Prefix
    <3> QED BY <3>1
  <2>3. Descendant(node, SubSeq(path, 1, k + 1)) = Step(Descendant(node, q), i)
    <3>1. q \in Seq(ChildIndices) /\ i \in ChildIndices
      OBVIOUS
    <3>2. Descendant(node, Append(q, i)) = Step(Descendant(node, q), i)
      BY ONLY <3>1, DescendantStep
    <3> QED BY <2>2, <3>2
  <2>4. PICK s : s = Descendant(node, q)
    OBVIOUS
  <2>5. \E l \in 0..(k + 1) : Reaches(Step(s, path[k + 1]), root, r, n, path, l, k + 1)
    <3>1. n.depth \in Nat
      BY DEF IsBare
    <3>2. Reaches(s, root, r, n, path, j, k)
      BY <2>1, <2>2, <2>4
    <3> QED BY <1>0, <3>1, <3>2, StepReaches
  <2>6. k + 1 \in 0..L
    BY <1>0
  <2>7. Plain(s)
    BY <1>2, <2>2, <2>4
  <2>8. Plain(Step(s, i))
    BY <2>7 DEF Plain, Step
  <2> QED BY <2>2, <2>3, <2>4, <2>5, <2>6, <2>8
<1>3. 0..L \subseteq T
  <2> HIDE DEF T
  <2> QED BY <1>1, <1>2, AllUpTo
<1> QED BY <1>0, <1>3


\* A path in one go likewise; what is said of the last node's parent is its
\* fingerprint.
LEMMA CachedIsWalked ==
  ASSUME HalvesAreNumbers, ChildIndices \subseteq Nat, NEW root, NEW r \in Seq(ChildIndices), NEW n,
         n = Walked(root, r), IsBare(n), n.curve # "cardano", NEW path \in Seq(ChildIndices), NEW node,
         node \in {n, hdnode_fill_public_key(n)}, NEW out, out = hdnode_private_ckd_cached(node, path)
  PROVE  \E j \in 0..Len(path) :
           /\ Reaches(out, root, r, n, path, j, Len(path))
           /\ j = Len(path) /\ path # <<>> =>
                /\ out.fingerprint = hdnode_fingerprint(Walked(root, r \o SubSeq(path, 1, j - 1)))
                /\ IsBare(Walked(root, r \o SubSeq(path, 1, j - 1)))
<1>0. PICK L \in Nat : L = Len(path)
  OBVIOUS
<1>1. CASE path = <<>>
  <2>1. L = 0 /\ SubSeq(path, 1, 0) = <<>> /\ 0 \in 0..Len(path)
    BY <1>0, <1>1
  <2>2. PICK j \in 0..0 : Reaches(Descendant(node, SubSeq(path, 1, 0)), root, r, n, path, j, 0)
    BY <2>1, DescendantIsWalked
  <2>3. Descendant(node, <<>>) = Made(node)
    <3>1. \A i \in {0} : Descendant(node, <<>>) = Made(node)
      <4>1. <<>> \in Seq({0})
        OBVIOUS
      <4> QED BY <4>1, DescendantStep
    <3> QED BY <3>1
  <2>4. out = Made(node)
    BY <1>1 DEF hdnode_private_ckd_cached
  <2>5. j = 0
    BY <2>2
  <2>6. Reaches(out, root, r, n, path, 0, 0)
    BY <2>1, <2>2, <2>3, <2>4, <2>5
  <2> QED BY <1>0, <1>1, <2>1, <2>6
<1>2. CASE path # <<>>
  <2>1. L >= 1 /\ L - 1 \in 0..Len(path) /\ L - 1 \in 0..(Len(path) - 1) /\ (L - 1) + 1 = L
    BY <1>0, <1>2
  <2>2. PICK parent : parent = Descendant(node, SubSeq(path, 1, L - 1))
    OBVIOUS
  <2>3. PICK j \in 0..(L - 1) : Reaches(parent, root, r, n, path, j, L - 1) /\ Plain(parent)
    BY <2>1, <2>2, DescendantIsWalked
  <2>4. out = ThenLast(parent, path[L])
    BY <1>0, <1>2, <2>2 DEF hdnode_private_ckd_cached
  <2>5. CASE ~parent.ok
    <3>1. out = parent
      BY <2>4, <2>5 DEF ThenLast
    <3>2. j \in Nat /\ j < L - 1
      BY <2>1, <2>3, <2>5 DEF Reaches
    <3>3. Reaches(out, root, r, n, path, j, L) /\ j \in 0..L /\ j # L
      BY <2>1, <2>3, <2>5, <3>1, <3>2 DEF Reaches
    <3> QED BY <1>0, <3>3
  <2>6. CASE parent.ok
    <3>1. j = L - 1
      BY <2>3, <2>6 DEF Reaches
    <3>2. PICK w : w = Walked(root, r \o SubSeq(path, 1, L - 1))
      OBVIOUS
    <3>3. IsBare(w) /\ parent.node \in {w, hdnode_fill_public_key(w)}
      BY <2>3, <3>1, <3>2 DEF Reaches, At
    <3>4. PICK filled : filled = hdnode_fill_public_key(w)
      OBVIOUS
    <3>5. hdnode_fill_public_key(parent.node) = filled
      BY <3>3, <3>4, FilledOnce
    <3>6. PICK s : s = [parent EXCEPT !.node = filled]
      OBVIOUS
    <3>7. s.ok = parent.ok /\ s.node = filled
      BY <2>3, <3>6 DEF Plain
    <3>8. Reaches(s, root, r, n, path, j, L - 1)
      <4>1. At(s.node, root, r \o SubSeq(path, 1, j))
        BY <3>1, <3>2, <3>4, <3>7 DEF At
      <4> QED BY <2>3, <3>7, <4>1 DEF Reaches
    <3>9. PICK child : child = Step(s, path[L])
      OBVIOUS
    <3>10. PICK k \in 0..L : Reaches(child, root, r, n, path, k, L)
      <4>1. n.depth \in Nat
        BY DEF IsBare
      <4>2. \E k \in 0..((L - 1) + 1) : Reaches(Step(s, path[(L - 1) + 1]), root, r, n, path, k, (L - 1) + 1)
        BY <2>1, <3>8, <4>1, StepReaches
      <4> QED BY <2>1, <3>9, <4>2
    <3>11. out = [ok |-> child.ok, node |-> child.node, fingerprint |-> hdnode_fingerprint(parent.node)]
      <4>1. s = [parent EXCEPT !.node = hdnode_fill_public_key(parent.node)]
        BY <3>5, <3>6
      <4> QED BY <2>4, <2>6, <3>9, <4>1 DEF ThenLast
    <3>12. Reaches(out, root, r, n, path, k, L)
      BY <3>10, <3>11 DEF Reaches
    <3>13. out.fingerprint = hdnode_fingerprint(w)
      <4>1. hdnode_fill_public_key(parent.node) = hdnode_fill_public_key(w)
        BY <3>4, <3>5
      <4> QED BY <3>11, <4>1 DEF hdnode_fingerprint
    <3> QED BY <1>0, <3>2, <3>3, <3>12, <3>13
  <2> QED BY <2>5, <2>6
<1> QED BY <1>1, <1>2


-----------------------------------------------------------------------------
(* The keeper and the watcher are where their paths say *)

\* A path below a wallet's root, and the node at its end.
OnPath(root, name, r) ==
  /\ r \in Seq(ChildIndices)
  /\ IsBare(Stripped(Walked(root, r)))
  /\ Stripped(Walked(root, r)).curve = name /\ Stripped(Walked(root, r)).depth = Len(r)
  /\ Walked(root, r) \in {Stripped(Walked(root, r)), hdnode_fill_public_key(Stripped(Walked(root, r)))}
  /\ name # "cardano" => Walked(root, r) = Stripped(Walked(root, r))

KeeperOnItsPath ==
  /\ family \in DOMAIN get_curve_by_name /\ seedOf \in Seeds
  /\ OnPath(Opened(family, seedOf), family, route) /\ Len(route) <= MaxDepth
  /\ keeper \in {NodeAt(route), hdnode_fill_public_key(NodeAt(route))}

WatcherOnItsPath ==
  watcher # NoNode =>
    /\ get_curve_by_name[family].params
    /\ OnPath(Opened(family, seedOf), family, watched) /\ Len(watched) <= MaxDepth
    /\ watcher = PublicPart(NodeAt(watched))

DInv == KeeperOnItsPath /\ WatcherOnItsPath /\ AddressIsChilds

\* A wallet's root is at the empty path.
LEMMA RootOnPath ==
  ASSUME HalvesAreNumbers, NEW name \in DOMAIN get_curve_by_name,
         NEW s \in Seeds \cup {PeerSeed}, NEW root, root = Opened(name, s)
  PROVE  OnPath(root, name, <<>>) /\ Walked(root, <<>>) = root
<1>1. Walked(root, <<>>) = root
  <2>1. \A i \in {0} : Walked(root, <<>>) = root
    <3>1. <<>> \in Seq({0})
      OBVIOUS
    <3> QED BY <3>1, WalkedStep
  <2> QED BY <2>1
<1>2. KnownCurve(name)
  BY DEF KnownCurve
<1>3. /\ IsBare(Stripped(root)) /\ Stripped(root).curve = name /\ Stripped(root).depth = 0
      /\ IF name = "cardano" THEN root = hdnode_fill_public_key(Stripped(root)) ELSE root = Stripped(root)
  BY <1>2, OpenedIsNode
<1>4. <<>> \in Seq(ChildIndices) /\ Len(<<>>) = 0
  OBVIOUS
<1> QED BY ONLY <1>1, <1>3, <1>4 DEF OnPath

\* The child of the node at the end of a path is at the end of a path, and
\* it is the same for a node that was asked for its public key.
LEMMA ChildOnPath ==
  ASSUME HalvesAreNumbers, ChildIndices \subseteq Nat, NEW root, NEW name, NEW r, OnPath(root, name, r), NEW n,
         n = Stripped(Walked(root, r)), NEW node, node \in {n, hdnode_fill_public_key(n)},
         NEW i \in ChildIndices, ckd(node, i).ok
  PROVE  /\ OnPath(root, name, Append(r, i)) /\ ckd(node, i) = ckd(n, i)
         /\ Stripped(Walked(root, Append(r, i))) = ckd(n, i).node
<1>1. IsBare(n) /\ i \in Nat /\ r \in Seq(ChildIndices) /\ n.curve = name /\ n.depth = Len(r)
  BY DEF OnPath
<1>2. ckd(hdnode_fill_public_key(n), i) = ckd(n, i)
  BY <1>1, CkdIsNode
<1>3. ckd(node, i) = ckd(n, i) /\ ckd(Walked(root, r), i) = ckd(n, i)
  BY <1>2 DEF OnPath
<1>4. PICK c : ckd(n, i) = Made(c) /\ IsBare(c) /\ c.curve = n.curve /\ c.depth = n.depth + 1
  <2>1. ~Failed.ok
    BY DEF Failed
  <2>2. ckd(n, i) # Failed
    BY <1>3, <2>1
  <2> QED BY <1>1, <2>2, CkdIsNode
<1>5. ckd(n, i).node = c
  BY <1>4 DEF Made
<1>6. Walked(root, Append(r, i)) = c
  <2>1. Walked(root, Append(r, i)) = ckd(Walked(root, r), i).node
    BY <1>1, WalkedStep
  <2> QED BY <1>3, <1>5, <2>1
<1>7. Stripped(c) = c
  BY <1>4, FilledOnce
<1>8. Append(r, i) \in Seq(ChildIndices) /\ Len(Append(r, i)) = Len(r) + 1
  BY <1>1
<1>9. OnPath(root, name, Append(r, i))
  BY <1>1, <1>4, <1>6, <1>7, <1>8 DEF OnPath
<1> QED BY <1>3, <1>5, <1>6, <1>7, <1>9

\* What the parts of the invariant depend on.
LEMMA KeeperStays ==
  ASSUME KeeperOnItsPath, UNCHANGED <<family, seedOf, keeper, route>>
  PROVE  KeeperOnItsPath'
BY DEF KeeperOnItsPath, NodeAt

LEMMA WatcherStays ==
  ASSUME WatcherOnItsPath, UNCHANGED <<family, seedOf, watcher, watched>>
  PROVE  WatcherOnItsPath'
BY DEF WatcherOnItsPath, NodeAt

LEMMA NoNewAddress ==
  ASSUME answer'.call # "receive"
  PROVE  AddressIsChilds'
BY DEF AddressIsChilds

LEMMA IdleCalls ==
  ASSUME Idle, UNCHANGED answer
  PROVE  AddressIsChilds'
BY DEF Idle, Nothing, AddressIsChilds

\* The node that the keeper's path leads to.
LEMMA KeepersNode ==
  ASSUME KeeperOnItsPath
  PROVE  /\ IsBare(NodeAt(route)) /\ NodeAt(route).curve = family /\ NodeAt(route).depth = Len(route)
         /\ keeper \in {NodeAt(route), hdnode_fill_public_key(NodeAt(route))}
         /\ keeper.curve = family /\ keeper.depth = Len(route) /\ params(keeper) = params(NodeAt(route))
         /\ keeper.private_key = NodeAt(route).private_key
         /\ keeper.private_key_extension = NodeAt(route).private_key_extension
         /\ hdnode_fill_public_key(keeper) = hdnode_fill_public_key(NodeAt(route))
         /\ NodeAt(route) = Stripped(Walked(Opened(family, seedOf), route))
<1>1. NodeAt(route) = Stripped(Walked(Opened(family, seedOf), route))
  BY DEF NodeAt, Stripped
<1>2. PICK n : n = NodeAt(route)
  OBVIOUS
<1>3. IsBare(n) /\ n.curve = family /\ n.depth = Len(route) /\ keeper \in {n, hdnode_fill_public_key(n)}
  BY <1>1, <1>2 DEF KeeperOnItsPath, OnPath
<1>4. PICK m : m = hdnode_fill_public_key(n)
  OBVIOUS
<1>5. /\ m.curve = n.curve /\ m.depth = n.depth /\ params(m) = params(n) /\ m.private_key = n.private_key
      /\ m.private_key_extension = n.private_key_extension /\ hdnode_fill_public_key(m) = m
  BY <1>3, <1>4, FilledOnce, FieldsKept
<1> QED BY <1>1, <1>2, <1>3, <1>4, <1>5

LEMMA InitHolds ==
  ASSUME HalvesAreNumbers, DeriveInit
  PROVE  DInv
<1>1. PICK root : root = Opened(family, seedOf)
  OBVIOUS
<1>2. family \in DOMAIN get_curve_by_name /\ seedOf \in Seeds /\ keeper = root /\ route = <<>>
      /\ watcher = NoNode /\ answer = Nothing
  BY <1>1 DEF DeriveInit
<1>3. OnPath(root, family, <<>>) /\ Walked(root, <<>>) = root
  BY <1>1, <1>2, RootOnPath
<1>4. NodeAt(<<>>) = Stripped(root)
  BY <1>1, <1>3 DEF NodeAt, Stripped
<1>5. root \in {NodeAt(<<>>), hdnode_fill_public_key(NodeAt(<<>>))}
  BY <1>3, <1>4 DEF OnPath
<1>6. Len(<<>>) = 0 /\ 0 <= MaxDepth
  BY DerivationAssumption
<1>7. KeeperOnItsPath
  BY <1>1, <1>2, <1>3, <1>5, <1>6 DEF KeeperOnItsPath
<1> QED BY <1>2, <1>7 DEF DInv, WatcherOnItsPath, AddressIsChilds, Nothing

LEMMA DeriveHolds ==
  ASSUME HalvesAreNumbers, DInv, NEW i \in ChildIndices, Derive(i)
  PROVE  DInv'
<1>1. PICK root, n : root = Opened(family, seedOf) /\ n = NodeAt(route)
  OBVIOUS
<1>2. /\ KeeperOnItsPath /\ Idle /\ Len(route) < MaxDepth /\ ckd(keeper, i).ok /\ keeper' = ckd(keeper, i).node
      /\ route' = Append(route, i) /\ UNCHANGED <<family, seedOf, watcher, watched, answer>>
  BY DEF Derive, DInv
<1>3. /\ OnPath(root, family, route) /\ n = Stripped(Walked(root, route))
      /\ keeper \in {n, hdnode_fill_public_key(n)}
  BY <1>1, <1>2, KeepersNode DEF KeeperOnItsPath
<1>4. /\ OnPath(root, family, Append(route, i)) /\ ckd(keeper, i) = ckd(n, i)
      /\ Stripped(Walked(root, Append(route, i))) = ckd(n, i).node
  BY <1>2, <1>3, DerivationAssumption, ChildOnPath
<1>5. NodeAt(route)' = ckd(n, i).node
  BY <1>1, <1>2, <1>4 DEF NodeAt, Stripped
<1>6. Len(route') <= MaxDepth
  <2>1. route \in Seq(ChildIndices) /\ MaxDepth \in Nat
    BY <1>3, DerivationAssumption DEF OnPath
  <2> QED BY <1>2, <2>1
<1>7. KeeperOnItsPath'
  BY <1>1, <1>2, <1>4, <1>5, <1>6 DEF KeeperOnItsPath
<1> QED BY <1>2, <1>7, WatcherStays, IdleCalls DEF DInv

LEMMA FillHolds ==
  ASSUME DInv, Idle, keeper' \in {keeper, hdnode_fill_public_key(keeper), NodeAt(route)},
         UNCHANGED <<family, seedOf, route, watcher, watched>>, AddressIsChilds'
  PROVE  DInv'
<1>1. KeeperOnItsPath
  BY DEF DInv
<1>2. keeper' \in {NodeAt(route), hdnode_fill_public_key(NodeAt(route))}
  BY <1>1, KeepersNode
<1>3. NodeAt(route)' = NodeAt(route)
  BY DEF NodeAt
<1>4. KeeperOnItsPath'
  BY <1>1, <1>2, <1>3 DEF KeeperOnItsPath
<1> QED BY <1>4, WatcherStays DEF DInv

LEMMA SignHolds ==
  ASSUME DInv, Sign
  PROVE  DInv'
<1>1. PICK r : r = hdnode_sign(keeper, "msg")
  OBVIOUS
<1>2. r.node \in {keeper, hdnode_fill_public_key(keeper)}
  BY <1>1 DEF hdnode_sign, Signed25519
<1>3. Idle /\ keeper' = r.node /\ answer' = [call |-> "sign", status |-> r.status, sig |-> r.sig]
      /\ UNCHANGED <<family, seedOf, route, watcher, watched>>
  BY <1>1 DEF Sign
<1> QED BY <1>2, <1>3, FillHolds, NoNewAddress

LEMMA PublishHolds ==
  ASSUME DInv, Publish
  PROVE  DInv'
<1>1. PICK n : n = NodeAt(route)
  OBVIOUS
<1>2. PICK t, r : t = hdnode_serialize_public(keeper, Parents, "public")
                  /\ r = hdnode_deserialize(t, "public", "private", family)
  OBVIOUS
<1>3. /\ Idle /\ params(keeper) /\ r.ret = 0 /\ watcher' = r.node /\ watched' = route
      /\ UNCHANGED <<family, seedOf, keeper, route, answer>> /\ KeeperOnItsPath
  BY <1>2 DEF Publish, DInv
<1>4. /\ IsBare(n) /\ n.curve = family /\ n.depth = Len(route) /\ keeper \in {n, hdnode_fill_public_key(n)}
      /\ params(n)
  BY <1>1, <1>3, KeepersNode
<1>5. Len(route) <= MaxDepth /\ n.depth < DepthMod
  <2>1. Len(route) <= MaxDepth /\ route \in Seq(ChildIndices)
    BY <1>3 DEF KeeperOnItsPath, OnPath
  <2>2. DepthMod \in Nat /\ MaxDepth \in Nat /\ MaxDepth < DepthMod
    BY DerivationAssumption, TreeAssumption
  <2> QED BY <1>4, <2>1, <2>2
<1>6. r.node = PublicPart(n)
  BY <1>2, <1>3, <1>4, <1>5, PublishedIsPublicPart
<1>7. NodeAt(watched)' = n
  BY <1>1, <1>3 DEF NodeAt
<1>8. PublicPart(NodeAt(watched))' = PublicPart(n)
  BY <1>7 DEF PublicPart, hdnode_fill_public_key, params
<1>9. OnPath(Opened(family, seedOf), family, watched)'
  <2>1. OnPath(Opened(family, seedOf), family, route)
    BY <1>3 DEF KeeperOnItsPath
  <2> QED BY <1>3, <2>1
<1>10. get_curve_by_name[family].params
  BY <1>4 DEF params
<1>11. WatcherOnItsPath'
  BY <1>3, <1>5, <1>6, <1>8, <1>9, <1>10 DEF WatcherOnItsPath
<1> QED BY <1>3, <1>11, KeeperStays, IdleCalls DEF DInv

LEMMA WatchHolds ==
  ASSUME HalvesAreNumbers, DInv, NEW i \in ChildIndices, Watch(i)
  PROVE  DInv'
<1>1. PICK root, n : root = Opened(family, seedOf) /\ n = NodeAt(watched)
  OBVIOUS
<1>2. /\ Idle /\ Len(watched) < MaxDepth /\ watcher # NoNode /\ hdnode_public_ckd(watcher, i).ok
      /\ watcher' = hdnode_public_ckd(watcher, i).node /\ watched' = Append(watched, i)
      /\ UNCHANGED <<family, seedOf, keeper, route, answer>> /\ WatcherOnItsPath /\ KeeperOnItsPath
  BY DEF Watch, DInv
<1>3. /\ get_curve_by_name[family].params /\ OnPath(root, family, watched) /\ watcher = PublicPart(n)
      /\ n = Stripped(Walked(root, watched))
  BY <1>1, <1>2 DEF WatcherOnItsPath, NodeAt, Stripped
<1>4. IsBare(n) /\ params(n) /\ i \in Nat /\ watched \in Seq(ChildIndices)
  <2>1. IsBare(n) /\ n.curve = family /\ watched \in Seq(ChildIndices)
    BY <1>3 DEF OnPath
  <2> QED BY <1>3, <2>1, DerivationAssumption DEF params
<1>5. watcher' = PublicPart(ckd(n, i).node)
  BY <1>2, <1>3, <1>4, PublicChildFollows
<1>6. ckd(n, i).ok
  <2>1. PICK c : ckd(n, i) = Made(c)
    BY <1>4, CkdIsNode
  <2> QED BY <2>1 DEF Made
<1>7. OnPath(root, family, Append(watched, i)) /\ Stripped(Walked(root, Append(watched, i))) = ckd(n, i).node
  BY <1>3, <1>6, DerivationAssumption, ChildOnPath
<1>8. NodeAt(watched)' = ckd(n, i).node
  BY <1>1, <1>2, <1>7 DEF NodeAt, Stripped
<1>9. PublicPart(NodeAt(watched))' = PublicPart(ckd(n, i).node)
  BY <1>8 DEF PublicPart, hdnode_fill_public_key, params
<1>10. Len(watched') <= MaxDepth
  BY <1>2, <1>4, DerivationAssumption
<1>11. WatcherOnItsPath'
  BY <1>1, <1>2, <1>3, <1>5, <1>7, <1>9, <1>10 DEF WatcherOnItsPath
<1> QED BY <1>2, <1>11, KeeperStays, IdleCalls DEF DInv

\* The short way to an address is the child's.
LEMMA AddressOfChild ==
  ASSUME NEW n, IsBare(n), NEW w, w = PublicPart(n), NEW i \in Nat, NEW point, point = ecdsa_read_pubkey(w.public_key),
         point # 0, NEW format \in {0, 1}, NEW size \in {0, 34, 35}, NEW r,
         r = hdnode_public_ckd_address_optimized(point, w.chain_code, i, 0, size, format, 35)
  PROVE  /\ r.ok <=> i < Hardened /\ size >= 35
         /\ r.ok => r.addr = IF format = 1 THEN RawSegwitAddress(hdnode_public_ckd(w, i).node.public_key, 0)
                             ELSE hdnode_get_address_raw(hdnode_public_ckd(w, i).node, 0)
<1>1. PICK cp : cp = hdnode_public_ckd_cp(point, w.chain_code, i)
  OBVIOUS
<1>2. Hardened \in Nat
  BY TreeAssumption
<1>3. CASE ~(i < Hardened /\ size >= 35)
  <2>1. ~(i < Hardened) => ~cp.ok
    BY <1>1, <1>2 DEF hdnode_public_ckd_cp
  <2>2. size < 35 \/ ~cp.ok
    BY <1>3, <2>1
  <2>3. r = [ok |-> FALSE]
    BY <1>1, <2>2 DEF hdnode_public_ckd_address_optimized
  <2> QED BY <1>3, <2>3
<1>4. CASE i < Hardened /\ size >= 35
  <2>1. PICK I : I = Tried(point, w.chain_code, <<Compressed(point)[1], Compressed(point)[2], i>>, i)
    OBVIOUS
  <2>2. cp = [ok |-> TRUE, point |-> (I.l + point) % Order, chain_code |-> I.r]
    <3>1. ~(i >= Hardened)
      BY <1>2, <1>4
    <3>2. PICK h : h = w.chain_code
      OBVIOUS
    <3>3. I = Tried(point, h, <<Compressed(point)[1], Compressed(point)[2], i>>, i)
      BY <2>1, <3>2
    <3>4. hdnode_public_ckd_cp(point, h, i) = [ok |-> TRUE, point |-> (I.l + point) % Order, chain_code |-> I.r]
      BY ONLY <3>1, <3>3, PublicTries
    <3> QED BY <1>1, <3>2, <3>4
  <2>3. PICK k : k = Compressed(cp.point)
    OBVIOUS
  <2>4. size # 0 /\ cp.ok /\ ~(size < 35)
    BY <1>4, <2>2
  <2>5. r = [ok |-> TRUE, addr |-> AddressOf(cp.point, 0, format)]
    BY <1>1, <2>4 DEF hdnode_public_ckd_address_optimized
  <2>6. PICK child : child = hdnode_public_ckd(w, i).node
    OBVIOUS
  <2>7. child.public_key = k
    <3>1. PICK key : w = Fields(n.curve, n.depth, n.child_num, n.chain_code, 0, n.private_key_extension, key)
      BY PublicPartFields
    <3>2. hdnode_public_ckd(w, i) = PublicChild(w, i, cp)
      BY <1>1 DEF hdnode_public_ckd
    <3>3. PICK d, h : d = w.depth + 1 /\ h = cp.chain_code
      OBVIOUS
    <3>4. child = PublicSet(w, 0, d, i, h, k)
      BY <2>2, <2>3, <2>6, <3>2, <3>3 DEF PublicChild, Made, PublicSet
    <3>5. child = Fields(n.curve, d, i, h, 0, n.private_key_extension, k)
      BY <3>1, <3>4, AfterPublic
    <3> QED BY <3>5 DEF Fields
  <2>8. hdnode_fill_public_key(child) = child
    <3>1. k[1] # 0
      BY <2>3 DEF Compressed
    <3> QED BY <2>7, <3>1 DEF hdnode_fill_public_key
  <2>9. AddressOf(cp.point, 0, format) = IF format = 1 THEN RawSegwitAddress(k, 0) ELSE RawAddress(k, 0)
    BY <2>3 DEF AddressOf
  <2>10. hdnode_get_address_raw(child, 0) = RawAddress(k, 0)
    BY <2>7, <2>8 DEF hdnode_get_address_raw
  <2> QED BY <1>4, <2>5, <2>6, <2>7, <2>9, <2>10
<1> QED BY <1>3, <1>4

LEMMA ReceiveHolds ==
  ASSUME DInv, NEW i \in ChildIndices, NEW addrformat \in {0, 1}, NEW addrsize \in {0, 34, 35},
         ReceiveAt(i, addrformat, addrsize)
  PROVE  DInv'
<1>1. PICK point, r : point = ecdsa_read_pubkey(watcher.public_key)
        /\ r = hdnode_public_ckd_address_optimized(point, watcher.chain_code, i, 0, addrsize, addrformat, 35)
  OBVIOUS
<1>2. /\ Idle /\ watcher # NoNode /\ point # 0
      /\ answer' = [call |-> "receive", i |-> i, format |-> addrformat, size |-> addrsize, result |-> r]
      /\ UNCHANGED <<family, seedOf, keeper, route, watcher, watched>> /\ WatcherOnItsPath /\ KeeperOnItsPath
  BY <1>1 DEF ReceiveAt, DInv
<1>3. PICK n : watcher = PublicPart(n) /\ IsBare(n)
  BY <1>2 DEF WatcherOnItsPath, OnPath, NodeAt, Stripped
<1>4. i \in Nat
  BY DerivationAssumption
<1>5. /\ r.ok <=> i < Hardened /\ addrsize >= 35
      /\ r.ok => r.addr = IF addrformat = 1 THEN RawSegwitAddress(hdnode_public_ckd(watcher, i).node.public_key, 0)
                          ELSE hdnode_get_address_raw(hdnode_public_ckd(watcher, i).node, 0)
  BY <1>1, <1>2, <1>3, <1>4, AddressOfChild
<1>6. r.ok \in BOOLEAN
  BY <1>1 DEF hdnode_public_ckd_address_optimized
<1>7. AddressIsChilds'
  BY <1>2, <1>5, <1>6 DEF AddressIsChilds
<1> QED BY <1>2, <1>7, KeeperStays, WatcherStays DEF DInv

LEMMA InOneGoHolds ==
  ASSUME HalvesAreNumbers, DInv, NEW path \in Paths, InOneGo(path)
  PROVE  DInv'
<1>1. PICK root, n, r : /\ root = Opened(family, seedOf) /\ n = NodeAt(route)
                        /\ r = hdnode_private_ckd_cached(keeper, path)
  OBVIOUS
<1>2. /\ Idle /\ family # "cardano" /\ Len(route) + Len(path) <= MaxDepth
      /\ answer' = [call |-> "path", from |-> route, path |-> path, result |-> r]
      /\ keeper' = r.node /\ route' = route \o SubSeq(path, 1, r.node.depth - keeper.depth)
      /\ UNCHANGED <<family, seedOf, watcher, watched>> /\ KeeperOnItsPath
  BY <1>1 DEF InOneGo, DInv
<1>3. /\ OnPath(root, family, route) /\ IsBare(n) /\ n.curve = family /\ n.depth = Len(route)
      /\ keeper \in {n, hdnode_fill_public_key(n)} /\ n = Stripped(Walked(root, route))
      /\ keeper.depth = Len(route)
  BY <1>1, <1>2, KeepersNode DEF KeeperOnItsPath
<1>4. n = Walked(root, route) /\ route \in Seq(ChildIndices)
  BY <1>2, <1>3 DEF OnPath
<1>5. path \in Seq(ChildIndices) /\ ChildIndices \subseteq Nat
  BY DerivationAssumption
<1>6. PICK j \in 0..Len(path) : Reaches(r, root, route, n, path, j, Len(path))
  BY <1>1, <1>2, <1>3, <1>4, <1>5, CachedIsWalked
<1>7. PICK q, w : q = route \o SubSeq(path, 1, j) /\ w = Walked(root, q)
  OBVIOUS
<1>8. IsBare(w) /\ w.curve = family /\ w.depth = Len(route) + j /\ r.node \in {w, hdnode_fill_public_key(w)}
  BY <1>3, <1>6, <1>7 DEF Reaches, At
<1>9. r.node.depth = w.depth /\ Stripped(w) = w
  BY <1>8, FilledOnce, FieldsKept
<1>10. Len(route) \in Nat /\ j \in Nat /\ Len(path) \in Nat /\ j <= Len(path) /\ MaxDepth \in Nat
  BY <1>4, <1>5, DerivationAssumption
<1>11. route' = q
  <2>1. r.node.depth - keeper.depth = j
    BY <1>3, <1>8, <1>9, <1>10
  <2> QED BY <1>2, <1>7, <2>1
<1>12. q \in Seq(ChildIndices) /\ Len(q) = Len(route) + j
  BY <1>4, <1>5, <1>7, <1>10
<1>13. OnPath(root, family, q)
  BY <1>7, <1>8, <1>9, <1>12 DEF OnPath
<1>14. NodeAt(route)' = w
  BY <1>1, <1>2, <1>7, <1>9, <1>11 DEF NodeAt, Stripped
<1>15. Len(q) <= MaxDepth
  BY <1>2, <1>10, <1>12
<1>16. KeeperOnItsPath'
  BY <1>1, <1>2, <1>8, <1>11, <1>13, <1>14, <1>15 DEF KeeperOnItsPath
<1>17. answer'.call # "receive"
  BY <1>2
<1> QED BY <1>2, <1>16, <1>17, WatcherStays, NoNewAddress DEF DInv

\* What a reader gets from a text of one of the networks, if anything.
LEMMA ReadGives ==
  ASSUME NEW t, NEW vpub, NEW vpriv, NEW name, NEW r, r = hdnode_deserialize(t, vpub, vpriv, name)
  PROVE  /\ r.ret = 0 =>
              /\ KnownCurve(name) /\ t.version \in {vpub, vpriv} /\ ~KeyRefused(t, name, t.version # vpub)
              /\ r.node = ReadNode(t, name, t.version # vpub) /\ r.fingerprint = t.fingerprint
         /\ KnownCurve(name) /\ t.hasher = get_curve_by_name[name].hasher_base58 /\ t.version \in {vpub, vpriv} =>
              (r.ret # 0 <=> KeyRefused(t, name, t.version # vpub))
<1>1. PICK node, refused : node = ReadNode(t, name, t.version # vpub) /\ refused = KeyRefused(t, name, t.version # vpub)
  OBVIOUS
<1>2. r = IF ~KnownCurve(name) THEN [ret |-> -4]
          ELSE IF t.hasher # get_curve_by_name[name].hasher_base58 THEN [ret |-> -1]
          ELSE IF t.version \notin {vpub, vpriv} THEN [ret |-> -3]
          ELSE IF refused THEN [ret |-> -2]
          ELSE [ret |-> 0, node |-> node, fingerprint |-> t.fingerprint]
  BY <1>1, Zenon DEF hdnode_deserialize
<1>3. [ret |-> -4].ret # 0 /\ [ret |-> -1].ret # 0 /\ [ret |-> -3].ret # 0 /\ [ret |-> -2].ret # 0
  OBVIOUS
<1>4. PICK ok : ok = [ret |-> 0, node |-> node, fingerprint |-> t.fingerprint]
  OBVIOUS
<1>5. ok.ret = 0 /\ ok.node = node /\ ok.fingerprint = t.fingerprint
  BY <1>4
<1>6. CASE ~KnownCurve(name)
  BY <1>2, <1>3, <1>6
<1>7. CASE KnownCurve(name) /\ t.hasher # get_curve_by_name[name].hasher_base58
  BY <1>2, <1>3, <1>7
<1>8. CASE KnownCurve(name) /\ t.hasher = get_curve_by_name[name].hasher_base58 /\ t.version \notin {vpub, vpriv}
  BY <1>2, <1>3, <1>8
<1>9. CASE KnownCurve(name) /\ t.hasher = get_curve_by_name[name].hasher_base58 /\ t.version \in {vpub, vpriv} /\ refused
  BY <1>1, <1>2, <1>3, <1>9
<1>10. CASE KnownCurve(name) /\ t.hasher = get_curve_by_name[name].hasher_base58 /\ t.version \in {vpub, vpriv} /\ ~refused
  <2>1. r = ok
    BY <1>2, <1>4, <1>10
  <2> QED BY <1>1, <1>5, <1>10, <2>1
<1> QED BY <1>6, <1>7, <1>8, <1>9, <1>10

\* What a text's reader has read.
LEMMA ReadNodeFields ==
  ASSUME NEW t, NEW name, NEW private \in BOOLEAN, NEW c, c = ReadNode(t, name, private)
  PROVE  /\ c.curve = name /\ c.depth = t.depth /\ c.child_num = t.child_num /\ c.chain_code = t.chain_code
         /\ c.private_key = IF private THEN t.key[2] ELSE 0
         /\ c.public_key = IF private THEN NoPublic ELSE t.key
         /\ c = Fields(name, c.depth, c.child_num, c.chain_code, c.private_key, 0, c.public_key)
<1>1. PICK d, i, h, p, k : /\ d = t.depth /\ i = t.child_num /\ h = t.chain_code
                           /\ p = (IF private THEN t.key[2] ELSE 0) /\ k = IF private THEN NoPublic ELSE t.key
  OBVIOUS
<1>2. c = ReadSet(NoNode, name, d, i, h, p, k)
  BY <1>1, Zenon DEF ReadNode, ReadSet
<1>3. NoNode = Fields("none", 0, 0, 0, 0, 0, NoPublic)
  BY DEF NoNode, Fields
<1>4. c = Fields(name, d, i, h, p, 0, k)
  BY <1>2, <1>3, AfterReading
<1>5. /\ c.curve = name /\ c.depth = d /\ c.child_num = i /\ c.chain_code = h
      /\ c.private_key = p /\ c.public_key = k
  BY <1>4 DEF Fields
<1> QED BY <1>1, <1>4, <1>5

\* The keeper's private text gives the node at its path.
LEMMA RestoreHolds ==
  ASSUME DInv, Restore
  PROVE  DInv'
<1>1. PICK n, t, r : /\ n = NodeAt(route) /\ t = hdnode_serialize_private(keeper, Parents, "private")
                     /\ r = hdnode_deserialize(t, "public", "private", family)
  OBVIOUS
<1>2. /\ Idle /\ family # "cardano" /\ r.ret = 0 /\ keeper' = r.node
      /\ UNCHANGED <<family, seedOf, route, watcher, watched, answer>> /\ KeeperOnItsPath
  BY <1>1 DEF Restore, DInv
<1>3. /\ IsBare(n) /\ n.curve = family /\ n.depth = Len(route) /\ keeper \in {n, hdnode_fill_public_key(n)}
      /\ keeper.curve = family /\ keeper.depth = Len(route)
  BY <1>1, <1>2, KeepersNode
<1>4. /\ keeper.child_num = n.child_num /\ keeper.chain_code = n.chain_code
      /\ keeper.private_key = n.private_key
  BY <1>3, FilledOnce, FieldsKept
<1>5. keeper.depth % DepthMod = n.depth
  <2>1. Len(route) <= MaxDepth /\ route \in Seq(ChildIndices)
    BY <1>2 DEF KeeperOnItsPath, OnPath
  <2>2. DepthMod \in Nat /\ MaxDepth \in Nat /\ MaxDepth < DepthMod
    BY DerivationAssumption, TreeAssumption
  <2> QED BY <1>3, <2>1, <2>2
<1>6. /\ t.depth = n.depth /\ t.child_num = n.child_num /\ t.chain_code = n.chain_code
      /\ t.version = "private" /\ t.key = <<0, n.private_key>>
  BY <1>1, <1>4, <1>5 DEF hdnode_serialize_private, hdnode_serialize
<1>7. r.node = ReadNode(t, family, TRUE)
  <2>1. r.node = ReadNode(t, family, t.version # "public")
    BY <1>1, <1>2, ReadGives
  <2>2. (t.version # "public") = TRUE
    BY <1>6
  <2> QED BY <2>1, <2>2
<1>0. PICK private \in BOOLEAN : private = TRUE
  OBVIOUS
<1>8. PICK c : c = ReadNode(t, family, private)
  OBVIOUS
<1>9. /\ c.depth = t.depth /\ c.child_num = t.child_num /\ c.chain_code = t.chain_code
      /\ c.private_key = t.key[2] /\ c.public_key = NoPublic
      /\ c = Fields(family, c.depth, c.child_num, c.chain_code, c.private_key, 0, c.public_key)
  <2>1. /\ c.depth = t.depth /\ c.child_num = t.child_num /\ c.chain_code = t.chain_code
        /\ c.private_key = (IF private THEN t.key[2] ELSE 0)
        /\ c.public_key = (IF private THEN NoPublic ELSE t.key)
        /\ c = Fields(family, c.depth, c.child_num, c.chain_code, c.private_key, 0, c.public_key)
    BY <1>8, ReadNodeFields
  <2> QED BY <1>0, <2>1
<1>10. c = Fields(family, n.depth, n.child_num, n.chain_code, n.private_key, 0, NoPublic)
  <2>1. <<0, n.private_key>>[2] = n.private_key
    OBVIOUS
  <2>2. c.private_key = n.private_key
    BY <1>6, <1>9, <2>1
  <2> QED BY <1>6, <1>9, <2>2, Zenon
<1>11. n = Fields(family, n.depth, n.child_num, n.chain_code, n.private_key, 0, NoPublic)
  BY <1>2, <1>3 DEF IsBare, WithKey
<1>12. keeper' = NodeAt(route)
  BY <1>0, <1>1, <1>2, <1>7, <1>8, <1>10, <1>11
<1>13. AddressIsChilds'
  BY <1>2, IdleCalls
<1> QED BY <1>2, <1>12, <1>13, FillHolds

\* Calls that change no node.
LEMMA CallHolds ==
  ASSUME DInv, UNCHANGED <<family, seedOf, keeper, route, watcher, watched>>, answer'.call # "receive"
  PROVE  DInv'
BY KeeperStays, WatcherStays, NoNewAddress DEF DInv

LEMMA StutterHolds ==
  ASSUME DInv, UNCHANGED derivevars
  PROVE  DInv'
BY KeeperStays, WatcherStays DEF DInv, derivevars, AddressIsChilds

LEMMA StepHolds ==
  ASSUME HalvesAreNumbers, DInv, DeriveNext
  PROVE  DInv'
<1>1. CASE \E i \in ChildIndices : Derive(i)
  BY <1>1, DeriveHolds
<1>2. CASE \E i \in ChildIndices : Watch(i)
  BY <1>2, WatchHolds
<1>3. CASE FillPublicKey
  BY <1>3, FillHolds, IdleCalls DEF FillPublicKey
<1>4. CASE Sign
  BY <1>4, SignHolds
<1>5. CASE Publish
  BY <1>5, PublishHolds
<1>6. CASE Clear
  BY <1>6, KeeperStays, WatcherStays, IdleCalls DEF Clear, DInv
<1>7. CASE Taken
  BY <1>7, CallHolds DEF Taken, Nothing
<1>8. ASSUME NEW use_public, NEW name, NEW network, ReadText(use_public, name, network) PROVE DInv'
  BY <1>8, CallHolds DEF ReadText
<1>9. CASE \E i \in ChildIndices, addrformat \in {0, 1}, addrsize \in {0, 34, 35} : ReceiveAt(i, addrformat, addrsize)
  BY <1>9, ReceiveHolds
<1>10. CASE \E path \in Paths : InOneGo(path)
  BY <1>10, InOneGoHolds
<1>11. ASSUME NEW path, GetKey(path) PROVE DInv'
  BY <1>11, CallHolds DEF GetKey
<1>12. ASSUME NEW small, Share(small) PROVE DInv'
  BY <1>12, CallHolds DEF Share
<1>13. ASSUME NEW instead, NEW payload, SendMessage(instead, payload) PROVE DInv'
  BY <1>13, CallHolds DEF SendMessage
<1>14. CASE Restore
  BY <1>14, RestoreHolds
<1> QED BY <1>1, <1>2, <1>3, <1>4, <1>5, <1>6, <1>7, <1>8, <1>9, <1>10, <1>11, <1>12, <1>13, <1>14 DEF DeriveNext

\* The nodes of the keeper and of the watcher are those that their paths from
\* the seed lead to, for every way they went there.
THEOREM NodesOnTheirPaths ==
  ASSUME HalvesAreNumbers
  PROVE  DeriveSpec => []DInv
<1>1. DeriveInit => DInv
  BY InitHolds
<1>2. DInv /\ [DeriveNext]_derivevars => DInv'
  BY StepHolds, StutterHolds
<1> QED BY <1>1, <1>2, PTL DEF DeriveSpec

\* A watch-only wallet sees the addresses that the private keys can spend
\* from, at every depth and by both ways to an address.
THEOREM WatcherSeesSpendable ==
  ASSUME HalvesAreNumbers
  PROVE  DeriveSpec => []WatcherFollows
<1>1. DInv => WatcherFollows
  BY DEF DInv, WatcherOnItsPath, WatcherFollows, PublicFollowsPrivate
<1> QED BY <1>1, NodesOnTheirPaths, PTL


-----------------------------------------------------------------------------
(* Keys in range *)

\* Loops that ask for HMACs end: among MaxTries there is one that suits.  The
\* code's have no bound, and do not return before.
KeysAreFound ==
  /\ \A name \in DOMAIN get_curve_by_name, s \in Seeds \cup {PeerSeed} :
       get_curve_by_name[name].params => InOrder(FirstKey(name, s).l)
  /\ \A a \in 1..(Order - 1) : \A chain_code, data, i : PrivateSuits(Tried(a, chain_code, data, i), a)

\* On the ECDSA curves the key at the end of every path is in range.
LEMMA KeysInOrder ==
  ASSUME HalvesAreNumbers, KeysAreFound, ChildIndices \subseteq Nat, NEW name \in DOMAIN get_curve_by_name,
         get_curve_by_name[name].params, NEW s \in Seeds \cup {PeerSeed}, NEW root, root = Opened(name, s),
         NEW r \in Seq(ChildIndices)
  PROVE  /\ InOrder(Walked(root, r).private_key) /\ IsBare(Walked(root, r)) /\ Walked(root, r).curve = name
<1>0. PICK L \in Nat : L = Len(r)
  OBVIOUS
<1> DEFINE Good(n) == InOrder(n.private_key) /\ IsBare(n) /\ n.curve = name
           T == {k \in 0..L : Good(Walked(root, SubSeq(r, 1, k)))}
<1>1. 0 \in T
  <2>1. SubSeq(r, 1, 0) = <<>> /\ 0 \in 0..L
    OBVIOUS
  <2>2. name # "cardano" /\ KnownCurve(name)
    BY DEF get_curve_by_name, CurveInfo, KnownCurve
  <2>3. root = hdnode_from_seed(s, name).node
    BY <2>2 DEF Opened
  <2>4. root.private_key = FirstKey(name, s).l
    BY <2>2, <2>3 DEF hdnode_from_seed, Made, NoNode
  <2>5. InOrder(root.private_key)
    BY <2>4 DEF KeysAreFound
  <2>6. IsBare(root) /\ root.curve = name
    <3>1. /\ IsBare(Stripped(Opened(name, s))) /\ Stripped(Opened(name, s)).curve = name
          /\ IF name = "cardano" THEN Opened(name, s) = hdnode_fill_public_key(Stripped(Opened(name, s)))
             ELSE Opened(name, s) = Stripped(Opened(name, s))
      BY <2>2, OpenedIsNode
    <3> QED BY <2>2, <3>1
  <2>7. Walked(root, <<>>) = root
    BY RootOnPath
  <2>8. Good(Walked(root, SubSeq(r, 1, 0)))
    BY <2>1, <2>5, <2>6, <2>7
  <2> QED BY <2>1, <2>8
<1>2. ASSUME NEW k \in 0..(L - 1), k \in T PROVE k + 1 \in T
  <2>1. /\ SubSeq(r, 1, k) \in Seq(ChildIndices) /\ r[k + 1] \in ChildIndices
        /\ SubSeq(r, 1, k + 1) = Append(SubSeq(r, 1, k), r[k + 1])
    BY <1>0, Prefix
  <2>2. PICK q \in Seq(ChildIndices), i \in ChildIndices : q = SubSeq(r, 1, k) /\ i = r[k + 1]
    BY <2>1
  <2>3. PICK n : n = Walked(root, q)
    OBVIOUS
  <2>4. InOrder(n.private_key) /\ IsBare(n) /\ n.curve = name
    BY <1>2, <2>2, <2>3
  <2>5. i \in Nat /\ params(n) /\ n.curve # "cardano"
    <3>1. n.curve # "cardano"
      BY <2>4 DEF get_curve_by_name, CurveInfo
    <3> QED BY <2>4, <3>1 DEF params
  <2>6. PICK I \in Halved :
          /\ hdnode_private_ckd(n, i) = Made(ChildOf(n, i, I))
          /\ I = Tried(n.private_key, n.chain_code,
                       ParentData(IF i < Hardened THEN hdnode_fill_public_key(n) ELSE n, i), i)
    BY <2>4, <2>5, PrivateCkdIsNode
  <2>7. PICK c : c = ChildOf(n, i, I)
    OBVIOUS
  <2>8. IsBare(c) /\ c.curve = n.curve /\ c.private_key = (I.l + n.private_key) % Order
    BY <2>4, <2>5, <2>7, ChildOfIsBare
  <2>9. InOrder(c.private_key)
    <3>1. (I.l + n.private_key) % Order # 0
      <4>1. n.private_key \in 1..(Order - 1)
        BY <2>4, <2>5, OrderAssumption DEF InOrder, IsBare
      <4> QED BY <2>6, <4>1 DEF KeysAreFound, PrivateSuits
    <3>2. I.l \in Nat /\ n.private_key \in Nat /\ Order \in Nat /\ Order # 0
      BY <2>4, <2>5, OrderAssumption DEF Halved, IsBare
    <3>3. (I.l + n.private_key) % Order < Order
      BY <3>2
    <3> QED BY <2>8, <3>1, <3>3 DEF InOrder
  <2>10. Walked(root, Append(q, i)) = c
    <3>1. Walked(root, Append(q, i)) = ckd(Walked(root, q), i).node
      <4>1. q \in Seq(ChildIndices) /\ i \in ChildIndices
        OBVIOUS
      <4> QED BY ONLY <4>1, WalkedStep
    <3> QED BY <2>3, <2>5, <2>6, <2>7, <3>1 DEF ckd, Made
  <2>11. Good(Walked(root, SubSeq(r, 1, k + 1))) /\ k + 1 \in 0..L
    <3>1. SubSeq(r, 1, k + 1) = Append(q, i) /\ k + 1 \in 0..L
      BY <2>1, <2>2
    <3> QED BY <2>4, <2>8, <2>9, <2>10, <3>1
  <2> QED BY <2>11
<1>3. 0..L \subseteq T
  <2> HIDE DEF T
  <2> QED BY <1>1, <1>2, AllUpTo
<1>4. L \in T /\ SubSeq(r, 1, L) = r
  BY <1>0, <1>3
<1> QED BY <1>4

\* 2^254, 2^256, 2^224 and 255 generations are so.
CardanoRoom ==
  /\ CardanoTop % 16 = 0 /\ WordRange = 4 * CardanoTop
  /\ MaxDepth * (8 * ZlWords) <= CardanoTop \div 2 /\ 8 * ZlWords <= CardanoTop

\* One child more adds at most 2^227 to the left half.
LEMMA CardanoLeftGrows ==
  ASSUME CardanoRoom, NEW z \in Nat, NEW a \in Nat, a % 8 = 0, a >= CardanoTop, a <= 2 * CardanoTop
  PROVE  /\ CardanoLeft(z, a) % 8 = 0 /\ CardanoLeft(z, a) \in Nat
         /\ CardanoLeft(z, a) >= a /\ CardanoLeft(z, a) <= a + 8 * ZlWords
<1>1. ZlWords \in Nat /\ ZlWords # 0 /\ WordRange \in Nat /\ CardanoTop \in Nat /\ CardanoTop # 0
  BY TreeAssumption
<1>2. PICK y \in Nat : y = z % ZlWords /\ y < ZlWords
  BY <1>1
<1>3. 8 * y < WordRange /\ 8 * y \in Nat
  BY <1>1, <1>2 DEF CardanoRoom
<1>4. scalar_multiply8(z) = 8 * y
  BY <1>1, <1>2, <1>3 DEF scalar_multiply8
<1>5. 8 * y + a < WordRange
  BY <1>1, <1>2 DEF CardanoRoom
<1>6. CardanoLeft(z, a) = 8 * y + a
  BY <1>1, <1>3, <1>4, <1>5 DEF CardanoLeft, scalar_add_256bits
<1>7. (8 * y + a) % 8 = 0
  BY <1>2
<1> QED BY <1>1, <1>2, <1>6, <1>7


\* Multiples of eight modulo one of them.
LEMMA EightsMod ==
  ASSUME NEW l \in Nat, l % 8 = 0, NEW h \in Nat, h # 0, h % 8 = 0
  PROVE  l % h \in Nat /\ l % h < h /\ (l % h) % 8 = 0
<1>1. l % h \in Nat /\ l % h < h
  OBVIOUS
<1>2. PICK q \in Nat, e \in Nat : l = h * q + e /\ e = l % h
  <2>1. l \div h \in Nat /\ l = h * (l \div h) + (l % h)
    OBVIOUS
  <2> QED BY <1>1, <2>1
<1>3. PICK m \in Nat : h = 8 * m
  <2>1. h = 8 * (h \div 8) /\ h \div 8 \in Nat
    OBVIOUS
  <2> QED BY <2>1
<1>4. PICK u \in Nat : u = m * q /\ h * q = 8 * u
  <2>1. m * q \in Nat /\ h * q = 8 * (m * q)
    BY <1>3
  <2> QED BY <2>1
<1>5. PICK v \in Nat : l = 8 * v
  <2>1. l = 8 * (l \div 8) /\ l \div 8 \in Nat
    OBVIOUS
  <2> QED BY <2>1
<1>6. e = 8 * (v - u) /\ v - u \in Int
  BY ONLY <1>2, <1>4, <1>5
<1>7. PICK x \in Int : e = 8 * x
  BY <1>6
<1>8. e % 8 = 0
  BY ONLY <1>7
<1> QED BY <1>1, <1>2, <1>8


\* Below a Cardano root the left halves are scalars of the curve.
LEMMA CardanoInRange ==
  ASSUME HalvesAreNumbers, CardanoRoom, ChildIndices \subseteq Nat, NEW s \in Seeds, NEW root,
         root = Opened("cardano", s), NEW r \in Seq(ChildIndices), Len(r) <= MaxDepth
  PROVE  /\ Walked(root, r).private_key % 8 = 0
         /\ Walked(root, r).private_key \in CardanoTop..(2 * CardanoTop - 1)
<1>0. PICK L \in Nat : L = Len(r) /\ L <= MaxDepth
  OBVIOUS
<1>1. PICK half \in Nat, c \in Nat : /\ half = CardanoTop \div 2 /\ c = 8 * ZlWords /\ CardanoTop = 2 * half
                                     /\ half % 8 = 0 /\ half # 0 /\ MaxDepth * c <= half /\ c <= CardanoTop
                                     /\ CardanoTop \in Nat /\ MaxDepth \in Nat
  <2>1. CardanoTop \in Nat /\ CardanoTop # 0 /\ ZlWords \in Nat /\ CardanoTop % 16 = 0 /\ MaxDepth \in Nat
    BY TreeAssumption, DerivationAssumption DEF CardanoRoom
  <2>2. CardanoTop = 2 * (CardanoTop \div 2) /\ (CardanoTop \div 2) % 8 = 0 /\ CardanoTop \div 2 \in Nat
        /\ CardanoTop \div 2 # 0
    BY <2>1
  <2> QED BY <2>1, <2>2 DEF CardanoRoom
<1>1a. CardanoTop \in Nat /\ half \in Nat /\ half # 0 /\ c \in Nat /\ CardanoTop = 2 * half
  BY <1>1
<1> DEFINE Good(n, k) == /\ IsBare(n) /\ n.curve = "cardano" /\ n.private_key \in Nat /\ n.private_key % 8 = 0
                         /\ n.private_key >= CardanoTop /\ n.private_key <= CardanoTop + (half - 1) + k * c
           Ends(w, k) == \E n : Good(n, k) /\ w \in {n, hdnode_fill_public_key(n)}
           T == {k \in 0..L : Ends(Walked(root, SubSeq(r, 1, k)), k)}
<1>2. 0 \in T
  <2>1. SubSeq(r, 1, 0) = <<>> /\ 0 \in 0..L
    OBVIOUS
  <2>2. PICK secret \in Nat \X Nat \X Nat : secret = Secret[s]
    BY DerivationAssumption
  <2>3. PICK l \in Nat : l = (secret[1] \div 8) * 8 /\ l % 8 = 0
    <3>1. secret[1] \in Nat
      OBVIOUS
    <3> QED BY <3>1
  <2>4. PICK a \in Nat : a = CardanoTop + (l % half) /\ a % 8 = 0 /\ a >= CardanoTop /\ a <= CardanoTop + (half - 1)
    <3>1. half \in Nat /\ half # 0 /\ half % 8 = 0
      BY <1>1
    <3>2. l % half \in Nat /\ l % half < half /\ (l % half) % 8 = 0
      BY ONLY <2>3, <3>1, EightsMod
    <3>3. PICK e \in Nat : e = l % half /\ e < half /\ e % 8 = 0
      BY <3>2
    <3>4. (CardanoTop + e) % 8 = 0 /\ CardanoTop + e <= CardanoTop + (half - 1) /\ CardanoTop + e \in Nat
          /\ CardanoTop + e >= CardanoTop
      <4>1. half % 8 = 0 /\ e \in Nat /\ e < half /\ e % 8 = 0
        BY <1>1, <3>3
      <4> QED BY ONLY <1>1a, <4>1
    <3> QED BY <3>3, <3>4
  <2>5. PICK n : n = [NoNode EXCEPT !.curve = "cardano", !.private_key = a,
                                    !.private_key_extension = secret[2], !.chain_code = secret[3]]
    OBVIOUS
  <2>6. root = hdnode_fill_public_key(n)
    BY <1>1, <2>2, <2>3, <2>4, <2>5 DEF Opened, hdnode_from_seed_cardano, Made
  <2>7. n = [curve |-> "cardano", depth |-> 0, child_num |-> 0, chain_code |-> secret[3], private_key |-> a,
             private_key_extension |-> secret[2], public_key |-> NoPublic]
    BY <2>5 DEF NoNode
  <2>8. ~params(n) /\ KnownCurve(n.curve) /\ n.depth \in Nat
    BY <2>7 DEF params, get_curve_by_name, CurveInfo, KnownCurve
  <2>9. IsBare(n)
    BY <2>7, <2>8 DEF IsBare, WithKey, Fields
  <2>10. Good(n, 0)
    BY <1>1, <2>4, <2>7, <2>9
  <2>11. Walked(root, <<>>) = root
    <3>1. "cardano" \in DOMAIN get_curve_by_name
      BY DEF get_curve_by_name
    <3> QED BY <3>1, RootOnPath
  <2> HIDE DEF Good
  <2> QED BY <2>1, <2>6, <2>10, <2>11
<1>3. ASSUME NEW k \in 0..(L - 1), k \in T PROVE k + 1 \in T
  <2>1. /\ SubSeq(r, 1, k) \in Seq(ChildIndices) /\ r[k + 1] \in ChildIndices
        /\ SubSeq(r, 1, k + 1) = Append(SubSeq(r, 1, k), r[k + 1])
    BY <1>0, Prefix
  <2>2. PICK q \in Seq(ChildIndices), i \in ChildIndices : q = SubSeq(r, 1, k) /\ i = r[k + 1]
    BY <2>1
  <2>3. i \in Nat
    OBVIOUS
  <2>4. PICK n : Good(n, k) /\ Walked(root, q) \in {n, hdnode_fill_public_key(n)}
    BY <1>3, <2>2
  <2>5. ckd(Walked(root, q), i) = ckd(n, i)
    BY <2>3, <2>4, CkdIsNode
  <2>6. PICK z, next :
          /\ z = Hmac(n.chain_code, CardanoData(IF i >= Hardened THEN n ELSE hdnode_fill_public_key(n), i, 0))
          /\ next = Hmac(n.chain_code, CardanoData(IF i >= Hardened THEN n ELSE hdnode_fill_public_key(n), i, 1))
    OBVIOUS
  <2>7. ckd(n, i) = Made(CardanoChild(n, i, z, next))
    BY <2>4, <2>6 DEF ckd, hdnode_private_ckd_cardano
  <2>8. PICK m : m = CardanoChild(n, i, z, next)
    OBVIOUS
  <2>9. IsBare(m) /\ m.curve = "cardano" /\ m.private_key = CardanoLeft(z.l, n.private_key)
    BY <2>4, <2>8, CardanoChildIsBare
  <2>10. z.l \in Nat
    BY <2>6 DEF HalvesAreNumbers, Halved
  <2>11. PICK u \in Nat : u = k * c /\ u <= half /\ (k + 1) * c = u + c
    <3>1. k \in Nat /\ k <= MaxDepth
      BY <1>0, <1>1
    <3>2. k * c <= MaxDepth * c
      BY <1>1, <3>1
    <3> QED BY <1>1, <3>1, <3>2
  <2>12. PICK a \in Nat : a = n.private_key /\ a % 8 = 0 /\ a >= CardanoTop /\ a <= CardanoTop + (half - 1) + u
    BY <2>4, <2>11
  <2>13. a <= 2 * CardanoTop
    <3>1. a \in Nat /\ u \in Nat /\ u <= half /\ a <= CardanoTop + (half - 1) + u
      BY <2>11, <2>12
    <3> QED BY ONLY <1>1a, <3>1
  <2>14. PICK d \in Nat : d = m.private_key /\ d % 8 = 0 /\ d >= a /\ d <= a + c
    BY <1>1, <2>9, <2>10, <2>12, <2>13, CardanoLeftGrows
  <2>15. d >= CardanoTop /\ d <= CardanoTop + (half - 1) + (k + 1) * c
    <3>1. d <= CardanoTop + (half - 1) + (u + c)
      <4>1. /\ a \in Nat /\ u \in Nat /\ d \in Nat /\ a <= CardanoTop + (half - 1) + u /\ d <= a + c
        BY <2>12, <2>14
      <4> QED BY ONLY <1>1a, <4>1
    <3>2. d >= CardanoTop
      <4>1. a \in Nat /\ d \in Nat /\ a >= CardanoTop /\ d >= a
        BY <2>12, <2>14
      <4> QED BY ONLY <1>1a, <4>1
    <3> QED BY <2>11, <3>1, <3>2
  <2>16. Good(m, k + 1)
    BY <2>9, <2>14, <2>15
  <2>17. Walked(root, Append(q, i)) = m
    <3>1. Walked(root, Append(q, i)) = ckd(Walked(root, q), i).node
      <4>1. q \in Seq(ChildIndices) /\ i \in ChildIndices
        OBVIOUS
      <4> QED BY ONLY <4>1, WalkedStep
    <3> QED BY <2>5, <2>7, <2>8, <3>1 DEF Made
  <2>18. SubSeq(r, 1, k + 1) = Append(q, i) /\ k + 1 \in 0..L
    BY <2>1, <2>2
  <2> HIDE DEF Good
  <2> QED BY <2>16, <2>17, <2>18
<1>4. 0..L \subseteq T
  <2> HIDE DEF T
  <2> QED BY <1>2, <1>3, AllUpTo
<1>5. L \in T /\ SubSeq(r, 1, L) = r
  <2>1. L \in 0..L /\ SubSeq(r, 1, L) = r
    BY <1>0
  <2> HIDE DEF T
  <2> QED BY <1>4, <2>1
<1>6. PICK n : Good(n, L) /\ Walked(root, r) \in {n, hdnode_fill_public_key(n)}
  BY <1>5
<1>7. hdnode_fill_public_key(n).private_key = n.private_key
  BY <1>6, FilledOnce, FieldsKept
<1>8. PICK u \in Nat : u = L * c /\ u <= half
  <2>1. L * c <= MaxDepth * c
    BY <1>0, <1>1
  <2> QED BY <1>0, <1>1, <2>1
<1>9. Walked(root, r).private_key = n.private_key
  BY <1>6, <1>7
<1>10. PICK a \in Nat : a = n.private_key /\ a % 8 = 0 /\ a >= CardanoTop /\ a <= CardanoTop + (half - 1) + u
  BY <1>6, <1>8
<1>11. a <= 2 * CardanoTop - 1
  <2>1. a \in Nat /\ u \in Nat /\ u <= half /\ a <= CardanoTop + (half - 1) + u
    BY <1>8, <1>10
  <2> QED BY ONLY <1>1a, <2>1
<1>12. a \in CardanoTop..(2 * CardanoTop - 1)
  <2>1. a \in Nat /\ a >= CardanoTop
    BY <1>10
  <2> QED BY ONLY <1>1a, <1>11, <2>1
<1> QED BY <1>9, <1>10, <1>12

\* On an ECDSA curve the key in hand is in range.
LEMMA KeeperInOrder ==
  ASSUME HalvesAreNumbers, KeysAreFound, KeeperOnItsPath, params(keeper)
  PROVE  InOrder(NodeAt(route).private_key)
<1>1. PICK root, n : root = Opened(family, seedOf) /\ n = NodeAt(route)
  OBVIOUS
<1>2. /\ family \in DOMAIN get_curve_by_name /\ seedOf \in Seeds /\ route \in Seq(ChildIndices)
      /\ ChildIndices \subseteq Nat
  BY DerivationAssumption DEF KeeperOnItsPath, OnPath
<1>3. params(keeper) = params(n) /\ n.curve = family /\ n = Stripped(Walked(root, route))
  BY <1>1, KeepersNode
<1>4. get_curve_by_name[family].params
  BY <1>3 DEF params
<1>5. InOrder(Walked(root, route).private_key) /\ IsBare(Walked(root, route))
  BY <1>1, <1>2, <1>4, KeysInOrder
<1> QED BY <1>1, <1>3, <1>5, FilledOnce

-----------------------------------------------------------------------------
(* What the calls return *)

\* What is said of the node in hand holds whatever was called.
LEMMA KeeperIsRight ==
  ASSUME HalvesAreNumbers, KeysAreFound, CardanoRoom, KeeperOnItsPath
  PROVE  /\ [keeper EXCEPT !.public_key = NoPublic] = NodeAt(route)
         /\ keeper.public_key # NoPublic =>
              keeper.public_key = hdnode_fill_public_key([keeper EXCEPT !.public_key = NoPublic]).public_key
         /\ params(keeper) => InOrder(keeper.private_key) /\ InOrder(NodeAt(route).private_key)
         /\ family # "cardano" => keeper.private_key_extension = 0
         /\ CardanoKeysAreScalars
<1>1. PICK root, n : root = Opened(family, seedOf) /\ n = NodeAt(route)
  OBVIOUS
<1>2. /\ family \in DOMAIN get_curve_by_name /\ seedOf \in Seeds /\ OnPath(root, family, route)
      /\ Len(route) <= MaxDepth /\ route \in Seq(ChildIndices) /\ ChildIndices \subseteq Nat
  BY <1>1, DerivationAssumption DEF KeeperOnItsPath, OnPath
<1>3. /\ IsBare(n) /\ n.curve = family /\ keeper \in {n, hdnode_fill_public_key(n)}
      /\ params(keeper) = params(n) /\ keeper.private_key = n.private_key /\ n = Stripped(Walked(root, route))
      /\ family # "cardano" => keeper.private_key_extension = 0
  BY <1>1, KeepersNode DEF IsBare
<1>4. Stripped(keeper) = n
  BY <1>3, FilledOnce
<1>5. n.public_key = NoPublic
  BY <1>3, FieldsKept DEF IsBare
<1>6. keeper.public_key # NoPublic => keeper.public_key = hdnode_fill_public_key(n).public_key
  BY <1>3, <1>5
<1>7. params(keeper) => InOrder(n.private_key)
  BY <1>1, KeeperInOrder
<1>8. CardanoKeysAreScalars
  <2> SUFFICES ASSUME family = "cardano"
               PROVE  keeper.private_key % 8 = 0 /\ keeper.private_key \in CardanoTop..(2 * CardanoTop - 1)
    BY DEF CardanoKeysAreScalars
  <2>1. PICK w : w = Walked(root, route)
    OBVIOUS
  <2>2. w.private_key % 8 = 0 /\ w.private_key \in CardanoTop..(2 * CardanoTop - 1)
    BY <1>1, <1>2, <2>1, CardanoInRange
  <2>3. w \in {n, hdnode_fill_public_key(n)}
    BY <1>2, <1>3, <2>1 DEF OnPath
  <2>4. hdnode_fill_public_key(n).private_key = n.private_key
    BY <1>3, FilledOnce, FieldsKept
  <2> QED BY <1>3, <2>2, <2>3, <2>4
<1> QED BY <1>1, <1>3, <1>4, <1>6, <1>7, <1>8 DEF Stripped

SignatureRight ==
  answer.call = "sign" =>
    IF family \in {"cardano", "curve25519"} THEN answer.status = 1 /\ answer.sig = NoSignature
    ELSE answer.status = 0 /\ (~params(keeper) => answer.sig[3] = <<1, Of25519(keeper)>>)

\* A signature is made with the two keys of one pair, or refused and cleared.
LEMMA SignIsRight ==
  ASSUME KeeperOnItsPath, Sign
  PROVE  SignatureRight'
<1>1. PICK n, r : n = NodeAt(route) /\ r = hdnode_sign(keeper, "msg")
  OBVIOUS
<1>2. /\ IsBare(n) /\ n.curve = family /\ keeper \in {n, hdnode_fill_public_key(n)}
      /\ keeper.curve = family /\ params(keeper) = params(n) /\ keeper.private_key = n.private_key
      /\ keeper.private_key_extension = n.private_key_extension
      /\ hdnode_fill_public_key(keeper) = hdnode_fill_public_key(n) /\ family \in DOMAIN get_curve_by_name
  BY <1>1, KeepersNode DEF KeeperOnItsPath
<1>3. /\ answer' = [call |-> "sign", status |-> r.status, sig |-> r.sig] /\ keeper' = r.node
      /\ family' = family
  BY <1>1 DEF Sign
<1>4. CASE params(keeper)
  <2>1. r = [status |-> 0, sig |-> <<"ecdsa", keeper.private_key, "msg">>, node |-> keeper]
    BY <1>1, <1>4 DEF hdnode_sign
  <2>2. family \notin {"cardano", "curve25519"}
    <3>1. get_curve_by_name[family].params
      BY <1>2, <1>4 DEF params
    <3> QED BY <3>1 DEF get_curve_by_name, CurveInfo
  <2>3. params(keeper)'
    BY <1>3, <1>4, <2>1 DEF params
  <2> QED BY <1>3, <2>1, <2>2, <2>3 DEF SignatureRight
<1>5. CASE ~params(keeper) /\ family \in {"ed25519", "keccak"}
  <2>1. PICK m : m = hdnode_fill_public_key(n)
    OBVIOUS
  <2>2. r = [status |-> 0, sig |-> <<m.curve, m.private_key, m.public_key, "msg">>, node |-> m]
    BY <1>1, <1>2, <1>5, <2>1 DEF hdnode_sign, Signed25519
  <2>3. m.public_key = <<1, Of25519(n)>>
    <3>1. m.public_key = KeyOf(n)
      BY <1>2, <2>1, FilledOnce, FieldsKept
    <3> QED BY <1>2, <1>5, <3>1 DEF KeyOf
  <2>4. Of25519(m) = Of25519(n)
    BY <1>2, <2>1, FilledOnce, FieldsKept DEF Of25519
  <2>5. r.sig[3] = m.public_key /\ r.node = m /\ r.status = 0
    BY <2>2
  <2>6. Of25519(keeper)' = Of25519(m)
    BY <1>3, <2>5 DEF Of25519
  <2>7. answer'.status = 0 /\ answer'.sig[3] = <<1, Of25519(keeper)'>>
    BY <1>3, <2>3, <2>4, <2>5, <2>6
  <2> QED BY <1>3, <1>5, <2>7 DEF SignatureRight
<1>6. CASE ~params(keeper) /\ family \notin {"ed25519", "keccak"}
  <2>1. family \in {"cardano", "curve25519"}
    <3>1. ~get_curve_by_name[family].params
      BY <1>2, <1>6 DEF params
    <3> QED BY <1>2, <1>6, <3>1 DEF get_curve_by_name, CurveInfo
  <2>2. r = [status |-> 1, sig |-> NoSignature, node |-> keeper]
    BY <1>1, <1>2, <1>6 DEF hdnode_sign
  <2> QED BY <1>3, <2>1, <2>2 DEF SignatureRight
<1> QED BY <1>4, <1>5, <1>6

\* A point in range can be read.
LEMMA CompressedReads ==
  ASSUME NEW a \in Nat, InOrder(a)
  PROVE  ecdsa_read_pubkey(Compressed(a)) = a /\ Compressed(a) # NoPublic
<1>1. PICK half \in Nat : half = Order \div 2 /\ Order = 2 * half + 1 /\ Order \in Nat
  BY OrderAssumption
<1>2. CASE a <= half
  <2>1. Compressed(a) = <<2, a>>
    BY <1>1, <1>2 DEF Compressed
  <2>2. a \in 1..half
    BY <1>2 DEF InOrder
  <2> QED BY <1>1, <2>1, <2>2 DEF ecdsa_read_pubkey, NoPublic, InOrder
<1>3. CASE ~(a <= half)
  <2>1. Compressed(a) = <<3, Order - a>>
    BY <1>1, <1>3 DEF Compressed
  <2>2. Order - a \in 1..half /\ Order - (Order - a) = a
    BY <1>1, <1>3 DEF InOrder
  <2> QED BY <1>1, <2>1, <2>2 DEF ecdsa_read_pubkey, NoPublic, InOrder
<1> QED BY <1>2, <1>3

\* The keys of a node as a text has them.
LEMMA TextKeys ==
  ASSUME NEW n, IsBare(n), params(n) => InOrder(n.private_key), NEW node, node \in {n, hdnode_fill_public_key(n)},
         NEW t, NEW name, NEW private \in BOOLEAN,
         t.key = IF private THEN <<0, node.private_key>> ELSE node.public_key
  PROVE  /\ ~private /\ ~KeyRefused(t, name, FALSE) => t.key = hdnode_fill_public_key(node).public_key
         /\ private /\ name = n.curve => ~KeyRefused(t, name, TRUE)
         /\ ~private /\ name = n.curve => (KeyRefused(t, name, FALSE) <=> t.key = NoPublic)
<1>1. PICK m : m = hdnode_fill_public_key(n)
  OBVIOUS
<1>2. hdnode_fill_public_key(node) = m /\ node.private_key = n.private_key /\ m.public_key = KeyOf(n)
      /\ n.public_key = NoPublic
  BY <1>1, FilledOnce, FieldsKept DEF IsBare
<1>3. t.key = NoPublic => KeyRefused(t, name, FALSE)
  <2>1. NoPublic[1] = 0 /\ ecdsa_read_pubkey(NoPublic) = 0
    BY DEF NoPublic, ecdsa_read_pubkey
  <2> QED BY <2>1 DEF KeyRefused
<1>4. ASSUME private, name = n.curve PROVE ~KeyRefused(t, name, TRUE)
  <2>1. t.key[1] = 0 /\ t.key[2] = n.private_key
    BY <1>2, <1>4
  <2>2. get_curve_by_name[name].params => InOrder(n.private_key)
    BY <1>4 DEF params
  <2> QED BY <2>1, <2>2 DEF KeyRefused
<1>5. ASSUME ~private, name = n.curve, t.key # NoPublic PROVE ~KeyRefused(t, name, FALSE)
  <2>1. t.key = KeyOf(n)
    BY <1>1, <1>2, <1>5
  <2>2. CASE params(n)
    <3>1. n.private_key \in Nat /\ KeyOf(n) = Compressed(n.private_key)
      BY <2>2 DEF IsBare, KeyOf
    <3>2. ecdsa_read_pubkey(t.key) # 0
      BY <2>1, <2>2, <3>1, CompressedReads DEF InOrder
    <3>3. get_curve_by_name[name].params
      BY <1>5, <2>2 DEF params
    <3> QED BY <3>2, <3>3 DEF KeyRefused
  <2>3. CASE ~params(n)
    <3>1. t.key[1] = 1
      BY <2>1, <2>3 DEF KeyOf
    <3>2. ~get_curve_by_name[name].params
      BY <1>5, <2>3 DEF params
    <3> QED BY <3>1, <3>2 DEF KeyRefused
  <2> QED BY <2>2, <2>3
<1>6. CASE private
  <2>1. private = TRUE
    BY <1>6
  <2> QED BY <1>4, <1>6, <2>1
<1>7. CASE ~private
  <2>1. private = FALSE
    BY <1>7
  <2>2. t.key \in {NoPublic, m.public_key}
    BY <1>1, <1>2, <1>7
  <2> QED BY <1>2, <1>3, <1>5, <1>7, <2>1, <2>2
<1> QED BY <1>6, <1>7

\* The node of which a text tells all but the extension.
LEMMA ToldFields ==
  ASSUME NEW n, IsBare(n), NEW node, node \in {n, hdnode_fill_public_key(n)}
  PROVE  /\ [Told(node) EXCEPT !.public_key = NoPublic]
              = Fields(n.curve, n.depth, n.child_num, n.chain_code, n.private_key, 0, NoPublic)
         /\ Told(PublicPart(node))
              = Fields(n.curve, n.depth, n.child_num, n.chain_code, 0, 0, KeyOf(n))
<1>1. PICK m : m = hdnode_fill_public_key(n)
  OBVIOUS
<1>2. m = WithKey(n, KeyOf(n)) /\ n = WithKey(n, NoPublic) /\ hdnode_fill_public_key(node) = m
  BY <1>1, FilledOnce DEF IsBare
<1>3. PICK c, d, i, h, p, e, K : /\ c = n.curve /\ d = n.depth /\ i = n.child_num /\ h = n.chain_code
                                 /\ p = n.private_key /\ e = n.private_key_extension /\ K = KeyOf(n)
  OBVIOUS
<1>4. m = Fields(c, d, i, h, p, e, K) /\ n = Fields(c, d, i, h, p, e, NoPublic)
  BY <1>2, <1>3 DEF WithKey
<1>5. PICK k : node = Fields(c, d, i, h, p, e, k)
  BY <1>1, <1>4
<1>6. Told(node) = Fields(c, d, i, h, p, 0, k)
  BY <1>5 DEF Told, Fields
<1>7. [Told(node) EXCEPT !.public_key = NoPublic] = Fields(c, d, i, h, p, 0, NoPublic)
  BY <1>6 DEF Fields
<1>8. PublicPart(node) = Fields(c, d, i, h, 0, e, K)
  <2>1. PublicPart(node) = [m EXCEPT !.private_key = 0]
    BY <1>2 DEF PublicPart
  <2> QED BY <1>4, <2>1 DEF Fields
<1>9. Told(PublicPart(node)) = Fields(c, d, i, h, 0, 0, K)
  BY <1>8 DEF Told, Fields
<1> QED BY <1>3, <1>7, <1>9

\* A text reads back to its node, or is refused, or is one of its reader's curve.
LEMMA ReadIsRight ==
  ASSUME HalvesAreNumbers, KeysAreFound, CardanoRoom, KeeperOnItsPath,
         NEW use_public \in BOOLEAN, NEW name, NEW network \in {"main", "test"}, ReadText(use_public, name, network)
  PROVE  TextsReadBack'
<1>1. PICK n, t : n = NodeAt(route)
        /\ t = hdnode_serialize(keeper, Parents, IF use_public THEN "public" ELSE "private", use_public)
  OBVIOUS
<1>2. /\ IsBare(n) /\ n.curve = family /\ n.depth = Len(route) /\ keeper \in {n, hdnode_fill_public_key(n)}
      /\ keeper.curve = family /\ keeper.depth = Len(route) /\ family \in DOMAIN get_curve_by_name
      /\ params(n) => InOrder(n.private_key)
  BY <1>1, KeepersNode, KeeperIsRight DEF KeeperOnItsPath
<1>3. keeper.depth % DepthMod = keeper.depth
  <2>1. Len(route) <= MaxDepth /\ route \in Seq(ChildIndices)
    BY DEF KeeperOnItsPath, OnPath
  <2>2. DepthMod \in Nat /\ MaxDepth \in Nat /\ MaxDepth < DepthMod
    BY DerivationAssumption, TreeAssumption
  <2> QED BY <1>2, <2>1, <2>2
<1>4. /\ t.hasher = get_curve_by_name[family].hasher_base58 /\ t.depth = keeper.depth
      /\ t.child_num = keeper.child_num /\ t.chain_code = keeper.chain_code /\ t.fingerprint = Parents
      /\ t.version = IF use_public THEN "public" ELSE "private"
      /\ t.key = IF use_public THEN keeper.public_key ELSE <<0, keeper.private_key>>
  BY <1>1, <1>2, <1>3 DEF hdnode_serialize
<1>5. PICK private \in BOOLEAN : (t.version # "public") = private /\ (private <=> ~use_public)
                                 /\ (t.version = "public" <=> ~private)
  <2>1. CASE use_public
    <3>1. (t.version # "public") = FALSE /\ t.version = "public"
      BY <1>4, <2>1
    <3> QED BY <2>1, <3>1
  <2>2. CASE ~use_public
    <3>1. (t.version # "public") = TRUE /\ t.version # "public"
      BY <1>4, <2>2
    <3> QED BY <2>2, <3>1
  <2> QED BY <2>1, <2>2
<1>6. t.key = IF private THEN <<0, keeper.private_key>> ELSE keeper.public_key
  BY <1>4, <1>5
<1>7. PICK r : r = IF network = "main" THEN hdnode_deserialize(t, "public", "private", name)
                   ELSE hdnode_deserialize(t, "test public", "test private", name)
  OBVIOUS
<1>8. /\ answer' = [call |-> "read", text |-> t, curve |-> name, network |-> network, result |-> r]
      /\ UNCHANGED <<family, keeper>>
  BY <1>1, <1>7 DEF ReadText
<1>9. ASSUME r.ret = 0
      PROVE  /\ network = "main" /\ KnownCurve(name) /\ ~KeyRefused(t, name, private)
             /\ r.node = ReadNode(t, name, private) /\ r.fingerprint = t.fingerprint
  <2>1. CASE network = "main"
    <3>1. r = hdnode_deserialize(t, "public", "private", name)
      BY <1>7, <2>1
    <3>2. /\ KnownCurve(name) /\ ~KeyRefused(t, name, t.version # "public")
          /\ r.node = ReadNode(t, name, t.version # "public") /\ r.fingerprint = t.fingerprint
      BY <1>9, <3>1, ReadGives
    <3> QED BY <1>5, <2>1, <3>2
  <2>2. CASE network # "main"
    <3>1. r = hdnode_deserialize(t, "test public", "test private", name)
      BY <1>7, <2>2
    <3>2. t.version \in {"test public", "test private"}
      BY <1>9, <3>1, ReadGives
    <3> QED BY <1>4, <3>2
  <2> QED BY <2>1, <2>2
<1>10. ASSUME r.ret = 0
       PROVE  /\ r.node.chain_code = keeper.chain_code /\ r.node.child_num = keeper.child_num
              /\ r.node.depth = keeper.depth /\ r.node.curve = name
              /\ <<r.node.private_key, r.node.public_key>> \in
                   {<<keeper.private_key, NoPublic>>, <<0, hdnode_fill_public_key(keeper).public_key>>}
              /\ params(r.node) => InOrder(r.node.private_key) \/ ecdsa_read_pubkey(r.node.public_key) # 0
              /\ name = family =>
                   r.node = IF private THEN [Told(keeper) EXCEPT !.public_key = NoPublic]
                            ELSE Told(PublicPart(keeper))
  <2>1. PICK c : c = ReadNode(t, name, private) /\ r.node = c /\ ~KeyRefused(t, name, private)
    BY <1>9, <1>10
  <2>2. /\ c.curve = name /\ c.depth = t.depth /\ c.child_num = t.child_num /\ c.chain_code = t.chain_code
        /\ c.private_key = (IF private THEN t.key[2] ELSE 0)
        /\ c.public_key = (IF private THEN NoPublic ELSE t.key)
        /\ c = Fields(name, c.depth, c.child_num, c.chain_code, c.private_key, 0, c.public_key)
    BY <2>1, ReadNodeFields
  <2>3. params(c) = get_curve_by_name[name].params
    BY <2>2 DEF params
  <2>6. /\ keeper.depth = n.depth /\ keeper.child_num = n.child_num /\ keeper.chain_code = n.chain_code
        /\ keeper.private_key = n.private_key /\ hdnode_fill_public_key(keeper).public_key = KeyOf(n)
    BY <1>2, FilledOnce, FieldsKept
  <2>7. /\ [Told(keeper) EXCEPT !.public_key = NoPublic]
             = Fields(n.curve, n.depth, n.child_num, n.chain_code, n.private_key, 0, NoPublic)
        /\ Told(PublicPart(keeper)) = Fields(n.curve, n.depth, n.child_num, n.chain_code, 0, 0, KeyOf(n))
    BY <1>2, ToldFields
  <2>4. CASE private
    <3>1. t.key[2] = keeper.private_key /\ c.private_key = t.key[2] /\ c.public_key = NoPublic
      BY <1>6, <2>2, <2>4
    <3>2. params(c) => InOrder(c.private_key)
      BY <2>1, <2>3, <2>4, <3>1 DEF KeyRefused
    <3>3. name = family => c = [Told(keeper) EXCEPT !.public_key = NoPublic]
      BY <1>2, <1>4, <2>2, <2>6, <2>7, <3>1
    <3> QED BY <1>4, <2>1, <2>2, <2>4, <3>1, <3>2, <3>3
  <2>5. CASE ~private
    <3>1. c.private_key = 0 /\ c.public_key = t.key
      BY <2>2, <2>5
    <3>2. ~KeyRefused(t, name, FALSE)
      <4>1. private = FALSE
        BY <2>5
      <4> QED BY <2>1, <4>1
    <3>3. t.key = hdnode_fill_public_key(keeper).public_key
      BY <1>2, <1>6, <2>5, <3>2, TextKeys
    <3>4. params(c) => ecdsa_read_pubkey(c.public_key) # 0
      BY <2>3, <3>1, <3>2 DEF KeyRefused
    <3>5. name = family => c = Told(PublicPart(keeper))
      BY <1>2, <1>4, <2>2, <2>6, <2>7, <3>1, <3>3
    <3> QED BY <1>4, <2>1, <2>2, <2>5, <3>1, <3>3, <3>4, <3>5
  <2> QED BY <2>4, <2>5
<1>11. ASSUME name = family, network = "main"
       PROVE  (r.ret # 0) = (t.version = "public" /\ t.key = NoPublic)
  <2>1. r = hdnode_deserialize(t, "public", "private", name)
    BY <1>7, <1>11
  <2>2. KnownCurve(name) /\ t.hasher = get_curve_by_name[name].hasher_base58 /\ t.version \in {"public", "private"}
    BY <1>2, <1>4, <1>11 DEF KnownCurve
  <2>3. r.ret # 0 <=> KeyRefused(t, name, t.version # "public")
    BY <2>1, <2>2, ReadGives
  <2>4. r.ret # 0 <=> KeyRefused(t, name, private)
    BY <1>5, <2>3
  <2>5. KeyRefused(t, name, private) <=> ~private /\ t.key = NoPublic
    <3>1. name = n.curve
      BY <1>2, <1>11
    <3>2. CASE private
      <4>1. private = TRUE
        BY <3>2
      <4>2. ~KeyRefused(t, name, TRUE)
        BY <1>2, <1>6, <3>1, <3>2, TextKeys
      <4> QED BY <4>1, <4>2
    <3>3. CASE ~private
      <4>1. private = FALSE
        BY <3>3
      <4>2. KeyRefused(t, name, FALSE) <=> t.key = NoPublic
        BY <1>2, <1>6, <3>1, <3>3, TextKeys
      <4> QED BY <4>1, <4>2
    <3> QED BY <3>2, <3>3
  <2> QED BY <1>5, <2>4, <2>5
<1>12. answer'.text = t /\ answer'.result = r /\ answer'.curve = name /\ answer'.network = network
  BY <1>8
<1>13. hdnode_fill_public_key(keeper)' = hdnode_fill_public_key(keeper)
  BY <1>8 DEF hdnode_fill_public_key, params, Of25519
<1>14. Told(keeper)' = Told(keeper) /\ Told(PublicPart(keeper))' = Told(PublicPart(keeper))
  BY <1>8, <1>13 DEF Told, PublicPart
<1>15. ASSUME r.ret = 0, name = family
       PROVE  r.node = IF t.version = "private" THEN [Told(keeper) EXCEPT !.public_key = NoPublic]
                       ELSE Told(PublicPart(keeper))
  <2>1. t.version = "private" <=> private
    BY <1>4, <1>5
  <2> QED BY <1>10, <1>15, <2>1
<1> QED BY <1>8, <1>9, <1>10, <1>11, <1>12, <1>13, <1>14, <1>15 DEF TextsReadBack

PathRight ==
  answer.call = "path" =>
    LET refused == {k \in DOMAIN answer.path : ~params(keeper) /\ answer.path[k] < Hardened}
    IN /\ answer.result.ok = (refused = {})
       /\ route = answer.from \o (IF refused = {} THEN answer.path ELSE SubSeq(answer.path, 1, Min(refused) - 1))
       /\ answer.result.ok /\ answer.path # <<>> =>
            answer.result.fingerprint = hdnode_fingerprint(NodeAt(SubSeq(route, 1, Len(route) - 1)))

LEMMA AllButLast ==
  ASSUME NEW S, NEW r \in Seq(S), NEW path \in Seq(S), path # <<>>
  PROVE  /\ r \o SubSeq(path, 1, Len(path) - 1) \in Seq(S)
         /\ SubSeq(r \o path, 1, Len(r \o path) - 1) = r \o SubSeq(path, 1, Len(path) - 1)
OBVIOUS

\* A path in one go leads to where its steps lead to.
LEMMA PathIsRight ==
  ASSUME HalvesAreNumbers, KeeperOnItsPath, NEW path \in Paths, InOneGo(path)
  PROVE  PathRight'
<1>1. PICK root, n, r : /\ root = Opened(family, seedOf) /\ n = NodeAt(route)
                        /\ r = hdnode_private_ckd_cached(keeper, path)
  OBVIOUS
<1>2. /\ family # "cardano"
      /\ answer' = [call |-> "path", from |-> route, path |-> path, result |-> r]
      /\ keeper' = r.node /\ route' = route \o SubSeq(path, 1, r.node.depth - keeper.depth)
      /\ UNCHANGED <<family, seedOf>>
  BY <1>1 DEF InOneGo
<1>3. /\ OnPath(root, family, route) /\ IsBare(n) /\ n.curve = family /\ n.depth = Len(route)
      /\ keeper \in {n, hdnode_fill_public_key(n)} /\ n = Stripped(Walked(root, route))
      /\ keeper.depth = Len(route)
  BY <1>1, KeepersNode DEF KeeperOnItsPath
<1>4. n = Walked(root, route) /\ route \in Seq(ChildIndices)
  BY <1>2, <1>3 DEF OnPath
<1>5. path \in Seq(ChildIndices) /\ ChildIndices \subseteq Nat
  BY DerivationAssumption
<1>6. PICK L \in Nat, j \in Nat :
        /\ L = Len(path) /\ j <= L /\ Reaches(r, root, route, n, path, j, L)
        /\ j = L /\ path # <<>> =>
             /\ r.fingerprint = hdnode_fingerprint(Walked(root, route \o SubSeq(path, 1, j - 1)))
             /\ IsBare(Walked(root, route \o SubSeq(path, 1, j - 1)))
  <2>1. PICK j \in 0..Len(path) :
          /\ Reaches(r, root, route, n, path, j, Len(path))
          /\ j = Len(path) /\ path # <<>> =>
               /\ r.fingerprint = hdnode_fingerprint(Walked(root, route \o SubSeq(path, 1, j - 1)))
               /\ IsBare(Walked(root, route \o SubSeq(path, 1, j - 1)))
    <3>1. n.curve # "cardano" /\ route \in Seq(ChildIndices)
      BY <1>2, <1>3, <1>4
    <3>2. n = Walked(root, route) /\ IsBare(n) /\ keeper \in {n, hdnode_fill_public_key(n)}
      BY <1>3, <1>4
    <3>3. r = hdnode_private_ckd_cached(keeper, path)
      BY <1>1
    <3>4. HalvesAreNumbers
      OBVIOUS
    <3> QED BY ONLY <1>5, <3>1, <3>2, <3>3, <3>4, CachedIsWalked
  <2>2. Len(path) \in Nat /\ j \in Nat /\ j <= Len(path)
    BY <1>5
  <2> QED BY <2>1, <2>2
<1>7. PICK w : w = Walked(root, route \o SubSeq(path, 1, j))
  OBVIOUS
<1>8. /\ IsBare(w) /\ w.curve = family /\ w.depth = Len(route) + j /\ r.node \in {w, hdnode_fill_public_key(w)}
      /\ r.ok \in BOOLEAN /\ (r.ok <=> j = L)
      /\ \A k \in 1..j : ~Refuses(n, path[k])
      /\ j < L => Refuses(n, path[j + 1])
  BY <1>3, <1>6, <1>7 DEF Reaches, At
<1>9. r.node.depth = w.depth /\ params(r.node) = params(n)
  <2>1. params(w) = params(n)
    BY <1>3, <1>8 DEF params
  <2> QED BY <1>8, <2>1, FilledOnce, FieldsKept
<1>10. route' = route \o SubSeq(path, 1, j)
  <2>1. r.node.depth - keeper.depth = j
    <3>1. Len(route) \in Nat
      BY <1>4
    <3> QED BY <1>3, <1>6, <1>8, <1>9, <3>1
  <2> QED BY <1>2, <2>1
<1>11. PICK refused : refused = {k \in DOMAIN path : ~params(r.node) /\ path[k] < Hardened}
  OBVIOUS
<1>12. refused = {k \in 1..L : Refuses(n, path[k])}
  <2>1. DOMAIN path = 1..L
    BY <1>5, <1>6
  <2> QED BY <1>9, <1>11, <2>1 DEF Refuses
<1>13. refused = {} <=> j = L
  <2>1. j < L => j + 1 \in refused
    BY <1>6, <1>8, <1>12
  <2> QED BY <1>6, <1>8, <1>12, <2>1
<1>14. j < L => Min(refused) = j + 1
  <2> SUFFICES ASSUME j < L PROVE Min(refused) = j + 1
    OBVIOUS
  <2>1. j + 1 \in refused
    BY <1>6, <1>8, <1>12
  <2>2. \A k \in refused : k \in Nat /\ j + 1 <= k
    BY <1>6, <1>8, <1>12
  <2>3. \A x \in refused : (\A y \in refused : x <= y) => x = j + 1
    BY <2>1, <2>2
  <2> QED BY <2>1, <2>2, <2>3 DEF Min
<1>15. route' = route \o (IF refused = {} THEN path ELSE SubSeq(path, 1, Min(refused) - 1))
  <2>1. j = L => SubSeq(path, 1, j) = path
    BY <1>5, <1>6
  <2>2. j < L => Min(refused) - 1 = j
    BY <1>6, <1>14
  <2> QED BY <1>6, <1>10, <1>13, <2>1, <2>2
<1>16. ASSUME r.ok, path # <<>>
       PROVE  r.fingerprint = hdnode_fingerprint(NodeAt(SubSeq(route, 1, Len(route) - 1)))'
  <2>1. j = L /\ SubSeq(path, 1, j) = path
    BY <1>5, <1>6, <1>8, <1>16
  <2>2. PICK q \in Seq(ChildIndices) :
          q = route \o SubSeq(path, 1, j - 1) /\ SubSeq(route', 1, Len(route') - 1) = q
    <3>1. /\ route \o SubSeq(path, 1, Len(path) - 1) \in Seq(ChildIndices)
          /\ SubSeq(route \o path, 1, Len(route \o path) - 1) = route \o SubSeq(path, 1, Len(path) - 1)
      BY <1>4, <1>5, <1>16, AllButLast
    <3> QED BY <1>6, <1>10, <2>1, <3>1
  <2>3. PICK p : p = Walked(root, q) /\ IsBare(p) /\ r.fingerprint = hdnode_fingerprint(p)
    BY <1>6, <1>16, <2>1, <2>2
  <2>4. Stripped(p) = p
    BY <2>3, FilledOnce
  <2>5. NodeAt(SubSeq(route, 1, Len(route) - 1))' = p
    BY <1>1, <1>2, <2>2, <2>3, <2>4 DEF NodeAt, Stripped
  <2>6. hdnode_fingerprint(NodeAt(SubSeq(route, 1, Len(route) - 1)))' = hdnode_fingerprint(p)
    BY <2>5 DEF hdnode_fingerprint, hdnode_fill_public_key, params, Of25519
  <2> QED BY <2>3, <2>6
<1>17. /\ answer'.path = path /\ answer'.from = route /\ answer'.result = r
       /\ \A k : params(keeper)' = params(r.node)
  BY <1>2 DEF params
<1>18. refused = {k \in DOMAIN answer'.path : ~params(keeper)' /\ answer'.path[k] < Hardened}
  BY <1>11, <1>17
<1>19. r.ok = (refused = {})
  BY <1>8, <1>13
<1> QED BY <1>15, <1>16, <1>17, <1>18, <1>19 DEF PathRight

KeyRight ==
  answer.call = "key" =>
    /\ answer.result.ok = retained
    /\ retained => /\ answer.result.private_key = NodeAt(answer.path).private_key
                   /\ answer.result.address = hdnode_get_ethereum_pubkeyhash(NodeAt(answer.path))

\* The wallet's keys are those of the path from its seed, until it is cleared.
LEMMA KeyIsRight ==
  ASSUME HalvesAreNumbers, retained \in BOOLEAN, KeeperOnItsPath, NEW path \in Paths, GetKey(path)
  PROVE  KeyRight'
<1>1. PICK root, s : root = Opened(family, seedOf)
                     /\ s = Descendant(hdnode_from_seed(seedOf, "secp256k1").node, path)
  OBVIOUS
<1>2. /\ family = "secp256k1" /\ seedOf \in Seeds /\ UNCHANGED <<family, seedOf, retained>>
      /\ answer' = [call |-> "key", path |-> path,
                    result |-> IF ~retained \/ ~s.ok THEN [ok |-> FALSE]
                               ELSE [ok |-> TRUE, private_key |-> s.node.private_key,
                                     address |-> hdnode_get_ethereum_pubkeyhash(s.node)]]
  BY <1>1 DEF GetKey, KeeperOnItsPath
<1>3. s = Descendant(root, path) /\ family \in DOMAIN get_curve_by_name /\ family # "cardano"
  BY <1>1, <1>2 DEF Opened, KeeperOnItsPath
<1>4. OnPath(root, family, <<>>) /\ Walked(root, <<>>) = root
  BY <1>1, <1>2, <1>3, RootOnPath
<1>5. IsBare(root) /\ root.curve = family
  BY <1>3, <1>4 DEF OnPath
<1>6. path \in Seq(ChildIndices) /\ ChildIndices \subseteq Nat /\ <<>> \in Seq(ChildIndices)
  BY DerivationAssumption
<1>7. PICK L \in Nat : L = Len(path) /\ SubSeq(path, 1, L) = path /\ <<>> \o path = path /\ L \in 0..Len(path)
  BY <1>6
<1>8. PICK j \in 0..L : Reaches(s, root, <<>>, root, path, j, L)
  <2>1. \E j \in 0..L : Reaches(Descendant(root, SubSeq(path, 1, L)), root, <<>>, root, path, j, L)
    BY <1>3, <1>4, <1>5, <1>6, <1>7, DescendantIsWalked
  <2> QED BY <1>3, <1>7, <2>1
<1>9. ~Refuses(root, path[j + 1])
  <2>1. params(root)
    BY <1>2, <1>5 DEF params, get_curve_by_name, CurveInfo
  <2> QED BY <2>1 DEF Refuses
<1>10. j = L
  BY <1>8, <1>9 DEF Reaches
<1>11. PICK w : w = Walked(root, path)
  OBVIOUS
<1>12. s.ok /\ IsBare(w) /\ s.node \in {w, hdnode_fill_public_key(w)}
  BY <1>7, <1>8, <1>10, <1>11 DEF Reaches, At
<1>13. s.node.private_key = w.private_key /\ Stripped(w) = w
  BY <1>12, FilledOnce, FieldsKept
<1>14. NodeAt(path)' = w
  BY <1>1, <1>2, <1>11, <1>13 DEF NodeAt, Stripped
<1>15. /\ hdnode_get_ethereum_pubkeyhash(s.node) = hdnode_get_ethereum_pubkeyhash(w)
       /\ hdnode_get_ethereum_pubkeyhash(NodeAt(path))' = hdnode_get_ethereum_pubkeyhash(w)
  BY <1>13, <1>14 DEF hdnode_get_ethereum_pubkeyhash
<1>16. CASE ~retained
  <2>1. answer'.result = [ok |-> FALSE] /\ retained' = FALSE
    BY <1>2, <1>16
  <2>2. answer'.result.ok = FALSE
    BY <2>1
  <2>3. answer'.result.ok = retained'
    BY <2>1, <2>2, Zenon
  <2>4. ~retained'
    BY <2>1, Zenon
  <2> QED BY <2>3, <2>4 DEF KeyRight
<1>17. CASE retained
  <2>1. answer'.result = [ok |-> TRUE, private_key |-> w.private_key,
                          address |-> hdnode_get_ethereum_pubkeyhash(w)]
        /\ retained' = TRUE
    BY <1>2, <1>12, <1>13, <1>15, <1>17
  <2>2. answer'.path = path
    BY <1>2
  <2>3. NodeAt(answer.path)' = w
    BY <1>14, <2>2 DEF NodeAt
  <2>4. hdnode_get_ethereum_pubkeyhash(NodeAt(answer.path))' = hdnode_get_ethereum_pubkeyhash(w)
    BY <2>3 DEF hdnode_get_ethereum_pubkeyhash
  <2> QED BY <2>1, <2>3, <2>4 DEF KeyRight
<1> QED BY <1>16, <1>17

\* What is returned is right, and the wallet is cleared or not.
AnswersAreRight == retained \in BOOLEAN /\ SignatureRight /\ TextsReadBack /\ PathRight /\ KeyRight

LEMMA OtherAnswers ==
  ASSUME retained' \in BOOLEAN, answer'.call \notin {"sign", "read", "path", "key"}
  PROVE  AnswersAreRight'
BY DEF AnswersAreRight, SignatureRight, TextsReadBack, PathRight, KeyRight

LEMMA NoAnswer ==
  ASSUME Idle, UNCHANGED answer, retained' \in BOOLEAN
  PROVE  AnswersAreRight'
<1>1. answer'.call = "none"
  BY DEF Idle, Nothing
<1> QED BY <1>1, OtherAnswers

LEMMA AnswersAtTheStart ==
  ASSUME DeriveInit
  PROVE  AnswersAreRight
BY DEF DeriveInit, Nothing, AnswersAreRight, SignatureRight, TextsReadBack, PathRight, KeyRight

LEMMA AnswersStay ==
  ASSUME AnswersAreRight, UNCHANGED derivevars
  PROVE  AnswersAreRight'
<1>1. UNCHANGED <<family, seedOf, keeper, route, retained, answer>>
  BY DEF derivevars
<1>2. SignatureRight'
  BY <1>1 DEF AnswersAreRight, SignatureRight, params, Of25519
<1>3. TextsReadBack'
  BY <1>1 DEF AnswersAreRight, TextsReadBack, hdnode_fill_public_key, params, Of25519, Told, PublicPart
<1>4. PathRight'
  BY <1>1 DEF AnswersAreRight, PathRight, params, NodeAt, hdnode_fingerprint, hdnode_fill_public_key, Of25519
<1>5. KeyRight'
  BY <1>1 DEF AnswersAreRight, KeyRight, NodeAt, hdnode_get_ethereum_pubkeyhash
<1> QED BY <1>1, <1>2, <1>3, <1>4, <1>5 DEF AnswersAreRight

\* A call of one kind says nothing of the others.
LEMMA OneAnswer ==
  ASSUME retained' \in BOOLEAN,
         answer'.call = "sign" => SignatureRight', answer'.call = "read" => TextsReadBack',
         answer'.call = "path" => PathRight', answer'.call = "key" => KeyRight'
  PROVE  AnswersAreRight'
<1>1. SignatureRight'
  BY DEF SignatureRight
<1>2. TextsReadBack'
  BY DEF TextsReadBack
<1>3. PathRight'
  BY DEF PathRight
<1>4. KeyRight'
  BY DEF KeyRight
<1> QED BY <1>1, <1>2, <1>3, <1>4 DEF AnswersAreRight

LEMMA AnswersStep ==
  ASSUME HalvesAreNumbers, KeysAreFound, CardanoRoom, DInv, AnswersAreRight, DeriveNext
  PROVE  AnswersAreRight'
<1>0. KeeperOnItsPath /\ retained \in BOOLEAN
  BY DEF DInv, AnswersAreRight
<1>1. CASE \E i \in ChildIndices : Derive(i)
  BY <1>0, <1>1, NoAnswer DEF Derive
<1>2. CASE \E i \in ChildIndices : Watch(i)
  BY <1>0, <1>2, NoAnswer DEF Watch
<1>3. CASE FillPublicKey
  BY <1>0, <1>3, NoAnswer DEF FillPublicKey
<1>4. CASE Sign
  <2>1. answer'.call = "sign" /\ retained' \in BOOLEAN
    BY <1>0, <1>4 DEF Sign
  <2>2. SignatureRight'
    BY <1>0, <1>4, SignIsRight
  <2> QED BY <2>1, <2>2, OneAnswer
<1>5. CASE Publish
  BY <1>0, <1>5, NoAnswer DEF Publish
<1>6. CASE Clear
  BY <1>6, NoAnswer DEF Clear
<1>7. CASE Taken
  BY <1>0, <1>7, OtherAnswers DEF Taken, Nothing
<1>8. ASSUME NEW use_public \in BOOLEAN, NEW name, NEW network \in {"main", "test"},
             ReadText(use_public, name, network)
      PROVE  AnswersAreRight'
  <2>1. answer'.call = "read" /\ retained' \in BOOLEAN
    BY <1>0, <1>8 DEF ReadText
  <2>2. TextsReadBack'
    BY <1>0, <1>8, ReadIsRight
  <2> QED BY <2>1, <2>2, OneAnswer
<1>9. ASSUME NEW i, NEW addrformat, NEW addrsize, ReceiveAt(i, addrformat, addrsize) PROVE AnswersAreRight'
  BY <1>0, <1>9, OtherAnswers DEF ReceiveAt
<1>10. ASSUME NEW path \in Paths, InOneGo(path) PROVE AnswersAreRight'
  <2>1. answer'.call = "path" /\ retained' \in BOOLEAN
    BY <1>0, <1>10 DEF InOneGo
  <2>2. PathRight'
    BY <1>0, <1>10, PathIsRight
  <2> QED BY <2>1, <2>2, OneAnswer
<1>11. ASSUME NEW path \in Paths, GetKey(path) PROVE AnswersAreRight'
  <2>1. answer'.call = "key" /\ retained' \in BOOLEAN
    BY <1>0, <1>11 DEF GetKey
  <2>2. KeyRight'
    BY <1>0, <1>11, KeyIsRight
  <2> QED BY <2>1, <2>2, OneAnswer
<1>12. ASSUME NEW small, Share(small) PROVE AnswersAreRight'
  BY <1>0, <1>12, OtherAnswers DEF Share
<1>13. ASSUME NEW instead, NEW payload, SendMessage(instead, payload) PROVE AnswersAreRight'
  BY <1>0, <1>13, OtherAnswers DEF SendMessage
<1>14. CASE Restore
  BY <1>0, <1>14, NoAnswer DEF Restore
<1> QED BY <1>1, <1>2, <1>3, <1>4, <1>5, <1>6, <1>7, <1>8, <1>9, <1>10, <1>11, <1>12, <1>13, <1>14 DEF DeriveNext

\* The node in hand is the one its path from the seed says, however it was
\* reached; its two keys belong together and are in range; its texts, its
\* paths in one go and the wallet's keys are its own.
THEOREM NodesAreTheirPaths ==
  ASSUME HalvesAreNumbers, KeysAreFound, CardanoRoom
  PROVE  DeriveSpec => []NodeIsItsPath
<1>1. DeriveInit => DInv /\ AnswersAreRight
  BY InitHolds, AnswersAtTheStart
<1>2. DInv /\ AnswersAreRight /\ [DeriveNext]_derivevars => (DInv /\ AnswersAreRight)'
  <2>1. DInv /\ AnswersAreRight /\ DeriveNext => (DInv /\ AnswersAreRight)'
    BY StepHolds, AnswersStep
  <2>2. DInv /\ AnswersAreRight /\ UNCHANGED derivevars => (DInv /\ AnswersAreRight)'
    BY StutterHolds, AnswersStay
  <2> QED BY <2>1, <2>2
<1>3. DInv /\ AnswersAreRight => NodeIsItsPath
  <2> SUFFICES ASSUME DInv, AnswersAreRight PROVE NodeIsItsPath
    OBVIOUS
  <2>1. KeeperOnItsPath
    BY DEF DInv
  <2>2. /\ [keeper EXCEPT !.public_key = NoPublic] = NodeAt(route)
        /\ keeper.public_key # NoPublic =>
             keeper.public_key = hdnode_fill_public_key([keeper EXCEPT !.public_key = NoPublic]).public_key
        /\ params(keeper) => InOrder(keeper.private_key)
        /\ family # "cardano" => keeper.private_key_extension = 0
        /\ CardanoKeysAreScalars
    BY <2>1, KeeperIsRight
  <2>3. KeysBelongTogether
    BY <2>2 DEF KeysBelongTogether, AnswersAreRight, SignatureRight
  <2>4. PathIsItsSteps
    BY <2>2 DEF PathIsItsSteps, AnswersAreRight, PathRight, KeyRight
  <2> QED BY <2>2, <2>3, <2>4 DEF NodeIsItsPath, AnswersAreRight
<1> QED BY <1>1, <1>2, <1>3, PTL DEF DeriveSpec

-----------------------------------------------------------------------------
(* Peers *)

\* The orders of the curves are prime.
OrderIsPrime == \A a, b \in 1..(Order - 1) : (a * b) % Order # 0

\* The peer's node, at the top of its tree.
LEMMA PeerIsNode ==
  ASSUME HalvesAreNumbers, KeysAreFound, family \in DOMAIN get_curve_by_name
  PROVE  \E m : /\ IsBare(m) /\ m.curve = family /\ Peer = hdnode_fill_public_key(m)
                /\ params(m) => InOrder(m.private_key)
<1>1. PICK root, m : root = Opened(family, PeerSeed) /\ m = Stripped(root)
  OBVIOUS
<1>2. /\ IsBare(m) /\ m.curve = family
      /\ IF family = "cardano" THEN root = hdnode_fill_public_key(m) ELSE root = m
  BY <1>1, OpenedIsNode DEF KnownCurve
<1>3. Peer = hdnode_fill_public_key(m)
  <2>1. Peer = hdnode_fill_public_key(root)
    BY <1>1 DEF Peer
  <2> QED BY <1>2, <2>1, FilledOnce
<1>4. params(m) => InOrder(m.private_key)
  <2> SUFFICES ASSUME params(m) PROVE InOrder(m.private_key)
    OBVIOUS
  <2>1. get_curve_by_name[family].params
    BY <1>2 DEF params
  <2>2. family # "cardano"
    BY <2>1 DEF get_curve_by_name, CurveInfo
  <2>3. <<>> \in Seq(ChildIndices) /\ ChildIndices \subseteq Nat
    BY DerivationAssumption
  <2>4. InOrder(Walked(root, <<>>).private_key)
    BY <1>1, <2>1, <2>3, KeysInOrder
  <2>5. Walked(root, <<>>) = root
    BY <1>1, RootOnPath
  <2> QED BY <1>2, <2>2, <2>4, <2>5
<1> QED BY <1>2, <1>3, <1>4

\* On an ECDSA curve both sides multiply the same two numbers.
LEMMA EcdhAgrees ==
  ASSUME OrderIsPrime, NEW a \in Nat, NEW b \in Nat, InOrder(a), InOrder(b)
  PROVE  /\ ecdh_multiply(a, Compressed(b)) = ecdh_multiply(b, Compressed(a))
         /\ \E key : ecdh_multiply(a, Compressed(b)) = [status |-> 0, size |-> 65, key |-> key] /\ key # 0
<1>1. ecdsa_read_pubkey(Compressed(a)) = a /\ ecdsa_read_pubkey(Compressed(b)) = b /\ a # 0 /\ b # 0
  BY CompressedReads DEF InOrder
<1>2. a * b = b * a
  OBVIOUS
<1>3. /\ ecdh_multiply(a, Compressed(b)) = [status |-> 0, size |-> 65, key |-> (a * b) % Order]
      /\ ecdh_multiply(b, Compressed(a)) = [status |-> 0, size |-> 65, key |-> (b * a) % Order]
  BY <1>1 DEF ecdh_multiply
<1>4. (a * b) % Order # 0
  <2>1. a \in 1..(Order - 1) /\ b \in 1..(Order - 1)
    BY OrderAssumption DEF InOrder
  <2> QED BY <2>1 DEF OrderIsPrime
<1> QED BY <1>2, <1>3, <1>4

\* Nobody gets a shared key for the point of small order.
LEMMA SmallIsRefused ==
  ASSUME NEW n
  PROVE  hdnode_get_shared_key(n, <<64, SmallOrder>>).status = 1
<1>1. ecdsa_read_pubkey(<<64, SmallOrder>>) = 0
  BY DEF ecdsa_read_pubkey
<1>2. SharedPoint(n, SmallOrder) = {}
  BY DEF SharedPoint
<1> QED BY <1>1, <1>2 DEF hdnode_get_shared_key, ecdh_multiply, WithSecret

\* Both sides get one shared key or none.
LEMMA ShareIsRight ==
  ASSUME HalvesAreNumbers, KeysAreFound, OrderIsPrime, KeeperOnItsPath, NEW small \in BOOLEAN, Share(small)
  PROVE  SharedKeysAgree'
<1>1. PICK n, ours, theirs :
        /\ n = NodeAt(route)
        /\ ours = hdnode_get_shared_key(keeper, IF small THEN <<64, SmallOrder>> ELSE Given(Peer))
        /\ theirs = hdnode_get_shared_key(Peer, Given(keeper))
  OBVIOUS
<1>2. /\ answer' = [call |-> "share", small |-> small, ours |-> ours, theirs |-> theirs]
      /\ UNCHANGED <<family, keeper>>
  BY <1>1 DEF Share
<1>3. PICK m : /\ IsBare(m) /\ m.curve = family /\ Peer = hdnode_fill_public_key(m)
               /\ params(m) => InOrder(m.private_key)
  BY PeerIsNode DEF KeeperOnItsPath
<1>4. /\ IsBare(n) /\ n.curve = family /\ keeper.curve = family /\ params(keeper) = params(n)
      /\ keeper.private_key = n.private_key /\ keeper.private_key_extension = n.private_key_extension
      /\ hdnode_fill_public_key(keeper) = hdnode_fill_public_key(n)
      /\ params(keeper) => InOrder(n.private_key)
  BY <1>1, KeepersNode, KeeperInOrder
<1>5. PICK f, g : f = hdnode_fill_public_key(n) /\ g = hdnode_fill_public_key(m)
  OBVIOUS
<1>6. /\ g.curve = family /\ params(g) = params(m) /\ g.private_key = m.private_key
      /\ g.private_key_extension = m.private_key_extension /\ g.public_key = KeyOf(m)
      /\ hdnode_fill_public_key(g) = g /\ f.public_key = KeyOf(n)
  BY <1>3, <1>4, <1>5, FilledOnce, FieldsKept
<1>7. CASE small
  <2>1. ours.status = 1
    BY <1>1, <1>7, SmallIsRefused
  <2> QED BY <1>2, <1>7, <2>1 DEF SharedKeysAgree
<1>8. CASE ~small /\ params(keeper)
  <2>1. get_curve_by_name[family].params /\ params(m) /\ params(n) /\ params(g)
    BY <1>3, <1>4, <1>6, <1>8 DEF params
  <2>2. family # "curve25519"
    BY <2>1 DEF get_curve_by_name, CurveInfo
  <2>3. Given(Peer) = Compressed(m.private_key) /\ Given(keeper) = Compressed(n.private_key)
    BY <1>3, <1>4, <1>5, <1>6, <2>1, <2>2 DEF Given, KeyOf
  <2>4. /\ ours = ecdh_multiply(n.private_key, Compressed(m.private_key))
        /\ theirs = ecdh_multiply(m.private_key, Compressed(n.private_key))
    BY <1>1, <1>3, <1>4, <1>5, <1>6, <1>8, <2>1, <2>3 DEF hdnode_get_shared_key
  <2>5. /\ n.private_key \in Nat /\ m.private_key \in Nat
        /\ InOrder(n.private_key) /\ InOrder(m.private_key)
    BY <1>3, <1>4, <1>8, <2>1 DEF IsBare
  <2>6. PICK key : ours = [status |-> 0, size |-> 65, key |-> key] /\ key # 0 /\ ours = theirs
    BY <2>4, <2>5, EcdhAgrees
  <2>7. params(keeper)'
    BY <1>2, <1>8 DEF params
  <2> QED BY <1>2, <1>8, <2>6, <2>7 DEF SharedKeysAgree
<1>9. CASE ~small /\ ~params(keeper) /\ family # "curve25519"
  <2>1. ~params(g) /\ keeper.curve # "curve25519" /\ g.curve # "curve25519"
    BY <1>3, <1>4, <1>6, <1>9 DEF params
  <2>2. ours = [status |-> 1, size |-> 0] /\ theirs = [status |-> 1, size |-> 0]
    BY <1>1, <1>3, <1>5, <1>9, <2>1 DEF hdnode_get_shared_key
  <2> QED BY <1>2, <1>9, <2>2 DEF SharedKeysAgree
<1>10. CASE ~small /\ ~params(keeper) /\ family = "curve25519"
  <2>1. ~params(g) /\ ~params(m) /\ ~params(n)
    BY <1>3, <1>4, <1>6, <1>10 DEF params
  <2>2. PICK P, Q : P = Of25519(n) /\ Q = Of25519(m)
    OBVIOUS
  <2>3. P # SmallOrder /\ Q # SmallOrder /\ Of25519(keeper) = P /\ Of25519(g) = Q
    BY <1>3, <1>4, <1>6, <2>2 DEF Of25519, SmallOrder
  <2>4. Given(Peer) = <<64, Q>> /\ Given(keeper) = <<64, P>>
    BY <1>3, <1>4, <1>5, <1>6, <1>10, <2>1, <2>2 DEF Given, KeyOf
  <2>5. SharedPoint(keeper, Q) = {P, Q} /\ SharedPoint(g, P) = {Q, P}
    BY <2>3 DEF SharedPoint
  <2>6. ours = WithSecret({P, Q}) /\ theirs = WithSecret({Q, P})
    BY <1>1, <1>3, <1>4, <1>5, <1>6, <1>10, <2>1, <2>4, <2>5 DEF hdnode_get_shared_key
  <2>7. ours = theirs
    BY <2>6
  <2>8. ~params(keeper)'
    BY <1>2, <1>10 DEF params
  <2> QED BY <1>2, <1>10, <2>7, <2>8 DEF SharedKeysAgree
<1> QED BY <1>7, <1>8, <1>9, <1>10

-----------------------------------------------------------------------------
(* Messages go through the blocks of AES-CBC *)

\* A block of the cipher.
Block(key, before, bytes) == <<key, before, bytes>>

\* Every block of a chain is made with the one before.
Chain(c, key, iv, blocks, n) ==
  c = [b \in 0..n |-> IF b = 0 THEN iv ELSE Block(key, c[b - 1], blocks[b])]

\* There is such a chain, block after block.
LEMMA ChainExists ==
  ASSUME NEW key, NEW iv, NEW blocks, NEW n \in Nat
  PROVE  \E c : Chain(c, key, iv, blocks, n)
<1> DEFINE T == {m \in 0..n : \E c : Chain(c, key, iv, blocks, m)}
<1>1. 0 \in T
  <2>1. PICK c : c = [b \in 0..0 |-> iv]
    OBVIOUS
  <2>2. Chain(c, key, iv, blocks, 0)
    BY <2>1 DEF Chain
  <2> QED BY <2>2
<1>2. ASSUME NEW m \in 0..(n - 1), m \in T PROVE m + 1 \in T
  <2>1. PICK g : Chain(g, key, iv, blocks, m)
    BY <1>2
  <2>2. PICK v : v = Block(key, g[m], blocks[m + 1])
    OBVIOUS
  <2>3. PICK f : f = [b \in 0..(m + 1) |-> IF b = m + 1 THEN v ELSE g[b]]
    OBVIOUS
  <2>4. \A b \in 0..m : f[b] = g[b] /\ g[b] = IF b = 0 THEN iv ELSE Block(key, g[b - 1], blocks[b])
    BY <2>1, <2>3 DEF Chain
  <2>5. f[m + 1] = v /\ \A b \in 0..(m + 1) : b = m + 1 \/ b \in 0..m
    BY <2>3
  <2>6. ASSUME NEW b \in 0..(m + 1) PROVE f[b] = IF b = 0 THEN iv ELSE Block(key, f[b - 1], blocks[b])
    <3>1. CASE b = m + 1
      <4>1. b # 0 /\ b - 1 = m /\ m \in 0..m
        BY <3>1
      <4> QED BY <2>2, <2>4, <2>5, <3>1, <4>1
    <3>2. CASE b # m + 1
      <4>1. b \in 0..m /\ (b # 0 => b - 1 \in 0..m)
        BY <3>2
      <4> QED BY <2>4, <4>1
    <3> QED BY <3>1, <3>2
  <2>7. Chain(f, key, iv, blocks, m + 1)
    <3>1. f = [b \in 0..(m + 1) |-> f[b]]
      BY <2>3
    <3> QED BY <2>6, <3>1 DEF Chain
  <2> QED BY <2>7
<1>3. 0..n \subseteq T
  <2> HIDE DEF T
  <2> QED BY <1>1, <1>2, AllUpTo
<1> QED BY <1>3

\* What one call of aes_cbc_encrypt leaves in its buffer and its iv.
LEMMA EncryptChains ==
  ASSUME NEW key, NEW iv, NEW blocks, Len(blocks) \in Nat
  PROVE  \E c : /\ Chain(c, key, iv, blocks, Len(blocks))
                /\ aes_cbc_encrypt(key, iv, blocks) = [iv |-> c[Len(blocks)], out |-> [b \in 1..Len(blocks) |-> c[b]]]
<1>1. PICK c : c = CHOOSE f : Chain(f, key, iv, blocks, Len(blocks))
  OBVIOUS
<1>2. Chain(c, key, iv, blocks, Len(blocks))
  BY <1>1, ChainExists
<1>3. aes_cbc_encrypt(key, iv, blocks) = [iv |-> c[Len(blocks)], out |-> [b \in 1..Len(blocks) |-> c[b]]]
  BY <1>1 DEF aes_cbc_encrypt, Chain, Block
<1> QED BY <1>2, <1>3

\* Quotient and remainder.
LEMMA Divided ==
  ASSUME NEW a \in Nat, NEW B \in Nat \ {0}
  PROVE  \E d \in Nat, e \in Nat : d = a \div B /\ e = a % B /\ e < B /\ a = B * d + e
OBVIOUS

\* A block of bytes is one block.
LEMMA OneBlock ==
  ASSUME NEW B \in Nat \ {0}
  PROVE  B \div B = 1
OBVIOUS

\* Places in a buffer of blocks.
LEMMA BlockPlaces ==
  ASSUME NEW B \in Nat, NEW q \in Nat, NEW b \in 1..q
  PROVE  /\ (b - 1) * B \in Nat /\ b * B \in Nat /\ b * B <= B * q /\ b * B = (b - 1) * B + B
<1>1. PICK u \in Nat, v \in Nat, w \in Nat : u = (b - 1) * B /\ v = b * B /\ w = B * q
  OBVIOUS
<1>2. v = u + B
  BY <1>1
<1>3. v <= w
  <2>1. PICK d \in Nat : d = q - b
    OBVIOUS
  <2>2. d * B \in Nat /\ w = v + d * B
    BY <1>1, <2>1
  <2> QED BY ONLY <2>2, v \in Nat, w \in Nat
<1> QED BY <1>1, <1>2, <1>3

\* Functions on 1..n are sequences.
LEMMA FunctionIsSeq ==
  ASSUME NEW n \in Nat, NEW S, NEW f \in [1..n -> S]
  PROVE  f \in Seq(S) /\ Len(f) = n /\ DOMAIN f = 1..n
BY LenProperties, SeqDef

\* A payload of q whole blocks and r more bytes.
Sized(payload, q, r) ==
  /\ payload \in Seq(Nat) /\ q \in Nat /\ r \in Nat /\ r < NemBlock /\ Len(payload) = NemBlock * q + r
  /\ q = Len(payload) \div NemBlock /\ r = Len(payload) % NemBlock

\* The whole blocks.
LEMMA WholeBlocks ==
  ASSUME NEW payload, NEW q, NEW r, Sized(payload, q, r)
  PROVE  /\ Len(CipherBlocks(payload)) = q
         /\ \A b \in 1..q, j \in 1..NemBlock : CipherBlocks(payload)[b][j] = payload[(b - 1) * NemBlock + j]
<1>1. q \in Nat /\ NemBlock \in Nat
  BY TreeAssumption DEF Sized
<1>2. CipherBlocks(payload) = [b \in 1..q |-> SubSeq(payload, (b - 1) * NemBlock + 1, b * NemBlock)]
  BY DEF CipherBlocks, Sized
<1>3. PICK blocks : blocks = CipherBlocks(payload)
  OBVIOUS
<1>4. Len(blocks) = q
  <2>1. PICK S : S = {blocks[b] : b \in 1..q}
    OBVIOUS
  <2>2. blocks \in [1..q -> S]
    BY <1>2, <1>3, <2>1
  <2> QED BY ONLY <1>1, <2>2, FunctionIsSeq
<1>5. ASSUME NEW b \in 1..q, NEW j \in 1..NemBlock PROVE blocks[b][j] = payload[(b - 1) * NemBlock + j]
  <2>1. PICK u \in Nat, v \in Nat : u = (b - 1) * NemBlock /\ v = b * NemBlock /\ v = u + NemBlock /\ v <= NemBlock * q
    BY <1>1, BlockPlaces
  <2>2. blocks[b] = SubSeq(payload, u + 1, v)
    BY <1>2, <1>3, <2>1
  <2>3. payload \in Seq(Nat) /\ v <= Len(payload)
    <3>1. PICK w \in Nat : w = NemBlock * q
      BY <1>1
    <3> QED BY <2>1, <3>1 DEF Sized
  <2>4. SubSeq(payload, u + 1, v)[j] = payload[u + j]
    BY <1>1, <2>1, <2>3
  <2> QED BY <2>1, <2>2, <2>4
<1> QED BY <1>3, <1>4, <1>5

\* The padded one.
LEMMA PaddedBlock ==
  ASSUME NEW payload, NEW q, NEW r, Sized(payload, q, r)
  PROVE  /\ LastBlock(payload) \in Seq(Nat) /\ Len(LastBlock(payload)) = NemBlock
         /\ \A j \in 1..NemBlock :
              LastBlock(payload)[j] = IF j <= r THEN payload[NemBlock * q + j] ELSE NemBlock - r
<1>1. PICK w \in Nat, pad \in Nat :
        /\ w = NemBlock * q /\ pad = NemBlock - r /\ Len(payload) = w + r /\ payload \in Seq(Nat) /\ r \in Nat
        /\ (Len(payload) - r) + 1 = w + 1 /\ NemBlock = r + pad /\ NemBlock \in Nat
  <2>1. /\ NemBlock \in Nat /\ payload \in Seq(Nat) /\ q \in Nat /\ r \in Nat /\ r < NemBlock
        /\ Len(payload) = NemBlock * q + r
    BY TreeAssumption DEF Sized
  <2>2. PICK w \in Nat : w = NemBlock * q
    BY <2>1
  <2>3. NemBlock - r \in Nat /\ NemBlock = r + (NemBlock - r)
    BY <2>1
  <2> QED BY <2>1, <2>2, <2>3
<1>2. PICK rest : rest = SubSeq(payload, w + 1, w + r)
  OBVIOUS
<1>3. rest \in Seq(Nat) /\ Len(rest) = r /\ \A j \in 1..r : rest[j] = payload[w + j]
  <2>1. PICK m \in Nat, n \in Nat : m = w + 1 /\ n = w + r
    BY <1>1
  <2>2. \A i \in m..n : payload[i] \in Nat
    <3>1. m..n \subseteq 1..Len(payload)
      BY <1>1, <2>1
    <3>2. \A i \in 1..Len(payload) : payload[i] \in Nat
      BY <1>1, ElementOfSeq
    <3> QED BY <3>1, <3>2
  <2>3. /\ SubSeq(payload, m, n) \in Seq(Nat) /\ Len(SubSeq(payload, m, n)) = IF m <= n THEN n - m + 1 ELSE 0
        /\ \A i \in 1..(n - m + 1) : SubSeq(payload, m, n)[i] = payload[m + i - 1]
    <3>1. m \in Int /\ n \in Int
      OBVIOUS
    <3> QED BY ONLY <2>2, <3>1, SubSeqProperties
  <2>4. n - m + 1 = r /\ (~(m <= n) => r = 0) /\ \A j \in 1..r : m + j - 1 = w + j
    <3>1. r \in Nat /\ w \in Nat
      BY <1>1
    <3> QED BY ONLY <2>1, <3>1
  <2> QED BY <1>2, <2>1, <2>3, <2>4
<1>4. PICK padding : padding = [k \in 1..pad |-> pad]
  OBVIOUS
<1>5. padding \in Seq(Nat) /\ Len(padding) = pad /\ \A j \in 1..pad : padding[j] = pad
  <2>1. padding \in [1..pad -> Nat] /\ \A j \in 1..pad : padding[j] = pad
    BY <1>4
  <2> QED BY <2>1, FunctionIsSeq
<1>6. LastBlock(payload) = rest \o padding
  BY <1>1, <1>2, <1>4 DEF LastBlock, Sized
<1>7. /\ rest \o padding \in Seq(Nat) /\ Len(rest \o padding) = r + pad
      /\ \A j \in 1..(r + pad) : (rest \o padding)[j] = IF j <= r THEN rest[j] ELSE padding[j - r]
  <2>1. /\ rest \o padding \in Seq(Nat) /\ Len(rest \o padding) = Len(rest) + Len(padding)
        /\ \A j \in 1..(Len(rest) + Len(padding)) :
             (rest \o padding)[j] = IF j <= Len(rest) THEN rest[j] ELSE padding[j - Len(rest)]
    BY <1>3, <1>5, ConcatProperties
  <2> QED BY <1>3, <1>5, <2>1
<1>8. ASSUME NEW j \in 1..NemBlock
      PROVE  LastBlock(payload)[j] = IF j <= r THEN payload[w + j] ELSE pad
  <2>1. CASE j <= r
    <3>1. j \in 1..r /\ j \in 1..(r + pad)
      BY <1>1, <2>1
    <3> QED BY <1>3, <1>6, <1>7, <2>1, <3>1
  <2>2. CASE ~(j <= r)
    <3>1. j - r \in 1..pad
      BY <1>1, <2>2
    <3> QED BY <1>1, <1>5, <1>6, <1>7, <2>2, <3>1
  <2> QED BY <2>1, <2>2
<1> QED BY <1>1, <1>6, <1>7, <1>8

\* The padded block is one block.
LEMMA LastIsOne ==
  ASSUME NEW s \in Seq(Nat), Len(s) = NemBlock
  PROVE  Len(CipherBlocks(s)) = 1 /\ CipherBlocks(s)[1] = s
<1>1. NemBlock \in Nat \ {0} /\ NemBlock \div NemBlock = 1
  BY TreeAssumption, OneBlock
<1>2. CipherBlocks(s) = [b \in 1..1 |-> SubSeq(s, (b - 1) * NemBlock + 1, b * NemBlock)]
  BY <1>1 DEF CipherBlocks
<1>3. (1 - 1) * NemBlock + 1 = 1 /\ 1 * NemBlock = NemBlock
  BY <1>1
<1>4. PICK blocks : blocks = CipherBlocks(s)
  OBVIOUS
<1>5. blocks[1] = SubSeq(s, 1, NemBlock)
  BY <1>2, <1>3, <1>4
<1>6. SubSeq(s, 1, NemBlock) = s
  BY <1>1
<1>7. Len(blocks) = 1
  <2>1. blocks \in Seq({blocks[1]})
    BY <1>2, <1>4
  <2> QED BY <1>2, <1>4, <2>1
<1> QED BY <1>4, <1>5, <1>6, <1>7

\* The sealed message: a chain over the whole blocks and the padded one.
LEMMA SealedIsChain ==
  ASSUME NEW key, NEW iv, NEW payload, NEW q, NEW r, Sized(payload, q, r)
  PROVE  /\ Len(InTwo(key, iv, payload)) = q + 1 /\ DOMAIN InTwo(key, iv, payload) = 1..(q + 1)
         /\ \A b \in 1..(q + 1) :
              InTwo(key, iv, payload)[b] =
                Block(key, IF b = 1 THEN iv ELSE InTwo(key, iv, payload)[b - 1],
                      IF b <= q THEN CipherBlocks(payload)[b] ELSE LastBlock(payload))
<1>1. PICK blocks, last : blocks = CipherBlocks(payload) /\ last = LastBlock(payload)
  OBVIOUS
<1>2. Len(blocks) = q /\ q \in Nat
  BY <1>1, WholeBlocks DEF Sized
<1>3. Len(CipherBlocks(last)) = 1 /\ CipherBlocks(last)[1] = last
  BY <1>1, PaddedBlock, LastIsOne
<1>4. PICK c : /\ Chain(c, key, iv, blocks, q)
               /\ aes_cbc_encrypt(key, iv, blocks) = [iv |-> c[q], out |-> [b \in 1..q |-> c[b]]]
  BY <1>2, EncryptChains
<1>5. PICK d : /\ Chain(d, key, c[q], CipherBlocks(last), 1)
               /\ aes_cbc_encrypt(key, c[q], CipherBlocks(last)) = [iv |-> d[1], out |-> [b \in 1..1 |-> d[b]]]
  <2>1. Len(CipherBlocks(last)) \in Nat
    BY <1>3
  <2>2. PICK v : v = c[q]
    OBVIOUS
  <2>3. PICK one : one = CipherBlocks(last)
    OBVIOUS
  <2>4. \E d : /\ Chain(d, key, v, one, Len(one))
               /\ aes_cbc_encrypt(key, v, one) = [iv |-> d[Len(one)], out |-> [b \in 1..Len(one) |-> d[b]]]
    BY <2>1, <2>3, EncryptChains
  <2> QED BY <1>3, <2>2, <2>3, <2>4
<1>6. d[1] = Block(key, c[q], last)
  BY <1>3, <1>5 DEF Chain
<1>7. PICK s, t : s = [b \in 1..q |-> c[b]] /\ t = [b \in 1..1 |-> d[b]]
  OBVIOUS
<1>8. InTwo(key, iv, payload) = s \o t
  <2>1. PICK w, l : w = aes_cbc_encrypt(key, iv, blocks) /\ l = aes_cbc_encrypt(key, c[q], CipherBlocks(last))
    OBVIOUS
  <2>2. w.iv = c[q] /\ w.out = s /\ l.out = t
    BY <1>4, <1>5, <1>7, <2>1
  <2>3. InTwo(key, iv, payload) = w.out \o aes_cbc_encrypt(key, w.iv, CipherBlocks(last)).out
    BY <1>1, <2>1 DEF InTwo
  <2> QED BY <2>1, <2>2, <2>3
<1>9. PICK S : S = {c[b] : b \in 1..q} \cup {d[1]}
  OBVIOUS
<1>10. s \in Seq(S) /\ t \in Seq(S) /\ Len(s) = q /\ Len(t) = 1 /\ t[1] = d[1]
  <2>1. s \in [1..q -> S] /\ t \in [1..1 -> S] /\ t[1] = d[1]
    BY <1>7, <1>9
  <2> QED BY <1>2, <2>1, FunctionIsSeq
<1>11. /\ s \o t \in Seq(S) /\ Len(s \o t) = q + 1 /\ DOMAIN (s \o t) = 1..(q + 1)
       /\ \A b \in 1..q : (s \o t)[b] = s[b]
       /\ (s \o t)[q + 1] = t[1]
  <2>1. /\ s \o t \in Seq(S) /\ Len(s \o t) = Len(s) + Len(t)
        /\ \A b \in 1..(Len(s) + Len(t)) : (s \o t)[b] = IF b <= Len(s) THEN s[b] ELSE t[b - Len(s)]
    BY <1>10, ConcatProperties
  <2>2. DOMAIN (s \o t) = 1..Len(s \o t)
    BY <2>1, LenProperties
  <2>3. q + 1 \in 1..(q + 1) /\ ~(q + 1 <= q) /\ (q + 1) - q = 1 /\ \A b \in 1..q : b \in 1..(q + 1) /\ b <= q
    BY <1>2
  <2> QED BY ONLY <1>10, <2>1, <2>2, <2>3
<1>12. \A b \in 1..q : s[b] = c[b]
  BY <1>7
<1>13. c[0] = iv /\ \A b \in 1..q : c[b] = Block(key, c[b - 1], blocks[b])
  BY <1>2, <1>4 DEF Chain
<1>14. PICK sealed : sealed = s \o t
  OBVIOUS
<1>15. ASSUME NEW b \in 1..(q + 1)
       PROVE  sealed[b] = Block(key, IF b = 1 THEN iv ELSE sealed[b - 1], IF b <= q THEN blocks[b] ELSE last)
  <2>1. CASE b <= q
    <3>1. b \in 1..q /\ (b # 1 => b - 1 \in 1..q) /\ (b = 1 => b - 1 = 0)
      BY <1>2, <2>1
    <3>2. c[b - 1] = IF b = 1 THEN iv ELSE sealed[b - 1]
      BY <1>11, <1>12, <1>13, <1>14, <3>1
    <3> QED BY <1>11, <1>12, <1>13, <1>14, <2>1, <3>1, <3>2
  <2>2. CASE b = q + 1
    <3>1. ~(b <= q) /\ b - 1 = q /\ (b # 1 => q \in 1..q) /\ (b = 1 => q = 0)
      BY <1>2, <2>2
    <3>2. c[q] = IF b = 1 THEN iv ELSE sealed[b - 1]
      BY <1>11, <1>12, <1>13, <1>14, <3>1
    <3> QED BY <1>6, <1>10, <1>11, <1>14, <2>2, <3>1, <3>2
  <2> QED BY <1>2, <2>1, <2>2
<1> QED BY <1>1, <1>8, <1>11, <1>14, <1>15

\* With the same key and iv every block opens to what it was sealed from.
LEMMA ChainOpens ==
  ASSUME NEW key, NEW iv, NEW s, NEW n \in Nat, NEW bytes, Len(s) = n, DOMAIN s = 1..n,
         \A b \in 1..n : s[b] = Block(key, IF b = 1 THEN iv ELSE s[b - 1], bytes[b])
  PROVE  aes_cbc_decrypt(key, iv, s) =
           [k \in 1..(NemBlock * n) |-> bytes[((k - 1) \div NemBlock) + 1][((k - 1) % NemBlock) + 1]]
<1>1. PICK plain : plain = [b \in 1..n |->
        IF s[b][1] = key /\ s[b][2] = (IF b = 1 THEN iv ELSE s[b - 1]) THEN s[b][3]
        ELSE [k \in 1..NemBlock |-> 0]]
  OBVIOUS
<1>2. aes_cbc_decrypt(key, iv, s) =
        [k \in 1..(NemBlock * n) |-> plain[((k - 1) \div NemBlock) + 1][((k - 1) % NemBlock) + 1]]
  BY <1>1 DEF aes_cbc_decrypt
<1>3. ASSUME NEW b \in 1..n PROVE plain[b] = bytes[b]
  <2>1. PICK before : before = IF b = 1 THEN iv ELSE s[b - 1]
    OBVIOUS
  <2>2. s[b][1] = key /\ s[b][2] = before /\ s[b][3] = bytes[b]
    BY <2>1 DEF Block
  <2> QED BY <1>1, <2>1, <2>2
<1>4. ASSUME NEW k \in 1..(NemBlock * n) PROVE ((k - 1) \div NemBlock) + 1 \in 1..n
  <2>1. NemBlock \in Nat \ {0} /\ k - 1 \in Nat
    BY TreeAssumption
  <2>2. PICK d \in Nat, e \in Nat : d = (k - 1) \div NemBlock /\ k - 1 = NemBlock * d + e
    BY <2>1, Divided
  <2>3. d < n
    <3> SUFFICES ASSUME n <= d PROVE FALSE
      OBVIOUS
    <3>1. PICK u \in Nat, v \in Nat, w \in Nat : u = NemBlock * n /\ v = NemBlock * d /\ w = d - n
      BY <2>1
    <3>2. NemBlock * w \in Nat /\ v = u + NemBlock * w
      BY <2>1, <3>1
    <3>3. PICK x \in Nat : v = u + x
      BY <3>2
    <3>4. k \in Int /\ k <= u /\ k - 1 = v + e
      BY <2>2, <3>1
    <3> QED BY ONLY <3>3, <3>4, u \in Nat, v \in Nat, x \in Nat, e \in Nat
  <2> QED BY <2>2, <2>3
<1>5. \A k \in 1..(NemBlock * n) : plain[((k - 1) \div NemBlock) + 1] = bytes[((k - 1) \div NemBlock) + 1]
  BY <1>3, <1>4
<1> QED BY ONLY <1>2, <1>5

\* A message opened with the key and iv it was sealed with: the payload, and
\* behind it the number of bytes that were missing, as often.
LEMMA SealedOpens ==
  ASSUME NEW key, NEW iv, NEW payload, NEW q, NEW r, Sized(payload, q, r)
  PROVE  \E N \in Nat, plain \in Seq(Nat) :
           /\ plain = aes_cbc_decrypt(key, iv, InTwo(key, iv, payload))
           /\ N = NemBlock - r /\ N # 0 /\ Len(plain) = Len(payload) + N
           /\ \A k \in 1..Len(payload) : plain[k] = payload[k]
           /\ plain[Len(payload) + N] = N
<1>1. PICK B \in Nat \ {0} : B = NemBlock
  BY TreeAssumption
<1>2. PICK s, bytes :
        /\ s = InTwo(key, iv, payload)
        /\ bytes = [b \in 1..(q + 1) |-> IF b <= q THEN CipherBlocks(payload)[b] ELSE LastBlock(payload)]
  OBVIOUS
<1>3. q \in Nat /\ r \in Nat /\ r < B /\ payload \in Seq(Nat) /\ Len(payload) = B * q + r /\ Len(payload) \in Nat
  BY <1>1 DEF Sized
<1>4. PICK M : M = B * (q + 1)
  OBVIOUS
<1>5. PICK w \in Nat, N \in Nat : w = B * q /\ N = B - r /\ N # 0 /\ M = w + B /\ Len(payload) = w + r
                                  /\ M = Len(payload) + N /\ M \in Nat
  <2>1. PICK w \in Nat : w = B * q
    BY <1>3
  <2>2. M = w + B
    BY <1>3, <1>4, <2>1
  <2>3. Len(payload) = w + r
    BY <1>3, <2>1
  <2>4. r \in Nat /\ r < B
    BY <1>3
  <2> QED BY ONLY <2>1, <2>2, <2>3, <2>4, w \in Nat, B \in Nat
<1>6. PICK plain : plain = aes_cbc_decrypt(key, iv, s)
  OBVIOUS
<1>7. plain = [k \in 1..M |-> bytes[((k - 1) \div B) + 1][((k - 1) % B) + 1]]
  <2>1. PICK n \in Nat : n = q + 1
    BY <1>3
  <2>2. Len(s) = n /\ DOMAIN s = 1..n
    BY <1>2, <2>1, SealedIsChain
  <2>3. \A b \in 1..n : s[b] = Block(key, IF b = 1 THEN iv ELSE s[b - 1], bytes[b])
    BY <1>2, <2>1, SealedIsChain
  <2>4. aes_cbc_decrypt(key, iv, s) =
          [k \in 1..(NemBlock * n) |-> bytes[((k - 1) \div NemBlock) + 1][((k - 1) % NemBlock) + 1]]
    BY ONLY <2>2, <2>3, n \in Nat, ChainOpens
  <2> QED BY ONLY <1>1, <1>4, <1>6, <2>1, <2>4
<1>8. ASSUME NEW k \in 1..M
      PROVE  plain[k] = IF k <= Len(payload) THEN payload[k] ELSE N
  <2>1. k - 1 \in Nat /\ k \in Nat
    OBVIOUS
  <2>2. PICK d \in Nat, e \in Nat : d = (k - 1) \div B /\ e = (k - 1) % B /\ e < B /\ k - 1 = B * d + e
    BY <2>1, Divided
  <2>3. plain[k] = bytes[d + 1][e + 1] /\ e + 1 \in 1..B
    BY <1>7, <2>2
  <2>4. CASE d < q
    <3>1. PICK b \in 1..q : b = d + 1 /\ b - 1 = d
      BY <1>3, <2>4
    <3>2. bytes[d + 1] = CipherBlocks(payload)[b]
      BY <1>2, <1>3, <3>1
    <3>3. CipherBlocks(payload)[b][e + 1] = payload[(b - 1) * NemBlock + (e + 1)]
      BY <1>1, <2>3, WholeBlocks
    <3>4. (b - 1) * NemBlock + (e + 1) = k
      <4>1. PICK u \in Nat : u = B * d
        OBVIOUS
      <4>2. (b - 1) * NemBlock = u
        BY <1>1, <3>1, <4>1
      <4>3. k - 1 = u + e
        BY <2>2, <4>1
      <4> QED BY ONLY <2>1, <4>2, <4>3, u \in Nat, e \in Nat
    <3>5. k <= Len(payload)
      <4>1. PICK u \in Nat, v \in Nat : u = B * d /\ v = b * B /\ v = u + B /\ v <= w
        BY <1>3, <1>5, <3>1, BlockPlaces
      <4>2. k - 1 = u + e /\ r \in Nat /\ Len(payload) = w + r
        BY <1>3, <1>5, <2>2, <4>1
      <4> QED BY ONLY <2>1, <2>2, <4>1, <4>2, u \in Nat, v \in Nat, w \in Nat, e \in Nat, B \in Nat
    <3> QED BY <2>3, <3>2, <3>3, <3>4, <3>5
  <2>5. CASE d = q
    <3>1. k = w + (e + 1)
      BY <1>5, <2>1, <2>2, <2>5
    <3>2. bytes[d + 1] = LastBlock(payload)
      BY <1>2, <1>3, <2>5
    <3>3. LastBlock(payload)[e + 1] = IF e + 1 <= r THEN payload[w + (e + 1)] ELSE N
      BY <1>1, <1>5, <2>3, PaddedBlock
    <3>4. k <= Len(payload) <=> e + 1 <= r
      BY <1>3, <1>5, <3>1
    <3> QED BY <2>3, <3>1, <3>2, <3>3, <3>4
  <2>6. d <= q
    <3> SUFFICES ASSUME q < d PROVE FALSE
      BY <1>3
    <3>1. PICK x \in Nat : d = q + 1 + x
      BY <1>3
    <3>2. B * d = B * q + B + B * x /\ B * x \in Nat
      BY <1>3, <3>1
    <3>3. PICK y \in Nat : k - 1 = w + B + y + e
      BY <1>5, <2>2, <3>2
    <3>4. k <= w + B
      BY <1>5
    <3> QED BY ONLY <2>1, <3>3, <3>4, w \in Nat, B \in Nat, y \in Nat, e \in Nat
  <2> QED BY <1>3, <2>4, <2>5, <2>6
<1>9. plain \in [1..M -> Nat]
  <2>1. \A k \in 1..Len(payload) : payload[k] \in Nat
    BY <1>3, ElementOfSeq
  <2>2. ASSUME NEW k \in 1..M PROVE plain[k] \in Nat
    <3>1. k <= Len(payload) => k \in 1..Len(payload)
      BY <1>3
    <3> QED BY <1>8, <2>1, <3>1
  <2>3. plain = [k \in 1..M |-> plain[k]]
    BY <1>7
  <2> QED BY <2>2, <2>3
<1>10. plain \in Seq(Nat) /\ Len(plain) = M
  BY <1>5, <1>9, FunctionIsSeq
<1>11. /\ \A k \in 1..Len(payload) : k \in 1..M /\ k <= Len(payload)
       /\ M \in 1..M /\ ~(M <= Len(payload))
  BY ONLY <1>3, <1>5, M \in Nat, N \in Nat
<1>12. (\A k \in 1..Len(payload) : plain[k] = payload[k]) /\ plain[M] = N
  BY <1>8, <1>11
<1> QED BY <1>1, <1>2, <1>5, <1>6, <1>10, <1>12

\* A message opens to its payload, and to its length, whichever point both sides
\* were given; for what is no point there is none.
LEMMA MessageIsRight ==
  ASSUME HalvesAreNumbers, KeysAreFound, KeeperOnItsPath, NEW instead \in {Each, SmallOrder, NotAPoint},
         NEW payload \in Payloads, SendMessage(instead, payload)
  PROVE  MessageReads'
<1>1. PICK n : n = NodeAt(route)
  OBVIOUS
<1>2. PICK m : IsBare(m) /\ m.curve = family /\ Peer = hdnode_fill_public_key(m)
  BY PeerIsNode DEF KeeperOnItsPath
<1>3. PICK f, g, P, Q : /\ f = hdnode_fill_public_key(n) /\ g = hdnode_fill_public_key(m)
                        /\ P = Of25519(n) /\ Q = Of25519(m)
  OBVIOUS
<1>4. /\ IsBare(n) /\ n.curve = "keccak" /\ keeper.curve = "keccak" /\ hdnode_fill_public_key(keeper) = f
      /\ keeper.private_key = n.private_key /\ keeper.private_key_extension = n.private_key_extension
      /\ m.curve = "keccak"
  BY <1>1, <1>2, <1>3, KeepersNode DEF SendMessage
<1>5. ~params(n) /\ ~params(m)
  BY <1>4 DEF params, get_curve_by_name, CurveInfo
<1>6. /\ g.curve = "keccak" /\ g.private_key = m.private_key /\ g.private_key_extension = m.private_key_extension
      /\ g.public_key = <<1, Q>> /\ f.public_key = <<1, P>> /\ hdnode_fill_public_key(g) = g
  <2>1. KeyOf(n) = <<1, P>> /\ KeyOf(m) = <<1, Q>>
    BY <1>3, <1>5 DEF KeyOf
  <2>2. f.public_key = KeyOf(n)
    BY <1>3, <1>4, FilledOnce, FieldsKept
  <2>3. /\ g.curve = m.curve /\ g.private_key = m.private_key
        /\ g.private_key_extension = m.private_key_extension /\ g.public_key = KeyOf(m)
        /\ hdnode_fill_public_key(g) = g
    BY <1>2, <1>3, FilledOnce, FieldsKept
  <2> QED BY <1>4, <2>1, <2>2, <2>3
<1>7. /\ P # SmallOrder /\ Q # SmallOrder /\ P # NotAPoint /\ Q # NotAPoint /\ SmallOrder # NotAPoint
      /\ Each # SmallOrder /\ Each # NotAPoint
      /\ Of25519(keeper) = P /\ Of25519(g) = Q
  BY <1>3, <1>4, <1>6 DEF Of25519, SmallOrder, NotAPoint, Each
\* The points that both sides were given.
<1>22. PICK ours, theirs : ours = PointOf(instead, Peer) /\ theirs = PointOf(instead, keeper)
  OBVIOUS
<1>23. PICK box : box = hdnode_nem_encrypt(keeper, ours, MessageIv, "salt", payload)
  OBVIOUS
<1>24. answer' = [call |-> "message", payload |-> payload, instead |-> instead,
                  result |-> IF ~box.ok THEN box
                             ELSE hdnode_nem_decrypt(g, theirs, MessageIv, "salt", box.buffer)]
  <2>1. Peer = g
    BY <1>2, <1>3
  <2> QED BY <1>22, <1>23, <2>1 DEF SendMessage
<1>25. CASE instead = NotAPoint
  <2>1. ours = NotAPoint
    BY <1>7, <1>22, <1>25 DEF PointOf
  <2>2. hdnode_get_nem_shared_key(keeper, ours, "salt") = [ok |-> FALSE]
    BY <2>1 DEF hdnode_get_nem_shared_key
  <2>3. box = [ok |-> FALSE]
    <3>1. PICK shared : shared = hdnode_get_nem_shared_key(keeper, ours, "salt")
      OBVIOUS
    <3>2. shared = [ok |-> FALSE] /\ ~shared.ok
      BY <2>2, <3>1
    <3> QED BY <1>23, <3>1, <3>2, Zenon DEF hdnode_nem_encrypt
  <2>4. answer' = [call |-> "message", payload |-> payload, instead |-> instead, result |-> [ok |-> FALSE]]
    BY <1>24, <2>3
  <2> QED BY <1>25, <2>4 DEF MessageReads
<1>26. SUFFICES ASSUME instead # NotAPoint PROVE MessageReads'
  BY <1>25
<1>27. PICK secret : /\ SharedPoint(keeper, ours) = secret /\ SharedPoint(g, theirs) = secret
                     /\ ours # NotAPoint /\ theirs # NotAPoint
  <2>1. CASE instead = Each
    <3>1. ours = Q /\ theirs = P
      BY <1>2, <1>3, <1>4, <1>6, <1>22, <2>1 DEF PointOf
    <3>2. SharedPoint(keeper, ours) = {P, Q} /\ SharedPoint(g, theirs) = {P, Q}
      BY <1>7, <3>1 DEF SharedPoint
    <3> QED BY <1>7, <3>1, <3>2
  <2>2. CASE instead = SmallOrder
    <3>1. ours = SmallOrder /\ theirs = SmallOrder
      BY <1>7, <1>22, <2>2 DEF PointOf
    <3>2. SharedPoint(keeper, ours) = {} /\ SharedPoint(g, theirs) = {}
      BY <3>1 DEF SharedPoint
    <3> QED BY <1>7, <3>1, <3>2
  <2> QED BY <1>26, <2>1, <2>2
<1>8. PICK key : key = <<secret, "salt">>
  OBVIOUS
<1>9. hdnode_get_nem_shared_key(keeper, ours, "salt") = [ok |-> TRUE, key |-> key]
  BY <1>4, <1>8, <1>27 DEF hdnode_get_nem_shared_key
<1>10. hdnode_get_nem_shared_key(g, theirs, "salt") = [ok |-> TRUE, key |-> key]
  BY <1>6, <1>8, <1>27 DEF hdnode_get_nem_shared_key
<1>11. PICK sealed : sealed = InTwo(key, MessageIv, payload)
  OBVIOUS
<1>12. box = [ok |-> TRUE, buffer |-> sealed]
  <2>1. PICK shared : shared = hdnode_get_nem_shared_key(keeper, ours, "salt")
    OBVIOUS
  <2>2. shared.ok /\ shared.key = key
    BY <1>9, <2>1
  <2> QED BY <1>11, <1>23, <2>1, <2>2 DEF hdnode_nem_encrypt
<1>13. PICK plain : plain = aes_cbc_decrypt(key, MessageIv, sealed)
  OBVIOUS
<1>14. hdnode_nem_decrypt(g, theirs, MessageIv, "salt", sealed) = [ok |-> TRUE, buffer |-> plain]
  <2>1. PICK shared : shared = hdnode_get_nem_shared_key(g, theirs, "salt")
    OBVIOUS
  <2>2. shared.ok /\ shared.key = key
    BY <1>10, <2>1
  <2> QED BY <1>13, <2>1, <2>2 DEF hdnode_nem_decrypt
<1>15. answer' = [call |-> "message", payload |-> payload, instead |-> instead,
                  result |-> [ok |-> TRUE, buffer |-> plain]]
  <2>1. box.ok /\ box.buffer = sealed
    BY <1>12
  <2> QED BY <1>14, <1>24, <2>1
<1>16. PICK q, r : Sized(payload, q, r)
  <2>1. payload \in Seq(Nat) /\ Len(payload) \in Nat /\ NemBlock \in Nat \ {0}
    BY DerivationAssumption, TreeAssumption
  <2>2. PICK a \in Nat : a = Len(payload)
    BY <2>1
  <2>3. \E d \in Nat, e \in Nat : d = a \div NemBlock /\ e = a % NemBlock /\ e < NemBlock /\ a = NemBlock * d + e
    BY <2>1, Divided
  <2> QED BY <2>1, <2>2, <2>3 DEF Sized
<1>17. PICK N \in Nat : /\ plain \in Seq(Nat) /\ N # 0 /\ Len(plain) = Len(payload) + N
                        /\ \A k \in 1..Len(payload) : plain[k] = payload[k]
                        /\ plain[Len(payload) + N] = N
  <2>1. PICK iv : iv = MessageIv
    OBVIOUS
  <2>2. PICK N \in Nat, p \in Seq(Nat) :
           /\ p = aes_cbc_decrypt(key, iv, InTwo(key, iv, payload))
           /\ N # 0 /\ Len(p) = Len(payload) + N
           /\ \A k \in 1..Len(payload) : p[k] = payload[k]
           /\ p[Len(payload) + N] = N
    BY <1>16, SealedOpens
  <2> QED BY <1>11, <1>13, <2>1, <2>2
<1>18. payload \in Seq(Nat) /\ Len(payload) \in Nat
  BY DerivationAssumption
<1>19. NEM_DECRYPTED_SIZE(plain) = Len(payload)
  <2>1. NEM_PADDING_SIZE(plain) = N
    BY <1>17, <1>18 DEF NEM_PADDING_SIZE
  <2> QED BY <1>17, <1>18, <2>1 DEF NEM_DECRYPTED_SIZE
<1>20. SubSeq(plain, 1, Len(payload)) = payload
  <2>1. PICK L \in Nat : L = Len(payload)
    BY <1>18
  <2>2. SubSeq(plain, 1, L) \in Seq(Nat) /\ Len(SubSeq(plain, 1, L)) = L
        /\ \A k \in 1..L : SubSeq(plain, 1, L)[k] = plain[k]
    BY <1>17, <2>1
  <2> QED BY ONLY <1>17, <1>18, <2>1, <2>2, SeqEqual
<1>21. plain # <<>>
  BY <1>17, <1>18
<1> QED BY <1>15, <1>19, <1>20, <1>21, <1>26 DEF MessageReads

\* Answers to other calls, or none.
LEMMA NothingShared ==
  ASSUME answer'.call \notin {"share", "message"}
  PROVE  PeersAgree'
BY DEF PeersAgree, SharedKeysAgree, MessageReads

\* The inductive step.
LEMMA PeersStep ==
  ASSUME HalvesAreNumbers, KeysAreFound, OrderIsPrime, DInv, PeersAgree, [DeriveNext]_derivevars
  PROVE  PeersAgree'
<1>0. KeeperOnItsPath
  BY DEF DInv
<1>1. ASSUME NEW small \in BOOLEAN, Share(small) PROVE PeersAgree'
  <2>1. answer'.call = "share"
    BY <1>1 DEF Share
  <2>2. SharedKeysAgree'
    BY <1>0, <1>1, ShareIsRight
  <2> QED BY <2>1, <2>2 DEF PeersAgree, MessageReads
<1>2. ASSUME NEW instead \in {Each, SmallOrder, NotAPoint}, NEW payload \in Payloads,
             SendMessage(instead, payload)
      PROVE  PeersAgree'
  <2>1. answer'.call = "message"
    BY <1>2 DEF SendMessage
  <2>2. MessageReads'
    BY <1>0, <1>2, MessageIsRight
  <2> QED BY <2>1, <2>2 DEF PeersAgree, SharedKeysAgree
<1>3. CASE UNCHANGED derivevars
  <2>1. UNCHANGED <<family, keeper, answer>>
    BY <1>3 DEF derivevars
  <2> QED BY <2>1 DEF PeersAgree, SharedKeysAgree, MessageReads, params
<1>4. ASSUME Idle, UNCHANGED answer PROVE PeersAgree'
  BY <1>4, NothingShared DEF Idle, Nothing
<1>5. CASE \/ \E i \in ChildIndices : Derive(i) \/ Watch(i)
           \/ FillPublicKey \/ Publish \/ Restore \/ Clear
  BY <1>4, <1>5 DEF Derive, Watch, FillPublicKey, Publish, Restore, Clear
<1>6. CASE Taken
  BY <1>6, NothingShared DEF Taken, Nothing
<1>7. CASE Sign
  BY <1>7, NothingShared DEF Sign
<1>8. ASSUME NEW use_public, NEW name, NEW network, ReadText(use_public, name, network) PROVE PeersAgree'
  BY <1>8, NothingShared DEF ReadText
<1>9. ASSUME NEW i, NEW addrformat, NEW addrsize, ReceiveAt(i, addrformat, addrsize) PROVE PeersAgree'
  BY <1>9, NothingShared DEF ReceiveAt
<1>10. ASSUME NEW path, InOneGo(path) \/ GetKey(path) PROVE PeersAgree'
  <2>1. answer'.call \in {"path", "key"}
    BY <1>10 DEF InOneGo, GetKey
  <2> QED BY <2>1, NothingShared
<1> QED BY <1>1, <1>2, <1>3, <1>5, <1>6, <1>7, <1>8, <1>9, <1>10 DEF DeriveNext

\* Two owners of keys come to one secret or to none, and what one seals for
\* the other opens as it was, for every payload and every node of the keeper's tree.
THEOREM PeersShareSecrets ==
  ASSUME HalvesAreNumbers, KeysAreFound, OrderIsPrime
  PROVE  DeriveSpec => []PeersAgree
<1>1. DeriveInit => PeersAgree
  BY DEF DeriveInit, Nothing, PeersAgree, SharedKeysAgree, MessageReads
<1>2. DInv /\ PeersAgree /\ [DeriveNext]_derivevars => PeersAgree'
  BY PeersStep
<1> QED BY <1>1, <1>2, NodesOnTheirPaths, PTL DEF DeriveSpec
=============================================================================
