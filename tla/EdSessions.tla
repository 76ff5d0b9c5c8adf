------------------------------ MODULE EdSessions ------------------------------
(***************************************************************************)
(* What callers do with ed25519-donna: sign and open, sign collectively,   *)
(* agree on secrets, read keys, compute with scalars and points.  The      *)
(* properties compare what the limbs, tables and windows give with the     *)
(* group's law over whole numbers.                                         *)
(***************************************************************************)
EXTENDS Ed25519, FiniteSets

CONSTANTS
  EdSecrets,      \* secret keys (also of nonces)
  EdMessages,
  EdTeams,        \* who signs together, in order: sequences of [sk, nonce]
  EdStrangers,    \* public keys from elsewhere: points or not
  EdElements,     \* 32 bytes to read as a point or to map to one
  EdScalars,      \* scalars to compute with, as pairs of halves
  EdLimbs,        \* numbers in limbs
  Narrow,         \* a field in limbs: [limbs, width, fold, word]
  Wider           \* another order, with more limbs: [limbs, width, bits, byte, order]

Limb == INSTANCE Field25519 WITH FieldLimbs <- Narrow.limbs, LimbWidth <- Narrow.width,
                                 Fold19 <- Narrow.fold, FieldWord <- Narrow.word

NarrowRoom ==
  LET full == 2^Narrow.width
  IN [low |-> (Narrow.limbs \div 2) - 1, limbs |-> Narrow.limbs,
      sum |-> Narrow.word \div full, weight |-> (1000 * Narrow.word) \div (full * Narrow.fold),
      scalar |-> Narrow.word \div CurveA24, top |-> (7 * Narrow.word) \div (8 * full),
      slack |-> ((2000 * Narrow.word * Narrow.fold) \div (full * full)) + 1,
      scaled |-> ((1000 * Narrow.fold * CurveA24) \div full) + 1,
      short |-> (2000 * (Narrow.fold + 1)) \div full, carry |-> 16000 \div full]

Law == INSTANCE FieldElements WITH FieldBits <- Limb!LimbedBits, Fold19 <- Narrow.fold, Room <- NarrowRoom

Big == INSTANCE ModM WITH ScalarLimbs <- Wider.limbs, ScalarWidth <- Wider.width,
                          ScalarBits <- Wider.bits, ScalarByte <- Wider.byte, GroupOrder <- Wider.order

VARIABLES
  letter,         \* a signed message under way, or none
  team,           \* the signers, what they committed and signed
  edcall          \* the last call, its arguments and what it returned

edvars == <<letter, team, edcall>>

NoLetter == [m |-> 0]
NoTeam   == [signers |-> <<>>]
NoCall   == [call |-> "none"]

EdInit == letter = NoLetter /\ team = NoTeam /\ edcall = NoCall

EdIdle == edcall = NoCall
Alone  == EdIdle /\ letter = NoLetter /\ team = NoTeam

EdTaken ==
  /\ ~EdIdle
  /\ edcall' = NoCall
  /\ UNCHANGED <<letter, team>>

-----------------------------------------------------------------------------
(* Signing *)

Letter(m, sk, pk) == [m |-> m, pk |-> pk, RS |-> ed25519_sign(m, sk, pk)]

EdSign(sk, m) ==
  /\ Alone
  /\ letter' = Letter(m, sk, ed25519_publickey(sk))
  /\ edcall' = [call |-> "sign", sk |-> sk]
  /\ UNCHANGED team

\* What may have become of a letter before it is opened.
Arrived(loss) ==
  LET S == letter.RS.S
  IN CASE loss = "nothing" -> letter
       [] loss = "S and the order" -> [letter EXCEPT !.RS.S = (@ + GroupOrder) % 2^ScalarBits]
       [] loss = "S and a high bit" -> [letter EXCEPT !.RS.S = (@ + 2^(ScalarBits - 2)) % 2^ScalarBits]
       [] loss = "S zero" -> [letter EXCEPT !.RS.S = 0]
       [] loss = "R negated" -> [letter EXCEPT !.RS.R = (@ + 2^FieldBits) % 2^ScalarBits]
       [] loss = "key negated" -> [letter EXCEPT !.pk = (@ + 2^FieldBits) % 2^ScalarBits]
       [] loss = "another message" -> [letter EXCEPT !.m = @ + 1]

Losses == {"nothing", "S and the order", "S and a high bit", "S zero", "R negated", "key negated",
           "another message"}

EdOpen(l, loss) ==
  /\ EdIdle /\ letter # NoLetter
  /\ edcall' = [call |-> "open", l |-> l, change |-> loss, result |-> ed25519_sign_open(l.m, l.pk, l.RS)]
  /\ UNCHANGED <<letter, team>>

-----------------------------------------------------------------------------
(* Signing together: all commit, what they publish is added up, all sign, *)
(* each when it likes                                                      *)

CosiGather(t, m) ==
  /\ Alone
  /\ team' = [signers |-> t, m |-> m, R |-> [i \in DOMAIN t |-> 0], S |-> [i \in {} |-> 0],
              pks |-> [i \in DOMAIN t |-> ed25519_publickey(t[i].sk)], key |-> 0, sum |-> 0]
  /\ UNCHANGED <<letter, edcall>>

CosiCommit(i) ==
  /\ EdIdle /\ letter = NoLetter
  /\ i \in DOMAIN team.signers /\ team.R[i] = 0
  /\ team' = [team EXCEPT !.R[i] = ed25519_publickey(team.signers[i].nonce)]
  /\ UNCHANGED <<letter, edcall>>

Joint(sums) == [team EXCEPT !.key = sums.pks, !.sum = sums.R]

CosiShare ==
  /\ EdIdle /\ letter = NoLetter /\ team # NoTeam /\ team.key = 0
  /\ \A i \in DOMAIN team.R : team.R[i] # 0
  /\ team' = Joint([of \in {"pks", "R"} |-> ed25519_cosi_combine_publickeys(team[of])])
  /\ UNCHANGED <<letter, edcall>>

Shared == team # NoTeam /\ team.key # 0

CosiSign(i) ==
  /\ EdIdle /\ letter = NoLetter
  /\ Shared /\ i \in DOMAIN team.signers \ DOMAIN team.S
  /\ team' = [team EXCEPT !.S = (i :> ed25519_cosi_sign(team.m, team.signers[i].sk, team.signers[i].nonce,
                                                        team.sum, team.key)) @@ @]
  /\ UNCHANGED <<letter, edcall>>

\* A letter if there is one to send.
Combined(c) ==
  /\ letter' = IF c.result = 0 THEN [m |-> team.m, pk |-> team.key, RS |-> c.sig] ELSE NoLetter
  /\ team' = IF c.result = 0 THEN team ELSE NoTeam
  /\ edcall' = [call |-> "combine", result |-> c.result, key |-> team.key]

CosiCombine ==
  /\ EdIdle /\ letter = NoLetter
  /\ Shared /\ DOMAIN team.S = DOMAIN team.signers
  /\ Combined(ed25519_cosi_combine_signatures_checked(team.sum, [i \in DOMAIN team.signers |-> team.S[i]]))

-----------------------------------------------------------------------------
(* Secrets, points, scalars *)

Half(sk) == ed25519_hash(<<sk>>)[1]

Agree(a, b) ==
  /\ Alone
  /\ edcall' = [call |-> "agree", a |-> a, b |-> b,
                secrets |-> [p \in {<<a, b>>, <<b, a>>} |-> ed25519_scalarmult(p[1], ed25519_publickey(p[2]))],
                shared |-> [p \in {<<a, b>>, <<b, a>>} |->
                              curve25519_scalarmult(Half(p[1]), curve25519_scalarmult_basepoint(Half(p[2])))]]
  /\ UNCHANGED <<letter, team>>

ReadPoint(v) ==
  /\ Alone
  /\ edcall' = [call |-> "read", v |-> v, point |-> ge25519_unpack_vartime(v)]
  /\ UNCHANGED <<letter, team>>

\* As one-way functions into the group do.
MappedSums(points, eights, v, w) ==
  [call |-> "map", p |-> points[v], p8 |-> eights[v], q |-> eights[w],
   sum |-> [sign \in {0, 1} |-> ge25519_add(eights[v], eights[w], sign)]]

MappedEights(points, v, w) == MappedSums(points, [x \in {v, w} |-> ge25519_mul8(points[x])], v, w)

MapPoints(v, w) ==
  /\ Alone
  /\ edcall' = MappedEights([x \in {v, w} |-> ge25519_fromfe_frombytes_vartime(x)], v, w)
  /\ UNCHANGED <<letter, team>>

Compute(x, y) ==
  /\ Alone
  /\ edcall' = [call |-> "scalars", x |-> x, y |-> y]
  /\ UNCHANGED <<letter, team>>

Operate(f, g) ==
  /\ Alone
  /\ edcall' = [call |-> "limbs", f |-> f, g |-> g]
  /\ UNCHANGED <<letter, team>>

EdNext ==
  \/ \E sk \in EdSecrets, m \in EdMessages : EdSign(sk, m)
  \/ \E loss \in Losses : EdOpen(Arrived(loss), loss)
  \/ \E pk \in EdStrangers : EdOpen([letter EXCEPT !.pk = pk], "key")
  \/ \E t \in EdTeams, m \in EdMessages : CosiGather(t, m)
  \/ \E i \in DOMAIN team.signers : CosiCommit(i) \/ CosiSign(i)
  \/ CosiShare
  \/ CosiCombine
  \/ \E a, b \in EdSecrets : Agree(a, b)
  \/ \E v \in EdElements : ReadPoint(v)
  \/ \E v, w \in EdElements : MapPoints(v, w)
  \/ \E x, y \in EdScalars : Compute(x, y)
  \/ \E f, g \in EdLimbs : Operate(f, g)
  \/ EdTaken

EdSpec == EdInit /\ [][EdNext]_edvars
-----------------------------------------------------------------------------
(* Properties *)

Encoded(A) == A[2] + (A[1] % 2) * 2^FieldBits
EncodedPoint(P) == Encoded(Affine(P))
PointAt(p) == <<p.x.v, p.y.v, p.z.v>>
SamePoint(P, Q) == TimesP(P[1], Q[3]) = TimesP(Q[1], P[3]) /\ TimesP(P[2], Q[3]) = TimesP(Q[2], P[3])

HashMod(h) == (((h[2] % GroupOrder) * (2^ScalarBits % GroupOrder)) + h[1]) % GroupOrder
SecretOf(sk) == ed25519_extsk(sk)[1] % GroupOrder
HramOf(l) == HashMod(ed25519_hash(<<l.RS.R, l.pk, l.m>>))

\* A signature is the standard's, for the key that belongs to the secret.
StandardLetter(sk, m) ==
  LET r  == HashMod(ed25519_hash(<<ed25519_extsk(sk)[2], m>>))
      pk == EncodedPoint(PointTimes(SecretOf(sk), BasePoint))
      R  == EncodedPoint(PointTimes(r, BasePoint))
      h  == HashMod(ed25519_hash(<<R, pk, m>>))
  IN [m |-> m, pk |-> pk, RS |-> [R |-> R, S |-> (h * SecretOf(sk) + r) % GroupOrder]]

EdSignatureIsStandard == edcall.call = "sign" => letter = StandardLetter(edcall.sk, letter.m)

\* A letter is opened exactly when S is below the order, the key is a point,
\* and S times the base point less h times the key encodes to R: what was
\* signed opens, alone or together, and no other S does in its place.
OpensByStandard(l) ==
  LET A == ge25519_unpack_negative_vartime(l.pk)
  IN /\ l.RS.S < GroupOrder /\ A # NoPoint
     /\ EncodedPoint(PointSum(PointTimes(l.RS.S, BasePoint), PointTimes(HramOf(l), PointAt(A)))) = l.RS.R

EdOpenIsStandard ==
  edcall.call = "open" =>
    /\ (edcall.result = 0) = OpensByStandard(edcall.l)
    /\ edcall.change = "nothing" => edcall.result = 0
    /\ edcall.change \in {"S and the order", "S and a high bit"} => edcall.result = EdRefused

\* The joint key is the sum of the keys, however many there are, and nobody
\* signs for an empty team.
JointSum ==
  Fold(LAMBDA P, s : PointSum(P, PointTimes(SecretOf(s.sk), BasePoint)), <<0, 1, 1>>, team.signers)

JointKeyIsSum ==
  edcall.call = "combine" =>
    IF edcall.result = 0 THEN letter.pk = EncodedPoint(JointSum) ELSE edcall.key = EdRefused /\ letter = NoLetter

\* Both sides of an exchange end up with the same secret; it is the multiple
\* of the base point by both scalars.
EdSecretsAgree ==
  edcall.call = "agree" =>
    /\ \A p \in DOMAIN edcall.secrets :
         edcall.secrets[p]
           = EncodedPoint(PointTimes((SecretOf(edcall.a) * SecretOf(edcall.b)) % GroupOrder, BasePoint))
    /\ \A p, q \in DOMAIN edcall.shared : edcall.shared[p] = edcall.shared[q]

\* 32 bytes are read exactly when their y is that of a point; then the root
\* has the asked parity, and y may be one that is not reduced.
YOf(v) == (v % 2^FieldBits) % Prime
ResidueOf(v) == LET yy == TimesP(YOf(v), YOf(v))
              IN TimesP(Minus(yy, 1), (TimesP(CurveD, yy) + 1) % Prime)

ReadsOnlyCurvePoints ==
  edcall.call = "read" =>
    LET P == edcall.point IN
    IF P = NoPoint THEN PowerP(ResidueOf(edcall.v), (Prime - 1) \div 2) = Prime - 1
    ELSE /\ P.y.v = YOf(edcall.v) /\ P.z.v = 1
         /\ TimesP(TimesP(P.x.v, P.x.v),
                   (TimesP(CurveD, TimesP(YOf(edcall.v), YOf(edcall.v))) + 1) % Prime)
              = Minus(TimesP(YOf(edcall.v), YOf(edcall.v)), 1)
         /\ P.x.v # 0 => P.x.v % 2 = edcall.v \div 2^FieldBits
         /\ P.t.v = TimesP(P.x.v, P.y.v)

\* Any bytes map to a point of the curve (the code asserts it); eight times
\* that is in the group of the base point, and sums and differences there
\* are the group's.
IsOnCurve(P) ==
  LET A == Affine(P)
      xx == TimesP(A[1], A[1])
      yy == TimesP(A[2], A[2])
  IN P[3] # 0 /\ Minus(yy, xx) = (TimesP(CurveD, TimesP(xx, yy)) + 1) % Prime

MapsIntoGroup ==
  edcall.call = "map" =>
    LET S == PointAt(edcall.sum[0])
        D == PointAt(edcall.sum[1])
        Q == PointAt(edcall.q)
        P8 == PointAt(edcall.p8)
        negQ == <<(-Q[1]) % Prime, Q[2], Q[3]>>
    IN /\ IsOnCurve(PointAt(edcall.p))
       /\ SamePoint(P8, PointTimes(8, PointAt(edcall.p)))
       /\ SamePoint(PointTimes(GroupOrder, P8), <<0, 1, 1>>)
       /\ SamePoint(S, PointSum(P8, Q)) /\ SamePoint(D, PointSum(P8, negQ))
       /\ ge25519_check(edcall.sum[0]) /\ ge25519_eq(ge25519_norm(edcall.sum[0]), ge25519_reduce(edcall.sum[0]))
       /\ ge25519_eq(edcall.p8, edcall.q) = SamePoint(P8, Q)

\* What limbs are for: an operation that finds room gives the number it
\* should, in limbs that are no larger than is counted on.
SizeIn(f, js) == Max({((1000 * f[j]) + Limb!Radix[j] - 1) \div Limb!Radix[j] : j \in js})
LowOnes  == 1..NarrowRoom.low
HighOnes == (NarrowRoom.low + 1)..Narrow.limbs
Number(f) == Law!Known(Limb!Element(f), SizeIn(f, LowOnes), SizeIn(f, HighOnes))

Keeps(f, e) ==
  \/ e = Law!Lost
  \/ /\ Limb!Element(f) = e.v
     /\ \A j \in LowOnes  : 1000 * f[j] <= e.lo * Limb!Radix[j]
     /\ \A j \in HighOnes : 1000 * f[j] <= e.hi * Limb!Radix[j]

SumsAreKept(f, g, x, y) ==
  /\ Keeps(Limb!curve25519_add(f, g), Law!curve25519_add(x, y))
  /\ Keeps(Limb!curve25519_add_reduce(f, g), Law!curve25519_add_reduce(x, y))
  /\ Keeps(Limb!curve25519_add_after_basic(f, g), Law!curve25519_add_after_basic(x, y))
  /\ Keeps(Limb!curve25519_sub(f, g), Law!curve25519_sub(x, y))
  /\ Keeps(Limb!curve25519_sub_reduce(f, g), Law!curve25519_sub_reduce(x, y))
  /\ Keeps(Limb!curve25519_sub_after_basic(f, g), Law!curve25519_sub_after_basic(x, y))
  /\ Keeps(Limb!curve25519_neg(f), Law!curve25519_neg(x))
  /\ Keeps(Limb!curve25519_reduce(f), Law!curve25519_reduce(x))

ProductsAreKept(f, g, x, y) ==
  /\ Keeps(Limb!curve25519_mul(f, g), Law!curve25519_mul(x, y))
  /\ Keeps(Limb!curve25519_square(f), Law!curve25519_square(x))
  /\ Keeps(Limb!curve25519_scalar_product(f, CurveA24), Law!curve25519_scalar_product(x, CurveA24))

BytesAreKept(f, x, bytes) ==
  /\ Keeps(Limb!curve25519_expand(bytes), Law!curve25519_expand(bytes))
  /\ Keeps(Limb!curve25519_expand_reduce(bytes), Law!curve25519_expand_reduce(bytes))
  /\ Keeps(Limb!curve25519_set(bytes % 100), Law!curve25519_set(bytes % 100))
  /\ Limb!curve25519_contract(f) = Law!curve25519_contract(x)
  /\ Limb!curve25519_isnegative(f) = Law!curve25519_isnegative(x)
  /\ Limb!curve25519_isnonzero(f) = Law!curve25519_isnonzero(x)

LimbsAreNumbers ==
  edcall.call = "limbs" =>
    /\ SumsAreKept(edcall.f, edcall.g, Number(edcall.f), Number(edcall.g))
    /\ ProductsAreKept(edcall.f, edcall.g, Number(edcall.f), Number(edcall.g))
    /\ BytesAreKept(edcall.f, Number(edcall.f), (edcall.g[1] * 1001 + edcall.g[2] * 77) % 2^(Limb!LimbedBits + 1))

\* Remainders by Barrett's method, sums, differences and digits are exact,
\* with a modulus whose last quotient comes out two too small and with the
\* order of the curve.
ScalarsAreExact ==
  edcall.call = "scalars" =>
    /\ ScalarLaws([i \in 1..2 |-> edcall.x[i] % 2^ScalarBits], [i \in 1..2 |-> edcall.y[i] % 2^ScalarBits],
                  {Window1, Window2}, SlideReach)
    /\ Big!ScalarLaws(edcall.x, edcall.y, {Window1, Window2}, SlideReach)

\* What is signed, alone or together, is the standard's signature for the
\* keys that belong to the secrets, exactly the standard's signatures open, and
\* an exchange gives both sides one secret, the multiple of the base point by
\* both scalars.
EdSessionsAreStandard == EdSignatureIsStandard /\ EdOpenIsStandard /\ JointKeyIsSum /\ EdSecretsAgree

\* What the sessions stand on: bytes that are no point are refused, one-way
\* maps end in the group, limbs never lose a carry, remainders are exact.
ArithmeticIsExact == ReadsOnlyCurvePoints /\ MapsIntoGroup /\ LimbsAreNumbers /\ ScalarsAreExact
=============================================================================
