------------------------------- MODULE Signing -------------------------------
(***************************************************************************)
(* What a wallet does with the curve: derive the public key of a private   *)
(* one, sign digests, verify what it or another signed, recover signers,   *)
(* read keys, multiply points.  Every call goes through the limbs and the  *)
(* windows of Ecdsa; the properties compare it with the group's law over   *)
(* whole numbers.                                                          *)
(***************************************************************************)
EXTENDS Ecdsa

CONSTANTS
  CurveOf,       \* name -> [p, a, b, n, g]: prime, coefficients, order, base point
  Privates,      \* name -> private keys
  Scalars,       \* name -> scalars for multiplications
  Abscissas,     \* name -> abscissas of keys to read
  Digests,       \* name -> digests to sign, as numbers
  NonceLists,    \* name -> the nonces a signing may go through, in order
  Blinds         \* what the random numbers against side channels may be

-----------------------------------------------------------------------------
(* The group, with whole numbers.  A product is taken modulo m in parts    *)
(* that TLC's numbers can hold.                                            *)

Part(v, x, a, m) == ((v * 256) + a * x) % m

Times(a, b, m) == Part(Part(Part(0, b \div 65536, a, m), (b \div 256) % 256, a, m), b % 256, a, m)

Power(a, e, m) ==
  Fold(LAMBDA s, i : [s EXCEPT !.r = IF (e \div 2^(i - 1)) % 2 = 1 THEN Times(@, s.a, m) ELSE @,
                               !.a = Times(@, @, m)],
       [r |-> 1, a |-> a % m], [i \in 1..NumBits |-> i]).r

Over(a, m) == Power(a, m - 2, m)

Infinite == <<>>

Mirrored(c, P, l, x) == <<x, (Times(l, (P[1] - x) % c.p, c.p) - P[2]) % c.p>>

Along(c, P, Q, l) == Mirrored(c, P, l, (Times(l, l, c.p) - P[1] - Q[1]) % c.p)

Slope(c, P, Q) ==
  LET same == P[1] = Q[1]
  IN Times(IF same THEN (Times(3, Times(P[1], P[1], c.p), c.p) + c.a) % c.p ELSE (Q[2] - P[2]) % c.p,
           Over((IF same THEN 2 * P[2] ELSE Q[1] - P[1]) % c.p, c.p), c.p)

Sum2(c, P, Q) ==
  IF P = Infinite THEN Q
  ELSE IF Q = Infinite THEN P
  ELSE IF P[1] = Q[1] /\ (P[2] + Q[2]) % c.p = 0 THEN Infinite
  ELSE Along(c, P, Q, Slope(c, P, Q))

ScalarTimes(c, k, P) ==
  Fold(LAMBDA s, i : [s EXCEPT !.r = IF (k \div 2^(i - 1)) % 2 = 1 THEN Sum2(c, @, s.q) ELSE @,
                               !.q = Sum2(c, @, @)],
       [r |-> Infinite, q |-> P], [i \in 1..NumBits |-> i]).r

RightHand(c, x) == (Times(x, (Times(x, x, c.p) + c.a) % c.p, c.p) + c.b) % c.p

OnCurve(c, x, y) == Times(y, y, c.p) = RightHand(c, x)

IsSquare(v, p) == v = 0 \/ Power(v, (p - 1) \div 2, p) = 1

\* A curve as the code has it.  The table is secp256k1.table: the multiples
\* 1, 3, 5, ... of G at the place of every digit.
Point(P) == IF P = Infinite THEN infinity ELSE [x |-> Bn(P[1]), y |-> Bn(P[2])]

Curve(c) ==
  [prime |-> Bn(c.p), order |-> Bn(c.n), order_half |-> Bn(c.n \div 2), a |-> c.a, b |-> Bn(c.b),
   cp |-> [i \in 1..Digits |-> [j \in 1..(2^(Window - 1)) |->
             Point(ScalarTimes(c, ((2 * j - 1) * 2^(Window * (i - 1))) % c.n, c.g))]]]

Curves == [name \in DOMAIN CurveOf |-> Curve(CurveOf[name])]
-----------------------------------------------------------------------------
VARIABLES
  named,           \* the curve
  owner,          \* the wallet's private key
  signedDigest,    \* what it signed last
  signature,       \* the signature it made
  seen           \* the last call, its arguments and what it returned

vars == <<named, owner, signedDigest, signature, seen>>

C == CurveOf[named]
curve == Curves[named]
n == C.n

Bytes(v) == Reverse(WordsOf(v))
Number(bytes) == FoldLeft(LAMBDA v, w : v * WordMod + w, 0, bytes)

Pub == ScalarTimes(C, owner, C.g)

Init ==
  /\ named \in DOMAIN CurveOf
  /\ owner \in Privates[named]
  /\ signedDigest = 0 /\ signature = NoSignature
  /\ seen = [call |-> "none"]

\* Calls come one after another; those that need no signature are made
\* before there is one, which bounds the sessions and hides nothing: they
\* depend on the curve, the key and their arguments alone.
Idle  == seen.call = "none"
Fresh == Idle /\ signature = NoSignature

\* The caller has taken the result.
Taken ==
  /\ ~Idle
  /\ seen' = [call |-> "none"]
  /\ UNCHANGED <<named, owner, signedDigest, signature>>

\* Extended keys and addresses take the short form, signing and verifying
\* go with the long one.
GetPublicKey(z) ==
  /\ Fresh
  /\ seen' = [call |-> "public",
              long  |-> ecdsa_get_public_key65(curve, Bytes(owner), Bn(z)),
              short |-> ecdsa_get_public_key33(curve, Bytes(owner), Bn(z))]
  /\ UNCHANGED <<named, owner, signedDigest, signature>>

\* picky: the caller accepts only signatures whose recovery byte is even.
Sign(e, nonces, randk, z, picky) ==
  /\ Fresh
  /\ signature' = ecdsa_sign_digest(curve, Bytes(owner), Bytes(e),
                              [i \in DOMAIN nonces |-> Bn(nonces[i])], Bn(randk), Bn(z),
                              {by \in 0..3 : picky => by % 2 = 0})
  /\ seen' = [call |-> "sign", digest |-> e, nonces |-> nonces, picky |-> picky, result |-> signature']
  /\ signedDigest' = IF signature' = NoSignature THEN signedDigest ELSE e
  /\ UNCHANGED <<named, owner>>

\* What may have become of a signature before it is verified.
Altered(change) ==
  LET r == Number(signature.r)
      s == Number(signature.s)
  IN CASE change = "nothing" -> signature
       [] change = "s negated" -> [signature EXCEPT !.s = Bytes(n - s)]
       [] change = "s zero" -> [signature EXCEPT !.s = Bytes(0)]
       [] change = "r zero" -> [signature EXCEPT !.r = Bytes(0)]
       [] change = "s is the order" -> [signature EXCEPT !.s = Bytes(n)]
       [] change = "r is the order" -> [signature EXCEPT !.r = Bytes(n)]
       [] change = "r another" -> [signature EXCEPT !.r = Bytes((r % (n - 1)) + 1)]
       [] change = "swapped" -> [signature EXCEPT !.r = signature.s, !.s = signature.r]

Changes == {"nothing", "s negated", "s zero", "r zero", "s is the order", "r is the order",
            "r another", "swapped"}

Verify(change, e, z) ==
  /\ Idle /\ signature # NoSignature
  /\ LET s == Altered(change)
     IN seen' = [call |-> "verify", sig |-> s, digest |-> e,
                 result |-> ecdsa_verify_digest(curve, Key33(Point(Pub)), s, Bytes(e), Bn(z))]
  /\ UNCHANGED <<named, owner, signedDigest, signature>>

Recover(change, recid, e, z) ==
  /\ Idle /\ signature # NoSignature
  /\ LET s == Altered(change)
     IN seen' = [call |-> "recover", sig |-> s, digest |-> e, recid |-> recid, changed |-> change # "nothing",
                 result |-> ecdsa_recover_pub_from_sig(curve, s, Bytes(e), recid, Bn(z))]
  /\ UNCHANGED <<named, owner, signedDigest, signature>>

ReadKey(tag, x, y) ==
  /\ Fresh
  /\ seen' = [call |-> "read", tag |-> tag, x |-> x, y |-> y,
              result |-> ecdsa_uncompress_pubkey(curve, [tag |-> tag, x |-> Bytes(x), y |-> Bytes(y)])]
  /\ UNCHANGED <<named, owner, signedDigest, signature>>

\* The two multiplications and ECDH with the wallet's own key.
Multiply(k, z) ==
  /\ Fresh
  /\ seen' = [call |-> "multiply", k |-> k,
              point |-> point_multiply(curve, Bn(k), Point(Pub), Bn(z)),
              base  |-> scalar_multiply(curve, Bn(k), Bn(z)),
              shared |-> ecdh_multiply(curve, Bytes(k), Key33(Point(Pub)), Bn(z))]
  /\ UNCHANGED <<named, owner, signedDigest, signature>>

Next ==
  \/ \E z \in Blinds : GetPublicKey(z)
  \/ \E e \in Digests[named], nonces \in NonceLists[named], z \in Blinds, picky \in BOOLEAN :
        Sign(e, nonces, z, z, picky)
  \/ \E change \in Changes, e \in {signedDigest, signedDigest % n}, z \in Blinds : Verify(change, e, z)
  \/ \E change \in {"nothing", "s negated", "r another"}, recid \in 0..3, z \in Blinds :
        Recover(change, recid, signedDigest, z)
  \/ \E tag \in {0, 2, 3, 4}, x \in Abscissas[named], y \in {0, 1, C.g[2], C.p - C.g[2]} :
        ReadKey(tag, x, IF tag = 4 THEN y ELSE 0)
  \/ \E k \in Scalars[named], z \in Blinds : Multiply(k, z)
  \/ Taken

Spec == Init /\ [][Next]_vars
-----------------------------------------------------------------------------
(* Properties *)

\* Both multiplications give the multiple that the group's law gives, for
\* every scalar below the order, whatever the random z; a shared key is the
\* multiple of the other's point.
MultiplyIsScalar ==
  seen.call = "multiply" =>
    /\ seen.point = Point(ScalarTimes(C, seen.k, Pub))
    /\ seen.base = Point(ScalarTimes(C, seen.k, C.g))
    /\ seen.shared = Key65(seen.point)

\* A public key is the private key's multiple of G, its short form too.
KeyIsMultiple ==
  seen.call = "public" =>
    /\ seen.long = [tag |-> 4, x |-> Bytes(Pub[1]), y |-> Bytes(Pub[2])]
    /\ seen.short = [tag |-> 2 + (Pub[2] % 2), x |-> Bytes(Pub[1]), y |-> <<>>]

\* A key is read exactly when its point is on the curve and its coordinates
\* are reduced; the short form reads to the root of the asked parity.
ReadsOnlyPoints ==
  seen.call = "read" =>
    IF seen.result = NoKey
    THEN \/ seen.tag = 0 \/ seen.x >= C.p
         \/ seen.tag = 4 /\ (seen.y >= C.p \/ ~OnCurve(C, seen.x, seen.y))
         \/ seen.tag \in {2, 3} /\ ~IsSquare(RightHand(C, seen.x), C.p)
    ELSE LET y == Number(seen.result.y)
         IN /\ seen.x < C.p /\ Number(seen.result.x) = seen.x
            /\ y < C.p /\ OnCurve(C, seen.x, y)
            /\ seen.tag = 4 => y = seen.y
            /\ seen.tag \in {2, 3} => y % 2 = seen.tag % 2

\* What the standard says a nonce k leads to.
StandardForm(R, r, s) ==
  LET high == s > n \div 2
  IN IF r = 0 \/ s = 0 THEN NoSignature
     ELSE [r |-> Bytes(r), s |-> Bytes(IF high THEN n - s ELSE s),
           by |-> (IF (R[2] % 2 = 1) # high THEN 1 ELSE 0) + (IF R[1] >= n THEN 2 ELSE 0)]

StandardFrom(R, k) ==
  StandardForm(R, R[1] % n, Times(Over(k, n), (Times(R[1] % n, owner, n) + seen.digest) % n, n))

Standard(k) == IF k \in 1..(n - 1) THEN StandardFrom(ScalarTimes(C, k, C.g), k) ELSE NoSignature

FirstAccepted(sigs, Accepts(_)) ==
  Fold(LAMBDA first, s : IF first = NoSignature /\ s # NoSignature /\ Accepts(s) THEN s ELSE first,
       NoSignature, sigs)

\* A signature is the standard's, in its lower form, for the first nonce that
\* leads to one the caller accepts; the blinding leaves no trace in it.
SignatureIsStandard ==
  seen.call = "sign" =>
    seen.result = FirstAccepted([i \in DOMAIN seen.nonces |-> Standard(seen.nonces[i])],
                                LAMBDA s : seen.picky => s.by % 2 = 0)

HasAbscissa(R, r) == R # Infinite /\ R[1] % n = r

Holds(r, s, e) ==
  /\ r \in 1..(n - 1) /\ s \in 1..(n - 1) /\ e # 0
  /\ LET w == Over(s, n)
     IN HasAbscissa(Sum2(C, ScalarTimes(C, Times(w, e, n), C.g), ScalarTimes(C, Times(w, r, n), Pub)), r)

\* Verification accepts exactly the pairs in range for which the standard's
\* point is finite and has that abscissa, and no digest that is 0 modulo the
\* order; so it accepts what was signed, and the other form of s.
VerifyIsStandard ==
  seen.call = "verify" =>
    /\ (seen.result = 0) = Holds(Number(seen.sig.r), Number(seen.sig.s), seen.digest % n)
    /\ seen.sig = signature /\ seen.digest % n = signedDigest % n /\ signedDigest % n # 0 => seen.result = 0

\* The recovery byte of a signature finds the signer's key; any key that is
\* recovered from any signature verifies it.
RecoverFindsSigner ==
  seen.call = "recover" =>
    /\ ~seen.changed /\ seen.recid = signature.by => seen.result = Key65(Point(Pub))
    /\ seen.result # NoKey /\ seen.digest % n # 0 =>
         ecdsa_verify_digest(curve, seen.result, seen.sig, Bytes(seen.digest), Bn(1)) = 0

\* Keys, shared secrets and points from elsewhere obey the group's law,
\* whatever the windows, the blinding and the limbs did.
PointsObeyTheLaw == MultiplyIsScalar /\ KeyIsMultiple /\ ReadsOnlyPoints

\* A signature is the standard's; it verifies and recovers to its signer, and
\* nothing else does.
SignaturesAreStandard == SignatureIsStandard /\ VerifyIsStandard /\ RecoverFindsSigner
=============================================================================
