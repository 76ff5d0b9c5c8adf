------------------------------ MODULE MCSigning ------------------------------
(* Two curves of prime order just below 2^22, one like secp256k1 (a = 0)   *)
(* and one like nist256p1 (a = -3).  On both the base point's abscissa is  *)
(* above the order, and Zero is a scalar whose multiple of it has the      *)
(* abscissa n, so that r comes out 0.                                      *)
EXTENDS Signing

TheCurves ==
  [k1 |-> [p |-> 4194007, a |-> 0, b |-> 5, n |-> 4192753, g |-> <<4192754, 1250120>>],
   r1 |-> [p |-> 4193191, a |-> -3, b |-> 6, n |-> 4192427, g |-> <<4192430, 3385114>>]]

Order(name) == TheCurves[name].n
Zero == [k1 |-> 1789422, r1 |-> 18177]

ThePrivates == [name \in DOMAIN TheCurves |-> IF name = "k1" THEN {Order(name) - 2, 1234567} ELSE {1234567}]

TheScalars ==
  [name \in DOMAIN TheCurves |->
     {0, 1, 2, 3, 4, 5, 2^11, 2^20 + 1, Zero[name], Order(name) \div 2, Order(name) - 2, Order(name) - 1}]

TheAbscissas ==
  [name \in DOMAIN TheCurves |->
     LET c == TheCurves[name] IN {0, 1, 2, 3, c.n, c.g[1], c.p - 1, c.p, c.p + 1, 2^22 - 1}]

\* A digest that cancels the signer's part for the key 1234567 and nonce 1,
\* so that s comes out 0.
Cancel(name) ==
  LET c == TheCurves[name] IN (c.n - Times(c.g[1] % c.n, 1234567, c.n)) % c.n

TheDigests ==
  [name \in DOMAIN TheCurves |-> {Order(name), 2^22 - 1, Cancel(name)}]

TheNonceLists ==
  [name \in DOMAIN TheCurves |->
     {<<0, Order(name), 1, Order(name) - 7>>, <<Zero[name], 777>>, <<Zero[name]>>}]

MCCurveOf == TheCurves
MCPrivates == ThePrivates
MCNonceLists == TheNonceLists
MCDigests == TheDigests
MCAbscissas == TheAbscissas
MCScalars == TheScalars
=============================================================================
