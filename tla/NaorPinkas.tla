----------------------------- MODULE NaorPinkas -----------------------------
(***************************************************************************)
(* internal/ot/naor_pinkas.go and internal/crypto: the algebra of the base *)
(* oblivious transfer, in which the receiver decrypts one of two messages  *)
(* for each column.  A point is a formal combination of the points the     *)
(* parties can name: A, R, every B the receiver draws, and their products  *)
(* with the sender's secret r.  A message is a formal sum, as in BitVect:  *)
(* of random messages and of the pads that hide them.                      *)
(***************************************************************************)
EXTENDS Integers

CONSTANT Columns  \* baseOTCount, 512 in the code

Cols == 0..(Columns - 1)

Term == ({"A", "R", "rA"} \X {0}) \cup ({"B", "rB"} \X Cols)

\* GenerateKey: a fresh secret and its public point.
Public(t) == [u \in Term |-> IF u = t THEN 1 ELSE 0]
pointA == Public(<<"A", 0>>)
pointR == Public(<<"R", 0>>)
pointB(i) == Public(<<"B", i>>)

Sub(p, q) == [t \in Term |-> p[t] - q[t]]

\* ScalarMult by r, and by the secret of B(i).
MultR(p) == [t \in Term |-> CASE t[1] = "rA" -> p[<<"A", 0>>]
                              [] t[1] = "rB" -> p[<<"B", t[2]>>]
                              [] OTHER       -> 0]

MultB(p, i) == [t \in Term |-> IF t = <<"rB", i>> THEN p[<<"R", 0>>] ELSE 0]

\* DeriveKeyFromECPoint hashes the x coordinate, which p and -p share.
DeriveKeyFromECPoint(p) == {p, [t \in Term |-> -p[t]]}

\* XorCipherWithBlake3, its own inverse.
XorCipherWithBlake3(key, ind, src) ==
    LET pad == {<<"H", <<key, ind>>, 0>>} IN (src \ pad) \cup (pad \ src)

----------------------------------------------------------------------------
\* Receive: the key material for the sender, K0: B itself for a choice of 0,
\* A - B for a choice of 1.  The mutant has them the other way round.
KeyMaterial_Swapped(i, A, choice) == IF choice THEN pointB(i) ELSE Sub(A, pointB(i))

KeyMaterial(i, A, choice) == IF choice THEN Sub(A, pointB(i)) ELSE pointB(i)

\* Send: the two keys r K0 and r A - r K0, and the messages encrypted with them.
Encrypted(keyMaterial, otMessage) ==
    LET K0 == MultR(keyMaterial)
        keys == [c \in {0, 1} |-> IF c = 0 THEN K0 ELSE Sub(MultR(pointA), K0)]
    IN [c \in {0, 1} |-> XorCipherWithBlake3(DeriveKeyFromECPoint(keys[c]), c, otMessage[c])]

\* Receive: the message of the choice bit, decrypted with b R.
Decrypted(i, R, choice, ciphertexts) ==
    LET c == IF choice THEN 1 ELSE 0
    IN XorCipherWithBlake3(DeriveKeyFromECPoint(MultB(R, i)), c, ciphertexts[c])
=============================================================================
