---------------------------- MODULE Sm2Signature ----------------------------
(***************************************************************************)
(* SM2 signatures (lib/gm/source/SM2_sv.c) over a cyclic group of N points. *)
(* The point [j]G is its multiple j modulo N, 0 the point at infinity;      *)
(* XCoord gives the x coordinates, the same for a point and its inverse.    *)
(* e is the hash of ZA and the message, as a number.                        *)
(***************************************************************************)
EXTENDS Integers

CONSTANTS
    N,       \* the prime order of G
    XCoord   \* x coordinate of [j]G

ASSUME Sm2Assumption ==
    /\ N \in Nat /\ N > 2
    /\ \A m \in 2 .. N - 1 : N % m # 0
    /\ XCoord \in [1 .. N - 1 -> Nat]
    /\ \A j \in 1 .. N - 1 : XCoord[j] = XCoord[N - j]

\* It follows from N being prime, by an induction that the provers do not have.
ASSUME InverseAssumption ==
    \A d \in 1 .. N - 2 : \E z \in 1 .. N - 1 : (z * (1 + d)) % N = 1

\* epoint_get gives 0 for the point at infinity.
X(point) == IF point = 0 THEN 0 ELSE XCoord[point]

\* SM2_make_prikey and SM2_gen_random draw until the number is in range.
PrivateKeys == 1 .. N - 2

Nonces == 1 .. N - 1

\* SM2_make_pubkey
PublicKey(d) == d % N

\* Test_PubKey; every point of this group is on the curve and of order N.
KeyError(point) == IF point = 0 THEN "INFINITY_POINT" ELSE "ok"

Inverse1(d) == CHOOSE z \in 1 .. N - 1 : (z * (1 + d)) % N = 1

SignR(e, k) == (e + X(k % N)) % N

SignS(d, k, r) == (Inverse1(d) * (k + N - ((r * d) % N))) % N

\* Mutant: r + k = n is not tested.
SignNoTestN(d, e, k) ==
    LET r == SignR(e, k)
        s == SignS(d, k, r)
    IN  IF r = 0 THEN [ret |-> "GENERATE_R"]
        ELSE IF s = 0 THEN [ret |-> "GENERATE_S"]
        ELSE [ret |-> "ok", r |-> r, s |-> s]

\* SM2_Sign with private key d and random number k
Sign(d, e, k) ==
    LET r == SignR(e, k)
        s == SignS(d, k, r)
    IN  IF r = 0 \/ r + k = N THEN [ret |-> "GENERATE_R"]
        ELSE IF s = 0 THEN [ret |-> "GENERATE_S"]
        ELSE [ret |-> "ok", r |-> r, s |-> s]

\* SM2_Verify with public key p
Verify(p, e, r, s) ==
    LET t == (r + s) % N
    IN  IF r \notin 1 .. N - 1 THEN "OUTRANGE_R"
        ELSE IF s \notin 1 .. N - 1 THEN "OUTRANGE_S"
        ELSE IF t = 0 THEN "GENERATE_T"
        ELSE IF (e + X((s + t * p) % N)) % N = r THEN "ok"
        ELSE "DATA_MEMCMP"
=============================================================================
