------------------------- MODULE GmLibraryProofs ---------------------------
(***************************************************************************)
(* Theorems about EnclaveCrypto, as GmLibrary runs it: every signature     *)
(* verifies, for a group of any prime order, and no key is used with the   *)
(* same nonce twice, over any number of lives, calls and texts; intact     *)
(* sealed data opens, sizes and tables are large enough, and decryption    *)
(* undoes encryption, for texts of any length.                             *)
(***************************************************************************)
EXTENDS GmLibrary, Sm4ModesProofs, TLAPS

gmVars == <<vars, sm3Vars>>

-----------------------------------------------------------------------------
(* The inductive invariants                                                *)

\* No program draws keys or nonces from the generator that SM2 resets.
Separate == \A p \in Programs : "sm2" \in p => p \cap {"seal", "cbc"} = {}

Generator == [seed : Seq(Nat), pos : Nat]

\* Types; and a program that does not use SM2 has no key.
CInv ==
    /\ CryptoTypeOK
    /\ rng \in Generator
    /\ IsSeq(store) /\ IsSeq(fresh)
    /\ "sm2" \notin prog => key = 0

\* A number drawn in life l, as the n-th of that life
Number(l, n) == <<<<l>>, n, 0>>

\* The nonce or initial value of a use
Nonce(u) == u[2]

\* Every nonce is a number of a life that has set its seed, behind none of
\* which the generator has gone back, and no two are the same number.
FreshInv ==
    /\ "sm2" \in prog => fresh = <<>>
    /\ "sm2" \notin prog /\ setSeed => rng.seed = <<lives>>
    /\ \A i \in DOMAIN fresh :
          \E l \in 1 .. lives : \E n \in Nat :
             /\ Nonce(fresh[i]) = Number(l, n)
             /\ l = lives => setSeed /\ n <= rng.pos
    /\ \A i, j \in DOMAIN fresh : i # j => Nonce(fresh[i]) # Nonce(fresh[j])

\* The last signature was made with the key the program has, and no signature
\* that was verified was refused.
SignInv ==
    /\ out.op = "sign" =>
          /\ key \in PrivateKeys /\ out.e \in Nat
          /\ \E k \in Nonces : out.res = Sign(key, out.e, k)
    /\ SignedVerifies

-----------------------------------------------------------------------------
(* Arithmetic modulo n                                                     *)

\* A remainder differs from its number by a multiple.
LEMMA Remainder ==
    ASSUME NEW a \in Int, NEW n \in Int, n > 0
    PROVE  a % n \in 0 .. n - 1 /\ \E q \in Int : a % n = a - q * n
<1>1. \E q \in Int : a % n = a - q * n
  BY SMTT(30)
<1> QED
  BY <1>1

LEMMA RemainderSmaller ==
    ASSUME NEW a \in Nat, NEW n \in Nat \ {0}
    PROVE  a % n \in Nat /\ a % n <= a
  BY SMTT(30)

LEMMA RemainderUnique ==
    ASSUME NEW q \in Int, NEW n \in Nat \ {0}, NEW r \in 0 .. n - 1
    PROVE  (q * n + r) % n = r
  BY SMTT(30)

-----------------------------------------------------------------------------
(* SM2                                                                     *)

\* Remainders modulo the order of the group: numbers that differ by a multiple
\* have the same one.
LEMMA ModN ==
    /\ \A a \in Int : a % N \in 0 .. N - 1
    /\ \A a \in Int : \E q \in Int : a % N = a - q * N
    /\ \A a, b, q \in Int : a = b + q * N => a % N = b % N
<1>1. N \in Int /\ N > 0 /\ N \in Nat \ {0}
  BY Sm2Assumption
<1>2. ASSUME NEW a \in Int
      PROVE  a % N \in 0 .. N - 1 /\ \E q \in Int : a % N = a - q * N
  BY <1>1, Remainder
<1>3. ASSUME NEW a \in Int, NEW b \in Int, NEW q \in Int, a = b + q * N
      PROVE  a % N = b % N
  <2>1. PICK q1 \in Int : b % N = b - q1 * N
    BY <1>2
  <2>2. b % N \in 0 .. N - 1
    BY <1>2
  <2>3. q + q1 \in Int /\ q * N + q1 * N = (q + q1) * N
    BY <1>1
  <2>4. a = (q + q1) * N + (b % N)
    BY <1>1, <1>3, <2>1, <2>2, <2>3
  <2>5. ((q + q1) * N + (b % N)) % N = b % N
    BY <1>1, <2>2, <2>3, RemainderUnique
  <2> QED
    BY <2>4, <2>5, Zenon
<1> QED
  BY ONLY <1>2, <1>3, Zenon

\* s * (1 + d) is k - r * d, modulo N.
LEMMA SignEquation ==
    ASSUME NEW d \in PrivateKeys, NEW k \in Nonces, NEW r \in 0 .. N - 1
    PROVE  /\ SignS(d, k, r) \in 0 .. N - 1
           /\ \E q \in Int : SignS(d, k, r) * (1 + d) = k - r * d + q * N
<1> DEFINE z == Inverse1(d)
<1>1. N \in Nat /\ N > 2 /\ d \in Nat /\ k \in Nat /\ r \in Nat
  BY Sm2Assumption DEF PrivateKeys, Nonces
<1>2. z \in 1 .. N - 1 /\ (z * (1 + d)) % N = 1
  BY InverseAssumption DEF Inverse1, PrivateKeys
<1> DEFINE w == k + N - ((r * d) % N)
           s == SignS(d, k, r)
<1>3. s = (z * w) % N
  BY DEF SignS
<1>4. r * d \in Int /\ z \in Int
  BY <1>1, <1>2
<1> HIDE DEF z
<1>5. (r * d) % N \in 0 .. N - 1 /\ w \in Int
  BY <1>1, <1>4, Remainder
<1>6. PICK q2 \in Int : (r * d) % N = r * d - q2 * N
  BY <1>1, <1>4, Remainder
<1>7. w = k + N - r * d + q2 * N
  BY <1>1, <1>4, <1>6
<1> HIDE DEF w
<1>8. z * w \in Int /\ z * (1 + d) \in Int
  BY <1>1, <1>4, <1>5
<1>9. s \in 0 .. N - 1
  BY <1>1, <1>3, <1>8, Remainder
<1>10. PICK q3 \in Int : s = z * w - q3 * N
  <2>1. \E q3 \in Int : (z * w) % N = (z * w) - q3 * N
    BY ONLY <1>8, ModN, Zenon
  <2> QED
    BY ONLY <1>3, <2>1, Zenon
<1>11. PICK q1 \in Int : 1 = z * (1 + d) - q1 * N
  BY <1>1, <1>2, <1>8, Remainder
<1> HIDE DEF s
<1>12. s * (1 + d) = (z * (1 + d)) * w - (q3 * (1 + d)) * N
  BY <1>1, <1>4, <1>5, <1>9, <1>10, SMTT(30)
<1>13. (z * (1 + d)) * w = w + (q1 * w) * N
  <2>1. z * (1 + d) = 1 + q1 * N
    BY <1>1, <1>8, <1>11
  <2>2. (1 + q1 * N) * w = w + (q1 * w) * N
    BY <1>1, <1>5, SMTT(30)
  <2> QED
    BY <2>1, <2>2
<1> DEFINE q == 1 + q2 + q1 * w - q3 * (1 + d)
<1>14. q \in Int
  BY <1>1, <1>5
<1>15. q * N = N + q2 * N + (q1 * w) * N - (q3 * (1 + d)) * N
  BY <1>1, <1>5, SMTT(30)
<1> HIDE DEF q
<1>16. s * (1 + d) = k - r * d + q * N
  BY <1>1, <1>4, <1>5, <1>7, <1>9, <1>12, <1>13, <1>15, SMTT(30)
<1> QED
  BY <1>9, <1>14, <1>16 DEF s

\* SM2_Verify accepts every signature that SM2_Sign returns, with whatever
\* private key, hash and random number.  The point it computes is the one that
\* was signed with, and its t is 0 only if r + k = n, which SM2_Sign tests.
THEOREM SignaturesVerify ==
    ASSUME NEW d \in PrivateKeys, NEW e \in Nat, NEW k \in Nonces,
           Sign(d, e, k).ret = "ok"
    PROVE  Verify(PublicKey(d), e, Sign(d, e, k).r, Sign(d, e, k).s) = "ok"
<1> DEFINE r == SignR(e, k)
           s == SignS(d, k, r)
           t == (r + s) % N
<1>1. N \in Nat \ {0} /\ N > 2 /\ d \in 1 .. N - 2 /\ k \in 1 .. N - 1
  BY Sm2Assumption DEF PrivateKeys, Nonces
<1>2. k % N = k /\ d % N = d
  BY <1>1
<1>3. X(k) \in Nat
  BY <1>1, Sm2Assumption DEF X
<1>4. r = (e + X(k)) % N /\ r \in 0 .. N - 1
  <2>1. r = (e + X(k)) % N
    BY <1>2 DEF SignR
  <2> QED
    BY <1>1, <1>3, <2>1, Remainder
<1>5. s \in 0 .. N - 1 /\ \E q \in Int : s * (1 + d) = k - r * d + q * N
  BY <1>4, SignEquation
<1>6. PICK q \in Int : s * (1 + d) = k - r * d + q * N
  BY <1>5
<1>7. r # 0 /\ r + k # N /\ s # 0
  BY DEF Sign
<1>8. Sign(d, e, k).r = r /\ Sign(d, e, k).s = s
  BY DEF Sign
<1> HIDE DEF r, s
<1>9. t \in 0 .. N - 1
  BY <1>1, <1>4, <1>5, Remainder
<1>10. PICK q4 \in Int : t = (r + s) - q4 * N
  <2>1. r + s \in Int
    BY <1>1, <1>4, <1>5
  <2>2. \E q4 \in Int : (r + s) % N = (r + s) - q4 * N
    BY ONLY <2>1, ModN, Zenon
  <2> QED
    BY <2>2, Zenon DEF t
<1> HIDE DEF t
<1>11. (s + t * d) % N = k
  <2>1. t * d = r * d + s * d - (q4 * d) * N
    BY <1>1, <1>4, <1>5, <1>10, SMTT(30)
  <2>2. s * (1 + d) = s + s * d
    BY <1>1, <1>5
  <2>3. (q - q4 * d) * N = q * N - (q4 * d) * N
    BY <1>1, SMTT(30)
  <2>4. s + t * d = k + (q - q4 * d) * N
    BY <1>1, <1>4, <1>5, <1>6, <1>9, <2>1, <2>2, <2>3, SMTT(30)
  <2> DEFINE a == s + t * d
             m == q - q4 * d
  <2>5. m \in Int /\ a \in Int /\ k \in Int
    BY <1>1, <1>5, <1>9
  <2>6. a = k + m * N
    BY <2>4
  <2> HIDE DEF a, m
  <2>7. a % N = k % N
    BY ONLY <2>5, <2>6, ModN, Zenon
  <2> QED
    BY <1>2, <2>7 DEF a
<1>12. t # 0
  <2> SUFFICES ASSUME t = 0 PROVE FALSE
    OBVIOUS
  <2>1. s % N = k
    BY <1>1, <1>5, <1>11
  <2>2. s = k
    BY <1>1, <1>5, <2>1
  <2>3. r + k = q4 * N
    BY <1>1, <1>4, <1>10, <2>2
  <2>4. 0 < r + k /\ r + k < 2 * N
    BY <1>1, <1>4
  <2>5. q4 = 1
    BY <1>1, <2>3, <2>4, SMTT(30)
  <2> QED
    BY <1>1, <1>7, <2>3, <2>5
<1>13. r \in 1 .. N - 1 /\ s \in 1 .. N - 1 /\ PublicKey(d) = d
  BY <1>1, <1>2, <1>4, <1>5, <1>7 DEF PublicKey
<1>14. (e + X((s + t * d) % N)) % N = r
  BY <1>4, <1>11
<1>15. (r + s) % N = t
  BY DEF t
<1>16. Verify(d, e, r, s) = "ok"
  BY <1>12, <1>13, <1>14, <1>15 DEF Verify
<1> QED
  BY <1>8, <1>13, <1>16

-----------------------------------------------------------------------------
(* Types                                                                   *)

\* What every call finds and leaves in the generator
LEMMA GeneratorFacts ==
    ASSUME CInv
    PROVE  /\ Ready \in Generator /\ AfterInit \in Generator
           /\ \A l \in Nat : Irand(<<l>>) \in Generator
           /\ \A r \in Generator, n \in Nat :
                 /\ Drawn(r, n) \in Generator
                 /\ Drawn(r, n).seed = r.seed /\ Drawn(r, n).pos = r.pos + n
<1>1. ASSUME NEW x \in Seq(Nat) PROVE Irand(x) \in Generator
  BY DEF Irand, Generator
<1>2. \A l \in Nat : <<l>> \in Seq(Nat)
  OBVIOUS
<1>3. Ready \in Generator
  BY <1>1, <1>2 DEF Ready, CInv
<1>4. AfterInit \in Generator
  <2>0. MaxLives + 1 \in Nat /\ 0 \in Nat
    BY CryptoAssumption
  <2>1. Mirsys \in Generator /\ Irand(<<0>>) \in Generator
    BY <1>1, <1>2, <2>0 DEF Mirsys
  <2>2. \A r \in Generator : Append(r.seed, r.pos + 1) \in Seq(Nat)
    BY DEF Generator
  <2>3. MiraclInit \in Generator
    BY <1>1, <2>1, <2>2 DEF MiraclInit
  <2> QED
    BY <2>3 DEF AfterInit, CInv
<1>5. ASSUME NEW r \in Generator, NEW n \in Nat
      PROVE  /\ Drawn(r, n) \in Generator
             /\ Drawn(r, n).seed = r.seed /\ Drawn(r, n).pos = r.pos + n
  <2>1. r.seed \in Seq(Nat) /\ r.pos \in Nat /\ r = [seed |-> r.seed, pos |-> r.pos]
    BY DEF Generator
  <2>2. Drawn(r, n) = [seed |-> r.seed, pos |-> r.pos + n]
    BY <2>1 DEF Drawn
  <2>3. r.pos + n \in Nat
    BY <2>1
  <2> QED
    BY <2>1, <2>2, <2>3 DEF Generator
<1> QED
  BY <1>1, <1>2, <1>3, <1>4, <1>5

\* What a seal leaves behind, whatever the text
LEMMA SealEffect ==
    ASSUME Seal
    PROVE  /\ "seal" \in prog /\ setSeed /\ Len(fresh) < MaxFresh
           /\ rng' = Drawn(Ready, 2)
           /\ \E x : store' = Append(store, x)
           /\ \E k : fresh' = Append(fresh, <<k, Draw(Ready, 2)>>)
           /\ out'.op = "seal"
           /\ UNCHANGED <<prog, lives, setSeed, sm2Init, key>>
  BY DEF Seal

LEMMA CbcEffect ==
    ASSUME CbcEncryptCall
    PROVE  /\ "cbc" \in prog /\ setSeed /\ Len(fresh) < MaxFresh
           /\ rng' = Drawn(Ready, 2)
           /\ \E k : fresh' = Append(fresh, <<k, Draw(Ready, 2)>>)
           /\ out'.op = "cbc"
           /\ UNCHANGED <<prog, lives, setSeed, sm2Init, store, key>>
  BY DEF CbcEncryptCall

\* A damaged store is as long as before.
LEMMA DamageEffect ==
    ASSUME CInv, Damage
    PROVE  /\ IsSeq(store') /\ Len(store') = Len(store)
           /\ out' = None
           /\ UNCHANGED <<prog, lives, setSeed, rng, sm2Init, fresh, key>>
<1>1. PICK i \in DOMAIN store : \E data : store' = [store EXCEPT ![i].now = data]
  BY DEF Damage
<1>2. PICK x : store' = [store EXCEPT ![i] = x]
  BY <1>1
<1>3. PICK S : store \in Seq(S)
  BY DEF CInv, IsSeq
<1> DEFINE T == S \cup {x}
<1>4. store \in Seq(T) /\ x \in T
  BY <1>3
<1> HIDE DEF T
<1>5. store' \in Seq(T) /\ Len(store') = Len(store)
  BY <1>1, <1>2, <1>4
<1> QED
  BY <1>5 DEF Damage, IsSeq

\* The calls that only return something
Asks ==
    \/ AskSize \/ Unseal \/ UnsealNoKey \/ CbcDecryptCall \/ VerifyCall \/ CipherCall

LEMMA AskEffect ==
    ASSUME Asks
    PROVE  /\ out'.op \in {"none", "size", "unseal", "decrypt", "verify", "cipher"}
           /\ UNCHANGED <<prog, lives, setSeed, rng, sm2Init, store, fresh, key>>
<1>1. CASE AskSize
  BY <1>1 DEF AskSize
<1>2. CASE Unseal
  BY <1>2 DEF Unseal
<1>3. CASE CbcDecryptCall
  BY <1>3 DEF CbcDecryptCall
<1>4. CASE VerifyCall
  BY <1>4 DEF VerifyCall
<1>5. CASE CipherCall
  BY <1>5 DEF CipherCall
<1>6. CASE UnsealNoKey
  BY <1>6 DEF UnsealNoKey, None
<1> QED
  BY <1>1, <1>2, <1>3, <1>4, <1>5, <1>6 DEF Asks

\* Types are inductive.
LEMMA CInvKept ==
    ASSUME CInv, [CryptoNext]_vars
    PROVE  CInv'
<1> USE DEF CInv, CryptoTypeOK, Calls
<1>0. /\ \A r \in Generator : r.seed \in Seq(Nat) /\ r.pos \in Nat
      /\ Start \in Generator /\ None.op = "none"
  BY DEF Generator, Start, None
<1>1. CASE SetSeed
  <2>1. rng' \in Generator
    BY <1>1, GeneratorFacts, CryptoAssumption DEF SetSeed
  <2> QED
    BY <1>0, <1>1, <2>1 DEF SetSeed
<1>2. CASE Restart
  <2>1. lives' \in 1 .. MaxLives
    BY <1>2, CryptoAssumption DEF Restart
  <2>2. ~setSeed' /\ ~sm2Init' /\ setSeed' \in BOOLEAN /\ sm2Init' \in BOOLEAN
        /\ rng' = Start /\ key' = 0 /\ out' = None /\ UNCHANGED <<prog, store, fresh>>
    BY <1>2 DEF Restart
  <2> QED
    BY <1>0, <2>1, <2>2
<1>3. CASE Seal
  <2>1. rng' \in Generator
    BY <1>3, SealEffect, GeneratorFacts
  <2>2. IsSeq(store') /\ IsSeq(fresh') /\ Len(store') = Len(store) + 1
        /\ Len(fresh') = Len(fresh) + 1 /\ Len(store) \in Nat /\ Len(fresh) \in Nat
    <3>1. PICK x : store' = Append(store, x)
      BY <1>3, SealEffect
    <3>2. PICK k : fresh' = Append(fresh, <<k, Draw(Ready, 2)>>)
      BY <1>3, SealEffect
    <3> QED
      BY <3>1, <3>2, SeqFacts
  <2>3. Len(store') <= Len(fresh') /\ Len(fresh') <= MaxFresh
    BY <1>3, <2>2, SealEffect, CryptoAssumption
  <2> QED
    BY <1>0, <1>3, <2>1, <2>2, <2>3, SealEffect
<1>4. CASE CbcEncryptCall
  <2>1. rng' \in Generator
    BY <1>4, CbcEffect, GeneratorFacts
  <2>2. IsSeq(fresh') /\ Len(fresh') = Len(fresh) + 1
        /\ Len(store) \in Nat /\ Len(fresh) \in Nat
    <3>1. PICK k : fresh' = Append(fresh, <<k, Draw(Ready, 2)>>)
      BY <1>4, CbcEffect
    <3> QED
      BY <3>1, SeqFacts
  <2>3. Len(store') <= Len(fresh') /\ Len(fresh') <= MaxFresh
    BY <1>4, <2>2, CbcEffect, CryptoAssumption
  <2> QED
    BY <1>0, <1>4, <2>1, <2>2, <2>3, CbcEffect
<1>5. CASE SealFails
  <2>1. rng' \in Generator
    <3>1. PICK drew \in {0, 1} : rng' = Drawn(Ready, drew)
      BY <1>5 DEF SealFails
    <3>2. drew \in Nat
      OBVIOUS
    <3> QED
      BY <3>1, <3>2, GeneratorFacts
  <2> QED
    BY <1>0, <1>5, <2>1 DEF SealFails
<1>6. CASE Damage
  BY <1>0, <1>6, DamageEffect
<1>7. CASE KeyGeneration
  <2>1. rng' \in Generator
    BY <1>7, GeneratorFacts DEF KeyGeneration
  <2> QED
    BY <1>0, <1>7, <2>1 DEF KeyGeneration
<1>8. CASE SignCall
  <2>1. rng' \in Generator
    BY <1>8, GeneratorFacts DEF SignCall
  <2>2. out'.op = "sign" /\ UNCHANGED <<prog, lives, setSeed, sm2Init, store, fresh, key>>
    BY <1>8 DEF SignCall
  <2> QED
    BY <1>0, <2>1, <2>2
<1>9. CASE Asks
  BY <1>9, AskEffect
<1>10. CASE UNCHANGED vars
  BY <1>10 DEF vars
<1> QED
  BY <1>1, <1>2, <1>3, <1>4, <1>5, <1>6, <1>7, <1>8, <1>9, <1>10 DEF CryptoNext, Asks

-----------------------------------------------------------------------------
(* Signatures                                                              *)

\* A program verifies what it has just signed, with the key it signed with.
LEMMA SignInvKept ==
    ASSUME CInv, SignInv, [CryptoNext]_vars
    PROVE  SignInv'
<1>1. CASE SignCall
  <2>1. PICK e \in 0 .. N + 1, k \in Nonces :
           out' = [op |-> "sign", e |-> e, res |-> Sign(key, e, k)]
    BY <1>1 DEF SignCall
  <2>2. key' = key /\ key \in PrivateKeys
    BY <1>1 DEF SignCall, CInv, CryptoTypeOK
  <2>3. e \in Nat
    BY Sm2Assumption
  <2>4. out'.op = "sign" /\ out'.e = e /\ out'.res = Sign(key', e, k)
    BY <2>1, <2>2
  <2> QED
    BY <2>2, <2>3, <2>4 DEF SignInv, SignedVerifies
<1>2. CASE VerifyCall
  <2>1. /\ key \in PrivateKeys /\ out.e \in Nat /\ out.res.ret = "ok"
        /\ \E k \in Nonces : out.res = Sign(key, out.e, k)
    BY <1>2 DEF VerifyCall, SignInv
  <2>2. PICK k \in Nonces : out.res = Sign(key, out.e, k)
    BY <2>1
  <2>3. Verify(PublicKey(key), out.e, out.res.r, out.res.s) = "ok"
    BY <2>1, <2>2, SignaturesVerify
  <2>4. out'.op = "verify" /\ out'.ret = "ok"
    BY <1>2, <2>3 DEF VerifyCall
  <2> QED
    BY <2>4 DEF SignInv, SignedVerifies
<1>3. CASE UNCHANGED vars
  BY <1>3 DEF vars, SignInv, SignedVerifies
<1>4. ASSUME out'.op \notin {"sign", "verify"} PROVE SignInv'
  BY <1>4 DEF SignInv, SignedVerifies
<1>5. CASE SetSeed \/ Restart \/ SealFails \/ Damage \/ UnsealNoKey \/ KeyGeneration
  <2>1. out' = None
    BY <1>5 DEF SetSeed, Restart, SealFails, Damage, UnsealNoKey, KeyGeneration
  <2> QED
    BY <1>4, <2>1 DEF None
<1>6. CASE Seal
  BY <1>4, <1>6, SealEffect
<1>7. CASE CbcEncryptCall
  BY <1>4, <1>7, CbcEffect
<1>8. CASE AskSize
  BY <1>4, <1>8 DEF AskSize
<1>9. CASE Unseal
  BY <1>4, <1>9 DEF Unseal
<1>10. CASE CbcDecryptCall
  BY <1>4, <1>10 DEF CbcDecryptCall
<1>11. CASE CipherCall
  BY <1>4, <1>11 DEF CipherCall
<1> QED
  BY <1>1, <1>2, <1>3, <1>5, <1>6, <1>7, <1>8, <1>9, <1>10, <1>11 DEF CryptoNext

-----------------------------------------------------------------------------
(* Fresh keys and nonces                                                   *)

\* One more use, with a number that was not drawn before
LEMMA FreshUse ==
    ASSUME CInv, FreshInv, "sm2" \notin prog, setSeed,
           rng' = Drawn(Ready, 2), UNCHANGED <<prog, lives, setSeed>>,
           NEW k, fresh' = Append(fresh, <<k, Draw(Ready, 2)>>)
    PROVE  FreshInv'
<1>1. Ready = rng /\ rng \in Generator /\ rng.seed = <<lives>>
  BY DEF Ready, CInv, FreshInv
<1>2. rng'.seed = <<lives>> /\ rng'.pos = rng.pos + 2 /\ rng.pos \in Nat /\ lives \in Nat
      /\ lives >= 1
  <2>1. rng' = Drawn(rng, 2) /\ 2 \in Nat
    BY <1>1
  <2>2. rng'.seed = rng.seed /\ rng'.pos = rng.pos + 2
    BY <1>1, <2>1, GeneratorFacts
  <2>3. rng.pos \in Nat
    BY <1>1 DEF Generator
  <2>4. lives \in 1 .. MaxLives
    BY DEF CInv, CryptoTypeOK
  <2>5. lives \in Nat /\ lives >= 1
    BY <2>4, CryptoAssumption
  <2> QED
    BY <1>1, <2>2, <2>3, <2>5
<1> DEFINE u == <<k, Draw(Ready, 2)>>
           n0 == rng.pos + 2
<1>3. Nonce(u) = Number(lives, n0) /\ n0 \in Nat
  BY <1>1, <1>2 DEF Nonce, Number, Draw
<1>4. /\ Len(fresh) \in Nat /\ DOMAIN fresh = 1 .. Len(fresh)
      /\ DOMAIN fresh' = 1 .. Len(fresh) + 1
      /\ fresh'[Len(fresh) + 1] = u
      /\ \A i \in 1 .. Len(fresh) : fresh'[i] = fresh[i]
  <2>1. IsSeq(fresh) /\ IsSeq(fresh')
    BY SeqFacts DEF CInv
  <2> QED
    BY <2>1, SeqFacts
<1> HIDE DEF u
<1>5. ASSUME NEW i \in 1 .. Len(fresh)
      PROVE  \E l \in 1 .. lives : \E n \in Nat :
                /\ Nonce(fresh[i]) = Number(l, n)
                /\ l = lives => n <= rng.pos
  BY <1>4 DEF FreshInv
<1>6. ASSUME NEW i \in 1 .. Len(fresh)
      PROVE  Nonce(fresh[i]) # Nonce(u)
  <2>1. PICK l \in 1 .. lives : \E n \in Nat : Nonce(fresh[i]) = Number(l, n)
                                              /\ (l = lives => n <= rng.pos)
    BY <1>5
  <2>2. PICK n \in Nat : Nonce(fresh[i]) = Number(l, n) /\ (l = lives => n <= rng.pos)
    BY <2>1
  <2>3. ASSUME Number(l, n) = Number(lives, n0) PROVE l = lives /\ n = n0
    BY <2>3 DEF Number
  <2>4. ~(l = lives /\ n = n0)
    BY <1>2, <2>2
  <2> QED
    BY <1>3, <2>2, <2>3, <2>4
<1>7. \A i \in DOMAIN fresh' : \A j \in DOMAIN fresh' :
         i # j => Nonce(fresh'[i]) # Nonce(fresh'[j])
  <2>1. \A i, j \in 1 .. Len(fresh) : i # j => Nonce(fresh[i]) # Nonce(fresh[j])
    BY <1>4 DEF FreshInv
  <2>2. \A i \in DOMAIN fresh' : i \in 1 .. Len(fresh) \/ i = Len(fresh) + 1
    BY <1>4
  <2> QED
    BY <1>4, <1>6, <2>1, <2>2
<1>8. ASSUME NEW i \in DOMAIN fresh'
      PROVE  \E l \in 1 .. lives : \E n \in Nat :
                /\ Nonce(fresh'[i]) = Number(l, n)
                /\ l = lives => n <= rng'.pos
  <2>1. CASE i \in 1 .. Len(fresh)
    <3>1. fresh'[i] = fresh[i] /\ \A n \in Nat : n <= rng.pos => n <= rng'.pos
      BY <1>2, <1>4, <2>1
    <3> QED
      BY <1>5, <2>1, <3>1
  <2>2. CASE i = Len(fresh) + 1
    <3>1. Nonce(fresh'[i]) = Number(lives, n0) /\ lives \in 1 .. lives /\ n0 <= rng'.pos
      BY <1>2, <1>3, <1>4, <2>2
    <3> QED
      BY <1>3, <3>1
  <2> QED
    BY <1>4, <2>1, <2>2
<1> QED
  BY <1>2, <1>7, <1>8 DEF FreshInv, Nonce

\* Steps that draw no key and no nonce: within a life the generator goes on
\* from where it was, and a new life starts with a number of its own.
LEMMA FreshKept ==
    ASSUME Separate, CInv, FreshInv, [CryptoNext]_vars
    PROVE  FreshInv'
<1>1. /\ lives \in Nat /\ rng \in Generator /\ rng.pos \in Nat
      /\ prog \in Programs
  BY CryptoAssumption DEF CInv, CryptoTypeOK, Generator
<1>2. CASE SetSeed
  <2>1. rng'.seed = <<lives>> /\ ~setSeed /\ setSeed' /\ UNCHANGED <<prog, lives, fresh>>
    BY <1>2 DEF SetSeed, Irand
  <2> QED
    BY <1>1, <2>1 DEF FreshInv, Nonce
<1>3. CASE Restart
  <2>1. lives' = lives + 1 /\ ~setSeed' /\ UNCHANGED <<prog, fresh>>
    BY <1>3 DEF Restart
  <2>2. \A l \in 1 .. lives : l \in 1 .. lives' /\ l # lives'
    BY <1>1, <2>1
  <2> QED
    BY <2>1, <2>2 DEF FreshInv, Nonce
<1>4. CASE Seal
  <2>1. "sm2" \notin prog
    BY <1>1, <1>4, SealEffect DEF Separate
  <2> QED
    BY <1>4, <2>1, SealEffect, FreshUse
<1>5. CASE CbcEncryptCall
  <2>1. "sm2" \notin prog
    BY <1>1, <1>5, CbcEffect DEF Separate
  <2> QED
    BY <1>5, <2>1, CbcEffect, FreshUse
<1>6. CASE SealFails
  <2>1. setSeed /\ UNCHANGED <<prog, lives, setSeed, fresh>>
    BY <1>6 DEF SealFails
  <2>2. PICK drew \in {0, 1} : rng' = Drawn(rng, drew)
    BY <1>6 DEF SealFails, Ready
  <2>3. drew \in Nat
    OBVIOUS
  <2>4. rng'.seed = rng.seed /\ rng'.pos = rng.pos + drew
    BY <1>1, <2>2, <2>3, GeneratorFacts
  <2>5. \A n \in Nat : n <= rng.pos => n <= rng'.pos
    BY <1>1, <2>3, <2>4
  <2> QED
    BY <2>1, <2>4, <2>5 DEF FreshInv, Nonce
<1>7. CASE KeyGeneration \/ SignCall
  <2>1. "sm2" \in prog /\ UNCHANGED <<prog, fresh>>
    BY <1>7 DEF KeyGeneration, SignCall, CInv
  <2>2. fresh = <<>>
    BY <2>1 DEF FreshInv
  <2> QED
    BY <2>1, <2>2 DEF FreshInv
<1>8. CASE Asks \/ Damage \/ UNCHANGED vars
  <2>1. UNCHANGED <<prog, lives, setSeed, rng, fresh>>
    BY <1>8, AskEffect, DamageEffect DEF vars
  <2> QED
    BY <2>1 DEF FreshInv, Nonce
<1> QED
  BY <1>2, <1>3, <1>4, <1>5, <1>6, <1>7, <1>8 DEF CryptoNext, Asks

-----------------------------------------------------------------------------
(* SM3                                                                     *)

IsBlock(b) == b = [i \in 1 .. BlockBytes |-> b[i]]

\* While a message is taken in, the blocks compressed so far and the filled part
\* of the buffer are the message, and md.length counts the bits of the former.
OpenInv ==
    /\ curlen \in 0 .. BlockBytes - 1
    /\ Len(msg) = Len(absorbed) * BlockBytes + curlen
    /\ length = Len(absorbed) * (8 * BlockBytes)
    /\ \A b \in 1 .. Len(absorbed), i \in 1 .. BlockBytes :
          absorbed[b][i] = msg[(b - 1) * BlockBytes + i]
    /\ \A i \in 1 .. curlen : buf[i] = msg[Len(absorbed) * BlockBytes + i]

Sm3Inv ==
    /\ IsBlock(buf) /\ IsSeq(absorbed) /\ IsSeq(msg) /\ Len(msg) <= MaxMsg
    /\ phase = "open" => OpenInv
    /\ HashesPadded

\* Positions in a message of n blocks
LEMMA Positions ==
    ASSUME NEW n \in Nat
    PROVE  /\ BlockBytes \in Nat /\ BlockBytes > 0
           /\ n * BlockBytes \in Nat /\ (n + 1) * BlockBytes = n * BlockBytes + BlockBytes
           /\ n * (8 * BlockBytes) = 8 * (n * BlockBytes)
           /\ (n + 1) * (8 * BlockBytes) = n * (8 * BlockBytes) + 8 * BlockBytes
           /\ \A b \in 1 .. n, i \in 1 .. BlockBytes :
                 (b - 1) * BlockBytes + i \in 1 .. n * BlockBytes
<1>1. BlockBytes \in Nat /\ BlockBytes > 0
  BY Sm3Assumption
<1>2. n * BlockBytes \in Nat /\ (n + 1) * BlockBytes = n * BlockBytes + BlockBytes
  BY <1>1
<1>3. /\ n * (8 * BlockBytes) = 8 * (n * BlockBytes)
      /\ (n + 1) * (8 * BlockBytes) = n * (8 * BlockBytes) + 8 * BlockBytes
  BY <1>1
<1>4. ASSUME NEW b \in 1 .. n, NEW i \in 1 .. BlockBytes
      PROVE  (b - 1) * BlockBytes + i \in 1 .. n * BlockBytes
  <2>1. b - 1 \in Nat /\ n - b \in Nat
    OBVIOUS
  <2>2. (b - 1) * BlockBytes \in Nat /\ (n - b) * BlockBytes \in Nat
    BY <1>1, <2>1
  <2>3. n * BlockBytes = (b - 1) * BlockBytes + BlockBytes + (n - b) * BlockBytes
    BY <1>1
  <2> QED
    BY <1>1, <2>2, <2>3
<1> QED
  BY <1>1, <1>2, <1>3, <1>4

LEMMA Sm3InitKept == Sm3Inv /\ Sm3Init => Sm3Inv'
<1> SUFFICES ASSUME Sm3Inv, Sm3Init PROVE Sm3Inv'
  OBVIOUS
<1>1. IsSeq(<<>>) /\ Len(<<>>) = 0
  <2>1. <<>> \in Seq({})
    OBVIOUS
  <2> QED
    BY <2>1 DEF IsSeq
<1>2. BlockBytes \in Nat /\ BlockBytes > 0 /\ MaxMsg \in Nat
  BY Sm3Assumption
<1>3. /\ curlen' = 0 /\ length' = 0 /\ absorbed' = <<>> /\ msg' = <<>>
      /\ phase' = "open" /\ buf' = buf
  BY DEF Sm3Init
<1>4. OpenInv'
  <2>1. Len(absorbed') = 0 /\ Len(msg') = 0
    BY <1>1, <1>3
  <2> QED
    BY <1>2, <1>3, <2>1 DEF OpenInv
<1> QED
  BY <1>1, <1>2, <1>3, <1>4 DEF Sm3Inv, IsBlock, HashesPadded

LEMMA ProcessKept == Sm3Inv /\ Process => Sm3Inv'
<1> SUFFICES ASSUME Sm3Inv, Process PROVE Sm3Inv'
  OBVIOUS
<1> DEFINE n == Len(absorbed)
           x == FirstByte + Len(msg) + 1
           filled == [buf EXCEPT ![curlen + 1] = x]
           nB == n * BlockBytes
<1>1. phase = "open" /\ phase' = "open" /\ OpenInv /\ Len(msg) < MaxMsg /\ msg' = Append(msg, x)
  BY DEF Process, Sm3Inv
<1>2. /\ n \in Nat /\ IsSeq(absorbed) /\ IsSeq(msg) /\ Len(msg) \in Nat
      /\ BlockBytes \in Nat /\ BlockBytes > 0 /\ nB \in Nat
      /\ MaxMsg \in Nat /\ LenMod \in Nat /\ MaxMsg * 8 < LenMod
  BY SeqFacts, Positions, Sm3Assumption DEF Sm3Inv
<1>3. /\ IsSeq(msg') /\ Len(msg') = Len(msg) + 1 /\ msg'[Len(msg) + 1] = x
      /\ \A i \in 1 .. Len(msg) : msg'[i] = msg[i]
  BY <1>1, <1>2, SeqFacts
<1>4. curlen \in 0 .. BlockBytes - 1 /\ Len(msg) = nB + curlen /\ length = 8 * nB
  BY <1>1, <1>2, Positions DEF OpenInv
<1>5. /\ IsBlock(filled) /\ filled[curlen + 1] = x
      /\ \A i \in 1 .. BlockBytes : i # curlen + 1 => filled[i] = buf[i]
  <2>1. IsBlock(buf) /\ curlen + 1 \in 1 .. BlockBytes
    BY <1>2, <1>4 DEF Sm3Inv
  <2>2. filled = [buf EXCEPT ![curlen + 1] = x]
    OBVIOUS
  <2> HIDE DEF x, filled
  <2>3. filled = [i \in 1 .. BlockBytes |-> IF i = curlen + 1 THEN x ELSE buf[i]]
    BY <2>1, <2>2 DEF IsBlock
  <2> QED
    BY <2>1, <2>3 DEF IsBlock
<1> HIDE DEF x, filled
<1>6. \A i \in 1 .. curlen + 1 : filled[i] = msg'[nB + i]
  <2>1. \A i \in 1 .. curlen : filled[i] = buf[i] /\ buf[i] = msg[nB + i]
    BY <1>1, <1>2, <1>4, <1>5 DEF OpenInv
  <2>2. \A i \in 1 .. curlen : msg'[nB + i] = msg[nB + i]
    BY <1>2, <1>3, <1>4
  <2> QED
    BY <1>2, <1>3, <1>4, <1>5, <2>1, <2>2
<1>7. \A b \in 1 .. n, i \in 1 .. BlockBytes :
         absorbed[b][i] = msg'[(b - 1) * BlockBytes + i]
  <2>1. \A b \in 1 .. n, i \in 1 .. BlockBytes :
          /\ absorbed[b][i] = msg[(b - 1) * BlockBytes + i]
          /\ (b - 1) * BlockBytes + i \in 1 .. nB
    BY <1>1, <1>2, Positions DEF OpenInv
  <2>2. \A k \in 1 .. nB : msg'[k] = msg[k]
    BY <1>2, <1>3, <1>4
  <2> QED
    BY <2>1, <2>2
<1>8. CASE curlen + 1 = BlockBytes
  <2>1. /\ absorbed' = Append(absorbed, filled) /\ buf' = BigEndian(filled)
        /\ length' = (length + 8 * BlockBytes) % LenMod /\ curlen' = 0
    BY <1>8 DEF Process, filled, x
  <2>2. /\ IsSeq(absorbed') /\ Len(absorbed') = n + 1 /\ absorbed'[n + 1] = filled
        /\ \A b \in 1 .. n : absorbed'[b] = absorbed[b]
    BY <1>2, <2>1, SeqFacts
  <2>3. IsBlock(buf')
    BY <2>1 DEF BigEndian, IsBlock
  <2>4. (n + 1) * BlockBytes = nB + BlockBytes
        /\ (n + 1) * (8 * BlockBytes) = 8 * nB + 8 * BlockBytes
    BY <1>2, Positions
  <2>5. length' = 8 * nB + 8 * BlockBytes
    <3>1. length + 8 * BlockBytes \in 0 .. LenMod - 1
      BY <1>1, <1>2, <1>4, <1>8
    <3>2. (length + 8 * BlockBytes) % LenMod = length + 8 * BlockBytes
      BY <1>2, <3>1
    <3> QED
      BY <1>4, <2>1, <3>2
  <2>6. ASSUME NEW b \in 1 .. n + 1, NEW i \in 1 .. BlockBytes
        PROVE  absorbed'[b][i] = msg'[(b - 1) * BlockBytes + i]
    <3>1. CASE b \in 1 .. n
      BY <1>7, <2>2, <3>1
    <3>2. CASE b = n + 1
      <4>1. (b - 1) * BlockBytes = nB
        BY <1>2, <3>2
      <4> QED
        BY <1>6, <1>8, <2>2, <3>2, <4>1
    <3> QED
      BY <1>2, <3>1, <3>2
  <2>7. OpenInv'
    <3>1. Len(msg') = (n + 1) * BlockBytes + 0 /\ 0 \in 0 .. BlockBytes - 1
      BY <1>2, <1>3, <1>4, <1>8, <2>4
    <3>2. length' = (n + 1) * (8 * BlockBytes)
      BY <2>4, <2>5
    <3>3. \A i \in 1 .. 0 : buf'[i] = msg'[(n + 1) * BlockBytes + i]
      OBVIOUS
    <3> HIDE DEF n
    <3> QED
      BY <2>1, <2>2, <2>6, <3>1, <3>2, <3>3 DEF OpenInv
  <2> QED
    BY <1>1, <1>2, <1>3, <2>2, <2>3, <2>7 DEF Sm3Inv, HashesPadded
<1>9. CASE curlen + 1 # BlockBytes
  <2>1. buf' = filled /\ curlen' = curlen + 1 /\ absorbed' = absorbed /\ length' = length
    BY <1>9 DEF Process, filled, x
  <2>2. OpenInv'
    <3>1. curlen' \in 0 .. BlockBytes - 1 /\ Len(msg') = nB + curlen'
      BY <1>2, <1>3, <1>4, <1>9, <2>1
    <3> QED
      BY <1>1, <1>6, <1>7, <2>1, <3>1 DEF OpenInv
  <2> QED
    BY <1>1, <1>2, <1>3, <1>5, <2>1, <2>2 DEF Sm3Inv, HashesPadded
<1> QED
  BY <1>8, <1>9

\* SM3_done's choice between one more block and two gives the padding its
\* fewest zeros.
LEMMA FewestZeros ==
    ASSUME NEW q \in Nat, NEW c \in 0 .. BlockBytes - 1,
           NEW m, m = q * BlockBytes + c,
           NEW z, z = IF NeedsTwo(c + 1) THEN BlockBytes + LenAt - c - 1 ELSE LenAt - c - 1
    PROVE  /\ z \in 0 .. BlockBytes - 1
           /\ \A k \in 0 .. BlockBytes - 1 :
                 (m + 1 + k + BlockBytes - LenAt) % BlockBytes = 0 <=> k = z
<1> DEFINE qB == q * BlockBytes
           P(k) == (m + 1 + k + BlockBytes - LenAt) % BlockBytes = 0
<1>1. /\ BlockBytes \in Nat /\ BlockBytes > 0 /\ qB \in Nat
      /\ LenAt \in 1 .. BlockBytes - 2
  BY Positions, Sm3Assumption
<1>2. z \in 0 .. BlockBytes - 1
  BY <1>1 DEF NeedsTwo
<1>3. m + 1 + z + BlockBytes - LenAt
         = IF NeedsTwo(c + 1) THEN qB + BlockBytes + BlockBytes ELSE qB + BlockBytes
  BY <1>1 DEF NeedsTwo
<1>4. /\ qB + BlockBytes = (q + 1) * BlockBytes
      /\ qB + BlockBytes + BlockBytes = (q + 2) * BlockBytes
  BY <1>1
<1>5. ASSUME NEW r \in Nat, NEW d \in 0 .. BlockBytes - 1
      PROVE  (r * BlockBytes + d) % BlockBytes = d
  BY <1>1, <1>5, RemainderUnique
<1>6. PICK r \in Nat : m + 1 + z + BlockBytes - LenAt = r * BlockBytes /\ r >= 1
  BY <1>3, <1>4
<1>7. P(z)
  <2>1. r * BlockBytes = r * BlockBytes + 0 /\ 0 \in 0 .. BlockBytes - 1
    BY <1>1, <1>6
  <2> QED
    BY <1>5, <1>6, <2>1
<1>8. ASSUME NEW k \in 0 .. BlockBytes - 1, P(k) PROVE k = z
  <2> DEFINE rB == r * BlockBytes
  <2>1. rB \in Nat /\ rB = (r - 1) * BlockBytes + BlockBytes
    BY <1>1
  <2>2. m + 1 + k + BlockBytes - LenAt = rB + (k - z)
    BY <1>1, <1>2, <1>6
  <2>3. CASE k >= z
    <3>1. k - z \in 0 .. BlockBytes - 1
      BY <1>1, <1>2, <2>3
    <3>2. (rB + (k - z)) % BlockBytes = k - z
      BY <1>5, <3>1
    <3> QED
      BY <1>1, <1>2, <1>8, <2>2, <3>2
  <2>4. CASE k < z
    <3>1. k - z + BlockBytes \in 1 .. BlockBytes - 1 /\ r - 1 \in Nat
      BY <1>1, <1>2, <1>6, <2>4
    <3>2. ((r - 1) * BlockBytes + (k - z + BlockBytes)) % BlockBytes = k - z + BlockBytes
      BY <1>5, <3>1
    <3>3. rB + (k - z) = (r - 1) * BlockBytes + (k - z + BlockBytes)
      BY <1>1, <1>2, <2>1
    <3> QED
      BY <1>8, <2>2, <3>1, <3>2, <3>3
  <2> QED
    BY <1>2, <2>3, <2>4
<1> QED
  BY <1>2, <1>7, <1>8

LEMMA DoneKept == Sm3Inv /\ Done => Sm3Inv'
<1> SUFFICES ASSUME Sm3Inv, Done PROVE Sm3Inv'
  OBVIOUS
<1> DEFINE n == Len(absorbed)
           m == Len(msg)
           c == curlen
           nB == n * BlockBytes
           field == BlockBytes - LenAt
           z == IF NeedsTwo(c + 1) THEN BlockBytes + LenAt - c - 1 ELSE LenAt - c - 1
           zs == [i \in 1 .. z |-> 0]
           ls == [i \in 1 .. field |-> IF i <= field - LenBytes THEN 0
                                       ELSE Digit(8 * m, field - i)]
           marked == [buf EXCEPT ![c + 1] = 128]
           first == Cleared(marked, c + 2, BlockBytes)
           last == IF NeedsTwo(c + 1) THEN LastBlock(BigEndian(first), 1, 8 * m)
                   ELSE LastBlock(marked, c + 2, 8 * m)
           P == PaddedMessage
<1>1. phase = "open" /\ phase' = "done" /\ OpenInv /\ msg' = msg
  BY DEF Done, Sm3Inv
<1>2. /\ n \in Nat /\ IsSeq(absorbed) /\ IsSeq(msg) /\ m \in Nat /\ m <= MaxMsg
      /\ BlockBytes \in Nat /\ BlockBytes > 0 /\ nB \in Nat
      /\ MaxMsg \in Nat /\ LenMod \in Nat /\ MaxMsg * 8 < LenMod
      /\ LenAt \in 1 .. BlockBytes - 2 /\ field \in Nat
      /\ LenBytes \in 0 .. field
  BY SeqFacts, Positions, Sm3Assumption DEF Sm3Inv, LenBytes
<1>3. c \in 0 .. BlockBytes - 1 /\ m = nB + c /\ length = 8 * nB
  BY <1>1, <1>2, Positions DEF OpenInv
<1>4. (length + 8 * c) % LenMod = 8 * m
  <2>1. length + 8 * c = 8 * m /\ 8 * m \in 0 .. LenMod - 1
    BY <1>2, <1>3
  <2>2. (8 * m) % LenMod = 8 * m
    BY <1>2, <2>1
  <2> QED
    BY <2>1, <2>2
<1>5. /\ absorbed' = absorbed \o (IF NeedsTwo(c + 1) THEN <<first, last>> ELSE <<last>>)
      /\ buf' = BigEndian(last)
  BY <1>4 DEF Done
<1>6. IsBlock(buf')
  BY <1>5 DEF BigEndian, IsBlock
<1>7. /\ marked[c + 1] = 128
      /\ \A i \in 1 .. BlockBytes : i # c + 1 => marked[i] = buf[i]
  <2>1. IsBlock(buf) /\ c + 1 \in 1 .. BlockBytes
    BY <1>2, <1>3 DEF Sm3Inv
  <2>2. marked = [buf EXCEPT ![c + 1] = 128]
    OBVIOUS
  <2> HIDE DEF marked
  <2>3. marked = [i \in 1 .. BlockBytes |-> IF i = c + 1 THEN 128 ELSE buf[i]]
    BY <2>1, <2>2 DEF IsBlock
  <2> QED
    BY <2>1, <2>3
<1> HIDE DEF marked
\* The padded message, byte by byte
<1>8. Padding(m) = <<128>> \o zs \o ls /\ z \in 0 .. BlockBytes - 1
  <2>1. z \in 0 .. BlockBytes - 1
        /\ z = CHOOSE k \in 0 .. BlockBytes - 1 :
                  (m + 1 + k + BlockBytes - LenAt) % BlockBytes = 0
    <3>1. z = IF NeedsTwo(c + 1) THEN BlockBytes + LenAt - c - 1 ELSE LenAt - c - 1
      OBVIOUS
    <3> HIDE DEF z, m, c, n
    <3>2. n \in Nat /\ c \in 0 .. BlockBytes - 1 /\ m = n * BlockBytes + c
      BY <1>2, <1>3
    <3>3. /\ z \in 0 .. BlockBytes - 1
          /\ \A k \in 0 .. BlockBytes - 1 :
                (m + 1 + k + BlockBytes - LenAt) % BlockBytes = 0 <=> k = z
      BY <3>1, <3>2, FewestZeros
    <3> QED
      BY <3>3
  <2> QED
    BY <2>1 DEF Padding
<1>9. /\ IsSeq(<<128>>) /\ Len(<<128>>) = 1 /\ IsSeq(zs) /\ Len(zs) = z
      /\ IsSeq(ls) /\ Len(ls) = field
  <2>1. <<128>> \in Seq(Nat) /\ Len(<<128>>) = 1
    OBVIOUS
  <2>2. z \in Nat /\ zs = [i \in 1 .. z |-> zs[i]]
    BY <1>8
  <2>3. field \in Nat /\ ls = [i \in 1 .. field |-> ls[i]]
    BY <1>2
  <2> HIDE DEF zs, ls, z, field
  <2>4. IsSeq(zs) /\ Len(zs) = z /\ IsSeq(ls) /\ Len(ls) = field
    BY <2>2, <2>3, ListFacts
  <2> QED
    BY <2>1, <2>4 DEF IsSeq
<1> HIDE DEF z
<1>10. /\ Len(P) = m + 1 + z + field
       /\ \A i \in 1 .. m : P[i] = msg[i]
       /\ P[m + 1] = 128
       /\ \A i \in 1 .. z : P[m + 1 + i] = 0
       /\ \A i \in 1 .. field : P[m + 1 + z + i] = ls[i]
  <2> DEFINE a == <<128>> \o zs
             d == a \o ls
  <2>1. /\ IsSeq(a) /\ Len(a) = 1 + z /\ a[1] = 128
        /\ \A i \in 1 .. z : a[1 + i] = 0
    <3>0. IsSeq(<<128>>) /\ IsSeq(zs) /\ a = <<128>> \o zs
      BY <1>9
    <3> HIDE DEF a
    <3>1. Joined(a, <<128>>, zs)
      BY <3>0, ConcatFacts, Zenon
    <3>2. \A i \in 1 .. z : zs[i] = 0
      OBVIOUS
    <3> HIDE DEF zs
    <3>3. Len(<<128>>) = 1 /\ <<128>>[1] = 128 /\ Len(zs) = z /\ z \in Nat
      BY <1>8, <1>9
    <3>4. IsSeq(a) /\ Len(a) = 1 + z
      BY <3>1, <3>3 DEF Joined
    <3>5. a[1] = 128
      BY <3>1, <3>3 DEF Joined
    <3>6. \A i \in 1 .. z : a[1 + i] = 0
      <4>1. \A i \in 1 .. z : a[1 + i] = zs[i]
        <5>1. \A i \in 1 .. Len(zs) : a[Len(<<128>>) + i] = zs[i]
          BY <3>1 DEF Joined
        <5> QED
          BY <3>3, <5>1
      <4> QED
        BY <3>2, <4>1
    <3> QED
      BY <3>4, <3>5, <3>6
  <2> HIDE DEF a, ls, m, field
  <2>2. /\ IsSeq(d) /\ Len(d) = 1 + z + field
        /\ \A i \in 1 .. 1 + z : d[i] = a[i]
        /\ \A i \in 1 .. field : d[1 + z + i] = ls[i]
    <3>0. IsSeq(a) /\ IsSeq(ls) /\ d = a \o ls
      BY <1>9, <2>1
    <3> HIDE DEF d
    <3>1. Joined(d, a, ls)
      BY <3>0, ConcatFacts, Zenon
    <3> QED
      BY <1>9, <2>1, <3>1 DEF Joined
  <2> HIDE DEF d
  <2>3. P = msg \o d
    BY <1>8 DEF PaddedMessage, a, d, m, ls, field
  <2>4. /\ Len(P) = m + (1 + z + field)
        /\ \A i \in 1 .. m : P[i] = msg[i]
        /\ \A i \in 1 .. 1 + z + field : P[m + i] = d[i]
    <3> HIDE DEF P
    <3>0. IsSeq(msg) /\ IsSeq(d) /\ P = msg \o d
      BY <1>2, <2>2, <2>3
    <3>1. Joined(P, msg, d)
      BY <3>0, ConcatFacts, Zenon
    <3> QED
      BY <2>2, <3>1 DEF m, Joined
  <2>5. d[1] = 128 /\ \A i \in 1 .. z : d[1 + i] = 0
    BY <1>8, <2>1, <2>2
  <2> HIDE DEF P
  <2>6. \A i \in 1 .. z : P[m + 1 + i] = d[1 + i]
    <3>1. \A i \in 1 .. z : 1 + i \in 1 .. 1 + z + field /\ m + (1 + i) = m + 1 + i
      BY <1>2, <1>8
    <3> QED
      BY <2>4, <3>1
  <2>7. \A i \in 1 .. field : P[m + 1 + z + i] = d[1 + z + i]
    <3>1. \A i \in 1 .. field : 1 + z + i \in 1 .. 1 + z + field
                                /\ m + (1 + z + i) = m + 1 + z + i
      BY <1>2, <1>8
    <3> QED
      BY <2>4, <3>1
  <2>8. P[m + 1] = d[1]
    BY <1>2, <1>8, <2>4
  <2>9. Len(P) = m + 1 + z + field
    BY <1>2, <1>8, <2>4
  <2>10. \A i \in 1 .. field : P[m + 1 + z + i] = ls[i]
    BY <2>2, <2>7
  <2> QED
    BY <2>4, <2>5, <2>6, <2>8, <2>9, <2>10
<1> HIDE DEF P, zs
<1>11. /\ z = IF NeedsTwo(c + 1) THEN BlockBytes + LenAt - c - 1 ELSE LenAt - c - 1
       /\ \A i \in 1 .. field : ls[i] = IF i <= field - LenBytes THEN 0
                                        ELSE Digit(8 * m, field - i)
  BY DEF z
<1>12. \A b \in 1 .. n, i \in 1 .. BlockBytes : absorbed[b][i] = P[(b - 1) * BlockBytes + i]
  <2>1. \A b \in 1 .. n, i \in 1 .. BlockBytes :
          /\ absorbed[b][i] = msg[(b - 1) * BlockBytes + i]
          /\ (b - 1) * BlockBytes + i \in 1 .. nB
    BY <1>1, <1>2, Positions DEF OpenInv
  <2>2. \A k \in 1 .. nB : P[k] = msg[k]
    BY <1>2, <1>3, <1>10
  <2> QED
    BY <2>1, <2>2
<1>13. \A i \in 1 .. c : marked[i] = P[nB + i]
  <2>1. \A i \in 1 .. c : marked[i] = buf[i] /\ buf[i] = msg[nB + i]
    BY <1>1, <1>2, <1>3, <1>7 DEF OpenInv
  <2>2. \A i \in 1 .. c : P[nB + i] = msg[nB + i]
    BY <1>2, <1>3, <1>10
  <2> QED
    BY <2>1, <2>2
<1>14. marked[c + 1] = P[nB + c + 1]
  BY <1>3, <1>7, <1>10
<1>15. P' = P
  BY <1>1 DEF P, PaddedMessage
<1> HIDE DEF ls
<1>16. CASE ~NeedsTwo(c + 1)
  <2>1. z = LenAt - c - 1 /\ c + 1 <= LenAt
    BY <1>2, <1>3, <1>11, <1>16 DEF NeedsTwo
  <2>2. absorbed' = absorbed \o <<last>> /\ last = LastBlock(marked, c + 2, 8 * m)
    BY <1>5, <1>16
  <2> HIDE DEF last
  <2>3. /\ IsSeq(<<last>>) /\ Len(<<last>>) = 1 /\ <<last>>[1] = last
    <3>1. <<last>> \in Seq({last})
      OBVIOUS
    <3> QED
      BY <3>1 DEF IsSeq
  <2>4. /\ IsSeq(absorbed') /\ Len(absorbed') = n + 1 /\ absorbed'[n + 1] = last
        /\ \A b \in 1 .. n : absorbed'[b] = absorbed[b]
    <3>0. IsSeq(absorbed) /\ IsSeq(<<last>>) /\ absorbed' = absorbed \o <<last>>
      BY <1>2, <2>2, <2>3
    <3>1. Joined(absorbed', absorbed, <<last>>)
      BY <3>0, ConcatFacts, Zenon
    <3> QED
      BY <2>3, <3>1 DEF Joined
  <2>5. ASSUME NEW i \in 1 .. BlockBytes PROVE last[i] = P[nB + i]
    <3>1. last[i] = IF i > BlockBytes - LenBytes THEN Digit(8 * m, BlockBytes - i)
                    ELSE IF i >= c + 2 THEN 0 ELSE marked[i]
      BY <2>2 DEF LastBlock, Cleared
    <3>2. CASE i <= c + 1
      BY <1>2, <1>3, <1>13, <1>14, <2>1, <3>1, <3>2
    <3>3. CASE i > c + 1 /\ i <= LenAt
      <4>1. i - c - 1 \in 1 .. z /\ nB + i = m + 1 + (i - c - 1)
        BY <1>2, <1>3, <2>1, <3>3
      <4>2. P[nB + i] = 0
        BY <1>10, <4>1
      <4> QED
        BY <1>2, <1>3, <3>1, <3>3, <4>2
    <3>4. CASE i > LenAt
      <4>1. i - LenAt \in 1 .. field /\ nB + i = m + 1 + z + (i - LenAt)
            /\ field - (i - LenAt) = BlockBytes - i
        BY <1>2, <1>3, <2>1, <3>4
      <4>2. P[nB + i] = ls[i - LenAt]
        BY <1>10, <4>1
      <4>3. ls[i - LenAt] = IF i - LenAt <= field - LenBytes THEN 0
                            ELSE Digit(8 * m, BlockBytes - i)
        BY <1>11, <4>1
      <4>4. i >= c + 2 /\ (i - LenAt <= field - LenBytes <=> ~(i > BlockBytes - LenBytes))
        BY <1>2, <1>3, <2>1, <3>4
      <4> QED
        BY <3>1, <4>2, <4>3, <4>4
    <3> QED
      BY <1>2, <1>3, <3>2, <3>3, <3>4
  <2>6. Len(P) = (n + 1) * BlockBytes
    BY <1>2, <1>3, <1>10, <2>1, Positions
  <2>7. ASSUME NEW b \in 1 .. n + 1, NEW i \in 1 .. BlockBytes
        PROVE  absorbed'[b][i] = P[(b - 1) * BlockBytes + i]
    <3>1. CASE b \in 1 .. n
      BY <1>12, <2>4, <3>1
    <3>2. CASE b = n + 1
      <4>1. (b - 1) * BlockBytes = nB
        BY <1>2, <3>2
      <4> QED
        BY <2>4, <2>5, <3>2, <4>1
    <3> QED
      BY <1>2, <3>1, <3>2
  <2>8. HashesPadded'
    BY <1>15, <2>4, <2>6, <2>7 DEF HashesPadded, P
  <2> QED
    BY <1>1, <1>2, <1>6, <2>4, <2>8 DEF Sm3Inv
<1>17. CASE NeedsTwo(c + 1)
  <2>1. z = BlockBytes + LenAt - c - 1 /\ c + 1 > LenAt
    BY <1>2, <1>3, <1>11, <1>17 DEF NeedsTwo
  <2>2. absorbed' = absorbed \o <<first, last>>
        /\ last = LastBlock(BigEndian(first), 1, 8 * m)
    BY <1>5, <1>17
  <2>3. \A i \in 1 .. BlockBytes : first[i] = IF i >= c + 2 THEN 0 ELSE marked[i]
    BY <1>2 DEF Cleared
  <2> HIDE DEF last, first
  <2> DEFINE two == <<first, last>>
  <2>4. IsSeq(two) /\ Len(two) = 2 /\ two[1] = first /\ two[2] = last
    <3>1. two \in Seq({first, last})
      OBVIOUS
    <3>2. IsSeq(two)
      BY <3>1 DEF IsSeq
    <3> QED
      BY <3>2
  <2> HIDE DEF two
  <2>5. /\ IsSeq(absorbed') /\ Len(absorbed') = n + 2
        /\ absorbed'[n + 1] = first /\ absorbed'[n + 2] = last
        /\ \A b \in 1 .. n : absorbed'[b] = absorbed[b]
    <3>0. IsSeq(absorbed) /\ IsSeq(two) /\ absorbed' = absorbed \o two
      BY <1>2, <2>2, <2>4 DEF two
    <3>1. Joined(absorbed', absorbed, two)
      BY <3>0, ConcatFacts, Zenon
    <3> QED
      BY <2>4, <3>1 DEF Joined
  <2>6. ASSUME NEW i \in 1 .. BlockBytes PROVE first[i] = P[nB + i]
    <3>1. CASE i <= c + 1
      <4>1. first[i] = marked[i]
        BY <1>2, <1>3, <2>3, <3>1
      <4>2. CASE i = c + 1
        BY <1>2, <1>3, <1>14, <4>1, <4>2
      <4>3. CASE i \in 1 .. c
        BY <1>13, <4>1, <4>3
      <4> QED
        BY <1>2, <1>3, <3>1, <4>2, <4>3
    <3>2. CASE i > c + 1
      <4>1. i - c - 1 \in 1 .. z /\ nB + i = m + 1 + (i - c - 1)
        BY <1>2, <1>3, <2>1, <3>2
      <4>2. P[nB + i] = 0
        BY <1>10, <4>1
      <4> QED
        BY <1>2, <1>3, <2>3, <3>2, <4>2
    <3> QED
      BY <1>2, <1>3, <3>1, <3>2
  <2>7. ASSUME NEW i \in 1 .. BlockBytes PROVE last[i] = P[nB + BlockBytes + i]
    <3>1. last[i] = IF i > BlockBytes - LenBytes THEN Digit(8 * m, BlockBytes - i) ELSE 0
      BY <1>2, <2>2 DEF LastBlock, Cleared
    <3>2. CASE i <= LenAt
      <4>1. BlockBytes + i - c - 1 \in 1 .. z
            /\ nB + BlockBytes + i = m + 1 + (BlockBytes + i - c - 1)
        BY <1>2, <1>3, <2>1, <3>2
      <4>2. P[nB + BlockBytes + i] = 0
        BY <1>10, <4>1
      <4> QED
        BY <1>2, <1>3, <3>1, <3>2, <4>2
    <3>3. CASE i > LenAt
      <4>1. i - LenAt \in 1 .. field /\ nB + BlockBytes + i = m + 1 + z + (i - LenAt)
            /\ field - (i - LenAt) = BlockBytes - i
        BY <1>2, <1>3, <2>1, <3>3
      <4>2. P[nB + BlockBytes + i] = ls[i - LenAt]
        BY <1>10, <4>1
      <4>3. ls[i - LenAt] = IF i - LenAt <= field - LenBytes THEN 0
                            ELSE Digit(8 * m, BlockBytes - i)
        BY <1>11, <4>1
      <4>4. i - LenAt <= field - LenBytes <=> ~(i > BlockBytes - LenBytes)
        BY <1>2, <1>3, <3>3
      <4> QED
        BY <3>1, <4>2, <4>3, <4>4
    <3> QED
      BY <1>2, <3>2, <3>3
  <2>8. (n + 1) * BlockBytes = nB + BlockBytes /\ (n + 2) * BlockBytes = nB + 2 * BlockBytes
    BY <1>2
  <2>9. Len(P) = (n + 2) * BlockBytes
    BY <1>2, <1>3, <1>10, <2>1, <2>8
  <2>10. ASSUME NEW b \in 1 .. n + 2, NEW i \in 1 .. BlockBytes
         PROVE  absorbed'[b][i] = P[(b - 1) * BlockBytes + i]
    <3>1. CASE b \in 1 .. n
      BY <1>12, <2>5, <3>1
    <3>2. CASE b = n + 1
      <4>1. (b - 1) * BlockBytes = nB
        BY <1>2, <3>2
      <4> QED
        BY <2>5, <2>6, <3>2, <4>1
    <3>3. CASE b = n + 2
      <4>1. (b - 1) * BlockBytes = nB + BlockBytes
        BY <1>2, <2>8, <3>3
      <4> QED
        BY <2>5, <2>7, <3>3, <4>1
    <3> QED
      BY <1>2, <3>1, <3>2, <3>3
  <2>11. HashesPadded'
    BY <1>15, <2>5, <2>9, <2>10 DEF HashesPadded, P
  <2> QED
    BY <1>1, <1>2, <1>6, <2>5, <2>11 DEF Sm3Inv
<1> QED
  BY <1>16, <1>17

LEMMA Sm3InvKept == Sm3Inv /\ [GmNext]_gmVars => Sm3Inv'
<1>1. ASSUME Sm3Inv, UNCHANGED sm3Vars PROVE Sm3Inv'
  <2>1. UNCHANGED <<curlen, length, buf, absorbed, msg, phase>>
    BY <1>1 DEF sm3Vars
  <2>2. (phase = "open" => OpenInv)'
    BY <1>1, <2>1 DEF Sm3Inv, OpenInv
  <2>3. HashesPadded'
    BY <1>1, <2>1 DEF Sm3Inv, HashesPadded, PaddedMessage
  <2>4. IsBlock(buf)' /\ IsSeq(absorbed)' /\ IsSeq(msg)' /\ (Len(msg) <= MaxMsg)'
    BY <1>1, <2>1 DEF Sm3Inv, IsBlock, IsSeq
  <2> QED
    BY <2>2, <2>3, <2>4 DEF Sm3Inv
<1>2. Sm3Inv /\ Sm3Next => Sm3Inv'
  BY Sm3InitKept, ProcessKept, DoneKept DEF Sm3Next
<1> QED
  BY <1>1, <1>2 DEF GmNext, gmVars

-----------------------------------------------------------------------------
(* Sealed data, CBC and what the calls return                              *)

\* The text and the MAC text of every request
Requested(text, mac) == \E r \in Requests : Len(text) = r[1] /\ Len(mac) = r[2]

\* What was sealed is what data_copy made of the text and the MAC text.
WellSealed(e) ==
    /\ e = [now |-> e.now, sealed |-> e.sealed, text |-> e.text, mac |-> e.mac]
    /\ IsSeq(e.text) /\ IsSeq(e.mac) /\ Requested(e.text, e.mac)
    /\ \E salt, nonce :
          e.sealed = DataCopy(salt, nonce,
                              OcbEncrypt(DeriveSealingKey(salt), nonce, e.text, e.mac, "enc"),
                              Len(e.text), e.mac)

\* The last call has returned what its function computes from what the storage
\* holds, or from what the call in front of it returned.
SealReturned ==
    out.op = "seal" =>
        LET e == store[Len(store)]
        IN  /\ Len(store) > 0 /\ e.now = e.sealed
            /\ out.text = Len(e.text) /\ out.mac = Len(e.mac)
            /\ out.room = CalcSize(out.mac, out.text)

UnsealReturned ==
    out.op = "unseal" =>
        LET data == store[out.i].now
        IN  /\ out.i \in DOMAIN store
            /\ out.res = UnsealResult(data, data.textSize - out.short, data.macSize)

CbcReturned ==
    out.op = "cbc" =>
        /\ IsSeq(out.text) /\ out.room \in Int
        /\ out.data = CbcEncrypt(out.key, out.iv, out.text, out.room)

CallInv ==
    /\ \A i \in DOMAIN store : WellSealed(store[i])
    /\ SealReturned /\ UnsealReturned /\ CbcReturned
    /\ out.op = "size" => out.ret \in {UintMax, out.mac + out.text + TagLen + Header}
    /\ DecryptionInverts

LEMMA TextFacts ==
    ASSUME NEW name, NEW n, NEW len \in Nat
    PROVE  IsSeq(Text(name, n, len)) /\ Len(Text(name, n, len)) = len
<1> DEFINE t == Text(name, n, len)
<1>1. t = [i \in 1 .. len |-> t[i]]
  BY DEF Text
<1> HIDE DEF t
<1>2. IsSeq(t) /\ Len(t) = len
  BY <1>1, ListFacts
<1> QED
  BY <1>2 DEF t

\* The lengths of sealed data and of its parts
LEMMA SealedParts ==
    ASSUME NEW e, WellSealed(e)
    PROVE  \E salt, nonce, ct, tag, m :
             /\ m = SubSeq(e.mac, 1, Len(e.mac) % ByteMod)
             /\ IsSeq(ct) /\ Len(ct) = Len(e.text) /\ Len(e.text) \in Nat
             /\ IsSeq(tag) /\ Len(tag) = B
             /\ IsSeq(m) /\ Len(m) = Len(e.mac) % ByteMod /\ Len(m) \in Nat
             /\ Len(m) <= Len(e.mac)
             /\ e.sealed = [salt |-> salt, nonce |-> nonce, payload |-> ct \o tag \o m,
                            textSize |-> Len(e.text), macSize |-> Len(m)]
             /\ OcbDecrypt(DeriveSealingKey(salt), nonce, ct, tag, e.mac, "dec") = Opened(e.text)
<1>1. PICK salt, nonce :
        e.sealed = DataCopy(salt, nonce,
                            OcbEncrypt(DeriveSealingKey(salt), nonce, e.text, e.mac, "enc"),
                            Len(e.text), e.mac)
  BY DEF WellSealed
<1> DEFINE k == DeriveSealingKey(salt)
           l == Len(e.mac) % ByteMod
           m == SubSeq(e.mac, 1, l)
<1>2. IsSeq(e.text) /\ IsSeq(e.mac) /\ Len(e.text) \in Nat /\ Len(e.mac) \in Nat
  BY SeqFacts DEF WellSealed
<1>3. PICK ct, tag :
        /\ IsSeq(ct) /\ Len(ct) = Len(e.text)
        /\ IsSeq(tag) /\ Len(tag) = B
        /\ OcbEncrypt(k, nonce, e.text, e.mac, "enc") = ct \o tag
        /\ OcbDecrypt(k, nonce, ct, tag, e.mac, "dec") = Opened(e.text)
  <2> DEFINE x == e.text
             y == e.mac
             c == "enc"
             d == "dec"
             o == OcbEncrypt(k, nonce, x, y, c)
             ct == CipherPart(o, Len(x))
             tag == TagPart(o, Len(x))
  <2>1. IsSeq(x) /\ IsSeq(y)
    BY <1>2
  <2> HIDE DEF k, x, y, c, d
  <2>2. /\ IsSeq(o) /\ Len(o) = Len(x) + B
        /\ OcbDecrypt(k, nonce, ct, tag, y, d) = Opened(x)
    BY ONLY <2>1, OcbInverts
  <2> HIDE DEF o
  <2>3. Len(x) \in Nat /\ B \in Nat
    BY <1>2, ModesAssumption DEF x
  <2>4. IsSeq(ct) /\ Len(ct) = Len(x) /\ IsSeq(tag) /\ Len(tag) = B /\ ct \o tag = o
    BY <2>2, <2>3, SplitAt DEF CipherPart, TagPart
  <2> HIDE DEF ct, tag
  <2> QED
    BY <2>2, <2>4 DEF x, y, c, d, o
<1>4. l \in Nat /\ l <= Len(e.mac)
  BY <1>2, CryptoAssumption, RemainderSmaller
<1> HIDE DEF l
<1>5. IsSeq(m) /\ Len(m) = l
  <2>1. IsSeq(SubSeq(e.mac, 0 + 1, 0 + l)) /\ Len(SubSeq(e.mac, 0 + 1, 0 + l)) = l
    BY <1>2, <1>4, PartOf
  <2>2. 0 + 1 = 1 /\ 0 + l = l
    BY <1>4
  <2> QED
    BY <2>1, <2>2
<1>6. e.sealed = [salt |-> salt, nonce |-> nonce, payload |-> ct \o tag \o m,
                  textSize |-> Len(e.text), macSize |-> l]
  BY <1>1, <1>3 DEF DataCopy, l
<1> HIDE DEF m
<1> QED
  BY <1>2, <1>3, <1>4, <1>5, <1>6 DEF k, l, m

\* Three parts, one behind the other, are found again.
LEMMA ThreeParts ==
    ASSUME NEW q, IsSeq(q), NEW w, IsSeq(w), NEW z, IsSeq(z)
    PROVE  LET s == q \o w \o z
           IN  /\ Len(s) = Len(q) + Len(w) + Len(z)
               /\ SubSeq(s, 1, Len(q)) = q
               /\ SubSeq(s, Len(q) + 1, Len(q) + Len(w)) = w
               /\ SubSeq(s, Len(q) + Len(w) + 1, Len(q) + Len(w) + Len(z)) = z
<1> DEFINE a == q \o w
           s == a \o z
<1>1. Joined(a, q, w)
  BY ConcatFacts
<1>2. Len(q) \in Nat /\ Len(w) \in Nat /\ Len(z) \in Nat
  BY SeqFacts
<1> HIDE DEF a
<1>3. IsSeq(a) /\ Len(a) = Len(q) + Len(w)
  BY <1>1 DEF Joined
<1>4. Joined(s, a, z)
  BY <1>3, ConcatFacts
<1>5. SubSeq(s, Len(a) + 1, Len(a) + Len(z)) = z
  BY <1>3, ConcatParts
<1> HIDE DEF s
<1>6. IsSeq(s) /\ Len(s) = Len(q) + Len(w) + Len(z)
  BY <1>3, <1>4 DEF Joined
<1>7. q = [j \in 1 .. Len(q) |-> q[j]] /\ w = [j \in 1 .. Len(w) |-> w[j]]
  BY DEF IsSeq
<1>8. \A j \in 1 .. Len(q) : s[0 + j] = q[j]
  BY <1>1, <1>2, <1>3, <1>4 DEF Joined
<1>9. \A j \in 1 .. Len(w) : s[Len(q) + j] = w[j]
  BY <1>1, <1>2, <1>3, <1>4 DEF Joined
<1>10. SubSeq(s, 0 + 1, 0 + Len(q)) = [j \in 1 .. Len(q) |-> s[0 + j]]
  BY <1>2, <1>6, PartOf
<1>11. SubSeq(s, Len(q) + 1, Len(q) + Len(w)) = [j \in 1 .. Len(w) |-> s[Len(q) + j]]
  BY <1>2, <1>6, PartOf
<1>12. 0 + 1 = 1 /\ 0 + Len(q) = Len(q)
  BY <1>2
<1>13. SubSeq(s, 1, Len(q)) = q
  BY <1>7, <1>8, <1>10, <1>12
<1>14. SubSeq(s, Len(q) + 1, Len(q) + Len(w)) = w
  BY <1>7, <1>9, <1>11
<1> QED
  BY <1>3, <1>5, <1>6, <1>13, <1>14 DEF s, a

\* Sealed data that is intact gives back its text and its MAC text, if the length
\* of the MAC text fits the byte it passes through.
LEMMA IntactUnseals ==
    ASSUME NEW e, WellSealed(e), Len(e.mac) < ByteMod
    PROVE  /\ e.sealed.textSize \in Nat
           /\ UnsealResult(e.sealed, e.sealed.textSize, e.sealed.macSize)
                = [ret |-> 0, text |-> e.text, mac |-> e.mac]
<1>1. PICK salt, nonce, ct, tag, m :
        /\ m = SubSeq(e.mac, 1, Len(e.mac) % ByteMod)
        /\ IsSeq(ct) /\ Len(ct) = Len(e.text) /\ Len(e.text) \in Nat
        /\ IsSeq(tag) /\ Len(tag) = B
        /\ IsSeq(m) /\ Len(m) = Len(e.mac) % ByteMod /\ Len(m) \in Nat
        /\ Len(m) <= Len(e.mac)
        /\ e.sealed = [salt |-> salt, nonce |-> nonce, payload |-> ct \o tag \o m,
                       textSize |-> Len(e.text), macSize |-> Len(m)]
        /\ OcbDecrypt(DeriveSealingKey(salt), nonce, ct, tag, e.mac, "dec") = Opened(e.text)
  BY SealedParts
<1>2. m = e.mac
  <2>1. IsSeq(e.mac) /\ Len(e.mac) \in Nat /\ ByteMod \in Nat
    BY SeqFacts, CryptoAssumption DEF WellSealed
  <2>2. Len(e.mac) % ByteMod = Len(e.mac)
    BY <2>1, SmallRemainder
  <2>3. SubSeq(e.mac, 1, Len(e.mac)) = e.mac
    BY <2>1 DEF IsSeq
  <2> QED
    BY <1>1, <2>2, <2>3
<1> DEFINE s == ct \o tag \o m
           n == Len(e.text)
<1>3. /\ SubSeq(s, 1, n) = ct /\ SubSeq(s, n + 1, n + B) = tag
      /\ SubSeq(s, n + B + 1, n + B + Len(m)) = m
  <2>1. /\ SubSeq(s, 1, Len(ct)) = ct
        /\ SubSeq(s, Len(ct) + 1, Len(ct) + Len(tag)) = tag
        /\ SubSeq(s, Len(ct) + Len(tag) + 1, Len(ct) + Len(tag) + Len(m)) = m
    <3>1. IsSeq(ct) /\ IsSeq(tag) /\ IsSeq(m)
      BY <1>1
    <3> QED
      BY ONLY <3>1, ThreeParts
  <2> HIDE DEF s
  <2> QED
    BY <1>1, <2>1
<1>4. /\ e.sealed.salt = salt /\ e.sealed.nonce = nonce /\ e.sealed.payload = s
      /\ e.sealed.textSize = n /\ e.sealed.macSize = Len(m)
  <2>1. e.sealed = [salt |-> salt, nonce |-> nonce, payload |-> s,
                    textSize |-> n, macSize |-> Len(m)]
    BY <1>1
  <2> HIDE DEF s, n
  <2> QED
    BY ONLY <2>1
<1> HIDE DEF s, n
<1>5. n \in Nat /\ Len(m) \in Nat
  BY <1>1 DEF n
<1>6. UnsealResult(e.sealed, n, Len(m)) =
        LET dec == OcbDecrypt(DeriveSealingKey(salt), nonce, ct, tag, m, "dec")
        IN  [ret |-> dec.diff, text |-> dec.text, mac |-> m]
  <2>1. ~(e.sealed.textSize > n \/ e.sealed.macSize > Len(m))
    BY <1>4, <1>5
  <2> QED
    BY <1>3, <1>4, <2>1 DEF UnsealResult, TagLen
<1>7. UnsealResult(e.sealed, n, Len(m)) = [ret |-> 0, text |-> e.text, mac |-> m]
  <2>1. OcbDecrypt(DeriveSealingKey(salt), nonce, ct, tag, m, "dec") = Opened(e.text)
    BY <1>1, <1>2
  <2> QED
    BY ONLY <1>6, <2>1 DEF Opened
<1> QED
  BY <1>2, <1>4, <1>5, <1>7

\* penglai_calc_sealed_data_size returns the exact size or UINT32_MAX for all
\* lengths: none of its three sums wraps unnoticed.
THEOREM SizesNeverWrap ==
    \A m, t \in 0 .. UintMax :
        CalcSize(m, t) \in {UintMax, m + t + TagLen + Header}
<1> SUFFICES ASSUME NEW m \in 0 .. UintMax, NEW t \in 0 .. UintMax,
                    CalcSize(m, t) # UintMax
             PROVE  CalcSize(m, t) = m + t + TagLen + Header
  OBVIOUS
<1>1. m \in Nat /\ t \in Nat /\ TagLen \in Nat /\ Header \in Nat /\ UintMax \in Nat
  BY CryptoAssumption, ModesAssumption DEF TagLen
<1>2. m + t + TagLen < UintMax
  BY <1>1 DEF CalcSize
<1>3. (m + t + TagLen) % (UintMax + 1) = m + t + TagLen
  BY <1>1, <1>2
<1>4. m + t + TagLen + Header < UintMax
  BY <1>1, <1>2, <1>3 DEF CalcSize
<1>5. (m + t + TagLen + Header) % (UintMax + 1) = m + t + TagLen + Header
  BY <1>1, <1>4
<1> QED
  BY <1>5 DEF CalcSize

LEMMA CbcLengthFacts ==
    ASSUME NEW pt, IsSeq(pt)
    PROVE  CbcLength(Len(pt)) \in Nat
<1>1. /\ (Len(pt) + B - 1) \div B \in Nat
      /\ CbcLength(Len(pt)) = ((Len(pt) + B - 1) \div B) * B
  BY ZeroPaddedFacts
<1> DEFINE m == (Len(pt) + B - 1) \div B
<1>2. m \in Nat /\ CbcLength(Len(pt)) = m * B
  BY <1>1
<1> HIDE DEF m
<1> QED
  BY <1>2, BlockPositions

\* A call that leaves the storage alone and returns none of what CallInv is about
LEMMA QuietKept ==
    ASSUME CallInv, UNCHANGED store, out'.op \in {"none", "sign", "verify"}
    PROVE  CallInv'
<1>1. \A i \in DOMAIN store' : WellSealed(store'[i])
  BY DEF CallInv
<1> QED
  BY <1>1 DEF CallInv, SealReturned, UnsealReturned, CbcReturned, DecryptionInverts

LEMMA SealKept ==
    ASSUME CInv, CallInv, Seal
    PROVE  CallInv'
<1>1. PICK req \in Requests :
        LET text == Text("text", Len(store), req[1])
            mac == Text("mac", Len(store), req[2])
            salt == Draw(Ready, 1)
            nonce == Draw(Ready, 2)
            k == DeriveSealingKey(salt)
            data == DataCopy(salt, nonce, OcbEncrypt(k, nonce, text, mac, "enc"),
                             req[1], mac)
        IN  /\ store' = Append(store, [now |-> data, sealed |-> data,
                                       text |-> text, mac |-> mac])
            /\ out' = [op |-> "seal", text |-> req[1], mac |-> req[2],
                       room |-> CalcSize(req[2], req[1])]
  BY DEF Seal
<1> DEFINE text == Text("text", Len(store), req[1])
           mac == Text("mac", Len(store), req[2])
           salt == Draw(Ready, 1)
           nonce == Draw(Ready, 2)
           data == DataCopy(salt, nonce,
                            OcbEncrypt(DeriveSealingKey(salt), nonce, text, mac, "enc"),
                            req[1], mac)
           e == [now |-> data, sealed |-> data, text |-> text, mac |-> mac]
<1>2. store' = Append(store, e)
  BY <1>1
<1>3. /\ out'.op = "seal" /\ out'.text = req[1] /\ out'.mac = req[2]
      /\ out'.room = CalcSize(req[2], req[1])
  BY <1>1
<1>4. req[1] \in Nat /\ req[2] \in Nat
  BY CryptoAssumption
<1>5. IsSeq(text) /\ Len(text) = req[1] /\ IsSeq(mac) /\ Len(mac) = req[2]
  BY <1>4, TextFacts
<1> HIDE DEF text, mac, salt, nonce
<1>6. data = DataCopy(salt, nonce,
                      OcbEncrypt(DeriveSealingKey(salt), nonce, text, mac, "enc"),
                      Len(text), mac)
  BY <1>5
<1> HIDE DEF data
<1>7. WellSealed(e) /\ e.now = e.sealed /\ e.text = text /\ e.mac = mac
  <2>1. e.now = data /\ e.sealed = data /\ e.text = text /\ e.mac = mac
    OBVIOUS
  <2>2. Requested(text, mac)
    BY <1>5 DEF Requested
  <2>3. e = [now |-> e.now, sealed |-> e.sealed, text |-> e.text, mac |-> e.mac]
    BY <2>1
  <2> HIDE DEF e
  <2> QED
    BY <1>5, <1>6, <2>1, <2>2, <2>3 DEF WellSealed
<1> HIDE DEF e
<1>8. /\ IsSeq(store) /\ Len(store) \in Nat /\ DOMAIN store = 1 .. Len(store)
      /\ IsSeq(store') /\ Len(store') = Len(store) + 1
      /\ DOMAIN store' = 1 .. Len(store) + 1
      /\ store'[Len(store) + 1] = e
      /\ \A i \in 1 .. Len(store) : store'[i] = store[i]
  <2>1. IsSeq(store)
    BY DEF CInv
  <2>2. /\ Len(store) \in Nat /\ DOMAIN store = 1 .. Len(store)
        /\ IsSeq(store') /\ Len(store') = Len(store) + 1
        /\ store'[Len(store) + 1] = e
        /\ \A i \in 1 .. Len(store) : store'[i] = store[i]
    BY <1>2, <2>1, SeqFacts
  <2>3. DOMAIN store' = 1 .. Len(store')
    BY <2>2, SeqFacts
  <2> QED
    BY <2>1, <2>2, <2>3
<1>9. \A i \in DOMAIN store' : WellSealed(store'[i])
  BY <1>7, <1>8 DEF CallInv
<1>10. SealReturned'
  BY <1>3, <1>5, <1>7, <1>8 DEF SealReturned
<1> QED
  BY <1>3, <1>9, <1>10 DEF CallInv, UnsealReturned, CbcReturned, DecryptionInverts

LEMMA DamageKept ==
    ASSUME CInv, CallInv, Damage
    PROVE  CallInv'
<1>1. PICK i \in DOMAIN store : \E data : store' = [store EXCEPT ![i].now = data]
  BY DEF Damage
<1>2. PICK data : store' = [store EXCEPT ![i].now = data]
  BY <1>1
<1>3. out'.op = "none"
  BY DEF Damage, None
<1>4. DOMAIN store' = DOMAIN store
  BY <1>2
<1>5. ASSUME NEW j \in DOMAIN store
      PROVE  WellSealed(store'[j])
  <2>1. WellSealed(store[j])
    BY DEF CallInv
  <2>2. CASE j # i
    BY <1>2, <2>1, <2>2
  <2>3. CASE j = i
    <3> DEFINE e == store[j]
               f == store'[j]
    <3>1. f = [e EXCEPT !.now = data]
      BY <1>2, <2>3
    <3>2. e = [now |-> e.now, sealed |-> e.sealed, text |-> e.text, mac |-> e.mac]
      BY <2>1 DEF WellSealed
    <3> HIDE DEF e, f
    <3>3. f = [now |-> data, sealed |-> e.sealed, text |-> e.text, mac |-> e.mac]
      BY <3>1, <3>2
    <3>4. f.now = data /\ f.sealed = e.sealed /\ f.text = e.text /\ f.mac = e.mac
      BY <3>3
    <3>5. WellSealed(f)
      BY <2>1, <3>3, <3>4 DEF WellSealed, e
    <3> QED
      BY <3>5 DEF f
  <2> QED
    BY <2>2, <2>3
<1> QED
  BY <1>3, <1>4, <1>5
     DEF CallInv, SealReturned, UnsealReturned, CbcReturned, DecryptionInverts

LEMMA UnsealKept ==
    ASSUME CallInv, Unseal
    PROVE  CallInv'
<1>1. PICK i \in DOMAIN store, short \in {0, 1} :
        out' = [op |-> "unseal", i |-> i, short |-> short,
                res |-> UnsealResult(store[i].now, store[i].now.textSize - short,
                                     store[i].now.macSize)]
  BY DEF Unseal
<1>2. store' = store
  BY DEF Unseal
<1>3. /\ out'.op = "unseal" /\ out'.i = i /\ out'.short = short
      /\ out'.res = UnsealResult(store[i].now, store[i].now.textSize - short,
                                 store[i].now.macSize)
  BY <1>1
<1>4. UnsealReturned'
  BY <1>2, <1>3 DEF UnsealReturned
<1>5. \A j \in DOMAIN store' : WellSealed(store'[j])
  BY <1>2 DEF CallInv
<1> QED
  BY <1>3, <1>4, <1>5 DEF CallInv, SealReturned, CbcReturned, DecryptionInverts

LEMMA CbcKept ==
    ASSUME CallInv, CbcEncryptCall
    PROVE  CallInv'
<1>1. PICK n \in CbcTexts : \E room \in {CbcLength(n) - 1, CbcLength(n)} :
        out' = [op |-> "cbc", key |-> <<"R", Draw(Ready, 1)>>,
                iv |-> RandomBlock(Draw(Ready, 2)), text |-> Text("cbc", 0, n),
                room |-> room,
                data |-> CbcEncrypt(<<"R", Draw(Ready, 1)>>, RandomBlock(Draw(Ready, 2)),
                                    Text("cbc", 0, n), room)]
  BY DEF CbcEncryptCall
<1> DEFINE k == <<"R", Draw(Ready, 1)>>
           iv == RandomBlock(Draw(Ready, 2))
           text == Text("cbc", 0, n)
<1>2. PICK room \in {CbcLength(n) - 1, CbcLength(n)} :
        out' = [op |-> "cbc", key |-> k, iv |-> iv, text |-> text, room |-> room,
                data |-> CbcEncrypt(k, iv, text, room)]
  BY <1>1
<1>3. n \in Nat
  BY CryptoAssumption
<1>4. IsSeq(text) /\ Len(text) = n
  BY <1>3, TextFacts
<1>5. room \in Int
  BY <1>4, CbcLengthFacts
<1> HIDE DEF k, iv, text
<1>6. /\ out'.op = "cbc" /\ out'.key = k /\ out'.iv = iv /\ out'.text = text
      /\ out'.room = room /\ out'.data = CbcEncrypt(k, iv, text, room)
  BY ONLY <1>2
<1>7. CbcReturned'
  BY <1>4, <1>5, <1>6 DEF CbcReturned
<1>8. \A j \in DOMAIN store' : WellSealed(store'[j])
  BY DEF CallInv, CbcEncryptCall
<1> QED
  BY <1>6, <1>7, <1>8 DEF CallInv, SealReturned, UnsealReturned, DecryptionInverts

LEMMA CbcDecryptKept ==
    ASSUME CallInv, CbcDecryptCall
    PROVE  CallInv'
<1> DEFINE k == out.key
           iv == out.iv
           text == out.text
           ct == out.data
<1>1. PICK room \in 0 .. Len(ct) + 1 :
        out' = [op |-> "decrypt", text |-> text, room |-> room,
                padded |-> Len(ct), got |-> CbcDecrypt(k, iv, ct, room)]
  BY DEF CbcDecryptCall
<1>2. IsSeq(text) /\ out.room \in Int /\ ct = CbcEncrypt(k, iv, text, out.room)
  BY DEF CallInv, CbcReturned, CbcDecryptCall
<1>3. store' = store
  BY DEF CbcDecryptCall
<1> HIDE DEF k, iv, text, ct
<1>4. /\ out'.op = "decrypt" /\ out'.text = text /\ out'.room = room
      /\ out'.padded = Len(ct) /\ out'.got = CbcDecrypt(k, iv, ct, room)
  BY ONLY <1>1
<1>5. Len(ct) > 0 => CbcDecrypt(k, iv, ct, room) =
                       SubSeq(ZeroPadded(text), 1, IF room < Len(ct) THEN room ELSE Len(ct))
  <2> DEFINE cap == out.room
  <2>1. cap \in Int /\ ct = CbcEncrypt(k, iv, text, cap) /\ CbcLength(Len(text)) \in Nat
    BY <1>2, CbcLengthFacts
  <2> HIDE DEF cap
  <2>2. CASE cap < CbcLength(Len(text))
    <3>1. ct = <<>>
      BY <2>1, <2>2 DEF CbcEncrypt
    <3> QED
      BY <3>1
  <2>3. CASE cap >= CbcLength(Len(text))
    BY <1>2, <2>1, <2>3, CbcInverts
  <2> QED
    BY <2>1, <2>2, <2>3
<1>6. DecryptionInverts'
  BY <1>4, <1>5 DEF DecryptionInverts
<1>7. \A j \in DOMAIN store' : WellSealed(store'[j])
  BY <1>3 DEF CallInv
<1> QED
  BY <1>4, <1>6, <1>7 DEF CallInv, SealReturned, UnsealReturned, CbcReturned

LEMMA CipherKept ==
    ASSUME CallInv, CipherCall
    PROVE  CallInv'
<1>1. PICK box \in Boxes, x \in [1..4 -> Words], mk \in [1..4 -> Words], ck \in Words :
        LET rk == KeySchedule(box[2], mk, [j \in 1..4 |-> ck], [i \in 1 .. Rounds |-> ck])
        IN  out' = [op |-> "cipher", x |-> x,
                    back |-> CipherDecrypt(box[1], CipherEncrypt(box[1], x, rk), rk)]
  BY DEF CipherCall
<1> DEFINE rk == KeySchedule(box[2], mk, [j \in 1..4 |-> ck], [i \in 1 .. Rounds |-> ck])
<1>2. out' = [op |-> "cipher", x |-> x,
              back |-> CipherDecrypt(box[1], CipherEncrypt(box[1], x, rk), rk)]
  BY <1>1
<1>3. rk = [i \in 1 .. Rounds |-> rk[i]]
  BY DEF KeySchedule
<1> HIDE DEF rk
<1>4. \E S : rk \in [1 .. Rounds -> S]
  <2> DEFINE S == {rk[i] : i \in 1 .. Rounds}
  <2>1. rk \in [1 .. Rounds -> S]
    BY <1>3
  <2> HIDE DEF S
  <2> QED
    BY <2>1
<1>5. Quad(x)
  BY DEF Quad
<1>6. CipherDecrypt(box[1], CipherEncrypt(box[1], x, rk), rk) = x
  BY <1>4, <1>5, CipherInverts
<1>7. out'.op = "cipher" /\ out'.x = x /\ out'.back = x
  BY <1>2, <1>6
<1>8. \A j \in DOMAIN store' : WellSealed(store'[j])
  BY DEF CallInv, CipherCall
<1> QED
  BY <1>7, <1>8 DEF CallInv, SealReturned, UnsealReturned, CbcReturned, DecryptionInverts

LEMMA CallInvKept ==
    ASSUME CInv, CallInv, [CryptoNext]_vars
    PROVE  CallInv'
<1>0. None.op = "none"
  BY DEF None
<1>1. CASE SetSeed \/ Restart \/ SealFails \/ UnsealNoKey \/ KeyGeneration
  <2>1. out' = None /\ UNCHANGED store
    BY <1>1 DEF SetSeed, Restart, SealFails, UnsealNoKey, KeyGeneration
  <2> QED
    BY <1>0, <2>1, QuietKept
<1>2. CASE SignCall \/ VerifyCall
  <2>1. out'.op \in {"sign", "verify"} /\ UNCHANGED store
    BY <1>2 DEF SignCall, VerifyCall
  <2> QED
    BY <2>1, QuietKept
<1>3. CASE AskSize
  <2>1. PICK m \in 0 .. UintMax, t \in 0 .. UintMax :
          out' = [op |-> "size", mac |-> m, text |-> t, ret |-> CalcSize(m, t)]
    BY <1>3 DEF AskSize
  <2>2. out'.op = "size" /\ out'.mac = m /\ out'.text = t /\ out'.ret = CalcSize(m, t)
    BY <2>1
  <2>3. out'.ret \in {UintMax, out'.mac + out'.text + TagLen + Header}
    BY <2>2, SizesNeverWrap
  <2>4. \A j \in DOMAIN store' : WellSealed(store'[j])
    BY <1>3 DEF CallInv, AskSize
  <2> QED
    BY <2>2, <2>3, <2>4
       DEF CallInv, SealReturned, UnsealReturned, CbcReturned, DecryptionInverts
<1>4. CASE UNCHANGED vars
  <2>1. store' = store /\ out' = out
    BY <1>4 DEF vars
  <2> QED
    BY <2>1 DEF CallInv, SealReturned, UnsealReturned, CbcReturned, DecryptionInverts
<1> QED
  BY <1>1, <1>2, <1>3, <1>4, SealKept, DamageKept, UnsealKept, CbcKept, CbcDecryptKept,
     CipherKept DEF CryptoNext

-----------------------------------------------------------------------------
(* The theorems                                                            *)

LEMMA GmStep == [GmNext]_gmVars => [CryptoNext]_vars
  BY DEF GmNext, gmVars

LEMMA InitCrypto == CryptoInit => CInv /\ SignInv /\ FreshInv
<1> SUFFICES ASSUME CryptoInit PROVE CInv /\ SignInv /\ FreshInv
  OBVIOUS
<1>1. IsSeq(<<>>) /\ Len(<<>>) = 0
  <2>1. <<>> \in Seq({})
    OBVIOUS
  <2> QED
    BY <2>1 DEF IsSeq
<1>2. Start \in Generator /\ Start.seed \in Seq(Nat) /\ Start.pos \in Nat /\ None.op = "none"
  BY DEF Start, Generator, None
<1>3. CInv
  <2>1. prog \in Programs /\ ~setSeed /\ ~sm2Init /\ setSeed \in BOOLEAN /\ sm2Init \in BOOLEAN
    BY DEF CryptoInit
  <2>2. lives = 1 /\ rng = Start /\ store = <<>> /\ fresh = <<>> /\ key = 0 /\ out = None
    BY DEF CryptoInit
  <2>3. lives \in 1 .. MaxLives /\ Len(store) <= Len(fresh) /\ Len(fresh) <= MaxFresh
    BY <1>1, <2>2, CryptoAssumption
  <2>4. key \in PrivateKeys \cup {0} /\ out.op \in Calls
    BY <1>2, <2>2 DEF Calls
  <2>5. CryptoTypeOK
    BY <1>2, <2>1, <2>2, <2>3, <2>4 DEF CryptoTypeOK
  <2> QED
    BY <1>1, <1>2, <2>2, <2>5 DEF CInv
<1>4. SignInv
  BY <1>2 DEF CryptoInit, SignInv, SignedVerifies
<1>5. FreshInv
  BY DEF CryptoInit, FreshInv
<1> QED
  BY <1>3, <1>4, <1>5

LEMMA CInvHolds == GmSpec => [](CInv /\ SignInv)
<1>1. GmInit => CInv /\ SignInv
  BY InitCrypto DEF GmInit
<1>2. CInv /\ SignInv /\ [GmNext]_gmVars => (CInv /\ SignInv)'
  BY GmStep, CInvKept, SignInvKept
<1> QED
  BY <1>1, <1>2, PTL DEF GmSpec, gmVars

\* The random generator, the seed flag and the store keep their types over any
\* number of lives, and SM2 is never initialised without set_seed being set.
THEOREM CryptoType == GmSpec => []CryptoTypeOK
<1>1. CInv => CryptoTypeOK
  BY DEF CInv
<1> QED
  BY <1>1, CInvHolds, PTL

\* In every run of a program every signature that SM2_Sign has returned is
\* accepted by SM2_Verify, for a group of any prime order.
THEOREM EverySignatureVerifies == GmSpec => []SignedVerifies
<1>1. SignInv => SignedVerifies
  BY DEF SignInv
<1> QED
  BY <1>1, CInvHolds, PTL

\* Programs that set a new seed in every life before they seal or encrypt, and do
\* not call SM2 as well, never use a key with the same nonce or initial value
\* twice, in any number of lives.  (With SM2 they do: SM2_Init resets the
\* generator.)
THEOREM KeysStayFresh == Separate /\ GmSpec => []KeysFresh
<1> SUFFICES ASSUME Separate PROVE GmSpec => []KeysFresh
  OBVIOUS
<1>1. GmInit => FreshInv
  BY InitCrypto DEF GmInit
<1>2. (CInv /\ SignInv) /\ FreshInv /\ [GmNext]_gmVars => FreshInv'
  BY GmStep, FreshKept
<1>3. FreshInv => KeysFresh
  BY DEF FreshInv, KeysFresh, Nonce
<1> QED
  BY <1>1, <1>2, <1>3, CInvHolds, PTL DEF GmSpec, gmVars

\* SM3_done has always compressed exactly the padded message: for any block
\* size, any message in any pieces, and whatever an earlier block or an earlier
\* message has left in md.buf.
THEOREM PaddedMessageHashed == GmSpec => []HashesPadded
<1>1. GmInit => Sm3Inv
  <2> SUFFICES ASSUME GmInit PROVE Sm3Inv
    OBVIOUS
  <2>1. IsSeq(<<>>) /\ Len(<<>>) = 0
    <3>1. <<>> \in Seq({})
      OBVIOUS
    <3> QED
      BY <3>1 DEF IsSeq
  <2>2. /\ buf = [i \in 1 .. BlockBytes |-> FirstByte]
        /\ absorbed = <<>> /\ msg = <<>> /\ phase = "new"
    BY DEF GmInit, Sm3Start
  <2>3. IsBlock(buf)
    BY <2>2 DEF IsBlock
  <2> QED
    BY <2>1, <2>2, <2>3, Sm3Assumption DEF Sm3Inv, HashesPadded
<1>2. Sm3Inv => HashesPadded
  BY DEF Sm3Inv
<1> QED
  BY <1>1, <1>2, Sm3InvKept, PTL DEF GmSpec, gmVars

LEMMA CallInvHolds == GmSpec => []CallInv
<1>1. GmInit => CallInv
  <2> SUFFICES ASSUME GmInit PROVE CallInv
    OBVIOUS
  <2>1. store = <<>> /\ out.op = "none"
    BY DEF GmInit, CryptoInit, None
  <2>2. DOMAIN store = {}
    BY <2>1
  <2> QED
    BY <2>1, <2>2 DEF CallInv, SealReturned, UnsealReturned, CbcReturned, DecryptionInverts
<1>2. (CInv /\ SignInv) /\ CallInv /\ [GmNext]_gmVars => CallInv'
  BY GmStep, CallInvKept
<1> QED
  BY <1>1, <1>2, CInvHolds, PTL DEF GmSpec, gmVars

\* SM4_CBC_Decrypt and SM4_Decrypt undo SM4_CBC_Encrypt and SM4_Encrypt in every
\* run: for texts of any length, blocks of any size, buffers of any size, any
\* number of rounds and any S-box, linear layer and key.
THEOREM DecryptionUndoesEncryption == GmSpec => []DecryptionInverts
<1>1. CallInv => DecryptionInverts
  BY DEF CallInv
<1> QED
  BY <1>1, CallInvHolds, PTL

\* The lengths of all MAC texts fit mac_data_len, a uint8_t.
ShortMacs == \A r \in Requests : r[2] < ByteMod

\* Intact data opens with exactly the text and the MAC text that were sealed.
OpensExactly ==
    out.op = "unseal" /\ out.short = 0 /\ store[out.i].now = store[out.i].sealed
        => out.res.text = store[out.i].text /\ out.res.mac = store[out.i].mac

\* If no MAC text is longer than its length byte can say, sealed data that nobody
\* has damaged opens in every later life with buffers of the sizes the getters
\* report, and gives back the text and the MAC text: whatever the lengths, the
\* ends of the blocks, and what either call finds on its stack behind the table.
\* (data_copy cuts a longer MAC text.)
THEOREM IntactDataOpens == ShortMacs /\ GmSpec => [](IntactOpens /\ OpensExactly)
<1> SUFFICES ASSUME ShortMacs PROVE GmSpec => [](IntactOpens /\ OpensExactly)
  OBVIOUS
<1>1. CallInv => IntactOpens /\ OpensExactly
  <2> SUFFICES ASSUME CallInv, out.op = "unseal", out.short = 0,
                      store[out.i].now = store[out.i].sealed
               PROVE  /\ out.res.ret = 0
                      /\ out.res.text = store[out.i].text
                      /\ out.res.mac = store[out.i].mac
    BY DEF IntactOpens, OpensExactly
  <2> DEFINE e == store[out.i]
  <2>1. /\ WellSealed(e)
        /\ out.res = UnsealResult(e.sealed, e.sealed.textSize - 0, e.sealed.macSize)
    BY DEF CallInv, UnsealReturned
  <2> HIDE DEF e
  <2>2. Len(e.mac) < ByteMod
    BY <2>1 DEF ShortMacs, WellSealed, Requested
  <2>3. /\ e.sealed.textSize \in Nat
        /\ UnsealResult(e.sealed, e.sealed.textSize, e.sealed.macSize)
             = [ret |-> 0, text |-> e.text, mac |-> e.mac]
    BY <2>1, <2>2, IntactUnseals
  <2>4. e.sealed.textSize - 0 = e.sealed.textSize
    BY <2>3
  <2>5. out.res = [ret |-> 0, text |-> e.text, mac |-> e.mac]
    BY <2>1, <2>3, <2>4
  <2> QED
    BY <2>5 DEF e
<1> QED
  BY <1>1, CallInvHolds, PTL

\* The parts of every sealed data fit a 32-bit size.
SizesFit == \A r \in Requests : r[1] + r[2] + TagLen + Header < UintMax

\* If the parts fit a 32-bit size, what penglai_seal_data writes fits the buffer of
\* the calculated size, and the calculated size is exact.
THEOREM SealedDataFits == SizesFit /\ GmSpec => []SizeExact
<1> SUFFICES ASSUME SizesFit PROVE GmSpec => []SizeExact
  OBVIOUS
<1>1. CallInv => SizeExact
  <2> SUFFICES ASSUME CallInv, out.op = "seal"
               PROVE  Header + Len(store[Len(store)].now.payload) <= out.room
    BY DEF SizeExact, CallInv
  <2> DEFINE e == store[Len(store)]
  <2>0. \E i \in DOMAIN store : i = Len(store)
    BY DEF CallInv, SealReturned
  <2>1. /\ WellSealed(e) /\ e.now = e.sealed
        /\ out.room = CalcSize(Len(e.mac), Len(e.text))
    BY <2>0 DEF CallInv, SealReturned
  <2> HIDE DEF e
  <2>2. PICK salt, nonce, ct, tag, m :
          /\ m = SubSeq(e.mac, 1, Len(e.mac) % ByteMod)
          /\ IsSeq(ct) /\ Len(ct) = Len(e.text) /\ Len(e.text) \in Nat
          /\ IsSeq(tag) /\ Len(tag) = B
          /\ IsSeq(m) /\ Len(m) = Len(e.mac) % ByteMod /\ Len(m) \in Nat
          /\ Len(m) <= Len(e.mac)
          /\ e.sealed = [salt |-> salt, nonce |-> nonce, payload |-> ct \o tag \o m,
                         textSize |-> Len(e.text), macSize |-> Len(m)]
          /\ OcbDecrypt(DeriveSealingKey(salt), nonce, ct, tag, e.mac, "dec") = Opened(e.text)
    BY <2>1, SealedParts
  <2>3. Len(e.now.payload) = Len(e.text) + B + Len(m)
    <3>1. IsSeq(ct) /\ IsSeq(tag) /\ IsSeq(m)
      BY <2>2
    <3>2. Len(ct \o tag \o m) = Len(ct) + Len(tag) + Len(m)
      BY ONLY <3>1, ThreeParts
    <3>3. e.now.payload = ct \o tag \o m
      <4> DEFINE p == ct \o tag \o m
      <4>1. e.sealed = [salt |-> salt, nonce |-> nonce, payload |-> p,
                        textSize |-> Len(e.text), macSize |-> Len(m)]
        BY <2>2
      <4> HIDE DEF p
      <4>2. e.sealed.payload = p
        BY ONLY <4>1
      <4> QED
        BY <2>1, <4>2 DEF p
    <3> QED
      BY <2>2, <3>2, <3>3
  <2>4. /\ Len(e.text) + Len(e.mac) + TagLen + Header < UintMax
        /\ Len(e.mac) \in Nat
    BY <2>1, SeqFacts DEF SizesFit, WellSealed, Requested
  <2>5. B \in Nat /\ TagLen = B /\ Header \in Nat /\ UintMax \in Nat
    BY ModesAssumption, CryptoAssumption DEF TagLen
  <2>6. CalcSize(Len(e.mac), Len(e.text)) = Len(e.mac) + Len(e.text) + TagLen + Header
    <3> DEFINE x == Len(e.mac)
               y == Len(e.text)
    <3>1. x \in Nat /\ y \in Nat /\ y + x + TagLen + Header < UintMax /\ TagLen \in Nat
      BY <2>2, <2>4, <2>5
    <3> HIDE DEF x, y
    <3>2. /\ (x + y + TagLen) % (UintMax + 1) = x + y + TagLen
          /\ (x + y + TagLen + Header) % (UintMax + 1) = x + y + TagLen + Header
      BY <2>5, <3>1
    <3>3. CalcSize(x, y) = x + y + TagLen + Header
      BY <2>5, <3>1, <3>2 DEF CalcSize
    <3> QED
      BY <3>3 DEF x, y
  <2>7. Header + Len(e.now.payload) <= out.room
    <3> DEFINE x == Len(e.mac)
               y == Len(e.text)
               z == Len(m)
    <3>1. x \in Nat /\ y \in Nat /\ z \in Nat /\ z <= x
      BY <2>2, <2>4
    <3>2. Len(e.now.payload) = y + B + z /\ out.room = x + y + B + Header
      BY <2>1, <2>3, <2>5, <2>6
    <3> HIDE DEF x, y, z
    <3> QED
      BY <2>5, <3>1, <3>2
  <2> QED
    BY <2>7 DEF e
<1> QED
  BY <1>1, CallInvHolds, PTL

\* Every sealed data has a full block of text or of MAC text.
FullBlocks == \A r \in Requests : r[1] >= B \/ r[2] >= B

\* If there is a full block, the table of doubled values has an entry for every
\* index that OCB writes or reads, for texts and MAC texts of any length.
\* (Without one the table has no entry at all, and OCB writes its first.)
THEOREM TableLargeEnough == FullBlocks /\ GmSpec => []TableFits
<1> SUFFICES ASSUME FullBlocks PROVE GmSpec => []TableFits
  OBVIOUS
<1>1. CallInv => TableFits
  <2> SUFFICES ASSUME CallInv, out.op = "seal",
                      NEW i \in {1} \cup (1 .. out.text \div B) \cup (1 .. out.mac \div B)
               PROVE  Ntz(i) < LLength(out.text, out.mac)
    BY DEF TableFits
  <2> DEFINE e == store[Len(store)]
             t == out.text
             a == out.mac
  <2>0. \E j \in DOMAIN store : j = Len(store)
    BY DEF CallInv, SealReturned
  <2>1. WellSealed(e) /\ t = Len(e.text) /\ a = Len(e.mac)
    BY <2>0 DEF CallInv, SealReturned
  <2> HIDE DEF e
  <2>2. t \in Nat /\ a \in Nat /\ (t >= B \/ a >= B)
    <3>1. PICK q \in Requests : t = q[1] /\ a = q[2]
      BY <2>1 DEF WellSealed, Requested
    <3>2. q[1] \in Nat /\ q[2] \in Nat
      BY CryptoAssumption
    <3> QED
      BY <3>1, <3>2 DEF FullBlocks
  <2>3. 1 <= t \div B \/ 1 <= a \div B
    <3>1. B \in Nat /\ B > 0 /\ B \div B = 1
      BY ModesAssumption
    <3>2. CASE t >= B
      BY <2>2, <3>1, <3>2, DivisionGrows
    <3>3. CASE a >= B
      BY <2>2, <3>1, <3>3, DivisionGrows
    <3> QED
      BY <2>2, <3>2, <3>3
  <2>4. t \div B \in Nat /\ a \div B \in Nat
    BY <2>2, Division
  <2> HIDE DEF t, a
  <2>5. i \in (1 .. t \div B) \cup (1 .. a \div B)
    BY <2>3, <2>4 DEF t, a
  <2>6. LLength(t, a) \in Nat /\ Ntz(i) \in 0 .. LLength(t, a) - 1
    BY <2>2, <2>5, TableLength
  <2>7. Ntz(i) < LLength(t, a)
    BY <2>6
  <2> QED
    BY <2>7 DEF t, a
<1> QED
  BY <1>1, CallInvHolds, PTL
=============================================================================
