--------------------------- MODULE Sm4ModesProofs ---------------------------
(***************************************************************************)
(* What the functions of Sm4Modes compute, for inputs of every length:      *)
(* decryption undoes encryption for the cipher, for CBC and for OCB.        *)
(***************************************************************************)
EXTENDS Sm4Modes, WellFoundedInduction, TLAPS

-----------------------------------------------------------------------------
(* Induction, from the least element of a set of numbers                    *)

LEMMA Least ==
    ASSUME NEW T \in SUBSET Nat, T # {}
    PROVE  \E n \in T : \A m \in T : n <= m
<1> DEFINE R == {p \in Nat \X Nat : p[1] < p[2]}
<1>1. IsWellFoundedOn(R, Nat)
  BY NatLessThanWellFounded DEF OpToRel
<1>2. PICK n \in T : \A m \in T : <<m, n>> \notin R
  <2> HIDE DEF R
  <2> QED
    BY <1>1, WFMin
<1>3. ASSUME NEW m \in T, m < n
      PROVE  FALSE
  <2>1. <<m, n>> \in Nat \X Nat
    OBVIOUS
  <2>2. <<m, n>>[1] < <<m, n>>[2]
    BY <1>3
  <2>3. <<m, n>> \in R
    BY <2>1, <2>2
  <2> QED
    BY <1>2, <2>3
<1>4. \A m \in T : n <= m
  BY <1>3
<1> QED
  BY <1>4

LEMMA Induction ==
    ASSUME NEW T \in SUBSET Nat, 0 \in T, \A n \in T : n + 1 \in T
    PROVE  T = Nat
<1>1. SUFFICES ASSUME Nat \ T # {}
               PROVE  FALSE
  OBVIOUS
<1>2. PICK n \in Nat \ T : \A m \in Nat \ T : n <= m
  <2> DEFINE U == Nat \ T
  <2>1. U \in SUBSET Nat /\ U # {}
    BY <1>1
  <2> HIDE DEF U
  <2>2. \E n \in U : \A m \in U : n <= m
    BY <2>1, Least
  <2> QED
    BY <2>2 DEF U
<1>3. n # 0 /\ n - 1 \in Nat
  OBVIOUS
<1>4. n - 1 \in T
  BY <1>2, <1>3
<1> QED
  BY <1>3, <1>4

-----------------------------------------------------------------------------
(* Sequences                                                                *)

IsSeq(s) == \E S : s \in Seq(S)

LEMMA SeqFacts ==
    ASSUME NEW q, IsSeq(q), NEW x
    PROVE  /\ Len(q) \in Nat /\ DOMAIN q = 1 .. Len(q)
           /\ IsSeq(Append(q, x)) /\ Len(Append(q, x)) = Len(q) + 1
           /\ Append(q, x)[Len(q) + 1] = x
           /\ \A i \in 1 .. Len(q) : Append(q, x)[i] = q[i]
<1>1. PICK S : q \in Seq(S)
  BY DEF IsSeq
<1> DEFINE T == S \cup {x}
<1>2. q \in Seq(T) /\ x \in T
  BY <1>1
<1> HIDE DEF T
<1>3. Append(q, x) \in Seq(T)
  BY <1>2
<1>4. IsSeq(Append(q, x))
  BY <1>3 DEF IsSeq
<1> QED
  BY <1>2, <1>4

\* r is q followed by w.
Joined(r, q, w) ==
    /\ IsSeq(r) /\ Len(r) = Len(q) + Len(w)
    /\ \A i \in 1 .. Len(q) : r[i] = q[i]
    /\ \A i \in 1 .. Len(w) : r[Len(q) + i] = w[i]

LEMMA ConcatFacts ==
    ASSUME NEW q, IsSeq(q), NEW w, IsSeq(w)
    PROVE  Joined(q \o w, q, w)
<1>1. PICK S : q \in Seq(S)
  BY DEF IsSeq
<1>2. PICK T : w \in Seq(T)
  BY DEF IsSeq
<1> DEFINE U == S \cup T
<1>3. q \in Seq(U) /\ w \in Seq(U)
  BY <1>1, <1>2
<1> HIDE DEF U
<1>4. q \o w \in Seq(U)
  BY <1>3
<1>5. IsSeq(q \o w)
  BY <1>4 DEF IsSeq
<1> QED
  BY <1>3, <1>5 DEF Joined

\* A function on 1 .. n is a sequence.
LEMMA ListFacts ==
    ASSUME NEW n \in Nat, NEW f, f = [i \in 1 .. n |-> f[i]]
    PROVE  IsSeq(f) /\ Len(f) = n
<1> DEFINE S == {f[i] : i \in 1 .. n}
<1>1. f \in [1 .. n -> S]
  OBVIOUS
<1> HIDE DEF S
<1>2. f \in Seq(S) /\ Len(f) = n
  BY <1>1
<1> QED
  BY <1>2 DEF IsSeq

-----------------------------------------------------------------------------
(* The ideal cipher                                                         *)

\* What is added twice is gone.
LEMMA XorTwice == \A a, b : Xor(Xor(a, b), b) = a
<1>1. ASSUME NEW a, NEW b
      PROVE  Xor(Xor(a, b), b) = a
  BY DEF Xor
<1> QED
  BY <1>1

LEMMA XorBlockTwice ==
    ASSUME NEW a, NEW b, a = [i \in 1 .. B |-> a[i]]
    PROVE  XorBlock(XorBlock(a, b), b) = a
<1>1. \A i \in 1 .. B : XorBlock(a, b)[i] = Xor(a[i], b[i])
  BY DEF XorBlock
<1>2. XorBlock(XorBlock(a, b), b) = [i \in 1 .. B |-> Xor(Xor(a[i], b[i]), b[i])]
  BY <1>1 DEF XorBlock
<1>3. XorBlock(XorBlock(a, b), b) = [i \in 1 .. B |-> a[i]]
  BY <1>2, XorTwice, Zenon
<1> QED
  BY <1>3

\* The same with the sum on the right
LEMMA XorBlockUndone ==
    ASSUME NEW a, NEW b, a = [i \in 1 .. B |-> a[i]]
    PROVE  XorBlock(b, XorBlock(a, b)) = a
<1>1. \A i \in 1 .. B : XorBlock(a, b)[i] = Xor(a[i], b[i])
  BY DEF XorBlock
<1>2. XorBlock(b, XorBlock(a, b)) = [i \in 1 .. B |-> Xor(b[i], Xor(a[i], b[i]))]
  BY <1>1 DEF XorBlock
<1>3. \A x, y : Xor(y, Xor(x, y)) = x
  <2>1. ASSUME NEW x, NEW y
        PROVE  Xor(y, Xor(x, y)) = x
    BY DEF Xor
  <2> QED
    BY <2>1
<1>4. XorBlock(b, XorBlock(a, b)) = [i \in 1 .. B |-> a[i]]
  BY <1>2, <1>3, Zenon
<1> QED
  BY <1>4

LEMMA DecryptsBlock ==
    ASSUME NEW k, NEW x
    PROVE  SM4_Decrypt(k, SM4_Encrypt(k, x)) = x
<1> DEFINE y == SM4_Encrypt(k, x)
           sources == {t \in y[1] : t[1] = "E"}
           found == {t[3] : t \in {u \in sources : SM4_Encrypt(k, u[3]) = y}}
<1>1. 1 \in 1 .. B
  BY ModesAssumption
<1>2. y[1] = {<<"E", k, x, 1>>}
  BY <1>1 DEF SM4_Encrypt
<1>3. sources = {<<"E", k, x, 1>>}
  BY <1>2
<1>4. \A t \in {u \in sources : SM4_Encrypt(k, u[3]) = y} : t[3] = x
  BY <1>3
<1>5. <<"E", k, x, 1>> \in {u \in sources : SM4_Encrypt(k, u[3]) = y}
  BY <1>3
<1>6. found = {x}
  BY <1>4, <1>5
<1>7. SM4_Decrypt(k, y) = IF found = {} THEN [i \in 1 .. B |-> {<<"D", k, y, i>>}]
                          ELSE CHOOSE z \in found : TRUE
  BY DEF SM4_Decrypt
<1> HIDE DEF found, y
<1>8. SM4_Decrypt(k, y) = x
  BY <1>6, <1>7
<1> QED
  BY <1>8 DEF y

-----------------------------------------------------------------------------
(* The rounds of the cipher                                                 *)

\* The recursion of After has a solution.
LEMMA AfterRounds ==
    ASSUME NEW box, NEW w, NEW key
    PROVE  /\ After(box, w, key)[0] = w
           /\ \A i \in 1 .. Rounds :
                 After(box, w, key)[i] = Round(box, After(box, w, key)[i - 1], key[i])
<1> DEFINE Is(f, n) == f = [i \in 0 .. n |-> IF i = 0 THEN w ELSE Round(box, f[i - 1], key[i])]
           T == {n \in Nat : \E f : Is(f, n)}
<1>1. 0 \in T
  <2> DEFINE f == [i \in 0 .. 0 |-> w]
  <2>1. Is(f, 0)
    OBVIOUS
  <2> HIDE DEF f
  <2> QED
    BY <2>1
<1>2. ASSUME NEW n \in T
      PROVE  n + 1 \in T
  <2>1. PICK f : Is(f, n)
    BY <1>2
  <2> DEFINE g == [i \in 0 .. n + 1 |->
                     IF i = n + 1 THEN Round(box, f[n], key[n + 1]) ELSE f[i]]
  <2>2. n \in Nat
    OBVIOUS
  <2>3. \A i \in 0 .. n : g[i] = f[i]
    BY <2>2
  <2>4. \A i \in 0 .. n + 1 :
          g[i] = IF i = 0 THEN w ELSE Round(box, g[i - 1], key[i])
    <3>1. ASSUME NEW i \in 0 .. n + 1
          PROVE  g[i] = IF i = 0 THEN w ELSE Round(box, g[i - 1], key[i])
      <4>1. CASE i = n + 1
        <5>1. i - 1 = n /\ g[i - 1] = f[n] /\ i # 0
          BY <2>2, <2>3, <4>1
        <5>2. g[i] = Round(box, f[n], key[n + 1])
          BY <4>1
        <5> QED
          BY <4>1, <5>1, <5>2
      <4>2. CASE i # n + 1
        <5>1. i \in 0 .. n
          BY <2>2, <4>2
        <5>2. g[i] = f[i]
          BY <2>3, <5>1
        <5>3. f[i] = IF i = 0 THEN w ELSE Round(box, f[i - 1], key[i])
          BY <2>1, <5>1
        <5>4. i # 0 => g[i - 1] = f[i - 1]
          BY <2>2, <2>3, <5>1
        <5> QED
          BY <5>2, <5>3, <5>4
      <4> QED
        BY <4>1, <4>2
    <3> QED
      BY <3>1
  <2>5. g = [i \in 0 .. n + 1 |-> g[i]]
    OBVIOUS
  <2> HIDE DEF g
  <2>6. Is(g, n + 1)
    BY <2>4, <2>5
  <2> QED
    BY <2>2, <2>6
<1>3. Rounds \in T
  <2>1. T \in SUBSET Nat
    OBVIOUS
  <2> HIDE DEF T
  <2>2. T = Nat
    BY <1>1, <1>2, <2>1, Induction
  <2> QED
    BY <2>2, ModesAssumption
<1>4. PICK f : Is(f, Rounds)
  BY <1>3
<1>5. Is(After(box, w, key), Rounds)
  BY <1>4 DEF After
<1> HIDE DEF T
<1>6. \A i \in 0 .. Rounds :
        After(box, w, key)[i] =
          IF i = 0 THEN w ELSE Round(box, After(box, w, key)[i - 1], key[i])
  BY <1>5
<1> QED
  BY <1>6, ModesAssumption

\* The four words of a block
Quad(w) == w = <<w[1], w[2], w[3], w[4]>>

LEMMA ReversedWords ==
    ASSUME NEW a, NEW b, NEW c, NEW d
    PROVE  Reverse(<<a, b, c, d>>) = <<d, c, b, a>>
  BY DEF Reverse

LEMMA ReversedQuad ==
    ASSUME NEW w, Quad(w)
    PROVE  Reverse(w) = <<w[4], w[3], w[2], w[1]>>
<1> DEFINE a == w[1] b == w[2] c == w[3] d == w[4]
<1>1. w = <<a, b, c, d>>
  BY DEF Quad
<1> HIDE DEF a, b, c, d
<1>2. Reverse(w) = <<d, c, b, a>>
  BY <1>1, ReversedWords
<1> QED
  BY <1>2 DEF a, b, c, d

LEMMA RoundUndone ==
    ASSUME NEW box, NEW w, NEW key, Quad(w)
    PROVE  /\ Quad(Round(box, w, key))
           /\ Round(box, Reverse(Round(box, w, key)), key) = Reverse(w)
<1> DEFINE v == Round(box, w, key)
           f == box[Xor(Xor(w[2], w[3]), Xor(w[4], key))]
<1>1. v = <<w[2], w[3], w[4], Xor(w[1], f)>>
  BY DEF Round
<1>2. Reverse(w) = <<w[4], w[3], w[2], w[1]>>
  BY ReversedQuad
<1>3. Reverse(v) = <<Xor(w[1], f), w[4], w[3], w[2]>>
  BY <1>1, ReversedWords
<1>4. Xor(Xor(w[4], w[3]), Xor(w[2], key)) = Xor(Xor(w[2], w[3]), Xor(w[4], key))
  BY DEF Xor
<1>5. Round(box, Reverse(v), key) =
        <<w[4], w[3], w[2], Xor(Xor(w[1], f), box[Xor(Xor(w[4], w[3]), Xor(w[2], key))])>>
  BY <1>3 DEF Round
<1>6. Xor(Xor(w[1], f), f) = w[1]
  BY XorTwice
<1>7. Round(box, Reverse(v), key) = Reverse(w)
  BY <1>2, <1>4, <1>5, <1>6
<1>8. Quad(v)
  BY <1>1 DEF Quad
<1> QED
  BY <1>7, <1>8

\* SM4 runs backwards with the round keys in reverse order, whatever the
\* S-box, the linear layer and the keys.
THEOREM CipherInverts ==
    ASSUME NEW box, NEW x, Quad(x), NEW S, NEW rk \in [1 .. Rounds -> S]
    PROVE  CipherDecrypt(box, CipherEncrypt(box, x, rk), rk) = x
<1> DEFINE X == After(box, x, rk)
           y == Reverse(X[Rounds])
           Y == After(box, y, Reverse(rk))
<1> USE ModesAssumption
<1>1. X[0] = x /\ \A i \in 1 .. Rounds : X[i] = Round(box, X[i - 1], rk[i])
  BY AfterRounds
<1>2. Y[0] = y /\ \A i \in 1 .. Rounds : Y[i] = Round(box, Y[i - 1], Reverse(rk)[i])
  BY AfterRounds
<1>3. Len(rk) = Rounds /\ \A i \in 1 .. Rounds : Reverse(rk)[i] = rk[Rounds - i + 1]
  BY DEF Reverse
<1>4. \A i \in 0 .. Rounds : Quad(X[i])
  <2> DEFINE T == {n \in Nat : n <= Rounds => Quad(X[n])}
  <2>1. 0 \in T
    BY <1>1
  <2> HIDE DEF X
  <2>2. ASSUME NEW n \in T, n + 1 <= Rounds
        PROVE  Quad(X[n + 1])
    <3>1. n \in Nat /\ n + 1 \in 1 .. Rounds /\ Quad(X[n])
      BY <2>2
    <3>2. X[n + 1] = Round(box, X[n], rk[n + 1])
      BY <1>1, <3>1
    <3> QED
      BY <3>1, <3>2, RoundUndone
  <2>3. \A n \in T : n + 1 \in T
    BY <2>2
  <2>4. T \in SUBSET Nat
    OBVIOUS
  <2>5. T = Nat
    <3> HIDE DEF T
    <3> QED
      BY <2>1, <2>3, <2>4, Induction
  <2> QED
    BY <2>5
<1>5. \A i \in 0 .. Rounds : Y[i] = Reverse(X[Rounds - i])
  <2> DEFINE T == {n \in Nat : n <= Rounds => Y[n] = Reverse(X[Rounds - n])}
  <2>1. 0 \in T
    BY <1>2
  <2> HIDE DEF X, Y
  <2>2. ASSUME NEW n \in T, n + 1 <= Rounds
        PROVE  Y[n + 1] = Reverse(X[Rounds - (n + 1)])
    <3> DEFINE j == Rounds - n
    <3>1. n \in Nat /\ n + 1 \in 1 .. Rounds /\ j \in 1 .. Rounds /\ j - 1 \in 0 .. Rounds
          /\ Rounds - (n + 1) = j - 1 /\ Rounds - (n + 1) + 1 = j
      BY <2>2
    <3>2. Y[n] = Reverse(X[j])
      BY <2>2, <3>1
    <3>3. Y[n + 1] = Round(box, Y[n], rk[j])
      BY <1>2, <1>3, <3>1
    <3>4. X[j] = Round(box, X[j - 1], rk[j]) /\ Quad(X[j - 1])
      BY <1>1, <1>4, <3>1
    <3> HIDE DEF j
    <3>5. Round(box, Reverse(X[j]), rk[j]) = Reverse(X[j - 1])
      BY <3>4, RoundUndone
    <3> QED
      BY <3>1, <3>2, <3>3, <3>5
  <2>3. \A n \in T : n + 1 \in T
    BY <2>2
  <2>4. T \in SUBSET Nat
    OBVIOUS
  <2>5. T = Nat
    <3> HIDE DEF T
    <3> QED
      BY <2>1, <2>3, <2>4, Induction
  <2> QED
    BY <2>5
<1>6. CipherEncrypt(box, x, rk) = y
  BY DEF CipherEncrypt
<1>7. CipherDecrypt(box, y, rk) = Reverse(Y[Rounds])
  BY DEF CipherDecrypt
<1> HIDE DEF X, Y, y
<1>8. Y[Rounds] = Reverse(x)
  BY <1>1, <1>5
<1>9. Reverse(Reverse(x)) = x
  <2>1. Reverse(x) = <<x[4], x[3], x[2], x[1]>>
    BY ReversedQuad
  <2>2. Reverse(Reverse(x)) = <<x[1], x[2], x[3], x[4]>>
    BY <2>1, ReversedWords
  <2> QED
    BY <2>2, Zenon DEF Quad
<1> QED
  BY <1>6, <1>7, <1>8, <1>9

-----------------------------------------------------------------------------
(* Texts of whole blocks                                                    *)

\* Positions in a text of m blocks
LEMMA BlockPositions ==
    ASSUME NEW m \in Nat
    PROVE  /\ B \in Nat /\ B > 0 /\ m * B \in Nat /\ (m + 1) * B = m * B + B
           /\ (m * B) \div B = m /\ (m * B) % B = 0
           /\ \A i \in 1 .. m :
                /\ (i - 1) * B \in Nat /\ i * B = (i - 1) * B + B /\ i * B <= m * B
                /\ \A j \in 1 .. B : (i - 1) * B + j \in 1 .. m * B
<1>1. B \in Nat /\ B > 0
  BY ModesAssumption
<1>2. m * B \in Nat /\ (m + 1) * B = m * B + B
  BY <1>1
<1>3. (m * B) \div B = m /\ (m * B) % B = 0
  BY <1>1, SMTT(30)
<1>4. ASSUME NEW i \in 1 .. m
      PROVE  (i - 1) * B \in Nat /\ i * B = (i - 1) * B + B /\ i * B <= m * B
  <2>1. i - 1 \in Nat /\ m - i \in Nat
    OBVIOUS
  <2>2. (i - 1) * B \in Nat /\ (m - i) * B \in Nat
    BY <1>1, <2>1
  <2>3. i * B = (i - 1) * B + B /\ m * B = i * B + (m - i) * B
    BY <1>1
  <2> QED
    BY <1>1, <2>2, <2>3
<1> QED
  BY <1>1, <1>2, <1>3, <1>4

\* Every position of such a text is in one of its blocks.
LEMMA InBlock ==
    ASSUME NEW m \in Nat, NEW p \in 1 .. m * B
    PROVE  \E i \in 1 .. m : \E j \in 1 .. B : p = (i - 1) * B + j
<1>1. B \in Nat /\ B > 0 /\ m * B \in Nat
  BY BlockPositions
<1> DEFINE q == (p - 1) \div B
           r == (p - 1) % B
<1>2. p - 1 \in Nat
  BY <1>1
<1>3. q \in Nat /\ r \in 0 .. B - 1 /\ p - 1 = q * B + r
  BY <1>1, <1>2, SMTT(30)
<1> HIDE DEF q, r
<1>4. q < m
  <2>1. SUFFICES ASSUME q >= m
                 PROVE  FALSE
    BY <1>3
  <2>2. q - m \in Nat /\ (q - m) * B \in Nat
    BY <1>1, <1>3, <2>1
  <2>3. q * B = m * B + (q - m) * B
    BY <1>1, <1>3
  <2> QED
    BY <1>1, <1>3, <2>2, <2>3
<1> DEFINE i == q + 1
           j == r + 1
<1>5. i - 1 = q /\ j - 1 = r /\ i \in 1 .. m /\ j \in 1 .. B
  BY <1>1, <1>3, <1>4
<1>6. p = (i - 1) * B + j
  BY <1>1, <1>3, <1>5
<1> HIDE DEF i, j
<1> QED
  BY <1>5, <1>6

LEMMA PartOf ==
    ASSUME NEW s, IsSeq(s), NEW a \in Nat, NEW n \in Nat, a + n <= Len(s)
    PROVE  /\ SubSeq(s, a + 1, a + n) = [j \in 1 .. n |-> s[a + j]]
           /\ IsSeq(SubSeq(s, a + 1, a + n)) /\ Len(SubSeq(s, a + 1, a + n)) = n
<1>1. PICK S : s \in Seq(S)
  BY DEF IsSeq
<1>2. Len(s) \in Nat
  BY <1>1
<1> DEFINE t == SubSeq(s, a + 1, a + n)
<1>3. t \in Seq(S) /\ Len(t) = n /\ \A j \in 1 .. n : t[j] = s[a + j]
  BY <1>1, <1>2
<1>4. IsSeq(t)
  BY <1>3 DEF IsSeq
<1>5. t = [j \in 1 .. n |-> s[a + j]]
  BY <1>3
<1> QED
  BY <1>3, <1>4, <1>5

IsBytes(b) == b = [j \in 1 .. B |-> b[j]]

\* s is the m blocks b[1] .. b[m], one behind the other.
InBlocks(s, m, b) ==
    /\ IsSeq(s) /\ Len(s) = m * B
    /\ \A i \in 1 .. m : \A j \in 1 .. B : s[(i - 1) * B + j] = b[i][j]

LEMMA BlockIs ==
    ASSUME NEW m \in Nat, NEW s, NEW b, InBlocks(s, m, b), NEW i \in 1 .. m, IsBytes(b[i])
    PROVE  Block(s, i) = b[i]
<1>1. /\ B \in Nat /\ m * B \in Nat /\ (i - 1) * B \in Nat
      /\ i * B = (i - 1) * B + B /\ i * B <= m * B
  BY BlockPositions
<1>2. SubSeq(s, (i - 1) * B + 1, (i - 1) * B + B) = [j \in 1 .. B |-> s[(i - 1) * B + j]]
  BY <1>1, PartOf DEF InBlocks
<1>3. Block(s, i) = [j \in 1 .. B |-> s[(i - 1) * B + j]]
  BY <1>1, <1>2 DEF Block
<1>4. Block(s, i) = [j \in 1 .. B |-> b[i][j]]
  BY <1>3 DEF InBlocks
<1> QED
  BY <1>4 DEF IsBytes

\* A text of whole blocks is its blocks, and there is only one such text.
LEMMA OfBlocks ==
    ASSUME NEW m \in Nat, NEW s, IsSeq(s), Len(s) = m * B
    PROVE  /\ InBlocks(s, m, [i \in 1 .. m |-> Block(s, i)])
           /\ \A i \in 1 .. m : IsBytes(Block(s, i))
           /\ Full(s) = m
<1>1. ASSUME NEW i \in 1 .. m
      PROVE  Block(s, i) = [j \in 1 .. B |-> s[(i - 1) * B + j]]
  <2>1. /\ B \in Nat /\ m * B \in Nat /\ (i - 1) * B \in Nat
        /\ i * B = (i - 1) * B + B /\ i * B <= m * B
    BY BlockPositions
  <2>2. SubSeq(s, (i - 1) * B + 1, (i - 1) * B + B) = [j \in 1 .. B |-> s[(i - 1) * B + j]]
    BY <2>1, PartOf
  <2> QED
    BY <2>1, <2>2 DEF Block
<1>2. \A i \in 1 .. m : IsBytes(Block(s, i))
  BY <1>1 DEF IsBytes
<1>3. \A i \in 1 .. m : \A j \in 1 .. B : s[(i - 1) * B + j] = Block(s, i)[j]
  BY <1>1
<1>4. Full(s) = m
  BY BlockPositions DEF Full
<1> QED
  BY <1>2, <1>3, <1>4 DEF InBlocks

LEMMA SameBlocks ==
    ASSUME NEW m \in Nat, NEW b, NEW s, InBlocks(s, m, b), NEW t, InBlocks(t, m, b)
    PROVE  s = t
<1>1. /\ IsSeq(s) /\ IsSeq(t) /\ Len(s) = m * B /\ Len(t) = m * B /\ m * B \in Nat
  BY BlockPositions DEF InBlocks
<1>2. ASSUME NEW p \in 1 .. m * B
      PROVE  s[p] = t[p]
  <2>1. PICK i \in 1 .. m, j \in 1 .. B : p = (i - 1) * B + j
    BY InBlock
  <2> QED
    BY <2>1 DEF InBlocks
<1>3. s = [p \in 1 .. m * B |-> s[p]] /\ t = [p \in 1 .. m * B |-> t[p]]
  BY <1>1 DEF IsSeq
<1> QED
  BY <1>2, <1>3

\* The recursion of FlattenSeq has a solution; over blocks, it is the text of
\* these blocks.
LEMMA Flattened ==
    ASSUME NEW m \in Nat, NEW b, b = [i \in 1 .. m |-> b[i]],
           \A i \in 1 .. m : IsBytes(b[i])
    PROVE  InBlocks(FlattenSeq(b), m, b)
<1>1. IsSeq(b) /\ Len(b) = m
  BY ListFacts
<1>2. CASE m = 0
  <2>1. FlattenSeq(b) = b
    BY <1>1, <1>2 DEF FlattenSeq
  <2>2. Len(b) = m * B
    BY <1>1, <1>2, BlockPositions
  <2> QED
    BY <1>1, <1>2, <2>1, <2>2 DEF InBlocks
<1>3. CASE m > 0
  <2> DEFINE Is(f, n) == f = [i \in 1 .. n |-> IF i = 1 THEN b[i] ELSE f[i - 1] \o b[i]]
             T == {n \in Nat : \E f : Is(f, n)}
  <2>1. 0 \in T
    <3> DEFINE f == [i \in 1 .. 0 |-> b[i]]
    <3>1. Is(f, 0)
      OBVIOUS
    <3> HIDE DEF f
    <3> QED
      BY <3>1
  <2>2. ASSUME NEW n \in T
        PROVE  n + 1 \in T
    <3>1. PICK f : Is(f, n)
      BY <2>2
    <3> DEFINE g == [i \in 1 .. n + 1 |->
                       IF i = n + 1 THEN IF i = 1 THEN b[i] ELSE f[n] \o b[i] ELSE f[i]]
    <3>2. n \in Nat
      OBVIOUS
    <3>3. \A i \in 1 .. n : g[i] = f[i]
      BY <3>2
    <3>4. \A i \in 1 .. n + 1 : g[i] = IF i = 1 THEN b[i] ELSE g[i - 1] \o b[i]
      <4>1. ASSUME NEW i \in 1 .. n + 1
            PROVE  g[i] = IF i = 1 THEN b[i] ELSE g[i - 1] \o b[i]
        <5>1. CASE i = n + 1
          <6>1. i # 1 => n \in 1 .. n /\ i - 1 = n
            BY <3>2, <5>1
          <6>2. i # 1 => g[i - 1] = f[n]
            BY <3>3, <6>1
          <6>3. g[i] = IF i = 1 THEN b[i] ELSE f[n] \o b[i]
            BY <5>1
          <6> QED
            BY <6>2, <6>3
        <5>2. CASE i # n + 1
          <6>1. i \in 1 .. n
            BY <3>2, <5>2
          <6>2. g[i] = f[i]
            BY <3>3, <6>1
          <6>3. f[i] = IF i = 1 THEN b[i] ELSE f[i - 1] \o b[i]
            BY <3>1, <6>1
          <6>4. i # 1 => i - 1 \in 1 .. n
            BY <3>2, <6>1
          <6>5. i # 1 => g[i - 1] = f[i - 1]
            BY <3>3, <6>4
          <6> QED
            BY <6>2, <6>3, <6>5
        <5> QED
          BY <5>1, <5>2
      <4> QED
        BY <4>1
    <3>5. g = [i \in 1 .. n + 1 |-> g[i]]
      OBVIOUS
    <3> HIDE DEF g
    <3>6. Is(g, n + 1)
      BY <3>4, <3>5
    <3>7. \E f0 : Is(f0, n + 1)
      BY <3>6
    <3>8. n + 1 \in Nat
      BY <3>2
    <3> QED
      BY <3>7, <3>8, Zenon
  <2>3. m \in T
    <3>1. T \in SUBSET Nat
      OBVIOUS
    <3> HIDE DEF T
    <3> QED
      BY <2>1, <2>2, <3>1, Induction
  <2> DEFINE flatten == CHOOSE f : Is(f, m)
  <2>4. Is(flatten, m)
    BY <2>3
  <2>5. FlattenSeq(b) = flatten[m]
    BY <1>1, <1>3 DEF FlattenSeq
  <2> HIDE DEF T, flatten
  <2>6. \A i \in 1 .. m : flatten[i] = IF i = 1 THEN b[i] ELSE flatten[i - 1] \o b[i]
    BY <2>4
  <2> DEFINE U == {n \in Nat : n + 1 <= m => InBlocks(flatten[n + 1], n + 1, b)}
  <2>7. 0 \in U
    <3>1. 1 \in 1 .. m /\ B \in Nat /\ 1 * B = B
      BY <1>3, BlockPositions
    <3>2. flatten[1] = b[1] /\ IsBytes(b[1])
      BY <2>6, <3>1
    <3>3. IsSeq(b[1]) /\ Len(b[1]) = B
      BY <3>1, <3>2, ListFacts DEF IsBytes
    <3>4. InBlocks(flatten[0 + 1], 0 + 1, b)
      BY <3>1, <3>2, <3>3 DEF InBlocks
    <3> QED
      BY <3>4
  <2>8. ASSUME NEW n \in U, n + 2 <= m
        PROVE  InBlocks(flatten[n + 2], n + 2, b)
    <3>1. /\ n \in Nat /\ n + 2 \in 1 .. m /\ n + 2 # 1 /\ n + 2 - 1 = n + 1
          /\ InBlocks(flatten[n + 1], n + 1, b)
      BY <2>8
    <3> DEFINE s == flatten[n + 1]
               t == flatten[n + 2]
    <3>2. t = s \o b[n + 2]
      <4> DEFINE l == n + 2
      <4>1. l \in 1 .. m /\ l # 1 /\ l - 1 = n + 1
        BY <3>1
      <4> HIDE DEF l, U
      <4>2. flatten[l] = flatten[l - 1] \o b[l]
        BY ONLY <2>6, <4>1
      <4> QED
        BY <4>1, <4>2 DEF l
    <3>3. IsBytes(b[n + 2]) /\ B \in Nat
      BY <3>1, BlockPositions
    <3>4. IsSeq(b[n + 2]) /\ Len(b[n + 2]) = B
      BY <3>3, ListFacts DEF IsBytes
    <3>5. IsSeq(s) /\ Len(s) = (n + 1) * B
      BY <3>1 DEF InBlocks
    <3> HIDE DEF s, t
    <3>6. Joined(t, s, b[n + 2])
      BY <3>2, <3>4, <3>5, ConcatFacts
    <3>7. (n + 2) * B = (n + 1) * B + B /\ n + 1 \in Nat /\ (n + 1) * B \in Nat
      <4>1. n + 1 \in Nat /\ n + 1 + 1 = n + 2
        BY <3>1
      <4> QED
        BY <4>1, BlockPositions
    <3>8. Len(t) = (n + 2) * B /\ IsSeq(t)
      BY <3>4, <3>5, <3>6, <3>7 DEF Joined
    <3>9. ASSUME NEW i \in 1 .. n + 2, NEW j \in 1 .. B
          PROVE  t[(i - 1) * B + j] = b[i][j]
      <4>1. CASE i = n + 2
        <5>1. t[(n + 1) * B + j] = b[n + 2][j]
          BY <3>4, <3>5, <3>6 DEF Joined
        <5>2. i - 1 = n + 1
          BY <3>1, <4>1
        <5> QED
          BY <4>1, <5>1, <5>2
      <4>2. CASE i # n + 2
        <5>1. i \in 1 .. n + 1
          BY <3>1, <4>2
        <5>2. (i - 1) * B + j \in 1 .. (n + 1) * B
          BY <3>7, <5>1, BlockPositions
        <5>3. t[(i - 1) * B + j] = s[(i - 1) * B + j]
          BY <3>5, <3>6, <5>2 DEF Joined
        <5>4. s[(i - 1) * B + j] = b[i][j]
          BY <3>1, <5>1 DEF InBlocks, s
        <5> QED
          BY <5>3, <5>4
      <4> QED
        BY <4>1, <4>2
    <3>10. InBlocks(t, n + 2, b)
      BY <3>8, <3>9 DEF InBlocks
    <3> QED
      BY <3>10 DEF t
  <2>9. \A n \in U : n + 1 \in U
    <3>1. ASSUME NEW n \in U
          PROVE  n + 1 \in U
      <4>1. n \in Nat /\ n + 1 + 1 = n + 2
        OBVIOUS
      <4>2. n + 2 <= m => InBlocks(flatten[n + 2], n + 2, b)
        BY <2>8
      <4> QED
        BY <4>1, <4>2
    <3> QED
      BY <3>1
  <2>10. m - 1 \in U
    <3>1. U \in SUBSET Nat
      OBVIOUS
    <3> HIDE DEF U
    <3>2. U = Nat
      BY <2>7, <2>9, <3>1, Induction
    <3> QED
      BY <1>3, <3>2
  <2>11. m - 1 + 1 = m /\ m <= m
    OBVIOUS
  <2> QED
    BY <2>5, <2>10, <2>11
<1> QED
  BY <1>2, <1>3

\* A text of whole blocks is what FlattenSeq makes of its blocks.
LEMMA FlattenedBack ==
    ASSUME NEW m \in Nat, NEW s, IsSeq(s), Len(s) = m * B
    PROVE  FlattenSeq([i \in 1 .. m |-> Block(s, i)]) = s
<1> DEFINE b == [i \in 1 .. m |-> Block(s, i)]
<1>1. InBlocks(s, m, b) /\ \A i \in 1 .. m : IsBytes(Block(s, i))
  BY OfBlocks
<1>2. b = [i \in 1 .. m |-> b[i]] /\ \A i \in 1 .. m : IsBytes(b[i])
  BY <1>1
<1> HIDE DEF b
<1>3. InBlocks(FlattenSeq(b), m, b)
  BY <1>2, Flattened
<1>4. FlattenSeq(b) = s
  BY <1>1, <1>3, SameBlocks
<1> QED
  BY <1>4 DEF b

-----------------------------------------------------------------------------
(* CBC                                                                      *)

\* The blocks CbcEncrypt makes
CbcBlocks(k, iv, in, n) ==
    CHOOSE c : c = [j \in 0 .. n |->
        IF j = 0 THEN iv ELSE SM4_Encrypt(k, XorBlock(Block(in, j), c[j - 1]))]

LEMMA CbcChain ==
    ASSUME NEW k, NEW iv, NEW in, NEW m \in Nat
    PROVE  /\ CbcBlocks(k, iv, in, m)[0] = iv
           /\ \A j \in 1 .. m :
                 CbcBlocks(k, iv, in, m)[j] =
                   SM4_Encrypt(k, XorBlock(Block(in, j), CbcBlocks(k, iv, in, m)[j - 1]))
<1> DEFINE Step(j, x) == SM4_Encrypt(k, XorBlock(Block(in, j), x))
           Is(f, n) == f = [j \in 0 .. n |-> IF j = 0 THEN iv ELSE Step(j, f[j - 1])]
           T == {n \in Nat : \E f : Is(f, n)}
<1>1. 0 \in T
  <2> DEFINE f == [j \in 0 .. 0 |-> iv]
  <2>1. Is(f, 0)
    OBVIOUS
  <2> HIDE DEF f
  <2> QED
    BY <2>1
<1>2. ASSUME NEW n \in T
      PROVE  n + 1 \in T
  <2>1. PICK f : Is(f, n)
    BY <1>2
  <2> DEFINE g == [j \in 0 .. n + 1 |-> IF j = n + 1 THEN Step(n + 1, f[n]) ELSE f[j]]
  <2>2. n \in Nat
    OBVIOUS
  <2>3. \A j \in 0 .. n : g[j] = f[j]
    BY <2>2
  <2>4. \A j \in 0 .. n + 1 : g[j] = IF j = 0 THEN iv ELSE Step(j, g[j - 1])
    <3>1. ASSUME NEW j \in 0 .. n + 1
          PROVE  g[j] = IF j = 0 THEN iv ELSE Step(j, g[j - 1])
      <4>1. CASE j = n + 1
        <5>1. j - 1 = n /\ g[j - 1] = f[n] /\ j # 0
          BY <2>2, <2>3, <4>1
        <5>2. g[j] = Step(n + 1, f[n])
          BY <4>1
        <5> QED
          BY <4>1, <5>1, <5>2
      <4>2. CASE j # n + 1
        <5>1. j \in 0 .. n
          BY <2>2, <4>2
        <5>2. g[j] = f[j]
          BY <2>3, <5>1
        <5>3. f[j] = IF j = 0 THEN iv ELSE Step(j, f[j - 1])
          BY <2>1, <5>1
        <5>4. j # 0 => g[j - 1] = f[j - 1]
          BY <2>2, <2>3, <5>1
        <5> QED
          BY <5>2, <5>3, <5>4
      <4> QED
        BY <4>1, <4>2
    <3> QED
      BY <3>1
  <2>5. g = [j \in 0 .. n + 1 |-> g[j]]
    OBVIOUS
  <2> HIDE DEF g
  <2>6. Is(g, n + 1)
    BY <2>4, <2>5
  <2>7. \E f0 : Is(f0, n + 1)
    BY <2>6
  <2>8. n + 1 \in Nat
    BY <2>2
  <2> QED
    BY <2>7, <2>8, Zenon
<1>3. m \in T
  <2>1. T \in SUBSET Nat
    OBVIOUS
  <2> HIDE DEF T
  <2> QED
    BY <1>1, <1>2, <2>1, Induction
<1> DEFINE c == CbcBlocks(k, iv, in, m)
<1>4. PICK f : Is(f, m)
  BY <1>3
<1>5. Is(c, m)
  BY <1>4 DEF CbcBlocks
<1> HIDE DEF T, c
<1>6. \A j \in 0 .. m : c[j] = IF j = 0 THEN iv ELSE Step(j, c[j - 1])
  BY <1>5
<1>7. c[0] = iv /\ \A j \in 1 .. m : c[j] = Step(j, c[j - 1])
  BY <1>6
<1> QED
  BY <1>7 DEF c

LEMMA ZeroPaddedFacts ==
    ASSUME NEW pt, IsSeq(pt)
    PROVE  LET m == (Len(pt) + B - 1) \div B
           IN  /\ m \in Nat /\ CbcLength(Len(pt)) = m * B
               /\ IsSeq(ZeroPadded(pt)) /\ Len(ZeroPadded(pt)) = m * B
<1> DEFINE m == (Len(pt) + B - 1) \div B
           z == ZeroPadded(pt)
<1>1. Len(pt) \in Nat /\ B \in Nat /\ B > 0
  BY ModesAssumption, SeqFacts
<1>2. m \in Nat
  BY <1>1, SMTT(30)
<1>3. CbcLength(Len(pt)) = m * B
  BY DEF CbcLength
<1> HIDE DEF m
<1>4. m * B \in Nat
  BY <1>1, <1>2
<1>5. z = [i \in 1 .. m * B |-> z[i]]
  BY <1>3 DEF ZeroPadded
<1>6. IsSeq(z) /\ Len(z) = m * B
  BY <1>4, <1>5, ListFacts
<1> QED
  BY <1>2, <1>3, <1>6 DEF m

\* SM4_CBC_Decrypt undoes SM4_CBC_Encrypt, up to the zeros of the last block and
\* for as many bytes as its buffer holds.
THEOREM CbcInverts ==
    ASSUME NEW k, NEW iv, NEW pt, IsSeq(pt), NEW cap \in Int, cap >= CbcLength(Len(pt)),
           NEW room
    PROVE  LET ct == CbcEncrypt(k, iv, pt, cap)
           IN  /\ Len(ct) = CbcLength(Len(pt))
               /\ CbcDecrypt(k, iv, ct, room) =
                    SubSeq(ZeroPadded(pt), 1, IF room < Len(ct) THEN room ELSE Len(ct))
<1> DEFINE m == (Len(pt) + B - 1) \div B
           in == ZeroPadded(pt)
           ct == CbcEncrypt(k, iv, pt, cap)
           c == CbcBlocks(k, iv, in, m)
           b == [j \in 1 .. m |-> c[j]]
<1>1. /\ m \in Nat /\ CbcLength(Len(pt)) = m * B
      /\ IsSeq(in) /\ Len(in) = m * B
  BY ZeroPaddedFacts
<1> HIDE DEF m, in
<1>2. m * B \in Nat /\ (m * B) % B = 0 /\ B \in Nat /\ B > 0
  BY <1>1, BlockPositions
<1>3. Full(in) = m /\ \A j \in 1 .. m : IsBytes(Block(in, j))
  BY <1>1, OfBlocks
<1>4. ct = FlattenSeq(b)
  <2>1. ~(cap < m * B)
    BY <1>1, <1>2
  <2> QED
    BY <1>1, <1>3, <2>1 DEF CbcEncrypt, CbcBlocks, in
<1>5. /\ c[0] = iv
      /\ \A j \in 1 .. m : c[j] = SM4_Encrypt(k, XorBlock(Block(in, j), c[j - 1]))
  BY <1>1, CbcChain
<1> HIDE DEF c, ct
<1>6. \A j \in 1 .. m : IsBytes(b[j]) /\ b[j] = c[j]
  BY <1>5 DEF IsBytes, SM4_Encrypt
<1>7. b = [j \in 1 .. m |-> b[j]]
  OBVIOUS
<1> HIDE DEF b
<1>8. InBlocks(ct, m, b)
  BY <1>1, <1>4, <1>6, <1>7, Flattened
<1>9. /\ IsSeq(ct) /\ Len(ct) = m * B /\ Full(ct) = m
      /\ \A j \in 1 .. m : Block(ct, j) = c[j]
  <2>1. IsSeq(ct) /\ Len(ct) = m * B
    BY <1>8 DEF InBlocks
  <2>2. Full(ct) = m
    BY <1>1, <2>1, OfBlocks
  <2>3. \A j \in 1 .. m : Block(ct, j) = c[j]
    BY <1>1, <1>6, <1>8, BlockIs
  <2> QED
    BY <2>1, <2>2, <2>3
<1> DEFINE p(j) == XorBlock(IF j = 1 THEN iv ELSE Block(ct, j - 1),
                            SM4_Decrypt(k, Block(ct, j)))
<1>10. ASSUME NEW j \in 1 .. m
       PROVE  p(j) = Block(in, j)
  <2>1. SM4_Decrypt(k, Block(ct, j)) = XorBlock(Block(in, j), c[j - 1])
    BY <1>5, <1>9, DecryptsBlock
  <2>2. (IF j = 1 THEN iv ELSE Block(ct, j - 1)) = c[j - 1]
    <3>1. CASE j = 1
      BY <1>5, <3>1
    <3>2. CASE j # 1
      <4>1. j - 1 \in 1 .. m
        BY <1>1, <3>2
      <4> QED
        BY <1>9, <3>2, <4>1
    <3> QED
      BY <3>1, <3>2
  <2>3. IsBytes(Block(in, j))
    BY <1>3
  <2>4. XorBlock(c[j - 1], XorBlock(Block(in, j), c[j - 1])) = Block(in, j)
    BY <2>3, XorBlockUndone DEF IsBytes
  <2> QED
    BY <2>1, <2>2, <2>4
<1>11. [j \in 1 .. m |-> p(j)] = [j \in 1 .. m |-> Block(in, j)]
  BY <1>10
<1>12. FlattenSeq([j \in 1 .. m |-> Block(in, j)]) = in
  BY <1>1, FlattenedBack
<1>13. CbcDecrypt(k, iv, ct, room) = SubSeq(in, 1, IF room < m * B THEN room ELSE m * B)
  <2>1. Len(ct) % B = 0
    BY <1>2, <1>9
  <2>2. FlattenSeq([j \in 1 .. Full(ct) |-> p(j)]) = in
    BY <1>9, <1>11, <1>12
  <2>3. CbcDecrypt(k, iv, ct, room) =
          LET all == FlattenSeq([j \in 1 .. Full(ct) |-> p(j)])
          IN  SubSeq(all, 1, IF room < Len(all) THEN room ELSE Len(all))
    BY <2>1 DEF CbcDecrypt
  <2> HIDE DEF p
  <2> QED
    BY <1>1, <2>2, <2>3
<1> QED
  BY <1>1, <1>9, <1>13 DEF ct, in

-----------------------------------------------------------------------------
(* Powers of two                                                            *)

\* The recursion of Pow2 has a solution.
LEMMA PowersOfTwo ==
    /\ Pow2[0] = 1
    /\ \A n \in Nat : Pow2[n + 1] = 2 * Pow2[n]
<1> DEFINE Is(f, n) == f = [i \in 0 .. n |-> IF i = 0 THEN 1 ELSE 2 * f[i - 1]]
           T == {n \in Nat : \E f : Is(f, n)}
<1>1. 0 \in T
  <2> DEFINE f == [i \in 0 .. 0 |-> 1]
  <2>1. Is(f, 0)
    OBVIOUS
  <2> HIDE DEF f
  <2> QED
    BY <2>1
<1>2. ASSUME NEW n \in T
      PROVE  n + 1 \in T
  <2>1. PICK f : Is(f, n)
    BY <1>2
  <2> DEFINE g == [i \in 0 .. n + 1 |-> IF i = n + 1 THEN 2 * f[n] ELSE f[i]]
  <2>2. n \in Nat
    OBVIOUS
  <2>3. \A i \in 0 .. n : g[i] = f[i]
    BY <2>2
  <2>4. \A i \in 0 .. n + 1 : g[i] = IF i = 0 THEN 1 ELSE 2 * g[i - 1]
    <3>1. ASSUME NEW i \in 0 .. n + 1
          PROVE  g[i] = IF i = 0 THEN 1 ELSE 2 * g[i - 1]
      <4>1. CASE i = n + 1
        <5>1. i - 1 = n /\ g[i - 1] = f[n] /\ i # 0
          BY <2>2, <2>3, <4>1
        <5>2. g[i] = 2 * f[n]
          BY <4>1
        <5> QED
          BY <4>1, <5>1, <5>2
      <4>2. CASE i # n + 1
        <5>1. i \in 0 .. n
          BY <2>2, <4>2
        <5>2. g[i] = f[i]
          BY <2>3, <5>1
        <5>3. f[i] = IF i = 0 THEN 1 ELSE 2 * f[i - 1]
          BY <2>1, <5>1
        <5>4. i # 0 => g[i - 1] = f[i - 1]
          BY <2>2, <2>3, <5>1
        <5> QED
          BY <5>2, <5>3, <5>4
      <4> QED
        BY <4>1, <4>2
    <3> QED
      BY <3>1
  <2>5. g = [i \in 0 .. n + 1 |-> g[i]]
    OBVIOUS
  <2> HIDE DEF g
  <2>6. Is(g, n + 1)
    BY <2>4, <2>5
  <2>7. \E f0 : Is(f0, n + 1)
    BY <2>6
  <2>8. n + 1 \in Nat
    BY <2>2
  <2> QED
    BY <2>7, <2>8, Zenon
<1>3. T = Nat
  <2>1. T \in SUBSET Nat
    OBVIOUS
  <2> HIDE DEF T
  <2> QED
    BY <1>1, <1>2, <2>1, Induction
<1> DEFINE P(n) == CHOOSE f : Is(f, n)
<1>4. ASSUME NEW n \in Nat
      PROVE  Is(P(n), n)
  BY <1>3
<1> HIDE DEF T, P
<1>5. ASSUME NEW n \in Nat, NEW i \in 0 .. n
      PROVE  P(n)[i] = IF i = 0 THEN 1 ELSE 2 * P(n)[i - 1]
  BY <1>4
<1> HIDE DEF Is
<1>6. ASSUME NEW n \in Nat
      PROVE  \A i \in 0 .. n : P(n + 1)[i] = P(n)[i]
  <2> DEFINE U == {i \in Nat : i <= n => P(n + 1)[i] = P(n)[i]}
  <2>1. 0 \in U
    BY <1>5
  <2>2. ASSUME NEW i \in U, i + 1 <= n
        PROVE  P(n + 1)[i + 1] = P(n)[i + 1]
    <3>1. i \in Nat /\ P(n + 1)[i] = P(n)[i] /\ n + 1 \in Nat
          /\ i + 1 \in 0 .. n /\ i + 1 \in 0 .. n + 1 /\ i + 1 # 0 /\ i + 1 - 1 = i
      BY <2>2
    <3> DEFINE l == i + 1
    <3>2. l \in 0 .. n /\ l \in 0 .. n + 1 /\ l # 0 /\ l - 1 = i
      BY <3>1
    <3> HIDE DEF l
    <3>3. P(n + 1)[l] = 2 * P(n + 1)[i]
      BY <1>5, <3>1, <3>2
    <3>4. P(n)[l] = 2 * P(n)[i]
      BY <1>5, <3>2
    <3> QED
      BY <3>1, <3>3, <3>4 DEF l
  <2>3. \A i \in U : i + 1 \in U
    BY <2>2
  <2>4. U \in SUBSET Nat
    OBVIOUS
  <2>5. U = Nat
    <3> HIDE DEF U
    <3> QED
      BY <2>1, <2>3, <2>4, Induction
  <2> QED
    BY <2>5
<1> DEFINE h == [n \in Nat |-> P(n)[n]]
<1>7. ASSUME NEW n \in Nat
      PROVE  h[n + 1] = 2 * h[n]
  <2>1. P(n + 1)[n + 1] = 2 * P(n + 1)[n]
    <3> DEFINE l == n + 1
    <3>1. l \in Nat /\ l \in 0 .. l /\ l # 0 /\ l - 1 = n
      OBVIOUS
    <3> HIDE DEF l
    <3>2. P(l)[l] = 2 * P(l)[n]
      BY <1>5, <3>1
    <3> QED
      BY <3>2 DEF l
  <2>2. P(n + 1)[n] = P(n)[n]
    BY <1>6
  <2> QED
    BY <2>1, <2>2
<1>8. h[0] = 1
  BY <1>5
<1>9. h = [n \in Nat |-> IF n = 0 THEN 1 ELSE 2 * h[n - 1]]
  <2>1. ASSUME NEW n \in Nat
        PROVE  h[n] = IF n = 0 THEN 1 ELSE 2 * h[n - 1]
    <3>1. CASE n = 0
      BY <1>8, <3>1
    <3>2. CASE n # 0
      <4>1. n - 1 \in Nat /\ n - 1 + 1 = n
        BY <3>2
      <4>2. h[n - 1 + 1] = 2 * h[n - 1]
        BY ONLY <1>7, <4>1
      <4> HIDE DEF h
      <4> QED
        BY <3>2, <4>1, <4>2
    <3> QED
      BY <3>1, <3>2
  <2>2. h = [n \in Nat |-> h[n]]
    OBVIOUS
  <2> HIDE DEF h
  <2> QED
    BY <2>1, <2>2
<1> HIDE DEF h
<1>10. Pow2 = [n \in Nat |-> IF n = 0 THEN 1 ELSE 2 * Pow2[n - 1]]
  BY <1>9 DEF Pow2
<1>11. \A n \in Nat : Pow2[n] = IF n = 0 THEN 1 ELSE 2 * Pow2[n - 1]
  BY <1>10
<1>12. ASSUME NEW n \in Nat
       PROVE  Pow2[n + 1] = 2 * Pow2[n]
  <2> DEFINE l == n + 1
  <2>1. l \in Nat /\ l # 0 /\ l - 1 = n
    OBVIOUS
  <2> HIDE DEF l
  <2>2. Pow2[l] = 2 * Pow2[n]
    BY <1>11, <2>1
  <2> QED
    BY <2>2 DEF l
<1> QED
  BY <1>11, <1>12

LEMMA Powers ==
    ASSUME NEW n \in Nat
    PROVE  Pow2[n] \in Nat /\ Pow2[n] > n
<1> DEFINE T == {i \in Nat : Pow2[i] \in Nat /\ Pow2[i] > i}
<1>1. 0 \in T
  BY PowersOfTwo
<1>2. \A i \in T : i + 1 \in T
  BY PowersOfTwo
<1>3. T \in SUBSET Nat
  OBVIOUS
<1>4. T = Nat
  <2> HIDE DEF T
  <2> QED
    BY <1>1, <1>2, <1>3, Induction
<1> QED
  BY <1>4

LEMMA PowersGrow ==
    ASSUME NEW m \in Nat, NEW n \in Nat, m <= n
    PROVE  Pow2[m] <= Pow2[n]
<1> DEFINE T == {i \in Nat : Pow2[m] <= Pow2[m + i]}
<1>1. 0 \in T
  BY Powers
<1>2. ASSUME NEW i \in T
      PROVE  i + 1 \in T
  <2>1. i \in Nat /\ m + i \in Nat /\ Pow2[m] <= Pow2[m + i] /\ m + (i + 1) = m + i + 1
    OBVIOUS
  <2>2. Pow2[m + i + 1] = 2 * Pow2[m + i]
    BY <2>1, PowersOfTwo
  <2>3. Pow2[m] \in Nat /\ Pow2[m + i] \in Nat
    BY <2>1, Powers
  <2>4. Pow2[m] <= Pow2[m + (i + 1)]
    BY <2>1, <2>2, <2>3
  <2> QED
    BY <2>1, <2>4
<1>3. T \in SUBSET Nat
  OBVIOUS
<1>4. T = Nat
  <2> HIDE DEF T
  <2> QED
    BY <1>1, <1>2, <1>3, Induction
<1>5. n - m \in T
  <2>1. n - m \in Nat
    OBVIOUS
  <2> QED
    BY <1>4, <2>1
<1>6. m + (n - m) = n
  OBVIOUS
<1> QED
  BY <1>5, <1>6

\* A number below n is its own remainder.
LEMMA SmallRemainder ==
    ASSUME NEW i \in Nat, NEW n \in Nat, i < n
    PROVE  i % n = i
  BY SMTT(30)

LEMMA NtzFacts ==
    ASSUME NEW i \in Nat, i > 0
    PROVE  Ntz(i) \in Nat /\ Pow2[Ntz(i)] <= i
<1> DEFINE T == {n \in Nat : i % Pow2[n + 1] # 0}
<1>1. i \in T
  <2>1. Pow2[i + 1] \in Nat /\ Pow2[i + 1] > i
    BY Powers
  <2>2. i % Pow2[i + 1] = i
    BY <2>1, SmallRemainder
  <2> QED
    BY <2>2
<1>2. PICK n \in T : \A m \in T : n <= m
  <2>1. T \in SUBSET Nat
    OBVIOUS
  <2> HIDE DEF T
  <2> QED
    BY <1>1, <2>1, Least
<1>3. n \in 0 .. i /\ i % Pow2[n + 1] # 0
  BY <1>1, <1>2
<1>4. i % Pow2[n] = 0
  <2>1. CASE n = 0
    <3>1. i % 1 = 0
      OBVIOUS
    <3> QED
      BY <2>1, <3>1, PowersOfTwo
  <2>2. CASE n # 0
    <3>1. n - 1 \in Nat /\ n - 1 + 1 = n
      BY <2>2
    <3>2. n - 1 \notin T
      BY <1>2, <3>1
    <3>3. ~(i % Pow2[n - 1 + 1] # 0)
      BY <3>1, <3>2
    <3> QED
      BY <3>1, <3>3
  <2> QED
    BY <2>1, <2>2
<1> HIDE DEF T
<1> DEFINE z == Ntz(i)
<1>5. z \in 0 .. i /\ i % Pow2[z] = 0
  <2>1. \E m \in 0 .. i : i % Pow2[m] = 0 /\ i % Pow2[m + 1] # 0
    BY <1>3, <1>4
  <2> QED
    BY <2>1 DEF Ntz
<1> HIDE DEF z
<1>6. z \in Nat /\ Pow2[z] \in Nat
  BY <1>5, Powers
<1>7. ~(i < Pow2[z])
  BY <1>5, <1>6, SmallRemainder
<1> QED
  BY <1>6, <1>7 DEF z

LEMMA Log2Facts ==
    ASSUME NEW i \in Nat, i > 0
    PROVE  Log2(i) \in Nat /\ i < Pow2[Log2(i) + 1]
<1> DEFINE T == {n \in Nat : i < Pow2[n + 1]}
<1>1. i \in T
  <2>1. Pow2[i + 1] \in Nat /\ Pow2[i + 1] > i + 1
    BY Powers
  <2> QED
    BY <2>1
<1>2. PICK n \in T : \A m \in T : n <= m
  <2>1. T \in SUBSET Nat
    OBVIOUS
  <2> HIDE DEF T
  <2> QED
    BY <1>1, <2>1, Least
<1>3. n \in 0 .. i /\ i < Pow2[n + 1]
  BY <1>1, <1>2
<1>4. Pow2[n] <= i
  <2>1. CASE n = 0
    BY <2>1, PowersOfTwo
  <2>2. CASE n # 0
    <3>1. n - 1 \in Nat /\ n - 1 + 1 = n
      BY <2>2
    <3>2. n - 1 \notin T
      BY <1>2, <3>1
    <3>3. ~(i < Pow2[n])
      BY <3>1, <3>2
    <3> QED
      BY <3>3, Powers
  <2> QED
    BY <2>1, <2>2
<1> HIDE DEF T
<1>5. \E m \in 0 .. i : Pow2[m] <= i /\ i < Pow2[m + 1]
  BY <1>3, <1>4
<1>6. Log2(i) \in 0 .. i /\ i < Pow2[Log2(i) + 1]
  BY <1>5 DEF Log2
<1> QED
  BY <1>6

\* The trailing zeros of a number are fewer than the digits of a larger one.
LEMMA NtzBelow ==
    ASSUME NEW m \in Nat, NEW i \in 1 .. m
    PROVE  Ntz(i) \in Nat /\ Log2(m) \in Nat /\ Ntz(i) < Log2(m) + 1
<1>1. i \in Nat /\ i > 0 /\ m > 0 /\ i <= m
  OBVIOUS
<1> DEFINE z == Ntz(i)
           l == Log2(m)
<1>2. z \in Nat /\ Pow2[z] <= i
  BY <1>1, NtzFacts
<1>3. l \in Nat /\ m < Pow2[l + 1]
  BY <1>1, Log2Facts
<1> HIDE DEF z, l
<1>4. Pow2[z] \in Nat /\ Pow2[l + 1] \in Nat
  BY <1>2, <1>3, Powers
<1>5. ~(l + 1 <= z)
  <2>1. ASSUME l + 1 <= z
        PROVE  FALSE
    <3>1. Pow2[l + 1] <= Pow2[z]
      BY <1>2, <1>3, <2>1, PowersGrow
    <3> QED
      BY <1>1, <1>2, <1>3, <1>4, <3>1
  <2> QED
    BY <2>1
<1> QED
  BY <1>2, <1>3, <1>5 DEF z, l

-----------------------------------------------------------------------------
(* OCB                                                                      *)

LEMMA Division ==
    ASSUME NEW n \in Nat
    PROVE  /\ B \in Nat /\ B > 0
           /\ n \div B \in Nat /\ (n \div B) * B \in Nat
           /\ n - (n \div B) * B \in 0 .. B - 1
<1>1. B \in Nat /\ B > 0
  BY ModesAssumption
<1>2. n \div B \in Nat /\ n % B \in 0 .. B - 1 /\ n = (n \div B) * B + (n % B)
  BY <1>1, SMTT(30)
<1> DEFINE q == n \div B
           r == n % B
<1>3. q \in Nat /\ r \in 0 .. B - 1 /\ n = q * B + r
  BY <1>2
<1> HIDE DEF q, r
<1>4. q * B \in Nat /\ n - q * B \in 0 .. B - 1
  BY <1>1, <1>3
<1> QED
  BY <1>1, <1>3, <1>4 DEF q

LEMMA DivisionUnique ==
    ASSUME NEW q \in Nat, NEW r \in 0 .. B - 1
    PROVE  (q * B + r) \div B = q
<1>1. B \in Nat /\ B > 0
  BY ModesAssumption
<1> QED
  BY <1>1, SMTT(30)

\* More bytes have no fewer full blocks.
LEMMA DivisionGrows ==
    ASSUME NEW a \in Nat, NEW b \in Nat, a <= b
    PROVE  a \div B <= b \div B
<1> DEFINE p == a \div B
           q == b \div B
<1>1. /\ B \in Nat /\ B > 0 /\ p \in Nat /\ q \in Nat
      /\ p * B \in Nat /\ q * B \in Nat
      /\ a - p * B \in 0 .. B - 1 /\ b - q * B \in 0 .. B - 1
  BY Division
<1> HIDE DEF p, q
<1>2. ASSUME p > q
      PROVE  FALSE
  <2>1. p - q - 1 \in Nat /\ (p - q - 1) * B \in Nat
    BY <1>1, <1>2
  <2>2. p * B = q * B + B + (p - q - 1) * B
    BY <1>1
  <2> QED
    BY <1>1, <2>1, <2>2
<1>3. p <= q
  BY <1>1, <1>2
<1> QED
  BY <1>3 DEF p, q

\* The table is long enough for the trailing zeros of every block number.
THEOREM TableLength ==
    ASSUME NEW t \in Nat, NEW a \in Nat,
           NEW i \in (1 .. t \div B) \cup (1 .. a \div B)
    PROVE  LLength(t, a) \in Nat /\ Ntz(i) \in 0 .. LLength(t, a) - 1
<1> DEFINE x == IF t > a THEN t ELSE a
           m == x \div B
<1>1. x \in Nat /\ t <= x /\ a <= x
  OBVIOUS
<1> HIDE DEF x
<1>2. m \in Nat /\ t \div B \in Nat /\ a \div B \in Nat
  BY <1>1, Division
<1>3. t \div B <= m /\ a \div B <= m
  BY <1>1, DivisionGrows
<1>4. LLength(t, a) = IF m = 0 THEN 0 ELSE Log2(m) + 1
  BY DEF LLength, x
<1> HIDE DEF m
<1>5. i \in 1 .. m
  BY <1>2, <1>3
<1>6. Ntz(i) \in Nat /\ Log2(m) \in Nat /\ Ntz(i) < Log2(m) + 1
  BY <1>2, <1>5, NtzBelow
<1>7. m # 0
  BY <1>2, <1>5
<1> QED
  BY <1>4, <1>6, <1>7

\* So no step of OCB depends on what the call finds behind the table.
LEMMA SameSteps ==
    ASSUME NEW k, NEW t \in Nat, NEW a \in Nat,
           NEW n, n = t \div B \/ n = a \div B, NEW c, NEW d
    PROVE  Steps(LTable(k, LLength(t, a)), n, c) = Steps(LTable(k, LLength(t, a)), n, d)
<1> DEFINE table == LTable(k, LLength(t, a))
<1>1. DOMAIN table = 0 .. LLength(t, a) - 1
  BY DEF LTable
<1> HIDE DEF table
<1>2. ASSUME NEW i \in 1 .. n
      PROVE  Entry(table, Ntz(i), c) = Entry(table, Ntz(i), d)
  <2>1. i \in (1 .. t \div B) \cup (1 .. a \div B)
    OBVIOUS
  <2>2. Ntz(i) \in DOMAIN table
    BY <1>1, <2>1, TableLength
  <2> QED
    BY <2>2 DEF Entry
<1>3. Steps(table, n, c) = Steps(table, n, d)
  BY <1>2 DEF Steps
<1> QED
  BY <1>3 DEF table

LEMMA SameHash ==
    ASSUME NEW k, NEW t \in Nat, NEW ad, IsSeq(ad), NEW c, NEW d
    PROVE  OcbHash(k, ad, LTable(k, LLength(t, Len(ad))), c)
             = OcbHash(k, ad, LTable(k, LLength(t, Len(ad))), d)
<1> DEFINE table == LTable(k, LLength(t, Len(ad)))
           At(off, i) == IF i <= Full(ad) THEN off[i] ELSE XorBlock(off[Full(ad)], LStar(k))
           H(off) == XorAll([i \in 1 .. Len(Blocks(ad)) |->
                               SM4_Encrypt(k, XorBlock(Blocks(ad)[i], At(off, i)))])
<1>1. Len(ad) \in Nat
  BY SeqFacts
<1>2. Steps(table, Full(ad), c) = Steps(table, Full(ad), d)
  <2> DEFINE a == Len(ad)
             n == Full(ad)
  <2>1. n = a \div B /\ a \in Nat
    BY <1>1 DEF Full
  <2> HIDE DEF a, n
  <2>2. Steps(LTable(k, LLength(t, a)), n, c) = Steps(LTable(k, LLength(t, a)), n, d)
    BY ONLY <2>1, t \in Nat, SameSteps
  <2> QED
    BY <2>2 DEF a, n
<1>3. /\ OcbHash(k, ad, table, c) = H(Offsets(ZeroBlock, Steps(table, Full(ad), c)))
      /\ OcbHash(k, ad, table, d) = H(Offsets(ZeroBlock, Steps(table, Full(ad), d)))
  BY DEF OcbHash
<1> HIDE DEF H, table
<1>4. OcbHash(k, ad, table, c) = OcbHash(k, ad, table, d)
  BY <1>2, <1>3
<1> QED
  BY <1>4 DEF table

LEMMA ConcatParts ==
    ASSUME NEW q, IsSeq(q), NEW w, IsSeq(w)
    PROVE  /\ IsSeq(q \o w) /\ Len(q \o w) = Len(q) + Len(w)
           /\ SubSeq(q \o w, 1, Len(q)) = q
           /\ SubSeq(q \o w, Len(q) + 1, Len(q) + Len(w)) = w
<1> DEFINE e == q \o w
<1>1. Joined(e, q, w)
  BY ConcatFacts
<1>2. Len(q) \in Nat /\ Len(w) \in Nat
  BY SeqFacts
<1> HIDE DEF e
<1>3. IsSeq(e) /\ Len(e) = Len(q) + Len(w)
  BY <1>1 DEF Joined
<1>4. q = [j \in 1 .. Len(q) |-> q[j]] /\ w = [j \in 1 .. Len(w) |-> w[j]]
  BY DEF IsSeq
<1>5. SubSeq(e, 0 + 1, 0 + Len(q)) = [j \in 1 .. Len(q) |-> e[0 + j]]
  BY <1>2, <1>3, PartOf
<1>6. SubSeq(e, Len(q) + 1, Len(q) + Len(w)) = [j \in 1 .. Len(w) |-> e[Len(q) + j]]
  BY <1>2, <1>3, PartOf
<1>7. [j \in 1 .. Len(q) |-> e[0 + j]] = [j \in 1 .. Len(q) |-> q[j]]
  BY <1>1, <1>2 DEF Joined
<1>8. [j \in 1 .. Len(w) |-> e[Len(q) + j]] = [j \in 1 .. Len(w) |-> w[j]]
  BY <1>1, <1>2 DEF Joined
<1>9. 0 + 1 = 1 /\ 0 + Len(q) = Len(q)
  BY <1>2
<1>10. SubSeq(e, 1, Len(q)) = q
  BY <1>4, <1>5, <1>7, <1>9
<1>11. SubSeq(e, Len(q) + 1, Len(q) + Len(w)) = w
  BY <1>4, <1>6, <1>8
<1> QED
  BY <1>3, <1>10, <1>11 DEF e

LEMMA SplitAt ==
    ASSUME NEW s, IsSeq(s), NEW n \in Nat, NEW l \in Nat, Len(s) = n + l
    PROVE  LET q == SubSeq(s, 1, n)
               w == SubSeq(s, n + 1, n + l)
           IN  /\ IsSeq(q) /\ Len(q) = n /\ IsSeq(w) /\ Len(w) = l
               /\ q \o w = s
<1> DEFINE q == SubSeq(s, 1, n)
           w == SubSeq(s, n + 1, n + l)
<1>1. q = [j \in 1 .. n |-> s[j]] /\ IsSeq(q) /\ Len(q) = n
  <2>1. /\ SubSeq(s, 0 + 1, 0 + n) = [j \in 1 .. n |-> s[0 + j]]
        /\ IsSeq(SubSeq(s, 0 + 1, 0 + n)) /\ Len(SubSeq(s, 0 + 1, 0 + n)) = n
    <3> DEFINE a == 0
    <3>1. a \in Nat /\ a + n <= Len(s)
      OBVIOUS
    <3> HIDE DEF a
    <3>2. /\ SubSeq(s, a + 1, a + n) = [j \in 1 .. n |-> s[a + j]]
          /\ IsSeq(SubSeq(s, a + 1, a + n)) /\ Len(SubSeq(s, a + 1, a + n)) = n
      BY <3>1, PartOf
    <3> QED
      BY <3>2 DEF a
  <2>2. 0 + 1 = 1 /\ 0 + n = n /\ \A j \in 1 .. n : 0 + j = j
    OBVIOUS
  <2> QED
    BY <2>1, <2>2
<1>2. w = [j \in 1 .. l |-> s[n + j]] /\ IsSeq(w) /\ Len(w) = l
  <2>1. n \in Nat /\ l \in Nat /\ n + l <= Len(s)
    OBVIOUS
  <2>2. SubSeq(s, n + 1, n + l) = [j \in 1 .. l |-> s[n + j]]
    BY ONLY <2>1, IsSeq(s), PartOf
  <2>3. IsSeq(SubSeq(s, n + 1, n + l)) /\ Len(SubSeq(s, n + 1, n + l)) = l
    BY ONLY <2>1, IsSeq(s), PartOf
  <2> QED
    BY <2>2, <2>3
<1> HIDE DEF q, w
<1> DEFINE e == q \o w
<1>3. Joined(e, q, w)
  BY <1>1, <1>2, ConcatFacts
<1> HIDE DEF e
<1>4. IsSeq(e) /\ Len(e) = n + l
  BY <1>1, <1>2, <1>3 DEF Joined
<1>5. ASSUME NEW p \in 1 .. n + l
      PROVE  e[p] = s[p]
  <2>1. CASE p <= n
    BY <1>1, <1>3, <2>1 DEF Joined
  <2>2. CASE p > n
    <3> DEFINE j == p - n
    <3>1. j \in 1 .. l /\ p = n + j
      BY <2>2
    <3> HIDE DEF j
    <3> QED
      BY <1>1, <1>2, <1>3, <3>1 DEF Joined
  <2> QED
    BY <2>1, <2>2
<1>6. e = [p \in 1 .. n + l |-> e[p]] /\ s = [p \in 1 .. n + l |-> s[p]]
  BY <1>4 DEF IsSeq
<1>7. e = s
  BY <1>5, <1>6
<1> QED
  BY <1>1, <1>2, <1>7 DEF q, w, e

\* A text is its full blocks and its rest.
LEMMA BlocksAndRest ==
    ASSUME NEW m \in Nat, NEW b, b = [i \in 1 .. m |-> b[i]],
           \A i \in 1 .. m : IsBytes(b[i]),
           NEW w, IsSeq(w), Len(w) < B
    PROVE  LET s == FlattenSeq(b) \o w
           IN  /\ IsSeq(s) /\ Len(s) = m * B + Len(w)
               /\ Full(s) = m /\ Rest(s) = w
               /\ \A i \in 1 .. m : Block(s, i) = b[i]
<1> DEFINE f == FlattenSeq(b)
           s == f \o w
<1>1. InBlocks(f, m, b)
  BY Flattened
<1> HIDE DEF f
<1>2. IsSeq(f) /\ Len(f) = m * B /\ m * B \in Nat /\ B \in Nat /\ B > 0
  BY <1>1, BlockPositions DEF InBlocks
<1>3. Len(w) \in 0 .. B - 1
  BY <1>2, SeqFacts
<1>4. IsSeq(s) /\ Len(s) = m * B + Len(w) /\ SubSeq(s, m * B + 1, m * B + Len(w)) = w
  <2>1. /\ IsSeq(f \o w) /\ Len(f \o w) = Len(f) + Len(w)
        /\ SubSeq(f \o w, Len(f) + 1, Len(f) + Len(w)) = w
    BY ONLY <1>2, IsSeq(w), ConcatParts
  <2> QED
    BY <1>2, <2>1
<1>5. Joined(s, f, w)
  BY <1>2, ConcatFacts
<1> HIDE DEF s
<1>6. Full(s) = m
  BY <1>3, <1>4, DivisionUnique DEF Full
<1>7. Rest(s) = w
  BY <1>4, <1>6 DEF Rest
<1>8. ASSUME NEW i \in 1 .. m
      PROVE  Block(s, i) = b[i]
  <2>1. /\ (i - 1) * B \in Nat /\ i * B = (i - 1) * B + B /\ i * B <= m * B
        /\ \A j \in 1 .. B : (i - 1) * B + j \in 1 .. m * B
    BY BlockPositions
  <2>2. SubSeq(s, (i - 1) * B + 1, (i - 1) * B + B) = [j \in 1 .. B |-> s[(i - 1) * B + j]]
    <3> DEFINE o == (i - 1) * B
    <3>1. o \in Nat /\ B \in Nat /\ o + B <= Len(s)
      BY <1>2, <1>3, <1>4, <2>1
    <3> HIDE DEF o
    <3>2. SubSeq(s, o + 1, o + B) = [j \in 1 .. B |-> s[o + j]]
      BY ONLY <1>4, <3>1, PartOf
    <3> QED
      BY <3>2 DEF o
  <2>3. \A j \in 1 .. B : s[(i - 1) * B + j] = f[(i - 1) * B + j]
    BY <1>2, <1>5, <2>1 DEF Joined
  <2>4. \A j \in 1 .. B : f[(i - 1) * B + j] = b[i][j]
    BY <1>1 DEF InBlocks
  <2>5. Block(s, i) = [j \in 1 .. B |-> b[i][j]]
    BY <2>1, <2>2, <2>3, <2>4 DEF Block
  <2> QED
    BY <2>5 DEF IsBytes
<1> QED
  BY <1>4, <1>6, <1>7, <1>8 DEF s, f

LEMMA TextParts ==
    ASSUME NEW s, IsSeq(s)
    PROVE  /\ Full(s) \in Nat
           /\ IsSeq(Rest(s)) /\ Len(Rest(s)) < B /\ Len(s) = Full(s) * B + Len(Rest(s))
           /\ \A i \in 1 .. Full(s) : IsBytes(Block(s, i))
           /\ FlattenSeq([i \in 1 .. Full(s) |-> Block(s, i)]) \o Rest(s) = s
<1> DEFINE m == Full(s)
           n == Len(s)
           r == n - m * B
           w == Rest(s)
           b == [i \in 1 .. m |-> Block(s, i)]
<1>1. n \in Nat
  BY SeqFacts
<1>2. B \in Nat /\ B > 0 /\ m \in Nat /\ m * B \in Nat /\ r \in 0 .. B - 1
  BY <1>1, Division DEF Full
<1>3. n = m * B + r
  <2> HIDE DEF m, n
  <2> QED
    BY <1>1, <1>2
<1>4. w = SubSeq(s, m * B + 1, m * B + r)
  BY <1>3 DEF Rest
<1> HIDE DEF m, r, w, n
<1>5. w = [j \in 1 .. r |-> s[m * B + j]] /\ IsSeq(w) /\ Len(w) = r
  <2> DEFINE o == m * B
  <2>1. o \in Nat /\ r \in Nat /\ o + r <= Len(s)
    BY <1>2, <1>3 DEF n
  <2> HIDE DEF o
  <2>2. /\ SubSeq(s, o + 1, o + r) = [j \in 1 .. r |-> s[o + j]]
        /\ IsSeq(SubSeq(s, o + 1, o + r)) /\ Len(SubSeq(s, o + 1, o + r)) = r
    BY ONLY <2>1, IsSeq(s), PartOf
  <2> QED
    BY <1>4, <2>2 DEF o
<1>6. ASSUME NEW i \in 1 .. m
      PROVE  Block(s, i) = [j \in 1 .. B |-> s[(i - 1) * B + j]]
  <2> DEFINE o == (i - 1) * B
  <2>1. o \in Nat /\ i * B = o + B /\ i * B <= m * B
    BY <1>2, BlockPositions
  <2>2. o + B <= Len(s)
    BY <1>2, <1>3, <2>1 DEF n
  <2>3. Block(s, i) = SubSeq(s, o + 1, o + B)
    BY <2>1 DEF Block
  <2> HIDE DEF o
  <2>4. SubSeq(s, o + 1, o + B) = [j \in 1 .. B |-> s[o + j]]
    BY ONLY <1>2, <2>1, <2>2, IsSeq(s), PartOf
  <2> QED
    BY <2>3, <2>4 DEF o
<1>7. \A i \in 1 .. m : IsBytes(Block(s, i)) /\ b[i] = Block(s, i)
  BY <1>6 DEF IsBytes
<1>8. b = [i \in 1 .. m |-> b[i]]
  OBVIOUS
<1> HIDE DEF b
<1> DEFINE f == FlattenSeq(b)
           e == f \o w
<1>9. InBlocks(f, m, b)
  BY <1>2, <1>7, <1>8, Flattened
<1> HIDE DEF f
<1>10. IsSeq(f) /\ Len(f) = m * B
  BY <1>9 DEF InBlocks
<1>11. Joined(e, f, w)
  BY <1>5, <1>10, ConcatFacts
<1> HIDE DEF e
<1>12. IsSeq(e) /\ Len(e) = n
  BY <1>3, <1>5, <1>10, <1>11 DEF Joined
<1>13. ASSUME NEW p \in 1 .. n
       PROVE  e[p] = s[p]
  <2>1. CASE p <= m * B
    <3>1. p \in 1 .. m * B
      BY <1>1, <1>2, <2>1
    <3>2. PICK i \in 1 .. m, j \in 1 .. B : p = (i - 1) * B + j
      BY <1>2, <3>1, InBlock
    <3>3. e[p] = f[p]
      BY <1>10, <1>11, <3>1 DEF Joined
    <3>4. f[p] = b[i][j]
      BY <1>9, <3>2 DEF InBlocks
    <3>5. b[i][j] = s[p]
      <4>1. b[i] = [l \in 1 .. B |-> s[(i - 1) * B + l]]
        BY <1>6, <1>7
      <4> QED
        BY <3>2, <4>1
    <3> QED
      BY <3>3, <3>4, <3>5
  <2>2. CASE p > m * B
    <3> DEFINE j == p - m * B
    <3>1. j \in 1 .. r /\ p = m * B + j
      BY <1>1, <1>2, <1>3, <2>2
    <3> HIDE DEF j
    <3>2. e[m * B + j] = w[j]
      BY <1>5, <1>10, <1>11, <3>1 DEF Joined
    <3>3. w[j] = s[m * B + j]
      BY <1>5, <3>1
    <3> QED
      BY <3>1, <3>2, <3>3
  <2> QED
    BY <1>1, <1>2, <2>1, <2>2
<1>14. e = [p \in 1 .. n |-> e[p]] /\ s = [p \in 1 .. n |-> s[p]]
  BY <1>12 DEF IsSeq, n
<1>15. e = s
  BY <1>13, <1>14
<1>16. Len(s) = m * B + Len(w) /\ Len(w) < B
  BY <1>2, <1>3, <1>5 DEF n
<1> QED
  BY <1>2, <1>5, <1>7, <1>15, <1>16 DEF m, w, b, e, f

\* What SM4_OCB_Decrypt returns when it accepts the tag
Opened(text) == [text |-> text, diff |-> 0]

\* The ciphertext of a text of n bytes, and the tag behind it
CipherPart(e, n) == SubSeq(e, 1, n)

TagPart(e, n) == SubSeq(e, n + 1, n + B)

\* SM4_OCB_Decrypt undoes SM4_OCB_Encrypt and accepts its tag, for texts and
\* associated data of any length, whatever either call finds on its stack.
THEOREM OcbInverts ==
    ASSUME NEW k, NEW nonce, NEW text, IsSeq(text), NEW ad, IsSeq(ad), NEW c, NEW d
    PROVE  LET e == OcbEncrypt(k, nonce, text, ad, c)
               ct == CipherPart(e, Len(text))
               tag == TagPart(e, Len(text))
           IN  /\ IsSeq(e) /\ Len(e) = Len(text) + B
               /\ OcbDecrypt(k, nonce, ct, tag, ad, d) = Opened(text)
<1> DEFINE m == Full(text)
           rest == Rest(text)
           table == LTable(k, LLength(Len(text), Len(ad)))
           off == Offsets(NonceOffset(k, nonce), Steps(table, m, c))
           pad == SM4_Encrypt(k, EndOffset(k, text, off))
           cb(i) == XorBlock(SM4_Encrypt(k, XorBlock(Block(text, i), off[i])), off[i])
           b == [i \in 1 .. m |-> cb(i)]
           w == WithPad(rest, pad)
           ct == FlattenSeq(b) \o w
           tag == OcbTag(k, text, ad, off, table, c)
<1>1. /\ m \in Nat /\ IsSeq(rest) /\ Len(rest) < B /\ Len(text) = m * B + Len(rest)
      /\ \A i \in 1 .. m : IsBytes(Block(text, i))
      /\ FlattenSeq([i \in 1 .. m |-> Block(text, i)]) \o rest = text
  BY TextParts
<1>2. Len(text) \in Nat /\ Len(ad) \in Nat /\ Len(rest) \in Nat
  BY <1>1, SeqFacts
<1>3. OcbEncrypt(k, nonce, text, ad, c) = ct \o tag
  BY DEF OcbEncrypt
<1>4. Steps(table, m, d) = Steps(table, m, c)
  <2> DEFINE t == Len(text)
             a == Len(ad)
             n == Full(text)
  <2>1. n = t \div B /\ t \in Nat /\ a \in Nat
    BY <1>2 DEF Full
  <2> HIDE DEF t, a, n
  <2>2. Steps(LTable(k, LLength(t, a)), n, d) = Steps(LTable(k, LLength(t, a)), n, c)
    BY ONLY <2>1, SameSteps
  <2> QED
    BY <2>2 DEF t, a, n
<1>5. OcbHash(k, ad, table, d) = OcbHash(k, ad, table, c)
  BY <1>2, SameHash
<1>6. OcbTag(k, text, ad, off, table, d) = tag
  <2> HIDE DEF table, off
  <2> QED
    BY <1>5 DEF OcbTag
<1>7. IsSeq(tag) /\ Len(tag) = B
  <2>1. tag = [i \in 1 .. B |-> tag[i]] /\ B \in Nat
    <3> HIDE DEF table, off
    <3> QED
      BY ModesAssumption DEF OcbTag, XorBlock
  <2> HIDE DEF tag
  <2> QED
    BY <2>1, ListFacts
<1> HIDE DEF tag, table
<1>8. /\ w = [i \in 1 .. Len(rest) |-> w[i]]
      /\ \A i \in 1 .. Len(rest) : w[i] = Xor(rest[i], pad[i])
  <2> HIDE DEF rest, pad
  <2> QED
    BY DEF WithPad
<1>9. IsSeq(w) /\ Len(w) = Len(rest)
  <2> HIDE DEF w, rest
  <2> QED
    BY <1>2, <1>8, ListFacts
<1>10. \A i \in 1 .. m : IsBytes(b[i]) /\ b[i] = cb(i)
  <2> HIDE DEF off, m
  <2> QED
    BY DEF IsBytes, XorBlock
<1>11. b = [i \in 1 .. m |-> b[i]]
  OBVIOUS
<1> HIDE DEF m, rest, off, pad, w, b
<1>12. /\ IsSeq(ct) /\ Len(ct) = m * B + Len(w) /\ Full(ct) = m /\ Rest(ct) = w
       /\ \A i \in 1 .. m : Block(ct, i) = b[i]
  <2>1. Len(w) < B
    BY <1>1, <1>9
  <2> QED
    BY <1>1, <1>9, <1>10, <1>11, <2>1, BlocksAndRest
<1> HIDE DEF ct
<1>13. Len(ct) = Len(text)
  BY <1>1, <1>9, <1>12
<1>14. EndOffset(k, ct, off) = EndOffset(k, text, off)
  <2>1. \A q : IsSeq(q) => (q = <<>> <=> Len(q) = 0)
    BY DEF IsSeq
  <2>2. w = <<>> <=> rest = <<>>
    BY <1>1, <1>9, <2>1
  <2> QED
    BY <1>12, <2>2 DEF EndOffset, m, rest
<1> DEFINE p(i) == XorBlock(SM4_Decrypt(k, XorBlock(Block(ct, i), off[i])), off[i])
<1>15. ASSUME NEW i \in 1 .. m
       PROVE  p(i) = Block(text, i)
  <2> DEFINE x == XorBlock(Block(text, i), off[i])
  <2>1. Block(ct, i) = XorBlock(SM4_Encrypt(k, x), off[i])
    BY <1>10, <1>12
  <2>2. SM4_Encrypt(k, x) = [j \in 1 .. B |-> SM4_Encrypt(k, x)[j]]
    BY DEF SM4_Encrypt
  <2>3. XorBlock(Block(ct, i), off[i]) = SM4_Encrypt(k, x)
    BY <2>1, <2>2, XorBlockTwice
  <2>4. SM4_Decrypt(k, XorBlock(Block(ct, i), off[i])) = x
    BY <2>3, DecryptsBlock
  <2>5. XorBlock(x, off[i]) = Block(text, i)
    BY <1>1, XorBlockTwice DEF IsBytes
  <2> QED
    BY <2>4, <2>5
<1>16. WithPad(w, pad) = rest
  <2>1. WithPad(w, pad) = [i \in 1 .. Len(rest) |-> Xor(w[i], pad[i])]
    BY <1>9 DEF WithPad
  <2>2. \A i \in 1 .. Len(rest) : Xor(w[i], pad[i]) = rest[i]
    BY <1>8, XorTwice, Zenon
  <2>3. WithPad(w, pad) = [i \in 1 .. Len(rest) |-> rest[i]]
    BY <2>1, <2>2
  <2> QED
    BY <1>1, <2>3 DEF IsSeq
<1> DEFINE got == FlattenSeq([i \in 1 .. m |-> p(i)]) \o WithPad(w, pad)
<1>17. got = text
  <2>1. [i \in 1 .. m |-> p(i)] = [i \in 1 .. m |-> Block(text, i)]
    BY <1>15
  <2> QED
    BY <1>1, <1>16, <2>1
<1>18. OcbDecrypt(k, nonce, ct, tag, ad, d) =
         [text |-> got, diff |-> IF OcbTag(k, got, ad, off, table, d) = tag THEN 0 ELSE 1]
  <2>1. table = LTable(k, LLength(Len(ct), Len(ad)))
    BY <1>13 DEF table
  <2>2. off = Offsets(NonceOffset(k, nonce), Steps(table, Full(ct), d))
    BY <1>4, <1>12 DEF off
  <2>3. pad = SM4_Encrypt(k, EndOffset(k, ct, off))
    BY <1>14 DEF pad
  <2>4. got = FlattenSeq([i \in 1 .. Full(ct) |-> p(i)]) \o WithPad(Rest(ct), pad)
    BY <1>12
  <2> HIDE DEF got
  <2> QED
    BY <2>1, <2>2, <2>3, <2>4, Zenon DEF OcbDecrypt
<1> HIDE DEF got
<1>19. OcbDecrypt(k, nonce, ct, tag, ad, d) = Opened(text)
  BY <1>6, <1>17, <1>18 DEF Opened
<1> DEFINE e == OcbEncrypt(k, nonce, text, ad, c)
<1>20. CipherPart(e, Len(text)) = ct /\ TagPart(e, Len(text)) = tag
  <2>1. /\ SubSeq(ct \o tag, 1, Len(ct)) = ct
        /\ SubSeq(ct \o tag, Len(ct) + 1, Len(ct) + Len(tag)) = tag
    BY <1>7, <1>12, ConcatParts
  <2> QED
    BY <1>3, <1>7, <1>13, <2>1 DEF CipherPart, TagPart
<1>21. IsSeq(e) /\ Len(e) = Len(text) + B
  <2>1. IsSeq(ct \o tag) /\ Len(ct \o tag) = Len(ct) + Len(tag)
    BY <1>7, <1>12, ConcatParts
  <2> QED
    BY <1>3, <1>7, <1>13, <2>1
<1> HIDE DEF e
<1>22. OcbDecrypt(k, nonce, CipherPart(e, Len(text)), TagPart(e, Len(text)), ad, d)
         = Opened(text)
  BY <1>19, <1>20
<1> QED
  BY <1>21, <1>22 DEF e
=============================================================================
