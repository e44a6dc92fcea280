------------------------------ MODULE Sm4Modes ------------------------------
(***************************************************************************)
(* SM4 and its modes as functions (lib/gm/source/SM4.c, SM4_Enc.c).         *)
(*                                                                          *)
(* The round structure of SM4 is kept over words of a few bits.  For the    *)
(* modes, SM4 is an ideal block cipher: a byte is the set of the unknown    *)
(* terms whose exclusive or it is, so xor is symmetric difference, and what *)
(* SM4 or doubling returns is a new term.  Two bytes are equal exactly when *)
(* they are equal for every key.                                            *)
(***************************************************************************)
EXTENDS Integers, Sequences, FiniteSets, SequencesExt

CONSTANTS
    B,       \* BLOCK_SIZE: bytes of a block
    Rounds   \* rounds of SM4 (32)

ASSUME ModesAssumption == B \in Nat \ {0} /\ Rounds \in Nat \ {0}

Xor(a, b) == (a \ b) \cup (b \ a)

-----------------------------------------------------------------------------
(* The cipher: four words, one of them replaced in every round              *)

\* One round: box is the S-box and the linear layer behind it.
Round(box, w, key) ==
    <<w[2], w[3], w[4],
      Xor(w[1], box[Xor(Xor(w[2], w[3]), Xor(w[4], key))])>>

\* The words after i rounds, with key[j] in round j
After(box, w, key) ==
    LET st[i \in 0 .. Rounds] ==
            IF i = 0 THEN w ELSE Round(box, st[i - 1], key[i])
    IN  st

\* SM4_KeySchedule: round key i is the newest word after i rounds with the
\* constants FK and CK.
KeySchedule(box, mk, fk, ck) ==
    LET k == After(box, [j \in 1..4 |-> Xor(fk[j], mk[j])], ck)
    IN  [i \in 1 .. Rounds |-> k[i][4]]

CipherEncrypt(box, x, rk) == Reverse(After(box, x, rk)[Rounds])

CipherDecrypt(box, y, rk) == Reverse(After(box, y, Reverse(rk))[Rounds])

-----------------------------------------------------------------------------
(* The ideal cipher under the modes                                         *)

ZeroBlock == [i \in 1 .. B |-> {}]

XorBlock(a, b) == [i \in 1 .. B |-> Xor(a[i], b[i])]

SM4_Encrypt(k, x) == [i \in 1 .. B |-> {<<"E", k, x, i>>}]

\* What the inverse cipher gives: the block that was encrypted, if y is one
SM4_Decrypt(k, y) ==
    LET sources == {t \in y[1] : t[1] = "E"}
        found   == {t[3] : t \in {u \in sources : SM4_Encrypt(k, u[3]) = y}}
    IN  IF found = {} THEN [i \in 1 .. B |-> {<<"D", k, y, i>>}]
        ELSE CHOOSE x \in found : TRUE

\* double_arr: linear, and no two powers of it agree on a term
Double(x) == [i \in 1 .. B |-> {<<"2", t>> : t \in x[i]}]

Block(s, i) == SubSeq(s, (i - 1) * B + 1, i * B)

Full(s) == Len(s) \div B

Rest(s) == SubSeq(s, Full(s) * B + 1, Len(s))

-----------------------------------------------------------------------------
(* CBC                                                                      *)

\* CBC_CipherText_Len
CbcLength(n) == ((n + B - 1) \div B) * B

\* The text with the zeros the last block is filled up with
ZeroPadded(pt) ==
    [i \in 1 .. CbcLength(Len(pt)) |-> IF i <= Len(pt) THEN pt[i] ELSE {}]

\* SM4_CBC_Encrypt: nothing when the output buffer is too small
CbcEncrypt(k, iv, pt, cap) ==
    LET in == ZeroPadded(pt)
        c[j \in 0 .. Full(in)] ==
            IF j = 0 THEN iv ELSE SM4_Encrypt(k, XorBlock(Block(in, j), c[j - 1]))
    IN  IF cap < CbcLength(Len(pt)) THEN <<>>
        ELSE FlattenSeq([j \in 1 .. Full(in) |-> c[j]])

\* Mutant: every block is combined with the initial value.
CbcDecryptNoChain(k, iv, ct, cap) ==
    LET p(j) == XorBlock(iv, SM4_Decrypt(k, Block(ct, j)))
    IN  IF Len(ct) % B # 0 THEN <<>>
        ELSE LET all == FlattenSeq([j \in 1 .. Full(ct) |-> p(j)])
             IN  SubSeq(all, 1, IF cap < Len(all) THEN cap ELSE Len(all))

\* SM4_CBC_Decrypt: as many bytes as the output buffer holds
CbcDecrypt(k, iv, ct, cap) ==
    LET p(j) == XorBlock(IF j = 1 THEN iv ELSE Block(ct, j - 1),
                         SM4_Decrypt(k, Block(ct, j)))
    IN  IF Len(ct) % B # 0 THEN <<>>
        ELSE LET all == FlattenSeq([j \in 1 .. Full(ct) |-> p(j)])
             IN  SubSeq(all, 1, IF cap < Len(all) THEN cap ELSE Len(all))

-----------------------------------------------------------------------------
(* OCB                                                                      *)

\* 1 << n
Pow2[n \in Nat] == IF n = 0 THEN 1 ELSE 2 * Pow2[n - 1]

\* ocb_ntz: the trailing zeros of i
Ntz(i) == CHOOSE n \in 0 .. i : i % Pow2[n] = 0 /\ i % Pow2[n + 1] # 0

Log2(i) == CHOOSE n \in 0 .. i : Pow2[n] <= i /\ i < Pow2[n + 1]

\* Mutant: one entry less.
LLengthShort(text, ad) ==
    LET m == (IF text > ad THEN text ELSE ad) \div B
    IN  IF m = 0 THEN 0 ELSE Log2(m)

\* l_length.  ocb_ntz_round is not in parentheses, so the + 1 behind it
\* belongs to its last alternative: without a full block the table is empty.
LLength(text, ad) ==
    LET m == (IF text > ad THEN text ELSE ad) \div B
    IN  IF m = 0 THEN 0 ELSE Log2(m) + 1

LStar(k) == SM4_Encrypt(k, ZeroBlock)

LDollar(k) == Double(LStar(k))

LTable(k, length) ==
    LET t[i \in 0 .. length] == IF i = 0 THEN Double(LDollar(k)) ELSE Double(t[i - 1])
    IN  [i \in 0 .. length - 1 |-> t[i]]

\* Behind the table lies whatever the call finds on its stack.
Entry(table, i, call) ==
    IF i \in DOMAIN table THEN table[i]
    ELSE [j \in 1 .. B |-> {<<"stack", call, j>>}]

\* The offset made from the nonce, unrelated for different nonces
NonceOffset(k, nonce) == [i \in 1 .. B |-> {<<"O", k, nonce, i>>}]

\* What is added to the offset in front of each full block
Steps(table, blocks, call) == [i \in 1 .. blocks |-> Entry(table, Ntz(i), call)]

\* The offsets of the full blocks, start in front of them
Offsets(start, steps) ==
    LET off[i \in 0 .. Len(steps)] ==
            IF i = 0 THEN start ELSE XorBlock(off[i - 1], steps[i])
    IN  off

\* A last block that is not full: 0x80 and zeros behind it
Padded(rest) ==
    [i \in 1 .. B |-> IF i <= Len(rest) THEN rest[i]
                      ELSE IF i = Len(rest) + 1 THEN {<<"0x80">>} ELSE {}]

XorAll(blocks) ==
    LET x[i \in 0 .. Len(blocks)] ==
            IF i = 0 THEN ZeroBlock ELSE XorBlock(x[i - 1], blocks[i])
    IN  x[Len(blocks)]

\* The full blocks of s, and the padded rest if there is one
Blocks(s) ==
    [i \in 1 .. Full(s) |-> Block(s, i)] \o
        (IF Rest(s) = <<>> THEN <<>> ELSE <<Padded(Rest(s))>>)

\* Mutant: a last block that is not full is left out.
OcbHashFullOnly(k, ad, table, call) ==
    LET off == Offsets(ZeroBlock, Steps(table, Full(ad), call))
    IN  XorAll([i \in 1 .. Full(ad) |->
                  SM4_Encrypt(k, XorBlock(Block(ad, i), off[i]))])

\* hash: the sum over the associated data
OcbHash(k, ad, table, call) ==
    LET off == Offsets(ZeroBlock, Steps(table, Full(ad), call))
        at(i) == IF i <= Full(ad) THEN off[i] ELSE XorBlock(off[Full(ad)], LStar(k))
        in == Blocks(ad)
    IN  XorAll([i \in 1 .. Len(in) |-> SM4_Encrypt(k, XorBlock(in[i], at(i)))])

\* The offset behind the text, and the pad of a last block that is not full
EndOffset(k, text, off) ==
    IF Rest(text) = <<>> THEN off[Full(text)] ELSE XorBlock(off[Full(text)], LStar(k))

WithPad(rest, pad) == [i \in 1 .. Len(rest) |-> Xor(rest[i], pad[i])]

OcbTag(k, text, ad, off, table, call) ==
    XorBlock(SM4_Encrypt(k, XorBlock(XorBlock(XorAll(Blocks(text)),
                                              EndOffset(k, text, off)),
                                     LDollar(k))),
             OcbHash(k, ad, table, call))

\* SM4_OCB_Encrypt: the ciphertext and the tag behind it
OcbEncrypt(k, nonce, text, ad, call) ==
    LET table == LTable(k, LLength(Len(text), Len(ad)))
        off == Offsets(NonceOffset(k, nonce), Steps(table, Full(text), call))
        c(i) == XorBlock(SM4_Encrypt(k, XorBlock(Block(text, i), off[i])), off[i])
        pad == SM4_Encrypt(k, EndOffset(k, text, off))
    IN  FlattenSeq([i \in 1 .. Full(text) |-> c(i)])
            \o WithPad(Rest(text), pad)
            \o OcbTag(k, text, ad, off, table, call)

\* SM4_OCB_Decrypt: the text, and diff # 0 when the tag is not the one given
OcbDecrypt(k, nonce, ct, tag, ad, call) ==
    LET table == LTable(k, LLength(Len(ct), Len(ad)))
        off == Offsets(NonceOffset(k, nonce), Steps(table, Full(ct), call))
        p(i) == XorBlock(SM4_Decrypt(k, XorBlock(Block(ct, i), off[i])), off[i])
        pad == SM4_Encrypt(k, EndOffset(k, ct, off))
        text == FlattenSeq([i \in 1 .. Full(ct) |-> p(i)]) \o WithPad(Rest(ct), pad)
    IN  [text |-> text,
         diff |-> IF OcbTag(k, text, ad, off, table, call) = tag THEN 0 ELSE 1]
=============================================================================
