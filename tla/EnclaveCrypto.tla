--------------------------- MODULE EnclaveCrypto ---------------------------
(***************************************************************************)
(* What an enclave program does with the SDK's crypto libraries over        *)
(* several lives: sealing (lib/app/src/seal.c), SM2 signatures and CBC      *)
(* (lib/gm), all drawing from one random generator (Random.c) whose state   *)
(* is MIRACL's.  Sealed data lies in untrusted storage between the lives.   *)
(***************************************************************************)
EXTENDS Sm4Modes, Sm2Signature

CONSTANTS
    Programs,  \* each program is the set of libraries it calls
    Requests,  \* pairs of lengths: text to seal, additional MAC text
    CbcTexts,  \* lengths of the texts that are encrypted with CBC
    Header,    \* sizeof(penglai_sealed_data_t)
    UintMax,   \* UINT32_MAX
    ByteMod,   \* 256: mac_data_len is a uint8_t
    Boxes,     \* pairs of an S-box for the data and one for the key schedule
    Words,     \* the words of the cipher
    MaxLives,  \* bound: starts of the enclave
    MaxDraws,  \* bound: numbers drawn from one seed by calls that may repeat
    MaxFresh   \* bound: texts sealed or encrypted with CBC

ASSUME CryptoAssumption ==
    /\ Requests \subseteq Nat \X Nat /\ CbcTexts \subseteq Nat
    /\ Header \in Nat /\ UintMax \in Nat /\ ByteMod \in Nat \ {0}
    /\ MaxLives \in Nat \ {0} /\ MaxFresh \in Nat /\ MaxDraws \in Nat

VARIABLES
    prog,     \* the program
    lives,    \* starts of the enclave so far
    setSeed,  \* set_seed of Random.c
    rng,      \* MIRACL's generator: what it was seeded from, numbers drawn
    sm2Init,  \* success_excuted of SM2_Init
    store,    \* sealed data in storage: now, and as it was sealed
    fresh,    \* key and nonce of every seal, key and iv of every CBC text
    key,      \* SM2 private key, 0 before SM2_KeyGeneration
    out       \* the last call and what it returned

vars == <<prog, lives, setSeed, rng, sm2Init, store, fresh, key, out>>

Calls == {"none", "seal", "unseal", "cbc", "decrypt", "sign", "verify", "size", "cipher"}

CryptoTypeOK ==
    /\ prog \in Programs
    /\ lives \in 1 .. MaxLives
    /\ setSeed \in BOOLEAN /\ sm2Init \in BOOLEAN
    /\ sm2Init => setSeed
    /\ rng.seed \in Seq(Nat) /\ rng.pos \in Nat
    /\ Len(store) <= Len(fresh) /\ Len(fresh) <= MaxFresh
    /\ key \in PrivateKeys \cup {0}
    /\ out.op \in Calls

None == [op |-> "none"]

Start == [seed |-> <<>>, pos |-> 0]

CryptoInit ==
    /\ prog \in Programs
    /\ lives = 1
    /\ setSeed = FALSE
    /\ rng = Start
    /\ sm2Init = FALSE
    /\ store = <<>>
    /\ fresh = <<>>
    /\ key = 0
    /\ out = None

-----------------------------------------------------------------------------
(* Random numbers                                                           *)

\* irand starts the generator anew; the numbers depend on the seed only.
Irand(seed) == [seed |-> seed, pos |-> 0]

\* mirsys sets the generator to a state of its own, the same every time.
Mirsys == Irand(<<MaxLives + 1>>)

\* Mutant: the generator is seeded on every call.
ReadyAnew == Irand(<<0>>)

\* penglai_read_rand seeds the generator with 0 if nothing else has.
Ready == IF setSeed THEN rng ELSE Irand(<<0>>)

\* The n-th number of penglai_read_rand from here, and the state behind it
Draw(r, n) == <<r.seed, r.pos + n, 0>>

Drawn(r, n) == [r EXCEPT !.pos = @ + n]

\* penglai_set_rand_seed, with a real random number: never the same twice
SetSeed ==
    /\ ~setSeed
    /\ setSeed' = TRUE
    /\ rng' = Irand(<<lives>>)
    /\ out' = None
    /\ UNCHANGED <<prog, lives, sm2Init, store, fresh, key>>

\* The enclave is created and run again; its memory starts as in the image.
Restart ==
    /\ lives < MaxLives
    /\ lives' = lives + 1
    /\ setSeed' = FALSE
    /\ rng' = Start
    /\ sm2Init' = FALSE
    /\ key' = 0
    /\ out' = None
    /\ UNCHANGED <<prog, store, fresh>>

-----------------------------------------------------------------------------
(* Sealing                                                                  *)

TagLen == B

\* Mutant: the tag is not tested for.
CalcSizeNoTag(mac, text) ==
    IF UintMax - mac <= text THEN UintMax
    ELSE IF UintMax - ((mac + text + TagLen) % (UintMax + 1)) <= Header THEN UintMax
    ELSE (mac + text + TagLen + Header) % (UintMax + 1)

\* penglai_calc_sealed_data_size
CalcSize(mac, text) ==
    IF UintMax - mac <= text THEN UintMax
    ELSE IF UintMax - (mac + text) <= TagLen THEN UintMax
    ELSE IF UintMax - ((mac + text + TagLen) % (UintMax + 1)) <= Header THEN UintMax
    ELSE (mac + text + TagLen + Header) % (UintMax + 1)

AskSize ==
    /\ "size" \in prog /\ out = None
    /\ \E m, t \in 0 .. UintMax :
        out' = [op |-> "size", mac |-> m, text |-> t, ret |-> CalcSize(m, t)]
    /\ UNCHANGED <<prog, lives, setSeed, rng, sm2Init, store, fresh, key>>

\* EAPP_GET_KEY: the same key for the same salt in every life of the enclave
DeriveSealingKey(salt) == <<"K", salt>>

Text(name, n, len) == [i \in 1 .. len |-> {<<name, n, i>>}]

\* Mutant: the payload ends behind the tag.
DataCopyNoMac(salt, nonce, cipher, size, mac) ==
    [salt |-> salt, nonce |-> nonce, payload |-> cipher, textSize |-> size,
     macSize |-> 0]

\* data_copy: the length of the MAC text passes through a byte.
DataCopy(salt, nonce, cipher, size, mac) ==
    LET len == Len(mac) % ByteMod
    IN  [salt |-> salt, nonce |-> nonce, payload |-> cipher \o SubSeq(mac, 1, len),
         textSize |-> size, macSize |-> len]

\* penglai_seal_data into a buffer of the calculated size
Seal ==
    /\ "seal" \in prog /\ setSeed /\ Len(fresh) < MaxFresh
    /\ \E req \in Requests :
        LET text == Text("text", Len(store), req[1])
            mac == Text("mac", Len(store), req[2])
            salt == Draw(Ready, 1)
            nonce == Draw(Ready, 2)
            k == DeriveSealingKey(salt)
            data == DataCopy(salt, nonce, OcbEncrypt(k, nonce, text, mac, "enc"),
                             req[1], mac)
        IN  /\ rng' = Drawn(Ready, 2)
            /\ store' = Append(store, [now |-> data, sealed |-> data,
                                       text |-> text, mac |-> mac])
            /\ fresh' = Append(fresh, <<k, nonce>>)
            /\ out' = [op |-> "seal", text |-> req[1], mac |-> req[2],
                       room |-> CalcSize(req[2], req[1])]
    /\ UNCHANGED <<prog, lives, setSeed, sm2Init, key>>

\* The buffer is smaller, or the monitor gives no key after the salt is drawn.
SealFails ==
    /\ "seal" \in prog /\ setSeed /\ rng.pos < MaxDraws
    /\ \E drew \in {0, 1} : rng' = Drawn(Ready, drew)
    /\ out' = None
    /\ UNCHANGED <<prog, lives, setSeed, sm2Init, store, fresh, key>>

Flip(byte) == Xor(byte, {<<"flip">>})

\* One byte, the nonce, the salt, or a size that keeps text, tag and MAC text
\* inside the buffer
Damaged(data) ==
    LET room == Len(data.payload) - TagLen
    IN  {[data EXCEPT !.payload[i] = Flip(@)] : i \in DOMAIN data.payload}
        \cup {[data EXCEPT !.nonce[3] = 1], [data EXCEPT !.salt[3] = 1]}
        \cup {[data EXCEPT !.textSize = n] : n \in 0 .. room - data.macSize}
        \cup {[data EXCEPT !.macSize = n] : n \in 0 .. room - data.textSize}

\* Storage damages one part of one sealed data.
Damage ==
    /\ \A i \in DOMAIN store : store[i].now = store[i].sealed
    /\ \E i \in DOMAIN store :
        \E data \in Damaged(store[i].now) : store' = [store EXCEPT ![i].now = data]
    /\ out' = None
    /\ UNCHANGED <<prog, lives, setSeed, rng, sm2Init, fresh, key>>

\* penglai_unseal_data with buffers of the given sizes.  The buffers are filled
\* whatever the tag.
UnsealResult(data, textCap, macCap) ==
    IF data.textSize > textCap \/ data.macSize > macCap THEN [ret |-> -1]
    ELSE LET mac == SubSeq(data.payload, data.textSize + TagLen + 1,
                           data.textSize + TagLen + data.macSize)
             tag == SubSeq(data.payload, data.textSize + 1, data.textSize + TagLen)
             dec == OcbDecrypt(DeriveSealingKey(data.salt), data.nonce,
                               SubSeq(data.payload, 1, data.textSize), tag, mac, "dec")
         IN  [ret |-> dec.diff, text |-> dec.text, mac |-> mac]

\* The caller's buffers are as large as the getters say, or one too small.
Unseal ==
    /\ \E i \in DOMAIN store, short \in {0, 1} :
        LET data == store[i].now
        IN  out' = [op |-> "unseal", i |-> i, short |-> short,
                    res |-> UnsealResult(data, data.textSize - short, data.macSize)]
    /\ UNCHANGED <<prog, lives, setSeed, rng, sm2Init, store, fresh, key>>

\* The monitor gives no key: its error is returned and the buffers are left.
UnsealNoKey ==
    /\ store # <<>>
    /\ out' = None
    /\ UNCHANGED <<prog, lives, setSeed, rng, sm2Init, store, fresh, key>>

-----------------------------------------------------------------------------
(* CBC with a random key and initial value                                  *)

RandomBlock(r) == [i \in 1 .. B |-> {<<"R", r, i>>}]

CbcEncryptCall ==
    /\ "cbc" \in prog /\ setSeed /\ Len(fresh) < MaxFresh
    /\ \E n \in CbcTexts : \E room \in {CbcLength(n) - 1, CbcLength(n)} :
        LET k == <<"R", Draw(Ready, 1)>>
            iv == RandomBlock(Draw(Ready, 2))
            text == Text("cbc", 0, n)
        IN  out' = [op |-> "cbc", key |-> k, iv |-> iv, text |-> text, room |-> room,
                    data |-> CbcEncrypt(k, iv, text, room)]
    /\ rng' = Drawn(Ready, 2)
    /\ fresh' = Append(fresh, <<<<"R", Draw(Ready, 1)>>, Draw(Ready, 2)>>)
    /\ UNCHANGED <<prog, lives, setSeed, sm2Init, store, key>>

CbcDecryptCall ==
    /\ out.op = "cbc"
    /\ \E room \in 0 .. Len(out.data) + 1 :
        out' = [op |-> "decrypt", text |-> out.text, room |-> room,
                padded |-> Len(out.data),
                got |-> CbcDecrypt(out.key, out.iv, out.data, room)]
    /\ UNCHANGED <<prog, lives, setSeed, rng, sm2Init, store, fresh, key>>

-----------------------------------------------------------------------------
(* SM2                                                                      *)

\* MIRACL_Init: after mirsys the seed is read from the generator, and becomes
\* the generator's seed.
MiraclInit ==
    LET r == IF setSeed THEN Mirsys ELSE Irand(<<0>>)
    IN  Irand(Append(r.seed, r.pos + 1))

\* SM2_Init does its work once; the point and the order of G are constants.
AfterInit == IF sm2Init THEN rng ELSE MiraclInit

\* Mutant: set_seed is still clear after the first random number.
KeyGenerationUnseeded ==
    /\ "sm2" \in prog /\ key = 0
    /\ sm2Init' = TRUE
    /\ \E d \in PrivateKeys : key' = d
    /\ rng' = Drawn(AfterInit, 1)
    /\ out' = None
    /\ UNCHANGED <<prog, lives, setSeed, store, fresh>>

\* SM2_KeyGeneration, once in a life; a program that also seals sets the seed
\* first, as the comment in MIRACL_Init asks.
KeyGeneration ==
    /\ "sm2" \in prog /\ key = 0
    /\ "seal" \in prog => setSeed
    /\ sm2Init' = TRUE
    /\ setSeed' = TRUE
    /\ \E d \in PrivateKeys :
        /\ KeyError(PublicKey(d)) = "ok"
        /\ key' = d
    /\ rng' = Drawn(AfterInit, 1)
    /\ out' = None
    /\ UNCHANGED <<prog, lives, store, fresh>>

\* SM2_Sign; the hash may exceed N.
SignCall ==
    /\ key # 0 /\ rng.pos <= MaxDraws
    /\ \E e \in 0 .. N + 1, k \in Nonces :
        out' = [op |-> "sign", e |-> e, res |-> Sign(key, e, k)]
    /\ rng' = Drawn(AfterInit, 1)
    /\ UNCHANGED <<prog, lives, setSeed, sm2Init, store, fresh, key>>

VerifyCall ==
    /\ out.op = "sign" /\ out.res.ret = "ok"
    /\ out' = [op |-> "verify",
               ret |-> Verify(PublicKey(key), out.e, out.res.r, out.res.s)]
    /\ UNCHANGED <<prog, lives, setSeed, rng, sm2Init, store, fresh, key>>

-----------------------------------------------------------------------------
(* SM4 by itself                                                            *)

CipherCall ==
    /\ "cipher" \in prog /\ out = None
    /\ \E box \in Boxes, x, mk \in [1..4 -> Words], ck \in Words :
        LET rk == KeySchedule(box[2], mk, [j \in 1..4 |-> ck], [i \in 1 .. Rounds |-> ck])
        IN  out' = [op |-> "cipher", x |-> x,
                    back |-> CipherDecrypt(box[1], CipherEncrypt(box[1], x, rk), rk)]
    /\ UNCHANGED <<prog, lives, setSeed, rng, sm2Init, store, fresh, key>>

-----------------------------------------------------------------------------

CryptoNext ==
    \/ SetSeed \/ Restart
    \/ AskSize \/ Seal \/ SealFails \/ Damage \/ Unseal \/ UnsealNoKey
    \/ CbcEncryptCall \/ CbcDecryptCall
    \/ KeyGeneration \/ SignCall \/ VerifyCall
    \/ CipherCall

CryptoSpec == CryptoInit /\ [][CryptoNext]_vars

-----------------------------------------------------------------------------
(* Properties                                                               *)

\* What was sealed and not damaged can be unsealed by the same enclave, in any
\* later life, with buffers of the sizes the getters report (seal.c:102), if the
\* monitor gives the key.  It holds for MAC texts shorter than ByteMod, as those
\* of the run gm are, and not for longer ones: their length is cut to a byte on
\* its way into data_copy (seal.c:82).
IntactOpens ==
    out.op = "unseal" /\ out.short = 0 /\ store[out.i].now = store[out.i].sealed
        => out.res.ret = 0

\* An unseal that returns 0 has filled the buffers with exactly the text and
\* the MAC text that were sealed: damage to any part is noticed.
OpensAsSealed ==
    out.op = "unseal" /\ out.res.ret = 0 =>
        /\ out.res.text = store[out.i].text
        /\ out.res.mac = store[out.i].mac

\* The size calculated for a sealed data is the exact sum of its parts or
\* UINT32_MAX, never a sum that has wrapped, and what penglai_seal_data writes
\* fits it.
SizeExact ==
    /\ out.op = "size" =>
          out.ret \in {UintMax, out.mac + out.text + TagLen + Header}
    /\ out.op = "seal" => Header + Len(store[Len(store)].now.payload) <= out.room

\* The table of doubled values that OCB keeps on its stack has an entry for
\* every index it writes or reads: the first always, and the trailing zeros of
\* every block number of the text and of the MAC text.  It holds if the text or
\* the MAC text has a full block, as in the run gm; otherwise the table has no
\* entry, and the first is written all the same (SM4_Enc.c:205, 213).
TableFits ==
    out.op = "seal" =>
        \A i \in {1} \cup (1 .. out.text \div B) \cup (1 .. out.mac \div B) :
            Ntz(i) < LLength(out.text, out.mac)

\* A program that sets a new random seed in every life never uses a pair of
\* key and nonce, or key and initial value, twice, in any two of its lives.
KeysFresh ==
    \A i, j \in DOMAIN fresh : i # j => fresh[i] # fresh[j]

\* SM4_CBC_Decrypt undoes SM4_CBC_Encrypt up to the zeros that fill the last
\* block, for as many bytes as the buffer holds; and SM4_Decrypt undoes
\* SM4_Encrypt whatever the S-box, the linear layers and the key.
DecryptionInverts ==
    /\ out.op = "decrypt" /\ out.padded > 0 =>
          out.got = SubSeq(ZeroPadded(out.text), 1,
                           IF out.room < out.padded THEN out.room ELSE out.padded)
    /\ out.op = "cipher" => out.back = out.x

\* Every signature that SM2_Sign returns is accepted by SM2_Verify, for every
\* key, hash and random number: no error that SM2_Verify tests for is left
\* untested by SM2_Sign.
SignedVerifies == out.op = "verify" => out.ret = "ok"
=============================================================================
