----------------------------- MODULE Sm3Stream -----------------------------
(***************************************************************************)
(* The SM3 state machine (lib/gm/source/SM3.c): bytes are collected in      *)
(* md.buf, full blocks are compressed, SM3_done pads.  The compression      *)
(* function is ideal: the state is the sequence of the blocks it was given. *)
(* Byte i of a message stands for itself, as the number FirstByte + i.      *)
(***************************************************************************)
EXTENDS Integers, Sequences, SequencesExt

CONSTANTS
    BlockBytes,  \* 64
    LenAt,       \* 56: where the length field starts
    WordBytes,   \* 4
    Base,        \* 256: values of a byte of the length
    FirstByte,   \* larger than any byte that padding writes
    MaxMsg,      \* bound: length of a message
    MaxHashes    \* bound: messages hashed with one SM3_STATE

\* md.length is an unsigned int that fills the low half of the length field.
LenBytes == (BlockBytes - LenAt) \div 2

LenMod == Base ^ LenBytes

ASSUME Sm3Assumption ==
    /\ BlockBytes \in Nat /\ LenAt \in 1 .. BlockBytes - 2
    /\ (BlockBytes - LenAt) % 2 = 0 /\ BlockBytes % WordBytes = 0
    /\ Base \in Nat /\ FirstByte \in Nat /\ FirstByte > 128 /\ FirstByte > Base
    /\ MaxMsg \in Nat /\ LenMod \in Nat /\ MaxMsg * 8 < LenMod
    /\ MaxHashes \in Nat

VARIABLES
    curlen,    \* md.curlen
    length,    \* md.length
    buf,       \* md.buf
    absorbed,  \* md.state: the blocks compressed since SM3_init
    msg,       \* the message so far
    phase,     \* "new", "open" after SM3_init, "done" after SM3_done
    hashes     \* messages begun

sm3Vars == <<curlen, length, buf, absorbed, msg, phase, hashes>>

\* SM3_STATE is the caller's: nothing is initialised.
Sm3Start ==
    /\ curlen = 0 /\ length = 0
    /\ buf = [i \in 1 .. BlockBytes |-> FirstByte]
    /\ absorbed = <<>> /\ msg = <<>>
    /\ phase = "new" /\ hashes = 0

\* SM3_init leaves buf alone.
Sm3Init ==
    /\ phase # "open" /\ hashes < MaxHashes
    /\ curlen' = 0 /\ length' = 0
    /\ absorbed' = <<>> /\ msg' = <<>>
    /\ phase' = "open" /\ hashes' = hashes + 1
    /\ UNCHANGED buf

\* BigEndian in place: the bytes of every word are reversed.
BigEndian(b) ==
    [i \in 1 .. BlockBytes |->
        LET word == (i - 1) \div WordBytes
        IN  b[word * WordBytes + WordBytes - ((i - 1) % WordBytes)]]

\* One turn of the loop of SM3_process
Process ==
    LET filled == [buf EXCEPT ![curlen + 1] = FirstByte + Len(msg) + 1]
    IN  /\ phase = "open" /\ Len(msg) < MaxMsg
        /\ msg' = Append(msg, FirstByte + Len(msg) + 1)
        /\ IF curlen + 1 = BlockBytes
           THEN /\ absorbed' = Append(absorbed, filled)
                /\ buf' = BigEndian(filled)
                /\ length' = (length + 8 * BlockBytes) % LenMod
                /\ curlen' = 0
           ELSE /\ buf' = filled
                /\ curlen' = curlen + 1
                /\ UNCHANGED <<absorbed, length>>
        /\ UNCHANGED <<phase, hashes>>

\* The byte of weight Base^w in n
Digit(n, w) == (n \div Base ^ w) % Base

\* Zeros from position from to position to
Cleared(b, from, to) ==
    [i \in 1 .. BlockBytes |-> IF i >= from /\ i <= to THEN 0 ELSE b[i]]

\* The last block: zeros, and the length in the low half of its field
LastBlock(b, from, len) ==
    [i \in 1 .. BlockBytes |->
        IF i > BlockBytes - LenBytes THEN Digit(len, BlockBytes - i)
        ELSE Cleared(b, from, BlockBytes)[i]]

\* Mutant: a block whose 0x80 lies where the length starts is not closed.
NeedsTwoLater(n) == n > LenAt + 1

\* The 0x80 has left no room for the length: n bytes are used.
NeedsTwo(n) == n > LenAt

Done ==
    LET marked == [buf EXCEPT ![curlen + 1] = 128]
        total == (length + 8 * curlen) % LenMod
        first == Cleared(marked, curlen + 2, BlockBytes)
        last == IF NeedsTwo(curlen + 1) THEN LastBlock(BigEndian(first), 1, total)
                ELSE LastBlock(marked, curlen + 2, total)
    IN  /\ phase = "open"
        /\ phase' = "done"
        /\ absorbed' = absorbed
                \o (IF NeedsTwo(curlen + 1) THEN <<first, last>> ELSE <<last>>)
        /\ buf' = BigEndian(last)
        /\ curlen' = LenAt
        /\ length' = total
        /\ UNCHANGED <<msg, hashes>>

Sm3Next == Sm3Init \/ Process \/ Done

-----------------------------------------------------------------------------
(* Property                                                                 *)

\* The padding of the standard: 0x80, the fewest zeros, the length in bits in
\* BlockBytes - LenAt bytes
Padding(n) ==
    LET zeros == CHOOSE k \in 0 .. BlockBytes - 1 :
                    (n + 1 + k + BlockBytes - LenAt) % BlockBytes = 0
        field == BlockBytes - LenAt
    IN  <<128>> \o [i \in 1 .. zeros |-> 0]
            \o [i \in 1 .. field |-> IF i <= field - LenBytes THEN 0
                                     ELSE Digit(8 * n, field - i)]

PaddedMessage == msg \o Padding(Len(msg))

\* When SM3_done returns, exactly the padded message has been compressed, in
\* whole blocks: no byte of an earlier block or of an earlier message hashed
\* with the same SM3_STATE is left in it.
HashesPadded ==
    phase = "done" =>
        /\ Len(PaddedMessage) = Len(absorbed) * BlockBytes
        /\ \A b \in 1 .. Len(absorbed), i \in 1 .. BlockBytes :
              absorbed[b][i] = PaddedMessage[(b - 1) * BlockBytes + i]
=============================================================================
