----------------------------- MODULE GmLibrary -----------------------------
(* The crypto libraries as one enclave program may use them: a program that *)
(* hashes keeps an SM3_STATE of its own.                                    *)
EXTENDS EnclaveCrypto, Sm3Stream

GmInit == CryptoInit /\ Sm3Start

GmNext ==
    \/ "sm3" \notin prog /\ CryptoNext /\ UNCHANGED sm3Vars
    \/ "sm3" \in prog /\ Sm3Next /\ UNCHANGED vars

GmSpec == GmInit /\ [][GmNext]_<<vars, sm3Vars>>
=============================================================================
