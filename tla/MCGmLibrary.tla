---------------------------- MODULE MCGmLibrary ----------------------------
(* GmLibrary with blocks of two bytes and a group of seven points.          *)
EXTENDS GmLibrary

\* Lengths below, at and above the ends of blocks; one full block at least
MCRequests == {<<2, 0>>, <<3, 1>>, <<5, 4>>, <<1, 3>>, <<8, 2>>, <<0, 5>>}

MCXCoord == <<3, 8, 1, 1, 8, 3>>

MCWords == SUBSET {1}

MCBoxes == [MCWords -> MCWords] \X [MCWords -> MCWords]

MCPrograms == {{"seal", "cbc"}, {"sm2"}, {"size"}, {"cipher"}, {"sm3"}}

MCOneRequest == {<<2, 0>>}

\* less than a block: outside the run gm
MCShortRequest == {<<1, 0>>}

\* MAC texts on both sides of the length that a byte holds, if ByteMod = 4: outside
\* the run gm
MCLongMac == {<<2, 3>>, <<2, 5>>}

MCSealOnly == {{"seal"}}

MCSealAndSign == {{"seal", "sm2"}}
=============================================================================
