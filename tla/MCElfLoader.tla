----------------------------- MODULE MCElfLoader -----------------------------
(* ElfLoader with pages of four bytes.                                      *)
EXTENDS ElfLayout

Part(a, n) == [addr |-> a, size |-> n]

Request(nobits, segs, stack, untrusted, e, a) ==
    [nobits |-> nobits, segs |-> segs, stack |-> stack,
     untrusted |-> untrusted, entry |-> e, alloc |-> a]

\* app.lds: text from page 1, data on the next page boundary, .bss right
\* behind the data, the brk area on the next page boundary.  Only layouts
\* whose .bss does not run into a page that the loop over it skips.
Layouts ==
    {Request(<<Part(0, 5), Part(8 + d, b), Part(PageUp(8 + d + b), 6)>>,
             <<Part(4, t), Part(8, d)>>, s, u, e, a) :
        t \in {1, 4}, d \in {1, 3, 4}, b \in {0, 1, 3, 4, 8},
        s \in {4, 8, 20}, u \in {4, 7, 16}, e, a \in BOOLEAN}

AlignedRequests == {r \in Layouts : LoopCovers(r.nobits[2])}

\* These requests meet the hypotheses of the theorems about complete images.
ASSUME RequestsComplete ==
    \A r \in AlignedRequests :
        LayoutOK(r) /\ (SizesInBounds(r) => BudgetOK(r))

\* the same without that restriction
BssRequests == {r \in Layouts : r.stack = 4 /\ r.untrusted = 4 /\ r.entry /\ r.alloc}

\* Seventeen pages of image and stack, and as much untrusted memory as is
\* allowed: eight last-level tables, as the 16 MiB of the real limit.  The
\* image is across the end of a table of 8, so it needs one table more than in
\* a table of 512; without that table the pages run out just the same.
LargeRequests == {Request(<<>>, <<Part(4, 36)>>, 32, 256, TRUE, TRUE)}

SmallFrames == {-k : k \in 1 .. 5}
LargeFrames == {-k : k \in 1 .. 65}
GrantedSizes == {2 ^ i : i \in 0 .. 7}
Idx4 == 0 .. 3
Idx8 == 0 .. 7
=============================================================================
