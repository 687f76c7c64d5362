--------------------------- MODULE MCEncfSequences ---------------------------
(* Finite instances of EncfSequences for TLC. *)
EXTENDS EncfSequences

CONSTANTS r1, r2, r3, a1, a2, c1, c2, k1

\* The calls differ only by their idempotency keys: r1 and r2 share one.
KeyOfDef == [r \in Requests |-> IF r \in {r1, r2} THEN k1 ELSE NoKey]
NoKeys == [r \in Requests |-> NoKey]

OneRange == {<<1, 3>>}
RangesOfTwo == {<<1, 2>>}
\* Two ranges that meet in 2.
MeetingRanges == {<<1, 2>>, <<2, 3>>}

\* Lists over [1 .. 3]: the tail, the middle, and two ranges of which the second
\* plans over the first.
AnnulLists1 == {<<<<2, 3>>>>, <<<<2, 2>>>>, <<<<1, 2>>, <<3, 3>>>>}
AnnulLists2 == {<<<<1, 1>>>>, <<<<3, 3>>>>}

\* Each of them whole, and the number in both.
RegisteredLists == {<<<<1, 2>>>>, <<<<2, 3>>>>, <<<<2, 2>>>>}

NoOverrides == {}
SomeOverrides == {2, 3}
=============================================================================
