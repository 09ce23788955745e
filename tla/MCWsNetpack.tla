---------------------------- MODULE MCWsNetpack ----------------------------
(* WsNetpack for TLC: two connections in one list of the hash table.  In one *)
(* instance one client sends masked frames with both forms of the length, an *)
(* empty one and two bytes to throw away, and the other closes; in the other *)
(* one sends a frame that is too large and the other a header that is.       *)
EXTENDS WsNetpack

CONSTANTS f1, f2

H(kind, mask, len) == [kind |-> kind, mask |-> mask, len |-> len]
(* Text read as a header has a reserved bit set; masked bytes are anything. *)
F(kind, mask, len) == [is |-> H(kind, mask, len), inside |-> H("skip", FALSE, 0)]
X(kind, mask, len) == [is |-> H(kind, mask, len), inside |-> H("data", FALSE, 0)]

Frames  == <<F("http", FALSE, 3), X("data", TRUE, 5), F("skip", FALSE, 0), F("data", FALSE, 1),
             F("data", FALSE, 0)>>
Leaves  == <<F("http", FALSE, 3), X("data", TRUE, 1), X("close", TRUE, 2)>>
Large   == <<F("http", FALSE, 3), X("data", FALSE, 8), F("data", FALSE, 1)>>
LongHttp == <<F("http", FALSE, 8)>>

Both(a, b) == [fd \in {f1, f2} |-> IF fd = f1 THEN a ELSE b]
KeepOrBreakLimits == {Both(Frames, Leaves), Both(Large, LongHttp)}

SameList(fd) == 0
=============================================================================
