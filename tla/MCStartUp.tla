----------------------------- MODULE MCStartUp -----------------------------
(* StartUp with 3 items, 2 cores and pages of 3 bytes: one and two options of *)
(* each kind, well formed and not; windows whose bounds meet, cut and miss    *)
(* the regions and the pages.                                                 *)
EXTENDS StartUp

O(o, ok, a) == [opt |-> o, ok |-> ok, arg |-> a]
Hex(ds) == [hex |-> TRUE, digits |-> ds]

Rows == {<<a>> : a \in 0..3} \cup {<<a, b>> : a, b \in 0..2} \cup {<<>>}
ItemOptions == {O("t", TRUE, s) : s \in UNION {[1..k -> Rows] : k \in 0..2}}
                 \cup {O("t", TRUE, <<<<0>>, <<1>>, <<2>>>>), O("t", FALSE, <<>>)}
Windows == {O("r", TRUE, <<Hex(<<a>>), Hex(<<b>>)>>) : a, b \in 0..15}
             \cup {O("r", TRUE, <<Hex(<<1, a>>), Hex(<<1, b>>)>>) : a, b \in 0..9}
             \cup {O("r", TRUE, <<Hex(<<3>>)>>), O("r", TRUE, <<>>), O("r", FALSE, <<>>),
                   O("r", TRUE, <<Hex(<<3>>), Hex(<<16>>)>>), O("r", TRUE, <<EmptyString, Hex(<<7>>)>>)}
Others == {O("d", TRUE, 0), O("d", TRUE, 2), O("d", FALSE, 0), O("p", TRUE, 1), O("p", TRUE, 3), O("p", FALSE, 0),
           O("m", TRUE, 2), O("m", TRUE, 3), O("m", FALSE, 0), O("e", TRUE, 0), O("l", TRUE, 0), O("c", TRUE, 0),
           O("s", TRUE, 0), O("v", TRUE, 0), O("?", TRUE, 0), O("operand", TRUE, 0)}
Few == Others \cup {O("t", TRUE, <<<<1, 2>>>>), O("t", TRUE, <<<<2>>, <<0>>>>),
                    O("r", TRUE, <<Hex(<<3>>)>>), O("r", TRUE, <<Hex(<<4>>), Hex(<<1, 0>>)>>)}
MCArgvs == {<<>>} \cup {<<o>> : o \in ItemOptions \cup Windows \cup Others} \cup {<<o, q>> : o, q \in Few}

Reg(a, b, t) == [start_pfn |-> a, end_pfn |-> b, type |-> t]
MCRegionLists == {<<Reg(1, 2, "RW"), Reg(2, 4, "RD"), Reg(6, 8, "RW")>>, <<Reg(0, 3, "RD"), Reg(3, 5, "RW")>>}
=============================================================================
