----------------------------- MODULE MCRotation -----------------------------
EXTENDS Rotation

CONSTANTS a1, a2, k1, c1, x1, x2, y1

\* Three proxies at two addresses.
RotAddrOf == [x \in Item |-> IF x = x2 THEN a2 ELSE a1]

RotTypes == [a \in Addr |-> {"Socks5"}]

RotEwma == [a \in Addr |-> 100]

RotStats == [a \in Addr |-> [reqs |-> 0, errs |-> 0, rsum |-> 0, rn |-> 0]]

RotKeyOf == [c \in Caller |-> k1]
=============================================================================
