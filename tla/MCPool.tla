------------------------------- MODULE MCPool -------------------------------
(***************************************************************************)
(* Small instances of Pool for TLC.                                        *)
(***************************************************************************)
EXTENDS Pool

CONSTANTS a1, a2, a3, c1, c2, k1, k2, x1, x2, x3, y1, y2

\* y1 and y2 are at the addresses of x1 and x2: a second delivery.
MCAddrOf ==
  [x \in Item |-> CASE x \in {x1, y1} -> a1 [] x \in {x2, y2} -> a2
                    [] OTHER -> a3]

\* a1 serves both schemes, a2 only plain HTTP, a3 both and CONNECT.
MCTypes ==
  [a \in Addr |-> CASE a = a1 -> {"Socks5"}
                    [] a = a2 -> {"Http"}
                    [] OTHER -> {"Socks4", "Connect80"}]

MCEwma == [a \in Addr |-> 100]

\* One request behind each proxy, failed for a2.
MCStats ==
  [a \in Addr |-> [reqs |-> 1, errs |-> IF a = a2 THEN 1 ELSE 0,
                   rsum |-> 20, rn |-> 1]]

MCKeyOf == [c \in Caller |-> IF c = c1 THEN k1 ELSE k2]
=============================================================================
