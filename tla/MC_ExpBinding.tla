---------------------------- MODULE MC_ExpBinding ----------------------------
EXTENDS ExpBinding

\* The reduced forms of D = -47 (class number 5) as powers of (2, 1, 6):
\* (2, 1, 6)^2 = (4, 1, 3), which reduces to (3, -1, 4), and the last two
\* powers are the inverses of the middle two.
MCPowers ==
  <<[a |-> 1, b |-> 1, c |-> 12], [a |-> 2, b |-> 1, c |-> 6],
    [a |-> 3, b |-> -1, c |-> 4], [a |-> 3, b |-> 1, c |-> 4],
    [a |-> 2, b |-> -1, c |-> 6]>>

\* The table is a cyclic group under the reducer: every entry is reduced,
\* of one discriminant, and the inverse (a, -b, c) of g^k is g^(5-k).
ASSUME \A k \in 1 .. 5 : Reduce(MCPowers[k]) = MCPowers[k]
ASSUME \A k \in 1 .. 5 :
  Reduce(FromAbc(MCPowers[k].a, -MCPowers[k].b, MCPowers[k].c)) = MCPowers[((6 - k) % 5) + 1]
=============================================================================
