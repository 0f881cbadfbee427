----------------------------- MODULE ExpBinding -----------------------------
(***************************************************************************)
(* The exp binding of fastvdf.cpp: a form given as the big-endian bytes of *)
(* a, b and c is raised to each exponent of a list in turn, and the result *)
(* is returned as the bytes of its a, b and c.  A Python caller chains     *)
(* calls, passing the bytes one call returns to the next.                  *)
(*                                                                         *)
(* Unlike ClassGroup, forms here keep their coefficients, since the        *)
(* binding's byte conversions act on them.  The group is given by          *)
(* Powers, the reduced forms of one discriminant listed as successive      *)
(* powers of a generator.  The library arithmetic (the Pulmark reducer,    *)
(* FastPowFormNucomp, integer::to_bytes) is specified by what it computes. *)
(***************************************************************************)
EXTENDS Integers, Sequences, SequencesExt, Blobs

CONSTANTS
  Powers,     \* <<g^0, g^1, ...>>: every reduced form of the discriminant
  Exponents,  \* exponents a caller passes
  MaxExps     \* longest exponent list of one call

ClassNumber == Len(Powers)

Disc == Powers[1].b * Powers[1].b - 4 * Powers[1].a * Powers[1].c

\* form::from_abc: the form as given, not reduced
FromAbc(a, b, c) == [a |-> a, b |-> b, c |-> c]

\* b moved into (-a, a] by a multiple of 2a, and c recomputed from D
Normalize(f) ==
  LET r  == f.b % (2 * f.a)
      nb == IF r > f.a THEN r - 2 * f.a ELSE r
  IN  [a |-> f.a, b |-> nb, c |-> (nb * nb - Disc) \div (4 * f.a)]

\* The reducer: the reduced form (|b| <= a <= c, b >= 0 if a = |b| or
\* a = c) equivalent to f
RECURSIVE Reduce(_)
Reduce(f) ==
  LET g == Normalize(f)
  IN  IF g.a > g.c \/ (g.a = g.c /\ g.b < 0)
      THEN Reduce([a |-> g.c, b |-> -g.b, c |-> g.a])
      ELSE g

\* The k with Reduce(f) = g^k
ClassIndex(f) == CHOOSE k \in 0 .. ClassNumber - 1 : Powers[k + 1] = Reduce(f)

\* FastPowFormNucomp(x, D, e, L, reducer): the reduced form of x^e, e >= 0
PowFormNucomp(f, e) == Powers[((ClassIndex(f) * e) % ClassNumber) + 1]

\* integer::to_bytes: mpz_export of the magnitude, most significant byte
\* first, in (bits + 7) / 8 bytes (one zero byte for 0)
RECURSIVE MagnitudeBytes(_)
MagnitudeBytes(n) ==
  IF n < 256 THEN <<n>> ELSE MagnitudeBytes(n \div 256) \o <<n % 256>>
ToBytes(n) == MagnitudeBytes(IF n < 0 THEN -n ELSE n)

(***************************************************************************)
(* The body of exp: a, b, c and every exponent imported unsigned           *)
(* (mpz_import), x = from_abc(a, b, c) raised to each exponent in list     *)
(* order, and the coefficients of x exported.  D and L = root(-D, 4) are   *)
(* computed from a, b, c; for the forms a caller holds, D is Disc.          *)
(***************************************************************************)
Exp(aBe, bBe, cBe, expBes) ==
  LET x == FoldLeft(LAMBDA f, e : PowFormNucomp(f, MpzImport(e)),
                    FromAbc(MpzImport(aBe), MpzImport(bBe), MpzImport(cBe)),
                    expBes)
  IN  <<ToBytes(x.a), ToBytes(x.b), ToBytes(x.c)>>

----------------------------------------------------------------------------
(* A caller holding the bytes of a form, and the form it means. *)

VARIABLES
  coeffs,    \* the bytes of a, b and c the caller passes to the next call
  expected   \* the form those bytes stand for: the start raised to every
             \* exponent passed so far

vars == <<coeffs, expected>>

\* Forms a caller can write as unsigned bytes: those with b >= 0
Sendable == {f \in Range(Powers) : f.b >= 0}

Init ==
  \E f \in Sendable :
    /\ coeffs = <<ToBytes(f.a), ToBytes(f.b), ToBytes(f.c)>>
    /\ expected = f

\* One call of exp on the bytes the last call returned
Call ==
  \E n \in 0 .. MaxExps, exps \in [1 .. MaxExps -> Exponents] :
    LET es == SubSeq(exps, 1, n)
    IN  /\ coeffs' = Exp(coeffs[1], coeffs[2], coeffs[3], [i \in 1 .. n |-> ToBytes(es[i])])
        /\ expected' = PowFormNucomp(expected, FoldLeft(LAMBDA p, e : p * e, 1, es))

Next == Call

Spec == Init /\ [][Next]_vars

(***************************************************************************)
(* Chaining exp calls composes their exponents: the bytes a call returns,  *)
(* passed back to exp as its a, b and c, stand for the form the caller has *)
(* computed, the starting form raised to the product of every exponent    *)
(* passed so far.  It relates the bytes a call writes to the way the next  *)
(* call reads them (exp's own unsigned import), across every sequence of   *)
(* calls and exponent lists.                                               *)
(***************************************************************************)
ExpChainsCompose ==
  Reduce(FromAbc(MpzImport(coeffs[1]), MpzImport(coeffs[2]), MpzImport(coeffs[3])))
    = expected
=============================================================================
