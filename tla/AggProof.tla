------------------------------- MODULE AggProof ------------------------------
(***************************************************************************)
(* The protocol of src/chiavdf/src/aggvdf/aggvdf.h as operators over the   *)
(* algorithms of AggUtil: the digest s, the scalars alpha_i, their         *)
(* combination, PowFormWithQuotient, EvalAggVdf, AggreateVdfProofs and    *)
(* the verification identity.  VerifyAggProofSeq is VerifyAggProof run     *)
(* with one thread, from start to end in index order: what the threaded   *)
(* verifier promises to compute.                                           *)
(***************************************************************************)
EXTENDS AggUtil

\* SerializeForm(f, d_size): a fixed-width, injective byte string
SerializeForm(f) == <<f>>

\* s = bin(g_1)||bin(y_1)||...||bin(g_n)||bin(y_n), as the loops build it
Digest(g, y) == FlattenSeq([i \in 1 .. Len(y) |->
                              SerializeForm(g[i]) \o SerializeForm(y[i])])

(***************************************************************************)
(* alpha_i = int(SHA-256(int2bytes(i) || s)), i counted from 0.  Only its  *)
(* residue modulo the group order acts on forms; it is taken non-zero, as  *)
(* the residue of a 256-bit hash modulo the order of a class group is      *)
(* except with negligible probability.                                     *)
(***************************************************************************)
Alpha(i, digest) == (Sha(Int2Bytes(i) \o digest) % (M - 1)) + 1

\* Prod_i f_i^alpha_i, the fold of AggreateVdfProofs and of the workers
AlphaCombination(f, digest, from, to) ==
  FoldLeft(Compose, Identity,
           [j \in 1 .. to - from |-> PowForm(f[from + j], Alpha(from + j - 1, digest))])

(***************************************************************************)
(* PowFormWithQuotient(g, D, T, B, L, reducer): x = g^floor(2^T / B) by    *)
(* doubling, adding g whenever the running remainder r overflows B.        *)
(***************************************************************************)
\* Mutant: g is added only when 2r exceeds B, not when it reaches it.
RECURSIVE PowQuotientLoopStrict(_, _, _, _, _)
PowQuotientLoopStrict(g, b, iters, x, r) ==
  IF iters = 0 THEN x
  ELSE LET x2 == Square(x)
       IN  PowQuotientLoopStrict(g, b, iters - 1,
                                 IF r * 2 > b THEN Compose(x2, g) ELSE x2,
                                 (r * 2) % b)

RECURSIVE PowQuotientLoop(_, _, _, _, _)
PowQuotientLoop(g, b, iters, x, r) ==
  IF iters = 0 THEN x
  ELSE LET x2 == Square(x)
       IN  PowQuotientLoop(g, b, iters - 1,
                           IF r * 2 >= b THEN Compose(x2, g) ELSE x2,
                           (r * 2) % b)

PowFormWithQuotient(g, t, b) == PowQuotientLoop(g, b, t, Identity, 1)

\* EvalAggVdf(D, challenge, t) = <<g^(2^t), a_iter>>
EvalAggVdf(c, t) == LET hg == H_G(c) IN <<PowForm(hg[1], 2^t), hg[2]>>

\* AggreateVdfProofs(D, challenges, ys, t, a_iters) = <<proof, b_iter>>
AggreateVdfProofs(cs, y, ai, t) ==
  LET g == [i \in 1 .. Len(cs) |-> H_GFast(cs[i], ai[i])]
  IN  IF Hang \in Range(g) THEN Hang
      ELSE LET digest == Digest(g, y)
               hp == HashPrimeWithIteration(digest)
           IN  IF hp = Hang THEN Hang
               ELSE <<PowFormWithQuotient(AlphaCombination(g, digest, 0, Len(cs)),
                                          t, hp[1]),
                      hp[2]>>

\* The check both the threaded verifier and its one-thread reference end in.
VerifyIdentity(pi, b, t, aggX, aggY) ==
  Compose(PowForm(pi, b), PowForm(aggX, FastPow(2, t, b))) = aggY

(***************************************************************************)
(* VerifyAggProof(D, challenges, ys, proof, t, 1, a_iters, b_iter) run     *)
(* sequentially: the verdict, or Hang when H_GFast or HashPrimeFast never  *)
(* returns.                                                                *)
(***************************************************************************)
VerifyAggProofSeq(cs, y, ai, pi, bi, t) ==
  LET g == [i \in 1 .. Len(cs) |-> H_GFast(cs[i], ai[i])]
  IN  IF Hang \in Range(g) THEN Hang
      ELSE LET digest == Digest(g, y)
               b == HashPrimeFast(digest, bi)
           IN  IF b = Hang THEN Hang
               ELSE VerifyIdentity(pi, b, t, AlphaCombination(g, digest, 0, Len(cs)),
                                   AlphaCombination(y, digest, 0, Len(cs)))
=============================================================================
