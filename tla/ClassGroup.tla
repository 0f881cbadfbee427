----------------------------- MODULE ClassGroup -----------------------------
(***************************************************************************)
(* The class group Cl(D) of binary quadratic forms, abstracted.  The form  *)
(* arithmetic (nudupl, nucomp, the Pulmark reducer, FastPowFormNucomp,     *)
(* FastPow) lives in the chiavdf library outside this repository; only its *)
(* interface is specified (spec.md sections 1 and 3).  A reduced form is   *)
(* represented by the group element it stands for, in a cyclic group of    *)
(* order M written additively: every finite abelian group's behaviour on   *)
(* the few elements a run touches is that of such a group, and the         *)
(* aggregation identities of the protocol only use the group laws.         *)
(***************************************************************************)
EXTENDS Naturals

CONSTANT M          \* order of the model group; a prime, so that every
                    \* non-zero exponent is invertible
ASSUME M \in Nat /\ M > 2

Forms == 0 .. M - 1

\* form::identity(D)
Identity == 0

\* Mutant: a composition whose result is never reduced.
ComposeUnreduced(x, y) == x + y

\* operator* on forms: nucomp followed by reduction
Compose(x, y) == (x + y) % M

\* nudupl_form: squaring
Square(x) == (2 * x) % M

\* FastPowFormNucomp(g, D, e, L, reducer) = g^e
PowForm(g, e) == (e * g) % M

\* FastPow(2, T, B) = 2^T mod B (an integer, not a form)
FastPow(base, e, mod) == (base ^ e) % mod
=============================================================================
