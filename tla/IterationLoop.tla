---------------------------- MODULE IterationLoop ----------------------------
(***************************************************************************)
(* The squaring loops of EvalAggVdf (src/chiavdf/src/aggvdf/aggvdf.h) and  *)
(* PowFormWithQuotient (src/chaivdf/src/aggvdf/aggutil.h):                 *)
(*                                                                         *)
(*     for (int i = 0; i < num_iterations; i++) { square ... }             *)
(*                                                                         *)
(* with an int counter and a uint64_t bound.  The comparison converts i to *)
(* uint64_t.  Past INT_MAX, i++ is signed overflow, which is undefined:    *)
(* a build either wraps the counter to INT_MIN (which converts to a huge   *)
(* unsigned value and ends the loop) or keeps it in a wider register.      *)
(* Both outcomes are in the model, as the constant set Builds.  The widths *)
(* are scaled down from 32 and 64 bits to IntBits and UIntBits.            *)
(***************************************************************************)
EXTENDS Integers

CONSTANTS
  IntBits,   \* width of int (32 in the code)
  UIntBits,  \* width of uint64_t (64 in the code)
  TBound,    \* largest num_iterations checked
  Builds     \* what i++ at INT_MAX does: SUBSET {"wrap", "widen"}

ASSUME IntBits \in Nat /\ UIntBits \in Nat /\ 1 < IntBits /\ IntBits < UIntBits
ASSUME TBound \in 0 .. 2^UIntBits - 1
ASSUME Builds \subseteq {"wrap", "widen"} /\ Builds # {}

VARIABLES
  t,          \* num_iterations
  i,          \* the loop counter
  squarings,  \* nudupl_form calls made so far
  build,      \* the behaviour of the build at hand
  pc          \* "loop" or "done"

vars == <<t, i, squarings, build, pc>>

IntMin == -(2^(IntBits - 1))
IntMax == 2^(IntBits - 1) - 1

\* Mutant: the comparison made in int, as if num_iterations were an int.
AsInt(x) == x

\* i < num_iterations: i converted to uint64_t
AsUInt64(x) == x % 2^UIntBits

\* squarings + 1, counted exactly up to 2^UIntBits: no loop with a
\* uint64_t bound iterates more often, so beyond it the count stays put.
Count(x) == IF x < 2^UIntBits THEN x + 1 ELSE x

\* i++
Incr(x) == IF build = "wrap" /\ x = IntMax THEN IntMin ELSE x + 1

Init ==
  /\ t \in 0 .. TBound
  /\ i = 0
  /\ squarings = 0
  /\ build \in Builds
  /\ pc = "loop"

\* One iteration: nudupl_form(y, y, D, Lroot); reducer.reduce(y); i++
Iterate ==
  /\ pc = "loop"
  /\ AsUInt64(i) < t
  /\ squarings' = Count(squarings)
  /\ i' = Incr(i)
  /\ UNCHANGED <<t, build, pc>>

\* The condition fails and the function returns.
Exit ==
  /\ pc = "loop"
  /\ ~(AsUInt64(i) < t)
  /\ pc' = "done"
  /\ UNCHANGED <<t, i, squarings, build>>

\* The loop has ended; the behaviour stops here.
Returned == pc = "done" /\ UNCHANGED vars

Next == Iterate \/ Exit \/ Returned

Spec == Init /\ [][Next]_vars

\* The loop runs on a thread of its own, which the OS keeps scheduling.
FairSpec == Spec /\ WF_vars(Iterate \/ Exit)

(***************************************************************************)
(* EvalAggVdf squares exactly T times, and PowFormWithQuotient runs T      *)
(* steps, for every uint64_t T (spec sections 4.4 and 6): when the loop    *)
(* ends, it has made num_iterations squarings.                             *)
(***************************************************************************)
SquaresT == pc = "done" => squarings = t

(***************************************************************************)
(* The loop terminates for every uint64_t T (spec section 5: "a            *)
(* computation runs to completion"), also in a build where i++ wraps: the  *)
(* wrapped counter converts to a uint64_t above every 32-bit T.            *)
(***************************************************************************)
Terminates == <>(pc = "done")
=============================================================================
