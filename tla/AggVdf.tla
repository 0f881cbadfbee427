------------------------------- MODULE AggVdf -------------------------------
(***************************************************************************)
(* The aggregatable VDF of src/chiavdf/src/aggvdf/aggvdf.h, driven the way *)
(* the Python bindings (src/chaivdf/src/python_bindings/fastvdf.cpp) drive *)
(* it: aggvdf_eval evaluates a batch of challenges, aggvdf_prove builds    *)
(* one proof for the batch, aggvdf_verify checks it with VerifyAggProof.   *)
(* The verifier's two fork-join phases are modelled thread by thread, one  *)
(* step per batch index, so every interleaving of the workers is checked.  *)
(*                                                                         *)
(* The prover and the verifier are different parties: the verifier knows   *)
(* the challenges and receives the y blobs and the proof blob.  A          *)
(* dishonest prover (Adversary) may change the y blobs and their a_iter    *)
(* suffixes before proving, and the proof form and its b_iter suffix       *)
(* before verifying, or send a proof blob without calling aggvdf_prove.    *)
(***************************************************************************)
EXTENDS AggProof

CONSTANTS
  BatchSizes,    \* numbers of VDFs in one aggregate
  TValues,       \* num_iterations
  ThreadCounts,  \* nthreads of VerifyAggProof
  Adversary,     \* the blobs the caller may alter: SUBSET {"ys", "proof"}
  AIters,        \* a_iter values an altered y blob may carry
  BIters,        \* b_iter values an altered proof blob may carry
  NoForm,        \* model value: a slot nobody has written yet
  NoIter         \* model value: no b_iter was returned by AggreateVdfProofs

ASSUME BatchSizes \subseteq Nat /\ TValues \subseteq Nat
ASSUME ThreadCounts \subseteq Nat \ {0}
ASSUME Adversary \subseteq {"ys", "proof"}
\* An a_iter beyond the bound would be followed past SearchBound candidates.
ASSUME AIters \subseteq Int /\ \A a \in AIters : a <= SearchBound

VARIABLES
  chal,        \* challenge_integers
  T,           \* num_iterations
  nthreads,    \* threads used by the verifier
  ys, aIters,  \* the y forms and a_iters handed to prove and verify
  proof, bIter,\* the proof form and b_iter handed to verify
  provedBIter, \* the b_iter AggreateVdfProofs returned (history)
  pc,          \* the caller's position in eval, prove, verify
  gs,          \* VerifyAggProof: the recomputed generators g_i
  writes,      \* number of worker writes to each gs slot (history)
  cur,         \* each worker's loop index i
  s,           \* the digest bytes
  B,           \* the Fiat-Shamir prime
  accX, accY,  \* each worker's agg_xx, agg_yy
  aggGs, aggYs,\* the per-worker result slots agg_gs, agg_ys
  verdict      \* the result of VerifyAggProof

vars == <<chal, T, nthreads, ys, aIters, proof, bIter, provedBIter, pc, gs,
          writes, cur, s, B, accX, accY, aggGs, aggYs, verdict>>

n == Len(chal)
Workers == 0 .. nthreads - 1

\* The contiguous index range [Begin(tt), End(tt)) of worker tt.
Begin(tt) == (tt * n) \div nthreads
\* Mutant: range ends rounded up, with no special case for the last worker.
EndCeil(tt) == ((tt + 1) * n + nthreads - 1) \div nthreads

End(tt) == IF tt + 1 = nthreads THEN n ELSE ((tt + 1) * n) \div nthreads

----------------------------------------------------------------------------
(* The caller and the two calls before verification. *)

Init ==
  /\ \E k \in BatchSizes : chal \in [1 .. k -> Challenges]
  /\ T \in TValues
  /\ nthreads \in ThreadCounts
  /\ ys = <<>> /\ aIters = <<>>
  /\ proof = Identity /\ bIter = 0 /\ provedBIter = NoIter
  /\ pc = "eval"
  /\ gs = <<>> /\ writes = <<>> /\ cur = <<>> /\ s = <<>> /\ B = 0
  /\ accX = <<>> /\ accY = <<>> /\ aggGs = <<>> /\ aggYs = <<>>
  /\ verdict = FALSE

VerifierVars == <<gs, writes, cur, s, B, accX, accY, aggGs, aggYs, verdict>>

\* aggvdf_eval: EvalAggVdf on every challenge, in order
AggvdfEval ==
  /\ pc = "eval"
  /\ ys' = [i \in 1 .. n |-> EvalAggVdf(chal[i], T)[1]]
  /\ aIters' = [i \in 1 .. n |-> EvalAggVdf(chal[i], T)[2]]
  /\ pc' = "submit"
  /\ UNCHANGED <<chal, T, nthreads, proof, bIter, provedBIter, VerifierVars>>

\* The caller passes the y blobs on unchanged ...
SubmitYs ==
  /\ pc = "submit"
  /\ pc' = "prove"
  /\ UNCHANGED <<chal, T, nthreads, ys, aIters, proof, bIter, provedBIter,
                 VerifierVars>>

\* ... or alters one of them: its form and its a_iter suffix.
AlterYs ==
  /\ "ys" \in Adversary
  /\ pc = "submit"
  /\ \E i \in 1 .. n, y \in Forms, a \in AIters :
       /\ <<y, a>> # <<ys[i], aIters[i]>>
       /\ ys' = [ys EXCEPT ![i] = y]
       /\ aIters' = [aIters EXCEPT ![i] = a]
  /\ pc' = "prove"
  /\ UNCHANGED <<chal, T, nthreads, proof, bIter, provedBIter, VerifierVars>>

\* aggvdf_prove: AggreateVdfProofs, when it returns
AggvdfProve ==
  /\ pc = "prove"
  /\ AggreateVdfProofs(chal, ys, aIters, T) # Hang
  /\ proof' = AggreateVdfProofs(chal, ys, aIters, T)[1]
  /\ bIter' = AggreateVdfProofs(chal, ys, aIters, T)[2]
  /\ provedBIter' = bIter'
  /\ pc' = "deliver"
  /\ UNCHANGED <<chal, T, nthreads, ys, aIters, VerifierVars>>

\* VerifyAggProof starts: gs(proofs_num), agg_gs(nthreads), agg_ys(nthreads)
\* and the first nthreads workers.
StartVerify ==
  /\ gs' = [i \in 1 .. n |-> NoForm]
  /\ writes' = [i \in 1 .. n |-> 0]
  /\ cur' = [tt \in Workers |-> Begin(tt)]
  /\ aggGs' = [tt \in Workers |-> NoForm]
  /\ aggYs' = [tt \in Workers |-> NoForm]
  /\ pc' = "phase1"
  /\ UNCHANGED <<s, B, accX, accY, verdict>>

\* aggvdf_verify on the proof blob as proved, ...
DeliverProof ==
  /\ pc = "deliver"
  /\ StartVerify
  /\ UNCHANGED <<chal, T, nthreads, ys, aIters, proof, bIter, provedBIter>>

\* ... on an altered proof form or b_iter suffix, ...
AlterProof ==
  /\ "proof" \in Adversary
  /\ pc = "deliver"
  /\ \E p \in Forms, b \in BIters :
       /\ <<p, b>> # <<proof, bIter>>
       /\ proof' = p /\ bIter' = b
  /\ StartVerify
  /\ UNCHANGED <<chal, T, nthreads, ys, aIters, provedBIter>>

\* ... or on a proof blob made without aggvdf_prove.
ForgeProof ==
  /\ "proof" \in Adversary
  /\ pc = "prove"
  /\ \E p \in Forms, b \in BIters : proof' = p /\ bIter' = b
  /\ StartVerify
  /\ UNCHANGED <<chal, T, nthreads, ys, aIters, provedBIter>>

----------------------------------------------------------------------------
(* VerifyAggProof. *)

\* Phase 1, worker tt: gs[i] = H_GFast(challenge_integers[i], D, a_iters[i])
HashWorker(tt) ==
  LET i == cur[tt] + 1 IN
  /\ pc = "phase1"
  /\ cur[tt] < End(tt)
  /\ H_GFast(chal[i], aIters[i]) # Hang
  /\ gs' = [gs EXCEPT ![i] = H_GFast(chal[i], aIters[i])]
  /\ writes' = [writes EXCEPT ![i] = @ + 1]
  /\ cur' = [cur EXCEPT ![tt] = @ + 1]
  /\ UNCHANGED <<chal, T, nthreads, ys, aIters, proof, bIter, provedBIter, pc,
                 s, B, accX, accY, aggGs, aggYs, verdict>>

\* Join of phase 1; s from gs and ys; B = HashPrimeFast(s, 264, {263},
\* b_iter); the phase-2 workers start with agg_xx = agg_yy = identity.
JoinHashers ==
  /\ pc = "phase1"
  /\ \A tt \in Workers : cur[tt] = End(tt)
  /\ HashPrimeFast(Digest(gs, ys), bIter) # Hang
  /\ s' = Digest(gs, ys)
  /\ B' = HashPrimeFast(Digest(gs, ys), bIter)
  /\ cur' = [tt \in Workers |-> Begin(tt)]
  /\ accX' = [tt \in Workers |-> Identity]
  /\ accY' = [tt \in Workers |-> Identity]
  /\ pc' = "phase2"
  /\ UNCHANGED <<chal, T, nthreads, ys, aIters, proof, bIter, provedBIter, gs,
                 writes, aggGs, aggYs, verdict>>

\* Mutant: alpha indexed from the start of the worker's own range.
CombineWorkerLocalIndex(tt) ==
  LET i == cur[tt] + 1
      alpha == Alpha(cur[tt] - Begin(tt), s)
  IN
  /\ pc = "phase2"
  /\ cur[tt] < End(tt)
  /\ accX' = [accX EXCEPT ![tt] = Compose(@, PowForm(gs[i], alpha))]
  /\ accY' = [accY EXCEPT ![tt] = Compose(@, PowForm(ys[i], alpha))]
  /\ cur' = [cur EXCEPT ![tt] = @ + 1]
  /\ UNCHANGED <<chal, T, nthreads, ys, aIters, proof, bIter, provedBIter, pc,
                 gs, writes, s, B, aggGs, aggYs, verdict>>

\* Phase 2, worker tt: fold g_i^alpha_i and y_i^alpha_i into its own pair
CombineWorker(tt) ==
  LET i == cur[tt] + 1
      alpha == Alpha(cur[tt], s)
  IN
  /\ pc = "phase2"
  /\ cur[tt] < End(tt)
  /\ accX' = [accX EXCEPT ![tt] = Compose(@, PowForm(gs[i], alpha))]
  /\ accY' = [accY EXCEPT ![tt] = Compose(@, PowForm(ys[i], alpha))]
  /\ cur' = [cur EXCEPT ![tt] = @ + 1]
  /\ UNCHANGED <<chal, T, nthreads, ys, aIters, proof, bIter, provedBIter, pc,
                 gs, writes, s, B, aggGs, aggYs, verdict>>

\* Worker tt, its range done, writes agg_gs[tt] and agg_ys[tt]
PostWorker(tt) ==
  /\ pc = "phase2"
  /\ cur[tt] = End(tt)
  /\ aggGs[tt] = NoForm
  /\ aggGs' = [aggGs EXCEPT ![tt] = accX[tt]]
  /\ aggYs' = [aggYs EXCEPT ![tt] = accY[tt]]
  /\ UNCHANGED <<chal, T, nthreads, ys, aIters, proof, bIter, provedBIter, pc,
                 gs, writes, cur, s, B, accX, accY, verdict>>

\* Join of phase 2, fold of the slots, and the check
\* proof^B * agg_x^(2^T mod B) == agg_y.
JoinCombiners ==
  /\ pc = "phase2"
  /\ \A tt \in Workers : aggGs[tt] # NoForm
  /\ verdict' = VerifyIdentity(proof, B, T,
                               FoldFunction(Compose, Identity, aggGs),
                               FoldFunction(Compose, Identity, aggYs))
  /\ pc' = "done"
  /\ UNCHANGED <<chal, T, nthreads, ys, aIters, proof, bIter, provedBIter, gs,
                 writes, cur, s, B, accX, accY, aggGs, aggYs>>

(***************************************************************************)
(* A loop that never returns: the call keeps running and the caller never  *)
(* gets an answer.  The behaviour enters pc = "proveHung" or              *)
(* "verifyHung", where it stays.  A phase-1 worker that loops stops its    *)
(* own range, and the join then waits for it forever, whatever the other   *)
(* workers do.                                                             *)
(***************************************************************************)
ProveLoops ==
  /\ pc = "prove"
  /\ AggreateVdfProofs(chal, ys, aIters, T) = Hang
  /\ pc' = "proveHung"
  /\ UNCHANGED <<chal, T, nthreads, ys, aIters, proof, bIter, provedBIter,
                 VerifierVars>>

HashWorkerLoops(tt) ==
  /\ pc = "phase1"
  /\ cur[tt] < End(tt)
  /\ H_GFast(chal[cur[tt] + 1], aIters[cur[tt] + 1]) = Hang
  /\ pc' = "verifyHung"
  /\ UNCHANGED <<chal, T, nthreads, ys, aIters, proof, bIter, provedBIter,
                 VerifierVars>>

JoinHashersLoops ==
  /\ pc = "phase1"
  /\ \A tt \in Workers : cur[tt] = End(tt)
  /\ HashPrimeFast(Digest(gs, ys), bIter) = Hang
  /\ pc' = "verifyHung"
  /\ UNCHANGED <<chal, T, nthreads, ys, aIters, proof, bIter, provedBIter,
                 VerifierVars>>

\* The endless loop spins; the behaviour stays where it is.
Spin == pc \in {"proveHung", "verifyHung"} /\ UNCHANGED vars

\* The verifier has returned; the behaviour stops here.
Done == pc = "done" /\ UNCHANGED vars

Next ==
  \/ AggvdfEval \/ SubmitYs \/ AlterYs \/ AggvdfProve \/ ProveLoops
  \/ DeliverProof \/ AlterProof \/ ForgeProof
  \/ \E tt \in Workers : \/ HashWorker(tt) \/ HashWorkerLoops(tt)
                         \/ CombineWorker(tt) \/ PostWorker(tt)
  \/ JoinHashers \/ JoinHashersLoops \/ JoinCombiners
  \/ Spin \/ Done

Spec == Init /\ [][Next]_vars

----------------------------------------------------------------------------
(* Properties. *)

TypeOK ==
  /\ chal \in Seq(Challenges) /\ T \in TValues /\ nthreads \in ThreadCounts
  /\ ys \in Seq(Forms) /\ aIters \in Seq(Int)
  /\ proof \in Forms /\ bIter \in Int /\ provedBIter \in Int \cup {NoIter}
  /\ pc \in {"eval", "submit", "prove", "deliver", "phase1", "phase2", "done",
            "proveHung", "verifyHung"}
  /\ gs \in Seq(Forms \cup {NoForm}) /\ writes \in Seq(Nat)
  /\ s \in Seq(Forms) /\ B \in Nat /\ verdict \in BOOLEAN
  /\ pc \in {"phase1", "phase2", "done"} =>
       /\ cur \in [Workers -> 0 .. n]
       /\ aggGs \in [Workers -> Forms \cup {NoForm}]
       /\ aggYs \in [Workers -> Forms \cup {NoForm}]
  /\ pc \in {"phase2", "done"} =>
       accX \in [Workers -> Forms] /\ accY \in [Workers -> Forms]

(***************************************************************************)
(* Round trip (spec section 8, property 1, and thread invariance, property *)
(* 3): when the blobs of aggvdf_eval and aggvdf_prove reach aggvdf_verify  *)
(* unchanged, VerifyAggProof returns true, whatever the thread count and   *)
(* the interleaving of its workers.  This needs H_GFast to rebuild the     *)
(* generators H_G found, HashPrimeFast to land on the prime of             *)
(* HashPrimeWithIteration, the workers' ranges to partition the batch, and *)
(* PowFormWithQuotient to compute g^floor(2^T/B).                          *)
(***************************************************************************)
Completeness == pc = "done" => verdict

(***************************************************************************)
(* Every call returns (spec section 8, property 1, "terminates"):          *)
(* aggvdf_prove and aggvdf_verify never enter a search loop that runs      *)
(* forever, in AggreateVdfProofs, in a phase-1 worker's H_GFast, or in     *)
(* HashPrimeFast after the join.                                           *)
(***************************************************************************)
EveryCallReturns == pc \notin {"proveHung", "verifyHung"}

(***************************************************************************)
(* The verifier cannot be stalled: whatever blobs a prover sends,          *)
(* aggvdf_verify returns a verdict (spec section 4.6: "returns false" on   *)
(* an invalid proof).                                                      *)
(***************************************************************************)
VerifyReturns == pc # "verifyHung"

(***************************************************************************)
(* The phase-1 workers of VerifyAggProof share the gs vector without a     *)
(* lock: this is race-free only if each slot is written by exactly one     *)
(* worker, and every slot is written before the join reads gs to build s.  *)
(***************************************************************************)
NoSharedSlotWrite ==
  /\ pc = "phase1" => \A i \in 1 .. n : writes[i] <= 1
  /\ pc \in {"phase2", "done"} => \A i \in 1 .. n : writes[i] = 1

(***************************************************************************)
(* The refinement mapping to the atomic verifier: the caller is idle       *)
(* until aggvdf_verify starts, the two fork-join phases are one running    *)
(* call, and the call has returned or hangs.                               *)
(***************************************************************************)
VerifierPhase ==
  CASE pc \in {"phase1", "phase2"} -> "running"
    [] pc = "done"                  -> "returned"
    [] pc = "verifyHung"            -> "hung"
    [] OTHER                        -> "idle"

Atomic == INSTANCE AtomicVerifier WITH vpc <- VerifierPhase

(***************************************************************************)
(* Thread invariance on any input, honest or not (spec section 8,          *)
(* property 3): the threaded VerifyAggProof implements the atomic one.     *)
(* Its workers' interleaved loop iterations, the per-worker slots and the  *)
(* fold after the join return the verdict a single thread computes on the  *)
(* same blobs, and it hangs exactly when the single thread would.          *)
(***************************************************************************)
VerifierRefinesAtomic == Atomic!Spec

(***************************************************************************)
(* Soundness of the outputs: a batch the verifier accepts carries, for     *)
(* every challenge, the y that EvalAggVdf computes for it, g^(2^T) for the *)
(* g that H_G derives.  The proof is always made by AggreateVdfProofs.     *)
(***************************************************************************)
AcceptedOutputsAreEvaluations ==
  pc = "done" /\ verdict => \A i \in 1 .. n : ys[i] = EvalAggVdf(chal[i], T)[1]

(***************************************************************************)
(* Tamper detection of b_iter (spec section 8, property 4): a proof blob   *)
(* whose b_iter differs from the one AggreateVdfProofs returned is         *)
(* rejected.                                                               *)
(***************************************************************************)
AcceptedBIterIsProvers ==
  pc = "done" /\ verdict /\ provedBIter # NoIter => bIter = provedBIter
=============================================================================
