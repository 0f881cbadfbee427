---------------------------- MODULE AtomicVerifier ---------------------------
(***************************************************************************)
(* What aggvdf_verify promises its caller, as one atomic call: the blobs   *)
(* may change while no call is running; a call takes the current blobs     *)
(* and either returns, in one step, the verdict VerifyAggProof computes    *)
(* with a single thread (VerifyAggProofSeq), or never returns when that    *)
(* computation loops forever.  The threaded verifier of AggVdf implements  *)
(* this specification under the mapping AggVdf!Atomic.                    *)
(***************************************************************************)
EXTENDS AggProof

VARIABLES
  chal, T, ys, aIters,  \* the challenges, num_iterations, y blobs, a_iters
  proof, bIter,         \* the proof blob
  vpc,                  \* "idle", "running", "returned", "hung"
  verdict               \* what the last call returned

inputs == <<chal, T, ys, aIters, proof, bIter>>
vars == <<inputs, vpc, verdict>>

Init == vpc = "idle" /\ verdict = FALSE

\* Before the call, the caller (and a dishonest prover) prepare the inputs.
Prepare == vpc = "idle" /\ UNCHANGED <<vpc, verdict>>

\* aggvdf_verify is called on the inputs as they are now.
Call == vpc = "idle" /\ vpc' = "running" /\ UNCHANGED verdict

\* The call returns the one-thread verdict on the inputs it was called with.
Return ==
  /\ vpc = "running" /\ vpc' = "returned"
  /\ UNCHANGED inputs
  /\ VerifyAggProofSeq(chal, ys, aIters, proof, bIter, T) # Hang
  /\ verdict' = VerifyAggProofSeq(chal, ys, aIters, proof, bIter, T)

\* The call never returns.
Loop ==
  /\ vpc = "running" /\ vpc' = "hung"
  /\ UNCHANGED <<inputs, verdict>>
  /\ VerifyAggProofSeq(chal, ys, aIters, proof, bIter, T) = Hang

Next == Prepare \/ Call \/ Return \/ Loop

Spec == Init /\ [][Next]_vars
=============================================================================
