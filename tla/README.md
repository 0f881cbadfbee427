# TLA+ model of the aggregatable VDF (lootbox-all-in-one)

This directory holds TLA+ models of the aggregatable verifiable delay
function in `src/`. The TLC configurations check them. `PROJECT.json` lists
the components, the runs, the mutants that show each property can fail, the
source lines each definition models, the findings and the hazards.

## The system

Three source files make up the aggregate VDF:

* `src/chaivdf/src/aggvdf/aggutil.h` holds the algorithms:
  * `int2bytes` and `ConvertIntegerToBytes2`, the byte encodings;
  * `H_G`, which hashes a challenge to a class-group element and returns how
    many candidates it tried (`a_iter`);
  * `H_GFast`, which jumps straight to candidate `a_iter`;
  * `HashPrimeWithIteration` and `HashPrimeFast`, the same for the
    Fiat-Shamir prime B and its index `b_iter`;
  * `PowFormWithQuotient`, which computes g^floor(2^T/B);
  * `CreateDiscriminantWithIteration`, a hash-to-prime for D;
  * string join/split helpers (`joinYs`, `joinA_iters`, `split`,
    `split2integer`, `split2int`) and timing macros.
  Nothing in the pipeline calls the last two groups.
* `src/chiavdf/src/aggvdf/aggvdf.h` holds the protocol:
  * `EvalAggVdf`: y = H_G(x)^(2^T);
  * `AggreateVdfProofs`: one proof for a batch;
  * `VerifyAggProof`: checks it with `nthreads` worker threads in two
    fork-join phases.
    * Phase 1: each worker hashes its contiguous range of challenges into
      the shared vector `gs`.
    * Join: the main thread builds the digest s and the prime B.
    * Phase 2: each worker folds g_i^alpha_i and y_i^alpha_i over its range
      into its own slot.
    * Finally the slots are folded and proof^B * X^(2^T mod B) = Y is
      checked.
* `src/chaivdf/src/python_bindings/fastvdf.cpp`:
  * `aggvdf_eval`, `aggvdf_prove` and `aggvdf_verify` wrap the three calls.
  * Forms travel as blobs, each with a little-endian 32-bit `a_iter` or
    `b_iter` appended.
  * The verifier is always called with 4 threads.
  * `exp` raises a form, given as the unsigned big-endian bytes of a, b
    and c, to a list of exponents in turn. It returns the bytes of the
    result's coefficients.
  * The other bindings wrap Wesolowski VDF code of the chiavdf library,
    which is not part of this repository.

The prover and the verifier are different parties. The verifier knows the
challenges. It receives the y blobs and the proof blob from the prover, who
may be dishonest.

## Modules

| module | models |
|---|---|
| `ClassGroup` | The class group. Its arithmetic is library code outside `src/`, so it is specified from its interface: a cyclic group Z_M written additively. |
| `AggUtil` | The algorithms of `aggutil.h` as operators: encodings, the sprout walk, H_G, H_GFast, HashPrimeWithIteration, HashPrimeFast, and CreateDiscriminantWithIteration. |
| `AggProof` | The protocol of `aggvdf.h` as operators: the digest, the alphas, PowFormWithQuotient, EvalAggVdf, AggreateVdfProofs, the verification identity, and `VerifyAggProofSeq`, VerifyAggProof run with one thread. |
| `AggVdf` | The protocol as a state machine: the caller, a dishonest prover, and the threaded verifier. Through `Atomic`, it maps the threaded verifier onto `AtomicVerifier`. |
| `AtomicVerifier` | What aggvdf_verify promises: one atomic call that returns the one-thread verdict, or never returns. |
| `Blobs` | The blob format of `fastvdf.cpp`: the LE32 suffix written from an int, parsed back into an int, and the short-blob exception. |
| `StringHelpers` | The text helpers of `aggutil.h` over byte strings: the decimal joins, and the split loop shared by the three splitters. |
| `ReferenceLaws` | Pure algorithms checked against reference definitions of the laws of spec.md, over bounded inputs. |
| `IterationLoop` | The `for (int i = 0; i < num_iterations; i++)` loops of EvalAggVdf and PowFormWithQuotient, with an int counter against a uint64_t bound. |
| `ExpBinding` | The `exp` binding over forms that keep their coefficients, with a Python caller that chains calls. |
| `MC_AggVdf`, `MC_ReferenceLaws`, `MC_ExpBinding` | The instantiations for TLC: the hash function, the discriminant, the seed sets, and the input sets. |

### AggUtil: data abstraction and what is kept

* **SHA-256.** It is the constant operator `Sha` from byte sequences to
  `DigestBits`-bit digests.
  * The 256-bit H_G candidate is one digest.
  * The 264-bit prime candidate is one digest followed by the leading
    `ExtraBits` bits of a second digest. In the code these are 32 bytes plus
    1 byte.
* **Forced bits.** Candidates get their bits forced exactly as the code
  forces them: bits 0 and 1 for H_G, the top bit and bit 0 for the prime.
* **Exact arithmetic.** Primality, the quadratic-residue test
  D^((a-1)/2) mod a and the root D^((a+1)/4) mod a are computed exactly on
  the small candidates.
* **The two increments.** The sprout increment is kept byte for byte, and
  the two loops of the code are different:
  * H_G and H_GFast break when the incremented byte *is* zero, which is
    not a carrying increment;
  * the prime searches break when it is *not* zero, a carrying increment.
* **Endless loops.** Loops that never return give the model value `Hang`.
  A search is followed for `SearchBound` candidates.
* **Bound guard.** `MC_AggVdf` assumes that every honest search succeeds
  within that bound, so `Hang` in a run always means a real endless loop:
  * a non-residue at a_iter;
  * a_iter <= 0;
  * the empty seed.
* **Tabulated walks.** The walks are tabulated once per challenge and per
  digest (`HGWalk`, `HPWalk`).

### AggVdf: state and actions

| variables | code |
|---|---|
| `chal`, `T`, `nthreads` | challenges, num_iterations, nthreads |
| `ys`, `aIters` | the y forms and a_iter suffixes handed to prove and verify |
| `proof`, `bIter` | the proof blob |
| `gs`, `cur`, `s`, `B` | `gs`, each worker's loop index, the digest, the prime |
| `accX`, `accY`, `aggGs`, `aggYs` | each worker's `agg_xx`/`agg_yy` and the `agg_gs`/`agg_ys` slots |
| `writes`, `provedBIter` | history used by properties |

**Actions.**

* Eval and prove:
  * `AggvdfEval`;
  * `SubmitYs` / `AlterYs`: the prover passes the y blobs on, or changes one
    form and its a_iter (a move of the caller, not code);
  * `AggvdfProve`;
  * `ProveLoops`: AggreateVdfProofs never returns.
* Reaching the verifier:
  * `DeliverProof`, `AlterProof`, `ForgeProof`: the proof blob as proved,
    altered, or made without proving (moves of the caller, not code).
* Phase 1:
  * `HashWorker(tt)`: one index of a phase-1 worker;
  * `HashWorkerLoops(tt)`: its H_GFast never returns;
  * `JoinHashers`: the join, the digest and HashPrimeFast;
  * `JoinHashersLoops`: HashPrimeFast never returns.
* Phase 2:
  * `CombineWorker(tt)`: one index of a phase-2 worker;
  * `PostWorker(tt)`: the slot writes;
  * `JoinCombiners`: the join, the fold and the final check.
* End states:
  * `Spin`: a stutter in a state where a call never returns;
  * `Done`: verify returned.

Each worker step is one loop iteration. TLC therefore explores every
interleaving of the workers' iterations and slot writes. A worker that
loops forever blocks the join, which is why one hanging worker is modelled
as a hung verifier.

### AtomicVerifier: the refinement

`AtomicVerifier` has the verifier's inputs, a phase `vpc` and the verdict.
* `Prepare`: while no call runs, the inputs may change.
* `Call`: starts a call.
* `Return`: returns `VerifyAggProofSeq` on the inputs of the call, in one
  step.
* `Loop`: the call never returns, exactly when that one-thread computation
  loops forever.

AggVdf defines `Atomic == INSTANCE AtomicVerifier WITH vpc <- VerifierPhase`.
* `VerifierPhase` maps phase 1 and phase 2 to `"running"`, `done` to
  `"returned"`, `verifyHung` to `"hung"`, and every other pc to `"idle"`.
* The other variables map to themselves.
* Worker steps, slot writes and the join of phase 1 are stuttering steps of
  the abstract call.
* `JoinCombiners` is its `Return`.
* `HashWorkerLoops` and `JoinHashersLoops` are its `Loop`.
* The property `VerifierRefinesAtomic == Atomic!Spec` says the threaded
  verifier implements the atomic one.

### ExpBinding

* A form is a record of a, b and c. `ClassGroup` has no coefficients, so
  this module keeps its own forms.
* The group is the constant `Powers`, the reduced forms of one
  discriminant listed as the powers of a generator. `MC_ExpBinding` uses
  D = -47, whose five reduced forms are (1,1,12), (2,±1,6) and (3,±1,4).
  ASSUMEs check that the table is reduced and closed under inverses.
* The library parts are specified by what they compute:
  * `Reduce` is the reducer;
  * `PowFormNucomp` is FastPowFormNucomp, the reduced form of x^e;
  * `ToBytes` is `integer::to_bytes`, which exports the magnitude
    (mpz_export ignores the sign).
* `Exp` is the lambda: the unsigned imports, `from_abc`, one power per
  exponent in list order, and the export.
* The state is a Python caller. `coeffs` holds the bytes it passes to the
  next call. `expected` holds the form it has computed.
* `Call` is one exp call with 0 to `MaxExps` exponents, on the bytes the
  previous call returned.

### Blobs, ReferenceLaws, IterationLoop

* **Blobs.**
  * `AppendLE32` is the `(i >> 8k) & 0xff` encoding of an int.
  * `ParseLE32` is the masked-and-shifted decoding. It is built on
    `Int32OfBytes`, where the `<< 24` of a byte >= 0x80 lands in the sign
    bit.
  * `SplitBlob` is the whole split. A blob shorter than 4 bytes gives the
    model value `BlobError`, the `std::length_error` that `resize` of a
    negative offset throws and pybind11 raises.
* **ReferenceLaws.** It holds one input record, chosen in `Init` and never
  changed. Each law is checked on every record of the run's input set.
  * The reference definitions come from spec.md: signed big-endian decoding
    (section 8.8), the sprout as a counter (section 4.2), g^floor(2^T/B)
    (section 8.6), and unsigned LE32 (section 6).
  * The code's definitions are those of `AggUtil`, `AggProof`, `Blobs` and
    `StringHelpers`.
  * Seed inputs are byte strings. The bindings import them with
    `mpz_import` (`MpzImport`), so challenges are never negative.
  * A "walk" input is the one that changes. `Advance` applies H_G's sprout
    increment and counts the steps, up to 256^len. `HGWalkFullPeriod` then
    says the walk first comes back to its seed after exactly 256^len steps.
  * `CreateDiscriminantWithIteration` is HashPrimeWithIteration with the
    bitmask {0, 1, 2, length - 1}. `HashPrimeWithBitmask` holds that
    general loop, and `HashPrimeBlob` the candidate filled from
    ceil(length / DigestBits) digests. `DiscriminantValid` checks the D it
    returns against spec section 2: negative, 1 mod 4, |D| prime, of the
    given length.
* **StringHelpers.** A string is the sequence of its bytes.
  * `Decimal` is to_string. `ParseDecimal` stands for integer(string) and
    from_string<int>, which are library code; on the tokens the joins write,
    any base they might use reads them as decimal.
  * `TokensFrom` is the while loop the three splitters share. When `find`
    fails, for an empty delimiter or one that overlaps itself, `now` never
    moves and the loop never ends; the model returns `Hang`.
  * `split` drops empty tokens, and so does `split2integer`. `split2int`
    keeps them and parses each one, and an empty token gives
    `ParseFailure`. In `split2integer`, a token worth 0 is imported as
    bytes, so "0" reads as 48.
  * The joins are defined for non-empty lists. On an empty one, `size() - 1`
    wraps, and the loop reads out of bounds.
* **IterationLoop.**
  * The int counter and the uint64_t bound are scaled to `IntBits = 5` and
    `UIntBits = 7`.
  * `i < num_iterations` converts i to unsigned (`AsUInt64`).
  * `i++` past INT_MAX is undefined behaviour. The model covers both
    outcomes a build can give, as the constant set `Builds`:
    * `"wrap"`: two's-complement wrap-around;
    * `"widen"`: the counter kept in a 64-bit register.

## Runs

| run | expect | what it shows |
|---|---|---|
| `honest` | pass | Batches of 1 or 2, T in {0, 1, 5, 6}, 1, 2 or 4 threads, blobs unchanged. The verifier accepts (`Completeness`). No call hangs (`EveryCallReturns`). Under every interleaving each `gs` slot is written once and only once before the join (`NoSharedSlotWrite`). `TypeOK`. |
| `adversary` | pass | Batches of 0, 1 or 2. A dishonest prover changes a y and its a_iter, and changes or forges the proof and b_iter. The threaded verifier implements the atomic one (`VerifierRefinesAtomic`). Under every interleaving and thread count it returns the one-thread verdict, and it hangs exactly when one thread would. |
| `forge_a_iter` | violation | An a_iter pointing at a composite candidate makes H_GFast return the identity, so y = identity is accepted. |
| `tamper_b_iter` | violation | A lowered b_iter is accepted. HashPrimeFast skips with `<`, so any b_iter up to the true index lands on the same prime. |
| `empty_batch` | violation | aggvdf_prove on an empty batch never returns. The empty digest has no byte to increment, and its one candidate is composite. This also holds for real SHA-256: SHA-256("") with bits 263 and 0 set fails Miller-Rabin. |
| `verifier_hang` | violation | A y blob whose a_iter is 0 or points at a prime non-residue stalls a phase-1 worker forever. |
| `reference_laws` | pass | Eight laws hold on all inputs of the set: `EncodingLaw`, `PrimeSproutIsCounter`, `PowQuotientLaw` for B from 2 to 20, `BlobRoundTrip`, `HGWalkFullPeriod`, `JoinSplitA_iters`, `JoinSplitYs` and `DiscriminantValid`. |
| `seed_truncation` | violation | The challenge bytes `00` and `01 00 00`, imported as 0 and 65536, get the same two-byte H_G seed (`ChallengeSeedsDistinct`), so they share a generator and an output. |
| `blob_suffix_unsigned` | violation | The suffix `00 00 00 80` is read as -2^31 (`SuffixIsUnsigned`). A negative a_iter hangs H_GFast; a negative b_iter is accepted. |
| `loop_counter` | pass | Under weak fairness the loop terminates for every T, even when i++ wraps (`Terminates`). |
| `exp_chain` | violation | exp returns \|b\|. The bytes of (2,1,6)^2 = (3,-1,4) come back as 3, 1, 4, and exp reads them as (3,1,4), the inverse (`ExpChainsCompose`). Chained calls then raise the wrong form. A negative b cannot be passed in at all. |
| `loop_counter_wrap` | violation | In a build that wraps, T = INT_MAX + 2 ends after INT_MAX + 1 squarings (`SquaresT`). Scaled back, T > 2^31 gives 2^31 squarings, and y is not g^(2^T). |

Each property of a passing run has a mutant in `PROJECT.json` that TLC
catches:

* a composition without reduction;
* HashPrimeFast skipping with `<=`;
* H_GFast testing one candidate late;
* ranges rounded up without the last-worker case;
* alpha indexed from the worker's own range start;
* a negative value complemented without the `- 1`;
* a sprout increment without carry;
* an H_G increment that starts at the second-to-last byte;
* a split token cut one byte short;
* joinYs without the "," after each b;
* a discriminant bitmask without bit 1;
* PowFormWithQuotient adding g only when 2r > B;
* the suffix parsed big-endian;
* the loop comparison made in int.

### Divergences found while modelling that have no run

Each of these is a single comparison, and the run budget is spent on the
ones that matter more.

* **Digest layout.** s interleaves g_i and y_i. Spec sections 4.5 and 5,
  and the code's own comment, put all g first. The prover and the verifier
  agree with each other, so the round trip (`Completeness`) is unaffected.
* **Seed width.** `int_size` is `(D.num_bits() + 16) >> 4`, which rounds
  down. Spec section 4.1 says ceil((bits + 16) / 16). The two agree only
  when bits(|D|) is a multiple of 16, as it is for a 1024-bit D.
* **H_G sprout.** The H_G sprout increment does not carry: `<<0, 0>>`
  steps to `<<1, 1>>`. Spec section 9 calls it carry-propagating; in the
  code it is the hash-to-prime increment that carries. `HGWalkFullPeriod`
  shows that this is harmless: the walk is still one cycle through all
  256^len sprouts, so H_G never revisits a candidate before the space is
  exhausted.
* **"0" in split2integer.** A token "0" becomes 48. Valid forms never have
  a zero coefficient, and nothing calls the helper.
* **B = 1.** PowFormWithQuotient with B = 1 returns g^(2^(T-1)), not
  g^floor(2^T / 1), because r starts at 1 unreduced: the first step finds
  2r >= B, multiplies g in and leaves r = 0, and every later step only
  squares. Spec section 8.6 states the law for every B > 0. The callers
  only pass 264-bit primes.

## Bounds and why they suffice

* **Discriminant.** D = -32987 gives int_size = 2, so H_G seeds are two
  bytes and the non-carrying increment matters. D mod 3 and D mod 7 are
  residues and D mod 11 is not, so the H_G candidates {3, 7, 11, 15} cover
  the four cases: accepted, accepted, prime non-residue, composite.
* **Challenges.** The challenges {0, 1, 3} have first accepted candidates
  at indices 4, 1 and 3, preceded by non-residues and composites. Tampered
  a_iters 0..4 therefore reach every branch of H_GFast.
* **Group.** M is prime, so every non-zero alpha is invertible.
  * M = 5 in every run on AggVdf but `adversary`.
  * The `adversary` run uses M = 3. The altered forms range over the
    whole group, and every tampering choice multiplies the worker
    interleavings that follow it. With 3 elements an altered y still
    differs from the honest one, and the refinement check and its mutant
    stay well inside the time budget.
* **T.** T in {0, 1, 5, 6} makes PowFormWithQuotient add g on some steps
  and not on others, for primes B in 17..31.
* **Threads and batches.** 1, 2 and 4 threads with batches of 0 to 2 give
  ranges that are empty, single and split. 4 is the value the binding uses.
* **Loop widths.** IntBits = 5 and UIntBits = 7 keep the two facts that
  matter: int is narrower than the uint64_t bound, and T ranges past
  INT_MAX + 1. With T up to 127, every T on either side of INT_MAX = 15 is
  checked.
* **exp.** D = -47 has class number 5. Two of its reduced forms have
  b < 0, and neither is its own inverse. Exponents
  are {1, 2, 3, 256}; 256 needs two bytes. Lists have 0 to 2 exponents,
  so the loop runs zero, one and two times. The start is every form a
  caller can write, those with b >= 0.
* **Reference inputs.**
  * Encoding: x in -260..260 plus ints at every byte boundary, with widths
    1 to 3, so every width truncates some of them.
  * Sprout: seeds of 1 to 3 bytes over {0, 1, 254, 255}, advanced up to 3
    times, so carries start, stop and wrap.
  * PowFormWithQuotient: every g, T up to 8, and B from 2 to 20.
  * Blobs: ints at every byte and sign boundary.
  * Seeds: byte strings of 1 to 3 bytes over {0, 1, 255}, shorter than,
    equal to and longer than int_size = 2.
  * Walk: seeds `<<0>>`, `<<255>>`, `<<0, 0>>` and `<<7, 255>>`, each
    walked through all 256 or 65536 increments.
  * Splitters: lists of 1 to 3 ints over {-12, -1, 0, 7, 10}, and 1 or 2
    forms with a in {1, 10, 13} and b in {-11, -1, 1, 9}. These cover
    signs, one and two digits, and the zero that from_string reads.
  * Discriminant: lengths 6 and 8 (one and a half, and two, 4-bit
    digests), seeds of 1 and 2 bytes. `RefSha` varies with every sprout,
    so candidates differ and some searches need several tries.

## Fairness and termination

`AggVdf` assumes no fairness. Its actions evaluate the hash walks, and
TLC's ENABLED checks re-evaluate them without caching. Termination is
checked as a safety property instead:

* an endless loop of the code is an explicit transition into a `proveHung`
  or `verifyHung` state, which the invariants `EveryCallReturns` and
  `VerifyReturns` forbid;
* every other path ends in `Done`;
* deadlock checking is on, so a join that waits for a worker that never
  posts would be reported.

`IterationLoop` is cheap and has a liveness property.
* `FairSpec` adds weak fairness on the loop's step: the function runs on a
  thread the OS keeps scheduling, and nothing in the loop blocks.
* Its history counter `squarings` is kept exactly up to 2^UIntBits. No loop
  with a uint64_t bound iterates more often, so the state space is finite
  even for a loop that never ends.

## Not modelled, and why

* **Mismatched list lengths.** Challenge and y lists of different lengths
  (`fastvdf.cpp:201`) make the code read out of bounds. That has no defined
  outcome to model.
* **Blob parsing inside AggVdf.** `AggVdf` carries a_iter and b_iter as
  integers. The blob layer is checked on its own in `Blobs` and
  `ReferenceLaws`. Its effect is a negative a_iter or b_iter, and in
  H_GFast and HashPrimeFast that behaves exactly like the value 0, which
  the adversary already sends.
* **Python objects without the GIL.** Every binding casts its list
  arguments after releasing the GIL (fastvdf.cpp:133, 159, 196-197,
  245-246). That is this repository's code, but the race it opens is on
  the list storage and reference counts of the interpreter, with a second
  Python thread mutating the argument. No module models the interpreter,
  so it is listed as a hazard without a property.
* **Thread failure.** Thread-creation failure and exceptions in workers end
  in `std::terminate`. Allocation failure is outside TLC's reach.
* **Wesolowski bindings.** `create_discriminant`, `verify_wesolowski`,
  `verify_n_wesolowski`, `prove`, `verify_n_wesolowski_with_b` and
  `get_b_from_n_wesolowski` each make one call into library code outside
  this repository, with no control of their own to model.
* **Timing macros.** They only print elapsed times.
* **A fork-join liveness module.** Without data it would only restate that
  a bounded loop ends. The join's real failure, a worker that never
  returns, is checked as the safety property `VerifyReturns`.
