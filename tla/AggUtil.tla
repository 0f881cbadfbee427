------------------------------ MODULE AggUtil ------------------------------
(***************************************************************************)
(* The algorithms of src/chaivdf/src/aggvdf/aggutil.h as operators:        *)
(* byte encodings, the sprout walk, hash-to-group (H_G, H_GFast) and       *)
(* hash-to-prime (HashPrimeWithIteration, HashPrimeFast).                  *)
(*                                                                         *)
(* Data abstraction.  SHA-256 is the constant operator Sha, from byte      *)
(* sequences to DigestBits-bit digests.  A 256-bit candidate is one digest;*)
(* the 264-bit Fiat-Shamir candidate is one digest followed by the leading *)
(* ExtraBits bits of a second one (32 bytes plus 1 byte in the code).      *)
(* Candidates are small integers tested for primality exactly, and the     *)
(* quadratic-residue test and square root of H_G are computed exactly.     *)
(* form::from_abd(a, b, D) is the constant operator FormOf.  The loops     *)
(* that run until they find a candidate are followed for at most           *)
(* SearchBound candidates; a loop that finds none there returns Hang.      *)
(* The walks are tabulated once, over the challenges and the prime seeds   *)
(* the model uses, so that TLC evaluates each sprout walk a single time.   *)
(***************************************************************************)
EXTENDS Integers, Sequences, SequencesExt, ClassGroup

CONSTANTS
  Sha(_),        \* picosha2::hash256 of a byte sequence
  FormOf(_, _),  \* form::from_abd(a, b, D)
  D,             \* the (negative) discriminant
  DigestBits,    \* bits of one digest
  ExtraBits,     \* bits taken from the second digest of a 264-bit candidate
  SearchBound,   \* candidates followed by the model before giving up
  Challenges,    \* challenge integers hashed to the group
  PrimeSeeds,    \* byte strings hashed to a prime
  Hang           \* model value: the result of a loop that never returns

ASSUME D < 0 /\ DigestBits >= 3 /\ ExtraBits \in 1 .. DigestBits
ASSUME SearchBound \in Nat \ {0}

\* D.num_bits() (the magnitude's bit length)
RECURSIVE NumBits(_)
NumBits(x) == IF x = 0 THEN 0 ELSE 1 + NumBits(x \div 2)

\* int_size in H_G and H_GFast: (D.num_bits() + 16) >> 4
IntSize == (NumBits(-D) + 16) \div 16

\* integer::set_bit(b, true)
SetBit(x, b) == IF (x \div 2^b) % 2 = 1 THEN x ELSE x + 2^b

IsPrime(n) == n > 1 /\ \A d \in 2 .. n - 1 : n % d # 0

\* FastPowMod(base, exp, mod): mpz_powm
PowMod(base, e, mod) == (base ^ e) % mod

(***************************************************************************)
(* ConvertIntegerToBytes2(x, num_bytes): num_bytes big-endian bytes; a     *)
(* negative x is encoded as the bitwise complement of |x| - 1.  Only the   *)
(* low num_bytes bytes of the magnitude are kept.                          *)
(***************************************************************************)
\* Mutant: a negative x complemented without first subtracting 1.
ConvertIntegerToBytes2NoDecrement(x, n) ==
  LET neg == x < 0
      v   == IF neg THEN -x ELSE x
      byte(j) == (v \div 256^(n - j)) % 256
  IN  [j \in 1 .. n |-> IF neg THEN 255 - byte(j) ELSE byte(j)]

ConvertIntegerToBytes2(x, n) ==
  LET neg == x < 0
      v   == IF neg THEN -x - 1 ELSE x
      byte(j) == (v \div 256^(n - j)) % 256
  IN  [j \in 1 .. n |-> IF neg THEN 255 - byte(j) ELSE byte(j)]

\* int2bytes(value): the 4 bytes of value, most significant first
Int2Bytes(i) == [j \in 1 .. 4 |-> (i \div 2^(8 * (4 - j))) % 256]

(***************************************************************************)
(* One "Increment sprout by 1" loop.  From the last byte backwards, each   *)
(* byte is incremented modulo 256, and the loop breaks when the byte just  *)
(* incremented is zero (breakOnZero, as in H_G and H_GFast: `if            *)
(* (!sprout[i]) break;`) or non-zero (as in HashPrimeWithIteration and     *)
(* HashPrimeFast: `if (sprout[i]) break;`).  So the loop increments the    *)
(* bytes from the last one at which it breaks to the end: the last byte    *)
(* that was 255 (breakOnZero) or was not 255 (carrying), or every byte if  *)
(* there is none.  An empty sprout is unchanged.                           *)
(***************************************************************************)
\* Mutant: only the last byte is incremented; nothing carries.
IncrementSproutLastByte(s, breakOnZero) ==
  [i \in DOMAIN s |-> IF i = Len(s) THEN (s[i] + 1) % 256 ELSE s[i]]

\* Mutant: the loop starts at sprout.size() - 2, so the last byte is never
\* incremented.
IncrementSproutSkipLast(s, breakOnZero) ==
  LET stops == {i \in 1 .. Len(s) - 1 : (s[i] = 255) = breakOnZero}
      from  == IF stops = {} THEN 1 ELSE Max(stops)
  IN  [i \in DOMAIN s |-> IF from <= i /\ i < Len(s) THEN (s[i] + 1) % 256 ELSE s[i]]

IncrementSprout(s, breakOnZero) ==
  LET stops == {i \in DOMAIN s : (s[i] = 255) = breakOnZero}
      from  == IF stops = {} THEN 1 ELSE Max(stops)
  IN  [i \in DOMAIN s |-> IF i >= from THEN (s[i] + 1) % 256 ELSE s[i]]

\* The sprout after k increments of the seed.  The previous sprout is the
\* single point of the domain of next, so that TLC computes it once however
\* often the increment reads it.
RECURSIVE Sprout(_, _, _)
Sprout(seed, k, breakOnZero) ==
  IF k = 0 THEN seed
  ELSE LET next[p \in {Sprout(seed, k - 1, breakOnZero)}] ==
             IncrementSprout(p, breakOnZero)
       IN  next[CHOOSE p \in DOMAIN next : TRUE]

(***************************************************************************)
(* Hash-to-group.  Candidate ii (1-based) hashes the seed incremented ii   *)
(* times, forces bits 0 and 1 (a = 3 mod 4) and is accepted when a is      *)
(* prime and D mod a is a quadratic residue; b is then the square root     *)
(* k^((a+1)/4) mod a, made odd.  The outcome of a candidate is a record:   *)
(* its kind ("composite", "nonresidue" or "form") and the form if any.     *)
(***************************************************************************)
HGSeed(challenge) == ConvertIntegerToBytes2(challenge, IntSize)

HGCandidate(challenge, ii) ==
  SetBit(SetBit(Sha(Sprout(HGSeed(challenge), ii, TRUE)), 0), 1)

HGOutcome(challenge, ii) ==
  LET a == HGCandidate(challenge, ii)
      k == D % a
  IN  IF ~IsPrime(a) THEN [kind |-> "composite", form |-> Identity]
      ELSE IF PowMod(k, (a - 1) \div 2, a) # 1
           THEN [kind |-> "nonresidue", form |-> Identity]
      ELSE LET b == PowMod(k, (a + 1) \div 4, a)
           IN  [kind |-> "form", form |-> FormOf(a, IF b % 2 = 0 THEN a - b ELSE b)]

HGWalk == [c \in Challenges |-> [ii \in 1 .. SearchBound |-> HGOutcome(c, ii)]]

\* H_G(challenge, D) = <<g, a_iter>>: the first accepted candidate.
H_G(challenge) ==
  LET found == {ii \in 1 .. SearchBound : HGWalk[challenge][ii].kind = "form"}
  IN  IF found = {} THEN Hang
      ELSE LET ii == Min(found) IN <<HGWalk[challenge][ii].form, ii>>

\* Mutant: the candidate test one iteration late (ii++ after the test).
H_GFastNextCandidate(challenge, aIter) ==
  IF aIter + 1 \notin 1 .. SearchBound THEN Hang
  ELSE LET o == HGWalk[challenge][aIter + 1]
       IN  CASE o.kind = "composite"  -> Identity
             [] o.kind = "nonresidue" -> Hang
             [] o.kind = "form"       -> o.form

(***************************************************************************)
(* H_GFast(challenge, D, a_iter) walks the same sprouts and looks only at  *)
(* candidate a_iter: a composite gives the identity, an accepted one its   *)
(* form, and a prime non-residue falls through to the next candidate, so   *)
(* ii never equals a_iter again and the loop never returns.  Neither does  *)
(* it when a_iter < 1.                                                     *)
(***************************************************************************)
H_GFast(challenge, aIter) ==
  IF aIter \notin 1 .. SearchBound THEN Hang
  ELSE LET o == HGWalk[challenge][aIter]
       IN  CASE o.kind = "composite"  -> Identity
             [] o.kind = "nonresidue" -> Hang
             [] o.kind = "form"       -> o.form

(***************************************************************************)
(* Hash-to-prime with length 264 and bitmask {263}.  Candidate k uses the  *)
(* sprouts after 2k-1 and 2k (carrying) increments: the first digest in    *)
(* full and the leading ExtraBits bits of the second, then the top bit and *)
(* bit 0 forced.  iteration_to_find_prime counts candidates from 1.        *)
(***************************************************************************)
PrimeLength == DigestBits + ExtraBits

HPCandidate(seed, k) ==
  LET d1 == Sha(Sprout(seed, 2 * k - 1, FALSE))
      d2 == Sha(Sprout(seed, 2 * k, FALSE))
      blob == d1 * 2^ExtraBits + d2 \div 2^(DigestBits - ExtraBits)
  IN  SetBit(SetBit(blob, PrimeLength - 1), 0)

HPWalk == [seed \in PrimeSeeds |-> [k \in 1 .. SearchBound |-> HPCandidate(seed, k)]]

\* HashPrimeWithIteration(seed, 264, {263}) = <<B, b_iter>>
HashPrimeWithIteration(seed) ==
  LET found == {k \in 1 .. SearchBound : IsPrime(HPWalk[seed][k])}
  IN  IF found = {} THEN Hang
      ELSE LET k == Min(found) IN <<HPWalk[seed][k], k>>

\* Mutant: `<=` for `<`, skipping the candidate at skip_to_iteration.
HashPrimeFastStrict(seed, skip) ==
  LET found == {k \in 1 .. SearchBound :
                  k > skip /\ IsPrime(HPWalk[seed][k])}
  IN  IF found = {} THEN Hang ELSE HPWalk[seed][Min(found)]

\* HashPrimeFast(seed, 264, {263}, skip): the first prime candidate whose
\* index is not below skip (`iteration_to_find_prime < skip_to_iteration`).
HashPrimeFast(seed, skip) ==
  LET found == {k \in 1 .. SearchBound :
                  k >= skip /\ IsPrime(HPWalk[seed][k])}
  IN  IF found = {} THEN Hang ELSE HPWalk[seed][Min(found)]

(***************************************************************************)
(* HashPrimeWithIteration for any length and bitmask.  Candidate k fills   *)
(* its blob from the next ceil(length / DigestBits) carrying increments of *)
(* the sprout, the last digest cut to the bits still missing; the bitmask  *)
(* bits and bit 0 are set, and the first prime candidate is returned with  *)
(* its index.                                                              *)
(***************************************************************************)
HashPrimeBlob(seed, k, length) ==
  LET nd == (length + DigestBits - 1) \div DigestBits
      part(j) ==
        LET d == Sha(Sprout(seed, (k - 1) * nd + j, FALSE))
        IN  IF j * DigestBits <= length THEN d * 2^(length - j * DigestBits)
            ELSE d \div 2^(j * DigestBits - length)
  IN  FoldLeft(LAMBDA acc, j : acc + part(j), 0, [j \in 1 .. nd |-> j])

HashPrimeWithBitmask(seed, length, bitmask) ==
  LET cand(k) == SetBit(FoldLeft(SetBit, HashPrimeBlob(seed, k, length), bitmask), 0)
      found   == {k \in 1 .. SearchBound : IsPrime(cand(k))}
  IN  IF found = {} THEN Hang ELSE <<cand(Min(found)), Min(found)>>

\* Mutant: bit 1 is left out of the bitmask.
CreateDiscriminantWithIterationNoBit1(seed, length) ==
  LET r == HashPrimeWithBitmask(seed, length, <<0, 2, length - 1>>)
  IN  IF r = Hang THEN Hang ELSE <<-r[1], r[2]>>

\* CreateDiscriminantWithIteration(seed, length): D = -p for the prime p
\* hashed with bitmask {0, 1, 2, length - 1}, and the iteration that found it.
CreateDiscriminantWithIteration(seed, length) ==
  LET r == HashPrimeWithBitmask(seed, length, <<0, 1, 2, length - 1>>)
  IN  IF r = Hang THEN Hang ELSE <<-r[1], r[2]>>
=============================================================================
