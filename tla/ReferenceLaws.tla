---------------------------- MODULE ReferenceLaws ----------------------------
(***************************************************************************)
(* The pure algorithms of aggutil.h, aggvdf.h and fastvdf.cpp checked      *)
(* against reference definitions written from the laws spec.md states for  *)
(* them.  The state is one input, chosen in Init from the constant set     *)
(* Inputs and never changed, so that TLC evaluates the laws on every input *)
(* of the set.  An input is a record whose field law names the law that    *)
(* reads it.  A "walk" input is the exception: it advances an H_G sprout   *)
(* one increment per step, through the whole space of its width.           *)
(***************************************************************************)
EXTENDS AggProof, StringHelpers

CONSTANT Inputs

VARIABLE input

Init == input \in Inputs

\* A pure function keeps its input; there is nothing else to do.
Hold == UNCHANGED input

\* One "Increment sprout by 1" of H_G's search loop, counted, for at most
\* 256^len(seed) increments.
Advance ==
  /\ input.law = "walk"
  /\ input.steps < 256^Len(input.seed)
  /\ input' = [input EXCEPT !.sprout = IncrementSprout(@, TRUE),
                            !.steps = @ + 1]

Next == Hold \/ Advance

Spec == Init /\ [][Next]_input

----------------------------------------------------------------------------
(* Reference definitions. *)

\* Unsigned big-endian value of a byte sequence
BEValue(bytes) == FoldLeft(LAMBDA acc, b : acc * 256 + b, 0, bytes)

\* An unsigned value of nb bytes read as two's complement
SignedOfWidth(u, nb) == IF u >= 2^(8 * nb - 1) THEN u - 2^(8 * nb) ELSE u

\* decode_int_be of spec section 8.8
\* The coefficients of a list of forms, a1, b1, a2, b2, ...
Coefficients(ys) ==
  [k \in 1 .. 2 * Len(ys) |-> IF k % 2 = 1 THEN ys[(k + 1) \div 2].a ELSE ys[k \div 2].b]

DecodeIntBE(bytes) == SignedOfWidth(BEValue(bytes), Len(bytes))

\* Spec section 4.2: the sprout advances by one modulo 2^(8 len(seed)).
SproutCounts(breakOnZero) ==
  BEValue(Sprout(input.seed, input.k, breakOnZero))
    = (BEValue(input.seed) + input.k) % 256^Len(input.seed)

----------------------------------------------------------------------------
(* Laws. *)

(***************************************************************************)
(* Encoding law (spec section 8.8): ConvertIntegerToBytes2(x, n), which    *)
(* seeds H_G, decodes as signed big-endian to x mod 2^(8n): negative       *)
(* challenges are two's complement, not sign and magnitude.                *)
(***************************************************************************)
EncodingLaw ==
  input.law = "encoding" =>
    DecodeIntBE(ConvertIntegerToBytes2(input.x, input.n))
      = SignedOfWidth(input.x % 256^input.n, input.n)

(***************************************************************************)
(* Seeds never collide (spec section 4.1: "silent truncation is a bug"):   *)
(* the challenges the bindings import from Python bytes (mpz_import, so    *)
(* never negative) are seeded into H_G as distinct byte strings of         *)
(* int_size bytes, so that no two challenges share a generator and output. *)
(***************************************************************************)
ChallengeSeedsDistinct ==
  LET c1 == MpzImport(input.c1)
      c2 == MpzImport(input.c2)
  IN  input.law = "seeds" /\ c1 # c2 => HGSeed(c1) # HGSeed(c2)

(***************************************************************************)
(* HashPrimeWithIteration and HashPrimeFast advance their sprout as a      *)
(* carrying counter (spec section 4.2, the determinism contract).          *)
(***************************************************************************)
PrimeSproutIsCounter == input.law = "sprout" => SproutCounts(FALSE)

(***************************************************************************)
(* H_G's search never comes back to its seed early: its increment, which  *)
(* is not a counter (see HGSproutIsCounter in the README), still visits    *)
(* all 256^len sprouts before it repeats one.  A shorter cycle without an  *)
(* accepted candidate would make H_G, and H_GFast, loop forever.           *)
(***************************************************************************)
HGWalkFullPeriod ==
  input.law = "walk" /\ input.steps > 0 /\ input.sprout = input.seed =>
    input.steps = 256^Len(input.seed)

(***************************************************************************)
(* PowFormWithQuotient law (spec section 8, property 6):                   *)
(* PowFormWithQuotient(g, D, T, B) = g^floor(2^T / B).  The spec states it *)
(* for B > 0; the code keeps it for B >= 2, since r starts at 1 and not at *)
(* 1 mod B, and its callers pass 264-bit primes.                           *)
(***************************************************************************)
PowQuotientLaw ==
  input.law = "pow" =>
    PowFormWithQuotient(input.g, input.t, input.b)
      = PowForm(input.g, 2^input.t \div input.b)

(***************************************************************************)
(* The blob round trip of aggvdf_eval/aggvdf_prove and aggvdf_prove/       *)
(* aggvdf_verify: the form bytes and the int a_iter or b_iter appended by  *)
(* the producer are what the consumer splits the blob back into.           *)
(***************************************************************************)
BlobRoundTrip ==
  input.law = "blob" =>
    SplitBlob(AppendLE32(input.f, input.i)) = <<input.f, input.i>>

(***************************************************************************)
(* The a_iter and b_iter suffix is read as little-endian unsigned 32-bit   *)
(* (spec section 6): the a_iter or b_iter the consumer reads is never      *)
(* negative, whatever the four suffix bytes are.                          *)
(***************************************************************************)
SuffixIsUnsigned ==
  input.law = "suffix" /\ Len(input.blob) >= 4 => SplitBlob(input.blob)[2] >= 0

(***************************************************************************)
(* The discriminant CreateDiscriminantWithIteration derives from a seed is *)
(* one spec section 2 allows: negative, D = 1 mod 4, |D| prime and of      *)
(* exactly length bits, whenever the search returns.                       *)
(***************************************************************************)
DiscriminantValid ==
  input.law = "disc" =>
    LET r == CreateDiscriminantWithIteration(input.seed, input.len)
    IN  r # Hang =>
          /\ r[1] < 0 /\ r[1] % 4 = 1
          /\ IsPrime(-r[1]) /\ NumBits(-r[1]) = input.len

(***************************************************************************)
(* joinA_iters and split2int are inverses: reading back the text written  *)
(* for a non-empty list of ints gives the list, every token parsed by      *)
(* from_string<int> and nothing lost at the separators.                    *)
(***************************************************************************)
JoinSplitA_iters ==
  input.law = "aiters" => Split2Int(JoinA_iters(input.list), Comma) = input.list

(***************************************************************************)
(* joinYs and split2integer are inverses on the forms of a negative       *)
(* discriminant D = 1 mod 4 (a > 0 and b odd): the text written for a      *)
(* non-empty list of forms reads back as their coefficients in order.      *)
(* split2integer reads a token "0" as the integer of its byte, 48, so the  *)
(* law needs every coefficient to be non-zero, as these forms' are.        *)
(***************************************************************************)
JoinSplitYs ==
  input.law = "ys" => Split2Integer(JoinYs(input.list), Comma) = Coefficients(input.list)
=============================================================================
