----------------------------- MODULE MC_AggVdf -----------------------------
(***************************************************************************)
(* Instantiation of AggVdf for TLC.                                        *)
(*                                                                         *)
(* MCSha stands for SHA-256: a fixed mixing of the bytes into a 4-bit      *)
(* digest.  On the empty input it gives the digest whose 264-bit candidate *)
(* is composite, as SHA-256 of the empty string does: the candidate        *)
(* e3b0c442...55 || e3 with bits 263 and 0 set fails Miller-Rabin.         *)
(* MCFormOf maps an accepted (a, b) to a non-identity element, as          *)
(* form::from_abd does for a prime a far below sqrt(|D|).                  *)
(***************************************************************************)
EXTENDS AggVdf

(***************************************************************************)
(* -32987: |D| is a 16-bit prime, so int_size = 2 and H_G seeds are two    *)
(* bytes; D = 1 mod 4; D mod 3 and D mod 7 are quadratic residues and D    *)
(* mod 11 is not, so among the candidates a in {3, 7, 11, 15} of H_G two   *)
(* are accepted, one is a prime non-residue and one is composite.          *)
(***************************************************************************)
MCD == -32987

MCSha(bytes) ==
  IF bytes = <<>> THEN 10
  ELSE FoldLeft(LAMBDA h, x : (h * 37 + x * 11 + 5) % 65521, 3, bytes) % 16

\* The digests s of batches of the model's sizes
MCPrimeSeeds == UNION {[1 .. 2 * k -> Forms] : k \in BatchSizes}

MCFormOf(a, b) == ((a * 3 + b) % (M - 1)) + 1

\* Every challenge of the model finds its generator within SearchBound, and
\* every digest of one or two VDFs finds its prime: the bound is never the
\* reason a call does not return.
ASSUME \A c \in Challenges : H_G(c) # Hang
ASSUME \A dg \in PrimeSeeds \ {<<>>} : HashPrimeWithIteration(dg) # Hang
ASSUME \A dg \in PrimeSeeds \ {<<>>}, b \in BIters : HashPrimeFast(dg, b) # Hang
=============================================================================
