------------------------- MODULE MC_ReferenceLaws -------------------------
(***************************************************************************)
(* Instantiation of ReferenceLaws for TLC: the input sets of the laws.     *)
(* The laws do not hash, so Sha and FormOf are constant operators; D is    *)
(* the discriminant of MC_AggVdf, whose int_size is 2.                     *)
(***************************************************************************)
EXTENDS ReferenceLaws

RefD == -32987
\* A stand-in digest of DigestBits bits that differs between sprouts
RefSha(bytes) == (FoldLeft(LAMBDA acc, b : acc * 7 + b, 3, bytes) * 11) % 16
RefFormOf(a, b) == 0

\* int values at the byte and sign boundaries, and around zero
Int32Samples ==
  (-3 .. 3) \cup {2^k - 1 : k \in {7, 8, 15, 16, 23, 24}}
            \cup {2^k : k \in {7, 8, 15, 16, 23, 24}}
            \cup {-(2^k) : k \in {7, 8, 15, 16, 23, 24}}
            \cup {2147483647, -2147483647 - 1}  \* INT_MAX, INT_MIN

\* x for ConvertIntegerToBytes2: small values, and values one to three
\* bytes wide of either sign, so that every width truncates some of them
\* (INT_MIN is left out: its magnitude is beyond TLC's integers)
EncodingInputs ==
  [law : {"encoding"}, x : (-260 .. 260) \cup (Int32Samples \ {-2147483647 - 1}), n : 1 .. 3]

\* Challenge byte strings of 1 to 3 bytes, below, at and above int_size,
\* with and without leading zeros
SeedInputs ==
  LET cs == UNION {[1 .. len -> {0, 1, 255}] : len \in 1 .. 3}
  IN  [law : {"seeds"}, c1 : cs, c2 : cs]

\* H_G walks from one- and two-byte seeds, with and without 255 bytes
WalkInputs ==
  {[law |-> "walk", seed |-> s, sprout |-> s, steps |-> 0] :
     s \in {<<0>>, <<255>>, <<0, 0>>, <<7, 255>>}}

\* Seeds of 1 to 3 bytes over the bytes where carries start and stop
SproutInputs ==
  [law : {"sprout"},
   seed : UNION {[1 .. len -> {0, 1, 254, 255}] : len \in 1 .. 3}, k : 0 .. 3]

\* Every form, T up to 8, B from 2 to 20 (primes and composites)
PowInputs == [law : {"pow"}, g : Forms, t : 0 .. 8, b : 2 .. 20]

\* Form byte strings of 0 to 3 bytes and int suffixes
BlobInputs == [law : {"blob"}, f : {<<>>, <<7>>, <<0, 255>>, <<128, 1, 2>>}, i : Int32Samples]

\* Four-byte suffixes over bytes at the sign boundary
SuffixInputs == [law : {"suffix"}, blob : [1 .. 4 -> {0, 1, 127, 128, 255}]]

\* The inputs of the laws that hold
\* Lists of one to three ints of either sign, zero and several digits
AIterInputs ==
  [law : {"aiters"}, list : UNION {[1 .. n -> {-12, -1, 0, 7, 10}] : n \in 1 .. 3}]

\* Lists of one and two forms with a > 0 and odd b, of one and two digits
YsInputs ==
  [law : {"ys"}, list : UNION {[1 .. n -> [a : {1, 10, 13}, b : {-11, -1, 1, 9}]] : n \in 1 .. 2}]

\* Discriminants of 6 and 8 bits (one and a half, and two digests) from
\* seeds of one and two bytes
DiscInputs ==
  [law : {"disc"}, seed : UNION {[1 .. n -> {0, 1, 255}] : n \in 1 .. 2}, len : {6, 8}]

LawInputs ==
  EncodingInputs \cup SproutInputs \cup PowInputs \cup BlobInputs \cup WalkInputs
    \cup AIterInputs \cup YsInputs \cup DiscInputs
=============================================================================
