-------------------------------- MODULE Blobs --------------------------------
(***************************************************************************)
(* The blobs of the Python bindings (src/chaivdf/src/python_bindings/      *)
(* fastvdf.cpp): a serialized form followed by a 4-byte little-endian      *)
(* a_iter or b_iter.  The form bytes are kept as they are; SerializeForm   *)
(* and DeserializeForm are library code.  Bytes are integers in 0 .. 255:  *)
(* the code reads them as char and masks each with 0xff.                   *)
(***************************************************************************)
EXTENDS Integers, Sequences, SequencesExt

CONSTANT BlobError  \* model value: the exception a malformed blob raises

\* serialized.push_back(iters & 0xff), ((iters >> 8) & 0xff), ... >> 24:
\* the two's-complement bytes of an int, least significant first.
AppendLE32(bytes, i) == bytes \o [k \in 1 .. 4 |-> (i \div 2^(8 * (k - 1))) % 256]

\* mpz_import(x.impl, s.size(), 1, 1, 1, 0, s.data()): the challenge and D
\* byte strings, most significant byte first, as an unsigned integer
MpzImport(bytes) == FoldLeft(LAMBDA acc, b : acc * 256 + b, 0, bytes)

\* The int the code computes from four bytes, least significant first: the
\* shift << 24 of a last byte >= 128 lands in the sign bit, which weighs
\* -2^31.
Int32OfBytes(b1, b2, b3, b4) ==
  b1 + 256 * b2 + 65536 * b3 + 16777216 * (IF b4 >= 128 THEN b4 - 256 ELSE b4)

\* Mutant: the four suffix bytes read most significant first.
ParseLE32BigEndian(blob, off) ==
  Int32OfBytes(blob[off + 4], blob[off + 3], blob[off + 2], blob[off + 1])

\* (y[off] & 0xff) | ((y[off+1] & 0xff) << 8) | ... | ((y[off+3] & 0xff) << 24)
ParseLE32(blob, off) ==
  Int32OfBytes(blob[off + 1], blob[off + 2], blob[off + 3], blob[off + 4])

(***************************************************************************)
(* int offset = blob.size() - 4; the suffix is parsed, then                *)
(* blob.resize(offset) leaves the form bytes.  On a blob shorter than 4    *)
(* bytes offset is negative: the reads before it are out of bounds and     *)
(* resize(size_t(offset)) throws std::length_error, which pybind11 raises  *)
(* in Python.                                                              *)
(***************************************************************************)
SplitBlob(blob) ==
  IF Len(blob) < 4 THEN BlobError
  ELSE <<SubSeq(blob, 1, Len(blob) - 4), ParseLE32(blob, Len(blob) - 4)>>
=============================================================================
