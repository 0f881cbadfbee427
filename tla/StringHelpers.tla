--------------------------- MODULE StringHelpers ---------------------------
(***************************************************************************)
(* The text helpers of aggutil.h: joinYs and joinA_iters write lists as    *)
(* comma-separated decimals, and split, split2integer and split2int cut a  *)
(* string at a delimiter.  A string is a sequence of its bytes (ASCII      *)
(* codes), so that integer(std::vector<uint8_t>) of a token is the         *)
(* MpzImport of Blobs.  Numbers are written by to_string / operator<< in   *)
(* decimal, and read back by integer(string) and from_string<int>; for the *)
(* tokens these joins write (an optional '-' and digits without leading    *)
(* zeros) every base these parsers might use reads them as decimal.        *)
(***************************************************************************)
EXTENDS AggUtil, Blobs

CONSTANT ParseFailure  \* model value: from_string<int> of a non-number

Comma == <<44>>
Minus == 45
ZeroChar == 48

\* Decimal digits of a natural number, most significant first.
RECURSIVE Digits(_)
Digits(n) ==
  IF n < 10 THEN <<ZeroChar + n>> ELSE Digits(n \div 10) \o <<ZeroChar + (n % 10)>>

\* to_string() of an integer, and operator<< of an int
Decimal(n) == IF n < 0 THEN <<Minus>> \o Digits(-n) ELSE Digits(n)

IsDigit(c) == c \in ZeroChar .. ZeroChar + 9

\* The value of a token that is an optional '-' followed by digits, or
\* ParseFailure for the empty token, on which `ss >> res` fails; tokens
\* with other bytes do not come out of the joins and are not read here.
ParseDecimal(s) ==
  LET neg    == Len(s) > 0 /\ s[1] = Minus
      digits == IF neg THEN Tail(s) ELSE s
      value  == FoldLeft(LAMBDA acc, c : 10 * acc + c - ZeroChar, 0, digits)
  IN  IF digits = <<>> \/ \E i \in DOMAIN digits : ~IsDigit(digits[i])
      THEN ParseFailure
      ELSE IF neg THEN -value ELSE value

\* Mutant: the loop writes ys[i].b without the "," that follows it.
JoinYsNoPairComma(ys) ==
  FoldLeft(LAMBDA acc, y : acc \o Decimal(y.a) \o Comma \o Decimal(y.b),
           Decimal(ys[1].a) \o Comma \o Decimal(ys[1].b), Tail(ys))

\* joinYs: "a1,b1,a2,b2,...,an,bn" for a non-empty list of forms.
JoinYs(ys) ==
  FoldLeft(LAMBDA acc, y : acc \o Comma \o Decimal(y.a) \o Comma \o Decimal(y.b),
           Decimal(ys[1].a) \o Comma \o Decimal(ys[1].b), Tail(ys))

\* joinA_iters: "i1,i2,...,in" for a non-empty list of ints.
JoinA_iters(is) ==
  FoldLeft(LAMBDA acc, i : acc \o Comma \o Decimal(i), Decimal(is[1]), Tail(is))

\* strs.find(delim, now): the first position at or after now where delim
\* occurs, 0-based, or NPos.
NPos == -1
Find(strs, delim, now) ==
  LET at == {p \in now .. Len(strs) - Len(delim) :
               SubSeq(strs, p + 1, p + Len(delim)) = delim}
  IN  IF at = {} THEN NPos ELSE Min(at)

\* str.substr(pos, n): at most n bytes from 0-based position pos.
SubStr(str, pos, n) == SubSeq(str, pos + 1, IF pos + n < Len(str) THEN pos + n ELSE Len(str))

(***************************************************************************)
(* The loop the three splitters share, with strs = str + delim and size =  *)
(* |strs|: each token is str from now up to the next delim, empty tokens   *)
(* included, and now moves past that delim.  Where find fails (an empty    *)
(* delim is found where it starts, so now never moves; an overlapping      *)
(* multi-byte delim can leave fewer than |delim| bytes after the last      *)
(* match), `now` stays below size and the while loop never ends: Hang.     *)
(***************************************************************************)
RECURSIVE TokensFrom(_, _, _, _)

\* Mutant: a token stops one byte before the delimiter.
TokensFromShort(str, strs, delim, now) ==
  LET pos == Find(strs, delim, now)
  IN  IF now >= Len(strs) THEN <<>>
      ELSE IF pos = NPos \/ delim = <<>> THEN <<Hang>>
      ELSE <<SubStr(str, now, pos - now - 1)>> \o TokensFrom(str, strs, delim, pos + Len(delim))

TokensFrom(str, strs, delim, now) ==
  LET pos == Find(strs, delim, now)
  IN  IF now >= Len(strs) THEN <<>>
      ELSE IF pos = NPos \/ delim = <<>> THEN <<Hang>>
      ELSE <<SubStr(str, now, pos - now)>> \o TokensFrom(str, strs, delim, pos + Len(delim))

\* The tokens of str, or Hang; an empty str has none.
Tokens(str, delim) ==
  LET ts == IF str = <<>> THEN <<>> ELSE TokensFrom(str, str \o delim, delim, 0)
  IN  IF Hang \in Range(ts) THEN Hang ELSE ts

\* split: the non-empty tokens.
Split(str, delim) ==
  LET ts == Tokens(str, delim)
  IN  IF ts = Hang THEN Hang ELSE SelectSeq(ts, LAMBDA s : s # <<>>)

\* One token of split2integer: its number, unless the number is 0, when the
\* token's bytes are imported as a big-endian integer ("0" gives 48).
TokenInteger(s) ==
  IF ParseDecimal(s) # 0 THEN ParseDecimal(s) ELSE MpzImport(s)

\* split2integer
Split2Integer(str, delim) ==
  LET ss == Split(str, delim)
  IN  IF ss = Hang THEN Hang ELSE [k \in DOMAIN ss |-> TokenInteger(ss[k])]

\* split2int: every token, the empty ones included, through from_string<int>.
Split2Int(str, delim) ==
  LET ts == Tokens(str, delim)
  IN  IF ts = Hang THEN Hang ELSE [k \in DOMAIN ts |-> ParseDecimal(ts[k])]

=============================================================================
