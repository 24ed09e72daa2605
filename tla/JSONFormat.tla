------------------------------ MODULE JSONFormat ------------------------------
(***************************************************************************)
(* The JSON output format of the sinks (SinksParsing/JSONFormat.cpp): a    *)
(* tuple buffer becomes one line per tuple, the fields as "name":value in  *)
(* schema order.  VARSIZED fields (trajectories and other binary payloads) *)
(* are written as base64 by encodeBase64; the text of the other types     *)
(* comes from formattedBytesToString, which is not in this repository.    *)
(*                                                                         *)
(* A byte string is a sequence of integers in 0..255, a text a sequence of *)
(* one-character strings.  The line layout (braces, quotes, commas, the    *)
(* newline) is left out: a formatted tuple is its sequence of name/value   *)
(* pairs.                                                                  *)
(***************************************************************************)
EXTENDS Integers, Sequences, SequencesExt, Bitwise

kAlphabet ==
  <<"A","B","C","D","E","F","G","H","I","J","K","L","M","N","O","P","Q","R",
    "S","T","U","V","W","X","Y","Z","a","b","c","d","e","f","g","h","i","j",
    "k","l","m","n","o","p","q","r","s","t","u","v","w","x","y","z","0","1",
    "2","3","4","5","6","7","8","9","+","/">>

Pad == "="

\* kAlphabet[(block >> k) & 0x3F]
Sym(block, k) == kAlphabet[(shiftR(block, k) & 63) + 1]

\* The bytes from position idx (0-based) on, packed big-endian into the
\* high bits of a 24-bit block: input[idx] << 16 | input[idx + 1] << 8 | ...
Block(s, idx, n) ==
  LET RECURSIVE Pack(_)
      Pack(j) == IF j = n THEN 0
                 ELSE (s[idx + j + 1] * 2^(16 - 8 * j)) | Pack(j + 1)
  IN  Pack(0)

\* After the loop: one byte left gives two characters and "==", two bytes
\* three characters and "=", none nothing.
EncodeTail(s, idx) ==
  LET tail == Len(s) - idx
  IN  CASE tail = 1 -> <<Sym(Block(s, idx, 1), 18), Sym(Block(s, idx, 1), 12), Pad, Pad>>
        [] tail = 2 -> <<Sym(Block(s, idx, 2), 18), Sym(Block(s, idx, 2), 12),
                         Sym(Block(s, idx, 2), 6), Pad>>
        [] OTHER    -> <<>>

\* Fault-injection variant: the loop runs while idx + 3 < size, so a last
\* whole block is left to the tail.
RECURSIVE EncodeFromOffByOne(_, _)
EncodeFromOffByOne(s, idx) ==
  IF idx + 3 < Len(s)
    THEN LET block == Block(s, idx, 3)
         IN  <<Sym(block, 18), Sym(block, 12), Sym(block, 6), Sym(block, 0)>>
               \o EncodeFromOffByOne(s, idx + 3)
    ELSE EncodeTail(s, idx)

\* while (idx + 2 < size): four characters for each three bytes, then the
\* tail.
RECURSIVE EncodeFrom(_, _)
EncodeFrom(s, idx) ==
  IF idx + 2 < Len(s)
    THEN LET block == Block(s, idx, 3)
         IN  <<Sym(block, 18), Sym(block, 12), Sym(block, 6), Sym(block, 0)>>
               \o EncodeFrom(s, idx + 3)
    ELSE EncodeTail(s, idx)

EncodeBase64(s) == IF s = <<>> THEN <<>> ELSE EncodeFrom(s, 0)

\* tupleBufferToFormattedJSONString: each tuple of the buffer, each field
\* of the schema.  A field of another type keeps its value, standing for
\* the text formattedBytesToString gives it.
FormatTuple(schema, t) ==
  [i \in 1..Len(schema) |->
     <<schema[i].name,
       IF schema[i].type = "VARSIZED" THEN EncodeBase64(t[schema[i].name])
                                      ELSE t[schema[i].name]>>]

TupleBufferToFormattedJSONString(schema, buf) ==
  [i \in 1..Len(buf) |-> FormatTuple(schema, buf[i])]

-----------------------------------------------------------------------------
(* Base64 as RFC 4648 defines it, for checking EncodeBase64: the bits of  *)
(* the bytes, most significant first, cut into groups of six (the last    *)
(* filled with zeros), one character per group, and "=" up to a multiple  *)
(* of four characters.                                                     *)

ByteBits(b) == [j \in 1..8 |-> (b \div 2^(8 - j)) % 2]

Base64Ref(s) ==
  LET bits == FlattenSeq([i \in 1..Len(s) |-> ByteBits(s[i])])
      groups == (Len(bits) + 5) \div 6
      bit(j) == IF j <= Len(bits) THEN bits[j] ELSE 0
      value(g) == LET RECURSIVE V(_)
                      V(j) == IF j = 0 THEN 0 ELSE 2 * V(j - 1) + bit(6 * (g - 1) + j)
                  IN  V(6)
      chars == [g \in 1..groups |-> kAlphabet[value(g) + 1]]
  IN  chars \o [j \in 1..((4 - (groups % 4)) % 4) |-> Pad]

=============================================================================
