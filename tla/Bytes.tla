-------------------------------- MODULE Bytes --------------------------------
(***************************************************************************)
(* Two conversions: integers in byte order, as libyte::Slice stores and     *)
(* loads them (byte.hpp), and base64 (crypto/base64.h).  An integer is the  *)
(* sequence of its bytes, the lowest first; a base64 text is a sequence of  *)
(* the numbers 0 to 63 of its letters, and Pad.                             *)
(***************************************************************************)
EXTENDS Integers, Sequences, SequencesExt

(* PutLeU16 to PutBeU64.                                                    *)
PutLe(word) == word
PutBe(word) == Reverse(word)

(* LeU16 to BeU64.  The bytes are signed chars: one from 128 on brings ones *)
(* into all the places above its own, where they are or-ed in.              *)
Load(b) == [k \in DOMAIN b |-> IF \E j \in 1..k - 1 : b[j] >= 128 THEN 255 ELSE b[k]]
GetLe(stored) == Load(stored)
GetBe(stored) == Load(Reverse(stored))

Pad == 64
Groups(s, n) ==
  [k \in 1..(Len(s) + n - 1) \div n |-> SubSeq(s, n * (k - 1) + 1, IF n * k < Len(s) THEN n * k ELSE Len(s))]

(* base64_encode, by threes.                                                *)
EncodeGroup(g) ==
  LET c(i) == IF i <= Len(g) THEN g[i] ELSE 0
      letters == <<c(1) \div 4, 16 * (c(1) % 4) + c(2) \div 16,
                   4 * (c(2) % 16) + c(3) \div 64, c(3) % 64>>
  IN [i \in 1..4 |-> IF i <= Len(g) + 1 THEN letters[i] ELSE Pad]
Base64Encode(bytes) == FlattenSeq([k \in DOMAIN Groups(bytes, 3) |-> EncodeGroup(Groups(bytes, 3)[k])])

(* base64_decode, by fours up to the first letter that is none; the missing *)
(* ones of the last four are looked up and not found.                       *)
NotFound == 255
DecodeGroup(g) ==
  LET c(i) == IF i <= Len(g) THEN g[i] ELSE NotFound
      bytes == <<((4 * c(1)) % 256) + ((c(2) % 64) \div 16),
                 16 * (c(2) % 16) + ((c(3) % 64) \div 4), 64 * (c(3) % 4) + c(4)>>
  IN SubSeq(bytes, 1, Len(g) - 1)
Letters(text) ==
  LET pads == {i \in DOMAIN text : text[i] = Pad}
  IN IF pads = {} THEN text ELSE SubSeq(text, 1, Min(pads) - 1)
Base64Decode(text) ==
  LET groups == Groups(Letters(text), 4)
  IN FlattenSeq([k \in DOMAIN groups |-> DecodeGroup(groups[k])])
=============================================================================
