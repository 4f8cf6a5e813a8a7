------------------------------ MODULE MCMedia ------------------------------
(* H.264 with two parameter sets, and H.265 with three; the arguments of    *)
(* the algorithms.                                                          *)
EXTENDS Media

ConfigsUsed == {<<10, 4, 0>>, <<10, 4, 6>>}

BytesUpTo(n, B) == UNION {[1..k -> B] : k \in 2..n}
PayloadsUsed == BytesUpTo(6, {0, 1, 3, 7})
AvcSetsUsed ==
  [profile : {66, 110}, chroma : {1, 3}, scaling : {"none"}, order : {0, 1, 2}, width : {1, 45},
   height : {2, 68}, fields : BOOLEAN, crop : {0, 4}, scale : {0, 120}, tick : {1}]
    \cup [profile : {44, 66, 77, 100, 110, 122, 144, 244}, chroma : {1, 3},
          scaling : {"none", "flags", "lists"}, order : {1, 2}, width : {45}, height : {68},
          fields : {FALSE}, crop : {0}, scale : {0, 1, 50, 120}, tick : {0, 1, 2}]
HevcSetsUsed ==
  [layers : {0, 1, 6}, id : {0}, chroma : {1, 3}, width : {8, 1920}, height : {1080}, crop : {0, 4},
   tools : BOOLEAN, sets : {0, 1, 3}, predicted : BOOLEAN, scale : {0, 120}, tick : {1}]
    \cup [layers : {0, 1}, id : {0}, chroma : {1}, width : {8}, height : {8}, crop : {0},
          tools : BOOLEAN, sets : {1}, predicted : {FALSE},
          scale : {0, 1, 50, 99, 120, 2001, 4001}, tick : {0, 1, 2}]
    \cup [layers : {0}, id : {5}, chroma : {1}, width : {8}, height : {8}, crop : {0},
          tools : {FALSE}, sets : {0}, predicted : {FALSE}, scale : {0}, tick : {1}]

(* Parameter sets in any order, and a slice with zeros in it.               *)
Avc == <<<<103, 0, 0>>, <<104, 1>>, <<101, 0, 0, 3, 1>>>>
Hevc == <<<<66, 1, 0>>, <<68, 1>>, <<64, 1>>, <<38, 1, 0, 0>>>>
Orders(n) == {p \in [1..n -> 1..n] : \A i, j \in 1..n : p[i] = p[j] => i = j}
FramesUsed ==
  {Append([i \in 1..2 |-> Avc[p[i]]], Avc[3]) : p \in Orders(2)}
    \cup {Append([i \in 1..3 |-> Hevc[p[i]]], Hevc[4]) : p \in Orders(3)}
StreamsUsed == UNION {[1..n -> {Avc, <<<<65, 2, 0>>>>, <<<<6, 5>>, <<97, 0>>>>}] : n \in 1..4}

WordsUsed == UNION {[1..k -> {0, 1, 127, 255}] : k \in {1, 2, 3, 4}} \cup [1..8 -> {1, 255}]
=============================================================================
