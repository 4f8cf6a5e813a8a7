-------------------------------- MODULE Nalu --------------------------------
(***************************************************************************)
(* The algorithms of stream/sps.hpp and stream/frame.hpp on NAL units:      *)
(* splitting a frame into units, taking the parameter sets out, undoing the *)
(* escape of start codes, reading Exp-Golomb codes and the picture's size   *)
(* in a sequence parameter set, and reading a file frame by frame.  A       *)
(* buffer is a sequence of bytes; a position in it counts from 0, as in the *)
(* code.  The other direction (escape, codes, parameter sets) is what an    *)
(* encoder does after ITU-T H.264 and H.265.  Bits behind the end of a      *)
(* buffer are read as 0: a complete parameter set never needs them, but one *)
(* whose fields are misread may.                                            *)
(***************************************************************************)
EXTENDS Integers, Sequences, SequencesExt

START == <<0, 0, 0, 1>>
Ahead(b, i, n) == SubSeq(b, i + 1, i + n)

-----------------------------------------------------------------------------
(* Frames                                                                   *)

IsH264(byte) == byte \div 16 = 6

(* Split takes off unit after unit, while another start code follows; the   *)
(* last unit is what it returns.  Cuts are where the start codes are; the   *)
(* three bytes behind the buffer, which memcmp reads too at its end         *)
(* (sps.hpp:594-595), are taken not to complete one.                        *)
Cuts_Greedy(data) == {i \in 0..Len(data) - 4 : Ahead(data, i, 3) = <<0, 0, 0>>}
Cuts(data) == {i \in 0..Len(data) - 4 : Ahead(data, i, 4) = START}
Split(data) ==
  LET at == Append(SetToSortSeq(Cuts(data), <), Len(data))
      unit == [k \in 1..Len(at) - 1 |-> SubSeq(data, at[k] + 5, at[k + 1])]
  IN [units |-> Front(unit), rest |-> Last(unit)]

(* The first unit tells H.264 from H.265; the result is SPS, PPS and, if    *)
(* there is one, VPS, or <<>> where no such unit was found.                 *)
HevcTypes == [VPS |-> 32, SPS |-> 33, PPS |-> 34]
AvcTypes == [SPS |-> 7, PPS |-> 8]
Sort(units) ==
  LET h264 == IsH264(units[1][1])
      type(unit) == IF h264 THEN unit[1] % 32 ELSE (unit[1] \div 2) % 64
      last(t) == LET found == SelectSeq(units, LAMBDA unit : type(unit) = t)
                 IN IF found = <<>> THEN <<>> ELSE Last(found)
      types == IF h264 THEN AvcTypes ELSE HevcTypes
      vps == IF h264 THEN <<>> ELSE last(HevcTypes.VPS)
  IN <<last(types.SPS), last(types.PPS)>> \o (IF vps = <<>> THEN <<>> ELSE <<vps>>)

(* read264frame: the start code behind the first slice, or -1.              *)
FrameEnd(b, len) ==
  LET starts == {i \in 0..len - 1 : Ahead(b, i, 4) = START}
      slices == {i \in starts : b[i + 5] % 32 \in {1, 5}}
      after == {i \in starts : i > Min(slices)}
  IN IF slices = {} \/ after = {} THEN -1 ELSE Min(after)

(* File::Read until it returns NULL, with a buffer of the given size; there *)
(* are no more frames than start codes.                                     *)
ReadFile(file, size) ==
  LET next(s, k) ==
        LET b == SubSeq(file, s.pos + 1, Min({s.pos + size, Len(file)}))
            end == FrameEnd(b, Len(b) - 5)
        IN IF s.ended \/ end < 0 THEN [s EXCEPT !.ended = TRUE]
           ELSE [s EXCEPT !.pos = @ + end, !.frames = Append(@, SubSeq(b, 1, end))]
  IN FoldLeft(next, [pos |-> 0, ended |-> FALSE, frames |-> <<>>],
              [k \in 1..Cardinality(Cuts(file)) |-> k]).frames

-----------------------------------------------------------------------------
(* de_emulation_prevention: each 00 00 03 loses its 03 in place.  The bytes *)
(* behind move up, the last one stays, and the scan goes on one further.    *)
(* Each 03 is kicked out once at most.  Below two bytes the bound size - 2  *)
(* wraps around and the scan leaves the buffer (sps.hpp:83): undefined.     *)

Kick(b, k) == SubSeq(b, 1, k - 1) \o SubSeq(b, k + 1, Len(b)) \o <<Last(b)>>
Kicks_Short(b, i) == b[i] = 0 /\ b[i + 1] = 3
Kicks(b, i) == b[i] = 0 /\ b[i + 1] = 0 /\ b[i + 2] = 3
Unescape(buf) ==
  LET next(s, byte) ==
        LET at == {i \in s.from..Len(buf) - 2 : Kicks(s.b, i)} IN
        IF at = {} THEN s ELSE [b |-> Kick(s.b, Min(at) + 2), n |-> s.n - 1, from |-> Min(at) + 1]
      s == FoldLeft(next, [b |-> buf, n |-> Len(buf), from |-> 1],
                    SelectSeq(buf, LAMBDA b : b = 3))
  IN SubSeq(s.b, 1, s.n)

-----------------------------------------------------------------------------
(* The bit reader: u, Ue, Se                                                *)

Bit(b, pos) ==
  IF pos < 8 * Len(b) THEN (b[pos \div 8 + 1] \div (2^(7 - (pos % 8)))) % 2 ELSE 0
u(n, b, pos) == FoldLeft(LAMBDA v, i : 2 * v + Bit(b, pos + i - 1), 0, [i \in 1..n |-> i])

Zeros(b, pos) ==
  LET ones == {p \in pos..8 * Len(b) - 1 : Bit(b, p) = 1}
  IN (IF ones = {} THEN 8 * Len(b) ELSE Min(ones)) - pos
UeValue_OffByOne(b, pos) == LET z == Zeros(b, pos) IN 2^z + u(z, b, pos + z + 1)
UeValue(b, pos) == LET z == Zeros(b, pos) IN 2^z - 1 + u(z, b, pos + z + 1)
UeLength(b, pos) == 2 * Zeros(b, pos) + 1
SeValue(b, pos) ==
  LET k == UeValue(b, pos) IN IF k % 2 = 0 THEN -(k \div 2) ELSE (k + 1) \div 2

(* A syntax is a sequence of fields: of n bits, or an Exp-Golomb code, read *)
(* if the field "when" was read and is in "of".  Fields of interest have a  *)
(* name.                                                                    *)
Golomb == 0
If(when, of, name, n) == [name |-> name, n |-> n, when |-> when, of |-> of]
Field(name, n) == If("", {}, name, n)
Skip(n) == Field("", n)

ReadField(b, r, f) ==
  LET value == IF f.n = Golomb THEN UeValue(b, r.pos) ELSE u(f.n, b, r.pos)
      length == IF f.n = Golomb THEN UeLength(b, r.pos) ELSE f.n
  IN IF f.when # "" /\ ~(f.when \in DOMAIN r.val /\ r.val[f.when] \in f.of) THEN r
     ELSE [pos |-> r.pos + length,
           val |-> IF f.name = "" THEN r.val ELSE (f.name :> value) @@ r.val]
ReadFields(b, r, fields) ==
  LET from[s \in {r}] == FoldLeft(LAMBDA q, f : ReadField(b, q, f), s, fields) IN from[r]
(* Part after part, each with the fields that what was read so far asks     *)
(* for.                                                                     *)
ReadParts(b, r, parts, Fields(_, _)) ==
  FoldLeft(LAMBDA q, part : ReadFields(b, q, Fields(part, q.val)), r, parts)
From(pos) == [pos |-> pos, val |-> <<>>]

-----------------------------------------------------------------------------
(* avc::decode_sps: [ok, width, height, fps]                                *)

On == {1}
Off == {0}
Repeat(f, n) == [i \in 1..n |-> f]

AvcHead == <<Skip(3), Field("type", 5), Field("profile", 8), Skip(16), Skip(Golomb)>>
HighProfiles == {100, 110, 122, 144}
AvcHigh ==
  <<Field("chroma", Golomb), If("chroma", {3}, "", 1), Skip(Golomb), Skip(Golomb), Skip(1),
    Field("scaling", 1), If("scaling", On, "", 8)>>
AvcOrder ==
  <<Skip(Golomb), Field("order", Golomb), If("order", {0}, "", Golomb), If("order", {1}, "", 1),
    If("order", {1}, "", Golomb), If("order", {1}, "", Golomb), If("order", {1}, "cycle", Golomb)>>
AvcSize ==
  <<Skip(Golomb), Skip(1), Field("width", Golomb), Field("height", Golomb), Field("frames", 1),
    If("frames", Off, "", 1), Skip(1), Field("crop", 1)>>
  \o Repeat(If("crop", On, "", Golomb), 4)
VuiPicture ==
  <<Field("vui", 1), If("vui", On, "aspect", 1), If("aspect", On, "ratio", 8),
    If("ratio", {255}, "", 32), If("vui", On, "overscan", 1), If("overscan", On, "", 1),
    If("vui", On, "signal", 1), If("signal", On, "", 4), If("signal", On, "colour", 1),
    If("colour", On, "", 24), If("vui", On, "location", 1), If("location", On, "", Golomb),
    If("location", On, "", Golomb)>>
VuiTiming == <<If("vui", On, "timing", 1), If("timing", On, "tick", 32), If("timing", On, "scale", 32)>>

AvcFields(part, val) ==
  CASE part = "head" -> AvcHead
    [] part = "high" -> IF val.profile \in HighProfiles THEN AvcHigh ELSE <<>>
    [] part = "order" -> AvcOrder
    [] part = "cycle" -> Repeat(Skip(Golomb), IF val.order = 1 THEN val.cycle ELSE 0)
    [] part = "size" -> AvcSize \o VuiPicture \o VuiTiming

NoSize == [ok |-> FALSE, width |-> 0, height |-> 0]
(* Undefined is a unit of less than two bytes, and timing with a tick of 0, *)
(* by which line 550 divides.  All other numbers are taken to fit an int.   *)
Undefined == [ok |-> FALSE, undefined |-> TRUE]
DecodeAvc(unit) ==
  IF Len(unit) < 2 THEN Undefined ELSE
  LET val == ReadParts(Unescape(unit), From(0), <<"head", "high", "order", "cycle", "size">>, AvcFields).val
      timed == "tick" \in DOMAIN val
      fps == IF timed THEN val.scale \div (2 * val.tick) ELSE 0
  IN IF val.type # 7 THEN NoSize @@ [fps |-> 0]
     ELSE IF timed /\ val.tick = 0 THEN Undefined
     ELSE [ok |-> TRUE, width |-> 16 * (val.width + 1),
           height |-> 16 * (val.height + 1), fps |-> IF fps = 0 THEN 25 ELSE fps]

(* hevc::decode_sps, the same.  It begins with the parameter set itself,    *)
(* without the two bytes of the unit's header.  An id above 3 is refused in *)
(* place of a chroma format above 3.                                        *)
HevcLayers(b, m) ==
  IF m = 0 THEN 104
  ELSE 120 + FoldLeft(LAMBDA sum, i : sum + 88 * Bit(b, 102 + 2 * i) + 8 * Bit(b, 103 + 2 * i),
                      0, [i \in 1..m |-> i])
HevcSize ==
  <<Field("id", Golomb), Field("chroma", Golomb), If("chroma", {3}, "", 1), Field("width", Golomb),
    Field("height", Golomb), Field("window", 1)>>
  \o Repeat(If("window", On, "", Golomb), 4) \o <<Field("lumaDepth", Golomb), Field("chromaDepth", Golomb)>>

(* What lies between the size and the timing: the order of pictures, the    *)
(* coding tools with their scaling lists, the sets of reference pictures.   *)
(* A predicted set is read as if the set before it were empty, the number   *)
(* of a long-term picture as 16 bits.                                       *)
HevcOrder(val, layers) ==
  Repeat(Skip(Golomb), 3 * IF val.ordering = 1 THEN layers + 1 ELSE 1)

ListSizes == Repeat(16, 6) \o Repeat(64, 6) \o Repeat(65, 8)
HevcList(size) ==
  <<If("lists", On, "given", 1), If("lists", On, "", Golomb)>>
    \o Repeat(If("given", On, "", Golomb), size - 1)
HevcTools == Repeat(Skip(Golomb), 6) \o <<Field("scaling", 1), If("scaling", On, "lists", 1)>>
HevcPcm ==
  <<Skip(2), Field("pcm", 1), If("pcm", On, "", 8), If("pcm", On, "", Golomb),
    If("pcm", On, "", Golomb), If("pcm", On, "", 1)>>

HevcSet(val) ==
  IF "predicted" \in DOMAIN val /\ val.predicted = 1
  THEN <<Skip(1), Skip(Golomb), Field("used", 1), If("used", Off, "", 1)>>
  ELSE <<Field("negative", Golomb), Field("positive", Golomb)>>
HevcPictures(val) ==
  IF "predicted" \in DOMAIN val /\ val.predicted = 1 THEN <<>>
  ELSE [k \in 1..2 * (val.negative + val.positive) |-> IF k % 2 = 1 THEN Skip(Golomb) ELSE Skip(1)]
HevcLong == <<Field("long", 1), If("long", On, "pictures", Golomb)>>

HevcVui ==
  VuiPicture \o <<If("vui", On, "", 3), If("vui", On, "display", 1)>>
    \o Repeat(If("display", On, "", Golomb), 4) \o VuiTiming
HevcRate(vui) ==
  LET timed == "scale" \in DOMAIN vui /\ vui.tick > 0 /\ vui.scale > 0
      rate == (vui.scale + vui.tick) \div (2 * vui.tick)
  IN IF timed /\ rate \in 1..1000 THEN rate ELSE 25

HevcFields(part, val) ==
  CASE part[1] = "size" -> HevcSize \o <<Skip(Golomb), Field("ordering", 1)>>
    [] part[1] = "order" -> HevcOrder(val, part[2]) \o HevcTools
    [] part[1] = "list" -> HevcList(part[2])
    [] part[1] = "sets" -> HevcPcm \o <<Field("sets", Golomb)>>
    [] part[1] = "predicted" -> IF part[2] = 1 THEN <<>> ELSE <<Field("predicted", 1)>>
    [] part[1] = "set" -> HevcSet(val)
    [] part[1] = "pictures" -> HevcPictures(val)
    [] part[1] = "long" -> HevcLong
    [] part[1] = "rate" ->
         Repeat(Skip(17), IF val.long = 1 THEN val.pictures ELSE 0) \o <<Skip(2)>> \o HevcVui
HevcBefore(layers) ==
  <<<<"size", 0>>, <<"order", layers>>>> \o [i \in DOMAIN ListSizes |-> <<"list", ListSizes[i]>>]
    \o <<<<"sets", 0>>>>
HevcBehind(sets) ==
  [k \in 1..3 * sets |-> <<(<<"predicted", "set", "pictures">>)[1 + ((k - 1) % 3)], (k + 2) \div 3>>]
    \o <<<<"long", 0>>, <<"rate", 0>>>>

DecodeHevc(data) ==
  LET b == Unescape(data)
      layers == u(3, b, 4)
      begun == ReadParts(b, From(HevcLayers(b, layers)), HevcBefore(layers), HevcFields)
      val == ReadParts(b, begun, HevcBehind(begun.val.sets), HevcFields).val
  IN IF Len(data) < 20 \/ layers > 6 \/ val.id > 3 THEN NoSize @@ [fps |-> 0]
     ELSE [ok |-> val.lumaDepth = val.chromaDepth, width |-> val.width, height |-> val.height,
           fps |-> IF val.lumaDepth = val.chromaDepth THEN HevcRate(val) ELSE 25]

-----------------------------------------------------------------------------
(* What an encoder does                                                     *)

Bits(n, v) == [i \in 1..n |-> IF n - i > 30 THEN 0 ELSE (v \div (2^(n - i))) % 2]
GolombCode(v) ==
  LET z == CHOOSE k \in 0..30 : 2^k <= v + 1 /\ v + 1 < 2^(k + 1)
  IN Bits(z, 0) \o Bits(z + 1, v + 1)
SignedCode(v) == GolombCode(IF v > 0 THEN 2 * v - 1 ELSE -2 * v)

(* FlattenSeq, ten by ten: TLC's recursion is not deep enough for all.      *)
Joined(codes) ==
  LET tens == [k \in 0..Len(codes) \div 10 |-> SubSeq(codes, 10 * k + 1, Min({10 * k + 10, Len(codes)}))]
  IN FlattenSeq([k \in 1..Cardinality(DOMAIN tens) |-> FlattenSeq(tens[k - 1])])
Pack(bits) ==
  LET whole == bits \o <<1>> \o Bits((7 - Len(bits)) % 8, 0)
  IN [k \in 1..Len(whole) \div 8 |->
        FoldLeft(LAMBDA v, i : 2 * v + whole[8 * (k - 1) + i], 0, [i \in 1..8 |-> i])]

(* 7.4.1.1: 03 goes in front of a byte up to 3 that follows two zeros; a    *)
(* zero it is put in front of counts again.                                 *)
Escape(payload) ==
  LET zeros(i) == i - 1 - Max({0} \cup {k \in 1..i - 1 : payload[k] # 0})
      emulates(i) == zeros(i) > 0 /\ zeros(i) % 2 = 0 /\ payload[i] <= 3
  IN Joined([i \in DOMAIN payload |-> IF emulates(i) THEN <<3, payload[i]>> ELSE <<payload[i]>>])

VuiBits ==
  <<<<1>>, <<1>>, Bits(8, 255), Bits(32, 65537), <<1>>, <<0>>, <<1>>, Bits(4, 5), <<1>>,
    Bits(24, 65793), <<1>>, GolombCode(1), GolombCode(1)>>

(* H.264, 7.3.2.1.1: a record with the profile, the scaling matrix (none,   *)
(* of flags only, or with lists), the order of pictures, the size in        *)
(* macroblocks (in map units), fields or frames, the bottom crop and the    *)
(* timing (a scale of 0 for none).  The profiles that name a chroma format  *)
(* are those of the standard, with 144 of its first editions.               *)
ChromaProfiles == {44, 83, 86, 100, 110, 118, 122, 128, 134, 135, 138, 139, 144, 244}
ScalingBits(s) ==
  LET lists == IF s.chroma = 3 THEN 12 ELSE 8
      list(i) == <<<<1>>, SignedCode(2)>> \o Repeat(SignedCode(0), IF i <= 6 THEN 15 ELSE 63)
  IN CASE s.scaling = "none" -> <<<<0>>>>
       [] s.scaling = "flags" -> <<<<1>>>> \o Repeat(<<0>>, lists)
       [] s.scaling = "lists" -> <<<<1>>>> \o FlattenSeq([i \in 1..lists |-> list(i)])
AvcBits(s) ==
  Joined(<<Bits(8, 103), Bits(8, s.profile), Bits(16, 31), GolombCode(0)>>
    \o (IF s.profile \notin ChromaProfiles THEN <<>>
        ELSE <<GolombCode(s.chroma), IF s.chroma = 3 THEN <<0>> ELSE <<>>,
               GolombCode(0), GolombCode(0), <<0>>>> \o ScalingBits(s))
    \o <<GolombCode(1), GolombCode(s.order)>>
    \o (CASE s.order = 0 -> <<GolombCode(2)>>
          [] s.order = 1 -> <<<<0>>, SignedCode(-1), SignedCode(2), GolombCode(2),
                              SignedCode(1), SignedCode(-2)>>
          [] OTHER -> <<>>)
    \o <<GolombCode(1), <<0>>, GolombCode(s.width - 1), GolombCode(s.height - 1)>>
    \o (IF s.fields THEN <<<<0>>, <<1>>>> ELSE <<<<1>>>>) \o <<<<1>>>>
    \o (IF s.crop = 0 THEN <<<<0>>>>
        ELSE <<<<1>>, GolombCode(0), GolombCode(0), GolombCode(0), GolombCode(s.crop)>>)
    \o (IF s.scale = 0 THEN <<<<0>>>> ELSE VuiBits \o <<<<1>>, Bits(32, s.tick), Bits(32, s.scale)>>))
AvcUnit(s) == Escape(Pack(AvcBits(s)))
AvcPicture(s) ==
  LET lines == IF s.fields THEN 2 ELSE 1 IN
  [width |-> 16 * s.width, height |-> lines * (16 * s.height - 2 * s.crop)]

(* H.265, 7.3.2.2.1, from behind the header: with or without tools (scaling *)
(* lists, pcm, long-term pictures), a number of short-term sets of which    *)
(* the last may be predicted, and timing.                                   *)
HevcToolBits(s) ==
  IF s.tools
  THEN <<<<1, 1>>, <<1>>>> \o Repeat(GolombCode(3), 16) \o Repeat(<<0>> \o GolombCode(1), 19)
         \o <<<<1, 1>>, <<1>>, Bits(8, 119), GolombCode(0), GolombCode(2), <<0>>>>
  ELSE <<<<0>>, <<0, 1>>, <<0>>>>
HevcSetBits(s, i) ==
  IF s.predicted /\ i > 1 /\ i = s.sets
  THEN <<1, 0>> \o GolombCode(0) \o <<1, 1>>
  ELSE (IF i = 1 THEN <<>> ELSE <<0>>) \o GolombCode(1) \o GolombCode(0) \o GolombCode(i) \o <<1>>
HevcTail(s) ==
  <<GolombCode(12), IF s.tools THEN <<1>> ELSE <<0>>>>
    \o Repeat(GolombCode(2), IF s.tools THEN 3 * (s.layers + 1) ELSE 3)
    \o Repeat(GolombCode(1), 6) \o HevcToolBits(s)
    \o <<GolombCode(s.sets)>> \o [i \in 1..s.sets |-> HevcSetBits(s, i)]
    \o (IF s.tools THEN <<<<1>>, GolombCode(2), Bits(17, 3), Bits(17, 8)>> ELSE <<<<0>>>>) \o <<<<1, 1>>>>
    \o (IF s.scale = 0 THEN <<<<0>>>>
        ELSE VuiBits \o <<<<0, 0, 0>>, <<1>>>> \o Repeat(GolombCode(1), 4)
               \o <<<<1>>, Bits(32, s.tick), Bits(32, s.scale), <<0, 0, 0>>>>)
HevcBits(s) ==
  Joined(<<Bits(4, 0), Bits(3, s.layers), <<1>>, Bits(8, 1), Bits(32, 96), Bits(48, 0), Bits(8, 93)>>
    \o (IF s.layers = 0 THEN <<>>
        ELSE [i \in 1..s.layers |-> <<1, 1>>] \o Repeat(<<0, 0>>, 8 - s.layers)
             \o Repeat(Repeat(1, 96), s.layers))
    \o <<GolombCode(s.id), GolombCode(s.chroma), IF s.chroma = 3 THEN <<0>> ELSE <<>>,
         GolombCode(s.width), GolombCode(s.height)>>
    \o (IF s.crop = 0 THEN <<<<0>>>>
        ELSE <<<<1>>, GolombCode(0), GolombCode(0), GolombCode(0), GolombCode(s.crop)>>)
    \o <<GolombCode(0), GolombCode(0)>> \o HevcTail(s) \o <<<<0>>>>)
HevcData(s) == Escape(Pack(HevcBits(s)))
=============================================================================
