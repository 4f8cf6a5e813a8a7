-------------------------------- MODULE Media --------------------------------
(***************************************************************************)
(* The stream library: a behaviour is either what a writer of frames does   *)
(* (Mp4Files), or one call of one of the algorithms (Nalu, Bytes), whose    *)
(* argument is then the input.                                              *)
(***************************************************************************)
EXTENDS Mp4Files, Nalu, Bytes

CONSTANTS
  Payloads,  \* parameter sets, as bytes, before start codes are escaped
  Numbers,   \* numbers to be coded
  AvcSets,   \* H.264 sequence parameter sets, as records
  HevcSets,  \* the same of H.265
  Frames,    \* frames: sequences of units
  Streams,   \* H.264 streams: sequences of frames with a slice each
  ReadSize,  \* bound: the buffer of File, READ_BUF_SIZ
  Words      \* integers, as bytes

VARIABLE input

Argument ==
  [kind : {"payload"}, bytes : Payloads] \cup [kind : {"number"}, n : Numbers]
    \cup [kind : {"avc"}, set : AvcSets] \cup [kind : {"hevc"}, set : HevcSets]
    \cup [kind : {"frame"}, units : Frames] \cup [kind : {"stream"}, frames : Streams]
    \cup [kind : {"word"}, bytes : Words]
NoInput == [kind |-> "none"]

MediaInit ==
  /\ FilesInit
  /\ \/ input = NoInput
     \/ w.kind = "mp4" /\ clock = Min(Times) /\ input \in Argument
MediaNext == input = NoInput /\ FilesNext /\ UNCHANGED input
MediaSpec == MediaInit /\ [][MediaNext]_<<filesVars, input>>

-----------------------------------------------------------------------------

(* INVARIANT.  decode_sps finds the size and the rate of the pictures,      *)
(* whatever order of pictures, sub-layers, coding tools or sets of          *)
(* reference pictures the set carries.  Excepted are sets that crop the     *)
(* picture, or code fields, which avc::decode_sps reads past                *)
(* (sps.hpp:504-516); of the H.264 profiles that name a chroma format those *)
(* that line 465 does not list (44, 83, 86, 118, 128, 244 and others);      *)
(* scaling matrices with lists, or of 4:4:4, of which lines 475-480 read    *)
(* eight flags and no list; a tick of 0 (line 550); for H.265 an id above   *)
(* 3, a set with its unit's header in front, as Unit::decode_sps passes it  *)
(* (sps.hpp:579), and the rate behind a predicted set (sps.hpp:316-325).    *)
(* The rate is half of scale / tick, as sps.hpp:410 and 550 have it,        *)
(* rounded for H.265 and cut for H.264; 25 without timing, for H.264 also   *)
(* in place of 0, for H.265 also of none in 1..1000.                        *)
ReadRight(s) ==
  /\ s.crop = 0 /\ ~s.fields
  /\ s.profile \in ChromaProfiles =>
       s.profile \in HighProfiles /\ (s.scaling = "flags" => s.chroma # 3) /\ s.scaling # "lists"
  /\ s.scale > 0 => s.tick > 0
SizeRead ==
  /\ input.kind = "avc" /\ ReadRight(input.set) =>
       LET s == input.set  read == DecodeAvc(AvcUnit(s))  picture == AvcPicture(s)
       IN /\ read.ok /\ read.width = picture.width /\ read.height = picture.height
          /\ read.fps = IF s.scale = 0 \/ s.scale < 2 * s.tick THEN 25 ELSE s.scale \div (2 * s.tick)
  /\ input.kind = "hevc" /\ input.set.crop = 0 /\ input.set.id <= 3 =>
       LET s == input.set  read == DecodeHevc(HevcData(s))
       IN /\ read.ok /\ read.width = s.width /\ read.height = s.height
          /\ ~s.predicted =>
               IF s.scale = 0 \/ s.tick = 0 \/ s.scale < s.tick \/ s.scale >= 2001 * s.tick
               THEN read.fps = 25
               ELSE 2 * s.tick * read.fps - s.scale \in 1 - s.tick..s.tick

(* INVARIANT.  A frame falls apart into the units it was put together from, *)
(* and Sort finds the parameter sets in any order of them; a file falls     *)
(* apart into its frames, of which Read never returns the last              *)
(* (nalu::Split, nalu::Sort, File::Read).                                   *)
Stream(units) == FlattenSeq([i \in DOMAIN units |-> START \o units[i]])
TypeOf(unit) == IF IsH264(unit[1]) THEN unit[1] % 32 ELSE unit[1] \div 2
ParameterSets(units) ==
  LET find(type) == SelectSeq(units, LAMBDA unit : TypeOf(unit) = type)
  IN find(AvcTypes.SPS) \o find(AvcTypes.PPS) \o find(HevcTypes.SPS) \o find(HevcTypes.PPS)
       \o find(HevcTypes.VPS)
FramesCut ==
  /\ input.kind = "frame" =>
       LET parts == Split(Stream(input.units)) IN
       /\ parts.units = Front(input.units) /\ parts.rest = Last(input.units)
       /\ Sort(parts.units) = ParameterSets(input.units)
  /\ input.kind = "stream" =>
       LET frames == [i \in DOMAIN input.frames |-> Stream(input.frames[i])]
       IN ReadFile(FlattenSeq(frames), ReadSize) = Front(frames)

(* INVARIANT.  What was written is read back: a parameter set that an       *)
(* encoder has escaped (de_emulation_prevention), a number it has coded     *)
(* (Ue, Se), an integer in either byte order (Slice), and bytes as base64.  *)
(* Excepted are sets of less than two bytes, whose scan is undefined;       *)
(* those with 00 00 00 03, of which the encoder makes 00 00 03 00 03, and   *)
(* the scan, which runs over the bytes that moved up, takes the 03 that     *)
(* belongs to the set as well (sps.hpp:84-95); and integers with a byte     *)
(* from 128 on below the highest, loaded as a negative char.                *)
Moved(b) == \E i \in 1..Len(b) - 3 : SubSeq(b, i, i + 3) = <<0, 0, 0, 3>>
Signed(b) == \E k \in 1..Len(b) - 1 : b[k] >= 128
ReadsBack ==
  /\ input.kind = "payload" /\ ~Moved(input.bytes) => Unescape(Escape(input.bytes)) = input.bytes
  /\ input.kind = "number" =>
       LET b == Pack(<<1, 0, 1>> \o GolombCode(input.n) \o GolombCode(2))
           signed(k) == SeValue(Pack(<<1>> \o SignedCode(k)), 1)
       IN /\ UeValue(b, 3) = input.n /\ UeValue(b, 3 + UeLength(b, 3)) = 2
          /\ signed(input.n) = input.n /\ signed(-input.n) = -input.n
  /\ input.kind = "word" =>
       /\ ~Signed(input.bytes) =>
            GetLe(PutLe(input.bytes)) = input.bytes /\ GetBe(PutBe(input.bytes)) = input.bytes
       /\ Base64Decode(Base64Encode(input.bytes)) = input.bytes
=============================================================================
