------------------------------ MODULE Mp4Files ------------------------------
(***************************************************************************)
(* What writes frames: libfile::Mp4 (stream/mp4.hpp), which writes the      *)
(* samples first and the tables at Close; libfile::FMp4                     *)
(* (stream/fmp4.hpp), which writes a fragment for each sample, with the     *)
(* boxes and the Trak tables of stream/mp4box.hpp; and librtmp::Client      *)
(* (stream/rtmp.hpp), which sends the same frames as FLV packets            *)
(* (stream/flv.hpp).  A file is the sequence of what was written: a box     *)
(* with the size its header states and the bytes it has before its first    *)
(* child, a sample, or a packet.  Key frames come with their parameter      *)
(* sets (nalu::Split takes them off); a file's frames begin with a start    *)
(* code, a publisher's may not; times do not run backwards; writing to a    *)
(* file succeeds; a writer writes one file.  What a box says beside sizes,  *)
(* offsets, counts and times is left out, and so is that sizes and times    *)
(* have 32 bits, except for mdat_.size, which is the offset as well.        *)
(***************************************************************************)
EXTENDS Integers, Sequences, FiniteSets, SequencesExt

CONSTANTS
  Times,    \* time stamps, in milliseconds
  Lengths,  \* lengths of samples
  Configs,  \* sizes of parameter sets: triples of SPS, PPS and VPS, 0 for no VPS
  Wide,     \* where a u32 wraps: 2^32, or less in a small instance
  MaxOffered \* bound: frames offered

(* Parameter sets fit the buffers of 256 bytes (MakeVideo) and 512 bytes    *)
(* (Packet::Marshal), which the code does not check.                        *)
ASSUME Mp4Assumption ==
  /\ Times \subseteq Nat /\ Times # {} /\ Lengths \subseteq Nat /\ Configs \subseteq Nat \X Nat \X Nat
  /\ \A c \in Configs : c[1] + c[2] + c[3] <= 210
  /\ Wide \in Nat /\ Wide > 36 /\ MaxOffered \in Nat

VARIABLES
  w,       \* the writer: its file and its members
  disk,    \* what the file holds, by position
  patch,   \* where Close has written over the file, -1 for nowhere
  clock,   \* the last time stamp offered
  offered  \* history: frames offered to WriteFrame, until a connection breaks

filesVars == <<w, disk, patch, clock, offered>>

Writers == {"mp4", "fmp4", "rtmp"}
NoTrak == [config |-> <<0, 0, 0>>, first |-> 0, last |-> 0, lengths |-> <<>>,
           offsets |-> <<>>, keys |-> <<>>]

Traks == [config : Nat \X Nat \X Nat, first : Nat, last : Nat, lengths : Seq(Nat),
          offsets : Seq(Nat), keys : Seq(Nat)]
FramesOffered == [type : 1..3, len : Lengths, ts : Times, cut : BOOLEAN] \* cut: has a start code

(* What a file is made of: boxes, some of them with a field that matters    *)
(* besides the size; samples; and packets, with their frame or without.     *)
Plain ==
  {"ftyp", "mdat", "moov", "mvex", "trex", "trak", "tkhd", "mdia", "mdhd", "hdlr", "minf", "vmhd",
   "dinf", "dref", "url ", "stbl", "stsd", "avc1", "avcC", "mp4a", "esds", "stts", "stsc", "stsz",
   "stco", "stss", "moof", "traf"}
Pieces ==
  [box : Plain, size : Int, own : Nat]
    \cup [box : {"mvhd"}, size : Nat, own : Nat, duration : Int]
    \cup [box : {"mfhd"}, size : Nat, own : Nat, seq : Nat]
    \cup [box : {"tfhd"}, size : Nat, own : Nat, track : 1..2]
    \cup [box : {"tfdt"}, size : Nat, own : Nat, time : Int]
    \cup [box : {"trun"}, size : Nat, own : Nat, duration : Int, length : Nat, offset : Nat]
    \cup [box : {"sample"}, size : Nat, own : Nat, frame : FramesOffered]
    \cup [box : {"config"}, size : Nat, own : Nat, dts : Int]
    \cup [box : {"audio", "video"}, size : Nat, own : Nat, dts : Int, frame : FramesOffered]

FilesTypeOK ==
  /\ w \in [kind : Writers, file : {"none", "open", "closed", "undefined"}, begun : BOOLEAN,
            next : Nat, trak : [1..2 -> Traks], seq : 0..MaxOffered, first : Nat, last : Nat,
            lost : BOOLEAN]
  /\ disk \in Seq(Pieces) /\ patch \in Int
  /\ clock \in Times /\ offered \in Seq(FramesOffered)

FilesInit ==
  /\ w \in [kind : Writers, file : {"none"}, begun : {FALSE}, next : {0},
            trak : {[k \in 1..2 |-> NoTrak]}, seq : {0}, first : {0}, last : {0},
            lost : {FALSE}]
  /\ disk = <<>> /\ patch = -1 /\ clock \in Times /\ offered = <<>>

-----------------------------------------------------------------------------
(* Boxes: the stated size, and the bytes before the first child (all of     *)
(* them if it has none).  Trak::Marshal, moov::Marshal, moof::Marshal.      *)

Box(type, size, own) == [box |-> type, size |-> size, own |-> own]
Leaf(type, size) == Box(type, size, size)
Mvhd(duration) == [box |-> "mvhd", size |-> 108, own |-> 108, duration |-> duration]
Mfhd(seq) == [box |-> "mfhd", size |-> 16, own |-> 16, seq |-> seq]
Tfhd(track) == [box |-> "tfhd", size |-> 16, own |-> 16, track |-> track]
Tfdt(time) == [box |-> "tfdt", size |-> 16, own |-> 16, time |-> time]
Trun(duration, length, offset) ==
  [box |-> "trun", size |-> 36, own |-> 36, duration |-> duration, length |-> length, offset |-> offset]

FtypSize == 28
MdatSize == 8
MoovSize == 116
MvexSize == 72
MoofSize == 108 \* with the header of the mdat that follows it

(* avcC, or hvcC if there is a VPS, from the sizes of the parameter sets.   *)
ConfigSize(c) == IF c[3] = 0 THEN 19 + c[1] + c[2] ELSE 46 + c[1] + c[2] + c[3]

(* The sample description of a track: stsdv with the configuration, stsda,  *)
(* or none while the video track has no id.                                 *)
Stsd(id, c) ==
  IF id = 1
  THEN <<Box("stsd", 102 + ConfigSize(c), 16), Box("avc1", 86 + ConfigSize(c), 86),
         Leaf("avcC", ConfigSize(c))>>
  ELSE IF id = 2 THEN <<Box("stsd", 91, 16), Box("mp4a", 75, 36), Leaf("esds", 39)>>
  ELSE <<>>

Tables(id, t) ==
  LET n == Len(t.lengths) IN
  <<Leaf("stts", 24), Leaf("stsc", 28), Leaf("stsz", 20 + 4 * n), Leaf("stco", 16 + 4 * n)>>
    \o (IF id = 1 THEN <<Leaf("stss", 16 + 4 * Len(t.keys))>> ELSE <<>>)

SizeOf(boxes) ==
  LET sum[n \in 0..Len(boxes)] == IF n = 0 THEN 0 ELSE sum[n - 1] + boxes[n].own
  IN sum[Len(boxes)]

TrakBoxes_NoTables(id, t) ==
  LET length == SizeOf(Stsd(id, t.config))
  IN <<Box("trak", 260 + length, 8), Leaf("tkhd", 92), Box("mdia", 160 + length, 8),
       Leaf("mdhd", 32), Leaf("hdlr", 48), Box("minf", 72 + length, 8), Leaf("vmhd", 20),
       Box("dinf", 36, 8), Box("dref", 28, 16), Leaf("url ", 12), Box("stbl", 8 + length, 8)>>
     \o Stsd(id, t.config) \o Tables(id, t)
TrakBoxes(id, t) ==
  LET length == SizeOf(Stsd(id, t.config) \o Tables(id, t))
  IN <<Box("trak", 260 + length, 8), Leaf("tkhd", 92), Box("mdia", 160 + length, 8),
       Leaf("mdhd", 32), Leaf("hdlr", 48), Box("minf", 72 + length, 8), Leaf("vmhd", 20),
       Box("dinf", 36, 8), Box("dref", 28, 16), Leaf("url ", 12), Box("stbl", 8 + length, 8)>>
     \o Stsd(id, t.config) \o Tables(id, t)

Duration(t) == t.last - t.first
Moov(id, v, a, mvex, dur) ==
  LET traks == TrakBoxes(id, v) \o TrakBoxes(2, a)
  IN <<Box("moov", MoovSize + SizeOf(mvex \o traks), 8), Mvhd(dur)>>
     \o mvex \o traks

Mvex == <<Box("mvex", MvexSize, 8), Leaf("trex", 32), Leaf("trex", 32)>>

(* moof and the header of its mdat.                                         *)
Moof(seq, track, decode, duration, size) ==
  <<Box("moof", MoofSize - MdatSize, 8), Mfhd(seq), Box("traf", 76, 8), Tfhd(track), Tfdt(decode),
    Trun(duration, size, MoofSize), Box("mdat", MdatSize + size, MdatSize)>>

(* A sample, with the length that precedes a video frame.                   *)
Stored(f) == IF f.type = 3 THEN f.len ELSE f.len + 4
Sample(f) == [box |-> "sample", size |-> Stored(f), own |-> Stored(f), frame |-> f]
Track(f) == IF f.type = 3 THEN 2 ELSE 1

-----------------------------------------------------------------------------
(* Mp4                                                                      *)

(* Trak::AppendSample; the first time is taken for unset while it is 0.     *)
Advance(next, n) == (next + n) % Wide
FirstOf(t, ts) == IF t.first = 0 THEN ts ELSE t.first
AppendSample_AdvancedFirst(t, f, offset) ==
  [t EXCEPT !.last = f.ts, !.first = FirstOf(t, f.ts),
            !.lengths = Append(@, Stored(f)), !.offsets = Append(@, Advance(offset, Stored(f))),
            !.keys = IF f.type = 1 THEN Append(@, Len(t.lengths) + 1) ELSE @]
AppendSample(t, f, offset) ==
  [t EXCEPT !.last = f.ts, !.first = FirstOf(t, f.ts),
            !.lengths = Append(@, Stored(f)), !.offsets = Append(@, offset),
            !.keys = IF f.type = 1 THEN Append(@, Len(t.lengths) + 1) ELSE @]

Mp4Frame(f, config) ==
  LET starts == ~w.begun /\ f.type = 1
      next == IF starts THEN FtypSize + MdatSize ELSE w.next
      trak == IF starts THEN [w.trak EXCEPT ![1].config = config] ELSE w.trak
      head == IF starts THEN <<Leaf("ftyp", FtypSize), Box("mdat", FtypSize + MdatSize, MdatSize)>> ELSE <<>>
  IN IF ~w.begun /\ ~starts THEN UNCHANGED <<w, disk>>
     ELSE /\ w' = [w EXCEPT !.begun = TRUE, !.next = Advance(next, Stored(f)),
                            !.trak = [trak EXCEPT ![Track(f)] = AppendSample(@, f, next)]]
          /\ disk' = disk \o head \o <<Sample(f)>>

(* The tables go to the end, and the size of mdat into the header at 28,    *)
(* wherever that is.                                                        *)
Mp4Close ==
  LET moov == Moov(IF w.begun THEN 1 ELSE 0, w.trak[1], w.trak[2], <<>>, Duration(w.trak[1]))
      whole == disk \o moov
  IN /\ disk' = [i \in DOMAIN whole |->
                   IF i = 2 /\ w.begun
                   THEN [whole[i] EXCEPT !.size = (w.next - FtypSize) % Wide] ELSE whole[i]]
     /\ patch' = FtypSize
     /\ w' = [w EXCEPT !.file = "closed"]

-----------------------------------------------------------------------------
(* FMp4                                                                     *)

(* The first key frame brings the header; with the time 0 it is not         *)
(* remembered.  The decode time counts from the first frame, the duration   *)
(* from the frame before, of either track.                                  *)
Elapsed(f, first) == f.ts - first
Number_Reset(k) == 0
Number(k) == k

FMp4Frame(f, config) ==
  LET starts == w.first = 0 /\ f.type = 1
      v == [NoTrak EXCEPT !.config = config]
      head == IF starts THEN <<Leaf("ftyp", FtypSize)>> \o Moov(1, v, NoTrak, Mvex, 0) ELSE <<>>
      first == IF starts THEN f.ts ELSE w.first
      last == IF starts THEN f.ts ELSE w.last
  IN IF first = 0 THEN /\ disk' = disk \o head
                       /\ w' = [w EXCEPT !.begun = w.begun \/ starts]
     ELSE /\ disk' = disk \o head \o Moof(Number(w.seq), Track(f), Elapsed(f, first), Elapsed(f, last), Stored(f))
                          \o <<Sample(f)>>
          /\ w' = [w EXCEPT !.begun = TRUE, !.seq = w.seq + 1, !.first = first, !.last = f.ts]

(* The duration goes into mvhd, at the place it has behind the first ftyp.  *)
DurationAt == FtypSize + 32
FMp4Close ==
  /\ disk' = [i \in DOMAIN disk |-> IF i = 3 /\ disk[i].box = "mvhd"
                THEN [disk[i] EXCEPT !.duration = w.last - w.first] ELSE disk[i]]
  /\ patch' = DurationAt
  /\ w' = [w EXCEPT !.file = "closed"]

-----------------------------------------------------------------------------
(* librtmp::Client                                                          *)

(* A packet without the reserved bytes in front: the configuration of the   *)
(* decoder, a video frame with nine bytes of head, audio with two.          *)
ConfigBody(c, spare) == IF c[3] = 0 THEN 16 + c[1] + c[2] ELSE 43 + c[1] + c[2] + spare
Body(f) == IF f.type = 3 THEN f.len + 2 ELSE f.len + 9
FirstTime(f) == IF w.first = 0 THEN f.ts ELSE w.first

(* The packets of a frame: none for a video frame without a start code,     *)
(* two for a key frame.                                                     *)
PacketsOf(f, size) ==
  LET dts == f.ts - FirstTime(f)
      body == [box |-> IF f.type = 3 THEN "audio" ELSE "video", size |-> Body(f), own |-> Body(f),
               dts |-> dts, frame |-> f]
  IN IF f.type # 3 /\ ~f.cut THEN <<>>
     ELSE (IF f.type = 1 THEN <<[box |-> "config", size |-> size, own |-> size, dts |-> dts]>>
           ELSE <<>>) \o <<body>>

(* The first key frame sets the time the others count from, sent or not.    *)
(* The connection may break at any packet; that one and what comes later is *)
(* not sent.                                                                *)
Publish(f, size) ==
  \E n \in 0..Len(PacketsOf(f, size)) :
    /\ w.lost => n = 0
    /\ w' = [w EXCEPT !.first = FirstTime(f), !.begun = TRUE,
                      !.lost = w.lost \/ n < Len(PacketsOf(f, size))]
    /\ disk' = disk \o SubSeq(PacketsOf(f, size), 1, n)
    /\ offered' = IF w'.lost THEN offered ELSE Append(offered, f)

(* For three parameter sets Packet::Marshal takes the VPS behind the end of *)
(* Sort's result: the process dies of it, or goes on with other bytes, of   *)
(* whatever size.                                                           *)
RtmpFrame(f, config) ==
  CASE w.first = 0 /\ f.type # 1 ->
         /\ offered' = IF w.lost THEN offered ELSE Append(offered, f)
         /\ UNCHANGED <<w, disk>>
    [] f.type = 1 /\ f.cut /\ config[3] # 0 ->
         \/ w' = [w EXCEPT !.file = "undefined"] /\ UNCHANGED <<disk, offered>>
         \/ \E spare \in Lengths : Publish(f, ConfigBody(config, spare))
    [] OTHER -> Publish(f, ConfigBody(config, 0))
RtmpClose ==
  /\ w' = [w EXCEPT !.file = "closed"] /\ UNCHANGED <<disk, patch>>

-----------------------------------------------------------------------------
(* The calls                                                                *)

Open ==
  /\ w.file = "none"
  /\ w' = [w EXCEPT !.file = "open"]
  /\ UNCHANGED <<disk, patch, clock, offered>>

WriteFrame ==
  /\ w.file = "open" /\ Len(offered) < MaxOffered
  /\ \E f \in FramesOffered, config \in Configs :
       /\ f.ts >= clock /\ (~f.cut => w.kind = "rtmp" /\ f.type # 3)
       /\ \/ w.kind = "mp4" /\ Mp4Frame(f, config) /\ offered' = Append(offered, f)
          \/ w.kind = "fmp4" /\ FMp4Frame(f, config) /\ offered' = Append(offered, f)
          \/ w.kind = "rtmp" /\ RtmpFrame(f, config)
       /\ clock' = f.ts
  /\ UNCHANGED patch

Close ==
  /\ w.file = "open"
  /\ CASE w.kind = "mp4" -> Mp4Close [] w.kind = "fmp4" -> FMp4Close [] w.kind = "rtmp" -> RtmpClose
  /\ UNCHANGED <<clock, offered>>

FilesNext == Open \/ WriteFrame \/ Close
FilesSpec == FilesInit /\ [][FilesNext]_filesVars

-----------------------------------------------------------------------------
(* A reader of the file                                                     *)

(* Where each piece of the file begins, and after the last one its length.  *)
Positions(file) ==
  LET upto[n \in 0..Len(file)] ==
        IF n = 0 THEN <<0>> ELSE LET p == upto[n - 1] IN Append(p, p[n] + file[n].own)
  IN upto[Len(file)]
Boxes == {i \in DOMAIN disk : disk[i].box # "sample"}
Samples(track) == {i \in DOMAIN disk : disk[i].box = "sample" /\ Track(disk[i].frame) = track}

(* The file is closed, and has a key frame: of an Mp4, before a u32 wraps,  *)
(* of an FMp4, with a time.                                                 *)
KeyFrames == {i \in DOMAIN offered : offered[i].type = 1}
FileComplete ==
  /\ w.file = "closed" /\ w.begun
  /\ \/ w.kind = "mp4" /\ \A i \in Boxes : disk[i].box = "moov" => Positions(disk)[i] < Wide
     \/ w.kind = "fmp4" /\ offered[Min(KeyFrames)].ts # 0

(* INVARIANT.  The boxes of a closed file nest: one that begins inside      *)
(* another ends inside it, each ends where a box or a sample ends, each is  *)
(* in the kind of box it belongs to, a file has one ftyp and one moov, and  *)
(* Close writes the size of mdat, or the duration, over its field.          *)
(* Excepted are an Mp4 whose samples reach 4 GiB, where mdat_.size wraps,   *)
(* and an FMp4 whose first key frame has the time 0, which is taken for     *)
(* none: the next one writes the header again (Marshal of trak, moov, moof; *)
(* Close).                                                                  *)
Parents == {<<"trak", "moov">>, <<"mdia", "trak">>, <<"minf", "mdia">>, <<"stbl", "minf">>,
            <<"stsd", "stbl">>, <<"stts", "stbl">>, <<"stco", "stbl">>, <<"stss", "stbl">>,
            <<"avcC", "avc1">>, <<"esds", "mp4a">>, <<"traf", "moof">>, <<"trun", "traf">>,
            <<"sample", "mdat">>}
BoxesNest ==
  FileComplete =>
    LET at == Positions(disk)
        boxes == Boxes
        end == [i \in boxes |-> at[i] + disk[i].size]
    IN
    /\ \A i, j \in boxes : i < j /\ at[j] < end[i] => end[j] <= end[i]
    /\ \A i \in boxes : \E j \in DOMAIN at : at[j] = end[i]
    /\ \A j \in DOMAIN disk : \A p \in Parents : disk[j].box = p[1] =>
         LET around == {i \in boxes : i < j /\ at[j] < end[i]}
         IN around # {} /\ disk[Max(around)].box = p[2]
    /\ \A type \in {"ftyp", "moov"} : \E i \in boxes : \A j \in boxes : disk[j].box = type <=> j = i
    /\ \E i \in boxes : IF w.kind = "mp4" THEN disk[i].box = "mdat" /\ patch = at[i]
                        ELSE disk[i].box = "mvhd" /\ patch = at[i] + 24

(* INVARIANT.  The tables describe the file, also while it is being         *)
(* written: sample by sample, in both tracks, the offset and the length are *)
(* where the data is, the sync table names the key frames, and the duration *)
(* runs from the first sample to the last.  Excepted are the offsets behind *)
(* 4 GiB, of which the table has the low 32 bits, and the duration of a     *)
(* track whose first sample has the time 0, which AppendSample takes for    *)
(* none (AppendSample, WriteFrame, mdat_.size).                             *)
Nth(set, i) == Cardinality({j \in set : j <= i})
TablesTrue ==
  w.kind = "mp4" =>
    \A k \in {1, 2} :
      LET at == Positions(disk)  samples == Samples(k)  t == w.trak[k] IN
      /\ Len(t.lengths) = Cardinality(samples)
      /\ \A i \in samples :
           LET n == Nth(samples, i) IN
           /\ t.offsets[n] = at[i] % Wide /\ t.lengths[n] = disk[i].own
           /\ n \in ToSet(t.keys) <=> disk[i].frame.type = 1
      /\ samples # {} /\ disk[Min(samples)].frame.ts # 0 =>
           Duration(t) = disk[Max(samples)].frame.ts - disk[Min(samples)].frame.ts

Of(type) == {i \in DOMAIN disk : disk[i].box = type}
(* The fragments of a file are a moof and the six boxes and the sample      *)
(* behind it.                                                               *)
FragmentsChain ==
  w.kind = "fmp4" =>
    LET at == Positions(disk)  moofs == Of("moof") IN
    /\ Of("sample") = {i + 7 : i \in moofs}
    /\ \A i \in moofs :
         /\ disk[i + 1].seq = Nth(moofs, i) - 1 /\ disk[i + 5].length = disk[i + 7].own
         /\ at[i + 7] = at[i] + disk[i + 5].offset
    /\ \A i \in moofs : Nth(moofs, i) = 1 => disk[i + 4].time = disk[i + 5].duration
    /\ \A i, j \in moofs : Nth(moofs, j) = Nth(moofs, i) + 1 =>
         disk[j + 4].time = disk[i + 4].time + disk[j + 5].duration

(* The packets of a stream, beside the configurations between them.  A      *)
(* frame is due if a key frame came before it, or it is one itself, and, of *)
(* a video frame, if it has a start code.  Times count from the first key   *)
(* frame; one with the time 0 does not count as one.                        *)
FlvPackets == Of("audio") \cup Of("video")
Begins(i) == {j \in KeyFrames : j <= i /\ offered[j].ts # 0}
Due ==
  {i \in DOMAIN offered : /\ offered[i].type = 3 \/ offered[i].cut
                          /\ offered[i].type = 1 \/ Begins(i) # {}}
Since(i) == offered[i].ts - IF Begins(i) = {} THEN offered[i].ts ELSE offered[Min(Begins(i))].ts
PacketsTimed ==
  w.kind = "rtmp" =>
    /\ Cardinality(FlvPackets) = Cardinality(Due)
    /\ \A i \in FlvPackets, j \in Due : Nth(FlvPackets, i) = Nth(Due, j) =>
         disk[i].frame = offered[j] /\ disk[i].dts = Since(j)
    /\ \A i \in Of("video") : disk[i].frame.type = 1 => i - 1 \in Of("config")
    /\ \A i \in Of("config") :
         IF i = Len(disk) THEN w.lost ELSE i + 1 \in Of("video") /\ disk[i + 1].frame.type = 1

(* INVARIANT.  Each frame follows its predecessor.  Fragments are numbered  *)
(* without gaps, their decode times add up from the durations before them,  *)
(* and each points to its sample.  From the first key frame on each frame   *)
(* of a publisher becomes a packet with the time since that key frame, in   *)
(* order, and each key frame has the configuration in front of it, until    *)
(* the connection breaks; also those of H.265, as long as the process lives *)
(* (flv.hpp:93-95).  Excepted are video frames without a start code, which  *)
(* are dropped, and a key frame with the time 0, which is sent, or written  *)
(* as a header, but taken for none: the others wait for the next one        *)
(* (FMp4::WriteFrame, librtmp::Client::WriteFrame).                         *)
FramesFollow == FragmentsChain /\ PacketsTimed
=============================================================================
