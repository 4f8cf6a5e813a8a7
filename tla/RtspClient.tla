----------------------------- MODULE RtspClient -----------------------------
(***************************************************************************)
(* librtsp::Client (stream/rtsp.hpp) with the RTP depacketiser it uses      *)
(* (stream/rtp.hpp): one TCP connection on which replies to commands and    *)
(* media packets arrive in one stream.  cmd_ says which reply is awaited;   *)
(* Play runs it in the caller's thread, Stop may be called by another one.  *)
(* A reply is a record of what the client looks at; a packet carries the    *)
(* frame it belongs to and its place there.  Arrival in pieces belongs to   *)
(* LoopRead and is in Sockets.  A second Play of one object throws in Dial, *)
(* since nothing closes the connection before the destructor.  Left out:    *)
(* a session named in the reply to DESCRIBE, aggregated NAL units.          *)
(***************************************************************************)
EXTENDS Naturals, Sequences, SequencesExt

CONSTANTS
  Shapes,    \* what frames the server sends: sets of tuples of packet kinds
  MaxFrames, \* bound: video frames
  MaxAudio,  \* bound: audio packets
  MaxLost,   \* bound: packets lost on the way to the server's connection
  MaxQueued, \* bound: messages on their way when a packet is sent
  MaxAlive   \* bound: times the ten seconds of doKeepalive pass

(* Packet kinds: a NAL unit in one packet, or the start, a middle part and  *)
(* the end of one in fragments; of a key frame or another one; parameter    *)
(* sets come in one packet before a key frame.                              *)
Kinds == {"sets", "key", "other", "keyStart", "otherStart", "part", "end"}

ASSUME RtspAssumption ==
  /\ \A shape \in Shapes : shape \in Seq(Kinds) /\ shape # <<>>
  /\ MaxFrames \in Nat /\ MaxAudio \in Nat /\ MaxLost \in Nat
  /\ MaxQueued \in Nat /\ MaxAlive \in Nat

VARIABLES
  server,  \* what it demands and offers, and what it is sending
  client,  \* place, cmd_, session, baseAuth, atype_, the command to be written
  up,      \* commands on their way
  down,    \* replies and packets on their way
  dbuf,    \* dbuf_: the parts put together so far
  frames,  \* history: what callFrame was given
  heard,   \* history: video packets that were decoded
  said,    \* history: commands written, without keep-alives
  alive,   \* history: keep-alives
  slow     \* history: the server was too slow, refused something or hung up

vars == <<server, client, up, down, dbuf, frames, heard, said, alive, slow>>

Commands == {"OPTIONS", "DESCRIBE", "SETUP", "PLAY", "GET_PARAMETER", "TEARDOWN"}
None == "none"
Nothing == [cmd |-> None, then |-> None]
Ended == {"returned", "thrown", "undefined"}

(* What each side sends: commands, replies to them, and packets; and what   *)
(* is put together of the packets.                                          *)
CommandsSent == [cmd : Commands, auth : BOOLEAN, session : BOOLEAN]
Replies == [kind : {"reply"}, answer : {"ok", "challenge", "refused"}, session : BOOLEAN,
            video : BOOLEAN, audio : BOOLEAN]
Packets == [kind : Kinds \cup {"audio"}, frame : 0..MaxFrames, marker : BOOLEAN]
Parts == ({"E", "unit"} \cup Kinds) \X (0..MaxFrames)
Demands == {{}, {"DESCRIBE"}, {"OPTIONS", "DESCRIBE"}, {"PLAY"}}

ServerStates ==
  [demands : Demands, trusts : BOOLEAN, audio : BOOLEAN, hevc : BOOLEAN,
   state : {"asked", "playing", "gone"}, session : BOOLEAN, frame : 0..MaxFrames,
   left : Seq(Kinds), sounds : 0..MaxAudio, lost : 0..MaxLost]
ClientStates ==
  [at : {"reading", "handling"} \cup Ended, cmd : Commands \cup {"SETAUDIO"}, session : BOOLEAN,
   auth : BOOLEAN, audio : {"no", "want", "set"}, offered : BOOLEAN,
   say : [cmd : Commands \cup {None}, then : Commands \cup {"SETAUDIO", None}]]

TypeOK ==
  /\ server \in ServerStates /\ client \in ClientStates
  /\ client.at = "handling" =>
       client.say.cmd \in Commands /\ client.say.then \in Commands \cup {"SETAUDIO"}
  /\ up \in Seq(CommandsSent) /\ down \in Seq(Replies \cup Packets)
  /\ dbuf \in Seq(Parts) /\ frames \in Seq(Seq(Parts)) /\ heard \in Seq(Packets)
  /\ said \in Seq(Commands) /\ alive \in 0..MaxAlive /\ slow \in BOOLEAN

Command(cmd, auth, session) == [cmd |-> cmd, auth |-> auth, session |-> session]

(* Play has dialled and written OPTIONS.                                    *)
Init ==
  /\ server \in [demands : Demands, trusts : BOOLEAN,
                 audio : BOOLEAN, hevc : BOOLEAN, state : {"asked"}, session : {FALSE},
                 frame : {0}, left : {<<>>}, sounds : {0}, lost : {0}]
  /\ client \in [at : {"reading"}, cmd : {"OPTIONS"}, session : {FALSE}, auth : {FALSE},
                 audio : {"no", "want"}, offered : {FALSE}, say : {Nothing}]
  /\ up = <<Command("OPTIONS", FALSE, FALSE)>> /\ said = <<"OPTIONS">>
  /\ down = <<>> /\ dbuf = <<>> /\ frames = <<>> /\ heard = <<>>
  /\ alive = 0 /\ slow = FALSE

-----------------------------------------------------------------------------
(* The server                                                               *)

Reply(answer, session, video, audio) ==
  [kind |-> "reply", answer |-> answer, session |-> session, video |-> video, audio |-> audio]
Packet(kind, frame, marker) == [kind |-> kind, frame |-> frame, marker |-> marker]

ServerReplies ==
  /\ server.state # "gone" /\ up # <<>>
  /\ LET c == Head(up)
         known == c.auth /\ server.trusts
     IN \/ /\ c.cmd \in server.demands /\ ~known
           /\ down' = Append(down, Reply("challenge", FALSE, FALSE, FALSE))
           /\ UNCHANGED <<server, slow>>
        \/ /\ c.cmd \notin server.demands \/ known
           /\ \/ /\ down' = Append(down, Reply("ok", c.cmd = "SETUP", c.cmd = "DESCRIBE",
                                               c.cmd = "DESCRIBE" /\ server.audio))
                 /\ server' = [server EXCEPT !.session = @ \/ c.cmd = "SETUP",
                                 !.state = CASE c.cmd = "PLAY" /\ c.session -> "playing"
                                             [] c.cmd = "TEARDOWN" -> "gone" [] OTHER -> @]
                 /\ UNCHANGED slow
              \/ /\ down' = Append(down, Reply("refused", FALSE, FALSE, FALSE))
                 /\ slow' = TRUE /\ UNCHANGED server
  /\ up' = Tail(up)
  /\ UNCHANGED <<client, dbuf, frames, heard, said, alive>>

ServerHangsUp ==
  /\ server.state # "gone"
  /\ server' = [server EXCEPT !.state = "gone"] /\ slow' = TRUE
  /\ UNCHANGED <<client, up, down, dbuf, frames, heard, said, alive>>

(* The next packet of a frame, or of the sound; a packet may be lost before *)
(* it gets here (a camera that drops it).                                   *)
ServerSends ==
  /\ server.state = "playing" /\ Len(down) < MaxQueued
  /\ \/ /\ server.left = <<>> /\ server.frame < MaxFrames
        /\ \E shape \in Shapes : server' = [server EXCEPT !.left = shape, !.frame = @ + 1]
        /\ UNCHANGED down
     \/ /\ server.left # <<>>
        /\ \/ /\ down' = Append(down, Packet(Head(server.left), server.frame, Len(server.left) = 1))
              /\ server' = [server EXCEPT !.left = Tail(@)]
           \/ /\ server.lost < MaxLost /\ UNCHANGED down
              /\ server' = [server EXCEPT !.left = Tail(@), !.lost = @ + 1]
     \/ /\ server.sounds < MaxAudio
        /\ server' = [server EXCEPT !.sounds = @ + 1]
        /\ down' = Append(down, Packet("audio", 0, TRUE))
  /\ UNCHANGED <<client, up, dbuf, frames, heard, said, alive, slow>>

-----------------------------------------------------------------------------
(* Replies                                                                  *)

SayNext(c, cmd, then) == [c EXCEPT !.say = [cmd |-> cmd, then |-> then], !.at = "handling"]

(* checkAuthorized: one challenge is answered, the next one ends Play.      *)
SetAuth(c) == [c EXCEPT !.auth = TRUE]
Challenged_Silent(c) == SetAuth(c)
Challenged(c) == IF c.auth THEN [c EXCEPT !.at = "thrown"]
                 ELSE SayNext(SetAuth(c), c.cmd, c.cmd)

(* The switch of doRtspParse on cmd_.  The reply is not matched with its    *)
(* command in any other way, and its status is looked at only for a         *)
(* challenge to OPTIONS or DESCRIBE; find_if without a video stream gives   *)
(* end(), which is read.                                                    *)
Described_KeepsCmd(c, r) == SayNext(c, "SETUP", "DESCRIBE")
Described(c, r) ==
  IF r.video THEN SayNext([c EXCEPT !.offered = r.audio], "SETUP", "SETAUDIO")
  ELSE [c EXCEPT !.at = "undefined"]
SetUp(c, r) ==
  LET d == [c EXCEPT !.session = @ \/ r.session] IN
  IF c.audio = "want" /\ c.offered THEN SayNext([d EXCEPT !.audio = "set"], "SETUP", "SETUP")
  ELSE SayNext(d, "PLAY", "PLAY")

Parsed(c, r) ==
  CASE c.cmd \in {"OPTIONS", "DESCRIBE"} /\ r.answer = "challenge" -> Challenged(c)
    [] c.cmd = "OPTIONS" /\ r.answer # "challenge" -> SayNext(c, "DESCRIBE", "DESCRIBE")
    [] c.cmd = "DESCRIBE" /\ r.answer # "challenge" -> Described(c, r)
    [] c.cmd = "SETAUDIO" -> SetUp(c, r)
    [] c.cmd = "SETUP" -> SayNext(c, "PLAY", "PLAY")
    [] OTHER -> c

HandleReply ==
  /\ client.at = "reading" /\ down # <<>> /\ Head(down).kind = "reply"
  /\ client' = Parsed(client, Head(down)) /\ down' = Tail(down)
  /\ UNCHANGED <<server, up, dbuf, frames, heard, said, alive, slow>>

(* doWriteCmd, at the end of the handling.                                  *)
SayCommand ==
  /\ client.at = "handling"
  /\ LET cmd == client.say.cmd IN
     /\ client' = [client EXCEPT !.at = "reading", !.cmd = client.say.then, !.say = Nothing]
     /\ up' = Append(up, Command(cmd, client.auth, client.session)) /\ said' = Append(said, cmd)
  /\ UNCHANGED <<server, down, dbuf, frames, heard, alive, slow>>

(* Stop, by another thread, at any time.                                    *)
Stop ==
  /\ client.at \notin Ended /\ "TEARDOWN" \notin ToSet(said)
  /\ client' = [client EXCEPT !.cmd = "TEARDOWN"]
  /\ up' = Append(up, Command("TEARDOWN", client.auth, client.session))
  /\ said' = Append(said, "TEARDOWN")
  /\ UNCHANGED <<server, down, dbuf, frames, heard, alive, slow>>

(* Read throws after a second without data, or at the end of the stream.    *)
ReadThrows ==
  /\ client.at = "reading" /\ down = <<>>
  /\ client' = [client EXCEPT !.at = "thrown"]
  /\ slow' = (slow \/ up # <<>> \/ server.state # "asked")
  /\ UNCHANGED <<server, up, down, dbuf, frames, heard, said, alive>>

-----------------------------------------------------------------------------
(* Packets                                                                  *)

SetsMark == <<"E", 0>>            \* the parameter sets of the description
UnitMark(p) == <<"unit", p.frame>> \* a start code and the unit's first byte
Payload(p) == <<p.kind, p.frame>>
Fragment(p) == p.kind \in {"keyStart", "otherStart", "part", "end"}
Starts(p) == p.kind \in {"keyStart", "otherStart"}

(* UnmarshalAVC and UnmarshalHVC: what dbuf_ becomes.  The parameter sets   *)
(* are put before a key frame in fragments that begins an empty buffer.     *)
Joined(b, p) ==
  CASE ~Fragment(p) -> b \o <<UnitMark(p), Payload(p)>>
    [] Starts(p) -> b \o (IF p.kind = "keyStart" /\ b = <<>> THEN <<SetsMark>> ELSE <<>>)
                      \o <<UnitMark(p), Payload(p)>>
    [] OTHER -> Append(b, Payload(p))

(* When they return a type: at the marker, AVC of a picture's unit, HEVC of *)
(* the last fragment.                                                       *)
Complete(p, hevc) ==
  p.marker /\ IF hevc THEN p.kind = "end" ELSE p.kind # "sets"

AfterFrame_Keeps(b) == b
AfterFrame(b) == <<>>

(* One packet; the user's callback may ask for the end; a keep-alive is     *)
(* written when ten seconds have passed.                                    *)
HandlePacket ==
  /\ client.at = "reading" /\ down # <<>> /\ Head(down).kind # "reply"
  /\ LET p == Head(down)  b == Joined(dbuf, p)
         video == p.kind # "audio"
         full == video /\ Complete(p, server.hevc)
         calls == full \/ (~video /\ client.audio = "set")
     IN /\ dbuf' = IF ~video THEN dbuf ELSE IF full THEN AfterFrame(b) ELSE b
        /\ heard' = IF video THEN Append(heard, p) ELSE heard
        /\ frames' = IF full THEN Append(frames, b) ELSE frames
        /\ \/ /\ calls /\ client' = [client EXCEPT !.at = "returned"] /\ UNCHANGED <<up, alive>>
           \/ UNCHANGED <<client, up, alive>>
           \/ /\ alive < MaxAlive /\ alive' = alive + 1
              /\ client' = [client EXCEPT !.cmd = "GET_PARAMETER"]
              /\ up' = Append(up, Command("GET_PARAMETER", client.auth, client.session))
  /\ down' = Tail(down)
  /\ UNCHANGED <<server, said, slow>>

Server == ServerReplies \/ ServerHangsUp \/ ServerSends
Client == HandleReply \/ SayCommand \/ ReadThrows \/ HandlePacket
Next == Server \/ Client \/ Stop

Spec == Init /\ [][Next]_vars
FairSpec == Spec /\ WF_vars(Client) /\ WF_vars(ServerReplies)

-----------------------------------------------------------------------------
(* INVARIANT.  The commands of the handshake come in order, each once, or   *)
(* twice if the first was challenged, and a PLAY asks for a session that    *)
(* the server gave, unless it refused the SETUP or Stop interfered          *)
(* (doRtspParse, checkAuthorized, doWriteCmd).                              *)
Script ==
  (IF "OPTIONS" \in server.demands THEN <<"OPTIONS", "OPTIONS">> ELSE <<"OPTIONS">>)
  \o (IF server.demands = {"DESCRIBE"} THEN <<"DESCRIBE", "DESCRIBE">> ELSE <<"DESCRIBE">>)
  \o (IF server.audio /\ client.audio # "no"
      THEN <<"SETUP", "SETUP">> ELSE <<"SETUP">>) \o <<"PLAY">>
Handshake ==
  "TEARDOWN" \notin ToSet(said) /\ ~slow =>
    /\ IsPrefix(said, Script)
    /\ \A i \in DOMAIN up : up[i].cmd = "PLAY" => up[i].session

(* INVARIANT.  What the user is given, followed by what dbuf_ holds, is     *)
(* what arrived: no packet is lost or doubled by the client (Decode, Play,  *)
(* Buffer::Reset).  And what is given are the server's frames: one never    *)
(* lies in two of them, and two lie in one only if the end of the former    *)
(* did not come.  These are the exceptions, in which b.Write goes on behind *)
(* the remains of a frame (rtp.hpp 68, 99): its last packet was lost; or it *)
(* was one at which Decode ends no frame, parameter sets (69), or in HEVC a *)
(* unit that is not in fragments (101).                                     *)
IsPayload(x) == x # SetsMark /\ x[1] # "unit"
Payloads(b) ==
  LET some[i \in 0..Len(b)] ==
        IF i = 0 THEN <<>>
        ELSE IF IsPayload(b[i]) THEN Append(some[i - 1], b[i]) ELSE some[i - 1]
  IN some[Len(b)]
EndCame(f) ==
  \E i \in DOMAIN heard :
    /\ heard[i].frame = f /\ heard[i].marker
    /\ heard[i].kind # "sets" /\ (server.hevc => heard[i].kind = "end")
OfFrames(x, y) == SetsMark \notin {x, y}
Before(a, b) == \A x \in ToSet(a), y \in ToSet(b) : OfFrames(x, y) => x[2] < y[2]
Apart(b) == \A x, y \in ToSet(b) : OfFrames(x, y) /\ x[2] < y[2] => ~EndCame(x[2])
PacketsConserved ==
  Payloads(FlattenSeq(Append(frames, dbuf))) = [i \in DOMAIN heard |-> Payload(heard[i])]
FramesApart ==
  LET all == Append(frames, dbuf) IN
  /\ \A i, j \in DOMAIN all : i < j => Before(all[i], all[j])
  /\ \A i \in DOMAIN all : Apart(all[i])
MediaConserved == PacketsConserved /\ FramesApart

(* PROPERTY.  A server that answers, offers video and accepts what it       *)
(* demanded is asked to play: the client never waits for a reply to nothing *)
(* (the state machine of cmd_).                                             *)
AsksToPlay ==
  <>(\/ "PLAY" \in ToSet(said) \/ "TEARDOWN" \in ToSet(said) \/ slow
     \/ client.at = "thrown" /\ client.auth /\ ~server.trusts)
=============================================================================
