# inc: a verification development

`inc` is a collection of header-only C++ tools: a channel and a thread pool, TCP
clients and servers on epoll, on asio and on blocking sockets, FTP, RTSP and RTP,
RTMP, MP4 writers, readers of NAL units, signals and slots, small utilities. This
directory holds TLA+ models of the parts whose correctness depends on the order in
which things happen, and of the algorithms where one bit too few breaks the rest; TLC
runs that check them on small instances; and TLAPS proofs, for every instance, of what
matters most about all of them but the readers of NAL units and bytes.

- `tlc -config X.cfg M` runs one of the runs that PROJECT.json lists;
- `tlapm M.tla` checks the proofs of the modules named `...Proofs`.

All paths below are relative to `src/`.

## Inventory

| Component | State | Operations | What is hard | What makes it correct |
| --- | --- | --- | --- | --- |
| Channel (`channel.hpp`) | queue, `size_`, closed flag, one mutex, one condition variable | `<<`, `>>`, `close`, range-for | readers and writers share the condition variable; `size_` is lowered before a read waits; tests of closed outside the mutex | FIFO, nothing lost, nobody left asleep, close frees readers |
| ThreadPool (`pool.hpp`) | task queue, stop flag, workers | `enqueue`, worker loop, destructor | notify outside the mutex; drain before exit; enqueue from a task during destruction | each accepted task runs once, FIFO start, nothing accepted after stop, the destructor returns |
| epoll `Client` (`net/tcp.hpp` 455-782) | `connected_`, `connecting_`, `manual_close_`; timer fd, connecting fd, addresses, `Conn` | `Connect`, `Reconnect`, `Close`, timer, connect event, close handler | callbacks that call back; blocking resolution on a thread; Close against late answers | one connection, reconnects, every Connect answered |
| epoll `Conn` (218-345) | `fd_`, `closed_`, two buffers | `Start`, `Send`, `Close`, read, dispatch, write | two threads without a lock; partial writes; handlers that send and close | messages whole, bytes in order, closed once and for all |
| epoll `Context`, `Server` (71-190, 346-452) | table of handlers, `running_`, listening fd | `Loop`, `Stop`, `Join`, `RunAsync`, `AddFd`, `DelFd`, accept | numbers reused within a batch; handlers copied out of the lock | each event reaches its owner, nothing is kept alive, Join returns |
| asio `Client`, `Conn` (`net/asio.hpp`) | session state, timer, strand queue, list of kept clients | `Connect`, `Close`, `Reconnect`, `Send` | posted handlers overtaken by later calls; who keeps the client alive | as the epoll client |
| Sockets (`net/socket.hpp`) | fd, `m_connected`, `m_listening` | `Listen`, `Accept`, `Dial`, `Read`, `LoopRead`, `Write`, `Close` | close against a recv that blocks; numbers reused | messages in order, readers leave |
| FTP (`net/ftp.hpp`) | control and data handles, line buffer, `response` | connect, login, commands, transfers, quit | late replies, broken data connections, replies of several lines | a reply belongs to its command, success is true, calls return |
| RTSP, RTP (`stream/rtsp.hpp`, `stream/rtp.hpp`) | `cmd_`, session, credentials, `dbuf_` | `Play`, `Stop`, the state machine, the depacketiser | replies and media in one stream; a challenge; lost fragments | commands in order, frames are what arrived |
| RTMP/FLV (`stream/rtmp.hpp`, `stream/flv.hpp`) | first time, whether a key frame was seen | `WriteFrame`, `WritePacket`, `Close` | where the stream begins | every frame from the first key frame on, with its configuration |
| MP4 (`stream/mp4.hpp`, `stream/mp4box.hpp`, `stream/fmp4.hpp`) | sample tables, offsets, fragment number | `WriteFrame`, `Close` | sizes and offsets known only at the end | boxes nest, tables describe the data |
| NAL/SPS (`stream/sps.hpp`, `stream/frame.hpp`) | position in a buffer | `Split`, `Sort`, `decode_sps`, `File::Read` | start codes and escapes, optional fields | the picture's size is found, frames fall apart where they were joined |
| Signals (`sigslot.hpp`) | lists of connections and their back references, an iterator | `connect`, `disconnect`, `emit`, copies, destructors | changes during emit, nested emits | no dangling iterator, both sides know each other, each slot called |
| Byte slices (`byte.hpp`), base64 (`crypto/base64.h`) | position | put and get, encode and decode | signedness of `char`, remainders | what was written is read back |
| Buffer (`buffer.hpp`) | byte vector, mutex | `Write`, `Read`, `Remove`, `Reset` | only some calls lock | a byte queue |
| KCP (`net/ikcp.hpp`) | an external `ikcpcb` | input, send, update | the external library | - |
| Timer (`timer.hpp`) | a flag shared with detached threads | `SetTimeout`, `SetInterval`, `Stop` | Stop against a sleeping thread | nothing runs after Stop |
| The rest: `log`, `file`, `string`, `time`, `proc`, `lock`, `factory`, `singleton`, digests and ciphers, `faac`, `g711`, `minimp4`, `ffmp4` | little, or third-party | | | |

The components meet in few places. `Client` makes a `Conn`; both, and `Server`, are
driven by `Context`; `Conn` keeps its bytes in `Buffer`s. RTSP reads from a blocking
socket, hands packets to RTP and frames to its user, who gives them to the MP4 writers
or to RTMP; these use `nalu::Split` and `decode_sps`. Channel and ThreadPool are used by
applications only (`test/c++_test.cpp`).

## Modules

| Module | What it is |
| --- | --- |
| `CondVar` | `std::condition_variable` (external), shared by Channel and ThreadPool |
| `Channel`, `MCChannel` | `channel.hpp`, all of it; instances for TLC |
| `BoundedFifo` | what a channel promises; Channel implements it |
| `ThreadPool` | `pool.hpp`, all of it |
| `Executor` | what a pool promises; ThreadPool implements it |
| `TcpClient` | `libtcp::Client` of `net/tcp.hpp` |
| `TcpConn` | `libtcp::Conn` of `net/tcp.hpp`, with its `Buffer`s and its entry in the table |
| `TcpLoop` | `libtcp::Context` and `Server` of `net/tcp.hpp`, with as much of `Conn` as they see |
| `AsioClient` | `libtcp::Client` and `Conn` of `net/asio.hpp` |
| `FtpClient` | `libftp::Client` of `net/ftp.hpp`, with a server |
| `RtspClient`, `MCRtspClient` | `librtsp::Client` and the RTP depacketiser, with a server; the frames it sends |
| `Signals`, `MCSignals` | `sigslot.hpp`; its symmetry |
| `Sockets` | `TcpServer` and `TcpConn` of `net/socket.hpp` |
| `Mp4Files` | the three writers: `Mp4`, `FMp4` and the RTMP client |
| `Nalu` | `sps.hpp` and `frame.hpp` as operators, and the encoder they are measured by |
| `Bytes` | `byte.hpp` and `base64.h` as operators |
| `Media`, `MCMedia` | composes the last three; the inputs |
| `ChannelProofs`, `TcpClientProofs`, `TcpConnProofs`, `TcpLoopProofs`, `AsioClientProofs` | theorems about the module of that name |
| `FtpClientProofs` | theorems about `FtpClient` and the blocking connections of `Sockets` |
| `DispatchProofs` | theorems about what calls a user's function: `ThreadPool` and `Signals` |
| `StreamProofs` | theorems about what receives and writes a stream: `RtspClient`, `Mp4Files` |

An operator called `X_Something` next to `X` is X as a plausible slip would have it (a
dropped guard, an off-by-one); PROJECT.json pairs each property with the slip that
breaks it. No run uses them otherwise. `TypeOK` in each module says what the variables
hold; it is proved of the eleven modules down to `Mp4Files`. Two components whose theorems stand
in one module have no name in common: hence `SocketsInit`, `SignalsSpec`, `FilesNext` and the like.

### Channel

`pc` is each thread's place: `enter` waits for the mutex, `wait` sleeps on `cnd_`,
`woken` has been woken and wants the mutex back, `notify` has pushed and not yet called
`notify_one`. `queue`, `size`, `closed` are `queue_`, `size_`, `is_closed_`; `out` is the
reader's output argument, for a range-for loop the iterator's `value_`. The other
variables are histories that properties speak of. A section under `mtx_` is one action,
since every access in it is serialised; what the code does outside the mutex is a step of
its own: the test of `closed()` before a write (169), `notify_one` after a push (179),
`notify_all` after a close (203), the unlocked tests of `>>` (184) and of the loop (47).
`notify_one` in `>>` (189) is called under the mutex and belongs to `ReadEnter`. Any
sleeper may be woken by a notification, whichever kind it is, and any sleeper may wake
spuriously.

`ch.empty()` on line 184 reads the queue without the mutex. The model takes its answer as
that of some moment before the mutex is taken; a torn read is outside it. As the class
comment (69) says, only writers close.

### ThreadPool

A worker's section under `queue_mutex` (43-50) is `WorkerLocked`, entered first from
`test` and after each wake-up from `woken`. `enqueue` is the section (69-75) and the
`notify_one` after it (76) as two steps, called by a submitting thread or by a task that a
worker is running. `stage` is a history of what became of each task. The destructor is its
three parts. The caller's rule that no other thread uses the pool while it is destroyed is
in `Submit` and `DestroyStop`; tasks may.

### TcpClient

`s` is the client's fields, the sockets and connections they refer to, and a few history
bits; `th` says where each thread is. Handlers are written as operators from a state to
the set of states they may leave, which compose as the code's calls do: `OnConnectEvent`
leads to `TryConnectNext`, that to `OnConnectDone` or to the user's OnClose, that to
`Reconnect`. `TryAddresses` is the `for` loop of `TryConnectNext`: the first addresses fail
at once, the next is under way or connected, or all fail.

A handler is one action up to `getaddrinfo` (`ResolveDone` is what follows it) and up to
`Conn::Start` on a thread that is not the loop's (`AnnounceOn` is what follows it, lines
769-771): there, other threads get in between. On the loop's own thread the two halves of
`OnConnectDone` are one. The client's fields have no lock: finer interleavings of two
threads inside handlers are data races and outside the model, as are calls by the
application from other threads than the loop's, once Dial has returned. The application may
call Connect whatever the client is doing; `doubled` records that a connection was open, which
Connect (607) does not look at: the exception of the two safety properties. Sending is left
to TcpConn. `epoll_ctl` is taken to succeed.

### TcpConn

One connection from its acceptance on. `th` gives each thread's place in the code (`at`),
the place its call returns to (`back`) and the result of its last `send` (`n`); Send,
HandleWrite and close_now are the same actions for the loop's thread and for another one.
They have no lock, so every access to shared state is a step: the test of `closed_` (243),
`outbox_.Write` (244), the test of HandleWrite (301), `send` (304), `Remove` (306), and in
close_now the test (319), the store (321), DelFd, `::close`, and Reset with the callback.
`rbuf_` belongs to the loop's thread, so reading and dispatching need fewer. `closed_`,
`fd_ >= 0` and the table's entry are `closed`, `open` and `table`.

Bytes are numbered as they are written, so that `wire = SubSeq(written, ...)` says
lossless, in order and once. The peer sends whole messages and HandleRead takes them in
any pieces. The handler is the one of `test/tcp_test.cpp`, which asks for more until a
message is complete; what it does with one is a choice. The kernel takes what it has room
for, the peer empties it at any time.

`overlap` records when two threads have been inside HandleWrite, inside close_now, or one
in Start and one in close_now at once. StreamIntact and Released exclude exactly the
overlap that breaks them; MessagesWhole excludes none. `local` records that this side has
decided to close (Close, or a handler that closes or refuses): EndIsNoticed says that until
then everything sent before an orderly end reaches the handler before the connection is closed.

### TcpLoop

`net` is the kernel's descriptors, with the objects they belong to, epoll's set and
Context's table, and the connections with their `fd_`, `closed_` and what they received;
`loop` is the loop's place, the rest of its batch and the handler it has copied out of the
lock. Numbers are given out lowest first, as the kernel does, so a number closed by one
handler of a batch may belong to somebody else by the time its own event is looked at. A
batch is a set of ready descriptors, each the loop takes in any order. A handler is one
action of the loop, except that HandleAccept is one for each connection it accepts; the
application's thread, which closes its own connections, stops the server and the loop and
joins, takes a step for each access: the table, epoll_ctl, `::close`, `fd_ = -1`. Why a
connection was closed is recorded: "peer", "user", or "stale" for a hang-up in the batch that
was the former owner's of its number.

### AsioClient

`queue` is what was posted to the context; `dials`, the timer and the reads and writes of
`conns` are what asio has under way. One action is one handler, with all it calls:
`RunJob` for a posted one, `DialDone`, `TimerFires`, `ReadDone` and `WriteDone` for
completions. The application calls the public operations between two handlers, and
from its OnClose. `holds` and `Alive` are the references to the client: the
application's, the Context's (`KeepClient`, `DropClient`), those of handlers under way.
`cancelled` records that a timer which waited was cancelled, whose handler leaves `connecting_`
set, until the next Connect; `overlap`, that an attempt was begun beside another one or a
connection.

### FtpClient

A public call is a script of commands, each with the class of the reply it expects; `todo`
is what is left of it, and the actions are what the code does with its head: send, read a
line, judge, open the data connection, move blocks, close and read the reply of the end.
Lines carry, as a history, the number of the command they answer; the client looks at the
first digit only. The server answers in one or several lines, at once or after the
client's timeout, transfers block by block, may refuse, break the data connection, or hang
up. `fault` records what went wrong.

### RtspClient

The client is one thread in Play, between reading and writing; `cmd` is `cmd_`. `up` and
`down` are the two directions of the connection; in `down` packets and replies mix.
`HandleReply` is doRtspParse with checkAuthorized and doWriteCmd, `HandlePacket` the
depacketiser with what Play does with a finished frame. The server may demand credentials,
offer sound, send H.264 or H.265, single units or fragments, and hang up; packets may be
lost before they reach its connection. Stop comes from another thread. `Payloads` picks
the packets' contents out of what the depacketiser put together, which also holds start
codes and unit headers. `heard` is the packets that arrived: with it MediaConserved says that
frames and `dbuf_` hold their contents once and in order (`PacketsConserved`), and that
frames of the server are not mixed (`FramesApart`): two are joined only where the last packet
of the former was lost, or was one at which Decode ends no frame.

### Signals

`conns` and `senders` are the two halves of the relation, a list in each signal and a set
in each object; `current` is `m_current_iterator`. Connections have identities, as list
nodes do. A list grows at its end only, so it is modelled as the set of its connections,
numbered in the order in which they came. An emit is a begin, one step for each slot, and
an end; `emits` is the stack of those under way, and any operation may come between two
steps, since slots are user code.

### Sockets

The reader's thread accepts, reads with LoopRead and hands messages on; the closer's steps
are `shutdown`, `::close`, `m_sock = -1`, `m_connected = false`, any step of the reader in
between. `number` says what the descriptor number stands for, so that a recv on a number
that was given away is seen (`crossed`). Such a recv takes what the new owner was sent
(`ReceivedTheirs`, units 0 in the buffer), and LoopRead hands it on.

### Media

`Mp4Files` keeps a file as the sequence of what was written, each box with the size its
header states and the length of its own fields, so that positions follow and nesting is
the relation between them. `Nalu` describes a parameter set as a sequence of fields
(width in bits or Exp-Golomb, name, condition), and `ReadFields` reads it as the code
does; DecodeAvc and DecodeHevc are the fields in the code's order. What they are measured
by is an encoder after H.264 (7.3.2.1.1, 7.4.1.1) and H.265 (7.3.2.2.1), which is external.
A publisher's connection may break at any packet; its frames may come without a start code;
offsets wrap at `Wide`, which is 2^32 in the code and 50 in the run. With three parameter sets
`Packet::Marshal` reads behind the end of a vector (`flv.hpp` 93-95): the process dies of it, or
goes on with a configuration of some size. A sequence parameter set that makes the decoder
divide by 0, or is shorter than two bytes, has an undefined result.
In `Media` a behaviour is either a writer's (`FilesSpec`, with `input` left alone) or one
call of an algorithm, whose argument is the initial state.

## Runs

| Run | Instance | Shows |
| --- | --- | --- |
| `channel` | 2 writers, 2 readers (1 range-for), capacity 1, 2 elements each | implements BoundedFifo, the meaning of `size_`, nobody left asleep, at most one stale loop value, close frees readers |
| `channel_lost_wakeup` | 3 writers, 1 reader, capacity 1 | violated: a push's only notification goes to a writer |
| `pool` | 3 workers, 2 submitters, 3 tasks | no lost wake-up, implements Executor, the destructor returns |
| `tcp_client` | 2 hosts of 3 addresses, 5 connections, 4 calls, one resolver thread | no orphaned connection, reconnects, every Connect answered |
| `tcp_conn` | 2 messages of 2 bytes, a kernel buffer of 1, one call of another thread | messages whole and in order, the sent stream intact, closed means released, the end noticed |
| `tcp_loop` | 2 accepted and 1 dialled connection, 3 descriptor numbers, one close and one restart | the table is true, data reach their owner, what is ready is served, Join returns |
| `asio` | 3 calls, 2 connections, 2 messages | `connecting_` never sticks, inert after Close, every attempt answered |
| `ftp` | 3 calls, files of 2 blocks, one fault | replies stay in step, success is true, calls return |
| `rtsp` | 2 frames of 1 to 3 packets, 1 sound packet, 1 loss, 1 keep-alive | the handshake in order, media conserved, the server is asked to play |
| `media` | 3 frames at times 0, 1, 3, lengths 1 and 5, a u32 that wraps at 50; several thousand inputs | boxes nest, tables true, frames follow, sizes read, streams cut, codes read back |
| `signals` | 2 signals, 2 objects, 3 connections each, emits 2 deep, symmetric | no dangling iterator, both sides know, emit reaches each slot |
| `sockets` | 3 messages, a window of 4 units, 3 LoopReads, 2 Dials, 2 units of another connection | messages in order, the reader leaves |

Bounds. *Channel*: capacity 1 is where `size_ < cap_` decides, each writer sends more than
that and blocks; two threads of a kind let a notification go astray among equals, and the
violation needs a third writer and has it. *Pool*: three workers with two submitters let
all be busy, asleep or leaving at once, with notifications pending. *Client*: three
addresses let a first, a middle and a last one fail, at once or later; four calls are two
rounds of Close and Connect, with a change of host, or Connects while connected; two
connections suffice to see one orphaned by the next, five let losses come between. *Conn*:
two bytes are the least message that can be cut, a read of up to three ends inside the
second, two let the loop over the buffer go on after a close, a kernel buffer of one byte
makes every send partial. *Loop*: three numbers, of which the listening socket has one,
are fewer than there are connections, so numbers are reused and accept runs out of them.
*asio*: three calls are a Connect, a Close that meets what is under way, and a Connect
after it. *FTP*: three calls are one to lose step, one to be misled, one to see it; two
blocks let a transfer break between them. *RTSP*: frames of three packets have a middle to
lose, two frames a successor to spoil. *Media*: three frames make a first, a middle and a
last in two tracks; numbers, words and sets are the boundary values of each field;
profiles are those the code lists, two without a chroma format and two it misreads; two
longest frames pass a wrap at 50, so the offset of the third is wrapped. *Signals*: two of
each are the least for a copy, a second connection and a nested emit; addresses are
interchangeable, hence the symmetry. *Sockets*: a window of two messages and three of them
let a read end anywhere.

Fairness. A thread inside a call keeps running and gets the mutex (held only for bounded
sections), a task returns, the kernel settles each connect, the loop serves whatever is
ready, asio runs what was posted, a peer reads what it is sent, an FTP or RTSP server goes
on with an answer it has begun. Nobody is obliged to write, to send, to close, to submit,
to destroy, to lose a connection, to call, or to wake up spuriously. Writers of the
Channel are not promised progress: the predicate of a write (156) does not look at
`closed()`. `signals` and `media` need none.

Deadlock checking is off in every run, because each system may stop: writers have sent
their quota or sleep on a full channel, the pool is destroyed, the client, the connection
or the file is closed, the calls are used up. That nothing stops too early is what the
liveness properties and the two properties of sleepers are for.

## What the models show of the code

- `notify_one` on the shared condition variable can be consumed by the wrong kind of
  thread (`channel.hpp` 179); all threads then sleep with an element queued. This is
  the run `channel_lost_wakeup`.
- A range-for loop stops at the close instead of at closed and empty (47), and may give
  its body a value nobody sent (40). A write passes the test for closed and pushes after
  the close (169), although 91 promises an exception.
- A failed resolution leaves `connecting_` set (`net/tcp.hpp` 554), which makes every
  later Reconnect a no-op: a premise of `ReconnectsWhenResolved`, with a failed
  `timerfd_create` (517) and a loop that overtakes a dialling thread between 768 and 769.
  The branch of `OnTimer` that resolves anew (540-543) is therefore never reached after a
  Connect. A Connect while a connection is open (607 does not look) leaves the first one
  served and unknown to the client (748), whose end then resets the fields of the second
  (761-762): the exception of `NoOrphan` and `ReconnectsWhenResolved`. Connect to another
  host uses the old host's addresses (625). A Reconnect outside OnClose cancels the timer
  that is to reconnect (637).
- After EAGAIN the outbox waits for an EPOLLOUT that nobody has asked for (309); the branch
  of HandleEvent for it (259-260) is unreachable and not in the model.
- Two threads inside HandleWrite at once double some bytes and lose others (304-306), two
  inside close_now notify twice (319-321), a close while Start registers leaves the handler
  in the table (239), and one between the test and the write of Send (243-244) leaves bytes
  in the outbox of a closed connection. `test/tcp_test.cpp` suggests Send and
  Close from a thread other than the loop's, and the callbacks run on the loop's.
- A Stop before the loop's thread has begun is forgotten (129): the premise of
  `JoinReturns`. Between `::close` and `fd_ = -1` of another thread (40) the loop may
  receive on a number that has a new owner: the exception of `OwnData`. A hang-up later in the
  batch (142-160) closes the connection that has been given the number in the meantime, and
  whose peer has done nothing: an exception of `Served`. A reset closes with what waits
  unread (253-255).
- On asio a timer cancelled by Close (`net/asio.hpp` 394) or by a second Reconnect (451) leaves
  `connecting_` set (463), and every later Reconnect is ignored (449-454) until a Connect: an
  exception of `NeverStuck`.
- A blocking recv on a number that another connection was given between `::close` and the
  recv (`net/socket.hpp` 478, 742) takes that connection's bytes and LoopRead hands them on:
  the exception of `MessagesInOrder`.
- On asio a client whose OnClose asks to reconnect has left the Context's list (554) and
  lives by its timer only; a Reconnect beside a timer's attempt dials twice (465).
- An FTP reply that times out is taken for the answer to the next command (286), and
  `FtpOpenPasv` may return what was never set: the exceptions in `Unanswered`.
- A frame whose last packet is lost stays in `dbuf_`, and the next one is written behind it and
  given away with it (`rtp.hpp` 68, 99); so are parameter sets (69) and, in H.265, a unit that
  is not in fragments (101): the exceptions of `MediaConserved`.
- The reply to DESCRIBE is used without a look at what `find_if` found (`rtsp.hpp` 459).
- The time 0 stands for none (`mp4box.hpp` 619, `fmp4.hpp` 190, `rtmp.hpp` 89).
- The offset of an MP4's samples and the size of its mdat have 32 bits (`mp4box.hpp` 617, 627):
  behind 4 GiB the tables have the low bits, and the boxes do not nest: exceptions of
  `TablesTrue` and `BoxesNest`.
- Every H.265 key frame makes `Packet::Marshal` read `units[3]` of a vector of three
  (`flv.hpp` 93-95); `PacketsTimed` speaks of the publisher whose process survives it. A video
  frame without a start code is dropped (`rtmp.hpp` 102-104), and what comes after the
  connection broke is not sent (80).
- The buffers for parameter sets have 256 (`mp4box.hpp` 660) and 512 bytes and no test; the models
  assume that they fit.
- `decode_sps` does not know the H.264 profiles 44, 83, 86, 118, 128 and 244, which name a
  chroma format (465), reads of a scaling matrix eight flags and no list (475-480),
  divides by a tick of 0 (550), reads past cropping and fields of H.264 (504-516) and past
  a predicted set of H.265 (315-325), tests an id where the chroma format is meant (234),
  and is called with the unit's header in front (579); `de_emulation_prevention` leaves a
  buffer of less than two bytes (83) and removes a 03 that belongs to the data behind one
  it has removed (84-95); `File::Read` never returns the last frame (`frame.hpp` 64);
  integers are loaded with the sign of `char` (`byte.hpp` 113).
- `disconnect(o)` removes one connection and makes the object forget the signal, although
  another connection may remain (`sigslot.hpp` 414): the exception of `BothSidesKnow`.

Each of these is a premise or an exception of a property, written where the property is,
and what the properties say holds outside them. The runs reach them; the properties do not
forbid them, and PROJECT.json says so at each hazard.

## Proofs

For all constants that satisfy the assumption each module names (finite, disjoint sets of
threads, a natural capacity, at least one worker, one address, one descriptor; messages
and buffers of at least one byte):

- Channel: `TypeCorrect`; `SizeAccounted` by induction over the steps, with the set of
  waiting readers as the quantity that `++size_` and `--size_` balance: type correctness
  and the accounting are the inductive invariant, since the counter's guard alone does not
  tell how many readers wait; `Bounded` follows with the fact that nobody leaves
  empty-handed before the close; `Conserved` by sequence lemmas; `Refinement`, in which
  the accounting turns the guard `size_ < cap_` into BoundedFifo's. `OneStaleYield` by
  counting: a loop has yielded as often as it has taken, or once more, and then it is
  between two calls on a closed channel, where the loop ends.
  `ReadersAreWoken` and `WritersAreWoken` assume `FewWriters`: at most `cap_` + 1 writers, and
  any number of readers. Then threads of both kinds never sleep at once while the channel is
  open, so a notification cannot go to the wrong kind; for readers the bound is exact, as
  the run `channel_lost_wakeup` shows with one writer more. "Nobody sleeps beside work" is
  not inductive, because a wake-up takes several steps: `WakeInv` counts the sleepers, the
  woken and those about to notify, and says that the elements sleeping readers could take are
  no more than awake readers and notifications to come, free places likewise, and that a
  close which found readers asleep has yet to call notify_all.
- ThreadPool: `TypeCorrect`; `WakeUps`, by counting how each step moves workers in and out
  of the sets of those on their way and those about to notify; `Drained` and `Refinement`
  from the invariant `StageInv`: the queue holds exactly the queued tasks, once each, the
  busy workers hold exactly the running ones, a worker leaves only a stopped and empty
  pool. The width bound uses that busy workers map onto running tasks.
- TcpConn: `TypeCorrect`. `WholeMessages` from `WholeInv`: with k bytes taken, `rbuf_` holds
  the bytes from k + 1 on, the kernel those behind them, and together they are all that has
  arrived; only three actions touch any of these. `ClosedIsReleased` from `CloseInv`: as long
  as no two calls of close_now overlap, nor one and Start, an open connection was never
  announced as closed, the one thread inside close_now stands at a place that tells how much
  of it is done, and when there is none, all is done; `Overlaps \subseteq overlap` is
  part of it, which turns the history into what the threads do now. `StreamIsIntact` from
  `StreamInv`, which also says what the outbox holds between `send` and `Remove` (the
  kernel has the first n of its bytes already), and `ShutInv`: once close_now has reset
  the outbox, nobody who found the connection open is still about to write to it.
- TcpClient: `TypeCorrect`; `NeverOrphaned` and `AlwaysReconnects` from `IInv`. Its core is
  `Apart`: a connection, an attempt and a timer exclude one another, and a closed or
  unresolved client has none; `Places`: one thread at a time is inside a call, and while
  one resolves nothing is under way; `Truth` relates `connected_` to the connection, which
  a thread between Start and line 769 has not told yet; `Goes` says that something is under
  way. Handlers compose, so each function has a lemma of what it changes, and `Becomes` is
  what all of them do to a client at rest; an action is one of these with `LeavesGood`.
  The two theorems assume that Reconnect is called from OnClose only (467); the second
  also that OnClose reconnects or closes. Once Connect was called with a connection open the
  invariant says no more than the types.
- TcpLoop: `TypeCorrect`, `TableIsTrue`, `DataIsOwn`. That an entry of the table leads to
  its owner is not inductive. `IInv` adds that `fd_` and the kernel agree (`Numbered`,
  `OwnersKnow`) but for a number that is closed and not yet forgotten, how far a closing has
  come (`Closing`), and that what waits in the backlog has no number (`NotYet`). The lowest
  free number exists because sets of descriptors are well-founded.
- Sockets (in `FtpClientProofs`): `SocketsTypeCorrect`, and `FramesInOrder` from the place
  of every unit: those delivered, those in LoopRead's buffer, those in the window and
  those to be sent make up the stream, in this order; between calls the buffer is empty,
  unless units were dropped; and all this until a recv took another connection's units.
- AsioClient: `TypeCorrect`; `ConnectingIsUnderway` and `OneConnection` from `SafeInv`. The
  flag alone says nothing of the next step: what ends an attempt clears it, which is right
  only if there is no other. `Attempts` says that an attempt is in one place, the timer, one
  posted handler or one dial; `OneConn` that there is none beside a connection, that at
  most one Conn is open, and that `connected_` knows; `Waits` is the property. OnClose may call
  Reconnect, Close or nothing, at each of the places it is called from. `CloseIsFinal` needs the types
  only, and looks at each handler that may still come when the flag of Close is set.
- FtpClient: `TypeCorrect`; `StaysInStep` and `SuccessIsTrue` from `StepInv`. Neither holds
  of a state by itself: it takes what may be under way at each place of the client, as long
  as the server answers in time (`Clean`). `UnderWay` says it: nothing (`Settled`); one
  command and its reply (`Asking`); the greeting, of one line or two (`Greeting`); or a
  transfer, which the server runs or has judged (`Transferring`), with its first reply
  still unread before the data moves. `Kept` follows the blocks: local file, connection and
  remote file make up the file in this order, and what the last reply says of them is known
  before it is read. `PlaceInv` says which commands a call may have left (`Plan`); a judged
  reply leads to another of these (`GoesOn`). A timeout, a hang-up and a data connection
  that cannot be made leave `Clean`, so the theorems say nothing of what follows them; one
  that breaks while it is used does not.
- RtspClient: `RtspTypeCorrect`. `ScriptFollowed` from `HInv`: that what was said is a prefix of
  the script is not inductive, since nothing in it tells what is said next. `InScript` says
  that what was said, followed by what the client's place lets it say (`Rest`), is the whole
  script; that while the client waits for a reply, one command or its reply is on the way
  (`OneUnderWay`), and the reply is the one its command deserves (`Answer`); and that what the
  client has learnt - credentials, session, sound - is what the server told it (`Learnt`).
  Keep-alives come after the script and leave it alone. `NothingLost`: a packet adds to
  frames and `dbuf_` together the contents it adds to `heard` (`JoinedAdds`), and a frame
  that is given away moves from one to the other. That frames stay apart needs to know what is
  still to come (`OrderInv`): packets come frame by frame, the marked one last, what was given
  belongs to frames that are over, and `dbuf_` to none whose end came.
- Signals: `SignalsTypeCorrect`, `IteratorsValid`, `KnownOnBothSides`, `EmitsReachEach` from one
  invariant. A list is `Sound` if its numbers differ and have been given out, and its iterator
  stands at one of them or at the end. `Knows` adds to the property that an object knows no
  signal which has no connection to it, and that what is gone holds nothing: a destructor
  reaches the other side by what is known on this one. `Reaches` is what an emit owes while
  it runs: each connection it began with is gone, has been called or lies ahead of the
  iterator; an emit that ran inside it moves the iterator for both, and then nothing is said
  of twice.
- Mp4Files: `FilesTypeCorrect`, `TablesDescribe` and `FramesInTime` from `FilesIInv`, which keeps a
  writer's own account beside its file. `Mp4Good`: the tables describe the samples written so
  far, and `next` is the length of the file, which the guard of no step tells: the next
  offset is right because of it; a file that is open and begun has the header of mdat as its
  second piece, where Close writes. A frame appended moves no piece in front of it
  (`FileExtended`), is the last of its track and numbered one more than those before
  (`TableAppended`), and leaves the other track alone (`TableKept`). `FMp4Good`: the fragments are
  numbered 0, 1, ... and `seq` is their count, the last decode time is `last` - `first`; a
  fragment is seven boxes of 108 bytes and the sample, which is where trun points
  (`MoofType`, `FragmentAdded`), and the head of the file holds no moof. `RtmpGood`: `first` is the
  time of the first key frame, and the n-th packet with a frame is the n-th frame that is due
  (`Due`), as far as the connection took them.
  These two, and what the tables say of durations, speak of frames whose times are not 0, which
  the code takes for "not set"; offsets (modulo `Wide`), lengths and key frames are right for
  any times.
  `BoxesNestInFiles` shows `BoxesNest` from `BoxesIInv`, which says at each moment how far a file is
  built. `Nested` says of a stretch of pieces that each box ends where a piece begins, with all
  that begins inside it, and lies in a box of its kind or is at the top. It is kept by
  concatenation (`NestedJoin`), by a box written in front of what its size counts
  (`NestedWrap`), and wherever else the same pieces stand (`NestedAlike`), so trak, moov, moof
  and mvex nest because their parts do (`TrakFills`, `MoovWhole`, `MoofFills`, `MvexFills`); the size
  `Trak::Marshal` adds up is the room its tables take (`TablesFill`). Until Close an mdat is a
  header without a length and the samples behind it (`Laid`), which the write at `patch` makes
  one box (`LaidHeaded`); of an fmp4 the head stays as Begin left it (`Opened`). The theorem
  assumes that frames have a byte at least (`Lengthy`), as NAL units do: a sample of no bytes
  at the end would begin where its mdat ends.
- `StreamProofs` reasons by induction over data where it must: a recursive function on 0..n exists
  and is unique (`Recursion`, `RecursionUnique`), by the least number for which this fails.
  `FlattenSeq` and `Payloads` of a sequence with one more member follow (`FlattenAppend`,
  `PayloadsAppend`), and so do the positions in a file and the size of boxes (`FilePlaces`).
- Counts over program counters (`Count`, `CountMoves`) carry the wake-up proofs of
  Channel and ThreadPool: how many threads are at some places, and what one that moves
  changes.

Only model-checked: liveness (fairness and ENABLED are out of the prover's reach), and with
it `AttemptAnswered` of AsioClient and `CallsReturn` of FtpClient; and `Nalu` and `Bytes`, which
compute with folds, with `SelectSeq` and with sorting, whose definitions the prover does not
expand, over fields of bits and modulo powers of two: `SizeRead`, `FramesCut` and `ReadsBack` are
about the values themselves and are checked on the bounded inputs.

## Not modelled

PROJECT.json lists every component with its status and the reason. External libraries
(librtmp, FFmpeg, faac, ikcp, asio itself) and vendored code (`minimp4.hpp`, `g711.h`,
digests and ciphers) stay out; so do helpers without state to relate (`log`, `file`,
`string`, `time`, `proc`, `lock`, `factory`, `singleton`). Timer is detached threads that
sleep and test one flag; a Stop followed at once by SetTimeout clears the flag (56) before the
former thread looks. Of the modelled components these parts are left out: FTP's active and
ascii modes, listings and progress callbacks; UDP and socket options; the asio Server and
the Context's Stop; FLV file tags, which nothing calls; what a box
says beside sizes, offsets, counts and times; KCP.
