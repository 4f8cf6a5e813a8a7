------------------------------ MODULE FtpClient ------------------------------
(***************************************************************************)
(* libftp::Client (net/ftp.hpp): a blocking FTP client, one control         *)
(* connection and, during a transfer, one passive data connection.          *)
(*                                                                          *)
(* A public call is the list of the commands it sends, each with the class  *)
(* of the reply it expects; the actions are what the code does with the     *)
(* command at the head of that list.  A reply line carries the number of    *)
(* the command it answers, which the client cannot see: it looks at the     *)
(* first digit only.  Left out: ascii mode, port mode (which the code       *)
(* refuses after TYPE), the progress and idle callbacks, a line that        *)
(* arrives in parts, and the text of commands.                              *)
(***************************************************************************)
EXTENDS Integers, Sequences, FiniteSets

CONSTANTS
  Blocks,   \* blocks of a file
  MaxCalls, \* bound: public calls made
  Calls,    \* the public calls the application makes
  Faults,   \* what may go wrong: "late", "lost", "nodata", "reset", "disk"
  MaxFaults \* bound: how many of them on one connection

ASSUME FtpAssumption ==
  /\ Blocks \in Nat \ {0} /\ MaxCalls \in Nat /\ MaxFaults \in Nat
  /\ Calls \subseteq {"connect", "login", "mkdir", "size", "get", "put", "quit"}
  /\ Faults \subseteq {"late", "lost", "nodata", "reset", "disk"}

VARIABLES
  at,       \* where the client is
  call,     \* the public call it is in, or the last one
  todo,     \* commands the call has yet to finish, the current one first
  result,   \* what the last call returned
  handle,   \* the control connection: "none", "open" or "dead"
  response, \* context_->response
  match,    \* the reply code that closes a reply of several lines
  buffered, \* lines in context_->buf
  data,     \* the data socket: number of the command it is for, or 0
  local,    \* Get: the local file; Put: what is left of it to read
  sent,     \* number of the last command
  kernel,   \* lines that have arrived and were not read
  server,   \* commands the server has not answered
  xfer,     \* the server's side of a transfer
  wire,     \* blocks under way on the data connection
  remote,   \* Get: what the server has left to send; Put: its file
  fault,    \* history: what went wrong since Connect was called
  calls     \* history: calls made

client == <<at, call, todo, result, handle, response, match, buffered, data, local, sent>>
peer == <<kernel, server, xfer, wire, remote>>
vars == <<client, peer, fault, calls>>

Classes == {"1", "2", "3", "4", "5"}
Line(n, class, more) == [of |-> n, class |-> class, more |-> more]
File == [i \in 1..Blocks |-> i]
Command(verb, expected) == [verb |-> verb, expected |-> expected]
NoXfer == [n |-> 0, verb |-> "none", stage |-> "none"]

TypeOK ==
  /\ at \in {"idle", "send", "dial", "await", "rest", "read", "write"}
  /\ call \in Calls \cup {"none"} /\ result \in {-1, 0, 1}
  /\ handle \in {"none", "open", "dead"} /\ data \in 0..sent
  /\ match \in Classes \cup {"none"}
  /\ \A l \in {response} \cup {buffered[i] : i \in DOMAIN buffered}
                          \cup {kernel[i] : i \in DOMAIN kernel} :
       /\ l.of \in 0..sent /\ l.more \in BOOLEAN
       /\ l.class \in Classes \cup {"none", "errno"}
  /\ xfer.stage \in {"none", "open", "ended", "broken"} /\ xfer.n \in 0..sent
  /\ \A s \in {local, wire, remote} : Len(s) <= Blocks
  /\ fault \subseteq Faults \cup {"uninit", "stale"}
  /\ calls \in 0..MaxCalls

(* A fault happens: again, or one more.                                     *)
May(f) == f \in fault \/ (f \in Faults /\ Cardinality(fault \cap Faults) < MaxFaults)

Init ==
  /\ at = "idle" /\ call = "none" /\ todo = <<>> /\ result = 0
  /\ handle = "none" /\ response = Line(0, "none", FALSE) /\ match = "none"
  /\ buffered = <<>> /\ data = 0 /\ local = <<>> /\ sent = 0
  /\ kernel = <<>> /\ server = <<>> /\ xfer = NoXfer /\ wire = <<>> /\ remote = <<>>
  /\ fault = {} /\ calls = 0

-----------------------------------------------------------------------------
(* The calls                                                                *)

(* FtpAccess and FtpOpenPasv: what a transfer sends.                        *)
Transfer(verb, from) ==
  <<Command("TYPE", "2"), Command("PASV", "2")>>
    \o (IF from # 0 THEN <<Command("REST", "3")>> ELSE <<>>)
    \o <<Command(verb, "1"), Command("end", "2")>>

Script(c, from) ==
  CASE c = "connect" -> <<Command("dial", "2")>>
    [] c = "login" -> <<Command("USER", "3"), Command("PASS", "2")>>
    [] c = "mkdir" -> <<Command("MKD", "2")>>
    [] c = "size" -> <<Command("TYPE", "2"), Command("SIZE", "2")>>
    [] c = "get" -> Transfer("RETR", from)
    [] c = "put" -> Transfer("STOR", from)
    [] c = "quit" -> <<Command("QUIT", "2")>>

Verb == Head(todo).verb

Return(r) == at' = "idle" /\ result' = r /\ todo' = <<>>

(* A call begins.  Connect is called only without a connection, which it    *)
(* would lose.  Get with an offset appends to a file that has so many       *)
(* blocks, Put with one seeks past them.  Connect resets neither the buffer *)
(* nor the response.  A transfer the client has abandoned ends at the       *)
(* server, either way.                                                      *)
Begin ==
  /\ at = "idle" /\ calls < MaxCalls
  /\ \E c \in Calls, from \in 0..(Blocks - 1) :
       /\ c = "connect" => handle = "none"
       /\ c \notin {"get", "put"} => from = 0
       /\ call' = c /\ todo' = Script(c, from)
       /\ at' = IF c = "connect" THEN "dial" ELSE "send"
       /\ local' = CASE c = "get" -> SubSeq(File, 1, from)
                     [] c = "put" -> SubSeq(File, from + 1, Blocks)
                     [] OTHER -> <<>>
       /\ remote' = CASE c = "get" -> SubSeq(File, from + 1, Blocks)
                      [] c = "put" -> SubSeq(File, 1, from)
                      [] OTHER -> <<>>
       /\ fault' = IF c # "connect" THEN fault
                   ELSE IF buffered = <<>> THEN {} ELSE {"stale"}
  /\ calls' = calls + 1 /\ wire' = <<>>
  /\ IF xfer.stage = "open"
     THEN \E s \in {"ended", "broken"} : xfer' = [xfer EXCEPT !.stage = s]
     ELSE UNCHANGED xfer
  /\ UNCHANGED <<result, handle, response, match, buffered, data, sent, kernel, server>>

(* FtpXfer cannot open the local file: nothing was sent.                    *)
OpenLocalFails ==
  /\ at = "send" /\ Verb = "TYPE" /\ call \in {"get", "put"} /\ May("disk")
  /\ Return(0)
  /\ response' = Line(0, "errno", FALSE) /\ fault' = fault \cup {"disk"}
  /\ UNCHANGED <<call, handle, match, buffered, data, local, sent, peer, calls>>

(* Connect: no address, no socket, no connection, or one that is greeted.   *)
Connect ==
  /\ at = "dial" /\ call = "connect"
  /\ \/ /\ Return(0) /\ UNCHANGED <<handle, sent, server, kernel, xfer>>
     \/ /\ handle' = "open" /\ at' = "await" /\ sent' = sent + 1
        /\ server' = <<[n |-> sent + 1, verb |-> "dial", begun |-> "none"]>>
        /\ kernel' = <<>> /\ xfer' = NoXfer
        /\ UNCHANGED <<todo, result>>
  /\ UNCHANGED <<call, response, match, buffered, data, local, wire, remote, fault, calls>>

-----------------------------------------------------------------------------
(* How a call goes on after a reply was judged                              *)

Abort == Command("abort", "2")

(* FtpOpenPasv gives up once PASV was answered: it returns not -1 but what  *)
(* ret held, which FtpAccess takes for success, and FtpXfer works on the    *)
(* context it left uninitialised.  If that holds no direction, FtpRead,     *)
(* FtpWrite and FtpClose return 0; if it is the freed context of an earlier *)
(* transfer, they fail on its closed socket and FtpClose reads a reply.     *)
Unopened ==
  LET writes == call = "put" /\ local # <<>> IN
  /\ fault' = fault \cup {"uninit"} \cup (IF at = "dial" THEN {"nodata"} ELSE {})
  /\ \/ Return(IF writes THEN 0 ELSE -1)
     \/ /\ at' = "await"
        /\ todo' = <<IF writes THEN Abort ELSE todo[Len(todo)]>>
        /\ UNCHANGED result

HangsUp == "none"
Abandons == 0

(* The reply is not the one expected, or none came.  resp is what the       *)
(* response buffer holds.                                                   *)
Failed(resp) ==
  /\ data' = Abandons
  /\ handle' = IF Verb \in {"dial", "QUIT"} THEN HangsUp ELSE handle
  /\ IF Verb \in {"REST", "RETR", "STOR"} THEN Unopened
     ELSE /\ Return(CASE Verb = "USER" /\ resp.class = "2" -> 1
                      [] Verb = "end" -> -1
                      [] OTHER -> 0)
          /\ UNCHANGED fault

(* The reply is the one expected: the next command, the data, or the end of *)
(* the call.  Size can still fail on what it parses, and a transfer on a    *)
(* reply to PASV in which no address stands.                                *)
NoAddress == Verb = "PASV" /\ Return(0)
Done ==
  /\ \/ NoAddress
     \/ IF Len(todo) > 1
        THEN /\ todo' = Tail(todo)
             /\ at' = CASE Verb = "RETR" -> "read"
                        [] Verb = "STOR" -> "write"
                        [] OTHER -> "send"
             /\ UNCHANGED result
        ELSE \E r \in (CASE Verb = "SIZE" -> {0, 1} [] Verb = "abort" -> {0} [] OTHER -> {1}) :
               Return(r)
  /\ handle' = IF Verb = "QUIT" THEN HangsUp ELSE handle
  /\ UNCHANGED <<data, fault>>

Accepts_Any(resp) == resp.class \in Classes
Accepts(resp) == resp.class = Head(todo).expected

Judge(resp) == IF Accepts(resp) THEN Done ELSE Failed(resp)

-----------------------------------------------------------------------------
(* Commands and replies                                                     *)

(* FtpSendCmd, and FtpOpenPasv for RETR and STOR.  A first write on a       *)
(* connection the server has closed still succeeds.                         *)
Send ==
  /\ at = "send"
  /\ \/ /\ handle # "none"
        /\ sent' = sent + 1
        /\ server' = IF handle = "open"
                     THEN Append(server, [n |-> sent + 1, verb |-> Verb, begun |-> "none"])
                     ELSE server
        /\ at' = IF Verb \in {"RETR", "STOR"} THEN "dial" ELSE "await"
        /\ UNCHANGED <<todo, result, handle, data, fault>>
     \/ /\ handle # "open"
        /\ IF Verb \in {"RETR", "STOR"}
           THEN Return(0) /\ UNCHANGED <<handle, data, fault>>
           ELSE Failed(response)
        /\ UNCHANGED <<sent, server>>
  /\ UNCHANGED <<call, response, match, buffered, local, kernel, xfer, wire, remote, calls>>

(* The data connection, made after the command was sent; when it fails, the *)
(* reply to the command stays unread.                                       *)
DialData ==
  /\ at = "dial" /\ call # "connect"
  /\ \/ /\ data' = sent /\ at' = "await" /\ wire' = <<>>
        /\ UNCHANGED <<todo, result, handle, fault>>
     \/ /\ May("nodata")
        /\ Failed(response) /\ UNCHANGED wire
  /\ UNCHANGED <<call, response, match, buffered, local, sent, kernel, server, xfer, remote, calls>>

(* readline takes what has arrived into the buffer.                         *)
Fill ==
  /\ at \in {"await", "rest"} /\ buffered = <<>> /\ kernel # <<>>
  /\ buffered' = kernel /\ kernel' = <<>>
  /\ UNCHANGED <<at, call, todo, result, handle, response, match, data, local, sent,
                 server, xfer, wire, remote, fault, calls>>

(* What readresp does with the response buffer after a readline.            *)
Examine(resp) ==
  \/ /\ at = "await" /\ resp.more
     /\ at' = "rest" /\ match' = resp.class
     /\ UNCHANGED <<todo, result, handle, data, fault>>
  \/ /\ at = "rest" /\ (resp.more \/ resp.class # match)
     /\ UNCHANGED <<at, match, todo, result, handle, data, fault>>
  \/ /\ ~resp.more /\ (at = "rest" => resp.class = match)
     /\ Judge(resp) /\ UNCHANGED match

ReadLine ==
  /\ at \in {"await", "rest"} /\ buffered # <<>>
  /\ buffered' = Tail(buffered) /\ response' = Head(buffered)
  /\ Examine(Head(buffered))
  /\ UNCHANGED <<call, local, sent, peer, calls>>

(* No line for five seconds: readline returns 0 and readresp examines what  *)
(* the response buffer held before.  Between the lines of one reply it only *)
(* asks again.                                                              *)
TimedOut ==
  /\ at = "await" /\ buffered = <<>> /\ kernel = <<>> /\ handle = "open"
  /\ "late" \in fault \/ (server = <<>> /\ xfer = NoXfer)
  /\ Examine(response)
  /\ UNCHANGED <<call, response, buffered, local, sent, peer, calls>>

HangUpSeen_Never == FALSE
HangUpSeen == handle = "dead" /\ buffered = <<>> /\ kernel = <<>>

(* The control connection has ended: readline returns -1.                   *)
EndOfReplies ==
  /\ at \in {"await", "rest"} /\ HangUpSeen
  /\ Failed(response)
  /\ UNCHANGED <<call, response, match, buffered, local, sent, peer, calls>>

-----------------------------------------------------------------------------
(* The data                                                                 *)

CloseData_NoReply(last) == data' = 0 /\ Return(1)
(* FtpClose: the data socket is closed and the last reply read.             *)
CloseData(last) == data' = 0 /\ at' = "await" /\ todo' = <<last>> /\ UNCHANGED result

(* The other end of the data socket is open, or will be.                    *)
Streaming == \/ xfer.stage = "open" /\ xfer.n = data
             \/ \E i \in DOMAIN server : server[i].n = data

(* FtpRead and fwrite; a read that fails counts as the end of the file.     *)
ReadData ==
  /\ at = "read"
  /\ \/ /\ wire # <<>>
        /\ local' = Append(local, Head(wire)) /\ wire' = Tail(wire)
        /\ UNCHANGED <<at, todo, result, data, fault>>
     \/ /\ wire # <<>> /\ May("disk")
        /\ CloseData(Head(todo)) /\ fault' = fault \cup {"disk"} /\ wire' = Tail(wire)
        /\ UNCHANGED local
     \/ /\ wire = <<>> /\ ~Streaming
        /\ CloseData(Head(todo))
        /\ UNCHANGED <<local, wire, fault>>
  /\ UNCHANGED <<call, handle, response, match, buffered, sent, kernel, server, xfer, remote, calls>>

(* fread and FtpWrite, until the local file has ended or the write fails.   *)
WriteData ==
  /\ at = "write"
  /\ \/ /\ local # <<>> /\ Streaming
        /\ wire' = Append(wire, Head(local)) /\ local' = Tail(local)
        /\ UNCHANGED <<at, todo, result, data>>
     \/ /\ local # <<>> /\ ~Streaming
        /\ CloseData(Abort)
        /\ UNCHANGED <<local, wire>>
     \/ /\ local = <<>>
        /\ CloseData(Head(todo))
        /\ UNCHANGED <<local, wire>>
  /\ UNCHANGED <<call, handle, response, match, buffered, sent, kernel, server, xfer,
                 remote, fault, calls>>

-----------------------------------------------------------------------------
(* The server                                                               *)

(* The replies a server may give to a command.  RETR and STOR are answered  *)
(* once there is a data connection, or none is to come.                     *)
Replies(verb) ==
  CASE verb = "dial" -> {"2", "4"}
    [] verb = "USER" -> {"2", "3", "5"}
    [] verb = "REST" -> {"3", "5"}
    [] verb \in {"RETR", "STOR"} -> IF data = 0 THEN {"4"} ELSE {"1", "5"}
    [] verb = "QUIT" -> {"2"}
    [] OTHER -> {"2", "5"}

(* One line of the answer to the oldest command; the greeting may be two.   *)
Answer ==
  /\ server # <<>> /\ xfer.verb = "none"
  /\ LET cmd == Head(server) IN
     /\ cmd.verb \in {"RETR", "STOR"} => at # "dial"
     /\ \E class \in IF cmd.begun = "none" THEN Replies(cmd.verb) ELSE {cmd.begun},
           more \in IF cmd.begun = "none" /\ cmd.verb = "dial" THEN BOOLEAN ELSE {FALSE} :
          /\ kernel' = Append(kernel, Line(cmd.n, class, more))
          /\ server' = IF more THEN <<[cmd EXCEPT !.begun = class]>> \o Tail(server)
                               ELSE Tail(server)
          /\ xfer' = IF class = "1" THEN [n |-> cmd.n, verb |-> cmd.verb, stage |-> "open"]
                                    ELSE xfer
  /\ UNCHANGED <<client, wire, remote, fault, calls>>

(* RETR: the blocks, and the end of the data connection.  STOR: the blocks  *)
(* until the client has closed it.                                          *)
Serve ==
  /\ xfer.stage = "open"
  /\ \/ /\ xfer.verb = "RETR" /\ remote # <<>>
        /\ wire' = Append(wire, Head(remote)) /\ remote' = Tail(remote)
        /\ UNCHANGED xfer
     \/ /\ xfer.verb = "STOR" /\ wire # <<>>
        /\ remote' = Append(remote, Head(wire)) /\ wire' = Tail(wire)
        /\ UNCHANGED xfer
     \/ /\ \/ xfer.verb = "RETR" /\ remote = <<>>
           \/ xfer.verb = "STOR" /\ wire = <<>> /\ data # xfer.n
        /\ xfer' = [xfer EXCEPT !.stage = "ended"]
        /\ UNCHANGED <<wire, remote>>
  /\ UNCHANGED <<client, kernel, server, fault, calls>>

(* The data connection breaks while the server uses it, or when a Get that  *)
(* stops early closes it with blocks unread.                                *)
BreakData ==
  /\ xfer.stage = "open"
  /\ May("reset") \/ (xfer.verb = "RETR" /\ data # xfer.n)
  /\ xfer' = [xfer EXCEPT !.stage = "broken"] /\ wire' = <<>>
  /\ UNCHANGED <<client, kernel, server, remote, fault, calls>>

(* The last blocks of a Get are lost after the server has handed them to    *)
(* its kernel and is content.                                               *)
LoseTail ==
  /\ May("reset")
  /\ at = "read" /\ wire # <<>> /\ ~Streaming
  /\ wire' = <<>> /\ fault' = fault \cup {"reset"}
  /\ UNCHANGED <<client, kernel, server, xfer, remote, calls>>

(* The last reply to a transfer says how it went.                           *)
Finish ==
  /\ xfer.stage \in {"ended", "broken"}
  /\ kernel' = Append(kernel, Line(xfer.n, IF xfer.stage = "ended" THEN "2" ELSE "4", FALSE))
  /\ xfer' = NoXfer
  /\ UNCHANGED <<client, server, wire, remote, fault, calls>>

(* The server is slow from now on.                                          *)
Stall ==
  /\ handle = "open" /\ May("late") /\ "late" \notin fault
  /\ fault' = fault \cup {"late"}
  /\ UNCHANGED <<client, peer, calls>>

(* The server ends the control connection, and with it a transfer; it may   *)
(* say so in a line that answers nothing (421).                             *)
HangUp ==
  /\ handle = "open" /\ at # "dial" /\ May("lost")
  /\ handle' = "dead" /\ server' = <<>> /\ fault' = fault \cup {"lost"}
  /\ \E k \in {kernel, Append(kernel, Line(0, "4", FALSE))} : kernel' = k
  /\ IF xfer.stage = "open"
     THEN xfer' = [xfer EXCEPT !.stage = "broken"] /\ wire' = <<>>
     ELSE UNCHANGED <<xfer, wire>>
  /\ UNCHANGED <<at, call, todo, result, response, match, buffered, data, local, sent,
                 remote, calls>>

-----------------------------------------------------------------------------
Step == \/ Connect \/ Send \/ DialData \/ Fill \/ ReadLine \/ TimedOut \/ EndOfReplies
        \/ ReadData \/ WriteData
ServerStep == Answer \/ Serve \/ BreakData \/ Finish
Next == Begin \/ OpenLocalFails \/ Step \/ ServerStep \/ LoseTail \/ Stall \/ HangUp

Spec == Init /\ [][Next]_vars

(* The call runs on in its thread, and the server does not stop for ever in *)
(* the middle of an answer or of a transfer.                                *)
FairSpec == Spec /\ WF_vars(Step) /\ WF_vars(ServerStep)

-----------------------------------------------------------------------------
(* A transfer whose reply stays unread, an answer that came late, and lines *)
(* left in the buffer by another connection put the client out of step.     *)
Unanswered == fault \cap {"late", "nodata", "uninit", "stale", "lost"}

(* INVARIANT.  As long as the server answers in time, nothing is outstanding *)
(* when a command is sent or a call has returned: the next reply that is    *)
(* judged is the command's own (readresp, FtpClose).                        *)
InStep ==
  handle = "open" /\ at \in {"idle", "send"} /\ Unanswered = {} =>
    buffered = <<>> /\ kernel = <<>> /\ server = <<>> /\ xfer = NoXfer

(* INVARIANT.  On a connection where the server has answered in time,       *)
(* success is true ("return 1 if successful, 0 otherwise", ftp.hpp:942): it *)
(* is the server's own answer to the last command of the call, and a        *)
(* transfer moved every block once, also from an offset and when the data   *)
(* connection may break, unless the disk is full or the kernel loses what   *)
(* it had taken (FtpXfer, FtpClose).                                        *)
SuccessTruthful ==
  at = "idle" /\ result = 1 /\ handle = "open" /\ Unanswered = {} =>
    /\ response.of = sent /\ response.class = "2"
    /\ fault \cap {"disk", "reset"} = {} =>
         (call = "get" => local = File) /\ (call = "put" => remote = File)

(* PROPERTY.  Every call returns, with a server that is slow, dies or       *)
(* breaks the data connection, if it does not stop inside a transfer.  The  *)
(* exception: after a timeout readresp may take what an earlier connection  *)
(* left in the response buffer for the first line of several, and wait for  *)
(* a closing line nobody sends.                                             *)
CallsReturn == at # "idle" ~> at = "idle" \/ (at = "rest" /\ "late" \in fault)
=============================================================================
